------------------------------- MODULE JavaLog -------------------------------
(***************************************************************************)
(* java_log.cpp: the one way a line gets from native code to the Java log. *)
(*                                                                         *)
(* javaLog may be called anywhere inside the engine.  It looks the Java    *)
(* hook up lazily, may fail to find it or to build the string, and may     *)
(* call a listener that throws.  Whatever happens it must return with no   *)
(* Java exception pending, since the engine's stack is above it.  Every    *)
(* caller came from Java through the bridge, so that the early returns for *)
(* a missing VM or a thread that is not attached cannot be taken.          *)
(***************************************************************************)
EXTENDS Naturals

CONSTANTS
    Codes,      \* card codes the engine asks for
    Names       \* script names the engine asks for

VARIABLES
    hook,       \* g_onNativeLog # nullptr: the Java hook was found
    exception,  \* a Java exception is pending on the thread
    told,       \* history: once-only line -> how often it was handed to javaLog
    errors      \* history: what the error lines of the native call in progress are about

logVars == <<hook, exception, told, errors>>

\* Log types: 0 is OCG_LOG_TYPE_ERROR, LOG_TYPE_BRIDGE_WARN is the bridge's own.
OCG_LOG_TYPE_ERROR == 0
LOG_TYPE_BRIDGE_WARN == 4

UnknownCode(code) == [type |-> LOG_TYPE_BRIDGE_WARN, about |-> "unknown code", of |-> code]
NotFound(name, type) == [type |-> type, about |-> "not found", of |-> name]
CannotBeRead(name) == [type |-> LOG_TYPE_BRIDGE_WARN, about |-> "no longer readable", of |-> name]
Rejected(name) == [type |-> OCG_LOG_TYPE_ERROR, about |-> "rejected by the engine", of |-> name]

\* The lines the bridge means to write once in the life of an engine.
OnceLines ==
    {UnknownCode(code) : code \in Codes}
        \cup {NotFound(name, type) : name \in Names,
                                     type \in {OCG_LOG_TYPE_ERROR, LOG_TYPE_BRIDGE_WARN}}

Untold == [line \in OnceLines |-> 0]

\* Counting stops at MaxTold: no property tells higher counts apart.
MaxTold == 2
CountOne(n) == IF n < MaxTold THEN n + 1 ELSE n

-----------------------------------------------------------------------------

\* What can come of a call: FindClass or GetStaticMethodID fails, NewStringUTF
\* fails, the hook runs and returns, or the hook throws.
Outcomes == {"no class", "no method", "no string", "heard", "thrown"}
Unresolved == {"no class", "no method"}

\* A hook once found is kept, so it is not looked up again.
ResolveHook(outcome) == ~hook \/ outcome \notin Unresolved

\* Mutant: what the hook throws is left pending.
ClearedLookups == {"no class", "no method", "no string"}

\* The failures after which ExceptionClear is called.
Cleared == {"no class", "no method", "no string", "thrown"}

JavaLog(line) ==
    \E outcome \in Outcomes :
        /\ ResolveHook(outcome)
        /\ hook' = (outcome \notin Unresolved)
        /\ exception' = (outcome # "heard" /\ outcome \notin Cleared)
        /\ told' = IF line \in OnceLines THEN [told EXCEPT ![line] = CountOne(@)] ELSE told
        /\ errors' = IF line.type = OCG_LOG_TYPE_ERROR THEN errors \cup {line.of} ELSE errors

\* The lines a fresh engine has written: its records start empty.
ForgetLines == told' = Untold

LogTypeOK ==
    /\ hook \in BOOLEAN
    /\ exception \in BOOLEAN
    /\ told \in [OnceLines -> 0..MaxTold]
    /\ errors \subseteq Names

LogInit ==
    /\ hook = FALSE
    /\ exception = FALSE
    /\ told = Untold
    /\ errors = {}
=============================================================================
