----------------------------- MODULE NativeBridge -----------------------------
(***************************************************************************)
(* The JNI bridge: jni_interface.cpp over DuelEngine (duel_engine.cpp),    *)
(* with its card table, its scripts and the Java log.                      *)
(*                                                                         *)
(* Java calls the bridge on one thread, so one native call runs at a time. *)
(* A call that enters ygopro-core is not atomic: the core calls back for   *)
(* card data, for scripts and to log before it returns.  `call` is the     *)
(* native call in progress; while it is inside the core the callbacks are  *)
(* steps of their own.                                                     *)
(*                                                                         *)
(* The core is external.  A duel is the address of a core object; the same *)
(* address may be handed out again once the object was destroyed.          *)
(***************************************************************************)
EXTENDS CardDatabase, ScriptProvider, FiniteSets

CONSTANTS
    Addresses,      \* the addresses the core allocates duels at
    NoDuel,         \* the null handle
    Bootstrap,      \* <<"constant.lua", "utility.lua">>
    Requests,       \* the scripts the core asks for: of cards, or loaded by scripts
    Null,           \* the null element of a Java array, and the null array
    Configurations, \* [dbs, scripts]: the arrays Java may create an engine with
    Databases,      \* the card databases there may be
    Disks,          \* the script files there may be at first
    MaxEngines,     \* bound on the calls of nCreateEngine
    MaxChanges      \* bound on the changes of script files on disk

ASSUME AddressAssumption == NoDuel \notin Addresses
ASSUME RequestAssumption == Requests \subseteq Names
ASSUME BootstrapAssumption == Bootstrap \in Seq(Names)
ASSUME BoundsAssumption == MaxEngines \in Nat /\ MaxChanges \in Nat
ASSUME DiskAssumption == Disks \subseteq [Dirs -> [Names -> FileStates]]

\* jstringArrayToVector: null gives no strings, null elements are left out.
Strings(array) ==
    IF array = Null THEN <<>> ELSE SelectSeq(array, LAMBDA string : string # Null)

\* The directories and files of a configuration are ones the model knows.
ASSUME ConfigurationAssumption ==
    \A configuration \in Configurations :
        Strings(configuration.scripts) \in Seq(Dirs) /\ Strings(configuration.dbs) \in Seq(DbPaths)

ASSUME DatabaseAssumption ==
    \A found \in Databases : \A path \in DbPaths :
        /\ found[path] \in [opens : BOOLEAN, prepares : BOOLEAN, rows : Seq(Rows), delivers : Nat]
        /\ found[path].delivers <= Len(found[path].rows)

VARIABLES
    engine,         \* a DuelEngine object exists
    opened,         \* history: the database paths it was made with
    contexts,       \* contexts_: the handles of the duels of the engine
    alive,          \* external: the addresses where the core has a duel
    sessions,       \* Java: the handles of the open DuelSessions
    call,           \* the native call in progress
    misuse,         \* history: a core function was given an address without a duel
    engines,        \* calls of nCreateEngine so far
    changes         \* changes of script files so far

duelVars == <<contexts, alive, sessions, misuse>>
engineVars == <<engine, opened>>
boundVars == <<engines, changes>>
vars == <<logVars, cardVars, scriptVars, duelVars, boundVars, engineVars, call, databases, files>>

\* Where the call in progress is: in Java, inside OCG_CreateDuel, at the bootstrap
\* scripts it still has to load, or inside another function of the core.
Stages == {"java", "making", "loading", "core"}

\* failed: the bootstrap scripts this call could not load.
NoCall == [at |-> "java", duel |-> NoDuel, todo |-> <<>>, failed |-> {}]

\* Java may make a call: none is in progress and no exception is on its way.
JavaRuns == call = NoCall /\ ~exception

\* The core runs on this thread and may call back.
InsideCore ==
    \/ call.at \in {"making", "core"}
    \/ call.at = "loading" /\ call.todo # Bootstrap

\* A core function is called on the duels.
Touch(duels) == misuse' = (misuse \/ ~(duels \subseteq alive))

-----------------------------------------------------------------------------
(* Engine lifecycle *)

\* DuelEngine::init on a new engine whose databases can be read.
EngineInit(dbPaths, scriptPaths) ==
    /\ engine' = TRUE
    /\ opened' = dbPaths
    /\ cards' = OpenedCards(dbPaths)
    /\ unknownCodes' = {}
    /\ contexts' = {}
    /\ SetSearchPaths(scriptPaths)
    /\ ForgetLines

\* init succeeds, or the engine is deleted and Java gets an exception.
nCreateEngine(configuration) ==
    LET dbPaths == Strings(configuration.dbs)
    IN
    /\ JavaRuns /\ ~engine
    /\ engines < MaxEngines
    /\ engines' = engines + 1
    /\ IF Opens(dbPaths)
       THEN EngineInit(dbPaths, Strings(configuration.scripts)) /\ UNCHANGED exception
       ELSE /\ exception' = TRUE
            /\ UNCHANGED <<engineVars, cards, unknownCodes, contexts, scriptVars, told>>
    /\ UNCHANGED <<hook, errors, alive, sessions, misuse, call, databases, files, changes>>

\* The exception of a failed nCreateEngine arrives in Java.
CatchException ==
    /\ exception
    /\ exception' = FALSE
    /\ UNCHANGED <<hook, told, errors, cardVars, scriptVars, duelVars, boundVars>>
    /\ UNCHANGED <<engineVars, call, databases, files>>

\* DuelEngine::shutdown destroys the duels still alive and empties the card table.
EngineShutdown ==
    /\ Touch(contexts)
    /\ alive' = alive \ contexts
    /\ contexts' = {}
    /\ Close

\* The engine goes with all it holds.  Java drops its sessions with it
\* (DuelManager.shutdown).
nDestroyEngine ==
    /\ JavaRuns /\ engine
    /\ EngineShutdown
    /\ engine' = FALSE
    /\ sessions' = {}
    /\ UNCHANGED <<logVars, scriptVars, boundVars, opened, call, databases, files>>

-----------------------------------------------------------------------------
(* Duel lifecycle *)

\* Java enters createDuel, which calls OCG_CreateDuel.
nCreateDuel ==
    /\ JavaRuns /\ engine
    /\ call' = [NoCall EXCEPT !.at = "making"]
    /\ errors' = {}
    /\ UNCHANGED <<hook, exception, told, cardVars, scriptVars, duelVars, boundVars>>
    /\ UNCHANGED <<engineVars, databases, files>>

\* Mutant: the status of OCG_CreateDuel is not looked at.
CreationFailsUnseen ==
    /\ call.at = "making"
    /\ call' = NoCall
    /\ sessions' = sessions \cup {call.duel}
    /\ UNCHANGED <<logVars, cardVars, scriptVars, contexts, alive, misuse, boundVars>>
    /\ UNCHANGED <<engineVars, databases, files>>

\* OCG_CreateDuel fails: Java gets 0 and DuelSession throws.
CreationFails ==
    /\ call.at = "making"
    /\ call' = NoCall
    /\ UNCHANGED <<logVars, cardVars, scriptVars, duelVars, boundVars, engineVars, databases, files>>

\* OCG_CreateDuel succeeds: its duel is recorded before the bootstrap scripts are loaded.
DuelCreated(duel) ==
    /\ call.at = "making"
    /\ duel \notin alive
    /\ alive' = alive \cup {duel}
    /\ contexts' = contexts \cup {duel}
    /\ call' = [call EXCEPT !.at = "loading", !.duel = duel, !.todo = Bootstrap]
    /\ UNCHANGED <<logVars, cardVars, scriptVars, boundVars, sessions, misuse>>
    /\ UNCHANGED <<engineVars, databases, files>>

\* The next bootstrap script; what becomes of it does not stop createDuel.
LoadBootstrap(accepted) ==
    /\ call.at = "loading" /\ call.todo # <<>>
    /\ LET name == Head(call.todo)
           loaded == Source(name) # Missing /\ accepted
       IN /\ LoadScript(name, OCG_LOG_TYPE_ERROR, accepted)
          /\ call' = [call EXCEPT !.todo = Tail(@),
                                  !.failed = IF loaded THEN @ ELSE @ \cup {name}]
    /\ Touch({call.duel})
    /\ UNCHANGED <<cardVars, boundVars, contexts, alive, sessions, engineVars, databases, files>>

\* Java gets the handle, whatever became of the bootstrap scripts.
CreateReturns ==
    /\ call.at = "loading" /\ call.todo = <<>>
    /\ sessions' = sessions \cup {call.duel}
    /\ call' = NoCall
    /\ UNCHANGED <<logVars, cardVars, scriptVars, boundVars, contexts, alive, misuse>>
    /\ UNCHANGED <<engineVars, databases, files>>

\* Mutant: the record of the duel is not erased.
nDestroyDuelKept(duel) ==
    /\ JavaRuns /\ duel \in sessions
    /\ sessions' = sessions \ {duel}
    /\ Touch({duel})
    /\ alive' = alive \ {duel}
    /\ UNCHANGED <<logVars, cardVars, scriptVars, boundVars, contexts>>
    /\ UNCHANGED <<engineVars, call, databases, files>>

\* DuelSession.close.  A handle that is not recorded is ignored.
nDestroyDuel(duel) ==
    /\ JavaRuns /\ duel \in sessions
    /\ sessions' = sessions \ {duel}
    /\ IF duel \in contexts
       THEN /\ Touch({duel})
            /\ alive' = alive \ {duel}
            /\ contexts' = contexts \ {duel}
       ELSE UNCHANGED <<contexts, alive, misuse>>
    /\ UNCHANGED <<logVars, cardVars, scriptVars, boundVars, engineVars, call, databases, files>>

-----------------------------------------------------------------------------
(* Calls into a duel: the handle goes to the core as it is, unchecked. *)

\* nDuelNewCard, nStartDuel and nDuelProcess: the core may call back before it returns.
Enter(duel) ==
    /\ JavaRuns /\ duel \in sessions
    /\ Touch({duel})
    /\ call' = [NoCall EXCEPT !.at = "core", !.duel = duel]
    /\ errors' = {}
    /\ UNCHANGED <<hook, exception, told, cardVars, scriptVars, boundVars, contexts, alive>>
    /\ UNCHANGED <<sessions, engineVars, databases, files>>

CallReturns ==
    /\ call.at = "core"
    /\ call' = NoCall
    /\ UNCHANGED <<logVars, cardVars, scriptVars, duelVars, boundVars, engineVars, databases, files>>

\* nDuelGetMessage, nDuelSetResponse and the queries: no callback.  What the core answers
\* is copied at once, an empty buffer to null, and is left out.
Consult(duel) ==
    /\ JavaRuns /\ duel \in sessions
    /\ Touch({duel})
    /\ UNCHANGED <<logVars, cardVars, scriptVars, boundVars, contexts, alive, sessions>>
    /\ UNCHANGED <<engineVars, call, databases, files>>

-----------------------------------------------------------------------------
(* Callbacks *)

ReadCard(code) ==
    /\ InsideCore
    /\ CardReader(code)
    /\ UNCHANGED <<scriptVars, duelVars, boundVars, engineVars, call, databases, files>>

\* scriptReader: a card without a script is playable, so a miss is a warning.
ScriptReader(name, accepted) ==
    /\ InsideCore
    /\ LoadScript(name, LOG_TYPE_BRIDGE_WARN, accepted)
    /\ UNCHANGED <<cardVars, duelVars, boundVars, engineVars, call, databases, files>>

-----------------------------------------------------------------------------
(* Somebody edits the script directories while the server runs. *)

FilesChange(dir, name, state) ==
    /\ changes < MaxChanges
    /\ changes' = changes + 1
    /\ files' = [files EXCEPT ![dir][name] = state]
    /\ UNCHANGED <<logVars, cardVars, scriptVars, duelVars, engineVars, call, databases, engines>>

-----------------------------------------------------------------------------

Init ==
    /\ LogInit
    /\ databases \in Databases
    /\ files \in Disks
    /\ cards = NoCards /\ unknownCodes = {}
    /\ searchPaths = <<>> /\ resolved = NothingSeen /\ served = NothingServed
    /\ engine = FALSE /\ opened = <<>>
    /\ contexts = {} /\ alive = {} /\ sessions = {}
    /\ call = NoCall
    /\ misuse = FALSE
    /\ engines = 0 /\ changes = 0

Next ==
    \/ \E configuration \in Configurations : nCreateEngine(configuration)
    \/ CatchException
    \/ nDestroyEngine
    \/ nCreateDuel
    \/ CreationFails
    \/ \E duel \in Addresses : DuelCreated(duel)
    \/ \E accepted \in BOOLEAN : LoadBootstrap(accepted)
    \/ CreateReturns
    \/ \E duel \in sessions :
        \/ nDestroyDuel(duel)
        \/ Enter(duel)
        \/ Consult(duel)
    \/ CallReturns
    \/ \E code \in Codes : ReadCard(code)
    \/ \E name \in Requests, accepted \in BOOLEAN : ScriptReader(name, accepted)
    \/ \E dir \in Dirs, name \in Names, state \in FileStates : FilesChange(dir, name, state)

Spec == Init /\ [][Next]_vars

-----------------------------------------------------------------------------
(* Properties *)

Calls == [at : Stages, duel : Addresses \cup {NoDuel}, todo : Seq(Names), failed : SUBSET Names]

\* Every variable has the values its C++ or Java counterpart can have.
TypeOK ==
    /\ LogTypeOK
    /\ unknownCodes \subseteq Codes
    /\ files \in [Dirs -> [Names -> FileStates]]
    /\ searchPaths \in Seq(Dirs)
    /\ resolved \in [Names -> Dirs \cup {Missing, Unseen}]
    /\ served \in [Names -> SUBSET Dirs]
    /\ engine \in BOOLEAN
    /\ contexts \subseteq Addresses /\ alive \subseteq Addresses /\ sessions \subseteq Addresses
    /\ call \in Calls
    /\ misuse \in BOOLEAN
    /\ engines \in 0..MaxEngines /\ changes \in 0..MaxChanges

\* The duel createDuel has recorded and not yet handed to Java.
BeingMade == IF call.at = "loading" THEN {call.duel} ELSE {}

\* The engine's records, the core's duels and Java's sessions never part: no duel leaks
\* in the core, none is destroyed twice, no call goes to a duel that is gone, although
\* addresses are used again (contexts_ in duel_engine.cpp).
DuelsOwned ==
    /\ alive = contexts
    /\ contexts = sessions \cup BeingMade
    /\ BeingMade \cap sessions = {}
    /\ ~engine => contexts = {}
    /\ ~misuse

\* While an engine lives the text of a script comes from one directory, the one that is
\* remembered, however the files change (ScriptProvider::readFile).
OneSource == \A name \in Names : served[name] \subseteq {resolved[name]}

Told(name) == told[NotFound(name, OCG_LOG_TYPE_ERROR)] + told[NotFound(name, LOG_TYPE_BRIDGE_WARN)]

\* What an engine remembers as missing was handed to the log exactly once, and nothing
\* else was: no miss is silent from the start, no miss floods the log (resolved_ and
\* unknownCodes_).
ToldOnce ==
    engine =>
        /\ \A name \in Names : Told(name) = IF resolved[name] = Missing THEN 1 ELSE 0
        /\ \A code \in Codes : told[UnknownCode(code)] = IF code \in unknownCodes THEN 1 ELSE 0

\* A Java exception never waits behind the engine's stack: only a failed nCreateEngine
\* leaves one, with no engine made and no call in progress (javaLog, nCreateEngine).
NoStrayException == exception => call = NoCall /\ ~engine

\* A failure of a bootstrap script is logged as an error by the call that fails: the
\* comment in DuelEngine::createDuel.
BootstrapFailureLogged == call.failed \subseteq errors

-----------------------------------------------------------------------------
(* The card table against a definition of its own: what the columns mean. *)

\* The rows of all files in the order they are read, and the one that counts for a code.
AllRows(paths) == FlattenSeq([i \in DOMAIN paths |-> RowsRead(paths[i])])
CodeOf(row) == row.id % Uint32Base
LastRow(rows, code) ==
    LET of == {i \in DOMAIN rows : CodeOf(rows[i]) = code}
    IN rows[CHOOSE i \in of : \A j \in of : j <= i]

\* Some four slots make up the column; the card has those that are not zero, then a zero.
SetcodesMean(setcodes, column) ==
    \E slots \in [1..4 -> 0..(WordBase - 1)] :
        /\ slots[1] + WordBase * (slots[2] + WordBase * (slots[3] + WordBase * slots[4]))
            = column % Uint64Base
        /\ setcodes = Append(SelectSeq(slots, LAMBDA slot : slot # 0), 0)

IsInt32Of(n, column) ==
    /\ (n - column) % Uint32Base = 0
    /\ 2 * n >= -Uint32Base /\ 2 * n < Uint32Base

Means(card, row) ==
    /\ card.code = CodeOf(row)
    /\ card.alias = row.alias % Uint32Base
    /\ SetcodesMean(card.setcodes, row.setcode)
    /\ card.type = row.type % Uint32Base
    /\ card.level + WordBase * (card.rscale + ByteBase * card.lscale) = row.level % Uint32Base
    /\ card.level < WordBase /\ card.rscale < ByteBase
    /\ IsInt32Of(card.attack, row.atk)
    /\ LET link == \E rest, high \in 0..Uint32Base :
                       /\ row.type % Uint32Base = high * 2 * TYPE_LINK + TYPE_LINK + rest
                       /\ rest < TYPE_LINK
       IN IF link THEN card.defense = 0 /\ card.link_marker = row.def % Uint32Base
                  ELSE IsInt32Of(card.defense, row.def) /\ card.link_marker = 0

\* An engine gives the core, for every code, the card its files give it last, decoded
\* column by column, and a blank one for the codes they do not have.
CardsMeanFiles ==
    engine =>
        LET rows == AllRows(opened)
            known == {CodeOf(rows[i]) : i \in DOMAIN rows}
        IN /\ opened # <<>> /\ \A path \in ToSet(opened) : Readable(path)
           /\ \A code \in known : Means(CardData(code), LastRow(rows, code))
           /\ \A code \in Codes \ known : CardData(code) = Blank

-----------------------------------------------------------------------------
(* What the bridge promises *)

Contract == INSTANCE BridgeContract WITH
    Duels <- Addresses, Scripts <- Names, Outcomes <- Dirs \cup {Missing},
    up <- engine, table <- cards, duels <- alive, verdict <- resolved

\* The bridge keeps the contract: see BridgeContract.
ImplementsContract == Contract!Spec
=============================================================================
