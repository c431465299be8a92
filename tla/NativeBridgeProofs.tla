-------------------------- MODULE NativeBridgeProofs --------------------------
(***************************************************************************)
(* What holds of the native bridge for every number of duels, scripts,     *)
(* cards and directories: its types, who owns a duel, that a script has    *)
(* one source, that a miss is told once, that no Java exception is left    *)
(* behind, that the bridge implements BridgeContract, and that its cards   *)
(* mean what the files say.                                                *)
(*                                                                         *)
(* One inductive invariant, BridgeInv, carries all but the last.  What it  *)
(* adds to the properties is Phases: what each stage of a native call      *)
(* means.  The cards have an invariant of their own, CardsInv: the table   *)
(* of an engine is of all rows of its files (TableOf), by induction over   *)
(* rows and files; what an entry means is arithmetic (EntryMeans).         *)
(***************************************************************************)
EXTENDS NativeBridge, FoldLemmas

-----------------------------------------------------------------------------
(* Lines of the log *)

\* Writing a line leaves no exception and keeps the types of the log.
LEMMA JavaLogSafe ==
    ASSUME LogTypeOK, NEW line, JavaLog(line), line.type = OCG_LOG_TYPE_ERROR => line.of \in Names
    PROVE  LogTypeOK' /\ ~exception'
<1>1. PICK outcome \in Outcomes :
        /\ hook' = (outcome \notin Unresolved)
        /\ exception' = (outcome # "heard" /\ outcome \notin Cleared)
        /\ told' = IF line \in OnceLines THEN [told EXCEPT ![line] = CountOne(@)] ELSE told
        /\ errors' = IF line.type = OCG_LOG_TYPE_ERROR THEN errors \cup {line.of} ELSE errors
  BY DEF JavaLog
<1>2. ~exception'
  BY <1>1 DEF Outcomes, Cleared
<1>3. hook' \in BOOLEAN /\ exception' \in BOOLEAN
  BY <1>1
<1>4. errors' \subseteq Names
  BY <1>1 DEF LogTypeOK
<1>5. told' \in [OnceLines -> 0..MaxTold]
  <2>1. CASE line \in OnceLines
    <3>1. told \in [OnceLines -> 0..MaxTold] /\ told[line] \in 0..MaxTold
      BY <2>1 DEF LogTypeOK
    <3>2. CountOne(told[line]) \in 0..MaxTold
      BY <3>1 DEF CountOne, MaxTold
    <3>3. told' = [told EXCEPT ![line] = CountOne(told[line])]
      BY <1>1, <2>1
    <3> QED
      BY <3>1, <3>2, <3>3
  <2>2. CASE line \notin OnceLines
    BY <1>1, <2>2 DEF LogTypeOK
  <2> QED
    BY <2>1, <2>2
<1> QED
  BY <1>2, <1>3, <1>4, <1>5 DEF LogTypeOK

\* Writing a line counts it, and no other.
LEMMA LineCounted ==
    ASSUME LogTypeOK, NEW line, JavaLog(line)
    PROVE  /\ \A other \in OnceLines : other # line => told'[other] = told[other]
           /\ line \in OnceLines => told'[line] = CountOne(told[line])
BY DEF JavaLog, LogTypeOK

\* The lines told once are two for a script and one for a card, and they differ.
LEMMA LinesDiffer ==
    /\ \A code \in Codes : UnknownCode(code) \in OnceLines
    /\ \A name \in Names : /\ NotFound(name, OCG_LOG_TYPE_ERROR) \in OnceLines
                           /\ NotFound(name, LOG_TYPE_BRIDGE_WARN) \in OnceLines
                           /\ NotFound(name, OCG_LOG_TYPE_ERROR) # NotFound(name, LOG_TYPE_BRIDGE_WARN)
                           /\ CannotBeRead(name) \notin OnceLines
                           /\ Rejected(name) \notin OnceLines
<1>1. \A code \in Codes : UnknownCode(code) \in OnceLines
  BY DEF OnceLines
<1>2. \A name \in Names : /\ NotFound(name, OCG_LOG_TYPE_ERROR) \in OnceLines
                          /\ NotFound(name, LOG_TYPE_BRIDGE_WARN) \in OnceLines
  BY DEF OnceLines
<1>3. \A name : NotFound(name, OCG_LOG_TYPE_ERROR) # NotFound(name, LOG_TYPE_BRIDGE_WARN)
  <2>1. \A name, type : NotFound(name, type).type = type
    BY DEF NotFound
  <2>2. OCG_LOG_TYPE_ERROR # LOG_TYPE_BRIDGE_WARN
    BY DEF OCG_LOG_TYPE_ERROR, LOG_TYPE_BRIDGE_WARN
  <2> QED
    BY <2>1, <2>2
<1>4. \A line \in OnceLines : line.about \in {"unknown code", "not found"}
  <2> TAKE line \in OnceLines
  <2>1. (\E code : line = UnknownCode(code)) \/ (\E name, type : line = NotFound(name, type))
    BY DEF OnceLines
  <2>2. \A code : UnknownCode(code).about = "unknown code"
    BY DEF UnknownCode
  <2>3. \A name, type : NotFound(name, type).about = "not found"
    BY DEF NotFound
  <2> QED
    BY <2>1, <2>2, <2>3
<1>5. \A name : /\ CannotBeRead(name).about \notin {"unknown code", "not found"}
                /\ Rejected(name).about \notin {"unknown code", "not found"}
  BY DEF CannotBeRead, Rejected
<1> QED
  BY <1>1, <1>2, <1>3, <1>4, <1>5

\* A line about one card or script is not a line about another.
LEMMA LinesApart ==
    /\ \A a, b : a # b => UnknownCode(a) # UnknownCode(b)
    /\ \A a, b, s, t : a # b => NotFound(a, s) # NotFound(b, t)
    /\ \A a, b, t : UnknownCode(a) # NotFound(b, t)
BY DEF UnknownCode, NotFound

-----------------------------------------------------------------------------
(* Scripts *)

ScriptTypes ==
    /\ searchPaths \in Seq(Dirs)
    /\ resolved \in [Names -> Dirs \cup {Missing, Unseen}]
    /\ served \in [Names -> SUBSET Dirs]

MissesTold == \A name \in Names : Told(name) = IF resolved[name] = Missing THEN 1 ELSE 0
CodesTold ==
    \A code \in Codes : told[UnknownCode(code)] = IF code \in unknownCodes THEN 1 ELSE 0

\* The search ends at a directory of the search path or with a miss.
LEMMA FirstMatchTyped ==
    ASSUME searchPaths \in Seq(Dirs), NEW name
    PROVE  FirstMatch(name) \in Dirs \cup {Missing}
<1> DEFINE I == {i \in 1..Len(searchPaths) : ReadPath(searchPaths[i], name)}
<1>1. CASE I = {}
  BY <1>1 DEF FirstMatch, SelectInSeq
<1>2. CASE I # {}
  <2>1. I \subseteq Nat
    OBVIOUS
  <2>2. \E x \in I : \A y \in I : ~ (<<y, x>> \in OpToRel(<, Nat))
    BY <1>2, <2>1, WFMin, NatLessThanWellFounded, Zenon
  <2>3. PICK x \in I : \A y \in I : ~ (<<y, x>> \in OpToRel(<, Nat))
    BY <2>2
  <2> HIDE DEF I
  <2>4. \A y \in I : ~ (y < x)
    BY <2>1, <2>3, Zenon DEF OpToRel
  <2> USE DEF I
  <2>5. \A y \in I : x <= y
    BY <2>4
  <2>6. Min(I) \in I
    BY <2>5 DEF Min
  <2>7. SelectInSeq(searchPaths, LAMBDA dir : ReadPath(dir, name)) = Min(I)
    BY <1>2 DEF SelectInSeq
  <2> QED
    BY <2>6, <2>7 DEF FirstMatch
<1> QED
  BY <1>1, <1>2

\* A lookup ends the same way, at the remembered directory if there is one.
LEMMA SourceTyped ==
    ASSUME ScriptTypes, NEW name \in Names
    PROVE  /\ Source(name) \in Dirs \cup {Missing}
           /\ resolved[name] \in Dirs => Source(name) \in {resolved[name], Missing}
           /\ resolved[name] = Missing => Source(name) = Missing
<1>1. FirstMatch(name) \in Dirs \cup {Missing}
  BY FirstMatchTyped DEF ScriptTypes
<1>2. resolved[name] \in Dirs \cup {Missing, Unseen}
  BY DEF ScriptTypes
<1> QED
  BY <1>1, <1>2, LookupAssumption DEF Source

\* The first lookup of a name settles it, and no other name.
LEMMA Settled ==
    ASSUME ScriptTypes, NEW name \in Names, Remember(name)
    PROVE  /\ resolved' \in [Names -> Dirs \cup {Missing, Unseen}]
           /\ resolved'[name] = IF resolved[name] = Unseen THEN Source(name) ELSE resolved[name]
           /\ \A other \in Names : other # name => resolved'[other] = resolved[other]
<1>1. Source(name) \in Dirs \cup {Missing}
  BY SourceTyped
<1>2. resolved' = [resolved EXCEPT ![name] = IF resolved[name] = Unseen THEN Source(name)
                                             ELSE resolved[name]]
  BY DEF Remember
<1>3. resolved \in [Names -> Dirs \cup {Missing, Unseen}]
  BY DEF ScriptTypes
<1> HIDE DEF Source
<1> QED
  BY <1>1, <1>2, <1>3

\* Looking a script up keeps the types, leaves no exception and keeps its one source.
LEMMA LoadScriptTyped ==
    ASSUME LogTypeOK, ScriptTypes, ~exception, OneSource,
           NEW name \in Names, NEW type \in {OCG_LOG_TYPE_ERROR, LOG_TYPE_BRIDGE_WARN},
           NEW accepted \in BOOLEAN, LoadScript(name, type, accepted)
    PROVE  LogTypeOK' /\ ScriptTypes' /\ ~exception' /\ OneSource'
<1>1. Remember(name) /\ searchPaths' = searchPaths
  BY DEF LoadScript
<1>2. LogTypeOK' /\ ~exception'
  <2>1. CASE UNCHANGED logVars
    BY <2>1 DEF logVars, LogTypeOK
  <2>2. CASE JavaLog(NotFound(name, type))
    BY <2>2, JavaLogSafe DEF NotFound
  <2>3. CASE JavaLog(CannotBeRead(name))
    BY <2>3, JavaLogSafe DEF CannotBeRead
  <2>4. CASE JavaLog(Rejected(name))
    BY <2>4, JavaLogSafe DEF Rejected
  <2>5. \/ UNCHANGED logVars \/ JavaLog(NotFound(name, type))
        \/ JavaLog(CannotBeRead(name)) \/ JavaLog(Rejected(name))
    BY DEF LoadScript, ReportMiss, RunScript
  <2> QED
    BY <2>1, <2>2, <2>3, <2>4, <2>5
<1>3. CASE Source(name) = Missing
  <2>1. served' = served
    BY <1>3 DEF LoadScript
  <2>2. ScriptTypes'
    BY <1>1, <2>1, Settled DEF ScriptTypes
  <2>3. served[name] \subseteq {resolved'[name]}
    BY <1>1, Settled, LookupAssumption DEF OneSource, ScriptTypes
  <2>4. OneSource'
    BY <1>1, <2>1, <2>3, Settled DEF OneSource
  <2> QED
    BY <1>2, <2>2, <2>4
<1>4. CASE Source(name) # Missing
  <2>1. served' = [served EXCEPT ![name] = served[name] \cup {Source(name)}]
    BY <1>4 DEF LoadScript, RunScript
  <2>2. Source(name) \in Dirs /\ resolved'[name] = Source(name)
    BY <1>1, <1>4, SourceTyped, Settled DEF ScriptTypes
  <2>3. served[name] \subseteq {Source(name)}
    BY <1>4, <2>2, SourceTyped, LookupAssumption DEF OneSource, ScriptTypes
  <2>4. served' \in [Names -> SUBSET Dirs]
    BY <2>1, <2>2 DEF ScriptTypes
  <2>5. ScriptTypes'
    BY <1>1, <2>4, Settled DEF ScriptTypes
  <2>6. served'[name] \subseteq {resolved'[name]}
    BY <2>1, <2>2, <2>3 DEF ScriptTypes
  <2>7. ASSUME NEW other \in Names, other # name
        PROVE  served'[other] \subseteq {resolved'[other]}
    BY <1>1, <2>1, <2>7, Settled DEF OneSource, ScriptTypes
  <2>8. OneSource'
    BY <2>6, <2>7 DEF OneSource
  <2> QED
    BY <1>2, <2>5, <2>8
<1> QED
  BY <1>3, <1>4

\* A lookup tells a first miss once, a later one not at all, and touches no other count.
LEMMA LoadScriptTells ==
    ASSUME LogTypeOK, ScriptTypes, MissesTold, CodesTold, UNCHANGED unknownCodes,
           NEW name \in Names, NEW type \in {OCG_LOG_TYPE_ERROR, LOG_TYPE_BRIDGE_WARN},
           NEW accepted \in BOOLEAN, LoadScript(name, type, accepted)
    PROVE  MissesTold' /\ CodesTold'
<1>1. Remember(name)
  BY DEF LoadScript
<1>2. \A other \in Names : other # name => resolved'[other] = resolved[other]
  BY <1>1, Settled
<1>3. CASE resolved[name] = Unseen /\ Source(name) = Missing
  <2>1. JavaLog(NotFound(name, type))
    BY <1>3 DEF LoadScript, ReportMiss
  <2>2. NotFound(name, type) \in OnceLines
    BY LinesDiffer
  <2>3. told'[NotFound(name, type)] = CountOne(told[NotFound(name, type)])
    BY <2>1, <2>2, LineCounted
  <2>4. \A line \in OnceLines : line # NotFound(name, type) => told'[line] = told[line]
    BY <2>1, LineCounted
  <2>5. CodesTold'
    BY <2>4, LinesDiffer, LinesApart DEF CodesTold
  <2>6. ASSUME NEW other \in Names, other # name PROVE Told(other)' = Told(other)
    BY <2>4, <2>6, LinesDiffer, LinesApart DEF Told
  <2>7. Told(name) = 0
    BY <1>3, LookupAssumption DEF MissesTold
  <2>8. told[NotFound(name, type)] = 0
    <3>1. /\ told[NotFound(name, OCG_LOG_TYPE_ERROR)] \in 0..MaxTold
          /\ told[NotFound(name, LOG_TYPE_BRIDGE_WARN)] \in 0..MaxTold
      BY LinesDiffer DEF LogTypeOK
    <3> QED
      BY <2>7, <3>1 DEF Told, MaxTold
  <2>9. Told(name)' = 1
    <3>1. CountOne(0) = 1
      BY DEF CountOne, MaxTold
    <3>2. CASE type = OCG_LOG_TYPE_ERROR
      <4>1. told[NotFound(name, LOG_TYPE_BRIDGE_WARN)] = 0
        <5>1. told[NotFound(name, LOG_TYPE_BRIDGE_WARN)] \in 0..MaxTold
          BY LinesDiffer DEF LogTypeOK
        <5> QED
          BY <2>7, <2>8, <3>2, <5>1 DEF Told, MaxTold
      <4> QED
        BY <2>3, <2>4, <2>8, <3>1, <3>2, <4>1, LinesDiffer DEF Told
    <3>3. CASE type = LOG_TYPE_BRIDGE_WARN
      <4>1. told[NotFound(name, OCG_LOG_TYPE_ERROR)] = 0
        <5>1. told[NotFound(name, OCG_LOG_TYPE_ERROR)] \in 0..MaxTold
          BY LinesDiffer DEF LogTypeOK
        <5> QED
          BY <2>7, <2>8, <3>3, <5>1 DEF Told, MaxTold
      <4> QED
        BY <2>3, <2>4, <2>8, <3>1, <3>3, <4>1, LinesDiffer DEF Told
    <3> QED
      BY <3>2, <3>3
  <2>10. resolved'[name] = Missing
    BY <1>1, <1>3, Settled
  <2>11. MissesTold'
    BY <1>2, <2>6, <2>9, <2>10 DEF MissesTold
  <2> QED
    BY <2>5, <2>11
<1>4. CASE ~(resolved[name] = Unseen /\ Source(name) = Missing)
  <2>1. \A line \in OnceLines : told'[line] = told[line]
    <3>1. CASE UNCHANGED logVars
      BY <3>1 DEF logVars
    <3>2. CASE JavaLog(CannotBeRead(name))
      BY <3>2, LineCounted, LinesDiffer
    <3>3. CASE JavaLog(Rejected(name))
      BY <3>3, LineCounted, LinesDiffer
    <3>4. \/ UNCHANGED logVars \/ JavaLog(CannotBeRead(name)) \/ JavaLog(Rejected(name))
      BY <1>4 DEF LoadScript, ReportMiss, RunScript
    <3> QED
      BY <3>1, <3>2, <3>3, <3>4
  <2>2. CodesTold'
    BY <2>1, LinesDiffer DEF CodesTold
  <2>3. \A other \in Names : Told(other)' = Told(other)
    BY <2>1, LinesDiffer DEF Told
  <2>4. resolved'[name] = Missing <=> resolved[name] = Missing
    BY <1>1, <1>4, Settled, SourceTyped, LookupAssumption
  <2>5. MissesTold'
    BY <1>2, <2>3, <2>4 DEF MissesTold
  <2> QED
    BY <2>2, <2>5
<1> QED
  BY <1>3, <1>4

-----------------------------------------------------------------------------
(* Cards *)

\* A question for a card keeps the log well-formed and tells an unknown code once.
LEMMA CardReaderTells ==
    ASSUME LogTypeOK, ~exception, MissesTold, CodesTold, unknownCodes \subseteq Codes,
           UNCHANGED resolved, NEW code \in Codes, CardReader(code)
    PROVE  /\ LogTypeOK' /\ ~exception' /\ MissesTold' /\ CodesTold'
           /\ unknownCodes' \subseteq Codes
           /\ cards' = cards
<1>1. CASE code \in DOMAIN cards \/ code \in unknownCodes
  <2>1. UNCHANGED <<unknownCodes, logVars, cards>>
    BY <1>1 DEF CardReader
  <2>2. LogTypeOK' /\ ~exception'
    BY <2>1 DEF logVars, LogTypeOK
  <2>3. told' = told
    BY <2>1 DEF logVars
  <2>4. MissesTold'
    BY <2>3 DEF MissesTold, Told
  <2>5. CodesTold'
    BY <2>1, <2>3 DEF CodesTold
  <2> QED
    BY <2>1, <2>2, <2>4, <2>5
<1>2. CASE ~(code \in DOMAIN cards \/ code \in unknownCodes)
  <2>1. /\ unknownCodes' = unknownCodes \cup {code}
        /\ JavaLog(UnknownCode(code))
        /\ cards' = cards
    BY <1>2 DEF CardReader
  <2>2. UnknownCode(code).type # OCG_LOG_TYPE_ERROR
    BY DEF UnknownCode, OCG_LOG_TYPE_ERROR, LOG_TYPE_BRIDGE_WARN
  <2>3. LogTypeOK' /\ ~exception'
    BY <2>1, <2>2, JavaLogSafe
  <2>4. \A line \in OnceLines : line # UnknownCode(code) => told'[line] = told[line]
    BY <2>1, LineCounted
  <2>5. told[UnknownCode(code)] = 0
    BY <1>2 DEF CodesTold
  <2>6. CountOne(0) = 1
    BY DEF CountOne, MaxTold
  <2>7. told'[UnknownCode(code)] = 1
    BY <2>1, <2>5, <2>6, LineCounted, LinesDiffer
  <2>8. ASSUME NEW other \in Codes, other # code
        PROVE  told'[UnknownCode(other)] = told[UnknownCode(other)]
    BY <2>4, <2>8, LinesDiffer, LinesApart
  <2>9. CodesTold'
    BY <2>1, <2>7, <2>8 DEF CodesTold
  <2>10. \A name \in Names : Told(name)' = Told(name)
    BY <2>4, LinesDiffer, LinesApart DEF Told
  <2>11. MissesTold'
    BY <2>10 DEF MissesTold
  <2> QED
    BY <2>1, <2>3, <2>9, <2>11
<1> QED
  BY <1>1, <1>2

-----------------------------------------------------------------------------
(* The inductive invariant *)

\* What a stage of the call in progress means: none while Java runs; an engine under it;
\* a duel of the engine while the bootstrap scripts are loaded.
Phases ==
    /\ call.at = "java" => call = NoCall
    /\ call.at # "java" => engine
    /\ call.at = "loading" => call.duel \in contexts

BridgeInv == TypeOK /\ Phases /\ DuelsOwned /\ OneSource /\ ToldOnce /\ NoStrayException

\* The types of the variables that no callback changes.
RestTypes ==
    /\ files \in [Dirs -> [Names -> FileStates]]
    /\ engine \in BOOLEAN
    /\ contexts \subseteq Addresses /\ alive \subseteq Addresses /\ sessions \subseteq Addresses
    /\ misuse \in BOOLEAN
    /\ engines \in 0..MaxEngines /\ changes \in 0..MaxChanges

LEMMA TypesSplit ==
    TypeOK <=> LogTypeOK /\ ScriptTypes /\ RestTypes /\ unknownCodes \subseteq Codes /\ call \in Calls
BY DEF TypeOK, ScriptTypes, RestTypes

LEMMA ToldSplit == ToldOnce <=> (engine => MissesTold /\ CodesTold)
BY DEF ToldOnce, MissesTold, CodesTold

LEMMA NoCallTyped == NoCall \in Calls /\ NoCall.at = "java"
BY DEF NoCall, Calls, Stages

\* The invariant holds at first.
LEMMA InitBridge == Init => BridgeInv
<1> SUFFICES ASSUME Init PROVE BridgeInv
  OBVIOUS
<1>1. LogTypeOK
  <2>1. told \in [OnceLines -> 0..MaxTold]
    BY DEF Init, LogInit, Untold, MaxTold
  <2> QED
    BY <2>1 DEF Init, LogInit, LogTypeOK
<1>2. ScriptTypes
  BY DEF Init, ScriptTypes, NothingSeen, NothingServed
<1>3. RestTypes
  <2>1. files \in [Dirs -> [Names -> FileStates]]
    BY DiskAssumption DEF Init
  <2>2. engines \in 0..MaxEngines /\ changes \in 0..MaxChanges
    BY BoundsAssumption DEF Init
  <2> QED
    BY <2>1, <2>2 DEF Init, RestTypes
<1>4. TypeOK
  BY <1>1, <1>2, <1>3, NoCallTyped, TypesSplit DEF Init
<1>5. Phases /\ DuelsOwned
  BY NoCallTyped DEF Init, Phases, DuelsOwned, BeingMade
<1>6. OneSource
  BY DEF Init, OneSource, NothingServed
<1>7. ToldOnce /\ NoStrayException
  BY DEF Init, LogInit, ToldOnce, NoStrayException
<1> QED
  BY <1>4, <1>5, <1>6, <1>7 DEF BridgeInv

-----------------------------------------------------------------------------
(* The engine's life *)

\* A new engine has no duels and has told nothing; a failed one leaves an exception.
LEMMA CreateEngineKeeps ==
    ASSUME BridgeInv, NEW configuration \in Configurations, nCreateEngine(configuration)
    PROVE  BridgeInv'
<1> USE DEF BridgeInv
<1>1. call = NoCall /\ call' = NoCall /\ ~engine /\ ~exception /\ contexts = {}
  BY DEF nCreateEngine, JavaRuns, DuelsOwned
<1>2. engines' \in 0..MaxEngines /\ changes' \in 0..MaxChanges
  BY BoundsAssumption DEF nCreateEngine, TypeOK
<1>3. /\ UNCHANGED <<hook, errors, alive, sessions, misuse, files>>
      /\ contexts' = {}
  BY <1>1 DEF nCreateEngine, EngineInit
<1>4. sessions = {} /\ alive = {} /\ ~misuse
  BY <1>1 DEF DuelsOwned
<1>5. CASE Opens(Strings(configuration.dbs))
  <2>1. /\ engine' = TRUE
        /\ exception' = exception
        /\ unknownCodes' = {}
        /\ told' = Untold
    BY <1>5 DEF nCreateEngine, EngineInit, ForgetLines
  <2>2. /\ searchPaths' = Strings(configuration.scripts)
        /\ resolved' = NothingSeen
        /\ served' = NothingServed
    BY <1>5 DEF nCreateEngine, EngineInit, SetSearchPaths
  <2>3. told' \in [OnceLines -> 0..MaxTold]
    BY <2>1 DEF Untold, MaxTold
  <2>4. LogTypeOK'
    BY <1>3, <2>1, <2>3 DEF TypeOK, LogTypeOK
  <2>5. ScriptTypes'
    BY <2>2, ConfigurationAssumption DEF ScriptTypes, NothingSeen, NothingServed
  <2>6. RestTypes'
    BY <1>2, <1>3, <2>1 DEF TypeOK, RestTypes
  <2>7. TypeOK'
    BY <1>1, <2>1, <2>4, <2>5, <2>6, NoCallTyped DEF TypeOK, ScriptTypes, RestTypes
  <2>8. Phases' /\ DuelsOwned'
    BY <1>1, <1>3, <1>4, <2>1, NoCallTyped DEF Phases, DuelsOwned, BeingMade
  <2>9. OneSource'
    BY <2>2 DEF OneSource, NothingServed
  <2>10. \A line \in OnceLines : told'[line] = 0
    BY <2>1 DEF Untold
  <2>11. MissesTold'
    BY <2>2, <2>10, LinesDiffer, LookupAssumption DEF MissesTold, Told, NothingSeen
  <2>12. CodesTold'
    BY <2>1, <2>10, LinesDiffer DEF CodesTold
  <2>13. ToldOnce' /\ NoStrayException'
    BY <1>1, <2>1, <2>11, <2>12 DEF ToldOnce, MissesTold, CodesTold, NoStrayException
  <2> QED
    BY <2>7, <2>8, <2>9, <2>13
<1>6. CASE ~Opens(Strings(configuration.dbs))
  <2>1. /\ exception' = TRUE
        /\ UNCHANGED <<engine, unknownCodes, told, scriptVars>>
    BY <1>6 DEF nCreateEngine, engineVars
  <2>2. LogTypeOK'
    BY <1>3, <2>1 DEF TypeOK, LogTypeOK
  <2>3. ScriptTypes' /\ OneSource'
    BY <2>1 DEF TypeOK, ScriptTypes, OneSource, scriptVars
  <2>4. RestTypes'
    BY <1>2, <1>3, <2>1 DEF TypeOK, RestTypes
  <2>5. TypeOK'
    BY <1>1, <2>1, <2>2, <2>3, <2>4, NoCallTyped DEF TypeOK, ScriptTypes, RestTypes
  <2>6. Phases' /\ DuelsOwned'
    BY <1>1, <1>3, <1>4, <2>1, NoCallTyped DEF Phases, DuelsOwned, BeingMade
  <2>7. ToldOnce' /\ NoStrayException'
    BY <1>1, <2>1 DEF ToldOnce, NoStrayException
  <2> QED
    BY <2>3, <2>5, <2>6, <2>7
<1> QED
  BY <1>5, <1>6

\* The exception arrives in Java and is gone.
LEMMA CatchKeeps ==
    ASSUME BridgeInv, CatchException
    PROVE  BridgeInv'
<1> USE DEF BridgeInv
<1>1. /\ exception' = FALSE
      /\ UNCHANGED <<hook, told, errors, cardVars, scriptVars, duelVars, boundVars>>
      /\ UNCHANGED <<engine, call, files>>
  BY DEF CatchException, engineVars
<1>2. TypeOK'
  BY <1>1 DEF TypeOK, LogTypeOK, cardVars, scriptVars, duelVars, boundVars
<1>3. Phases' /\ DuelsOwned'
  BY <1>1 DEF Phases, DuelsOwned, BeingMade, duelVars
<1>4. OneSource'
  BY <1>1 DEF OneSource, scriptVars
<1>5. ToldOnce'
  BY <1>1 DEF ToldOnce, Told, scriptVars, cardVars
<1>6. NoStrayException'
  BY <1>1 DEF NoStrayException
<1> QED
  BY <1>2, <1>3, <1>4, <1>5, <1>6

\* The engine goes with all its duels, and Java's sessions with it.
LEMMA DestroyEngineKeeps ==
    ASSUME BridgeInv, nDestroyEngine
    PROVE  BridgeInv'
<1> USE DEF BridgeInv
<1>1. /\ call = NoCall /\ call' = NoCall /\ ~exception
      /\ engine' = FALSE /\ contexts' = {} /\ sessions' = {} /\ unknownCodes' = {}
      /\ alive' = alive \ contexts
      /\ misuse' = (misuse \/ ~(contexts \subseteq alive))
      /\ UNCHANGED <<logVars, scriptVars, boundVars, files>>
  BY DEF nDestroyEngine, EngineShutdown, JavaRuns, Touch, Close
<1>2. alive' = {} /\ misuse' = FALSE
  BY <1>1 DEF DuelsOwned, TypeOK
<1>3. TypeOK'
  BY <1>1, <1>2, NoCallTyped DEF TypeOK, LogTypeOK, logVars, scriptVars, boundVars
<1>4. Phases' /\ DuelsOwned'
  BY <1>1, <1>2, NoCallTyped DEF Phases, DuelsOwned, BeingMade
<1>5. OneSource'
  BY <1>1 DEF OneSource, scriptVars
<1>6. ToldOnce' /\ NoStrayException'
  BY <1>1 DEF ToldOnce, NoStrayException, logVars
<1> QED
  BY <1>3, <1>4, <1>5, <1>6

-----------------------------------------------------------------------------
(* The duels of an engine *)

\* What the invariant needs of a step that leaves the log, the cards and the scripts alone.
LEMMA KeepsRest ==
    ASSUME BridgeInv, UNCHANGED <<hook, exception, told, cardVars, scriptVars, engine>>,
           ~exception
    PROVE  OneSource' /\ ToldOnce' /\ NoStrayException' /\ ScriptTypes' /\ unknownCodes' \subseteq Codes
<1> USE DEF BridgeInv
<1>1. OneSource'
  BY DEF OneSource, scriptVars
<1>2. ToldOnce'
  BY DEF ToldOnce, Told, scriptVars, cardVars
<1>3. NoStrayException'
  BY DEF NoStrayException
<1>4. ScriptTypes' /\ unknownCodes' \subseteq Codes
  BY DEF TypeOK, ScriptTypes, scriptVars, cardVars
<1> QED
  BY <1>1, <1>2, <1>3, <1>4

\* A step that changes none of the duels and only ends or keeps a call outside loading.
LEMMA KeepsDuels ==
    ASSUME DuelsOwned, UNCHANGED <<contexts, alive, sessions, misuse, engine>>,
           call.at # "loading", call'.at # "loading"
    PROVE  DuelsOwned'
BY DEF DuelsOwned, BeingMade

\* createDuel begins.
LEMMA CreateDuelKeeps ==
    ASSUME BridgeInv, nCreateDuel
    PROVE  BridgeInv'
<1> USE DEF BridgeInv
<1>1. /\ call = NoCall /\ ~exception /\ engine /\ errors' = {}
      /\ call' = [NoCall EXCEPT !.at = "making"]
      /\ UNCHANGED <<hook, exception, told, cardVars, scriptVars, duelVars, boundVars>>
      /\ UNCHANGED <<engine, files>>
  BY DEF nCreateDuel, JavaRuns, engineVars
<1>2. call' \in Calls /\ call'.at = "making"
  BY <1>1, NoCallTyped DEF Calls, Stages
<1>3. OneSource' /\ ToldOnce' /\ NoStrayException' /\ ScriptTypes' /\ unknownCodes' \subseteq Codes
  BY <1>1, KeepsRest
<1>4. TypeOK'
  BY <1>1, <1>2, <1>3 DEF TypeOK, LogTypeOK, ScriptTypes, duelVars, boundVars
<1>5. Phases'
  BY <1>1, <1>2 DEF Phases
<1>6. DuelsOwned'
  BY <1>1, <1>2, NoCallTyped, KeepsDuels DEF duelVars
<1> QED
  BY <1>3, <1>4, <1>5, <1>6

\* The core makes no duel.
LEMMA CreationFailsKeeps ==
    ASSUME BridgeInv, CreationFails \/ CallReturns
    PROVE  BridgeInv'
<1> USE DEF BridgeInv
<1>1. /\ call.at \in {"making", "core"} /\ call' = NoCall
      /\ UNCHANGED <<logVars, cardVars, scriptVars, duelVars, boundVars, engine, files>>
  BY DEF CreationFails, CallReturns, engineVars
<1>2. ~exception
  BY <1>1, NoCallTyped DEF NoStrayException
<1>3. OneSource' /\ ToldOnce' /\ NoStrayException' /\ ScriptTypes' /\ unknownCodes' \subseteq Codes
  BY <1>1, <1>2, KeepsRest DEF logVars
<1>4. TypeOK'
  BY <1>1, <1>3, NoCallTyped DEF TypeOK, LogTypeOK, ScriptTypes, logVars, duelVars, boundVars
<1>5. Phases'
  BY <1>1, NoCallTyped DEF Phases
<1>6. DuelsOwned'
  BY <1>1, NoCallTyped, KeepsDuels DEF duelVars
<1> QED
  BY <1>3, <1>4, <1>5, <1>6

\* A new duel is recorded at an address that had none.
LEMMA DuelCreatedKeeps ==
    ASSUME BridgeInv, NEW duel \in Addresses, DuelCreated(duel)
    PROVE  BridgeInv'
<1> USE DEF BridgeInv
<1>1. /\ call.at = "making" /\ duel \notin alive
      /\ alive' = alive \cup {duel}
      /\ contexts' = contexts \cup {duel}
      /\ UNCHANGED <<logVars, cardVars, scriptVars, boundVars, sessions, misuse, engine, files>>
  BY DEF DuelCreated, engineVars
<1>2. call' = [call EXCEPT !.at = "loading", !.duel = duel, !.todo = Bootstrap]
  BY DEF DuelCreated
<1>3. call' \in Calls /\ call'.at = "loading" /\ call'.duel = duel
  BY <1>2, BootstrapAssumption DEF TypeOK, Calls, Stages
<1>4. ~exception /\ engine
  BY <1>1, NoCallTyped DEF NoStrayException, Phases
<1>5. OneSource' /\ ToldOnce' /\ NoStrayException' /\ ScriptTypes' /\ unknownCodes' \subseteq Codes
  BY <1>1, <1>4, KeepsRest DEF logVars
<1>6. TypeOK'
  BY <1>1, <1>3, <1>5 DEF TypeOK, LogTypeOK, ScriptTypes, logVars, boundVars
<1>7. Phases'
  BY <1>1, <1>3, <1>4 DEF Phases
<1>8. DuelsOwned'
  BY <1>1, <1>3, <1>4 DEF DuelsOwned, BeingMade
<1> QED
  BY <1>5, <1>6, <1>7, <1>8

\* A bootstrap script is loaded, or not.
LEMMA LoadBootstrapKeeps ==
    ASSUME BridgeInv, NEW accepted \in BOOLEAN, LoadBootstrap(accepted)
    PROVE  BridgeInv'
<1> DEFINE name == Head(call.todo)
<1> USE DEF BridgeInv
<1>1. /\ call.at = "loading" /\ call.todo # <<>>
      /\ LoadScript(name, OCG_LOG_TYPE_ERROR, accepted)
      /\ misuse' = (misuse \/ ~({call.duel} \subseteq alive))
      /\ UNCHANGED <<cardVars, boundVars, contexts, alive, sessions, engine, files>>
  BY DEF LoadBootstrap, Touch, engineVars
<1>2. \E failed : /\ failed \in {call.failed, call.failed \cup {name}}
                  /\ call' = [call EXCEPT !.todo = Tail(call.todo), !.failed = failed]
  BY DEF LoadBootstrap
<1>3. call \in Calls
  BY DEF TypeOK
<1>4. name \in Names /\ Tail(call.todo) \in Seq(Names)
  BY <1>1, <1>3 DEF Calls
<1>5. call' \in Calls /\ call'.at = "loading" /\ call'.duel = call.duel
  <2> HIDE DEF name
  <2>1. PICK failed : /\ failed \in {call.failed, call.failed \cup {name}}
                     /\ call' = [call EXCEPT !.todo = Tail(call.todo), !.failed = failed]
    BY <1>2
  <2>2. call.failed \in SUBSET Names
    BY <1>3 DEF Calls
  <2>3. failed \in SUBSET Names
    BY <1>4, <2>1, <2>2
  <2> QED
    BY <1>1, <1>3, <1>4, <2>1, <2>3 DEF Calls
<1>6. ~exception /\ engine
  BY <1>1, NoCallTyped DEF NoStrayException, Phases
<1>7. MissesTold /\ CodesTold /\ LogTypeOK /\ ScriptTypes
  BY <1>6, ToldSplit, TypesSplit
<1> HIDE DEF name
<1>8. LogTypeOK' /\ ScriptTypes' /\ ~exception' /\ OneSource'
  BY <1>1, <1>4, <1>6, <1>7, LoadScriptTyped
<1>9. MissesTold' /\ CodesTold'
  BY <1>1, <1>4, <1>7, LoadScriptTells DEF cardVars
<1>10. ToldOnce' /\ NoStrayException'
  BY <1>8, <1>9 DEF ToldOnce, MissesTold, CodesTold, NoStrayException
<1>11. TypeOK'
  BY <1>1, <1>5, <1>8 DEF TypeOK, ScriptTypes, cardVars, boundVars
<1>12. Phases'
  BY <1>1, <1>5, <1>6 DEF Phases
<1>13. DuelsOwned'
  BY <1>1, <1>5 DEF DuelsOwned, BeingMade, Phases
<1> QED
  BY <1>8, <1>10, <1>11, <1>12, <1>13

\* Java gets its handle.
LEMMA CreateReturnsKeeps ==
    ASSUME BridgeInv, CreateReturns
    PROVE  BridgeInv'
<1> USE DEF BridgeInv
<1>1. /\ call.at = "loading" /\ call' = NoCall
      /\ sessions' = sessions \cup {call.duel}
      /\ UNCHANGED <<logVars, cardVars, scriptVars, boundVars, contexts, alive, misuse, engine, files>>
  BY DEF CreateReturns, engineVars
<1>2. ~exception /\ call.duel \in contexts
  BY <1>1, NoCallTyped DEF NoStrayException, Phases
<1>3. OneSource' /\ ToldOnce' /\ NoStrayException' /\ ScriptTypes' /\ unknownCodes' \subseteq Codes
  BY <1>1, <1>2, KeepsRest DEF logVars
<1>4. TypeOK'
  BY <1>1, <1>2, <1>3, NoCallTyped DEF TypeOK, LogTypeOK, ScriptTypes, logVars, boundVars
<1>5. Phases'
  BY <1>1, NoCallTyped DEF Phases
<1>6. DuelsOwned'
  BY <1>1, NoCallTyped DEF DuelsOwned, BeingMade
<1> QED
  BY <1>3, <1>4, <1>5, <1>6

\* A session closed takes its duel and the record of it along.
LEMMA DestroyDuelKeeps ==
    ASSUME BridgeInv, NEW duel \in sessions, nDestroyDuel(duel)
    PROVE  BridgeInv'
<1> USE DEF BridgeInv
<1>1. /\ call = NoCall /\ ~exception
      /\ sessions' = sessions \ {duel}
      /\ UNCHANGED <<logVars, cardVars, scriptVars, boundVars, engine, call, files>>
  BY DEF nDestroyDuel, JavaRuns, engineVars
<1>2. duel \in contexts /\ duel \in alive /\ ~misuse
  BY DEF DuelsOwned
<1>3. /\ alive' = alive \ {duel} /\ contexts' = contexts \ {duel}
      /\ misuse' = (misuse \/ ~({duel} \subseteq alive))
  BY <1>2 DEF nDestroyDuel, Touch
<1>4. OneSource' /\ ToldOnce' /\ NoStrayException' /\ ScriptTypes' /\ unknownCodes' \subseteq Codes
  BY <1>1, KeepsRest DEF logVars
<1>5. TypeOK'
  BY <1>1, <1>3, <1>4 DEF TypeOK, LogTypeOK, ScriptTypes, logVars, boundVars
<1>6. Phases'
  BY <1>1, NoCallTyped DEF Phases
<1>7. DuelsOwned'
  BY <1>1, <1>2, <1>3, NoCallTyped DEF DuelsOwned, BeingMade
<1> QED
  BY <1>4, <1>5, <1>6, <1>7

-----------------------------------------------------------------------------
(* Calls into a duel and what comes back out of them *)

\* A call that may call back, and one that may not, use a duel that is there.
LEMMA EnterKeeps ==
    ASSUME BridgeInv, NEW duel \in sessions, Enter(duel) \/ Consult(duel)
    PROVE  BridgeInv'
<1> USE DEF BridgeInv
<1>1. /\ call = NoCall /\ ~exception
      /\ misuse' = (misuse \/ ~({duel} \subseteq alive))
      /\ UNCHANGED <<hook, exception, told, cardVars, scriptVars, boundVars, contexts, alive>>
      /\ UNCHANGED <<sessions, engine, files>>
  BY DEF Enter, Consult, JavaRuns, Touch, logVars, engineVars
<1>2. errors' \in {{}, errors}
  BY DEF Enter, Consult, logVars
<1>3. call' \in {[NoCall EXCEPT !.at = "core", !.duel = duel], NoCall}
  BY <1>1 DEF Enter, Consult
<1>4. duel \in Addresses /\ duel \in alive /\ engine
  BY DEF DuelsOwned, TypeOK
<1>5. call' \in Calls /\ call'.at # "loading" /\ (call'.at = "java" => call' = NoCall)
  <2>1. CASE call' = NoCall
    BY <2>1, NoCallTyped
  <2>2. CASE call' = [NoCall EXCEPT !.at = "core", !.duel = duel]
    BY <1>4, <2>2, NoCallTyped DEF Calls, Stages
  <2> QED
    BY <1>3, <2>1, <2>2
<1>6. OneSource' /\ ToldOnce' /\ NoStrayException' /\ ScriptTypes' /\ unknownCodes' \subseteq Codes
  BY <1>1, KeepsRest
<1>7. misuse' = misuse
  BY <1>1, <1>4 DEF TypeOK
<1>8. TypeOK'
  BY <1>1, <1>2, <1>5, <1>6, <1>7 DEF TypeOK, LogTypeOK, ScriptTypes, boundVars
<1>9. Phases'
  BY <1>1, <1>4, <1>5 DEF Phases
<1>10. DuelsOwned'
  BY <1>1, <1>5, <1>7, NoCallTyped, KeepsDuels
<1> QED
  BY <1>6, <1>8, <1>9, <1>10

\* The core asks for a card.
LEMMA ReadCardKeeps ==
    ASSUME BridgeInv, NEW code \in Codes, ReadCard(code)
    PROVE  BridgeInv'
<1> USE DEF BridgeInv
<1>1. /\ InsideCore /\ CardReader(code)
      /\ UNCHANGED <<scriptVars, duelVars, boundVars, engine, call, files>>
  BY DEF ReadCard, engineVars
<1>2. call.at # "java" /\ engine /\ ~exception
  BY <1>1, NoCallTyped DEF InsideCore, Phases, NoStrayException
<1>3. LogTypeOK /\ MissesTold /\ CodesTold /\ unknownCodes \subseteq Codes
  BY <1>2, ToldSplit, TypesSplit
<1>4. resolved' = resolved
  BY <1>1 DEF scriptVars
<1>5. LogTypeOK' /\ ~exception' /\ MissesTold' /\ CodesTold' /\ unknownCodes' \subseteq Codes
  BY <1>1, <1>2, <1>3, <1>4, CardReaderTells
<1>6. TypeOK'
  BY <1>1, <1>5 DEF TypeOK, scriptVars, duelVars, boundVars
<1>7. Phases' /\ DuelsOwned'
  BY <1>1 DEF Phases, DuelsOwned, BeingMade, duelVars
<1>8. OneSource'
  BY <1>1 DEF OneSource, scriptVars
<1>9. ToldOnce' /\ NoStrayException'
  BY <1>5 DEF ToldOnce, MissesTold, CodesTold, NoStrayException
<1> QED
  BY <1>6, <1>7, <1>8, <1>9

\* The core asks for a script.
LEMMA ScriptReaderKeeps ==
    ASSUME BridgeInv, NEW name \in Requests, NEW accepted \in BOOLEAN, ScriptReader(name, accepted)
    PROVE  BridgeInv'
<1> USE DEF BridgeInv
<1>1. /\ InsideCore
      /\ LoadScript(name, LOG_TYPE_BRIDGE_WARN, accepted)
      /\ UNCHANGED <<cardVars, duelVars, boundVars, engine, call, files>>
  BY DEF ScriptReader, engineVars
<1>2. call.at # "java" /\ engine /\ ~exception
  BY <1>1, NoCallTyped DEF InsideCore, Phases, NoStrayException
<1>3. LogTypeOK /\ ScriptTypes /\ MissesTold /\ CodesTold
  BY <1>2, ToldSplit, TypesSplit
<1>4. name \in Names
  BY RequestAssumption
<1>5. LogTypeOK' /\ ScriptTypes' /\ ~exception' /\ OneSource'
  BY <1>1, <1>2, <1>3, <1>4, LoadScriptTyped
<1>6. MissesTold' /\ CodesTold'
  BY <1>1, <1>3, <1>4, LoadScriptTells DEF cardVars
<1>7. TypeOK'
  BY <1>1, <1>5 DEF TypeOK, ScriptTypes, cardVars, duelVars, boundVars
<1>8. Phases' /\ DuelsOwned'
  BY <1>1 DEF Phases, DuelsOwned, BeingMade, duelVars
<1>9. ToldOnce' /\ NoStrayException'
  BY <1>5, <1>6 DEF ToldOnce, MissesTold, CodesTold, NoStrayException
<1> QED
  BY <1>5, <1>7, <1>8, <1>9

\* A script file changes.
LEMMA FilesChangeKeeps ==
    ASSUME BridgeInv, NEW dir \in Dirs, NEW name \in Names, NEW state \in FileStates,
           FilesChange(dir, name, state)
    PROVE  BridgeInv'
<1> USE DEF BridgeInv
<1>1. /\ changes' \in 0..MaxChanges
      /\ files' = [files EXCEPT ![dir][name] = state]
      /\ UNCHANGED <<logVars, cardVars, scriptVars, duelVars, engine, call, engines>>
  BY BoundsAssumption DEF FilesChange, TypeOK, engineVars
<1>2. files' \in [Dirs -> [Names -> FileStates]]
  <2>1. files \in [Dirs -> [Names -> FileStates]]
    BY DEF TypeOK
  <2> QED
    BY <1>1, <2>1
<1>3. TypeOK'
  BY <1>1, <1>2 DEF TypeOK, LogTypeOK, logVars, cardVars, scriptVars, duelVars
<1>4. Phases' /\ DuelsOwned'
  BY <1>1 DEF Phases, DuelsOwned, BeingMade, duelVars
<1>5. OneSource'
  BY <1>1 DEF OneSource, scriptVars
<1>6. ToldOnce' /\ NoStrayException'
  BY <1>1 DEF ToldOnce, Told, NoStrayException, logVars, cardVars, scriptVars
<1> QED
  BY <1>3, <1>4, <1>5, <1>6

-----------------------------------------------------------------------------
(* Theorems *)

LEMMA StutterKeeps ==
    ASSUME BridgeInv, UNCHANGED vars
    PROVE  BridgeInv'
<1> USE DEF BridgeInv, vars, logVars, cardVars, scriptVars, duelVars, boundVars, engineVars
<1>1. TypeOK'
  BY DEF TypeOK, LogTypeOK
<1>2. Phases' /\ DuelsOwned'
  BY DEF Phases, DuelsOwned, BeingMade
<1>3. OneSource' /\ ToldOnce' /\ NoStrayException'
  BY DEF OneSource, ToldOnce, Told, NoStrayException
<1> QED
  BY <1>1, <1>2, <1>3

LEMMA NextKeeps == BridgeInv /\ [Next]_vars => BridgeInv'
<1> SUFFICES ASSUME BridgeInv, [Next]_vars PROVE BridgeInv'
  OBVIOUS
<1>1. CASE \E configuration \in Configurations : nCreateEngine(configuration)
  BY <1>1, CreateEngineKeeps
<1>2. CASE CatchException
  BY <1>2, CatchKeeps
<1>3. CASE nDestroyEngine
  BY <1>3, DestroyEngineKeeps
<1>4. CASE nCreateDuel
  BY <1>4, CreateDuelKeeps
<1>5. CASE CreationFails \/ CallReturns
  BY <1>5, CreationFailsKeeps
<1>6. CASE \E duel \in Addresses : DuelCreated(duel)
  BY <1>6, DuelCreatedKeeps
<1>7. CASE \E accepted \in BOOLEAN : LoadBootstrap(accepted)
  BY <1>7, LoadBootstrapKeeps
<1>8. CASE CreateReturns
  BY <1>8, CreateReturnsKeeps
<1>9. CASE \E duel \in sessions : nDestroyDuel(duel)
  BY <1>9, DestroyDuelKeeps
<1>10. CASE \E duel \in sessions : Enter(duel) \/ Consult(duel)
  BY <1>10, EnterKeeps
<1>11. CASE \E code \in Codes : ReadCard(code)
  BY <1>11, ReadCardKeeps
<1>12. CASE \E name \in Requests, accepted \in BOOLEAN : ScriptReader(name, accepted)
  BY <1>12, ScriptReaderKeeps
<1>13. CASE \E dir \in Dirs, name \in Names, state \in FileStates : FilesChange(dir, name, state)
  BY <1>13, FilesChangeKeeps
<1>14. CASE UNCHANGED vars
  BY <1>14, StutterKeeps
<1> QED
  BY <1>1, <1>2, <1>3, <1>4, <1>5, <1>6, <1>7, <1>8, <1>9, <1>10, <1>11, <1>12, <1>13, <1>14
     DEF Next

\* The invariant that carries the rest holds of every behaviour of the bridge.
THEOREM BridgeCorrect == Spec => []BridgeInv
<1> QED
  BY InitBridge, NextKeeps, PTL DEF Spec

\* Every variable has the values its C++ or Java counterpart can have.
THEOREM BridgeTypes == Spec => []TypeOK
<1>1. BridgeInv => TypeOK
  BY DEF BridgeInv
<1> QED
  BY <1>1, BridgeCorrect, PTL

\* The records of the engine, the duels of the core and the sessions of Java never part,
\* whatever addresses the core uses again, and no core function gets a stale handle:
\* contexts_, createDuel, destroyDuel and shutdown in duel_engine.cpp.
THEOREM DuelsAlwaysOwned == Spec => []DuelsOwned
<1>1. BridgeInv => DuelsOwned
  BY DEF BridgeInv
<1> QED
  BY <1>1, BridgeCorrect, PTL

\* However the files change, an engine takes a script from one directory only:
\* ScriptProvider::readFile and resolved_.
THEOREM ScriptsHaveOneSource == Spec => []OneSource
<1>1. BridgeInv => OneSource
  BY DEF BridgeInv
<1> QED
  BY <1>1, BridgeCorrect, PTL

\* What an engine remembers as missing was logged exactly once: resolved_ and unknownCodes_.
THEOREM MissesToldOnce == Spec => []ToldOnce
<1>1. BridgeInv => ToldOnce
  BY DEF BridgeInv
<1> QED
  BY <1>1, BridgeCorrect, PTL

\* No Java exception is pending while native code runs, whatever the log hook does:
\* javaLog in java_log.cpp, under every caller of it.
THEOREM NoExceptionBehind == Spec => []NoStrayException
<1>1. BridgeInv => NoStrayException
  BY DEF BridgeInv
<1> QED
  BY <1>1, BridgeCorrect, PTL

-----------------------------------------------------------------------------
(* The contract *)

\* A lookup settles a name or changes nothing the contract speaks of.
LEMMA RememberSettles ==
    ASSUME TypeOK, engine, NEW name \in Names, Remember(name),
           UNCHANGED <<engine, cards, alive>>
    PROVE  Contract!Next \/ UNCHANGED Contract!contractVars
<1>1. ScriptTypes
  BY TypesSplit
<1>2. CASE resolved[name] = Unseen
  <2>1. resolved' = [resolved EXCEPT ![name] = Source(name)]
    BY <1>2 DEF Remember
  <2>2. Source(name) \in Dirs \cup {Missing}
    BY <1>1, SourceTyped
  <2>3. Contract!Settle(name)
    BY <1>2, <2>1, <2>2 DEF Contract!Settle
  <2> QED
    BY <2>3 DEF Contract!Next
<1>3. CASE resolved[name] # Unseen
  <2>1. resolved' = resolved
    BY <1>1, <1>3 DEF Remember, ScriptTypes
  <2> QED
    BY <2>1 DEF Contract!contractVars
<1> QED
  BY <1>2, <1>3

\* Every step of the bridge is a step of the contract or nothing to it.
LEMMA StepKeepsContract ==
    ASSUME BridgeInv, [Next]_vars
    PROVE  Contract!Next \/ UNCHANGED Contract!contractVars
<1> USE DEF BridgeInv
<1>1. CASE \E configuration \in Configurations : nCreateEngine(configuration)
  <2>1. PICK configuration \in Configurations : nCreateEngine(configuration)
    BY <1>1
  <2>2. CASE Opens(Strings(configuration.dbs))
    <3>1. ~engine /\ engine' /\ alive' = alive /\ resolved' = NothingSeen
      BY <2>1, <2>2 DEF nCreateEngine, EngineInit, SetSearchPaths
    <3>2. Contract!Start
      BY <3>1 DEF Contract!Start, NothingSeen
    <3> QED
      BY <3>2 DEF Contract!Next
  <2>3. CASE ~Opens(Strings(configuration.dbs))
    BY <2>1, <2>3 DEF nCreateEngine, engineVars, scriptVars, Contract!contractVars
  <2> QED
    BY <2>2, <2>3
<1>2. CASE nDestroyEngine
  <2>1. engine /\ ~engine' /\ alive' = {} /\ resolved' = resolved
    BY <1>2 DEF nDestroyEngine, EngineShutdown, DuelsOwned, scriptVars
  <2>2. Contract!Stop
    BY <2>1 DEF Contract!Stop
  <2> QED
    BY <2>2 DEF Contract!Next
<1>3. CASE \E duel \in Addresses : DuelCreated(duel)
  <2>1. PICK duel \in Addresses : DuelCreated(duel)
    BY <1>3
  <2>2. engine
    BY <2>1, NoCallTyped DEF DuelCreated, Phases
  <2>3. Contract!Create(duel)
    BY <2>1, <2>2 DEF DuelCreated, Contract!Create, cardVars, scriptVars, engineVars
  <2> QED
    BY <2>3 DEF Contract!Next
<1>4. CASE \E duel \in sessions : nDestroyDuel(duel)
  <2>1. PICK duel \in sessions : nDestroyDuel(duel)
    BY <1>4
  <2>2. engine /\ duel \in contexts /\ duel \in alive /\ duel \in Addresses
    BY DEF DuelsOwned, TypeOK
  <2>3. Contract!Destroy(duel)
    BY <2>1, <2>2 DEF nDestroyDuel, Contract!Destroy, cardVars, scriptVars, engineVars
  <2> QED
    BY <2>2, <2>3 DEF Contract!Next
<1>5. CASE \E accepted \in BOOLEAN : LoadBootstrap(accepted)
  <2>1. PICK accepted \in BOOLEAN : LoadBootstrap(accepted)
    BY <1>5
  <2>2. engine /\ call \in Calls
    BY <2>1, NoCallTyped DEF LoadBootstrap, Phases, TypeOK
  <2>3. Head(call.todo) \in Names
    BY <2>1, <2>2 DEF LoadBootstrap, Calls
  <2>4. Remember(Head(call.todo)) /\ UNCHANGED <<engine, cards, alive>>
    BY <2>1 DEF LoadBootstrap, LoadScript, cardVars, engineVars
  <2> QED
    BY <2>2, <2>3, <2>4, RememberSettles
<1>6. CASE \E name \in Requests, accepted \in BOOLEAN : ScriptReader(name, accepted)
  <2>1. PICK name \in Requests, accepted \in BOOLEAN : ScriptReader(name, accepted)
    BY <1>6
  <2>2. engine
    BY <2>1, NoCallTyped DEF ScriptReader, InsideCore, Phases
  <2>3. Remember(name) /\ UNCHANGED <<engine, cards, alive>>
    BY <2>1 DEF ScriptReader, LoadScript, cardVars, duelVars, engineVars
  <2> QED
    BY <2>2, <2>3, RequestAssumption, RememberSettles
<1>7. CASE \E code \in Codes : ReadCard(code)
  BY <1>7 DEF ReadCard, CardReader, scriptVars, duelVars, engineVars, Contract!contractVars
<1>8. CASE \/ CatchException \/ nCreateDuel \/ CreationFails \/ CreateReturns \/ CallReturns
           \/ \E duel \in sessions : Enter(duel) \/ Consult(duel)
           \/ \E dir \in Dirs, name \in Names, state \in FileStates : FilesChange(dir, name, state)
           \/ UNCHANGED vars
  BY <1>8 DEF CatchException, nCreateDuel, CreationFails, CreateReturns, CallReturns, Enter,
              Consult, FilesChange, vars, cardVars, scriptVars, duelVars, engineVars,
              Contract!contractVars
<1> QED
  BY <1>1, <1>2, <1>3, <1>4, <1>5, <1>6, <1>7, <1>8 DEF Next

\* The bridge implements its contract: the card table stays while the engine is up, the
\* duels live inside its life, and what a script name stands for is settled once.
THEOREM BridgeKeepsContract == Spec => ImplementsContract
<1>1. Init => Contract!Init
  BY DEF Init, Contract!Init, NothingSeen
<1>2. BridgeInv /\ [Next]_vars => [Contract!Next]_(Contract!contractVars)
  BY StepKeepsContract
<1> QED
  BY <1>1, <1>2, BridgeCorrect, PTL DEF Spec, ImplementsContract, Contract!Spec

-----------------------------------------------------------------------------
(* Columns *)

LEMMA Remainder ==
    \A x, q, r \in Int, b \in Nat \ {0} :
        x = b * q + r /\ 0 <= r /\ r < b => x \div b = q /\ x % b = r
  OBVIOUS

LEMMA DivMod ==
    \A x \in Int, b \in Nat \ {0} :
        /\ x \div b \in Int /\ x % b \in 0..(b - 1)
        /\ x = b * (x \div b) + (x % b)
  OBVIOUS

LEMMA DivDiv == \A x \in Int, b, c \in Nat \ {0} : (x \div b) \div c = x \div (b * c)
  OBVIOUS

\* Every base is one.
LEMMA BasesAre ==
    /\ ByteBase \in Nat \ {0, 1} /\ WordBase \in Nat \ {0} /\ Uint32Base \in Nat \ {0}
    /\ Uint64Base \in Nat \ {0} /\ WordBase = ByteBase * ByteBase
    /\ Uint32Base = WordBase * WordBase /\ Uint64Base = Uint32Base * Uint32Base
<1>1. ByteBase \in Nat \ {0, 1} /\ WordBase = ByteBase * ByteBase
  BY ByteAssumption DEF WordBase
<1>2. WordBase \in Nat \ {0} /\ Uint32Base = WordBase * WordBase
  BY <1>1 DEF Uint32Base
<1>3. Uint32Base \in Nat \ {0} /\ Uint64Base = Uint32Base * Uint32Base
  BY <1>2 DEF Uint64Base
<1> QED
  BY <1>1, <1>2, <1>3

\* Two digits make up the remainder by the product of their bases.
LEMMA TwoDigits ==
    \A x \in Int, b, c \in Nat \ {0} : x % (b * c) = (x % b) + b * ((x \div b) % c)
<1> SUFFICES ASSUME NEW x \in Int, NEW b \in Nat \ {0}, NEW c \in Nat \ {0}
             PROVE  x % (b * c) = (x % b) + b * ((x \div b) % c)
  OBVIOUS
<1>1. PICK q, r : q = x \div b /\ r = x % b
  OBVIOUS
<1>2. q \in Int /\ r \in 0..(b - 1) /\ x = b * q + r
  BY <1>1, DivMod
<1>3. PICK p, d : p = q \div c /\ d = q % c
  OBVIOUS
<1>4. p \in Int /\ d \in 0..(c - 1) /\ q = c * p + d
  BY <1>2, <1>3, DivMod
<1>5. x = (b * c) * p + (r + b * d)
  <2>1. b * q = b * (c * p) + b * d
    BY <1>2, <1>4
  <2>2. b * (c * p) = (b * c) * p
    BY <1>4
  <2> QED
    BY <1>2, <1>4, <2>1, <2>2
<1>6. 0 <= r + b * d /\ r + b * d < b * c /\ b * c \in Nat \ {0} /\ r + b * d \in Int
  <2>1. b * d + b <= b * c
    <3>1. d + 1 <= c
      BY <1>4
    <3>2. b * (d + 1) <= b * c
      BY <1>4, <3>1
    <3>3. b * (d + 1) = b * d + b
      BY <1>4
    <3> QED
      BY <3>2, <3>3
  <2>2. b * d \in Nat /\ b * c \in Nat \ {0}
    BY <1>4
  <2> QED
    BY <1>2, <2>1, <2>2
<1>7. x % (b * c) = r + b * d
  BY <1>4, <1>5, <1>6, Remainder
<1> QED
  BY <1>1, <1>3, <1>7

\* The four words of a setcode column are its archetypes.
LEMMA FourWords ==
    ASSUME NEW x \in Int, NEW w \in Nat \ {0}
    PROVE  x % ((w * w) * (w * w)) =
             (x % w) + w * (((x \div w) % w)
               + w * (((x \div (w * w)) % w) + w * ((x \div (w * (w * w))) % w)))
<1>0. PICK x1, x2, x3 : x1 = x \div w /\ x2 = x1 \div w /\ x3 = x2 \div w
  OBVIOUS
<1>1. x1 \in Int /\ x2 \in Int /\ x3 \in Int
  BY <1>0, DivMod
<1>2. w * w \in Nat \ {0} /\ w * (w * w) \in Nat \ {0}
  OBVIOUS
<1>3. x2 = x \div (w * w)
  BY <1>0, DivDiv
<1>4. x3 = x \div (w * (w * w))
  <2>1. x3 = x \div ((w * w) * w)
    BY <1>0, <1>2, <1>3, DivDiv
  <2>2. (w * w) * w = w * (w * w)
    OBVIOUS
  <2> QED
    BY <2>1, <2>2
<1>5. x % (w * (w * (w * w))) = (x % w) + w * (x1 % (w * (w * w)))
  BY <1>0, <1>2, TwoDigits
<1>6. x1 % (w * (w * w)) = (x1 % w) + w * (x2 % (w * w))
  BY <1>0, <1>1, <1>2, TwoDigits
<1>7. x2 % (w * w) = (x2 % w) + w * (x3 % w)
  BY <1>0, <1>1, TwoDigits
<1>8. (w * w) * (w * w) = w * (w * (w * w))
  <2>1. \A a \in Nat : (w * w) * a = w * (w * a)
    OBVIOUS
  <2> QED
    BY <1>2, <2>1
<1> QED
  BY ONLY <1>0, <1>3, <1>4, <1>5, <1>6, <1>7, <1>8

\* The three fields of a level column.
LEMMA LevelIs ==
    ASSUME NEW column \in Int, NEW l, l = Unsigned(Uint32Base, column)
    PROVE  LET level == Unsigned(WordBase, l)
               rscale == Unsigned(ByteBase, l \div WordBase)
               lscale == Unsigned(ByteBase, l \div (WordBase * ByteBase))
           IN /\ level + WordBase * (rscale + ByteBase * lscale) = column % Uint32Base
              /\ level < WordBase /\ rscale < ByteBase
<1>1. PICK b, w, u : b = ByteBase /\ w = WordBase /\ u = Uint32Base
  OBVIOUS
<1>2. b \in Nat \ {0} /\ w \in Nat \ {0} /\ u \in Nat \ {0} /\ w = b * b /\ u = w * w
  BY <1>1, BasesAre
<1>3. l = column % u /\ l \in 0..(u - 1)
  BY <1>1, <1>2, DivMod DEF Unsigned
<1>a. l \in Int /\ 0 <= l /\ l < u /\ 0 \in Int /\ l = u * 0 + l
  BY ONLY <1>2, <1>3
<1>4. l % (w * w) = l
  <2>1. l % u = l
    BY ONLY <1>2, <1>a, Remainder
  <2> QED
    BY ONLY <1>2, <2>1
<1>5. l % (w * w) = (l % w) + w * ((l \div w) % w)
  BY ONLY <1>2, <1>a, TwoDigits
<1>6. (l \div w) % w = ((l \div w) % b) + b * (((l \div w) \div b) % b)
  <2>1. l \div w \in Int
    BY <1>2, <1>3, DivMod
  <2> QED
    BY <1>2, <2>1, TwoDigits
<1>7. (l \div w) \div b = l \div (w * b)
  BY <1>2, <1>3, DivDiv
<1>8. l % w < w /\ (l \div w) % b < b
  <2>1. l \div w \in Int /\ l % w \in 0..(w - 1)
    BY ONLY <1>2, <1>a, DivMod
  <2>2. (l \div w) % b \in 0..(b - 1)
    BY ONLY <1>2, <2>1, DivMod
  <2> QED
    BY ONLY <1>2, <2>1, <2>2
<1>9. (l % w) + w * (((l \div w) % b) + b * ((l \div (w * b)) % b)) = column % u
  BY ONLY <1>3, <1>4, <1>5, <1>6, <1>7, <1>2
<1> QED
  BY ONLY <1>1, <1>8, <1>9 DEF Unsigned

\* Int32 keeps the column but for multiples of the base, and halves its range.
LEMMA Int32Is == ASSUME NEW column \in Int PROVE IsInt32Of(Int32(column), column)
<1>1. PICK u, half : u = Uint32Base /\ half = u \div 2
  OBVIOUS
<1>2. u \in Nat \ {0}
  BY <1>1, BasesAre
<1>3. half \in Int /\ u = 2 * half + (u % 2) /\ u % 2 \in 0..1
  BY <1>1, <1>2, DivMod
<1>4. PICK x, q, r : x = column + half /\ q = x \div u /\ r = x % u
  OBVIOUS
<1>5. x \in Int /\ q \in Int /\ r \in 0..(u - 1) /\ x = u * q + r
  <2>1. x \in Int
    BY <1>3, <1>4
  <2> QED
    BY ONLY <1>2, <1>4, <2>1, DivMod
<1>6. Int32(column) = r - half
  BY ONLY <1>1, <1>4 DEF Int32, Unsigned
<1>7. (r - half) - column = u * (0 - q) + 0
  <2>1. u * (0 - q) = 0 - u * q
    BY <1>2, <1>5
  <2>2. u * q \in Int
    BY <1>2, <1>5
  <2>3. (r - half) - column = 0 - u * q
    <3>1. PICK p : p = u * q
      OBVIOUS
    <3>2. p \in Int /\ column + half = p + r /\ r \in Int
      BY <1>4, <1>5, <2>2, <3>1
    <3>3. (r - half) - column = 0 - p
      BY <1>3, <3>2
    <3> QED
      BY <3>1, <3>3
  <2>4. u * (0 - q) \in Int
    BY <2>1, <2>2
  <2> QED
    BY <2>1, <2>3, <2>4
<1>8. ((r - half) - column) % u = 0
  <2>1. PICK y, p : y = (r - half) - column /\ p = 0 - q
    OBVIOUS
  <2>2. y \in Int /\ p \in Int /\ y = u * p + 0 /\ 0 \in Int /\ 0 <= 0 /\ 0 < u
    BY <1>2, <1>3, <1>5, <1>7, <2>1
  <2>3. y % u = 0
    BY ONLY <1>2, <2>2, Remainder
  <2> QED
    BY <2>1, <2>3
<1>9. PICK s : s = u % 2
  OBVIOUS
<1>10. 2 * (r - half) >= -u /\ 2 * (r - half) < u
  BY ONLY <1>2, <1>3, <1>5, <1>9
<1> QED
  BY ONLY <1>1, <1>6, <1>8, <1>10 DEF IsInt32Of

\* A Link monster is one whose type column has the bit.
LinkBit(column) ==
    \E rest, high \in 0..Uint32Base :
        /\ column % Uint32Base = high * 2 * TYPE_LINK + TYPE_LINK + rest
        /\ rest < TYPE_LINK

LEMMA LinkIs ==
    ASSUME NEW column \in Int PROVE IsLink(Unsigned(Uint32Base, column)) <=> LinkBit(column)
<1>1. PICK u, l, t : u = Uint32Base /\ l = TYPE_LINK /\ t = column % u
  OBVIOUS
<1>2. u \in Nat \ {0} /\ l \in Nat \ {0} /\ t \in 0..(u - 1)
  BY <1>1, BasesAre, ByteAssumption, DivMod
<1>3. PICK q, r : q = t \div l /\ r = t % l
  OBVIOUS
<1>4. q \in Int /\ r \in 0..(l - 1) /\ t = l * q + r
  BY <1>2, <1>3, DivMod
<1>5. ASSUME q % 2 = 1 PROVE \E rest, high \in 0..u : t = high * 2 * l + l + rest /\ rest < l
  <2>1. PICK high : high = q \div 2
    OBVIOUS
  <2>2. high \in Int /\ q = 2 * high + 1
    BY <1>4, <1>5, <2>1, DivMod
  <2>3. t = high * 2 * l + l + r
    <3>1. l * (2 * high + 1) = high * 2 * l + l
      BY <1>2, <2>2
    <3> QED
      BY <1>4, <2>2, <3>1
  <2>4. high \in 0..u /\ r \in 0..u
    <3>1. r <= t /\ q >= 0
      <4>1. q < 0 => l * q <= 0 - l
        BY <1>2, <1>4
      <4>2. q >= 0
        BY <1>2, <1>4, <4>1
      <4>3. l * q >= 0
        BY <1>2, <1>4, <4>2
      <4> QED
        BY <1>2, <1>4, <4>2, <4>3
    <3>2. q <= l * q
      BY <1>2, <1>4, <3>1
    <3>3. q <= t
      BY <1>2, <1>4, <3>2
    <3> QED
      BY <1>2, <1>4, <2>2, <3>1, <3>3
  <2>5. r < l
    BY <1>2, <1>4
  <2> QED
    BY <2>3, <2>4, <2>5
<1>6. ASSUME NEW rest \in 0..u, NEW high \in 0..u, t = high * 2 * l + l + rest, rest < l
      PROVE  q % 2 = 1
  <2>1. t = l * (2 * high + 1) + rest
    <3>1. l * (2 * high + 1) = high * 2 * l + l
      BY <1>2
    <3> QED
      BY <1>6, <3>1
  <2>2. q = 2 * high + 1
    BY <1>2, <1>3, <1>6, <2>1, Remainder
  <2> QED
    BY <2>2
<1> QED
  BY ONLY <1>1, <1>3, <1>5, <1>6 DEF IsLink, LinkBit, Unsigned

\* The archetypes of a row make up its setcode column.
LEMMA SetcodesAre == ASSUME NEW column \in Int PROVE SetcodesMean(SetcodesOf(column), column)
<1> DEFINE shift == <<1, WordBase, Uint32Base, WordBase * Uint32Base>>
           words == [i \in 1..4 |-> Unsigned(WordBase, column \div shift[i])]
<1>1. PICK w : w = WordBase
  OBVIOUS
<1>2. w \in Nat \ {0} /\ Uint32Base = w * w /\ Uint64Base = (w * w) * (w * w)
  BY <1>1, BasesAre
<1>3. /\ words[1] = column % w /\ words[2] = (column \div w) % w
      /\ words[3] = (column \div (w * w)) % w /\ words[4] = (column \div (w * (w * w))) % w
  <2>1. column \div 1 = column
    OBVIOUS
  <2>2. shift[1] = 1 /\ shift[2] = w /\ shift[3] = w * w /\ shift[4] = w * (w * w)
    BY <1>1, <1>2
  <2> HIDE DEF shift
  <2>3. \A i \in 1..4 : words[i] = (column \div shift[i]) % w
    BY <1>1 DEF Unsigned
  <2> QED
    BY <2>1, <2>2, <2>3
<1>4. \A i \in 1..4 : words[i] \in 0..(WordBase - 1)
  <2>1. w * w \in Nat \ {0} /\ w * (w * w) \in Nat \ {0}
    BY <1>2
  <2>2. /\ column \div w \in Int /\ column \div (w * w) \in Int
        /\ column \div (w * (w * w)) \in Int
    BY <1>2, <2>1, DivMod
  <2>3. \A x \in Int : x % w \in 0..(w - 1)
    BY <1>2, DivMod
  <2> HIDE DEF words
  <2> QED
    BY <1>1, <1>3, <2>2, <2>3
<1>5. words \in [1..4 -> 0..(WordBase - 1)]
  BY <1>4
<1>6. words[1] + WordBase * (words[2] + WordBase * (words[3] + WordBase * words[4])) = column % Uint64Base
  <2>1. column % Uint64Base = (column % w) + w * (((column \div w) % w)
          + w * (((column \div (w * w)) % w) + w * ((column \div (w * (w * w))) % w)))
    BY <1>2, FourWords
  <2> QED
    BY ONLY <1>1, <1>3, <2>1
<1>7. SetcodesOf(column) = Append(SelectSeq(words, LAMBDA slot : slot # 0), 0)
  BY DEF SetcodesOf
<1> HIDE DEF words
<1> QED
  BY <1>5, <1>6, <1>7 DEF SetcodesMean

\* A column narrowed twice is the column narrowed once.
LEMMA Int32Wraps ==
    ASSUME NEW column \in Int
    PROVE  Unsigned(Uint32Base, Int32(column)) = column % Uint32Base
<1>1. PICK u, half : u = Uint32Base /\ half = u \div 2
  OBVIOUS
<1>2. u \in Nat \ {0} /\ half \in Int
  BY <1>1, BasesAre, DivMod
<1>3. PICK x, q, r : x = column + half /\ q = x \div u /\ r = x % u
  OBVIOUS
<1>4. x \in Int
  BY <1>2, <1>3
<1>5. q \in Int /\ r \in 0..(u - 1) /\ x = u * q + r
  BY ONLY <1>2, <1>3, <1>4, DivMod
<1>6. PICK n, p, s : n = r - half /\ p = n \div u /\ s = n % u
  OBVIOUS
<1>7. n \in Int
  BY <1>2, <1>5, <1>6
<1>8. p \in Int /\ s \in 0..(u - 1) /\ n = u * p + s
  BY ONLY <1>2, <1>6, <1>7, DivMod
<1>9. column = u * (q + p) + s
  <2>1. PICK y, z : y = u * q /\ z = u * p
    OBVIOUS
  <2>2. y \in Int /\ z \in Int
    BY ONLY <1>2, <1>5, <1>8, <2>1
  <2>3. column = y + z + s
    <3>1. column + half = y + r /\ r - half = z + s
      BY ONLY <1>3, <1>5, <1>6, <1>8, <2>1
    <3>2. column \in Int /\ half \in Int /\ r \in Int /\ s \in Int
      BY <1>2, <1>5, <1>8
    <3> QED
      BY ONLY <2>2, <3>1, <3>2
  <2>4. u * (q + p) = y + z
    BY ONLY <1>2, <1>5, <1>8, <2>1
  <2> QED
    BY ONLY <2>3, <2>4
<1>10. column % u = s
  <2>1. q + p \in Int /\ s \in Int /\ 0 <= s /\ s < u
    BY ONLY <1>2, <1>5, <1>8
  <2>2. PICK d : d = q + p
    OBVIOUS
  <2>3. column \in Int
    OBVIOUS
  <2> QED
    BY ONLY <1>2, <1>9, <2>1, <2>2, <2>3, Remainder
<1>11. Int32(column) = n
  BY ONLY <1>1, <1>3, <1>6 DEF Int32, Unsigned
<1> QED
  BY ONLY <1>1, <1>6, <1>10, <1>11 DEF Unsigned

\* A row's entry means what its columns do.
LEMMA EntryMeans == ASSUME NEW row \in Rows PROVE Means(Entry(row), row)
<1>1. /\ row.id \in Int /\ row.alias \in Int /\ row.setcode \in Int /\ row.type \in Int
      /\ row.level \in Int /\ row.atk \in Int /\ row.def \in Int
  BY DEF Rows
<1>2. PICK card : card = Entry(row)
  OBVIOUS
<1> DEFINE type == Unsigned(Uint32Base, row.type)
           level == Unsigned(Uint32Base, row.level)
<1>3. /\ card.code = Unsigned(Uint32Base, row.id) /\ card.alias = Unsigned(Uint32Base, row.alias)
      /\ card.setcodes = SetcodesOf(row.setcode) /\ card.type = type
      /\ card.level = Unsigned(WordBase, level)
      /\ card.rscale = Unsigned(ByteBase, level \div WordBase)
      /\ card.lscale = Unsigned(ByteBase, level \div (WordBase * ByteBase))
      /\ card.attack = Int32(row.atk)
      /\ card.defense = (IF IsLink(type) THEN 0 ELSE Int32(row.def))
      /\ card.link_marker = (IF IsLink(type) THEN Unsigned(Uint32Base, Int32(row.def)) ELSE 0)
  BY <1>2 DEF Entry
<1>4. card.code = CodeOf(row) /\ card.alias = row.alias % Uint32Base
      /\ card.type = row.type % Uint32Base
  BY <1>3 DEF Unsigned, CodeOf
<1>5. SetcodesMean(card.setcodes, row.setcode)
  BY <1>1, <1>3, SetcodesAre
<1>6. /\ card.level + WordBase * (card.rscale + ByteBase * card.lscale) = row.level % Uint32Base
      /\ card.level < WordBase /\ card.rscale < ByteBase
  <2>1. PICK l : l = level
    OBVIOUS
  <2>2. /\ Unsigned(WordBase, l) + WordBase * (Unsigned(ByteBase, l \div WordBase)
             + ByteBase * Unsigned(ByteBase, l \div (WordBase * ByteBase))) = row.level % Uint32Base
        /\ Unsigned(WordBase, l) < WordBase /\ Unsigned(ByteBase, l \div WordBase) < ByteBase
    BY <1>1, <2>1, LevelIs
  <2> HIDE DEF level
  <2> QED
    BY ONLY <1>3, <2>1, <2>2
<1>7. IsInt32Of(card.attack, row.atk) /\ IsInt32Of(Int32(row.def), row.def)
  BY <1>1, <1>3, Int32Is
<1>8. IsLink(type) <=> LinkBit(row.type)
  BY <1>1, LinkIs
<1>9. Unsigned(Uint32Base, Int32(row.def)) = row.def % Uint32Base
  BY <1>1, Int32Wraps
<1> HIDE DEF type, level
<1>10. IF LinkBit(row.type) THEN card.defense = 0 /\ card.link_marker = row.def % Uint32Base
       ELSE IsInt32Of(card.defense, row.def) /\ card.link_marker = 0
  BY ONLY <1>3, <1>7, <1>8, <1>9
<1>11. Means(card, row)
  BY ONLY <1>4, <1>5, <1>6, <1>7, <1>10 DEF Means, LinkBit
<1> QED
  BY <1>2, <1>11

-----------------------------------------------------------------------------
(* The card table *)

Entries == {Entry(row) : row \in Rows}
Tables == UNION {[codes -> Entries] : codes \in SUBSET Nat}

\* A table has what the rows read so far say, the later ones above the earlier.
TableOf(rows, table) ==
    /\ DOMAIN table = {CodeOf(rows[i]) : i \in DOMAIN rows}
    /\ \A code \in DOMAIN table :
         \E i \in DOMAIN rows :
            /\ CodeOf(rows[i]) = code /\ table[code] = Entry(rows[i])
            /\ \A j \in DOMAIN rows : CodeOf(rows[j]) = code => j <= i

LEMMA EntryCode == ASSUME NEW row \in Rows PROVE Entry(row).code = CodeOf(row) /\ CodeOf(row) \in Nat
<1>1. row.id \in Int
  BY DEF Rows
<1>2. row.id % Uint32Base \in Nat
  BY <1>1, BasesAre, DivMod
<1> QED
  BY <1>2 DEF Entry, CodeOf, Unsigned

LEMMA PutIs ==
    ASSUME NEW table \in Tables, NEW row \in Rows
    PROVE  /\ Put(table, row) \in Tables
           /\ DOMAIN Put(table, row) = DOMAIN table \cup {CodeOf(row)}
           /\ Put(table, row)[CodeOf(row)] = Entry(row)
           /\ \A code \in DOMAIN table : code # CodeOf(row) => Put(table, row)[code] = table[code]
<1>1. PICK codes \in SUBSET Nat : table \in [codes -> Entries]
  BY DEF Tables
<1>2. Entry(row).code = CodeOf(row) /\ CodeOf(row) \in Nat /\ Entry(row) \in Entries
  BY EntryCode DEF Entries
<1>3. PICK c, e : c = CodeOf(row) /\ e = Entry(row)
  OBVIOUS
<1>4. PICK next : next = Put(table, row)
  OBVIOUS
<1>5. next = [code \in codes \cup {c} |-> IF code = c THEN e ELSE table[code]]
  <2>1. DOMAIN table = codes /\ Entry(row).code = c
    BY <1>1, <1>2, <1>3
  <2> QED
    BY <1>3, <1>4, <2>1 DEF Put
<1>6. next \in [codes \cup {c} -> Entries] /\ codes \cup {c} \in SUBSET Nat
  BY ONLY <1>1, <1>2, <1>3, <1>5
<1>7. next \in Tables
  BY <1>6 DEF Tables
<1>8. /\ DOMAIN next = DOMAIN table \cup {c} /\ next[c] = e
      /\ \A code \in DOMAIN table : code # c => next[code] = table[code]
  BY ONLY <1>1, <1>5
<1> QED
  BY <1>3, <1>4, <1>7, <1>8

\* A row more.
LEMMA RowMore ==
    ASSUME NEW rows \in Seq(Rows), NEW row \in Rows, NEW table \in Tables, TableOf(rows, table)
    PROVE  TableOf(Append(rows, row), Put(table, row))
<1>1. PICK n, c, next, all : /\ n = Len(rows) /\ c = CodeOf(row) /\ next = Put(table, row)
                             /\ all = Append(rows, row)
  OBVIOUS
<1>2. /\ n \in Nat /\ DOMAIN rows = 1..n /\ DOMAIN all = 1..(n + 1) /\ all[n + 1] = row
      /\ \A i \in 1..n : all[i] = rows[i]
  BY <1>1
<1>3. /\ DOMAIN next = DOMAIN table \cup {c} /\ next[c] = Entry(row)
      /\ \A code \in DOMAIN table : code # c => next[code] = table[code]
  BY <1>1, PutIs
<1>4. DOMAIN next = {CodeOf(all[i]) : i \in DOMAIN all}
  <2>1. DOMAIN table = {CodeOf(rows[i]) : i \in 1..n}
    BY <1>2 DEF TableOf
  <2>2. \A i \in 1..(n + 1) : i = n + 1 \/ i \in 1..n
    BY <1>2
  <2>3. \A i \in 1..n : i \in 1..(n + 1)
    BY <1>2
  <2>4. n + 1 \in 1..(n + 1)
    BY <1>2
  <2>5. \A i \in 1..n : CodeOf(all[i]) = CodeOf(rows[i])
    BY <1>2
  <2>6. CodeOf(all[n + 1]) = c
    BY <1>1, <1>2
  <2> QED
    BY ONLY <1>2, <1>3, <2>1, <2>2, <2>3, <2>4, <2>5, <2>6
<1>5. ASSUME NEW code \in DOMAIN next
      PROVE  \E i \in DOMAIN all : /\ CodeOf(all[i]) = code /\ next[code] = Entry(all[i])
                                   /\ \A j \in DOMAIN all : CodeOf(all[j]) = code => j <= i
  <2>1. CASE code = c
    <3>1. n + 1 \in DOMAIN all /\ CodeOf(all[n + 1]) = code /\ next[code] = Entry(all[n + 1])
      BY <1>1, <1>2, <1>3, <2>1
    <3>2. \A j \in DOMAIN all : j <= n + 1
      BY <1>2
    <3> QED
      BY <3>1, <3>2
  <2>2. CASE code # c
    <3>1. code \in DOMAIN table
      BY <1>3, <2>2
    <3>2. PICK i \in 1..n : /\ CodeOf(rows[i]) = code /\ table[code] = Entry(rows[i])
                            /\ \A j \in 1..n : CodeOf(rows[j]) = code => j <= i
      BY <1>2, <3>1 DEF TableOf
    <3>3. i \in DOMAIN all /\ CodeOf(all[i]) = code /\ next[code] = Entry(all[i])
      BY <1>2, <1>3, <2>2, <3>1, <3>2
    <3>4. ASSUME NEW j \in DOMAIN all, CodeOf(all[j]) = code PROVE j <= i
      <4>1. j # n + 1
        BY <1>1, <1>2, <2>2, <3>4
      <4>2. j \in 1..n
        BY <1>2, <4>1
      <4> QED
        BY <1>2, <3>2, <3>4, <4>2
    <3> QED
      BY <3>3, <3>4
  <2> QED
    BY <2>1, <2>2
<1> QED
  BY <1>1, <1>4, <1>5 DEF TableOf

\* The tables after each of the n rows of a file.
Loads(r, n, table, path) ==
    /\ r \in [0..n -> Tables] /\ r[0] = table /\ r[n] = LoadFromFile(table, path)
    /\ \A k \in 1..n : r[k] = Put(r[k - 1], RowsRead(path)[k])

LEMMA LoadIs ==
    ASSUME NEW path, NEW rs \in Seq(Rows), rs = RowsRead(path), NEW n \in Nat, n = Len(rs),
           NEW table \in Tables
    PROVE  \E r : Loads(r, n, table, path)
<1>a. rs = RowsRead(path)
  OBVIOUS
<1>0. DOMAIN rs = 1..n /\ \A i \in 1..n : rs[i] \in Rows
  BY <1>a
<1> DEFINE Eq(it) == it = [t \in SUBSET DOMAIN rs |->
                             IF t = {} THEN table ELSE Put(it[t \ {Max(t)}], rs[Max(t)])]
           G == [i \in 1..n |-> [p \in Tables |-> Put(p, rs[i])]]
<1>1. PICK it : it = (CHOOSE f : Eq(f))
  OBVIOUS
<1>2. LoadFromFile(table, path) = it[1..n]
  BY <1>a, <1>0, <1>1 DEF LoadFromFile, FoldLeft, MapThenFoldSet
<1>3. \A i \in 1..n : \A p \in Tables : Put(p, rs[i]) \in Tables
  BY <1>0, PutIs
<1>4. G \in [1..n -> [Tables -> Tables]]
  BY <1>3
<1>5. PICK t : FoldTable(t, n, Tables, table, G)
  <2> HIDE DEF G
  <2> QED
    BY <1>4, FoldExists
<1>6. ASSUME NEW u \in SUBSET (1..n), u # {}
      PROVE  Max(u) \in 1..n /\ u \in SUBSET DOMAIN rs /\ u \ {Max(u)} \in SUBSET (1..n)
  BY <1>0, <1>6, MaxIs
<1>7. Eq(t)
  <2>1. ASSUME NEW u \in SUBSET (1..n), u # {} PROVE t[u] = Put(t[u \ {Max(u)}], rs[Max(u)])
    <3>1. t[u \ {Max(u)}] \in Tables
      BY <1>5, <1>6, <2>1 DEF FoldTable
    <3> QED
      BY <1>5, <1>6, <2>1, <3>1 DEF FoldTable
  <2> QED
    BY <1>0, <1>5, <2>1 DEF FoldTable
<1>8. Eq(it)
  <2> HIDE DEF Eq
  <2> QED
    BY <1>1, <1>7
<1>9. Folds(it, n, Tables, table, G)
  <2>1. it[{}] = table
    BY <1>0, <1>8
  <2>2. ASSUME NEW u \in SUBSET (1..n), u # {}, it[u \ {Max(u)}] \in Tables
        PROVE  it[u] = G[Max(u)][it[u \ {Max(u)}]]
    <3>1. it[u] = Put(it[u \ {Max(u)}], rs[Max(u)])
      BY <1>6, <1>8, <2>2
    <3>2. G[Max(u)][it[u \ {Max(u)}]] = Put(it[u \ {Max(u)}], rs[Max(u)])
      BY <1>6, <2>2
    <3> HIDE DEF G
    <3> QED
      BY <3>1, <3>2
  <2> QED
    BY <2>1, <2>2 DEF Folds
<1>10. PICK r : Values(r, it, n, Tables, table, G)
  <2> HIDE DEF G
  <2> QED
    BY <1>4, <1>9, FoldSteps
<1>11. ASSUME NEW k \in 1..n PROVE r[k] = Put(r[k - 1], rs[k])
  <2>1. r[k - 1] \in Tables
    BY <1>10, k - 1 \in 0..n DEF Values
  <2> QED
    BY <1>10, <2>1 DEF Values
<1>12. r \in [0..n -> Tables] /\ r[0] = table /\ r[n] = LoadFromFile(table, path)
  BY <1>2, <1>10 DEF Values
<1> QED
  BY <1>a, <1>11, <1>12 DEF Loads

\* A file more.
LEMMA FileMore ==
    ASSUME NEW rows \in Seq(Rows), NEW path, RowsRead(path) \in Seq(Rows),
           NEW table \in Tables, TableOf(rows, table)
    PROVE  /\ LoadFromFile(table, path) \in Tables
           /\ TableOf(rows \o RowsRead(path), LoadFromFile(table, path))
<1>1. PICK rs, n : rs = RowsRead(path) /\ n = Len(rs)
  OBVIOUS
<1>2. rs \in Seq(Rows) /\ n \in Nat /\ DOMAIN rs = 1..n /\ \A i \in 1..n : rs[i] \in Rows
  BY <1>1
<1>a. PICK r : Loads(r, n, table, path)
  BY <1>1, <1>2, LoadIs
<1>3. /\ r \in [0..n -> Tables] /\ r[0] = table /\ r[n] = LoadFromFile(table, path)
      /\ \A k \in 1..n : r[k] = Put(r[k - 1], rs[k])
  BY <1>1, <1>a DEF Loads
<1> DEFINE Done(k) == rows \o SubSeq(rs, 1, k)
           H == {k \in 0..n : TableOf(Done(k), r[k])}
<1>4. 0 \in H
  <2>1. SubSeq(rs, 1, 0) = <<>>
    BY <1>2
  <2>2. Done(0) = rows
    BY <2>1
  <2> HIDE DEF Done
  <2> QED
    BY <1>2, <1>3, <2>2
<1>5. ASSUME NEW k \in 0..(n - 1), k \in H PROVE k + 1 \in H
  <2>1. k + 1 \in 1..n /\ k + 1 \in 0..n /\ (k + 1) - 1 = k /\ k \in 0..n /\ k \in Nat
    BY <1>2
  <2>2. SubSeq(rs, 1, k) \in Seq(Rows) /\ rs[k + 1] \in Rows
    BY <1>2, <2>1
  <2>3. SubSeq(rs, 1, k + 1) = Append(SubSeq(rs, 1, k), rs[k + 1])
    BY <1>2, <2>1
  <2>4. Done(k) \in Seq(Rows)
    BY <2>2
  <2>5. Done(k + 1) = Append(Done(k), rs[k + 1])
    BY <2>2, <2>3
  <2>6. TableOf(Done(k), r[k]) /\ r[k] \in Tables
    BY <1>3, <1>5, <2>1
  <2> HIDE DEF Done
  <2>7. TableOf(Done(k + 1), Put(r[k], rs[k + 1]))
    BY <2>2, <2>4, <2>5, <2>6, RowMore
  <2>8. r[k + 1] = Put(r[k], rs[k + 1])
    BY <1>3, <2>1
  <2> QED
    BY <2>1, <2>7, <2>8
<1>6. n \in H
  <2> HIDE DEF H
  <2>1. 0..n \subseteq H
    BY <1>2, <1>4, <1>5, Steps
  <2> QED
    BY <1>2, <2>1
<1>7. SubSeq(rs, 1, n) = rs
  BY <1>1, <1>2
<1>8. Done(n) = rows \o rs
  BY <1>7
<1>9. TableOf(rows \o rs, r[n])
  <2> HIDE DEF Done
  <2> QED
    BY <1>6, <1>8
<1>10. r[n] \in Tables
  BY <1>2, <1>3
<1> QED
  BY <1>1, <1>3, <1>9, <1>10

\* The files, one by one.
LEMMA OpenedIs ==
    ASSUME NEW n \in Nat, NEW paths \in [1..n -> DbPaths],
           \A path \in DbPaths : RowsRead(path) \in Seq(Rows)
    PROVE  \E r : /\ r \in [0..n -> Tables] /\ r[0] = NoCards /\ r[n] = OpenedCards(paths)
                  /\ \A k \in 1..n : r[k] = LoadFromFile(r[k - 1], paths[k])
<1>0. DOMAIN paths = 1..n /\ \A i \in 1..n : paths[i] \in DbPaths
  OBVIOUS
<1> DEFINE Eq(it) == it = [t \in SUBSET DOMAIN paths |->
                             IF t = {} THEN NoCards
                             ELSE LoadFromFile(it[t \ {Max(t)}], paths[Max(t)])]
           G == [i \in 1..n |-> [p \in Tables |-> LoadFromFile(p, paths[i])]]
<1>a. NoCards \in Tables
  <2>1. NoCards \in [{} -> Entries]
    BY DEF NoCards
  <2> QED
    BY <2>1 DEF Tables
<1>1. PICK it : it = (CHOOSE f : Eq(f))
  OBVIOUS
<1>2. OpenedCards(paths) = it[1..n]
  BY <1>0, <1>1 DEF OpenedCards, FoldLeft, MapThenFoldSet
<1>3. ASSUME NEW i \in 1..n, NEW p \in Tables PROVE LoadFromFile(p, paths[i]) \in Tables
  <2>1. PICK path, rs, m : path = paths[i] /\ rs = RowsRead(path) /\ m = Len(rs)
    OBVIOUS
  <2>2. rs \in Seq(Rows)
    BY <1>0, <2>1
  <2>3. m \in Nat
    BY <2>1, <2>2
  <2>4. PICK r : Loads(r, m, p, path)
    BY <2>1, <2>2, <2>3, LoadIs
  <2>5. r \in [0..m -> Tables] /\ r[m] = LoadFromFile(p, path)
    BY <2>4 DEF Loads
  <2>6. r[m] \in Tables
    BY <2>3, <2>5
  <2> QED
    BY <2>1, <2>5, <2>6
<1>4. G \in [1..n -> [Tables -> Tables]]
  BY <1>3
<1>5. PICK t : FoldTable(t, n, Tables, NoCards, G)
  <2> HIDE DEF G
  <2> QED
    BY <1>a, <1>4, FoldExists
<1>6. ASSUME NEW u \in SUBSET (1..n), u # {}
      PROVE  Max(u) \in 1..n /\ u \in SUBSET DOMAIN paths /\ u \ {Max(u)} \in SUBSET (1..n)
  BY <1>0, <1>6, MaxIs
<1>7. Eq(t)
  <2>1. ASSUME NEW u \in SUBSET (1..n), u # {}
        PROVE  t[u] = LoadFromFile(t[u \ {Max(u)}], paths[Max(u)])
    <3>1. t[u \ {Max(u)}] \in Tables
      BY <1>5, <1>6, <2>1 DEF FoldTable
    <3> QED
      BY <1>5, <1>6, <2>1, <3>1 DEF FoldTable
  <2> QED
    BY <1>0, <1>5, <2>1 DEF FoldTable
<1>8. Eq(it)
  <2> HIDE DEF Eq
  <2> QED
    BY <1>1, <1>7
<1>9. Folds(it, n, Tables, NoCards, G)
  <2>1. it[{}] = NoCards
    BY <1>0, <1>8
  <2>2. ASSUME NEW u \in SUBSET (1..n), u # {}, it[u \ {Max(u)}] \in Tables
        PROVE  it[u] = G[Max(u)][it[u \ {Max(u)}]]
    <3>1. it[u] = LoadFromFile(it[u \ {Max(u)}], paths[Max(u)])
      BY <1>6, <1>8, <2>2
    <3>2. G[Max(u)][it[u \ {Max(u)}]] = LoadFromFile(it[u \ {Max(u)}], paths[Max(u)])
      BY <1>6, <2>2
    <3> HIDE DEF G
    <3> QED
      BY <3>1, <3>2
  <2> QED
    BY <2>1, <2>2 DEF Folds
<1>10. PICK r : Values(r, it, n, Tables, NoCards, G)
  <2> HIDE DEF G
  <2> QED
    BY <1>a, <1>4, <1>9, FoldSteps
<1>11. ASSUME NEW k \in 1..n PROVE r[k] = LoadFromFile(r[k - 1], paths[k])
  <2>1. r[k - 1] \in Tables
    BY <1>10, k - 1 \in 0..n DEF Values
  <2> QED
    BY <1>10, <2>1 DEF Values
<1>12. r \in [0..n -> Tables] /\ r[0] = NoCards /\ r[n] = OpenedCards(paths)
  BY <1>2, <1>10 DEF Values
<1> QED
  BY <1>11, <1>12

\* What open() makes of its files is what all their rows say.
LEMMA OpenedTells ==
    ASSUME NEW paths \in Seq(DbPaths), paths # <<>>,
           \A path \in DbPaths : RowsRead(path) \in Seq(Rows)
    PROVE  AllRows(paths) \in Seq(Rows) /\ TableOf(AllRows(paths), OpenedCards(paths))
<1>1. PICK n, s : n = Len(paths) /\ s = [i \in DOMAIN paths |-> RowsRead(paths[i])]
  OBVIOUS
<1>2. n \in Nat \ {0} /\ paths \in [1..n -> DbPaths] /\ DOMAIN paths = 1..n
  BY <1>1
<1>3. s \in [1..n -> Seq(Rows)] /\ \A i \in 1..n : s[i] = RowsRead(paths[i])
  BY <1>1, <1>2
<1>4. PICK f : Joins(f, s, n, Rows) /\ FlattenSeq(s) = f[n]
  BY <1>2, <1>3, FlattenIs
<1>5. PICK r : /\ r \in [0..n -> Tables] /\ r[0] = NoCards /\ r[n] = OpenedCards(paths)
               /\ \A k \in 1..n : r[k] = LoadFromFile(r[k - 1], paths[k])
  BY <1>2, OpenedIs
<1> DEFINE H == {k \in 0..n : k # 0 => TableOf(f[k], r[k])}
<1>6. 0 \in H
  BY <1>2
<1>7. TableOf(<<>>, NoCards)
  BY DEF TableOf, NoCards
<1>8. ASSUME NEW k \in 0..(n - 1), k \in H PROVE k + 1 \in H
  <2>1. k + 1 \in 1..n /\ k + 1 \in 0..n /\ (k + 1) - 1 = k /\ k \in 0..n /\ k \in Nat
    BY <1>2
  <2>2. PICK path, done : /\ path = paths[k + 1]
                          /\ done = IF k = 0 THEN <<>> ELSE f[k]
    OBVIOUS
  <2>3. path \in DbPaths /\ RowsRead(path) \in Seq(Rows) /\ s[k + 1] = RowsRead(path)
    BY <1>2, <1>3, <2>1, <2>2
  <2>4. done \in Seq(Rows) /\ TableOf(done, r[k]) /\ r[k] \in Tables
    <3>1. CASE k = 0
      BY <1>5, <1>7, <2>1, <2>2, <3>1
    <3>2. CASE k # 0
      <4>1. k \in 1..n
        BY <2>1, <3>2
      <4> QED
        BY <1>4, <1>5, <1>8, <2>1, <2>2, <3>2, <4>1 DEF Joins
    <3> QED
      BY <3>1, <3>2
  <2>5. f[k + 1] = done \o RowsRead(path)
    <3>1. CASE k = 0
      <4>1. f[1] = s[1]
        BY <1>4 DEF Joins
      <4>2. k + 1 = 1 /\ done = <<>>
        BY <2>2, <3>1
      <4>3. done \o RowsRead(path) = RowsRead(path)
        BY <2>3, <4>2
      <4> QED
        BY <2>3, <4>1, <4>2, <4>3
    <3>2. CASE k # 0
      <4>1. k + 1 \in 2..n
        BY <2>1, <3>2
      <4>2. f[k + 1] = f[k] \o s[k + 1]
        BY <1>4, <2>1, <4>1 DEF Joins
      <4> QED
        BY <2>2, <2>3, <3>2, <4>2
    <3> QED
      BY <3>1, <3>2
  <2>6. TableOf(done \o RowsRead(path), LoadFromFile(r[k], path))
    BY <2>3, <2>4, FileMore
  <2>7. r[k + 1] = LoadFromFile(r[k], path)
    BY <1>5, <2>1, <2>2
  <2> QED
    BY <2>1, <2>5, <2>6, <2>7
<1>9. n \in H
  <2> HIDE DEF H
  <2>1. 0..n \subseteq H
    BY <1>2, <1>6, <1>8, Steps
  <2> QED
    BY <1>2, <2>1
<1>10. TableOf(f[n], r[n]) /\ f[n] \in Seq(Rows)
  BY <1>2, <1>4, <1>9 DEF Joins
<1>11. AllRows(paths) = f[n]
  BY <1>1, <1>4 DEF AllRows
<1> QED
  BY <1>5, <1>10, <1>11

\* What an engine has of its files.
CardsInv ==
    /\ databases \in Databases
    /\ engine => /\ opened \in Seq(DbPaths) /\ opened # <<>>
                 /\ \A path \in ToSet(opened) : Readable(path)
                 /\ AllRows(opened) \in Seq(Rows) /\ TableOf(AllRows(opened), cards)

LEMMA RowsTyped ==
    ASSUME databases \in Databases PROVE \A path \in DbPaths : RowsRead(path) \in Seq(Rows)
<1> SUFFICES ASSUME NEW path \in DbPaths PROVE RowsRead(path) \in Seq(Rows)
  OBVIOUS
<1>1. PICK rows, n : rows = databases[path].rows /\ n = databases[path].delivers
  OBVIOUS
<1>2. rows \in Seq(Rows) /\ n \in Nat /\ n <= Len(rows)
  BY <1>1, DatabaseAssumption
<1>3. SubSeq(rows, 1, n) \in Seq(Rows)
  BY ONLY <1>2
<1> QED
  BY <1>1, <1>3 DEF RowsRead

\* Whatever does not make an engine leaves its table alone.
LEMMA CardsKeptBy ==
    ASSUME CardsInv, databases' = databases, engine' => engine /\ UNCHANGED <<opened, cards>>
    PROVE  CardsInv'
<1>1. CASE ~engine'
  BY <1>1 DEF CardsInv
<1>2. CASE engine'
  <2>1. engine /\ opened' = opened /\ cards' = cards
    BY <1>2
  <2>2. AllRows(opened)' = AllRows(opened)
    BY <2>1 DEF AllRows, RowsRead
  <2>3. \A path : Readable(path)' <=> Readable(path)
    BY DEF Readable
  <2>4. TableOf(AllRows(opened), cards)'
    BY <2>1, <2>2 DEF CardsInv, TableOf
  <2> QED
    BY <2>1, <2>2, <2>3, <2>4 DEF CardsInv, ToSet
<1> QED
  BY <1>1, <1>2

LEMMA CreateEngineReads ==
    ASSUME CardsInv, NEW configuration \in Configurations, nCreateEngine(configuration)
    PROVE  CardsInv'
<1>1. PICK dbPaths : dbPaths = Strings(configuration.dbs)
  OBVIOUS
<1>2. dbPaths \in Seq(DbPaths) /\ databases' = databases
  BY <1>1, ConfigurationAssumption DEF nCreateEngine
<1>3. CASE Opens(dbPaths)
  <2>1. opened' = dbPaths /\ cards' = OpenedCards(dbPaths)
    BY <1>1, <1>3 DEF nCreateEngine, EngineInit
  <2>2. dbPaths # <<>> /\ \A path \in ToSet(dbPaths) : Readable(path)
    BY <1>3 DEF Opens
  <2>3. AllRows(dbPaths) \in Seq(Rows) /\ TableOf(AllRows(dbPaths), OpenedCards(dbPaths))
    BY <1>2, <2>2, RowsTyped, OpenedTells DEF CardsInv
  <2>4. AllRows(opened)' = AllRows(dbPaths)
    BY <1>2, <2>1 DEF AllRows, RowsRead
  <2>5. \A path : Readable(path)' <=> Readable(path)
    BY <1>2 DEF Readable
  <2>6. TableOf(AllRows(opened), cards)'
    BY <2>1, <2>3, <2>4 DEF TableOf
  <2> QED
    BY <1>2, <2>1, <2>2, <2>3, <2>4, <2>5, <2>6 DEF CardsInv, ToSet
<1>4. CASE ~Opens(dbPaths)
  <2>1. UNCHANGED <<engine, opened, cards>>
    BY <1>1, <1>4 DEF nCreateEngine, engineVars
  <2> QED
    BY <1>2, <2>1, CardsKeptBy
<1> QED
  BY <1>3, <1>4

LEMMA NextReads == ASSUME CardsInv, [Next]_vars PROVE CardsInv'
<1>1. ASSUME NEW configuration \in Configurations, nCreateEngine(configuration) PROVE CardsInv'
  BY <1>1, CreateEngineReads
<1>2. CASE nDestroyEngine
  BY <1>2, CardsKeptBy DEF nDestroyEngine
<1>3. CASE CatchException \/ nCreateDuel \/ CreationFails \/ CreateReturns \/ CallReturns
  BY <1>3, CardsKeptBy
     DEF CatchException, nCreateDuel, CreationFails, CreateReturns, CallReturns, engineVars, cardVars
<1>4. ASSUME NEW duel, DuelCreated(duel) \/ nDestroyDuel(duel) \/ Enter(duel) \/ Consult(duel)
      PROVE  CardsInv'
  BY <1>4, CardsKeptBy DEF DuelCreated, nDestroyDuel, Enter, Consult, engineVars, cardVars
<1>5. ASSUME NEW accepted, LoadBootstrap(accepted) PROVE CardsInv'
  BY <1>5, CardsKeptBy DEF LoadBootstrap, engineVars, cardVars
<1>6. ASSUME NEW name, NEW accepted, ScriptReader(name, accepted) PROVE CardsInv'
  BY <1>6, CardsKeptBy DEF ScriptReader, engineVars, cardVars
<1>7. ASSUME NEW code, ReadCard(code) PROVE CardsInv'
  BY <1>7, CardsKeptBy DEF ReadCard, CardReader, engineVars
<1>8. ASSUME NEW dir, NEW name, NEW state, FilesChange(dir, name, state) PROVE CardsInv'
  BY <1>8, CardsKeptBy DEF FilesChange, engineVars, cardVars
<1>9. CASE UNCHANGED vars
  BY <1>9, CardsKeptBy DEF vars, engineVars, cardVars
<1> QED
  BY <1>1, <1>2, <1>3, <1>4, <1>5, <1>6, <1>7, <1>8, <1>9 DEF Next

\* The row that counts is the one that was read last.
LEMMA LastRowIs ==
    ASSUME NEW rows, DOMAIN rows \subseteq Int, NEW code, NEW i \in DOMAIN rows,
           CodeOf(rows[i]) = code, \A j \in DOMAIN rows : CodeOf(rows[j]) = code => j <= i
    PROVE  LastRow(rows, code) = rows[i]
<1>1. PICK of : of = {j \in DOMAIN rows : CodeOf(rows[j]) = code}
  OBVIOUS
<1>2. i \in of /\ (\A j \in of : j <= i) /\ of \subseteq Int
  BY <1>1
<1>3. PICK k : k = CHOOSE j \in of : \A m \in of : m <= j
  OBVIOUS
<1>4. k \in of /\ \A m \in of : m <= k
  BY <1>2, <1>3
<1>5. k = i
  BY <1>2, <1>4
<1> QED
  BY <1>1, <1>3, <1>5 DEF LastRow

LEMMA InvMeans == CardsInv => CardsMeanFiles
<1> SUFFICES ASSUME CardsInv, engine
             PROVE  LET rows == AllRows(opened)
                        known == {CodeOf(rows[i]) : i \in DOMAIN rows}
                    IN /\ opened # <<>> /\ \A path \in ToSet(opened) : Readable(path)
                       /\ \A code \in known : Means(CardData(code), LastRow(rows, code))
                       /\ \A code \in Codes \ known : CardData(code) = Blank
  BY DEF CardsMeanFiles
<1>1. PICK rows : rows = AllRows(opened)
  OBVIOUS
<1>2. rows \in Seq(Rows) /\ TableOf(rows, cards)
  BY <1>1 DEF CardsInv
<1>3. DOMAIN cards = {CodeOf(rows[i]) : i \in DOMAIN rows}
  BY <1>2 DEF TableOf
<1>4. ASSUME NEW code \in DOMAIN cards PROVE Means(CardData(code), LastRow(rows, code))
  <2>1. PICK i \in DOMAIN rows : /\ CodeOf(rows[i]) = code /\ cards[code] = Entry(rows[i])
                                 /\ \A j \in DOMAIN rows : CodeOf(rows[j]) = code => j <= i
    BY <1>2, <1>4 DEF TableOf
  <2>2. DOMAIN rows \subseteq Int /\ rows[i] \in Rows
    BY <1>2, <2>1
  <2>3. LastRow(rows, code) = rows[i]
    BY <2>1, <2>2, LastRowIs
  <2>4. CardData(code) = Entry(rows[i])
    BY <1>4, <2>1 DEF CardData
  <2>5. Means(Entry(rows[i]), rows[i])
    BY <2>2, EntryMeans
  <2> QED
    BY <2>3, <2>4, <2>5
<1>5. \A code : code \notin DOMAIN cards => CardData(code) = Blank
  BY DEF CardData
<1>6. opened # <<>> /\ \A path \in ToSet(opened) : Readable(path)
  BY DEF CardsInv
<1> QED
  BY ONLY <1>1, <1>3, <1>4, <1>5, <1>6

\* An engine gives the core the card its files give last for a code, decoded column by column,
\* and a blank one for the codes they do not have (card_database.cpp).
THEOREM CardsFaithful == Spec => []CardsMeanFiles
<1>1. Init => CardsInv
  BY DEF Init, CardsInv
<1>2. CardsInv /\ [Next]_vars => CardsInv'
  BY NextReads
<1> QED
  BY <1>1, <1>2, InvMeans, PTL DEF Spec
================================================================================
