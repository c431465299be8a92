---------------------------- MODULE ScriptProvider ----------------------------
(***************************************************************************)
(* script_provider.cpp: where the Lua scripts of an engine come from.      *)
(*                                                                         *)
(* A name is searched in the directories of the search path, in order; the *)
(* first file that can be read wins.  The outcome of the first search, a   *)
(* path or a miss, is remembered for the life of the engine, while the     *)
(* files stay where anybody can change them.                               *)
(***************************************************************************)
EXTENDS Naturals, Sequences, SequencesExt, JavaLog

CONSTANTS
    Dirs,       \* the directories a search path can name
    Unseen,     \* resolved_ has no entry for the name
    Missing     \* the empty path: a miss; also the absence of content

ASSUME LookupAssumption == Unseen # Missing /\ Unseen \notin Dirs /\ Missing \notin Dirs

VARIABLES
    files,          \* external: directory -> name -> what is on disk
    searchPaths,    \* searchPaths_
    resolved,       \* resolved_: name -> directory, Missing or Unseen
    served          \* name -> directories whose file was given to the engine

scriptVars == <<searchPaths, resolved, served>>

FileStates == {"absent", "empty", "whole"}

NothingSeen == [name \in Names |-> Unseen]
NothingServed == [name \in Names |-> {}]

\* A search path; a new one forgets what was resolved with the old one.
SetSearchPaths(paths) ==
    /\ searchPaths' = paths
    /\ resolved' = NothingSeen
    /\ served' = NothingServed

\* A file that cannot be opened, is empty or comes up short gives no content.
ReadPath(dir, name) == files[dir][name] = "whole"

\* The directory of the first file on the search path that can be read.
FirstMatch(name) ==
    LET has(dir) == ReadPath(dir, name)
        i == SelectInSeq(searchPaths, has)
    IN IF i = 0 THEN Missing ELSE searchPaths[i]

\* Mutant: a remembered path that fails is searched again.
SourceAgain(name) ==
    IF resolved[name] \in {Unseen, Missing} \/ ~ReadPath(resolved[name], name)
    THEN FirstMatch(name) ELSE resolved[name]

\* What readFile finds, and where: from the remembered path only, if there is one.
Source(name) ==
    IF resolved[name] = Unseen THEN FirstMatch(name)
    ELSE IF resolved[name] # Missing /\ ReadPath(resolved[name], name) THEN resolved[name]
    ELSE Missing

\* Mutant: every search is remembered, not only the first.
RememberLatest(name) == resolved' = [resolved EXCEPT ![name] = Source(name)]

\* resolved_.emplace: the first search settles the name.
Remember(name) ==
    resolved' = [resolved EXCEPT ![name] = IF @ = Unseen THEN Source(name) ELSE @]

\* Mutant: a remembered miss is logged again.
ReportMissAgain(name, missLogType) ==
    IF resolved[name] \in {Unseen, Missing} THEN JavaLog(NotFound(name, missLogType))
    ELSE JavaLog(CannotBeRead(name))

\* A first miss is logged at the level of whoever asked first; a remembered miss is
\* not logged again; a remembered path that fails is logged every time.
ReportMiss(name, missLogType) ==
    IF resolved[name] = Unseen THEN JavaLog(NotFound(name, missLogType))
    ELSE IF resolved[name] = Missing THEN UNCHANGED logVars
    ELSE JavaLog(CannotBeRead(name))

\* OCG_LoadScript runs the content; a script the engine rejects is logged by the engine
\* through DuelEngine::logHandler.
RunScript(name, dir, accepted) ==
    /\ served' = [served EXCEPT ![name] = @ \cup {dir}]
    /\ IF accepted THEN UNCHANGED logVars ELSE JavaLog(Rejected(name))

\* readFile and what its two callers, scriptReader and loadScript, do with the content.
LoadScript(name, missLogType, accepted) ==
    /\ UNCHANGED searchPaths
    /\ Remember(name)
    /\ IF Source(name) = Missing
       THEN ReportMiss(name, missLogType) /\ UNCHANGED served
       ELSE RunScript(name, Source(name), accepted)
=============================================================================
