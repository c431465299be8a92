---------------------------- MODULE DuelViewsProofs ----------------------------
(***************************************************************************)
(* What clients hold, and what is left of players who are gone, for any    *)
(* players, decks, deadlines and bounds:                                   *)
(*   NobodyPlaysAlone   a flow advances while both players are connected;  *)
(*   RevisionsTell      a view that a client takes is newer, or the same;  *)
(*   AbsentAreReleased  whoever is offline is in no flow and in no duel;   *)
(*   ClientsFollow      every client of a waiting server holds the current *)
(*                      view, and the screen of just the duel that runs;   *)
(*   PromptsArrive      whoever must act was asked to, for just that step. *)
(* The last three hold where the deck check disconnects nobody.            *)
(*                                                                         *)
(* Between two handlers the calls under way owe the clients what they do   *)
(* not hold yet: IViews says who still has to be told of a new view,       *)
(* IScreens who has to be told of a failed start, IPrompts who has to be   *)
(* asked, IOffline who has to be released, and IAttended which flow of     *)
(* players who are gone is about to end.  Each rests on which call         *)
(* makes which, and that comes first.                                      *)
(***************************************************************************)
EXTENDS DuelStartsProofs

-----------------------------------------------------------------------------
(* The calls a step makes *)

\* What the running call vouches for when it makes a call.
MadeBy(c) ==
    /\ c.op \notin {"logout", "leave", "soloGuard"}
    /\ c.op = "changed" =>
         /\ c.player \in Players /\ revisions'[c.player] = revisions[c.player] + 1
         /\ c.result = "START_FAILED" =>
              \/ Top.op = "finishStart" /\ c.player \in Pair(Top.flow) /\ ~started
              \/ Top.op = "startFinished" /\ c.player = Top.player /\ ~Top.success
         /\ c.result # "OK" =>
              \/ flows'[c.player] = 0
              \/ Top.op = "startFinished" /\ c.player = Top.player
    /\ c.op = "publish" => Top.op = "changed" /\ c.player = Top.player /\ c.result = Top.result
    /\ c.op = "inviteSelected" => {c.actor, c.target} \subseteq online
    /\ c.op = "acceptSelected" => Top.op = "accept" /\ Availability(c.id) = "OK"
    /\ c.op = "finishStart" => /\ Top.op = "first" /\ c.flow = Top.id /\ MayChoose(Top)
                               /\ Availability(c.flow) = "OK"
    /\ c.op = "soloSelected" => Top.op = "soloGuard" /\ c.player = Top.player
    /\ c.op = "soloFinally" => Top.op = "soloSelected" /\ c.player = Top.player
    /\ c.op = "startFinished" => /\ Top.op = "soloFinally" /\ c.player = Top.player
                                 /\ c.success = started
    /\ c.op = "setup" => Top.op = "start"

Ran == stack # <<>> /\ \E new : Makes(new, Below) /\ \A c \in new : MadeBy(c)

\* Calls that carry nothing another one relies on.
PlainOps == {"sweep", "selection", "current", "startPrepared", "startChecked",
             "start", "soloChecked", "cancel", "duelEnded", "reply", "cancelOwn"} \cup Commands

LEMMA PlainMade == ASSUME NEW c, c.op \in PlainOps PROVE MadeBy(c)
BY DEF PlainOps, MadeBy, Commands

LEMMA Types == ASSUME IDuels PROVE IStarts /\ ICalls /\ IFlows /\ ITypes /\ TypeOK
BY DEF IDuels, IStarts, ICalls, IFlows, ITypes

LEMMA NothingMade == ASSUME stack # <<>>, Makes({}, Below) PROVE Ran
<1>1. \A c \in {} : MadeBy(c)
  OBVIOUS
<1> QED
  BY <1>1 DEF Ran

LEMMA NoticesMade ==
    ASSUME ITypes, NEW p \in Players, NEW q \in Players, NEW result, NEW rest,
           Changed(p, q, result, rest),
           result = "START_FAILED" =>
             \A x \in {p, q} : \/ Top.op = "finishStart" /\ x \in Pair(Top.flow) /\ ~started
                               \/ Top.op = "startFinished" /\ x = Top.player /\ ~Top.success,
           result # "OK" => \A x \in {p, q} : flows'[x] = 0
    PROVE  \A c \in Notices(p, q, result) : MadeBy(c)
<1>1. \A x \in {p, q} : revisions'[x] = revisions[x] + 1
  BY DEF Changed
<1> SUFFICES ASSUME NEW x \in {p, q} PROVE MadeBy(ChangedCall(x, result))
  BY DEF Notices
<1> DEFINE c == ChangedCall(x, result)
<1>2. c.op = "changed" /\ c.player = x /\ c.result = result
  BY DEF ChangedCall
<1> HIDE DEF c
<1>3. MadeBy(c)
  BY <1>1, <1>2 DEF MadeBy
<1> QED
  BY <1>3 DEF c

\* finish() notifies the pair of a flow, and of a failed start only if it is
\* the end of that start.
LEMMA FinishMade ==
    ASSUME IDuels, stack # <<>>, NEW f \in FlowIds, NEW result, NEW extra,
           FinishMakes(f, result, extra), \A c \in extra : MadeBy(c),
           result = "START_FAILED" => Top.op = "finishStart" /\ f = Top.flow /\ ~started,
           result # "OK" => f \in LiveFlows
    PROVE  Ran
<1> DEFINE p == flow[f].challenger
           q == flow[f].accepter
           told == Notices(p, q, result)
<1>1. p \in Players /\ q \in Players
  BY Types, FlowTyped DEF Flow
<1>2. PICK rest : Finish(f, result, rest)
  BY DEF FinishMakes
<1>3. Changed(p, q, result, rest)
  BY <1>2 DEF Finish
<1>4. result = "START_FAILED" =>
        \A x \in {p, q} : Top.op = "finishStart" /\ x \in Pair(Top.flow) /\ ~started
  BY DEF Pair
<1>5. Makes(told \cup extra, Below)
  BY DEF FinishMakes
<1>6. result # "OK" => \A x \in {p, q} : flows'[x] = 0
  <2>1. p \in Pair(f) /\ q \in Pair(f)
    BY DEF Pair
  <2>2. f \in LiveFlows => flows[p] = f /\ flows[q] = f
    <3> HIDE DEF p, q
    <3> QED
      BY <2>1, Types, HeldByFlow
  <2>3. \A x \in Players : flows'[x] = IF flows[x] = f THEN 0 ELSE flows[x]
    BY <1>2, Types, LiveFinish
  <2> HIDE DEF p, q
  <2> QED
    BY <1>1, <2>2, <2>3
<1>7. \A c \in told : MadeBy(c)
  <2> HIDE DEF p, q
  <2> QED
    BY <1>1, <1>3, <1>4, <1>6, Types, NoticesMade
<1> HIDE DEF told
<1>8. \A c \in told \cup extra : MadeBy(c)
  BY <1>7
<1> QED
  BY <1>5, <1>8 DEF Ran

LEMMA FinishesMade ==
    ASSUME IDuels, stack # <<>>, NEW f \in FlowIds, NEW result, FinishMakes(f, result, {}),
           result = "START_FAILED" => Top.op = "finishStart" /\ f = Top.flow /\ ~started,
           result # "OK" => f \in LiveFlows
    PROVE  Ran
<1>1. \A c \in {} : MadeBy(c)
  OBVIOUS
<1> QED
  BY <1>1, FinishMade

\* A flow is rewritten, and its pair told.
LEMMA RewriteMade ==
    ASSUME IDuels, stack # <<>>, NEW p \in Players, NEW q \in Players, NEW rest,
           Changed(p, q, "OK", rest), NEW extra, \A c \in extra : MadeBy(c),
           Makes(Notices(p, q, "OK") \cup extra, Below)
    PROVE  Ran
<1> DEFINE told == Notices(p, q, "OK")
<1>1. \A c \in told : MadeBy(c)
  BY Types, NoticesMade
<1> HIDE DEF told
<1>2. \A c \in told \cup extra : MadeBy(c)
  BY <1>1
<1> QED
  BY <1>2 DEF Ran, told

LEMMA RewritesMade ==
    ASSUME IDuels, stack # <<>>, NEW p \in Players, NEW q \in Players, NEW rest,
           Changed(p, q, "OK", rest), Makes(Notices(p, q, "OK"), Below)
    PROVE  Ran
BY Types, NoticesMade DEF Ran

LEMMA SweepMade == ASSUME IDuels, Sweep \/ SweepEnds PROVE Ran
<1>1. stack # <<>> /\ Top.op = "sweep" /\ Top \in SweepFrame(FlowIds)
  BY Types, Pops, KindOfTop DEF Sweep, SweepEnds, Running
<1>2. Top.todo \subseteq FlowIds
  BY <1>1 DEF SweepFrame
<1>3. CASE SweepEnds
  BY <1>1, <1>3, Types, ReturnCalls, NothingMade DEF SweepEnds
<1>4. CASE Sweep
  <2>1. PICK f \in Top.todo :
          LET left == [Top EXCEPT !.todo = @ \ {f}] IN
          \/ Overdue(f, Top.now) /\ FinishMakes(f, "STALE", {left})
          \/ ~Overdue(f, Top.now) /\ UNCHANGED prepVars /\ Makes({left}, Below)
    BY <1>4, Types, SweepCalls
  <2> DEFINE left == [Top EXCEPT !.todo = @ \ {f}]
  <2>2. left.op = "sweep"
    BY <1>1 DEF SweepFrame
  <2>3. (f \in LiveFlows /\ FinishMakes(f, "STALE", {left})) \/ Makes({left}, Below)
    BY <1>2, <2>1 DEF Overdue, LiveFlows
  <2> HIDE DEF left
  <2>4. \A c \in {left} : MadeBy(c)
    BY <2>2, PlainMade DEF PlainOps
  <2> QED
    BY <1>1, <1>2, <2>3, <2>4, FinishMade DEF Ran
<1> QED
  BY <1>3, <1>4

LEMMA InviteMade == ASSUME IDuels, Invite PROVE Ran
<1>1. stack # <<>> /\ Top.op = "invite" /\ Top \in InviteFrame
  BY Types, Pops, KindOfTop DEF Invite, Running
<1> DEFINE a == SelectionCall(Top.actor)
           b == [Top EXCEPT !.op = "inviteSelected"]
<1>2. /\ a.op = "selection" /\ b.op = "inviteSelected"
      /\ b.actor = Top.actor /\ b.target = Top.target
  BY <1>1 DEF SelectionCall, InviteFrame
<1>3. \/ Makes({}, Below)
      \/ {Top.actor, Top.target} \subseteq online /\ Makes({a, b}, Below)
  BY Types, InviteCalls
<1> HIDE DEF a, b
<1>4. {Top.actor, Top.target} \subseteq online => MadeBy(a) /\ MadeBy(b)
  BY <1>2 DEF MadeBy
<1>5. CASE {Top.actor, Top.target} \subseteq online /\ Makes({a, b}, Below)
  <2>1. \A c \in {a, b} : MadeBy(c)
    BY <1>4, <1>5
  <2> QED
    BY <1>1, <1>5, <2>1 DEF Ran
<1> QED
  BY <1>1, <1>3, <1>5, NothingMade

LEMMA Available == ASSUME NEW f PROVE Availability(f) # "START_FAILED"
BY DEF Availability

LEMMA AcceptMade == ASSUME IDuels, Accept PROVE Ran
<1>1. stack # <<>> /\ Top.op = "accept" /\ Top \in AnswerFrame(FlowIds)
  BY Types, Pops, KindOfTop DEF Accept, Running
<1>2. Top.id \in FlowIds
  BY <1>1 DEF AnswerFrame
<1>3. Answerable(Top) => Top.id \in LiveFlows
  BY <1>1, <1>2, Types, HeldPair DEF Answerable, AnswerFrame
<1> DEFINE a == SelectionCall(flow[Top.id].challenger)
           b == SelectionCall(flow[Top.id].accepter)
           d == [Top EXCEPT !.op = "acceptSelected"]
<1>4. a.op = "selection" /\ b.op = "selection" /\ d.op = "acceptSelected" /\ d.id = Top.id
  BY <1>1 DEF SelectionCall, AnswerFrame
<1>5. \/ Makes({}, Below)
      \/ Answerable(Top) /\ FinishMakes(Top.id, Availability(Top.id), {})
      \/ Availability(Top.id) = "OK" /\ Makes({a, b, d}, Below)
  BY Types, AcceptCalls
<1> HIDE DEF a, b, d
<1>6. Availability(Top.id) = "OK" => \A c \in {a, b, d} : MadeBy(c)
  BY <1>1, <1>4 DEF MadeBy
<1>7. CASE Answerable(Top) /\ FinishMakes(Top.id, Availability(Top.id), {})
  <2> DEFINE result == Availability(Top.id)
  <2>1. result # "START_FAILED" /\ FinishMakes(Top.id, result, {}) /\ Top.id \in LiveFlows
    BY <1>7, <1>3, Available
  <2> HIDE DEF result
  <2> QED
    BY <1>1, <1>2, <2>1, FinishesMade
<1> QED
  BY <1>1, <1>5, <1>6, <1>7, NothingMade DEF Ran

LEMMA AnswerMade == ASSUME IDuels, Decline \/ Cancel PROVE Ran
<1>1. stack # <<>> /\ Top.op \in {"decline", "cancel"} /\ Top \in AnswerFrame(FlowIds)
  BY Types, Pops, KindOfTop DEF Decline, Cancel, Running
<1>2. Top.id \in FlowIds
  BY <1>1 DEF AnswerFrame
<1>3. Makes({}, Below) \/ FinishMakes(Top.id, "OK", {})
  BY Types, DeclineCalls, CancelCalls
<1> QED
  BY <1>1, <1>2, <1>3, NothingMade, FinishesMade

LEMMA HandMade == ASSUME IDuels, Hand PROVE Ran
<1>1. stack # <<>> /\ Top.op = "hand" /\ Top \in HandFrame(FlowIds)
  BY Types, Pops, KindOfTop DEF Hand, Running
<1>2. Top.id \in FlowIds
  BY <1>1 DEF HandFrame
<1> DEFINE p == flow[Top.id].challenger
           q == flow[Top.id].accepter
<1>3. p \in Players /\ q \in Players
  BY <1>2, Types, FlowTyped DEF Flow
<1>4. \/ Makes({}, Below)
      \/ HandAwaited(Top) /\ Makes(Notices(p, q, "OK"), Below)
  BY Types, HandCalls
<1>5. HandAwaited(Top) => Changed(p, q, "OK", Rest)
  BY DEF Hand
<1> HIDE DEF p, q
<1> QED
  BY <1>1, <1>3, <1>4, <1>5, NothingMade, RewritesMade

LEMMA FirstMade == ASSUME IDuels, First PROVE Ran
<1>1. stack # <<>> /\ Top.op = "first" /\ Top \in FirstFrame(FlowIds)
  BY Types, Pops, KindOfTop DEF First, Running
<1>2. Top.id \in FlowIds
  BY <1>1 DEF FirstFrame
<1> DEFINE f == Top.id
           p == flow[f].challenger
           q == flow[f].accepter
           a == [op |-> "startPrepared", flow |-> f, firstSeat |-> FirstSeat(f, Top.goFirst)]
           b == [op |-> "finishStart", flow |-> f, goFirst |-> Top.goFirst]
           result == Availability(f)
<1>3. p \in Players /\ q \in Players
  BY <1>2, Types, FlowTyped DEF Flow
<1>4. \/ Makes({}, Below)
      \/ MayChoose(Top) /\ FinishMakes(f, result, {})
      \/ /\ MayChoose(Top) /\ result = "OK"
         /\ Makes(Notices(p, q, "OK") \cup {a, b}, Below)
  BY Types, FirstCalls
<1>5. MayChoose(Top) /\ result = "OK" => \E rest : Changed(p, q, "OK", rest)
  BY DEF First
<1>6. a.op = "startPrepared" /\ b.op = "finishStart" /\ b.flow = f
  OBVIOUS
<1>7. MayChoose(Top) /\ result = "OK" => \A c \in {a, b} : MadeBy(c)
  <2> HIDE DEF a, b
  <2> QED
    BY <1>1, <1>6 DEF MadeBy
<1>8. result # "START_FAILED" /\ (MayChoose(Top) => f \in LiveFlows)
  <2>1. Top.actor \in Players
    BY <1>1 DEF FirstFrame
  <2> QED
    BY <1>2, <2>1, Available, Types, HeldPair DEF MayChoose
<1> DEFINE extra == {a, b}
<1> HIDE DEF p, q, a, b, f, result
<1>9. CASE /\ MayChoose(Top) /\ result = "OK"
           /\ Makes(Notices(p, q, "OK") \cup extra, Below)
  <2>1. \A c \in extra : MadeBy(c)
    BY <1>7, <1>9
  <2>2. PICK rest : Changed(p, q, "OK", rest)
    BY <1>5, <1>9
  <2> HIDE DEF extra
  <2> QED
    BY <1>1, <1>3, <1>9, <2>1, <2>2, RewriteMade
<1>10. CASE MayChoose(Top) /\ FinishMakes(f, result, {})
  BY <1>1, <1>2, <1>8, <1>10, FinishesMade DEF f
<1> QED
  BY <1>1, <1>4, <1>9, <1>10, NothingMade

LEMMA LogoutMade == ASSUME IDuels, Logout PROVE Ran
<1>1. stack # <<>> /\ Top.op = "logout" /\ Top \in PlayerFrame
  BY Types, Pops, KindOfTop DEF Logout, Running
<1>2. flows[Top.player] \in {0} \cup FlowIds
  BY <1>1, Types DEF PlayerFrame, TypeOK
<1>3. \/ Makes({}, Below)
      \/ flows[Top.player] # 0 /\ FinishMakes(flows[Top.player], "OFFLINE", {})
  BY Types, LogoutCalls
<1>4. flows[Top.player] # 0 => flows[Top.player] \in LiveFlows
  <2>1. Top.player \in Players
    BY <1>1 DEF PlayerFrame
  <2> QED
    BY <1>2, <2>1, Types, HeldPair
<1> QED
  BY <1>1, <1>2, <1>3, <1>4, NothingMade, FinishesMade

LEMMA OutcomeMade == ASSUME IDuels, DuelEnded \/ StartFinished PROVE Ran
<1>1. /\ stack # <<>> /\ Top.op \in {"duelEnded", "startFinished"}
      /\ StartFinished => Top.op = "startFinished"
      /\ Top \in PlayerFrame \cup OutcomeFrame
  BY Types, Pops, KindOfTop DEF DuelEnded, StartFinished, Running
<1>2. Top.player \in Players
  BY <1>1 DEF PlayerFrame, OutcomeFrame
<1>3. revisions' = [revisions EXCEPT ![Top.player] = @ + 1] /\ revisions \in [Players -> Nat]
  BY Types, OutcomeCalls DEF TypeOK
<1>4. PICK result : /\ Makes({ChangedCall(Top.player, result)}, Below)
                    /\ DuelEnded => result = "OK"
                    /\ StartFinished => result = IF Top.success THEN "OK" ELSE "START_FAILED"
  BY Types, OutcomeCalls
<1> DEFINE c == ChangedCall(Top.player, result)
<1>5. c.op = "changed" /\ c.player = Top.player /\ c.result = result
  BY DEF ChangedCall
<1>6. Makes({c}, Below)
  BY <1>4
<1> HIDE DEF c
<1>7. result = "START_FAILED" => StartFinished /\ ~Top.success
  BY <1>4
<1>8. revisions'[c.player] = revisions[c.player] + 1
  BY <1>2, <1>3, <1>5
<1>9. MadeBy(c)
  <2>1. result # "OK" => StartFinished
    BY <1>4
  <2> QED
    BY <1>1, <1>2, <1>5, <1>7, <1>8, <2>1 DEF MadeBy
<1>10. \A d \in {c} : MadeBy(d)
  BY <1>9
<1> QED
  BY <1>1, <1>6, <1>10 DEF Ran

LEMMA ServiceStepMade == ASSUME IDuels, ServiceStep PROVE Ran
BY SweepMade, InviteMade, AcceptMade, AnswerMade, HandMade, FirstMade, LogoutMade, OutcomeMade
   DEF ServiceStep

LEMMA InviteSelectedMade == ASSUME IDuels, InviteSelected PROVE Ran
<1>1. stack # <<>> /\ Top.op = "inviteSelected" /\ Top \in InviteFrame
  BY Types, Pops, KindOfTop DEF InviteSelected, Running
<1> DEFINE p == Top.actor
           q == Top.target
<1>2. p \in Players /\ q \in Players
  BY <1>1 DEF InviteFrame
<1>3. \/ Makes({}, Below)
      \/ selected[p] # None /\ Makes(Notices(p, q, "OK"), Below)
  BY Types, InviteSelectedCalls
<1>4. selected[p] # None => Changed(p, q, "OK", Rest)
  BY DEF InviteSelected
<1> HIDE DEF p, q
<1> QED
  BY <1>1, <1>2, <1>3, <1>4, NothingMade, RewritesMade

LEMMA AcceptSelectedMade == ASSUME IDuels, AcceptSelected PROVE Ran
<1>1. stack # <<>> /\ Top.op = "acceptSelected" /\ Top \in AnswerFrame(FlowIds)
  BY Types, Pops, KindOfTop DEF AcceptSelected, Running
<1>2. Top.id \in FlowIds
  BY <1>1 DEF AnswerFrame
<1> DEFINE p == flow[Top.id].challenger
           q == flow[Top.id].accepter
<1>3. p \in Players /\ q \in Players
  BY <1>2, Types, FlowTyped DEF Flow
<1>4. \/ Makes({}, Below)
      \/ selected[p] # None /\ selected[q] # None /\ Makes(Notices(p, q, "OK"), Below)
  BY Types, AcceptSelectedCalls
<1>5. selected[p] # None /\ selected[q] # None => Changed(p, q, "OK", Rest)
  BY DEF AcceptSelected
<1> HIDE DEF p, q
<1> QED
  BY <1>1, <1>3, <1>4, <1>5, NothingMade, RewritesMade

LEMMA FinishStartMade == ASSUME IDuels, FinishStart PROVE Ran
<1>1. stack # <<>> /\ Top.op = "finishStart" /\ Top \in FinishFrame(FlowIds)
  BY Types, Pops, KindOfTop DEF FinishStart, Running
<1>2. Top.flow \in FlowIds
  BY <1>1 DEF FinishFrame
<1>3. Top.flow \in LiveFlows
  <2>1. Top \in Calls
    BY <1>1, Types, Pops
  <2> QED
    BY <1>1, <2>1, Types DEF IStarts, StartsHold, StartOps
<1> DEFINE result == StartResult(Top.flow)
<1>4. FinishMakes(Top.flow, result, {})
  BY Types, FinishStartCalls
<1>5. result = "START_FAILED" => ~started
  BY DEF StartResult
<1> HIDE DEF result
<1> QED
  BY <1>1, <1>2, <1>4, <1>5, <1>3, FinishesMade

LEMMA ServiceResumesMade == ASSUME IDuels, ServiceResumes PROVE Ran
BY InviteSelectedMade, AcceptSelectedMade, FinishStartMade DEF ServiceResumes

LEMMA SweepsMade == ASSUME NEW calls, \A c \in calls : c.op = "sweep" PROVE \A c \in calls : MadeBy(c)
BY PlainMade DEF PlainOps

LEMMA NotifyStepMade == ASSUME IDuels, NotifyStep PROVE Ran
<1>1. CASE Notify
  <2>1. stack # <<>> /\ Top.op = "changed" /\ Top \in NoticeFrame
    BY <1>1, Types, Pops, KindOfTop DEF Notify, Running
  <2> DEFINE a == [Top EXCEPT !.op = "publish"]
  <2>2. a.op = "publish" /\ a.player = Top.player /\ a.result = Top.result
    BY <2>1 DEF NoticeFrame
  <2>3. \A c \in Due : c.op = "sweep"
    BY <1>1, Types, NotifyCalls
  <2>4. Makes({}, Below) \/ Makes(Due \cup {a}, Below)
    BY <1>1, Types, NotifyCalls
  <2> HIDE DEF a
  <2>5. MadeBy(a)
    BY <2>1, <2>2 DEF MadeBy
  <2>6. \A c \in Due : MadeBy(c)
    BY <2>3, SweepsMade
  <2> DEFINE new == Due \cup {a}
  <2>7. \A c \in new : MadeBy(c)
    BY <2>5, <2>6
  <2>8. Makes({}, Below) \/ Makes(new, Below)
    BY <2>4
  <2> HIDE DEF new
  <2> QED
    BY <2>1, <2>7, <2>8, NothingMade DEF Ran
<1>2. CASE Publish \/ Reply
  BY <1>2, Types, AnsweredCalls, NothingMade DEF Publish, Reply, Running
<1> QED
  BY <1>1, <1>2 DEF NotifyStep

LEMMA SelectionStepMade == ASSUME IDuels, SelectionStep PROVE Ran
<1>1. /\ stack # <<>>
      /\ Makes({}, Below) \/ (Makes(Due, Below) /\ \A c \in Due : c.op = "sweep")
  BY Types, SelectionCalls DEF SelectionStep
<1> QED
  BY <1>1, NothingMade, SweepsMade DEF Ran

LEMMA CheckStepMade == ASSUME IDuels, CheckStep PROVE Ran
<1>1. ICalls /\ IFlows
  BY Types
<1>2. CASE StartPrepared
  <2>1. stack # <<>> /\ Top.op = "startPrepared" /\ Top \in Calls /\ Top \in PreparedFrame(FlowIds)
    BY <1>1, <1>2, Pops, KindOfTop DEF StartPrepared, Running
  <2>2. Top.flow \in LiveFlows
    BY <2>1, Types DEF IStarts, StartsHold, StartOps
  <2>3. flow[Top.flow].challenger # flow[Top.flow].accepter
    <3>1. Top.flow \in FlowIds /\ flow[Top.flow] \in Flow
      BY <2>2, Types, FlowTyped DEF LiveFlows
    <3>2. flow[Top.flow].challenger \in Players /\ flows[flow[Top.flow].challenger] = Top.flow
      BY <2>2, <3>1 DEF LiveFlows, Flow
    <3> QED
      BY <1>1, <3>1, <3>2, HeldPair
  <2> DEFINE a == CurrentCall(flow[Top.flow].challenger, flow[Top.flow].prepared.challenger)
             b == CurrentCall(flow[Top.flow].accepter, flow[Top.flow].prepared.accepter)
             d == [Top EXCEPT !.op = "startChecked"]
  <2>4. a.op = "current" /\ b.op = "current" /\ d.op = "startChecked"
    BY <2>1 DEF CurrentCall, PreparedFrame
  <2>5. Makes({a, b, d}, Below)
    BY <1>1, <1>2, <2>3, StartPreparedCalls
  <2> HIDE DEF a, b, d
  <2>6. \A c \in {a, b, d} : MadeBy(c)
    BY <2>4, PlainMade DEF PlainOps
  <2> QED
    BY <2>1, <2>5, <2>6 DEF Ran
<1>3. CASE Current
  <2>1. stack # <<>>
    BY <1>3 DEF Current, Running
  <2> DEFINE a == SelectionCall(Top.player)
  <2>2. a.op = "selection"
    BY DEF SelectionCall
  <2>3. Makes({}, Below) \/ Makes({a}, Below)
    BY <1>1, <1>3, CurrentCalls
  <2> HIDE DEF a
  <2>4. \A c \in {a} : MadeBy(c)
    BY <2>2, PlainMade DEF PlainOps
  <2> QED
    BY <2>1, <2>3, <2>4, NothingMade DEF Ran
<1>4. CASE StartChecked
  <2>1. stack # <<>>
    BY <1>4 DEF StartChecked, Running
  <2> DEFINE a == StartOf(Top)
  <2>2. a.op = "start"
    BY DEF StartOf, StartCall
  <2>3. Makes({}, Below) \/ Makes({a}, Below)
    BY <1>1, <1>4, StartCheckedCalls
  <2> HIDE DEF a
  <2>4. \A c \in {a} : MadeBy(c)
    BY <2>2, PlainMade DEF PlainOps
  <2> QED
    BY <2>1, <2>3, <2>4, NothingMade DEF Ran
<1>5. CASE SoloSelected
  <2>1. stack # <<>> /\ Top.op = "soloSelected"
    BY <1>5 DEF SoloSelected, Running
  <2> DEFINE p == Top.player
             a == CurrentCall(p, selected[p])
             b == SoloCall("soloChecked", p)
             d == SoloCall("soloFinally", p)
  <2>2. a.op = "current" /\ b.op = "soloChecked" /\ d.op = "soloFinally" /\ d.player = p
    BY DEF CurrentCall, SoloCall
  <2>3. Makes({d}, Below) \/ Makes({a, b, d}, Below)
    BY <1>1, <1>5, SoloSelectedCalls
  <2> HIDE DEF a, b, d
  <2>4. \A c \in {a, b, d} : MadeBy(c)
    <3>1. MadeBy(a) /\ MadeBy(b)
      BY <2>2, PlainMade DEF PlainOps
    <3>2. MadeBy(d)
      BY <2>1, <2>2 DEF MadeBy
    <3> QED
      BY <3>1, <3>2
  <2>5. \A c \in {d} : MadeBy(c)
    BY <2>4
  <2> QED
    BY <2>1, <2>3, <2>4, <2>5 DEF Ran
<1>6. CASE SoloChecked
  <2>1. stack # <<>>
    BY <1>6 DEF SoloChecked, Running
  <2> DEFINE a == StartCall(Seats(Top.player, None), Seats(selected[Top.player], None))
  <2>2. a.op = "start"
    BY DEF StartCall
  <2>3. Makes({}, Below) \/ Makes({a}, Below)
    BY <1>1, <1>6, SoloCheckedCalls
  <2> HIDE DEF a
  <2>4. \A c \in {a} : MadeBy(c)
    BY <2>2, PlainMade DEF PlainOps
  <2> QED
    BY <2>1, <2>3, <2>4, NothingMade DEF Ran
<1>7. CASE CancelOwn
  <2>1. stack # <<>>
    BY <1>7 DEF CancelOwn, Running
  <2> DEFINE a == [op |-> "cancel", actor |-> Top.player, id |-> flows[Top.player], now |-> clock]
             new == Due \cup {a}
  <2>2. a.op = "cancel"
    OBVIOUS
  <2>3. Makes({}, Below) \/ (Makes(new, Below) /\ \A c \in Due : c.op = "sweep")
    BY <1>1, <1>7, CancelOwnCalls
  <2> HIDE DEF a
  <2>4. (\A c \in Due : c.op = "sweep") => \A c \in new : MadeBy(c)
    BY <2>2, SweepsMade, PlainMade DEF PlainOps
  <2> HIDE DEF new
  <2> QED
    BY <2>1, <2>3, <2>4, NothingMade DEF Ran
<1> QED
  BY <1>2, <1>3, <1>4, <1>5, <1>6, <1>7 DEF CheckStep

\* What reaches a waiting server is a request, a player's next duel, or the
\* end of one.
Served ==
    /\ Waiting
    /\ \A c \in Calls' : /\ c.op \in PlainOps \cup {"soloGuard"}
                         /\ c.op = "soloGuard" => c.player \in online

LEMMA AskedMade ==
    ASSUME Waiting, NEW new, Makes(Due \cup new, {}), \A c \in Due : c.op = "sweep",
           \A c \in new : /\ c.op \in PlainOps \cup {"soloGuard"}
                          /\ c.op = "soloGuard" => c.player \in online
    PROVE  Served
<1>1. Calls' = Due \cup new
  BY DEF Makes, Calls
<1>2. \A c \in Due : c.op \in PlainOps /\ c.op # "soloGuard"
  BY DEF PlainOps
<1> QED
  BY <1>1, <1>2 DEF Served

LEMMA AskedOneMade ==
    ASSUME ITypes, Waiting, NEW b, b.op \in PlainOps, b.op \notin {"start", "setup"},
           stack' = Expiry(clock) \o <<b>>
    PROVE  Served
<1> PICK a : a = [op |-> "sweep"]
  OBVIOUS
<1>1. a.op = "sweep"
  OBVIOUS
<1>2. MayCover(a, b)
  BY <1>1 DEF MayCover, QuietOps, Rounds, Lasts
<1> DEFINE new == {b}
<1>3. Makes(Due \cup new, {}) /\ \A c \in Due : c.op = "sweep"
  BY <1>1, <1>2, AskedCalls
<1>4. \A c \in new : c.op \in PlainOps /\ c.op # "soloGuard"
  BY DEF PlainOps, Commands
<1> HIDE DEF new
<1> QED
  BY <1>3, <1>4, AskedMade

\* A duel that ends tells its players, whoever called for it.
LEMMA DuelEndMade ==
    ASSUME IDuels, NEW id, FinishDuel(id, Rest), stack # <<>>
    PROVE  Ran
<1>1. /\ Rest \in Seq(Frame) /\ Nested(Rest)
      /\ \A c \in CallsOf(Rest) : c.op \notin {"start", "setup"}
  BY Types, Pops DEF Below
<1>2. PICK new : Makes(new, CallsOf(Rest)) /\ \A c \in new : c.op = "duelEnded"
  BY <1>1, FinishDuelCalls
<1> QED
  BY <1>2, PlainMade DEF Ran, Below, PlainOps

LEMMA DuelEndAsked ==
    ASSUME IDuels, NEW id, FinishDuel(id, <<>>), Waiting
    PROVE  Served
<1>1. PICK new : Makes(new, CallsOf(<<>>)) /\ \A c \in new : c.op = "duelEnded"
  BY NothingNested, FinishDuelCalls
<1>2. Calls' = new
  BY <1>1, NothingNested DEF Makes, Calls
<1> QED
  BY <1>1, <1>2 DEF Served, PlainOps

LEMMA DuelStepMade == ASSUME IDuels, DuelStep PROVE Ran \/ Served
<1>1. CASE StartThrows \/ SetupRuns \/ SetupThrows
  BY <1>1, Types, ReturnCalls, NothingMade DEF StartThrows, SetupRuns, SetupThrows, Running
<1>2. CASE StartInstalls
  <2>1. stack # <<>> /\ Top.op = "start"
    BY <1>2 DEF StartInstalls, Running
  <2> DEFINE a == [op |-> "setup", duel |-> Len(duelSeats) + 1]
  <2>2. a.op = "setup" /\ Makes({a}, Below)
    BY <1>2, Types, StartInstallsCalls
  <2> HIDE DEF a
  <2>3. \A c \in {a} : MadeBy(c)
    BY <2>1, <2>2 DEF MadeBy
  <2> QED
    BY <2>1, <2>2, <2>3 DEF Ran
<1>3. CASE SetupCompletes \/ Leave
  BY <1>3, Types, ReturnCalls, NothingMade, DuelEndMade DEF SetupCompletes, Leave, Running
<1>4. ASSUME NEW id, ResponseEndsDuel(id) PROVE Served
  BY <1>4, DuelEndAsked DEF ResponseEndsDuel
<1>5. ASSUME NEW p, Forfeit(p) PROVE Served
  <2>1. CASE FinishDuel(playerToDuel[p], <<>>)
    BY <1>5, <2>1, DuelEndAsked DEF Forfeit
  <2>2. CASE stack' = Expiry(clock) \o <<SoloCall("cancelOwn", p)>>
    <3> PICK b : b = SoloCall("cancelOwn", p)
      OBVIOUS
    <3>1. b.op \in PlainOps /\ b.op \notin {"start", "setup"}
      BY DEF SoloCall, PlainOps
    <3> QED
      BY <1>5, <2>2, <3>1, Types, AskedOneMade DEF Forfeit
  <2> QED
    BY <1>5, <2>1, <2>2 DEF Forfeit
<1> QED
  BY <1>1, <1>2, <1>3, <1>4, <1>5 DEF DuelStep

LEMMA SoloStepMade == ASSUME IDuels, SoloStep PROVE Ran
<1>1. CASE SoloGuard
  <2>1. stack # <<>> /\ Top.op = "soloGuard"
    BY <1>1 DEF SoloGuard, Running
  <2> DEFINE a == SelectionCall(Top.player)
             b == SoloCall("soloSelected", Top.player)
  <2>2. a.op = "selection" /\ b.op = "soloSelected" /\ b.player = Top.player
    BY DEF SelectionCall, SoloCall
  <2>3. Makes({a, b}, Below)
    BY <1>1, Types, SoloGuardCalls
  <2> HIDE DEF a, b
  <2>4. \A c \in {a, b} : MadeBy(c)
    BY <2>1, <2>2 DEF MadeBy
  <2> QED
    BY <2>1, <2>3, <2>4 DEF Ran
<1>2. CASE SoloFinally
  <2>1. stack # <<>> /\ Top.op = "soloFinally"
    BY <1>2 DEF SoloFinally, Running
  <2> DEFINE a == [op |-> "startFinished", player |-> Top.player, success |-> started]
  <2>2. a.op = "startFinished" /\ a.player = Top.player /\ a.success = started
    OBVIOUS
  <2>3. Makes({a}, Below)
    BY <1>2, Types, SoloFinallyCalls
  <2> HIDE DEF a
  <2>4. \A c \in {a} : MadeBy(c)
    BY <2>1, <2>2 DEF MadeBy
  <2> QED
    BY <2>1, <2>3, <2>4 DEF Ran
<1> QED
  BY <1>1, <1>2 DEF SoloStep

LEMMA ServeMade ==
    ASSUME IDuels, NEW command, command.op \in Commands, Serve(command)
    PROVE  Served
<1> PICK a, b : a = [op |-> "sweep"] /\ b = ReplyCall(command.actor)
  OBVIOUS
<1>1. a.op = "sweep" /\ b.op = "reply"
  BY DEF ReplyCall
<1>2. Waiting /\ \/ stack' = Expiry(clock) \o <<command, b>>
                 \/ stack' = Expiry(clock) \o <<command>>
  BY DEF Serve, ServePacket, ServeChat, Admitted
<1>3. MayCover(command, b) /\ command.op \in PlainOps /\ command.op \notin {"start", "setup"}
  BY <1>1 DEF MayCover, QuietOps, Rounds, Lasts, Commands, PlainOps
<1>4. CASE stack' = Expiry(clock) \o <<command, b>>
  <2> DEFINE new == {command, b}
  <2>1. Makes(Due \cup new, {}) /\ \A c \in Due : c.op = "sweep"
    BY <1>1, <1>3, <1>4, Types, AskedCalls
  <2>2. \A c \in new : c.op \in PlainOps /\ c.op # "soloGuard"
    BY <1>1, <1>3 DEF PlainOps, Commands
  <2> HIDE DEF new
  <2> QED
    BY <1>2, <2>1, <2>2, AskedMade
<1> QED
  BY <1>2, <1>3, <1>4, Types, AskedOneMade

LEMMA RequestMade == ASSUME IDuels, Request PROVE Served
<1>1. CASE ServerTick
  <2> PICK a, b : a = [op |-> "sweep"] /\ b = [op |-> "reply"]
    OBVIOUS
  <2>1. a.op = "sweep" /\ b.op = "reply"
    OBVIOUS
  <2>2. MayCover(a, b)
    BY <2>1 DEF MayCover, QuietOps, Rounds, Lasts
  <2>3. Makes(Due, {}) /\ \A c \in Due : c.op = "sweep"
    BY <1>1, <2>1, <2>2, Types, AskedCalls DEF ServerTick
  <2>4. Makes(Due \cup {}, {}) /\ \A c \in {} : c.op \in PlainOps
    BY <2>3
  <2>5. Waiting
    BY <1>1 DEF ServerTick
  <2> QED
    BY <2>3, <2>4, <2>5, AskedMade
<1>2. ASSUME NEW p \in Players, RequestView(p) PROVE Served
  <2> PICK b : b = ReplyCall(p)
    OBVIOUS
  <2>1. b.op \in PlainOps /\ b.op \notin {"start", "setup"}
    BY DEF ReplyCall, PlainOps
  <2> QED
    BY <1>2, <2>1, Types, AskedOneMade DEF RequestView
<1>3. ASSUME NEW p \in Players, RequestSolo(p) PROVE Served
  <2> PICK a, b : a = SoloCall("cancelOwn", p) /\ b = SoloCall("soloGuard", p)
    OBVIOUS
  <2>1. a.op = "cancelOwn" /\ b.op = "soloGuard" /\ a.player = p /\ b.player = p
    BY DEF SoloCall
  <2>2. MayCover(a, b)
    BY <2>1 DEF MayCover, QuietOps, Rounds, Lasts
  <2> DEFINE new == {a, b}
  <2>3. Makes(Due \cup new, {}) /\ \A c \in Due : c.op = "sweep"
    BY <1>3, <2>1, <2>2, Types, AskedCalls DEF RequestSolo
  <2>4. \A c \in new : /\ c.op \in PlainOps \cup {"soloGuard"}
                       /\ c.op = "soloGuard" => c.player \in online
    BY <1>3, <2>1 DEF PlainOps, RequestSolo
  <2>5. Waiting
    BY <1>3 DEF RequestSolo
  <2> HIDE DEF new
  <2> QED
    BY <2>3, <2>4, <2>5, AskedMade
<1>4. ASSUME NEW p, NEW q, RequestInvite(p, q) PROVE Served
  <2> PICK c : c = [op |-> "invite", actor |-> p, target |-> q, now |-> clock]
    OBVIOUS
  <2>1. c.op \in Commands /\ Serve(c)
    BY <1>4 DEF Commands, RequestInvite
  <2> QED
    BY <2>1, ServeMade
<1>5. ASSUME NEW op \in {"accept", "decline", "cancel"}, NEW p, NEW f, RequestAnswer(op, p, f)
      PROVE  Served
  <2> PICK c : c = [op |-> op, actor |-> p, id |-> f, now |-> clock]
    OBVIOUS
  <2>1. c.op \in Commands /\ Serve(c)
    BY <1>5 DEF Commands, RequestAnswer
  <2> QED
    BY <2>1, ServeMade
<1>6. ASSUME NEW p, NEW f, NEW r, NEW h, RequestHand(p, f, r, h) PROVE Served
  <2> PICK c : c = [op |-> "hand", actor |-> p, id |-> f, round |-> r, hand |-> h, now |-> clock]
    OBVIOUS
  <2>1. c.op \in Commands /\ Serve(c)
    BY <1>6 DEF Commands, RequestHand
  <2> QED
    BY <2>1, ServeMade
<1>7. ASSUME NEW p, NEW f, NEW goFirst, RequestFirst(p, f, goFirst) PROVE Served
  <2> PICK c : c = [op |-> "first", actor |-> p, id |-> f, goFirst |-> goFirst, now |-> clock]
    OBVIOUS
  <2>1. c.op \in Commands /\ Serve(c)
    BY <1>7 DEF Commands, RequestFirst
  <2> QED
    BY <2>1, ServeMade
<1> QED
  BY <1>1, <1>2, <1>3, <1>4, <1>5, <1>6, <1>7 DEF Request

\* Every step either runs the innermost call, or serves a request, or drops a
\* connection, or leaves the stack alone.
LEMMA CallsMove ==
    ASSUME IDuels, [Next]_vars
    PROVE  Ran \/ Served \/ DropStep \/ stack' = stack
<1>1. CASE ThreadStep
  BY <1>1, ServiceStepMade, ServiceResumesMade, NotifyStepMade, SelectionStepMade, CheckStepMade,
     DuelStepMade, SoloStepMade DEF ThreadStep
<1>2. CASE DeckStep \/ Shutdown \/ ClockTicks \/ UNCHANGED vars
  BY <1>2 DEF DeckStep, Shutdown, ClockTicks, vars
<1> QED
  BY <1>1, <1>2, RequestMade DEF Next

-----------------------------------------------------------------------------
(* What a client holds, and what it is still owed *)

\* A call that sends the player a view, and one that will make such a call.
Tells(c, p) == c.op \in {"changed", "publish"} /\ c.player = p
WillTell(c, p) ==
    c.op \in {"duelEnded", "startFinished", "soloSelected", "soloFinally"} /\ c.player = p

Told(p) == \E c \in Calls : Tells(c, p)
Owed(p) == \E c \in Calls : Tells(c, p) \/ WillTell(c, p)

\* A client holds no view, the current one, or one that will be replaced.  A
\* view can change without its revision only while no other is under way.
ViewFollows(p) ==
    /\ p \notin online => client[p] = Disconnected
    /\ client[p].view # None =>
         LET held == client[p].view IN
         /\ held.revision =< revisions[p]
         /\ held # View(p) => Owed(p)
         /\ held # View(p) /\ held.revision = revisions[p] => ~Told(p)

\* A duel that is left, and not ended by anything else, is left at once.
LeaveAlone(c) ==
    c.op = "leave" =>
      \/ playerToDuel[c.player] = 0
      \/ /\ flows[c.player] = 0
         /\ \A d \in Calls : d.op \in {"logout", "leave"} /\ d.player = c.player

\* Whoever is seated is held by the start until it returns.
SetupHeld(c) ==
    c.op = "setup" =>
      \A p \in Players : playerToDuel[p] = c.duel => flows[p] # 0 \/ p \in startingPlayers

IViews ==
    /\ IDuels
    /\ \A p \in Players : ViewFollows(p)
    /\ \A c \in Calls : LeaveAlone(c) /\ SetupHeld(c)

-----------------------------------------------------------------------------
(* How a step changes the view of a player *)

\* What a view shows of a flow.
Shown(r, s) ==
    /\ s.mode = r.mode /\ s.round = r.round /\ s.challenger = r.challenger
    /\ s.accepter = r.accepter /\ s.winner = r.winner
    /\ s.challengerHand = r.challengerHand /\ s.accepterHand = r.accepterHand

LEMMA ViewSame ==
    ASSUME NEW p \in Players, flows'[p] = flows[p], revisions'[p] = revisions[p],
           flows[p] # 0 => Shown(flow[flows[p]], flow'[flows[p]]),
           flows[p] = 0 => (IsDueling(p)' <=> IsDueling(p))
    PROVE  View(p)' = View(p)
<1>1. CASE flows[p] = 0
  BY <1>1 DEF View
<1>2. CASE flows[p] # 0
  <2>1. Shown(flow[flows[p]], flow'[flows[p]])
    BY <1>2
  <2> QED
    BY <1>2, <2>1 DEF View, Shown, OwnHand, Chooser
<1> QED
  BY <1>1, <1>2

Noticed(p) ==
    /\ revisions'[p] = revisions[p] + 1
    /\ \E c \in Calls' : c.op = "changed" /\ c.player = p

LEMMA ChangedNotices ==
    ASSUME ITypes, NEW p, NEW q, NEW result, NEW rest, Changed(p, q, result, rest),
           NEW extra, NEW kept, Makes(Notices(p, q, result) \cup extra, kept),
           NEW x \in Players
    PROVE  /\ x \in {p, q} => Noticed(x)
           /\ x \notin {p, q} => revisions'[x] = revisions[x]
<1>1. revisions' = [y \in Players |-> revisions[y] + IF y \in {p, q} THEN 1 ELSE 0]
  BY DEF Changed
<1>2. x \notin {p, q} => revisions'[x] = revisions[x]
  BY <1>1 DEF ITypes, TypeOK
<1>3. ASSUME x \in {p, q} PROVE Noticed(x)
  <2> DEFINE c == ChangedCall(x, result)
  <2>1. c \in Calls'
    BY <1>3 DEF Makes, Notices, Calls
  <2>2. c.op = "changed" /\ c.player = x
    BY DEF ChangedCall
  <2> HIDE DEF c
  <2> QED
    BY <1>1, <1>3, <2>1, <2>2 DEF Noticed
<1> QED
  BY <1>2, <1>3

LEMMA FinishViews ==
    ASSUME IDuels, UNCHANGED hostVars, NEW f \in FlowIds, NEW result, NEW extra,
           FinishMakes(f, result, extra), NEW x \in Players
    PROVE  View(x)' = View(x) \/ Noticed(x)
<1> PICK rest : Finish(f, result, rest)
  BY DEF FinishMakes
<1>1. Changed(flow[f].challenger, flow[f].accepter, result, rest)
  BY DEF Finish
<1>2. CASE x \in Pair(f)
  BY <1>1, <1>2, Types, ChangedNotices DEF FinishMakes, Pair
<1>3. CASE x \notin Pair(f)
  <2>1. revisions'[x] = revisions[x]
    BY <1>1, <1>3, Types, ChangedNotices DEF FinishMakes, Pair
  <2>2. flows[x] \in {0} \cup FlowIds
    BY Types DEF TypeOK
  <2>3. flows[x] # f
    BY <1>3, Types, HeldPair
  <2>4. flows'[x] = flows[x] /\ (flows[x] # 0 => flow'[flows[x]] = flow[flows[x]])
    BY <2>2, <2>3, Types, LiveFinish
  <2> QED
    BY <2>1, <2>4, ViewSame DEF Shown, IsDueling, hostVars
<1> QED
  BY <1>2, <1>3

LEMMA RewriteViews ==
    ASSUME IDuels, UNCHANGED hostVars, NEW f \in FlowIds, NEW new, Rewrites(f, new),
           NEW rest, Changed(flow[f].challenger, flow[f].accepter, "OK", rest), NEW extra,
           Makes(Notices(flow[f].challenger, flow[f].accepter, "OK") \cup extra, Below),
           NEW x \in Players
    PROVE  View(x)' = View(x) \/ Noticed(x)
<1>1. CASE x \in Pair(f)
  BY <1>1, Types, ChangedNotices DEF Pair
<1>2. CASE x \notin Pair(f)
  <2>1. revisions'[x] = revisions[x]
    BY <1>2, Types, ChangedNotices DEF Pair
  <2>2. flows[x] # f /\ flows[x] \in {0} \cup FlowIds
    BY <1>2, Types, HeldPair DEF TypeOK
  <2>3. flows'[x] = flows[x] /\ (flows[x] # 0 => flow'[flows[x]] = flow[flows[x]])
    BY <2>2 DEF Rewrites
  <2> QED
    BY <2>1, <2>3, ViewSame DEF Shown, IsDueling, hostVars
<1> QED
  BY <1>1, <1>2

LEMMA SameViews ==
    ASSUME UNCHANGED hostVars, UNCHANGED prepVars, NEW x \in Players
    PROVE  View(x)' = View(x)
BY ViewSame DEF Shown, IsDueling, hostVars, prepVars

\* The service never changes a view without a notification of its own.
LEMMA ServiceViews ==
    ASSUME IDuels, ServiceStep \/ ServiceResumes, NEW x \in Players
    PROVE  View(x)' = View(x) \/ Noticed(x)
<1>1. UNCHANGED hostVars
  BY DEF ServiceStep, ServiceResumes
<1>2. ASSUME UNCHANGED prepVars PROVE View(x)' = View(x)
  BY <1>1, <1>2, SameViews
<1>3. ASSUME NEW f \in FlowIds, NEW result, NEW extra, FinishMakes(f, result, extra)
      PROVE  View(x)' = View(x) \/ Noticed(x)
  BY <1>1, <1>3, FinishViews
<1>4. CASE Sweep
  <2>1. Top.todo \subseteq FlowIds
    <3>1. Top \in SweepFrame(FlowIds)
      BY <1>4, Types, Pops, KindOfTop DEF Sweep, Running
    <3> QED
      BY <3>1 DEF SweepFrame
  <2>2. PICK f \in Top.todo : \/ \E extra : FinishMakes(f, "STALE", extra)
                              \/ UNCHANGED prepVars
    BY <1>4, Types, SweepCalls
  <2> QED
    BY <1>2, <1>3, <2>1, <2>2
<1>5. CASE SweepEnds \/ Invite
  BY <1>2, <1>5, Types, InviteCalls DEF SweepEnds
<1>6. CASE Accept \/ Decline \/ Cancel
  <2>1. Top.id \in FlowIds
    <3>1. Top \in AnswerFrame(FlowIds)
      BY <1>6, Types, Pops, KindOfTop DEF Accept, Decline, Cancel, Running
    <3> QED
      BY <3>1 DEF AnswerFrame
  <2>2. UNCHANGED prepVars \/ \E result : FinishMakes(Top.id, result, {})
    BY <1>6, Types, AcceptCalls, DeclineCalls, CancelCalls
  <2> QED
    BY <1>2, <1>3, <2>1, <2>2
<1>7. CASE Hand
  <2>1. Top.id \in FlowIds
    <3>1. Top \in HandFrame(FlowIds)
      BY <1>7, Types, Pops, KindOfTop DEF Hand, Running
    <3> QED
      BY <3>1 DEF HandFrame
  <2> DEFINE told == Notices(flow[Top.id].challenger, flow[Top.id].accepter, "OK")
  <2>2. \/ UNCHANGED prepVars
        \/ HandAwaited(Top) /\ Rewrites(Top.id, Played(Top)) /\ Makes(told, Below)
    BY <1>7, Types, HandCalls
  <2>3. HandAwaited(Top) => Changed(flow[Top.id].challenger, flow[Top.id].accepter, "OK", Rest)
    BY <1>7 DEF Hand
  <2>4. Makes(told, Below) => Makes(told \cup {}, Below)
    OBVIOUS
  <2> QED
    BY <1>1, <1>2, <2>1, <2>2, <2>3, <2>4, RewriteViews
<1>8. CASE First
  <2>1. Top.id \in FlowIds /\ flow[Top.id] \in Flow
    <3>1. Top \in FirstFrame(FlowIds)
      BY <1>8, Types, Pops, KindOfTop DEF First, Running
    <3> QED
      BY <3>1, Types, FlowTyped DEF FirstFrame
  <2> DEFINE told == Notices(flow[Top.id].challenger, flow[Top.id].accepter, "OK")
  <2>2. \/ UNCHANGED prepVars
        \/ \E result : FinishMakes(Top.id, result, {})
        \/ /\ MayChoose(Top) /\ Availability(Top.id) = "OK"
           /\ flow' = [flow EXCEPT ![Top.id].mode = "STARTING"] /\ UNCHANGED flows
           /\ \E extra : Makes(told \cup extra, Below)
    BY <1>8, Types, FirstCalls
  <2>3. MayChoose(Top) /\ Availability(Top.id) = "OK"
          => \E rest : Changed(flow[Top.id].challenger, flow[Top.id].accepter, "OK", rest)
    BY <1>8 DEF First
  <2>4. flow' = [flow EXCEPT ![Top.id].mode = "STARTING"] /\ UNCHANGED flows
          => Rewrites(Top.id, [flow[Top.id] EXCEPT !.mode = "STARTING"])
    BY DEF Rewrites
  <2> HIDE DEF told
  <2>5. CASE /\ Rewrites(Top.id, [flow[Top.id] EXCEPT !.mode = "STARTING"])
             /\ \E rest : Changed(flow[Top.id].challenger, flow[Top.id].accepter, "OK", rest)
             /\ \E extra : Makes(told \cup extra, Below)
    BY <1>1, <2>1, <2>5, RewriteViews DEF told
  <2> QED
    BY <1>2, <1>3, <2>1, <2>2, <2>3, <2>4, <2>5
<1>9. CASE Logout
  <2> DEFINE f == flows[Top.player]
  <2>1. f \in {0} \cup FlowIds
    <3>1. Top \in PlayerFrame
      BY <1>9, Types, Pops, KindOfTop DEF Logout, Running
    <3> QED
      BY <3>1, Types DEF PlayerFrame, TypeOK
  <2>2. \/ UNCHANGED prepVars
        \/ f # 0 /\ FinishMakes(f, "OFFLINE", {})
        \/ /\ f # 0
           /\ flow' = [flow EXCEPT ![f].loggedOutDuringStart = TRUE]
           /\ UNCHANGED <<flows, revisions>>
    BY <1>9, Types, LogoutCalls
  <2>3. CASE /\ f # 0
             /\ flow' = [flow EXCEPT ![f].loggedOutDuringStart = TRUE]
             /\ UNCHANGED <<flows, revisions>>
    <3> HIDE DEF f
    <3>1. flows[x] \in {0} \cup FlowIds
      BY Types DEF TypeOK
    <3>2. ASSUME flows[x] # 0 PROVE Shown(flow[flows[x]], flow'[flows[x]])
      <4>1. flow[flows[x]] \in Flow
        BY <3>1, <3>2, Types, FlowTyped
      <4>2. \/ flow'[flows[x]] = flow[flows[x]]
            \/ flow'[flows[x]] = [flow[flows[x]] EXCEPT !.loggedOutDuringStart = TRUE]
        <5>1. flow \in Seq(Flow) /\ flows[x] \in FlowIds
          BY <3>1, <3>2, Types DEF TypeOK
        <5>2. DOMAIN flow = FlowIds
          BY <5>1 DEF FlowIds
        <5>3. CASE flows[x] = f
          BY <2>3, <5>1, <5>2, <5>3
        <5>4. CASE flows[x] # f
          BY <2>3, <5>1, <5>2, <5>4
        <5> QED
          BY <5>3, <5>4
      <4> QED
        BY <4>1, <4>2 DEF Shown, Flow
    <3> QED
      BY <1>1, <2>3, <3>2, ViewSame DEF IsDueling, hostVars
  <2> QED
    BY <1>2, <1>3, <2>1, <2>2, <2>3
<1>10. CASE DuelEnded \/ StartFinished
  <2>1. Top.player \in Players
    <3>1. Top \in PlayerFrame \cup OutcomeFrame
      BY <1>10, Types, Pops, KindOfTop DEF DuelEnded, StartFinished, Running
    <3> QED
      BY <3>1 DEF PlayerFrame, OutcomeFrame
  <2>2. revisions' = [revisions EXCEPT ![Top.player] = @ + 1] /\ UNCHANGED <<flow, flows>>
    BY <1>10, Types, OutcomeCalls
  <2>3. PICK result : Makes({ChangedCall(Top.player, result)}, Below)
    BY <1>10, Types, OutcomeCalls
  <2>4. CASE x = Top.player
    <3> DEFINE c == ChangedCall(x, result)
    <3>1. c \in Calls' /\ c.op = "changed" /\ c.player = x
      BY <2>3, <2>4 DEF Makes, Calls, ChangedCall
    <3>2. revisions'[x] = revisions[x] + 1
      BY <2>1, <2>2, <2>4, Types DEF TypeOK
    <3> HIDE DEF c
    <3> QED
      BY <3>1, <3>2 DEF Noticed
  <2>5. CASE x # Top.player
    BY <1>1, <2>2, <2>5, Types, ViewSame DEF Shown, IsDueling, hostVars, TypeOK
  <2> QED
    BY <2>4, <2>5
<1>11. CASE InviteSelected
  <2>1. /\ stack # <<>> /\ Top.actor \in Players /\ Top.target \in Players
    <3>1. stack # <<>> /\ Top \in InviteFrame
      BY <1>11, Types, Pops, KindOfTop DEF InviteSelected, Running
    <3> QED
      BY <3>1 DEF InviteFrame
  <2> DEFINE new == Len(flow) + 1
             told == Notices(Top.actor, Top.target, "OK")
  <2>2. \/ UNCHANGED prepVars
        \/ /\ selected[Top.actor] # None
           /\ flow' = Append(flow, NewFlow(Top.actor, Top.target, Top.now))
           /\ flows' = [flows EXCEPT ![Top.actor] = new, ![Top.target] = new]
           /\ Makes(told, Below)
    BY <1>11, Types, InviteSelectedCalls
  <2>3. CASE /\ selected[Top.actor] # None
             /\ flow' = Append(flow, NewFlow(Top.actor, Top.target, Top.now))
             /\ flows' = [flows EXCEPT ![Top.actor] = new, ![Top.target] = new]
             /\ Makes(told, Below)
    <3>1. Changed(Top.actor, Top.target, "OK", Rest)
      BY <1>11, <2>3 DEF InviteSelected
    <3>2. Makes(told \cup {}, Below)
      BY <2>3
    <3>3. CASE x \in {Top.actor, Top.target}
      BY <3>1, <3>2, <3>3, Types, ChangedNotices
    <3>4. CASE x \notin {Top.actor, Top.target}
      <4>1. revisions'[x] = revisions[x]
        BY <3>1, <3>2, <3>4, Types, ChangedNotices
      <4>2. flows'[x] = flows[x] /\ flows[x] \in {0} \cup FlowIds
        BY <2>3, <3>4, Types DEF TypeOK
      <4>3. \A g \in FlowIds : flow'[g] = flow[g]
        <5>1. flow \in Seq(Flow) /\ Len(flow) \in Nat
          BY Types, LenProperties DEF TypeOK
        <5> QED
          BY <2>3, <5>1 DEF FlowIds
      <4> QED
        BY <1>1, <4>1, <4>2, <4>3, ViewSame DEF Shown, IsDueling, hostVars
    <3> QED
      BY <3>3, <3>4
  <2> QED
    BY <1>2, <2>2, <2>3
<1>12. CASE AcceptSelected
  <2>1. Top.id \in FlowIds
    <3>1. Top \in AnswerFrame(FlowIds)
      BY <1>12, Types, Pops, KindOfTop DEF AcceptSelected, Running
    <3> QED
      BY <3>1 DEF AnswerFrame
  <2> DEFINE p == flow[Top.id].challenger
             q == flow[Top.id].accepter
             told == Notices(p, q, "OK")
  <2>2. \/ UNCHANGED prepVars
        \/ /\ selected[p] # None /\ selected[q] # None
           /\ Rewrites(Top.id, Accepted(Top)) /\ Makes(told, Below)
    BY <1>12, Types, AcceptSelectedCalls
  <2>3. selected[p] # None /\ selected[q] # None => Changed(p, q, "OK", Rest)
    BY <1>12 DEF AcceptSelected
  <2>4. Makes(told, Below) => Makes(told \cup {}, Below)
    OBVIOUS
  <2> QED
    BY <1>1, <1>2, <2>1, <2>2, <2>3, <2>4, RewriteViews
<1>13. CASE FinishStart
  <2>1. Top.flow \in FlowIds
    <3>1. Top \in FinishFrame(FlowIds)
      BY <1>13, Types, Pops, KindOfTop DEF FinishStart, Running
    <3> QED
      BY <3>1 DEF FinishFrame
  <2> QED
    BY <1>3, <1>13, <2>1, Types, FinishStartCalls
<1> QED
  BY <1>4, <1>5, <1>6, <1>7, <1>8, <1>9, <1>10, <1>11, <1>12, <1>13 DEF ServiceStep, ServiceResumes

\* The start that is about to seat a player holds that player.
LEMMA SeatHeld ==
    ASSUME IDuels, stack # <<>>, Top.op = "start", NEW p \in Players,
           p \in {Top.seats[0], Top.seats[1]}
    PROVE  flows[p] # 0 \/ p \in startingPlayers
<1>1. Top \in Calls
  BY Types, Pops
<1>2. PICK b \in Calls : b.op \in {"finishStart", "soloFinally"}
  BY <1>1 DEF IDuels, StartsFollow
<1>3. Follows(Top, b)
  BY <1>1 DEF IDuels, StartsFollow
<1>4. CASE b.op = "finishStart"
  <2>1. p \in Pair(b.flow) /\ b.flow \in LiveFlows
    BY <1>3, <1>4, Types DEF Follows, IStarts, StartsHold, StartOps
  <2> QED
    BY <2>1, Types, HeldByFlow
<1>5. CASE b.op = "soloFinally"
  <2>1. Top.seats = Seats(b.player, None)
    BY <1>3, <1>5 DEF Follows
  <2>2. p = b.player
    BY <2>1, NoneAssumption DEF Seats
  <2> QED
    BY <1>5, <2>2 DEF IDuels, SoloHeld, SoloOps
<1> QED
  BY <1>2, <1>4, <1>5

\* Nobody who is held sees a duel come or go.
LEMMA HeldViews ==
    ASSUME NEW p \in Players, UNCHANGED <<prepVars, startingPlayers>>,
           flows[p] # 0 \/ p \in startingPlayers \/ playerToDuel'[p] = playerToDuel[p]
    PROVE  View(p)' = View(p)
BY ViewSame DEF Shown, IsDueling, prepVars

\* The end of a duel is about to be told to everybody who sees it.
LEMMA DuelEndViews ==
    ASSUME IDuels, NEW id, NEW S, NEW rest \in Seq(S), Nested(rest), FinishDuel(id, rest),
           \A c \in CallsOf(rest) : c.op \notin {"start", "setup"},
           UNCHANGED <<prepVars, startingPlayers>>, NEW p \in Players
    PROVE  /\ \A c \in Calls' : c.op = "duelEnded" \/ c \in CallsOf(rest)
           /\ \/ View(p)' = View(p)
              \/ \E c \in Calls' : WillTell(c, p)
<1>1. PICK new : /\ Makes(new, CallsOf(rest))
                 /\ \A c \in new : c.op = "duelEnded"
                 /\ \A x \in {duelSeats[id][0], duelSeats[id][1]} \ {None} :
                      duelSeats[id][0] # None => [op |-> "duelEnded", player |-> x] \in new
  BY FinishDuelCalls
<1>2. Calls' = new \cup CallsOf(rest)
  BY <1>1 DEF Makes, Calls
<1>3. id \in activeDuels /\ EndDuel(id)
  BY DEF FinishDuel
<1>4. duelSeats[id][0] # None
  BY <1>3, Types DEF ITypes, ActiveSeated, Seating
<1>5. CASE p \in Humans(id)
  <2> DEFINE c == [op |-> "duelEnded", player |-> p]
  <2>1. c \in Calls'
    BY <1>1, <1>2, <1>4, <1>5 DEF Humans
  <2>2. c.op = "duelEnded" /\ c.player = p
    OBVIOUS
  <2> HIDE DEF c
  <2> QED
    BY <1>1, <1>2, <2>1, <2>2 DEF WillTell
<1>6. CASE p \notin Humans(id)
  BY <1>1, <1>2, <1>3, <1>6, HeldViews DEF EndDuel
<1> QED
  BY <1>5, <1>6

\* A view that changes with its revision is told at once; one that changes
\* without is about to be told, and no older notification is under way.
Unnoticed(p) ==
    /\ revisions'[p] = revisions[p]
    /\ \E c \in Calls' : WillTell(c, p)
    /\ \A c \in Calls' : ~Tells(c, p)

LEMMA DuelStepViews ==
    ASSUME IViews, DuelStep, NEW p \in Players
    PROVE  View(p)' = View(p) \/ Unnoticed(p)
<1>1. UNCHANGED <<prepVars, startingPlayers>> /\ IDuels
  BY DEF DuelStep, IViews
<1>2. ICalls /\ ITypes /\ IFlows
  BY <1>1, Types
<1>3. revisions'[p] = revisions[p]
  BY <1>1 DEF prepVars
<1>4. UNCHANGED playerToDuel => View(p)' = View(p)
  BY <1>1, HeldViews
<1>5. CASE StartInstalls
  <2>1. stack # <<>> /\ Top.op = "start"
    BY <1>5 DEF StartInstalls, Running
  <2>2. p \in {Top.seats[0], Top.seats[1]} \/ playerToDuel'[p] = playerToDuel[p]
    BY <1>5 DEF StartInstalls
  <2> QED
    BY <1>1, <2>1, <2>2, SeatHeld, HeldViews
<1>6. CASE SetupCompletes \/ SetupThrows
  <2>1. stack # <<>> /\ Top.op = "setup" /\ Top \in Calls
    BY <1>2, <1>6, Pops DEF SetupCompletes, SetupThrows, Running
  <2>2. EndDuel(Top.duel)
    BY <1>6 DEF SetupCompletes, SetupThrows, FinishDuel
  <2>3. playerToDuel[p] = Top.duel \/ playerToDuel'[p] = playerToDuel[p]
    BY <2>2 DEF EndDuel
  <2>4. SetupHeld(Top)
    BY <2>1 DEF IViews
  <2> QED
    BY <1>1, <2>1, <2>3, <2>4, HeldViews DEF SetupHeld
<1>7. CASE Leave
  <2>1. stack # <<>> /\ Top.op = "leave" /\ Top \in Calls
    BY <1>2, <1>7, Pops DEF Leave, Running
  <2>2. CASE FinishDuel(playerToDuel[Top.player], Rest)
    <3> DEFINE id == playerToDuel[Top.player]
    <3>1. id \in activeDuels /\ id # 0
      BY <1>2, <2>2 DEF FinishDuel, ITypes, TypeOK, DuelIds
    <3>2. LeaveAlone(Top)
      BY <2>1 DEF IViews
    <3>3. \A d \in Calls : d.op \in {"logout", "leave"}
      BY <2>1, <3>1, <3>2 DEF LeaveAlone
    <3>4. /\ Rest \in Seq(Frame) /\ Nested(Rest)
          /\ \A c \in CallsOf(Rest) : c \in Calls /\ c.op \notin {"start", "setup"}
      BY <1>2, <2>1, Pops DEF Below
    <3>5. /\ \A c \in Calls' : c.op = "duelEnded" \/ c \in CallsOf(Rest)
          /\ View(p)' = View(p) \/ \E c \in Calls' : WillTell(c, p)
      BY <1>1, <2>2, <3>4, DuelEndViews
    <3>6. \A c \in Calls' : ~Tells(c, p)
      BY <3>3, <3>4, <3>5 DEF Tells
    <3> QED
      BY <1>3, <3>5, <3>6 DEF Unnoticed
  <2> QED
    BY <1>4, <1>7, <2>2 DEF Leave
<1>8. ASSUME NEW id, FinishDuel(id, <<>>) PROVE View(p)' = View(p) \/ Unnoticed(p)
  <2>1. /\ \A c \in Calls' : c.op = "duelEnded" \/ c \in CallsOf(<<>>)
        /\ View(p)' = View(p) \/ \E c \in Calls' : WillTell(c, p)
    BY <1>1, <1>8, NothingNested, DuelEndViews
  <2>2. \A c \in Calls' : ~Tells(c, p)
    BY <2>1, NothingNested DEF Tells
  <2> QED
    BY <1>3, <2>1, <2>2 DEF Unnoticed
<1>9. CASE \E id \in DuelIds : ResponseEndsDuel(id)
  BY <1>8, <1>9 DEF ResponseEndsDuel
<1>10. CASE \E q \in Players : Forfeit(q)
  BY <1>4, <1>8, <1>10 DEF Forfeit
<1>11. CASE SetupRuns \/ (StartThrows /\ UNCHANGED <<managerVars, playerToDuel, client>>)
  BY <1>4, <1>11 DEF SetupRuns
<1> QED
  BY <1>5, <1>6, <1>7, <1>9, <1>10, <1>11 DEF DuelStep

LEMMA SoloStepViews ==
    ASSUME IViews, SoloStep, NEW p \in Players
    PROVE  View(p)' = View(p) \/ Unnoticed(p)
<1>1. UNCHANGED <<prepVars, playerToDuel>> /\ ICalls /\ revisions'[p] = revisions[p]
  BY Types DEF SoloStep, IViews, prepVars
<1>2. ASSUME p # Top.player PROVE View(p)' = View(p)
  <2>1. p \in startingPlayers' <=> p \in startingPlayers
    BY <1>2 DEF SoloStep, SoloGuard, SoloFinally
  <2> QED
    BY <1>1, <2>1, ViewSame DEF Shown, IsDueling, prepVars
<1>3. CASE SoloGuard /\ p = Top.player
  <2> DEFINE a == SelectionCall(p)
             b == SoloCall("soloSelected", p)
  <2>1. a.op = "selection" /\ b.op = "soloSelected" /\ b.player = p
    BY DEF SelectionCall, SoloCall
  <2>2. Makes({a, b}, {})
    BY <1>1, <1>3, SoloGuardCalls
  <2> HIDE DEF a, b
  <2>3. Calls' = {a, b}
    BY <2>2 DEF Makes, Calls
  <2> QED
    BY <1>1, <2>1, <2>3 DEF Unnoticed, Tells, WillTell
<1>4. CASE SoloFinally /\ p = Top.player
  <2> DEFINE a == [op |-> "startFinished", player |-> p, success |-> started]
  <2>1. a.op = "startFinished" /\ a.player = p
    OBVIOUS
  <2>2. Makes({a}, {})
    BY <1>1, <1>4, SoloFinallyCalls
  <2> HIDE DEF a
  <2>3. Calls' = {a}
    BY <2>2 DEF Makes, Calls
  <2> QED
    BY <1>1, <2>1, <2>3 DEF Unnoticed, Tells, WillTell
<1> QED
  BY <1>2, <1>3, <1>4 DEF SoloStep

LEMMA ViewsMove ==
    ASSUME IViews, [Next]_vars, NEW p \in Players, p \in online'
    PROVE  View(p)' = View(p) \/ Noticed(p) \/ Unnoticed(p)
<1>1. CASE ServiceStep \/ ServiceResumes
  BY <1>1, ServiceViews DEF IViews
<1>2. CASE DuelStep \/ SoloStep
  BY <1>2, DuelStepViews, SoloStepViews
<1>3. CASE UNCHANGED <<prepVars, playerToDuel, startingPlayers>>
  BY <1>3, HeldViews
<1>4. CASE NotifyStep \/ SelectionStep \/ CheckStep \/ DropStep \/ DeckStep \/ Request \/ ClockTicks
           \/ UNCHANGED vars
  <2>1. UNCHANGED <<prepVars, playerToDuel, startingPlayers>>
    BY <1>4 DEF NotifyStep, SelectionStep, CheckStep, DropStep, DeckStep, Request, ClockTicks, vars,
         hostVars
  <2> QED
    BY <1>3, <2>1
<1>5. CASE Shutdown
  BY <1>5 DEF Shutdown
<1> QED
  BY <1>1, <1>2, <1>4, <1>5 DEF Next, ThreadStep

-----------------------------------------------------------------------------
(* How a step changes what a client holds *)

LEMMA ReceivedView ==
    ASSUME TypeOK, NEW p \in Players, p \in online, NEW result, NEW prompt,
           client[p].view # None => client[p].view.revision =< revisions[p],
           Receive(p, View(p), result, prompt)
    PROVE  /\ client'[p].view = View(p)
           /\ client'[p].duel = IF result = "START_FAILED" THEN 0 ELSE client[p].duel
           /\ \A q \in Players : q # p => client'[q] = client[q]
<1>1. client \in [Players -> Screen] /\ client[p] \in Screen
  BY DEF TypeOK
<1>2. View(p).revision = revisions[p] /\ revisions[p] \in Nat
  BY DEF View, TypeOK
<1> DEFINE new == [client[p] EXCEPT !.view = View(p),
                                    !.duel = IF result = "START_FAILED" THEN 0 ELSE @]
<1>3. client' = [client EXCEPT ![p] = [new EXCEPT !.prompt = prompt]]
  <2>1. client[p].view = None \/ View(p).revision >= client[p].view.revision
    <3>1. client[p].view # None => client[p].view.revision \in Nat
      BY <1>1 DEF Screen, Answer
    <3> QED
      BY <1>2, <3>1
  <2> QED
    BY <2>1 DEF Receive
<1>4. /\ [new EXCEPT !.prompt = prompt].view = View(p)
      /\ [new EXCEPT !.prompt = prompt].duel = IF result = "START_FAILED" THEN 0 ELSE client[p].duel
  BY <1>1 DEF Screen
<1> HIDE DEF new
<1> QED
  BY <1>1, <1>3, <1>4

LEMMA ShownScreens ==
    ASSUME NEW group, NEW id, Show(group, id), NEW p \in Players, TypeOK
    PROVE  /\ client'[p].view = client[p].view
           /\ client'[p].duel = IF p \in group \cap online THEN id ELSE client[p].duel
           /\ p \notin online => client'[p] = client[p]
<1>1. client[p] \in Screen
  BY DEF TypeOK
<1> QED
  BY <1>1 DEF Show, Screen

\* Only a notification or a reply brings a client a view.
LEMMA ScreensMove ==
    ASSUME IViews, [Next]_vars, NEW p \in Players
    PROVE  \/ /\ p \in online /\ p \notin online' /\ client'[p] = Disconnected
           \/ /\ p \in online <=> p \in online'
              /\ client'[p].view = client[p].view
              /\ p \notin online => client'[p] = client[p]
           \/ p \notin online /\ p \in online' /\ client'[p] = client[p] /\ Waiting
           \/ /\ p \in online /\ p \in online' /\ (Publish \/ Reply) /\ NotifyStep /\ Top.player = p
              /\ client'[p].view = View(p)
<1>1. TypeOK /\ IDuels
  BY Types DEF IViews
<1>2. CASE UNCHANGED <<online, client>>
  BY <1>2
<1>3. ASSUME NEW group, NEW id, Show(group, id), UNCHANGED online
      PROVE  /\ p \in online <=> p \in online'
             /\ client'[p].view = client[p].view
             /\ p \notin online => client'[p] = client[p]
  BY <1>1, <1>3, ShownScreens
<1>4. CASE DuelStep
  <2>1. UNCHANGED online
    BY <1>4 DEF DuelStep
  <2>2. (\E group, id : Show(group, id)) \/ UNCHANGED client
    BY <1>4 DEF DuelStep, StartInstalls, SetupRuns, SetupCompletes, SetupThrows, Leave, FinishDuel,
         ResponseEndsDuel, Forfeit
  <2> QED
    BY <1>2, <1>3, <2>1, <2>2
<1>5. CASE NotifyStep
  <2>1. UNCHANGED online
    BY <1>5 DEF NotifyStep, hostVars
  <2>2. ASSUME Publish \/ Reply PROVE
           /\ Top.player \in Players
           /\ \E result, prompt : Receive(Top.player, View(Top.player), result, prompt)
    <3>1. Top \in NoticeFrame \cup PlayerFrame
      BY <1>1, <2>2, Types, Pops, KindOfTop DEF Publish, Reply, Running
    <3> QED
      BY <2>2, <3>1 DEF NoticeFrame, PlayerFrame, Publish, Reply
  <2>3. CASE (Publish \/ Reply) /\ Top.player \in online
    <3>1. client[Top.player].view # None => client[Top.player].view.revision =< revisions[Top.player]
      BY <2>2, <2>3 DEF IViews, ViewFollows
    <3>2. PICK result, prompt : Receive(Top.player, View(Top.player), result, prompt)
      BY <2>2, <2>3
    <3>3. /\ client'[Top.player].view = View(Top.player)
          /\ \A q \in Players : q # Top.player => client'[q] = client[q]
      BY <1>1, <2>2, <2>3, <3>1, <3>2, ReceivedView
    <3> QED
      BY <1>5, <2>1, <2>3, <3>3
  <2>4. CASE (Publish \/ Reply) /\ Top.player \notin online
    <3>1. UNCHANGED client
      BY <2>2, <2>4 DEF Receive
    <3> QED
      BY <1>2, <2>1, <3>1
  <2> QED
    BY <1>2, <1>5, <2>1, <2>3, <2>4 DEF NotifyStep
<1>6. CASE DropStep
  <2>1. PICK q, rest : Drop(q, rest) /\ q \in online
    BY <1>6 DEF DropStep, ListenerDisconnectsOwner, Disconnect
  <2>2. client' = [client EXCEPT ![q] = Disconnected] /\ online' = online \ {q}
    BY <2>1 DEF Drop
  <2> QED
    BY <1>1, <2>1, <2>2 DEF TypeOK
<1>7. CASE DeckStep
  BY <1>7 DEF DeckStep, Login, ChangeDeck
<1>8. CASE ServiceStep \/ ServiceResumes \/ SelectionStep \/ CheckStep \/ SoloStep
  BY <1>2, <1>8 DEF ServiceStep, ServiceResumes, SelectionStep, CheckStep, SoloStep, hostVars
<1>9. CASE Request \/ Shutdown \/ ClockTicks \/ UNCHANGED vars
  BY <1>2, <1>9 DEF Request, Shutdown, ClockTicks, vars, hostVars
<1> QED
  BY <1>4, <1>5, <1>6, <1>7, <1>8, <1>9 DEF Next, ThreadStep

-----------------------------------------------------------------------------
(* The operation of the innermost call tells which step comes next *)

LEMMA StackRuns ==
    ASSUME [Next]_vars, stack # <<>>
    PROVE  \/ ThreadStep
           \/ DropStep /\ ListenerDisconnectsOwner
           \/ ClockTicks
           \/ UNCHANGED vars
<1>1. ~Waiting
  BY DEF Waiting
<1>2. DropStep => ListenerDisconnectsOwner
  BY <1>1 DEF DropStep, Disconnect
<1>3. ~DeckStep /\ ~Shutdown
  BY <1>1 DEF DeckStep, Login, ChangeDeck, Shutdown
<1>4. ~ServerTick /\ \A c : ~Serve(c)
  BY <1>1 DEF ServerTick, Serve, ServePacket, ServeChat, Admitted
<1>5. \A p : ~RequestView(p) /\ ~RequestSolo(p)
  BY <1>1 DEF RequestView, RequestSolo
<1>6. ~Request
  BY <1>4, <1>5 DEF Request, RequestInvite, RequestAnswer, RequestHand, RequestFirst
<1> QED
  BY <1>2, <1>3, <1>6 DEF Next

LEMMA ServiceRuns ==
    ASSUME ThreadStep, stack # <<>>
    PROVE  /\ Top.op = "duelEnded" => ServiceStep /\ DuelEnded
           /\ Top.op = "startFinished" => ServiceStep /\ StartFinished
           /\ Top.op = "logout" => ServiceStep /\ Logout
           /\ Top.op = "finishStart" => ServiceResumes /\ FinishStart
<1>1. Top.op \in {"duelEnded", "startFinished", "logout", "finishStart"}
        => ~NotifyStep /\ ~SelectionStep /\ ~CheckStep /\ ~DuelStep /\ ~SoloStep
  BY DEF NotifyStep, Notify, Publish, Reply, SelectionStep, SelectionMissing, SelectionFails,
     SelectionRejected, SelectionAccepted, CheckStep, StartPrepared, Current, StartChecked,
     SoloSelected, SoloChecked, CancelOwn, DuelStep, StartThrows, StartInstalls, SetupRuns,
     SetupCompletes, SetupThrows, Leave, ResponseEndsDuel, Forfeit, SoloStep, SoloGuard,
     SoloFinally, Running, Waiting
<1>2. Top.op \in {"duelEnded", "startFinished", "logout", "finishStart"}
        => ServiceStep \/ ServiceResumes
  BY <1>1 DEF ThreadStep
<1> QED
  BY <1>2 DEF ServiceStep, ServiceResumes, Sweep, SweepEnds, Invite, Accept, Decline, Cancel, Hand,
     First, Logout, DuelEnded, StartFinished, InviteSelected, AcceptSelected, FinishStart, Running

LEMMA HostRuns ==
    ASSUME ThreadStep, stack # <<>>
    PROVE  /\ Top.op = "changed" => NotifyStep /\ Notify
           /\ Top.op = "publish" => NotifyStep /\ Publish
           /\ Top.op = "reply" => NotifyStep /\ Reply
           /\ Top.op = "soloSelected" => CheckStep /\ SoloSelected
           /\ Top.op = "soloFinally" => SoloStep /\ SoloFinally
           /\ Top.op = "soloGuard" => SoloStep /\ SoloGuard
           /\ Top.op = "leave" => DuelStep /\ Leave
           /\ Top.op = "start" => /\ DuelStep
                                  /\ \/ StartThrows /\ UNCHANGED <<managerVars, playerToDuel, client>>
                                     \/ StartInstalls
           /\ Top.op = "setup" => DuelStep /\ (SetupRuns \/ SetupCompletes \/ SetupThrows)
<1> DEFINE ops == {"changed", "publish", "reply", "soloSelected", "soloFinally", "soloGuard",
                   "leave", "start", "setup"}
<1>1. Top.op \in ops => ~ServiceStep /\ ~ServiceResumes /\ ~SelectionStep
  BY DEF ServiceStep, ServiceResumes, Sweep, SweepEnds, Invite, Accept, Decline, Cancel, Hand,
     First, Logout, DuelEnded, StartFinished, InviteSelected, AcceptSelected, FinishStart,
     SelectionStep, SelectionMissing, SelectionFails, SelectionRejected, SelectionAccepted, Running
<1>2. Top.op \in ops => NotifyStep \/ CheckStep \/ DuelStep \/ SoloStep
  BY <1>1 DEF ThreadStep
<1>3. NotifyStep => \/ Top.op = "changed" /\ Notify
                    \/ Top.op = "publish" /\ Publish
                    \/ Top.op = "reply" /\ Reply
  BY DEF NotifyStep, Notify, Publish, Reply, Running
<1>4. CheckStep => /\ Top.op \in {"startPrepared", "current", "startChecked", "soloSelected",
                                  "soloChecked", "cancelOwn"}
                   /\ Top.op = "soloSelected" => SoloSelected
  BY DEF CheckStep, StartPrepared, Current, StartChecked, SoloSelected, SoloChecked, CancelOwn,
     Running
<1>5. SoloStep => \/ Top.op = "soloGuard" /\ SoloGuard
                  \/ Top.op = "soloFinally" /\ SoloFinally
  BY DEF SoloStep, SoloGuard, SoloFinally, Running
<1>6. DuelStep => \/ /\ Top.op = "start"
                     /\ \/ StartThrows /\ UNCHANGED <<managerVars, playerToDuel, client>>
                        \/ StartInstalls
                  \/ Top.op = "setup" /\ (SetupRuns \/ SetupCompletes \/ SetupThrows)
                  \/ Top.op = "leave" /\ Leave
  BY DEF DuelStep, StartThrows, StartInstalls, SetupRuns, SetupCompletes, SetupThrows, Leave,
     ResponseEndsDuel, Forfeit, Running, Waiting
<1> QED
  BY <1>2, <1>3, <1>4, <1>5, <1>6

LEMMA RunMoves ==
    ASSUME IDuels, [Next]_vars, stack # <<>>, Top.op # "selection"
    PROVE  \/ ThreadStep /\ Ran
           \/ ClockTicks
           \/ UNCHANGED vars
<1>1. ~ListenerDisconnectsOwner
  BY DEF ListenerDisconnectsOwner, Running
<1>2. ASSUME ThreadStep PROVE Ran
  <2>1. ~Served
    BY DEF Served, Waiting
  <2> QED
    BY <1>2, <2>1, ServiceStepMade, ServiceResumesMade, NotifyStepMade, SelectionStepMade,
       CheckStepMade, DuelStepMade, SoloStepMade DEF ThreadStep
<1> QED
  BY <1>1, <1>2, StackRuns

-----------------------------------------------------------------------------
(* What is owed stays owed *)

LEMMA DropMoves ==
    ASSUME IDuels, DropStep
    PROVE  \E p \in Players :
             /\ p \in online /\ online' = online \ {p}
             /\ Calls' = {[op |-> "logout", player |-> p], [op |-> "leave", player |-> p]} \cup Calls
             /\ \/ Disconnect(p) /\ Waiting /\ Calls = {}
                \/ /\ ListenerDisconnectsOwner /\ stack # <<>> /\ Top \in Calls
                   /\ Top.op = "selection" /\ p = Top.player
<1>1. CASE ListenerDisconnectsOwner
  <2>1. stack # <<>> /\ Top.op = "selection" /\ Top \in Calls /\ Top \in PlayerFrame
    BY <1>1, Types, Pops, KindOfTop DEF ListenerDisconnectsOwner, Running
  <2>2. Top.player \in Players
    BY <2>1 DEF PlayerFrame
  <2>3. Makes({[op |-> "logout", player |-> Top.player],
               [op |-> "leave", player |-> Top.player]}, Calls)
    BY <1>1, Types, ListenerCalls
  <2> QED
    BY <1>1, <2>1, <2>2, <2>3 DEF ListenerDisconnectsOwner, Drop, Makes, Calls
<1>2. ASSUME NEW p \in Players, Disconnect(p)
      PROVE  /\ p \in online /\ online' = online \ {p} /\ Waiting /\ Calls = {}
             /\ Calls' = {[op |-> "logout", player |-> p], [op |-> "leave", player |-> p]} \cup Calls
  <2>1. Waiting /\ Calls = {}
    BY <1>2, WaitingCalls DEF Disconnect
  <2>2. Makes({[op |-> "logout", player |-> p], [op |-> "leave", player |-> p]}, {})
    BY <1>2, DisconnectCalls
  <2> QED
    BY <1>2, <2>1, <2>2 DEF Disconnect, Drop, Makes, Calls
<1> QED
  BY <1>1, <1>2 DEF DropStep

\* A notification that was not under way before has a revision of its own.
LEMMA ToldBefore ==
    ASSUME IDuels, [Next]_vars, NEW p \in Players, revisions'[p] = revisions[p], Told(p)'
    PROVE  Told(p)
<1>1. PICK c \in Calls' : Tells(c, p)
  BY DEF Told
<1>2. ASSUME c \in Calls PROVE Told(p)
  BY <1>1, <1>2 DEF Told
<1>3. CASE Ran
  <2>1. PICK new : Makes(new, Below) /\ \A d \in new : MadeBy(d)
    BY <1>3 DEF Ran
  <2>2. /\ Calls' = new \cup Below /\ Calls = {Top} \cup Below /\ Top \in Calls
    BY <1>3, <2>1, Types, Pops DEF Makes, Calls, Ran
  <2>3. ASSUME c \in new PROVE Told(p)
    <3>1. MadeBy(c)
      BY <2>1, <2>3
    <3>2. revisions[p] \in Nat
      BY Types DEF TypeOK
    <3>3. c.op # "changed"
      BY <1>1, <3>1, <3>2 DEF MadeBy, Tells
    <3>4. Tells(Top, p)
      BY <1>1, <3>1, <3>3 DEF MadeBy, Tells
    <3> QED
      BY <2>2, <3>4 DEF Told
  <2> QED
    BY <1>2, <2>2, <2>3
<1>4. CASE Served
  BY <1>1, <1>4 DEF Served, PlainOps, Commands, Tells
<1>5. CASE DropStep
  <2>1. PICK q \in Players : Calls' = {[op |-> "logout", player |-> q],
                                       [op |-> "leave", player |-> q]} \cup Calls
    BY <1>5, DropMoves
  <2>2. c.op \notin {"logout", "leave"}
    BY <1>1 DEF Tells
  <2> QED
    BY <1>2, <2>1, <2>2
<1>6. CASE stack' = stack
  BY <1>2, <1>6 DEF Calls
<1> QED
  BY <1>3, <1>4, <1>5, <1>6, CallsMove

\* A call that owes a player a view makes another one that does.
LEMMA OwedStill ==
    ASSUME IDuels, [Next]_vars, NEW p \in Players, p \in online, Owed(p),
           ~(NotifyStep /\ Publish /\ Top.player = p)
    PROVE  Owed(p)'
<1>1. PICK c \in Calls : Tells(c, p) \/ WillTell(c, p)
  BY DEF Owed
<1>2. ASSUME c \in Calls' PROVE Owed(p)'
  BY <1>1, <1>2 DEF Owed
<1>3. ASSUME NEW d \in Calls', Tells(d, p) \/ WillTell(d, p) PROVE Owed(p)'
  BY <1>3 DEF Owed
<1>4. stack # <<>>
  BY WaitingCalls DEF Waiting
<1>5. CASE Ran
  <2>1. \A d \in Below : d \in Calls'
    BY <1>5 DEF Ran, Makes, Calls
  <2>2. Calls = {Top} \cup Below
    BY <1>4, Types, Pops
  <2>3. CASE c = Top
    <3>1. Top.op # "selection" /\ Top.player = p
      BY <1>1, <2>3 DEF Tells, WillTell
    <3>2. ThreadStep \/ ClockTicks \/ UNCHANGED vars
      BY <1>4, <3>1, RunMoves
    <3>3. CASE ClockTicks \/ UNCHANGED vars
      BY <1>2, <3>3 DEF ClockTicks, vars, Calls
    <3>4. CASE ThreadStep
      <4>1. CASE Top.op = "changed"
        <5>1. Notify /\ Top \in NoticeFrame
          BY <1>4, <3>4, <4>1, HostRuns, Types, Pops, KindOfTop
        <5> DEFINE d == [Top EXCEPT !.op = "publish"]
        <5>2. d \in Calls'
          BY <3>1, <5>1, Types, NotifyCalls DEF Makes, Calls
        <5>3. d.op = "publish" /\ d.player = p
          BY <3>1, <5>1 DEF NoticeFrame
        <5> HIDE DEF d
        <5> QED
          BY <1>3, <5>2, <5>3 DEF Tells
      <4>2. CASE Top.op = "publish"
        BY <1>4, <3>1, <3>4, <4>2, HostRuns
      <4>3. CASE Top.op \in {"duelEnded", "startFinished"}
        <5>1. DuelEnded \/ StartFinished
          BY <1>4, <3>4, <4>3, ServiceRuns
        <5>2. PICK result : Makes({ChangedCall(p, result)}, Below)
          BY <3>1, <5>1, Types, OutcomeCalls
        <5> DEFINE d == ChangedCall(p, result)
        <5>3. d \in Calls' /\ d.op = "changed" /\ d.player = p
          BY <5>2 DEF Makes, Calls, ChangedCall
        <5> HIDE DEF d
        <5> QED
          BY <1>3, <5>3 DEF Tells
      <4>4. CASE Top.op = "soloSelected"
        <5>1. SoloSelected
          BY <1>4, <3>4, <4>4, HostRuns
        <5> DEFINE d == SoloCall("soloFinally", p)
        <5>2. d \in Calls'
          BY <3>1, <5>1, Types, SoloSelectedCalls DEF Makes, Calls
        <5>3. d.op = "soloFinally" /\ d.player = p
          BY DEF SoloCall
        <5> HIDE DEF d
        <5> QED
          BY <1>3, <5>2, <5>3 DEF WillTell
      <4>5. CASE Top.op = "soloFinally"
        <5>1. SoloFinally
          BY <1>4, <3>4, <4>5, HostRuns
        <5> DEFINE d == [op |-> "startFinished", player |-> p, success |-> started]
        <5>2. d \in Calls'
          BY <3>1, <5>1, Types, SoloFinallyCalls DEF Makes, Calls
        <5>3. d.op = "startFinished" /\ d.player = p
          OBVIOUS
        <5> HIDE DEF d
        <5> QED
          BY <1>3, <5>2, <5>3 DEF WillTell
      <4> QED
        BY <1>1, <2>3, <4>1, <4>2, <4>3, <4>4, <4>5 DEF Tells, WillTell
    <3> QED
      BY <3>2, <3>3, <3>4
  <2> QED
    BY <1>2, <2>1, <2>2, <2>3
<1>6. CASE Served
  BY <1>4, <1>6 DEF Served, Waiting
<1>7. CASE DropStep
  BY <1>2, <1>7, DropMoves
<1>8. CASE stack' = stack
  BY <1>2, <1>8 DEF Calls
<1> QED
  BY <1>5, <1>6, <1>7, <1>8, CallsMove

\* Revisions of a connected player grow with the notices, one at a time.
LEMMA ViewFollowsStill ==
    ASSUME IViews, [Next]_vars, NEW p \in Players
    PROVE  ViewFollows(p)'
<1>1. TypeOK /\ IDuels /\ ViewFollows(p)
  BY Types DEF IViews
<1>2. CASE p \in online /\ p \notin online' /\ client'[p] = Disconnected
  BY <1>2 DEF ViewFollows, Disconnected
<1>3. CASE p \notin online /\ client'[p] = client[p]
  BY <1>1, <1>3 DEF ViewFollows, Disconnected
<1>4. CASE /\ p \in online /\ p \in online' /\ (Publish \/ Reply) /\ NotifyStep
           /\ client'[p].view = View(p)
  <2>1. UNCHANGED <<prepVars, hostVars>>
    BY <1>4 DEF NotifyStep
  <2>2. View(p)' = View(p) /\ View(p).revision = revisions[p] /\ revisions'[p] = revisions[p]
    <3>1. View(p)' = View(p)
      BY <2>1, SameViews
    <3> QED
      BY <2>1, <3>1 DEF View, prepVars
  <2>3. revisions[p] \in Nat
    BY <1>1 DEF TypeOK
  <2> QED
    BY <1>4, <2>2, <2>3 DEF ViewFollows
<1>5. CASE /\ p \in online /\ p \in online' /\ client'[p].view = client[p].view
           /\ ~(NotifyStep /\ Publish /\ Top.player = p)
  <2>1. SUFFICES ASSUME client[p].view # None
                 PROVE  LET held == client[p].view IN
                        /\ held.revision =< revisions'[p]
                        /\ held # View(p)' => Owed(p)'
                        /\ held # View(p)' /\ held.revision = revisions'[p] => ~Told(p)'
    BY <1>5 DEF ViewFollows
  <2> PICK held : held = client[p].view
    OBVIOUS
  <2>2. /\ held.revision =< revisions[p]
        /\ held # View(p) => Owed(p)
        /\ held # View(p) /\ held.revision = revisions[p] => ~Told(p)
    BY <1>1, <2>1 DEF ViewFollows
  <2>3. held.revision \in Nat /\ revisions[p] \in Nat
    <3>1. client[p] \in Screen /\ revisions[p] \in Nat
      BY <1>1 DEF TypeOK
    <3> QED
      BY <2>1, <3>1 DEF Screen, Answer
  <2>4. View(p).revision = revisions[p] /\ View(p)'.revision = revisions'[p]
    BY DEF View
  <2>5. CASE View(p)' = View(p)
    <3>1. revisions'[p] = revisions[p]
      BY <2>4, <2>5
    <3>2. Owed(p) => Owed(p)'
      BY <1>1, <1>5, OwedStill
    <3>3. ~Told(p) => ~Told(p)'
      BY <1>1, <3>1, ToldBefore
    <3> QED
      BY <2>2, <2>5, <3>1, <3>2, <3>3
  <2>6. CASE Noticed(p)
    <3>1. revisions'[p] = revisions[p] + 1 /\ Owed(p)'
      BY <2>6 DEF Noticed, Owed, Tells
    <3>2. held.revision =< revisions'[p] /\ held.revision # revisions'[p]
      BY <2>2, <2>3, <3>1
    <3> QED
      BY <3>1, <3>2
  <2>7. CASE Unnoticed(p)
    BY <2>2, <2>7 DEF Unnoticed, Owed, Told
  <2> QED
    BY <1>5, <2>5, <2>6, <2>7, ViewsMove
<1>6. NotifyStep /\ Publish /\ p \in online /\ p \in online' /\ Top.player = p
        => client'[p].view = View(p)
  <2>1. ASSUME NotifyStep, Publish, p \in online, Top.player = p PROVE client'[p].view = View(p)
    <3>1. client[p].view # None => client[p].view.revision =< revisions[p]
      BY <1>1 DEF ViewFollows
    <3>2. \E prompt : Receive(p, View(p), Top.result, prompt)
      BY <2>1 DEF Publish
    <3> QED
      BY <1>1, <2>1, <3>1, <3>2, ReceivedView
  <2> QED
    BY <2>1
<1> QED
  BY <1>2, <1>3, <1>4, <1>5, <1>6, ScreensMove

-----------------------------------------------------------------------------
(* The two calls whose views are at stake *)

LEMMA LeaveAloneStill ==
    ASSUME IViews, [Next]_vars, NEW c \in Calls', c.op = "leave"
    PROVE  LeaveAlone(c)'
<1>1. TypeOK /\ IDuels /\ \A d \in Calls : LeaveAlone(d)
  BY Types DEF IViews
<1>2. CASE c \in Calls
  <2>1. stack # <<>> /\ Top \in Calls /\ Calls = {Top} \cup Below
    BY <1>1, <1>2, Types, Pops, WaitingCalls DEF Waiting
  <2>2. c \in Frame /\ Calls \subseteq Frame
    BY <1>1, <1>2, Types, CallsAreFrames
  <2>3. c \in PlayerFrame
    BY <1>2, <2>2, KindOf
  <2>4. c.player \in Players
    BY <2>3 DEF PlayerFrame
  <2>5. CASE playerToDuel[c.player] = 0
    <3>1. ~StartInstalls
      <4>1. Top.op \in {"start", "setup"} => c # Top /\ c \notin Below
        BY <1>1, <2>1, Types, Pops DEF MayCover
      <4> QED
        BY <1>2, <2>1, <4>1 DEF StartInstalls, Running
    <3>2. playerToDuel'[c.player] = 0
      BY <1>1, <2>4, <2>5, <3>1, OnlyStartsInstall
    <3> QED
      BY <3>2 DEF LeaveAlone
  <2>6. CASE playerToDuel[c.player] # 0
    <3>1. /\ flows[c.player] = 0
          /\ \A d \in Calls : d.op \in {"logout", "leave"} /\ d.player = c.player
      BY <1>1, <1>2, <2>6 DEF LeaveAlone
    <3>2. Top.op \in {"logout", "leave"} /\ Top.player = c.player
      BY <2>1, <3>1
    <3>3. ThreadStep \/ ClockTicks \/ UNCHANGED vars
      BY <1>1, <2>1, <3>2, RunMoves
    <3>4. CASE ClockTicks \/ UNCHANGED vars
      <4>1. UNCHANGED <<stack, flows, playerToDuel>>
        BY <3>4 DEF ClockTicks, vars, prepVars, hostVars
      <4> QED
        BY <3>1, <4>1 DEF LeaveAlone, Calls
    <3>5. CASE ThreadStep /\ Top.op = "logout"
      <4>1. Logout /\ ServiceStep
        BY <2>1, <3>5, ServiceRuns
      <4>2. UNCHANGED prepVars /\ Makes({}, Below)
        BY <1>1, <3>1, <3>2, <4>1, Types, LogoutCalls
      <4>3. \A d \in Calls' : d \in Calls
        BY <2>1, <4>2 DEF Makes, Calls
      <4>4. flows'[c.player] = 0
        BY <3>1, <4>2 DEF prepVars
      <4> QED
        BY <3>1, <4>3, <4>4 DEF LeaveAlone
    <3>6. CASE ThreadStep /\ Top.op = "leave"
      <4>1. Leave
        BY <2>1, <3>6, HostRuns
      <4>2. /\ c.player \in Humans(playerToDuel[c.player])
            /\ playerToDuel[c.player] \in DuelIds
            /\ playerToDuel[c.player] \in activeDuels
        BY <1>1, <2>4, <2>6 DEF IDuels, DuelsPaired, TypeOK
      <4>3. EndDuel(playerToDuel[c.player])
        BY <3>2, <4>1, <4>2 DEF Leave, FinishDuel
      <4>4. playerToDuel'[c.player] = 0
        BY <2>4, <4>2, <4>3 DEF EndDuel
      <4> QED
        BY <4>4 DEF LeaveAlone
    <3> QED
      BY <3>2, <3>3, <3>4, <3>5, <3>6
  <2> QED
    BY <2>5, <2>6
<1>3. CASE c \notin Calls
  <2>1. DropStep
    <3>1. ~Ran
      <4>1. ASSUME Ran PROVE FALSE
        <5>1. PICK new : Makes(new, Below) /\ \A d \in new : MadeBy(d)
          BY <4>1 DEF Ran
        <5>2. c \in new
          BY <1>1, <1>3, <4>1, <5>1, Types, Pops DEF Makes, Calls, Ran
        <5> QED
          BY <5>1, <5>2 DEF MadeBy
      <4> QED
        BY <4>1
    <3>2. ~Served
      BY DEF Served, PlainOps, Commands
    <3>3. stack' # stack
      BY <1>3 DEF Calls
    <3> QED
      BY <1>1, <3>1, <3>2, <3>3, CallsMove
  <2>2. PICK p \in Players :
          /\ Calls' = {[op |-> "logout", player |-> p], [op |-> "leave", player |-> p]} \cup Calls
          /\ \/ Waiting /\ Calls = {}
             \/ stack # <<>> /\ Top \in Calls /\ Top.op = "selection" /\ p = Top.player
    BY <1>1, <2>1, DropMoves
  <2>3. c.player = p /\ UNCHANGED <<prepVars, playerToDuel>>
    BY <1>3, <2>1, <2>2 DEF DropStep
  <2>4. CASE playerToDuel[p] = 0
    BY <2>3, <2>4 DEF LeaveAlone
  <2>5. CASE playerToDuel[p] # 0
    <3>1. Waiting /\ Calls = {}
      <4>1. Top \in Calls /\ Top.op = "selection" => playerToDuel[Top.player] = 0
        BY <1>1 DEF IDuels, SelectionsFree, CallFree
      <4> QED
        BY <2>2, <2>5, <4>1
    <3>2. \A d \in Calls' : d.op \in {"logout", "leave"} /\ d.player = p
      BY <2>2, <3>1
    <3>3. flows[p] = 0
      <4>1. ASSUME flows[p] # 0 PROVE FALSE
        <5>1. flows[p] \in FlowIds
          BY <1>1, <4>1 DEF TypeOK
        <5>2. flows[p] \in LiveFlows /\ p \in Pair(flows[p])
          BY <1>1, <5>1, Types, HeldPair
        <5>3. flow[flows[p]].mode = "STARTING"
          BY <1>1, <2>5, <5>2 DEF IDuels, DuelsApart
        <5> QED
          BY <1>1, <3>1, <5>2, <5>3, Types DEF IStarts, StartsHold
      <4> QED
        BY <4>1
    <3> QED
      BY <2>3, <3>2, <3>3 DEF LeaveAlone, prepVars
  <2> QED
    BY <2>4, <2>5
<1> QED
  BY <1>2, <1>3

LEMMA SetupHeldStill ==
    ASSUME IViews, [Next]_vars, NEW c \in Calls', c.op = "setup"
    PROVE  SetupHeld(c)'
<1>1. TypeOK /\ IDuels /\ \A d \in Calls : SetupHeld(d)
  BY Types DEF IViews
<1>2. CASE UNCHANGED <<stack, playerToDuel, flows, startingPlayers>>
  BY <1>1, <1>2 DEF SetupHeld, Calls
<1>3. CASE StartInstalls /\ UNCHANGED <<flows, startingPlayers>>
  <2>1. stack # <<>> /\ Top.op = "start"
    BY <1>3 DEF StartInstalls, Running
  <2>2. \A d \in Below : d.op # "setup"
    BY <1>1, <2>1, Types, Pops
  <2> DEFINE d == [op |-> "setup", duel |-> Len(duelSeats) + 1]
  <2>3. Makes({d}, Below)
    BY <1>1, <1>3, Types, StartInstallsCalls
  <2>4. c.duel = Len(duelSeats) + 1
    BY <2>2, <2>3 DEF Makes, Calls
  <2>5. ASSUME NEW p \in Players, playerToDuel'[p] = c.duel
        PROVE  p \in {Top.seats[0], Top.seats[1]}
    <3>1. playerToDuel[p] \in {0} \cup DuelIds /\ Len(duelSeats) \in Nat
      BY <1>1, LenProperties DEF TypeOK
    <3>2. playerToDuel[p] # c.duel
      BY <2>4, <3>1 DEF DuelIds
    <3> QED
      BY <1>3, <2>5, <3>2 DEF StartInstalls
  <2> QED
    BY <1>1, <1>3, <2>1, <2>5, SeatHeld DEF SetupHeld
<1>4. stack # <<>> => \A d \in Below : d.op # "setup"
  BY <1>1, Types, Pops
<1>5. CASE c \notin Calls
  <2>1. CASE Ran
    <3>1. PICK new : Makes(new, Below) /\ \A d \in new : MadeBy(d)
      BY <2>1 DEF Ran
    <3>2. MadeBy(c) /\ stack # <<>>
      BY <1>1, <1>5, <2>1, <3>1, Types, Pops DEF Makes, Calls, Ran
    <3>3. Top.op = "start"
      BY <3>2 DEF MadeBy
    <3>4. ThreadStep \/ stack' = stack
      BY <1>1, <3>2, <3>3, RunMoves DEF ClockTicks, vars
    <3>5. ThreadStep
      BY <1>5, <3>4 DEF Calls
    <3>6. DuelStep /\ (StartThrows \/ StartInstalls)
      BY <3>2, <3>3, <3>5, HostRuns
    <3>7. CASE StartThrows
      <4>1. Makes({}, Below)
        BY <1>1, <3>7, Types, ReturnCalls DEF StartThrows, Running
      <4> QED
        BY <1>1, <1>5, <3>2, <4>1, Types, Pops DEF Makes, Calls
    <3> QED
      BY <1>3, <3>6, <3>7 DEF DuelStep, prepVars
  <2>2. ~Served /\ ~DropStep
    BY <1>1, <1>5, DropMoves DEF Served, PlainOps, Commands
  <2>3. stack' # stack
    BY <1>5 DEF Calls
  <2> QED
    BY <1>1, <2>1, <2>2, <2>3, CallsMove
<1>6. CASE c \in Calls
  <2>1. stack # <<>> /\ Calls = {Top} \cup Below
    BY <1>1, <1>6, Types, Pops, WaitingCalls DEF Waiting
  <2>2. Top.op = "setup"
    BY <1>4, <1>6, <2>1
  <2>3. (ThreadStep /\ Ran) \/ ClockTicks \/ UNCHANGED vars
    BY <1>1, <2>1, <2>2, RunMoves
  <2>4. CASE ThreadStep /\ Ran
    <3>1. PICK new : Makes(new, Below) /\ \A d \in new : MadeBy(d)
      BY <2>4 DEF Ran
    <3>2. c \in new
      BY <1>4, <2>1, <3>1 DEF Makes, Calls
    <3> QED
      BY <2>2, <3>1, <3>2 DEF MadeBy
  <2>5. CASE ClockTicks \/ UNCHANGED vars
    <3>1. UNCHANGED <<stack, playerToDuel, flows, startingPlayers>>
      BY <2>5 DEF ClockTicks, vars, prepVars, hostVars
    <3> QED
      BY <1>2, <3>1
  <2> QED
    BY <2>3, <2>4, <2>5
<1> QED
  BY <1>5, <1>6

LEMMA NextKeepsViews == ASSUME IViews, [Next]_vars PROVE IViews'
<1>1. IDuels'
  BY NextKeepsDuels DEF IViews
<1>2. \A p \in Players : ViewFollows(p)'
  BY ViewFollowsStill
<1>3. \A c \in Calls' : LeaveAlone(c)' /\ SetupHeld(c)'
  <2> SUFFICES ASSUME NEW c \in Calls' PROVE LeaveAlone(c)' /\ SetupHeld(c)'
    OBVIOUS
  <2>1. c.op # "leave" => LeaveAlone(c)'
    BY DEF LeaveAlone
  <2>2. c.op # "setup" => SetupHeld(c)'
    BY DEF SetupHeld
  <2> QED
    BY <2>1, <2>2, LeaveAloneStill, SetupHeldStill
<1> QED
  BY <1>1, <1>2, <1>3 DEF IViews

LEMMA InitViews == ASSUME Init PROVE IViews
<1>1. IDuels
  BY InitDuels
<1>2. Calls = {}
  BY WaitingCalls DEF Init, Waiting
<1>3. \A p \in Players : client[p] = Disconnected
  BY DEF Init
<1> QED
  BY <1>1, <1>2, <1>3 DEF IViews, ViewFollows, Disconnected

\* A client that holds a view of some revision holds the only view of that
\* revision: ClientPreparationState may drop what is older and lose nothing.
\* Views change without a revision, when a duel ends or a guard is taken, but
\* none is sent before the notification that brings the next revision.
THEOREM RevisionsTell == Spec => ViewsFollowRevision
<1>1. Init => IViews
  BY InitViews
<1>2. IViews /\ [Next]_vars => IViews'
  BY NextKeepsViews
<1> DEFINE Tell(p) == LET held == client[p].view
                          new == client'[p].view IN
                      held # None /\ new # None => held.revision < new.revision \/ held = new
<1>3. ASSUME IViews, [Next]_vars, NEW p \in Players PROVE Tell(p)
  <2>1. TypeOK /\ IDuels /\ ViewFollows(p)
    BY <1>3, Types DEF IViews
  <2> SUFFICES ASSUME client[p].view # None, client'[p].view # None, client'[p].view # client[p].view
               PROVE  client[p].view.revision < client'[p].view.revision
    OBVIOUS
  <2>2. /\ (Publish \/ Reply) /\ NotifyStep /\ Top.player = p
        /\ client'[p].view = View(p)
    BY <1>3, ScreensMove DEF Disconnected
  <2>3. stack # <<>> /\ Calls = {Top} \cup Below
    BY <2>1, <2>2, Types, Pops DEF Publish, Reply, Running
  <2>4. client[p].view # View(p)
    BY <2>2
  <2>5. client[p].view.revision # revisions[p]
    <3>1. CASE Publish
      <4>1. Told(p)
        BY <2>2, <2>3, <3>1 DEF Told, Tells, Publish, Running
      <4> QED
        BY <2>1, <2>4, <4>1 DEF ViewFollows
    <3>2. CASE Reply
      <4>1. Top.op = "reply" /\ \A c \in Below : MayCover(Top, c)
        BY <2>1, <2>3, <3>2, Types, Pops DEF Reply, Running
      <4>2. Below = {}
        BY <4>1 DEF MayCover, Lasts
      <4>3. ~Owed(p)
        BY <2>3, <4>1, <4>2 DEF Owed, Tells, WillTell
      <4> QED
        BY <2>1, <2>4, <4>3 DEF ViewFollows
    <3> QED
      BY <2>2, <3>1, <3>2
  <2>6. client[p].view.revision \in Nat /\ revisions[p] \in Nat
    <3>1. client[p] \in Screen /\ revisions[p] \in Nat
      BY <2>1 DEF TypeOK
    <3> QED
      BY <3>1 DEF Screen, Answer
  <2>7. client[p].view.revision =< revisions[p] /\ client'[p].view.revision = revisions[p]
    BY <2>1, <2>2 DEF ViewFollows, View
  <2> QED
    BY <2>5, <2>6, <2>7
<1>4. IViews /\ [Next]_vars => \A p \in Players : Tell(p)
  BY <1>3
<1>5. IViews /\ [Next]_vars => [\A p \in Players : Tell(p)]_vars
  BY <1>4
<1> QED
  BY <1>1, <1>2, <1>5, PTL DEF Spec, ViewsFollowRevision

-----------------------------------------------------------------------------
(* The players of a flow.  Both were connected when their availability was   *)
(* read; whoever has gone since then is still to be logged out, and that     *)
(* ends the flow before the request that would change it.                    *)

Leaving(p) == \E c \in Calls : c.op = "logout" /\ c.player = p

\* The flow has been accepted, or it is being accepted.
Committed(f) ==
    \/ flow[f].mode \in {"RPS", "FIRST_CHOICE"}
    \/ \E c \in Calls : c.op = "acceptSelected" /\ c.id = f

IAttended ==
    /\ IDuels
    /\ \A f \in LiveFlows : Committed(f) => \A p \in Pair(f) : p \in online \/ Leaving(p)

LEMMA OnlineMoves ==
    ASSUME [Next]_vars
    PROVE  online \subseteq online' \/ DropStep
<1>1. ThreadStep => UNCHANGED online
  BY DEF ThreadStep, ServiceStep, ServiceResumes, NotifyStep, SelectionStep, CheckStep,
     DuelStep, SoloStep, hostVars
<1>2. DeckStep => online \subseteq online'
  BY DEF DeckStep, Login
<1>3. Request \/ Shutdown \/ ClockTicks \/ UNCHANGED vars => UNCHANGED online
  BY DEF Request, Shutdown, ClockTicks, vars, hostVars
<1> QED
  BY <1>1, <1>2, <1>3 DEF Next

\* A call ends by running, whatever disconnects meanwhile.
LEMMA OnlyTopEnds ==
    ASSUME IDuels, [Next]_vars, NEW c \in Calls, c \notin Calls'
    PROVE  stack # <<>> /\ c = Top /\ ThreadStep
<1>1. stack # <<>>
  BY WaitingCalls DEF Waiting
<1>2. Calls = {Top} \cup Below
  BY <1>1, Types, Pops
<1>3. stack' # stack
  BY DEF Calls
<1>4. ~DropStep
  BY DropMoves
<1>5. ThreadStep
  BY <1>1, <1>3, <1>4, StackRuns DEF ClockTicks, vars
<1>6. ~Served
  BY <1>1 DEF Served, Waiting
<1>7. Ran
  BY <1>3, <1>4, <1>6, CallsMove
<1>8. \A d \in Below : d \in Calls'
  BY <1>7 DEF Ran, Makes, Calls
<1> QED
  BY <1>1, <1>2, <1>5, <1>8

\* Both players were there when a flow was accepted, or began to be.
LEMMA CommittedBefore ==
    ASSUME IDuels, [Next]_vars, NEW f \in LiveFlows, f \in LiveFlows', Committed(f)'
    PROVE  Committed(f) \/ Pair(f) \subseteq online'
<1>1. IStarts /\ ICalls /\ IFlows
  BY Types
<1>2. CASE flow'[f].mode \in {"RPS", "FIRST_CHOICE"}
  <2>1. CASE flow'[f] = flow[f]
    BY <1>2, <2>1 DEF Committed
  <2>2. CASE flow'[f] # flow[f]
    <3>1. /\ stack # <<>>
          /\ \/ Top.op = "hand" /\ f = Top.id /\ HandAwaited(Top)
             \/ Top.op = "acceptSelected" /\ f = Top.id
             \/ Top.op = "first" /\ f = Top.id /\ MayChoose(Top)
             \/ flow[f].mode = "STARTING"
      BY <1>1, <2>2, HowFlowsChange
    <3>2. Top \in Calls
      BY <1>1, <3>1, Pops
    <3>3. flow[f].mode # "STARTING"
      <4>1. FlowStands(f)
        BY <1>1, FlowsStand
      <4> QED
        BY <1>2, <4>1 DEF FlowStands
    <3> QED
      BY <3>1, <3>2, <3>3 DEF Committed, HandAwaited, MayChoose
  <2> QED
    BY <2>1, <2>2
<1>3. ASSUME NEW c \in Calls', c.op = "acceptSelected", c.id = f
      PROVE  Committed(f) \/ Pair(f) \subseteq online'
  <2>1. CASE c \in Calls
    BY <1>3, <2>1 DEF Committed
  <2>2. CASE c \notin Calls
    <3>1. stack' # stack
      BY <2>2 DEF Calls
    <3>2. ~DropStep
      BY <1>3, <2>2, DropMoves
    <3>3. ~Served
      BY <1>3 DEF Served, PlainOps, Commands
    <3>4. Ran
      BY <3>1, <3>2, <3>3, CallsMove
    <3>5. PICK new : Makes(new, Below) /\ \A d \in new : MadeBy(d)
      BY <3>4 DEF Ran
    <3>6. MadeBy(c)
      BY <1>1, <2>2, <3>4, <3>5, Pops DEF Makes, Calls, Ran
    <3>7. Availability(f) = "OK"
      BY <1>3, <3>6 DEF MadeBy
    <3>8. Pair(f) \subseteq online
      BY <3>7 DEF Availability, Pair
    <3> QED
      BY <3>2, <3>8, OnlineMoves
  <2> QED
    BY <2>1, <2>2
<1> QED
  BY <1>2, <1>3 DEF Committed

\* Whoever leaves is logged out before any other call runs, and that ends a
\* flow which is not starting.
LEMMA LeavingStays ==
    ASSUME IAttended, [Next]_vars, NEW f \in LiveFlows, f \in LiveFlows', Committed(f),
           NEW p \in Pair(f)
    PROVE  p \in online' \/ Leaving(p)'
<1>1. IDuels /\ IStarts /\ ICalls /\ IFlows /\ TypeOK
  BY Types DEF IAttended
<1>2. CASE p \in online
  <2>1. CASE DropStep
    <3>1. PICK q \in Players :
            /\ online' = online \ {q}
            /\ Calls' = {[op |-> "logout", player |-> q], [op |-> "leave", player |-> q]} \cup Calls
      BY <1>1, <2>1, DropMoves
    <3> PICK a : a = [op |-> "logout", player |-> q]
      OBVIOUS
    <3>2. a.op = "logout" /\ a.player = q /\ a \in Calls'
      BY <3>1
    <3> QED
      BY <1>2, <3>1, <3>2 DEF Leaving
  <2> QED
    BY <1>2, <2>1, OnlineMoves
<1>3. CASE p \notin online
  <2>1. PICK c \in Calls : c.op = "logout" /\ c.player = p
    BY <1>3 DEF IAttended, Leaving
  <2>2. CASE c \in Calls'
    BY <2>1, <2>2 DEF Leaving
  <2>3. CASE c \notin Calls'
    <3>1. c = Top /\ Logout /\ stack # <<>>
      BY <1>1, <2>1, <2>3, OnlyTopEnds, ServiceRuns
    <3>2. f \in FlowIds /\ flow[f].challenger \in Players
      BY <1>1, FlowTyped DEF LiveFlows, Flow, IFlows, ITypes
    <3>3. flows[p] = f
      BY <1>1, <3>2, HeldPair DEF LiveFlows
    <3>4. flow[f].mode # "STARTING"
      BY <1>1 DEF Committed, IStarts, AcceptStands
    <3>5. f # 0
      BY <3>2 DEF FlowIds
    <3>6. FinishMakes(f, "OFFLINE", {})
      BY <1>1, <2>1, <3>1, <3>3, <3>4, <3>5, LogoutCalls
    <3>7. \E rest : Finish(f, "OFFLINE", rest)
      BY <3>6 DEF FinishMakes
    <3>8. f \notin LiveFlows'
      BY <1>1, <3>2, <3>7, LiveFinish
    <3> QED
      BY <3>8
  <2> QED
    BY <2>2, <2>3
<1> QED
  BY <1>2, <1>3

\* A flow that has just been proposed is not being accepted.
LEMMA NewFlowsWait ==
    ASSUME IDuels, [Next]_vars, NEW f \in LiveFlows', f \notin LiveFlows
    PROVE  ~Committed(f)'
<1>1. IStarts /\ ICalls /\ IFlows /\ ITypes
  BY Types
<1>2. /\ stack # <<>> /\ Top.op = "inviteSelected" /\ FlowProposed
      /\ f = Len(flow) + 1 /\ flow'[f] = NewFlow(Top.actor, Top.target, Top.now)
  BY <1>1, NewFlows
<1>3. flow'[f].mode = "INVITED"
  BY <1>2 DEF NewFlow
<1>4. ASSUME NEW c \in Calls', c.op = "acceptSelected", c.id = f PROVE FALSE
  <2>1. f \notin FlowIds
    <3>1. Len(flow) \in Nat
      BY <1>1, LenProperties DEF ITypes, TypeOK
    <3> QED
      BY <1>2, <3>1 DEF FlowIds
  <2>2. c \notin Calls
    <3>1. ASSUME c \in Calls PROVE FALSE
      <4>1. c \in AnswerFrame(FlowIds)
        BY <1>1, <1>4, <3>1, CallsAreFrames, KindOf
      <4> QED
        BY <1>4, <2>1, <4>1 DEF AnswerFrame
    <3> QED
      BY <3>1
  <2>3. stack' # stack
    BY <2>2 DEF Calls
  <2>4. ~DropStep
    BY <1>4, <2>2, DropMoves
  <2>5. ~Served
    BY <1>2 DEF Served, Waiting
  <2>6. Ran
    BY <2>3, <2>4, <2>5, CallsMove
  <2>7. PICK new : Makes(new, Below) /\ \A d \in new : MadeBy(d)
    BY <2>6 DEF Ran
  <2>8. MadeBy(c)
    BY <1>1, <2>2, <2>6, <2>7, Pops DEF Makes, Calls, Ran
  <2> QED
    BY <1>2, <1>4, <2>8 DEF MadeBy
<1> QED
  BY <1>3, <1>4 DEF Committed

LEMMA NextKeepsAttended == ASSUME IAttended, [Next]_vars PROVE IAttended'
<1>1. IDuels /\ IDuels'
  BY NextKeepsDuels DEF IAttended
<1>2. ASSUME NEW f \in LiveFlows', Committed(f)', NEW p \in Pair(f)'
      PROVE  p \in online' \/ Leaving(p)'
  <2>1. f \in LiveFlows
    BY <1>1, <1>2, NewFlowsWait
  <2>2. p \in Pair(f)
    <3>1. FlowStands(f)
      BY <1>1, <1>2, <2>1, Types, FlowsStand
    <3> QED
      BY <1>2, <3>1 DEF FlowStands, Pair
  <2>3. Committed(f) \/ Pair(f) \subseteq online'
    BY <1>1, <1>2, <2>1, CommittedBefore
  <2> QED
    BY <1>2, <2>1, <2>2, <2>3, LeavingStays
<1> QED
  BY <1>1, <1>2 DEF IAttended

LEMMA InitAttended == ASSUME Init PROVE IAttended
<1>1. FlowIds = {}
  BY DEF Init, FlowIds
<1>2. LiveFlows = {}
  BY <1>1 DEF LiveFlows
<1> QED
  BY <1>2, InitDuels DEF IAttended

\* Nobody plays against a player who is gone, whatever the deck checks
\* disconnect: a flow that is accepted, played for or about to start has both
\* of its players connected at every step it takes.
THEOREM NobodyPlaysAlone == Spec => AbsentNeverAdvance
<1>1. Init => IAttended
  BY InitAttended
<1>2. IAttended /\ [Next]_vars => IAttended'
  BY NextKeepsAttended
<1>3. ASSUME IAttended, [Next]_vars, NEW f \in FlowIds, Kept(f), flow[f].mode # "STARTING",
             flow'[f] # flow[f]
      PROVE  Pair(f) \subseteq online
  <2>1. IStarts /\ ICalls /\ f \in LiveFlows /\ f \in LiveFlows'
    BY <1>3, Types DEF IAttended, Kept, Live
  <2>2. /\ stack # <<>>
        /\ \/ Top.op = "hand" /\ f = Top.id /\ HandAwaited(Top)
           \/ Top.op = "acceptSelected" /\ f = Top.id
           \/ Top.op = "first" /\ f = Top.id /\ MayChoose(Top)
    BY <1>3, <2>1, HowFlowsChange
  <2>3. Calls = {Top} \cup Below
    BY <2>1, <2>2, Pops
  <2>4. Committed(f)
    BY <2>2, <2>3 DEF Committed, HandAwaited, MayChoose
  <2>5. \A c \in Calls : c.op # "logout"
    <3>1. Top.op \in Rounds
      BY <2>2 DEF Rounds
    <3>2. \A c \in Below : c.op = "reply"
      BY <2>1, <2>2, <3>1, RoundAlone
    <3> QED
      BY <2>2, <2>3, <3>2
  <2> QED
    BY <1>3, <2>1, <2>4, <2>5 DEF IAttended, Leaving
<1>4. ASSUME IAttended, [Next]_vars
      PROVE  [\A f \in FlowIds :
                Kept(f) /\ flow[f].mode # "STARTING" /\ flow'[f] # flow[f]
                  => Pair(f) \subseteq online]_vars
  BY <1>3, <1>4
<1> QED
  BY <1>1, <1>2, <1>4, PTL DEF Spec, AbsentNeverAdvance

-----------------------------------------------------------------------------
(* Players who have left.  A listener of the deck check that disconnects its *)
(* owner is the only way to leave while other calls run.                     *)

AbsentHeld(p) ==
    p \notin online =>
      /\ flows[p] # 0 => \E c \in Calls : c.op = "logout" /\ c.player = p
      /\ playerToDuel[p] # 0 => \E c \in Calls : c.op = "leave" /\ c.player = p
      /\ p \notin startingPlayers

LogoutFirst(c) ==
    c.op = "logout" => c = Top /\ \A d \in Below : d.op = "leave" /\ d.player = c.player

PresentAsked(c) ==
    /\ c.op = "inviteSelected" => {c.actor, c.target} \subseteq online
    /\ c.op = "soloGuard" => c.player \in online

IOffline ==
    /\ IDuels
    /\ \A p \in Players : AbsentHeld(p)
    /\ \A c \in Calls : LogoutFirst(c) /\ PresentAsked(c)

LEMMA StackMoves ==
    ASSUME ListenerDisconnects = FALSE, IDuels, [Next]_vars, stack # <<>>
    PROVE  /\ UNCHANGED online
           /\ \/ ThreadStep /\ Ran
              \/ stack' = stack /\ (ClockTicks \/ UNCHANGED vars)
<1>1. ~ListenerDisconnectsOwner
  BY DEF ListenerDisconnectsOwner
<1>2. ThreadStep \/ ClockTicks \/ UNCHANGED vars
  BY <1>1, StackRuns
<1>3. CASE ThreadStep
  <2>1. ~Served
    BY DEF Served, Waiting
  <2>2. Ran
    BY <1>3, <2>1, ServiceStepMade, ServiceResumesMade, NotifyStepMade, SelectionStepMade,
       CheckStepMade, DuelStepMade, SoloStepMade DEF ThreadStep
  <2>3. UNCHANGED online
    BY <1>3 DEF ThreadStep, ServiceStep, ServiceResumes, NotifyStep, SelectionStep, CheckStep,
       DuelStep, SoloStep, hostVars
  <2> QED
    BY <1>3, <2>2, <2>3
<1>4. CASE ClockTicks \/ UNCHANGED vars
  BY <1>4 DEF ClockTicks, vars, hostVars
<1> QED
  BY <1>2, <1>3, <1>4

\* The lock of a solo start is taken by the call that asked for it.
LEMMA GuardTaken ==
    ASSUME [Next]_vars, NEW p, p \in startingPlayers', p \notin startingPlayers
    PROVE  SoloGuard /\ p = Top.player
<1>1. startingPlayers' # startingPlayers
  OBVIOUS
<1>2. SoloStep
  BY <1>1 DEF Next, ThreadStep, ServiceStep, ServiceResumes, NotifyStep, SelectionStep, CheckStep,
     DuelStep, DropStep, DeckStep, Request, Shutdown, ClockTicks, vars, hostVars
<1> QED
  BY <1>2 DEF SoloStep, SoloGuard, SoloFinally

LEMMA PresentAskedStill ==
    ASSUME ListenerDisconnects = FALSE, IOffline, [Next]_vars, NEW c \in Calls'
    PROVE  PresentAsked(c)'
<1>1. IDuels
  BY DEF IOffline
<1>2. CASE c \in Calls
  <2>1. stack # <<>>
    BY <1>2, WaitingCalls DEF Waiting
  <2>2. UNCHANGED online /\ PresentAsked(c)
    BY <1>1, <1>2, <2>1, StackMoves DEF IOffline
  <2> QED
    BY <2>2 DEF PresentAsked
<1>3. CASE c \notin Calls
  <2>1. CASE Ran
    <3>1. PICK new : Makes(new, Below) /\ \A d \in new : MadeBy(d)
      BY <2>1 DEF Ran
    <3>2. MadeBy(c) /\ stack # <<>>
      BY <1>1, <1>3, <2>1, <3>1, Types, Pops DEF Makes, Calls, Ran
    <3>3. UNCHANGED online
      BY <1>1, <3>2, StackMoves
    <3> QED
      BY <3>2, <3>3 DEF MadeBy, PresentAsked
  <2>2. CASE DropStep
    <3>1. c.op \in {"logout", "leave"}
      BY <1>1, <1>3, <2>2, DropMoves
    <3> QED
      BY <3>1 DEF PresentAsked
  <2>3. CASE Served
    <3>1. c.op # "inviteSelected" /\ (c.op = "soloGuard" => c.player \in online)
      BY <2>3 DEF Served, PlainOps, Commands
    <3> QED
      BY <2>2, <3>1, OnlineMoves DEF PresentAsked
  <2>4. stack' # stack
    BY <1>3 DEF Calls
  <2> QED
    BY <1>1, <2>1, <2>2, <2>3, <2>4, CallsMove
<1> QED
  BY <1>2, <1>3

LEMMA LogoutFirstStill ==
    ASSUME ListenerDisconnects = FALSE, IOffline, [Next]_vars, NEW c \in Calls', c.op = "logout"
    PROVE  LogoutFirst(c)'
<1>1. IDuels /\ ICalls
  BY Types DEF IOffline
<1>2. CASE stack' = stack
  <2>1. LogoutFirst(c) /\ c \in Calls
    BY <1>2 DEF IOffline, Calls
  <2> QED
    BY <1>2, <2>1 DEF LogoutFirst, Below, Top, Rest
<1>3. CASE Ran
  <2>1. PICK new : Makes(new, Below) /\ \A d \in new : MadeBy(d)
    BY <1>3 DEF Ran
  <2>2. Calls' = new \cup Below /\ Calls = {Top} \cup Below /\ Top \in Calls
    BY <1>1, <1>3, <2>1, Pops DEF Makes, Calls, Ran
  <2>3. c \notin new
    BY <2>1 DEF MadeBy
  <2>4. c \in Below
    BY <2>2, <2>3
  <2>5. LogoutFirst(c)
    BY <2>2, <2>4 DEF IOffline
  <2> QED
    BY <2>4, <2>5 DEF LogoutFirst
<1>4. CASE Served
  BY <1>4 DEF Served, PlainOps, Commands
<1>5. CASE DropStep
  <2>1. PICK p \in Players : Disconnect(p)
    BY <1>5 DEF DropStep, ListenerDisconnectsOwner
  <2> DEFINE a == [op |-> "logout", player |-> p]
             b == [op |-> "leave", player |-> p]
  <2>2. a.op = "logout" /\ a.player = p /\ b.op = "leave" /\ b.player = p
    OBVIOUS
  <2>3. stack' = <<a, b>>
    BY <2>1 DEF Disconnect, Drop
  <2> HIDE DEF a, b
  <2>4. Top' = a /\ Rest' = <<b>>
    BY <2>3 DEF Top, Rest
  <2>5. Calls' = {a, b} /\ Below' = {b}
    BY <2>3, <2>4 DEF Calls, CallsOf, Below
  <2> QED
    BY <2>2, <2>4, <2>5 DEF LogoutFirst
<1> QED
  BY <1>1, <1>2, <1>3, <1>4, <1>5, CallsMove

LEMMA AbsentStill ==
    ASSUME ListenerDisconnects = FALSE, IOffline, [Next]_vars, NEW p \in Players
    PROVE  AbsentHeld(p)'
<1>1. IDuels /\ TypeOK /\ ICalls /\ IFlows /\ IStarts /\ AbsentHeld(p)
  BY Types DEF IOffline
<1> SUFFICES ASSUME p \notin online'
             PROVE  /\ flows'[p] # 0 => \E c \in Calls' : c.op = "logout" /\ c.player = p
                    /\ playerToDuel'[p] # 0 => \E c \in Calls' : c.op = "leave" /\ c.player = p
                    /\ p \notin startingPlayers'
  BY DEF AbsentHeld
<1>2. CASE p \in online
  <2>1. DropStep
    BY <1>2, OnlineMoves
  <2>2. ~ListenerDisconnectsOwner
    BY DEF ListenerDisconnectsOwner
  <2>3. PICK q \in Players :
          /\ q \in online /\ online' = online \ {q} /\ Waiting
          /\ Calls' = {[op |-> "logout", player |-> q], [op |-> "leave", player |-> q]} \cup Calls
    BY <1>1, <2>1, <2>2, DropMoves
  <2>4. p = q /\ startingPlayers = {} /\ UNCHANGED startingPlayers
    BY <1>1, <1>2, <2>1, <2>3, WaitingIdle DEF DropStep
  <2> DEFINE a == [op |-> "logout", player |-> q]
             b == [op |-> "leave", player |-> q]
  <2>5. a.op = "logout" /\ a.player = q /\ b.op = "leave" /\ b.player = q
    OBVIOUS
  <2>6. a \in Calls' /\ b \in Calls'
    BY <2>3
  <2> HIDE DEF a, b
  <2> QED
    BY <2>4, <2>5, <2>6
<1>3. CASE p \notin online
  <2>1. flows[p] # 0 => /\ stack # <<>> /\ Top.op = "logout" /\ Top.player = p /\ Top \in Calls
                        /\ \A d \in Calls : d.op \in {"logout", "leave"}
    <3>1. ASSUME flows[p] # 0
          PROVE  /\ stack # <<>> /\ Top.op = "logout" /\ Top.player = p /\ Top \in Calls
                 /\ \A d \in Calls : d.op \in {"logout", "leave"}
      <4>1. PICK c \in Calls : c.op = "logout" /\ c.player = p
        BY <1>1, <1>3, <3>1 DEF AbsentHeld
      <4>2. c = Top /\ \A d \in Below : d.op = "leave"
        BY <4>1 DEF IOffline, LogoutFirst
      <4>3. stack # <<>>
        BY <4>1, WaitingCalls DEF Waiting
      <4>4. Calls = {Top} \cup Below
        BY <1>1, <4>3, Pops
      <4> QED
        BY <4>1, <4>2, <4>3, <4>4
    <3> QED
      BY <3>1
  <2>2. flows'[p] # 0 => \E c \in Calls' : c.op = "logout" /\ c.player = p
    <3> SUFFICES ASSUME flows'[p] # 0 PROVE \E c \in Calls' : c.op = "logout" /\ c.player = p
      OBVIOUS
    <3>1. CASE flows'[p] \in {0, flows[p]}
      <4>1. /\ stack # <<>> /\ Top.op = "logout" /\ Top.player = p /\ Top \in Calls
            /\ \A d \in Calls : d.op \in {"logout", "leave"}
        BY <2>1, <3>1
      <4>2. CASE Top \in Calls'
        BY <4>1, <4>2
      <4>3. CASE Top \notin Calls'
        <5>1. Logout
          BY <1>1, <4>1, <4>3, OnlyTopEnds, ServiceRuns
        <5>2. flows[p] \in FlowIds /\ flows[p] # 0
          BY <1>1, <3>1 DEF TypeOK
        <5>3. flows[p] \in LiveFlows
          BY <1>1, <5>2, HeldPair
        <5>4. flow[flows[p]].mode # "STARTING"
          BY <1>1, <4>1, <5>3 DEF IStarts, StartsHold
        <5>5. FinishMakes(flows[p], "OFFLINE", {})
          BY <1>1, <4>1, <5>1, <5>2, <5>4, LogoutCalls
        <5>6. \E rest : Finish(flows[p], "OFFLINE", rest)
          BY <5>5 DEF FinishMakes
        <5>7. flows'[p] = 0
          BY <1>1, <5>2, <5>6, LiveFinish
        <5> QED
          BY <5>7
      <4> QED
        BY <4>2, <4>3
    <3>2. CASE flows'[p] \notin {0, flows[p]}
      <4>1. stack # <<>> /\ Top.op = "inviteSelected" /\ FlowProposed
        BY <1>1, <3>2, NewFlows
      <4>2. p \in {Top.actor, Top.target}
        BY <1>1, <3>2, <4>1 DEF FlowProposed, TypeOK
      <4>3. Top \in Calls
        BY <1>1, <4>1, Pops
      <4>4. {Top.actor, Top.target} \subseteq online
        BY <4>1, <4>3 DEF IOffline, PresentAsked
      <4> QED
        BY <1>3, <4>2, <4>4
    <3> QED
      BY <3>1, <3>2
  <2>3. playerToDuel'[p] # 0 => \E c \in Calls' : c.op = "leave" /\ c.player = p
    <3> SUFFICES ASSUME playerToDuel'[p] # 0
                 PROVE  \E c \in Calls' : c.op = "leave" /\ c.player = p
      OBVIOUS
    <3>1. CASE playerToDuel[p] = 0
      <4>1. StartInstalls
        BY <1>1, <3>1, OnlyStartsInstall
      <4>2. stack # <<>> /\ Top.op = "start"
        BY <4>1 DEF StartInstalls, Running
      <4>3. p \in {Top.seats[0], Top.seats[1]}
        BY <1>1, <3>1, <4>1 DEF StartInstalls
      <4>4. flows[p] # 0 \/ p \in startingPlayers
        BY <1>1, <4>2, <4>3, SeatHeld
      <4> QED
        BY <1>1, <1>3, <2>1, <4>2, <4>4 DEF AbsentHeld
    <3>2. CASE playerToDuel[p] # 0
      <4>1. PICK c \in Calls : c.op = "leave" /\ c.player = p
        BY <1>1, <1>3, <3>2 DEF AbsentHeld
      <4>2. CASE c \in Calls'
        BY <4>1, <4>2
      <4>3. CASE c \notin Calls'
        <5>1. c = Top /\ Leave
          BY <1>1, <4>1, <4>3, OnlyTopEnds, HostRuns
        <5>2. /\ p \in Humans(playerToDuel[p])
              /\ playerToDuel[p] \in DuelIds
              /\ playerToDuel[p] \in activeDuels
          BY <1>1, <3>2 DEF IDuels, DuelsPaired, TypeOK
        <5>3. EndDuel(playerToDuel[p])
          BY <4>1, <5>1, <5>2 DEF Leave, FinishDuel
        <5>4. playerToDuel'[p] = 0
          BY <5>2, <5>3 DEF EndDuel
        <5> QED
          BY <5>4
      <4> QED
        BY <4>2, <4>3
    <3> QED
      BY <3>1, <3>2
  <2>4. p \notin startingPlayers'
    <3>1. ASSUME p \in startingPlayers' PROVE FALSE
      <4>1. SoloGuard /\ p = Top.player
        BY <1>1, <1>3, <3>1, GuardTaken DEF AbsentHeld
      <4>2. stack # <<>> /\ Top.op = "soloGuard" /\ Top \in Calls
        BY <1>1, <4>1, Pops DEF SoloGuard, Running
      <4> QED
        BY <1>3, <4>1, <4>2 DEF IOffline, PresentAsked
    <3> QED
      BY <3>1
  <2> QED
    BY <2>2, <2>3, <2>4
<1> QED
  BY <1>2, <1>3

LEMMA NextKeepsOffline ==
    ASSUME ListenerDisconnects = FALSE, IOffline, [Next]_vars PROVE IOffline'
<1>1. IDuels'
  BY NextKeepsDuels DEF IOffline
<1>2. \A p \in Players : AbsentHeld(p)'
  BY AbsentStill
<1>3. \A c \in Calls' : LogoutFirst(c)' /\ PresentAsked(c)'
  <2> SUFFICES ASSUME NEW c \in Calls' PROVE LogoutFirst(c)' /\ PresentAsked(c)'
    OBVIOUS
  <2>1. c.op # "logout" => LogoutFirst(c)'
    BY DEF LogoutFirst
  <2> QED
    BY <2>1, LogoutFirstStill, PresentAskedStill
<1> QED
  BY <1>1, <1>2, <1>3 DEF IOffline

LEMMA InitOffline == ASSUME Init PROVE IOffline
<1>1. IDuels
  BY InitDuels
<1>2. Calls = {}
  BY WaitingCalls DEF Init, Waiting
<1> QED
  BY <1>1, <1>2 DEF IOffline, AbsentHeld, Init

\* A player who disconnects leaves no lock behind, neither an entry of the
\* flows, which would hold the opponent too, nor a duel: logout() and leave()
\* run before the server waits again, and no call in between takes a lock for
\* a player who is gone.
THEOREM AbsentAreReleased ==
    ASSUME ListenerDisconnects = FALSE PROVE Spec => []OfflineReleased
<1>1. Init => IOffline
  BY InitOffline
<1>2. IOffline /\ [Next]_vars => IOffline'
  BY NextKeepsOffline
<1>3. IOffline => OfflineReleased
  BY WaitingCalls DEF IOffline, AbsentHeld, OfflineReleased
<1> QED
  BY <1>1, <1>2, <1>3, PTL DEF Spec

-----------------------------------------------------------------------------
(* The duel screens.  When a start fails the screen it has opened is cleared *)
(* by the notification of the failure, so until that comes the screen of a   *)
(* player who is no longer seated may still be live.                         *)

Ends == {"finishStart", "soloFinally"}
Starters(c) == IF c.op = "finishStart" THEN Pair(c.flow) ELSE {c.player}

\* A call that reports the failure of the start to the player.
Failing(c, p) ==
    \/ c.op \in {"changed", "publish"} /\ c.player = p /\ c.result = "START_FAILED"
    \/ c.op = "startFinished" /\ c.player = p /\ ~c.success

Alone(c) == \A d \in Calls : d = c \/ d.op = "reply"

Clearing(p) ==
    /\ playerToDuel[p] = 0
    /\ \/ \E c \in Calls : Failing(c, p)
       \/ ~started /\ \E c \in Calls : c.op \in Ends /\ p \in Starters(c) /\ Alone(c)

ScreenFollows(p) ==
    p \in online => client[p].duel = playerToDuel[p] \/ Clearing(p)

\* The players of a start are seated by it or by nothing, and whoever hears of
\* a failure is seated nowhere.
SeatedByStart(c) ==
    /\ \A d \in Calls : d.op = "setup" => \A p \in Starters(c) : playerToDuel[p] = d.duel
    /\ ~started /\ (\A d \in Calls : d.op # "setup") => \A p \in Starters(c) : playerToDuel[p] = 0

StartFree(c) ==
    /\ c.op \in Ends \cup {"soloSelected"} => SeatedByStart(c)
    /\ \A p \in Players : Failing(c, p) => playerToDuel[p] = 0

IScreens ==
    /\ IViews /\ IOffline
    /\ \A p \in Players : ScreenFollows(p)
    /\ \A c \in Calls : StartFree(c)
    /\ \A f \in LiveFlows : ~flow[f].loggedOutDuringStart

\* A start in progress is covered by nothing, and covers but its own end.
LEMMA StartsOnTop ==
    ASSUME IDuels, NEW d \in Calls, d.op \in {"start", "setup"}
    PROVE  stack # <<>> /\ Top = d
<1>1. stack # <<>>
  BY WaitingCalls DEF Waiting
<1> QED
  BY <1>1, Types, Pops

LEMMA StartsCover ==
    ASSUME IDuels, stack # <<>>, Top.op \in {"start", "setup"}
    PROVE  /\ \A c \in Below : c.op \in Ends \cup {"reply"}
           /\ \A p : ~Clearing(p)
<1>1. Calls = {Top} \cup Below /\ Top \in Calls
  BY Types, Pops
<1>2. \A c \in Below : c.op \in Ends \cup {"reply"}
  BY Types, Pops DEF MayCover, Ends
<1>3. ASSUME NEW p PROVE ~Clearing(p)
  <2>1. \A c \in Calls : ~Failing(c, p)
    BY <1>1, <1>2 DEF Failing, Ends
  <2>2. \A c \in Calls : c.op \in Ends => ~Alone(c)
    BY <1>1 DEF Alone, Ends
  <2> QED
    BY <2>1, <2>2 DEF Clearing
<1> QED
  BY <1>2, <1>3

LEMMA EndsAlone ==
    ASSUME IDuels, NEW b \in Calls, NEW d \in Calls, b.op \in Ends, d.op \in Ends
    PROVE  b = d
<1>1. b = d \/ MayCover(b, d) \/ MayCover(d, b)
  BY Types, OrderOf DEF ICalls, Calls
<1> QED
  BY <1>1 DEF MayCover, Ends, Rounds, Lasts

LEMMA StartersSame ==
    ASSUME IDuels, [Next]_vars, NEW c \in Calls, c \in Calls'
    PROVE  Starters(c)' = Starters(c)
<1>1. CASE c.op = "finishStart"
  <2>1. IStarts /\ IStarts'
    BY Types, NextKeepsStarts
  <2>2. c.flow \in LiveFlows
    BY <1>1, <2>1 DEF IStarts, StartsHold, StartOps
  <2>3. c.flow \in LiveFlows'
    BY <1>1, <2>1 DEF IStarts, StartsHold, StartOps
  <2>4. FlowStands(c.flow)
    BY <2>1, <2>2, <2>3, FlowsStand
  <2> QED
    BY <1>1, <2>4 DEF FlowStands, Starters, Pair
<1>2. CASE c.op # "finishStart"
  BY <1>2 DEF Starters
<1> QED
  BY <1>1, <1>2

LEMMA StartersPlayers ==
    ASSUME IDuels, NEW c \in Calls, c.op \in Ends \cup {"soloSelected"}
    PROVE  Starters(c) \subseteq Players
<1>1. c \in Frame
  BY Types, CallsAreFrames
<1>2. CASE c.op = "finishStart"
  <2>1. c.flow \in LiveFlows
    BY <1>2, Types DEF IStarts, StartsHold, StartOps
  <2> QED
    BY <1>2, <2>1, Types, HeldByFlow DEF Starters
<1>3. CASE c.op # "finishStart"
  <2>1. c \in PlayerFrame
    BY <1>1, <1>3, KindOf DEF Ends
  <2> QED
    BY <1>3, <2>1 DEF PlayerFrame, Starters
<1> QED
  BY <1>2, <1>3

\* The seats of a start are those of the players it was asked for.
LEMMA StartersSeats ==
    ASSUME IDuels, stack # <<>>, Top.op = "start", NEW b \in Calls, b.op \in Ends,
           NEW p \in Starters(b)
    PROVE  p \in Players /\ \E seat \in {0, 1} : Top.seats[seat] = p /\ p # None
<1>1. Top \in Calls /\ Follows(Top, b)
  <2>1. Top \in Calls
    BY Types, Pops
  <2> QED
    BY <2>1 DEF IDuels, StartsFollow
<1>2. p \in Players
  BY StartersPlayers
<1>3. p # None
  BY <1>2, NoneAssumption
<1>4. CASE b.op = "finishStart"
  BY <1>1, <1>2, <1>3, <1>4 DEF Follows, Starters
<1>5. CASE b.op = "soloFinally"
  BY <1>1, <1>2, <1>3, <1>5 DEF Follows, Starters, Seats
<1> QED
  BY <1>4, <1>5 DEF Ends

\* Nobody but the players of the start is in the duel it sets up.
LEMMA SeatedAreStarters ==
    ASSUME IScreens, stack # <<>>, Top.op = "setup", NEW p \in Players,
           playerToDuel[p] = Top.duel
    PROVE  \E b \in Below : b.op \in Ends /\ p \in Starters(b)
<1>1. IDuels /\ TypeOK /\ Top \in Calls /\ Calls = {Top} \cup Below /\ Top \in Frame
  BY Types, Pops DEF IScreens, IOffline
<1>2. PICK b \in Calls : b.op \in Ends
  BY <1>1 DEF IDuels, StartsFollow, Ends
<1>3. b \in Below
  BY <1>1, <1>2 DEF Ends
<1>4. Top.duel \in DuelIds /\ Top.duel # 0
  <2>1. Top \in SetupFrame(DuelIds)
    BY <1>1, KindOfTop
  <2>2. Top.duel \in DuelIds
    BY <2>1 DEF SetupFrame
  <2>3. Len(duelSeats) \in Nat
    BY <1>1, LenProperties DEF TypeOK
  <2> QED
    BY <2>2, <2>3 DEF DuelIds
<1>5. \A q \in Starters(b) : playerToDuel[q] = Top.duel
  BY <1>1, <1>2 DEF IScreens, StartFree, SeatedByStart
<1>6. p \in Humans(Top.duel)
  BY <1>1, <1>4 DEF IDuels, DuelsPaired
<1>7. CASE b.op = "finishStart"
  <2>1. b.flow \in LiveFlows
    BY <1>1, <1>7, Types DEF IStarts, StartsHold, StartOps
  <2>2. flow[b.flow].challenger \in Pair(b.flow)
    BY DEF Pair
  <2>3. Humans(Top.duel) = Pair(b.flow)
    BY <1>1, <1>4, <1>5, <1>7, <2>1, <2>2 DEF IDuels, DuelsApart, Starters
  <2> QED
    BY <1>2, <1>3, <1>6, <1>7, <2>3 DEF Starters
<1>8. CASE b.op = "soloFinally"
  <2>1. b.player \in startingPlayers
    BY <1>1, <1>8 DEF IDuels, SoloHeld, SoloOps
  <2>2. Humans(Top.duel) = {b.player}
    BY <1>1, <1>4, <1>5, <1>8, <2>1 DEF IDuels, DuelsApart, Starters
  <2> QED
    BY <1>2, <1>3, <1>6, <1>8, <2>2 DEF Starters
<1> QED
  BY <1>2, <1>7, <1>8 DEF Ends

\* The end of a duel clears the screens of its players with their seats.
LEMMA FinishScreens ==
    ASSUME IDuels, NEW id, NEW rest, FinishDuel(id, rest), NEW p \in Players, p \in online
    PROVE  \/ client'[p].duel = playerToDuel'[p]
           \/ client'[p].duel = client[p].duel /\ playerToDuel'[p] = playerToDuel[p]
<1>1. TypeOK /\ id \in activeDuels /\ Show(Humans(id), 0) /\ EndDuel(id)
  BY Types DEF FinishDuel
<1>2. client'[p].duel = IF p \in Humans(id) \cap online THEN 0 ELSE client[p].duel
  BY <1>1, ShownScreens
<1>3. p \in Humans(id) => playerToDuel[p] = id
  BY <1>1 DEF IDuels, DuelsPaired
<1>4. playerToDuel'[p] = IF p \in Humans(id) THEN 0 ELSE playerToDuel[p]
  BY <1>1, <1>3 DEF EndDuel
<1> QED
  BY <1>2, <1>4

LEMMA ScreensKept ==
    ASSUME ThreadStep, stack # <<>>, Top.op \notin {"start", "setup", "leave", "publish", "reply"}
    PROVE  UNCHANGED <<client, playerToDuel>>
<1>1. ~DuelStep
  BY DEF DuelStep, StartThrows, StartInstalls, SetupRuns, SetupCompletes, SetupThrows, Leave,
     ResponseEndsDuel, Forfeit, Running, Waiting
<1>2. NotifyStep => UNCHANGED <<client, playerToDuel>>
  BY DEF NotifyStep, Notify, Publish, Reply, Running, hostVars
<1> QED
  BY <1>1, <1>2 DEF ThreadStep, ServiceStep, ServiceResumes, SelectionStep, CheckStep, SoloStep,
     hostVars

LEMMA StartedKept ==
    ASSUME ThreadStep, stack # <<>>, Top.op \notin {"start", "setup", "finishStart", "soloFinally"}
    PROVE  UNCHANGED started
<1>1. DuelStep => UNCHANGED started
  BY DEF DuelStep, StartThrows, StartInstalls, SetupRuns, SetupCompletes, SetupThrows, Running
<1>2. SoloStep => UNCHANGED started
  BY DEF SoloStep, SoloFinally, Running
<1>3. ServiceResumes => UNCHANGED started
  BY DEF ServiceResumes, FinishStart, Running
<1> QED
  BY <1>1, <1>2, <1>3 DEF ThreadStep, ServiceStep, NotifyStep, SelectionStep, CheckStep, returns

\* A failure is handed on until the player's client is told.
LEMMA FailingStays ==
    ASSUME ListenerDisconnects = FALSE, IScreens, [Next]_vars, NEW p \in Players, p \in online,
           NEW c \in Calls, Failing(c, p), ~(c = Top /\ ThreadStep /\ c.op = "publish")
    PROVE  \E d \in Calls' : Failing(d, p)
<1>1. IDuels /\ TypeOK /\ ICalls
  BY Types DEF IScreens, IOffline
<1>2. CASE c \in Calls'
  BY <1>2
<1>3. CASE c \notin Calls'
  <2>1. stack # <<>> /\ c = Top /\ ThreadStep
    BY <1>1, <1>3, OnlyTopEnds
  <2>2. CASE Top.op = "changed"
    <3>1. Notify /\ Top \in NoticeFrame
      BY <1>1, <2>1, <2>2, HostRuns, Pops, KindOfTop
    <3> DEFINE d == [Top EXCEPT !.op = "publish"]
    <3>2. Top.player = p /\ Top.result = "START_FAILED"
      BY <2>1, <2>2 DEF Failing
    <3>3. d \in Calls'
      BY <1>1, <3>1, <3>2, NotifyCalls DEF Makes, Calls
    <3>4. d.op = "publish" /\ d.player = p /\ d.result = "START_FAILED"
      BY <3>1, <3>2 DEF NoticeFrame
    <3> HIDE DEF d
    <3> QED
      BY <3>3, <3>4 DEF Failing
  <2>3. CASE Top.op = "startFinished"
    <3>1. StartFinished
      BY <2>1, <2>3, ServiceRuns
    <3>2. Top.player = p /\ ~Top.success
      BY <2>1, <2>3 DEF Failing
    <3> DEFINE d == ChangedCall(p, "START_FAILED")
    <3>3. d \in Calls'
      BY <1>1, <3>1, <3>2, OutcomeCalls DEF Makes, Calls
    <3>4. d.op = "changed" /\ d.player = p /\ d.result = "START_FAILED"
      BY DEF ChangedCall
    <3> HIDE DEF d
    <3> QED
      BY <3>3, <3>4 DEF Failing
  <2> QED
    BY <2>1, <2>2, <2>3 DEF Failing
<1> QED
  BY <1>2, <1>3

\* The end of a start that has failed reports the failure.
LEMMA EndFails ==
    ASSUME ListenerDisconnects = FALSE, IScreens, [Next]_vars, NEW p \in Players,
           NEW c \in Calls, c.op \in Ends, p \in Starters(c), ~started, c = Top, ThreadStep
    PROVE  \E d \in Calls' : Failing(d, p)
<1>1. IDuels /\ TypeOK /\ ICalls
  BY Types DEF IScreens, IOffline
<1>2. stack # <<>>
  BY WaitingCalls DEF Waiting
<1>3. CASE c.op = "finishStart"
  <2>1. FinishStart
    BY <1>2, <1>3, ServiceRuns
  <2>2. c.flow \in LiveFlows
    BY <1>1, <1>3, Types DEF IStarts, StartsHold, StartOps
  <2>3. StartResult(Top.flow) = "START_FAILED"
    BY <2>2 DEF IScreens, StartResult
  <2>4. FinishMakes(Top.flow, "START_FAILED", {})
    BY <1>1, <2>1, <2>3, FinishStartCalls
  <2> DEFINE d == ChangedCall(p, "START_FAILED")
  <2>5. p \in {flow[Top.flow].challenger, flow[Top.flow].accepter}
    BY <1>3 DEF Starters, Pair
  <2>6. d \in Calls'
    BY <2>4, <2>5 DEF FinishMakes, Makes, Notices, Calls
  <2>7. d.op = "changed" /\ d.player = p /\ d.result = "START_FAILED"
    BY DEF ChangedCall
  <2> HIDE DEF d
  <2> QED
    BY <2>6, <2>7 DEF Failing
<1>4. CASE c.op = "soloFinally"
  <2>1. SoloFinally
    BY <1>2, <1>4, HostRuns
  <2> DEFINE d == [op |-> "startFinished", player |-> Top.player, success |-> started]
  <2>2. d \in Calls'
    BY <1>1, <2>1, SoloFinallyCalls DEF Makes, Calls
  <2>3. Top.player = p
    BY <1>4 DEF Starters
  <2>4. d.op = "startFinished" /\ d.player = p /\ ~d.success
    BY <2>3
  <2> HIDE DEF d
  <2> QED
    BY <2>2, <2>4 DEF Failing
<1> QED
  BY <1>3, <1>4 DEF Ends

LEMMA ClearingStays ==
    ASSUME ListenerDisconnects = FALSE, IScreens, ThreadStep, stack # <<>>,
           NEW p \in Players, p \in online, Clearing(p), playerToDuel'[p] = 0,
           ~(Top.op = "publish" /\ Failing(Top, p))
    PROVE  Clearing(p)'
<1>1. IDuels /\ TypeOK /\ ICalls /\ [Next]_vars
  BY Types DEF IScreens, IOffline, Next
<1>2. ASSUME NEW c \in Calls, Failing(c, p) PROVE Clearing(p)'
  BY <1>1, <1>2, FailingStays DEF Clearing
<1>3. ASSUME NEW c \in Calls, c.op \in Ends, p \in Starters(c), Alone(c), ~started
      PROVE  Clearing(p)'
  <2>1. Calls = {Top} \cup Below /\ Top \in Calls /\ \A d \in Below : MayCover(Top, d)
    BY <1>1, Pops
  <2>2. c = Top
    <3>1. CASE Top.op = "reply"
      <4>1. Below = {}
        BY <2>1, <3>1 DEF MayCover, Lasts
      <4> QED
        BY <1>3, <2>1, <4>1
    <3>2. CASE Top.op # "reply"
      BY <1>3, <2>1, <3>2 DEF Alone
    <3> QED
      BY <3>1, <3>2
  <2>3. \E d \in Calls' : Failing(d, p)
    BY <1>1, <1>3, <2>2, EndFails
  <2> QED
    BY <2>3 DEF Clearing
<1> QED
  BY <1>2, <1>3 DEF Clearing

LEMMA WaitingScreens ==
    ASSUME ListenerDisconnects = FALSE, IScreens, [Next]_vars, Waiting,
           NEW p \in Players, p \in online, p \in online'
    PROVE  client'[p].duel = playerToDuel'[p]
<1>1. IDuels /\ TypeOK /\ Calls = {}
  BY Types, WaitingCalls DEF IScreens, IOffline
<1>2. client[p].duel = playerToDuel[p]
  BY <1>1 DEF IScreens, ScreenFollows, Clearing
<1>3. CASE UNCHANGED <<client, playerToDuel>>
  BY <1>2, <1>3
<1>4. CASE DuelStep
  <2>1. UNCHANGED <<client, playerToDuel>> \/ \E id : FinishDuel(id, <<>>)
    BY <1>4 DEF DuelStep, StartThrows, StartInstalls, SetupRuns, SetupCompletes, SetupThrows, Leave,
       ResponseEndsDuel, Forfeit, Running, Waiting
  <2> QED
    BY <1>1, <1>2, <1>3, <2>1, FinishScreens
<1>5. CASE NotifyStep
  BY <1>5 DEF NotifyStep, Notify, Publish, Reply, Running, Waiting
<1>6. CASE DropStep
  <2>1. PICK q \in Players : Disconnect(q)
    BY <1>6 DEF DropStep, ListenerDisconnectsOwner
  <2>2. p # q /\ client' = [client EXCEPT ![q] = Disconnected] /\ UNCHANGED playerToDuel
    BY <1>6, <2>1 DEF Disconnect, Drop, DropStep
  <2> QED
    BY <1>1, <1>2, <2>2 DEF TypeOK
<1>7. CASE Shutdown
  BY <1>7 DEF Shutdown
<1>8. CASE ServiceStep \/ ServiceResumes \/ SelectionStep \/ CheckStep \/ SoloStep \/ DeckStep
           \/ Request \/ ClockTicks \/ UNCHANGED vars
  BY <1>3, <1>8 DEF ServiceStep, ServiceResumes, SelectionStep, CheckStep, SoloStep, DeckStep,
     Request, ClockTicks, vars, hostVars
<1> QED
  BY <1>4, <1>5, <1>6, <1>7, <1>8 DEF Next, ThreadStep

\* A setup that throws takes the seats back, and leaves the screens to the end
\* of the start.
LEMMA ThrownScreens ==
    ASSUME ListenerDisconnects = FALSE, IScreens, ThreadStep, stack # <<>>, Top.op = "setup",
           SetupThrows, NEW p \in Players, p \in online
    PROVE  client'[p].duel = playerToDuel'[p] \/ Clearing(p)'
<1>1. IDuels /\ TypeOK /\ ICalls /\ [Next]_vars
  BY Types DEF IScreens, IOffline, Next
<1>2. UNCHANGED client /\ ~started' /\ EndDuel(Top.duel) /\ Return
  BY DEF SetupThrows
<1>3. client[p].duel = playerToDuel[p]
  BY <1>1, StartsCover DEF IScreens, ScreenFollows
<1>4. Calls' = Below /\ Calls = {Top} \cup Below /\ Top \in Calls
  <2>1. Makes({}, Below)
    BY <1>1, <1>2, ReturnCalls
  <2> QED
    BY <1>1, <2>1, Pops DEF Makes, Calls
<1>5. CASE playerToDuel[p] = Top.duel
  <2>1. PICK b \in Below : b.op \in Ends /\ p \in Starters(b)
    BY <1>5, SeatedAreStarters
  <2>2. p \in Starters(b)'
    BY <1>1, <1>4, <2>1, StartersSame
  <2>3. \A d \in Calls' : d = b \/ d.op = "reply"
    BY <1>1, <1>4, <2>1, StartsCover, EndsAlone
  <2>4. Alone(b)'
    BY <2>3 DEF Alone
  <2>5. playerToDuel'[p] = 0
    <3>1. playerToDuel[p] # 0
      <4>1. Top.duel \in DuelIds
        <5>1. Top \in SetupFrame(DuelIds)
          BY <1>1, Pops, KindOfTop
        <5> QED
          BY <5>1 DEF SetupFrame
      <4>2. Len(duelSeats) \in Nat
        BY <1>1, LenProperties DEF TypeOK
      <4> QED
        BY <1>5, <4>1, <4>2 DEF DuelIds
    <3>2. p \in Humans(Top.duel)
      BY <1>1, <1>5, <3>1 DEF IDuels, DuelsPaired
    <3> QED
      BY <1>2, <1>5, <3>2 DEF EndDuel
  <2> QED
    BY <1>2, <1>4, <2>1, <2>2, <2>4, <2>5 DEF Clearing
<1>6. CASE playerToDuel[p] # Top.duel
  BY <1>2, <1>3, <1>6 DEF EndDuel
<1> QED
  BY <1>5, <1>6

LEMMA ThreadScreens ==
    ASSUME ListenerDisconnects = FALSE, IScreens, ThreadStep, stack # <<>>,
           NEW p \in Players, p \in online
    PROVE  client'[p].duel = playerToDuel'[p] \/ Clearing(p)'
<1>1. IDuels /\ TypeOK /\ ICalls /\ [Next]_vars /\ ScreenFollows(p)
  BY Types DEF IScreens, IOffline, Next
<1>2. Calls = {Top} \cup Below /\ Top \in Calls
  BY <1>1, Pops
<1>3. ASSUME client'[p].duel = client[p].duel, playerToDuel'[p] = playerToDuel[p],
             ~(Top.op = "publish" /\ Failing(Top, p))
      PROVE  client'[p].duel = playerToDuel'[p] \/ Clearing(p)'
  <2>1. CASE client[p].duel = playerToDuel[p]
    BY <1>3, <2>1
  <2>2. CASE Clearing(p)
    <3>1. playerToDuel'[p] = 0
      BY <1>3, <2>2 DEF Clearing
    <3> QED
      BY <1>3, <2>2, <3>1, ClearingStays
  <2> QED
    BY <1>1, <2>1, <2>2 DEF ScreenFollows
<1>4. CASE Top.op = "start"
  <2>1. (StartThrows /\ UNCHANGED <<playerToDuel, client>>) \/ StartInstalls
    BY <1>4, HostRuns
  <2>2. CASE StartThrows /\ UNCHANGED <<playerToDuel, client>>
    BY <1>3, <1>4, <2>2
  <2>3. CASE StartInstalls
    <3> DEFINE id == Len(duelSeats) + 1
               owners == {Top.seats[0], Top.seats[1]} \ {None}
    <3>1. /\ Show(owners, id)
          /\ playerToDuel' = [q \in Players |-> IF q \in owners THEN id ELSE playerToDuel[q]]
      BY <2>3 DEF StartInstalls
    <3> HIDE DEF id, owners
    <3>2. client'[p].duel = IF p \in owners \cap online THEN id ELSE client[p].duel
      BY <1>1, <3>1, ShownScreens
    <3> QED
      BY <1>3, <1>4, <3>1, <3>2
  <2> QED
    BY <2>1, <2>2, <2>3
<1>5. CASE Top.op = "setup"
  <2>1. SetupRuns \/ SetupCompletes \/ SetupThrows
    BY <1>5, HostRuns
  <2>2. CASE SetupRuns
    BY <1>3, <1>5, <2>2 DEF SetupRuns
  <2>3. CASE SetupCompletes
    BY <1>1, <1>3, <1>5, <2>3, FinishScreens DEF SetupCompletes
  <2> QED
    BY <1>5, <2>1, <2>2, <2>3, ThrownScreens
<1>6. CASE Top.op = "leave"
  <2>1. UNCHANGED <<client, playerToDuel>> \/ \E id : FinishDuel(id, Rest)
    BY <1>6, HostRuns DEF Leave
  <2> QED
    BY <1>1, <1>3, <1>6, <2>1, FinishScreens
<1>7. CASE Top.op \in {"publish", "reply"}
  <2>1. NotifyStep /\ (Publish \/ Reply) /\ UNCHANGED playerToDuel /\ Top.player \in Players
    <3>1. Top \in NoticeFrame \cup PlayerFrame
      BY <1>1, <1>7, Pops, KindOfTop
    <3> QED
      BY <1>7, <3>1, HostRuns DEF NotifyStep, hostVars, NoticeFrame, PlayerFrame
  <2>2. \E prompt : Receive(Top.player, View(Top.player),
                            IF Publish THEN Top.result ELSE "OK", prompt)
    BY <2>1 DEF Publish, Reply
  <2> PICK result, prompt : /\ result = IF Publish THEN Top.result ELSE "OK"
                            /\ Receive(Top.player, View(Top.player), result, prompt)
    BY <2>2
  <2>3. CASE Top.player = p
    <3>1. ViewFollows(p)
      BY DEF IScreens, IViews
    <3>2. client'[p].duel = IF result = "START_FAILED" THEN 0 ELSE client[p].duel
      BY <1>1, <2>3, <3>1, ReceivedView DEF ViewFollows
    <3>3. CASE result = "START_FAILED"
      <4>1. Failing(Top, p)
        BY <2>3, <3>3 DEF Failing, Publish, Running
      <4>2. playerToDuel[p] = 0
        BY <1>2, <4>1 DEF IScreens, StartFree
      <4> QED
        BY <2>1, <3>2, <3>3, <4>2
    <3>4. CASE result # "START_FAILED"
      <4>1. ~(Top.op = "publish" /\ Failing(Top, p))
        <5>1. Top.op = "publish" => Publish
          BY HostRuns
        <5> QED
          BY <3>4, <5>1 DEF Failing
      <4> QED
        BY <1>3, <2>1, <3>2, <3>4, <4>1
    <3> QED
      BY <3>3, <3>4
  <2>4. CASE Top.player # p
    <3>1. client'[p] = client[p]
      BY <1>1, <2>4 DEF Receive, TypeOK
    <3>2. ~Failing(Top, p)
      BY <1>7, <2>4 DEF Failing
    <3> QED
      BY <1>3, <2>1, <3>1, <3>2
  <2> QED
    BY <2>3, <2>4
<1>8. CASE Top.op \notin {"start", "setup", "leave", "publish", "reply"}
  BY <1>3, <1>8, ScreensKept
<1> QED
  BY <1>4, <1>5, <1>6, <1>7, <1>8

LEMMA ScreenFollowsStill ==
    ASSUME ListenerDisconnects = FALSE, IScreens, [Next]_vars, NEW p \in Players
    PROVE  ScreenFollows(p)'
<1>1. IDuels /\ TypeOK
  BY Types DEF IScreens, IOffline
<1> SUFFICES ASSUME p \in online' PROVE client'[p].duel = playerToDuel'[p] \/ Clearing(p)'
  BY DEF ScreenFollows
<1>2. CASE p \notin online
  <2>1. Waiting /\ client'[p] = client[p]
    BY <1>2, ScreensMove DEF IScreens
  <2>2. ViewFollows(p) /\ AbsentHeld(p) /\ Calls = {}
    BY <2>1, WaitingCalls DEF IScreens, IViews, IOffline
  <2>3. client[p].duel = 0
    BY <1>2, <2>2 DEF ViewFollows, Disconnected
  <2>4. playerToDuel[p] = 0
    BY <1>2, <2>2 DEF AbsentHeld
  <2>5. ~StartInstalls
    BY <2>1 DEF StartInstalls, Running, Waiting
  <2>6. playerToDuel'[p] = 0
    BY <1>1, <2>4, <2>5, OnlyStartsInstall
  <2> QED
    BY <2>1, <2>3, <2>6
<1>3. CASE p \in online /\ Waiting
  BY <1>3, WaitingScreens
<1>4. CASE p \in online /\ ~Waiting
  <2>1. stack # <<>>
    BY <1>4 DEF Waiting
  <2>2. ThreadStep \/ (stack' = stack /\ (ClockTicks \/ UNCHANGED vars))
    BY <1>1, <2>1, StackMoves
  <2>3. CASE ThreadStep
    BY <1>4, <2>1, <2>3, ThreadScreens
  <2>4. CASE ClockTicks \/ UNCHANGED vars
    <3>1. UNCHANGED <<stack, client, playerToDuel, started, flow>>
      BY <2>4 DEF ClockTicks, vars, prepVars, hostVars, returns
    <3>2. Clearing(p) => Clearing(p)'
      BY <3>1 DEF Clearing, Calls, Starters, Pair, Alone
    <3>3. ScreenFollows(p)
      BY DEF IScreens
    <3> QED
      BY <1>4, <3>1, <3>2, <3>3 DEF ScreenFollows
  <2> QED
    BY <2>2, <2>3, <2>4
<1> QED
  BY <1>2, <1>3, <1>4

-----------------------------------------------------------------------------
(* The players of a start *)

\* A setup is made by the start it continues, and by nothing else.
LEMMA SetupsNew ==
    ASSUME IDuels, [Next]_vars, NEW d \in Calls', d.op = "setup", d \notin Calls
    PROVE  stack # <<>> /\ StartInstalls
<1>1. CASE Ran
  <2>1. PICK new : Makes(new, Below) /\ \A c \in new : MadeBy(c)
    BY <1>1 DEF Ran
  <2>2. stack # <<>> /\ MadeBy(d)
    BY <1>1, <2>1, Types, Pops DEF Makes, Calls, Ran
  <2>3. Top.op = "start"
    BY <2>2 DEF MadeBy
  <2>4. ThreadStep
    <3>1. stack' # stack
      BY DEF Calls
    <3> QED
      BY <2>2, <2>3, <3>1, RunMoves DEF ClockTicks, vars
  <2>5. StartThrows \/ StartInstalls
    BY <2>2, <2>3, <2>4, HostRuns
  <2>6. ASSUME StartThrows PROVE FALSE
    <3>1. Makes({}, Below)
      BY <2>2, <2>6, Types, ReturnCalls DEF StartThrows
    <3> QED
      BY <2>2, <3>1, Types, Pops DEF Makes, Calls
  <2> QED
    BY <2>2, <2>5, <2>6
<1>2. CASE Served
  BY <1>2 DEF Served, PlainOps, Commands
<1>3. CASE DropStep
  BY <1>3, DropMoves
<1>4. stack' # stack
  BY DEF Calls
<1> QED
  BY <1>1, <1>2, <1>3, <1>4, CallsMove

\* A call of a start is made for players who are free of duels.
LEMMA SeatedNew ==
    ASSUME IScreens, [Next]_vars, NEW c \in Calls', c \notin Calls,
           c.op \in Ends \cup {"soloSelected"}
    PROVE  SeatedByStart(c)'
<1>1. IDuels /\ TypeOK /\ ICalls
  BY Types DEF IScreens, IOffline
<1>2. Ran
  <2>1. ~Served /\ ~DropStep
    BY <1>1, DropMoves DEF Served, PlainOps, Commands, Ends
  <2>2. stack' # stack
    BY DEF Calls
  <2> QED
    BY <1>1, <2>1, <2>2, CallsMove
<1>3. PICK new : Makes(new, Below) /\ \A d \in new : MadeBy(d)
  BY <1>2 DEF Ran
<1>4. stack # <<>> /\ MadeBy(c) /\ Top \in Calls /\ Calls = {Top} \cup Below
  BY <1>1, <1>2, <1>3, Pops DEF Makes, Calls, Ran
<1>5. Top.op \in {"first", "soloGuard", "soloSelected"}
  BY <1>4 DEF MadeBy, Ends
<1>6. ThreadStep
  <2>1. stack' # stack
    BY DEF Calls
  <2> QED
    BY <1>1, <1>4, <1>5, <2>1, RunMoves DEF ClockTicks, vars
<1>7. UNCHANGED <<started, playerToDuel>>
  BY <1>4, <1>5, <1>6, StartedKept, ScreensKept
<1>8. \A d \in Calls : d.op # "setup"
  BY <1>1, <1>5, StartsOnTop
<1>9. \A d \in Calls' : d.op # "setup"
  <2> SUFFICES ASSUME NEW d \in Calls', d.op = "setup" PROVE FALSE
    OBVIOUS
  <2>1. StartInstalls
    BY <1>1, <1>8, SetupsNew
  <2> QED
    BY <1>5, <2>1 DEF StartInstalls, Running
<1>10. ASSUME ~started, NEW p \in Starters(c)' PROVE playerToDuel[p] = 0
  <2>1. CASE c.op = "finishStart"
    <3>1. c.flow = Top.id /\ MayChoose(Top) /\ Availability(c.flow) = "OK" /\ Top.op = "first"
      BY <1>4, <2>1 DEF MadeBy
    <3>2. Top \in FirstFrame(FlowIds)
      BY <1>1, <1>4, <3>1, Pops, KindOfTop
    <3>3. c.flow \in FlowIds /\ Top.actor \in Players /\ flows[Top.actor] = c.flow
      BY <3>1, <3>2 DEF FirstFrame, MayChoose
    <3>4. c.flow \in LiveFlows
      BY <1>1, <3>3, Types, HeldPair
    <3>5. c.flow \in LiveFlows'
      BY <1>1, <2>1, Types, NextKeepsStarts DEF IStarts, StartsHold, StartOps
    <3>6. FlowStands(c.flow)
      BY <1>1, <3>4, <3>5, Types, FlowsStand
    <3>7. p \in Pair(c.flow)
      BY <1>10, <2>1, <3>6 DEF FlowStands, Starters, Pair
    <3> QED
      BY <3>1, <3>7 DEF Availability, IsDueling, Pair
  <2>2. CASE c.op = "soloSelected"
    <3>1. Top.op = "soloGuard" /\ p = Top.player
      BY <1>4, <1>10, <2>2 DEF MadeBy, Starters
    <3> QED
      BY <1>1, <1>4, <3>1 DEF IDuels, SelectionsFree, CallFree
  <2>3. CASE c.op = "soloFinally"
    <3>1. Top.op = "soloSelected" /\ p = Top.player
      BY <1>4, <1>10, <2>3 DEF MadeBy, Starters
    <3>2. SeatedByStart(Top)
      BY <1>4, <3>1 DEF IScreens, StartFree
    <3> QED
      BY <1>8, <1>10, <3>1, <3>2 DEF SeatedByStart, Starters
  <2> QED
    BY <2>1, <2>2, <2>3 DEF Ends
<1> QED
  BY <1>7, <1>9, <1>10 DEF SeatedByStart

LEMMA SeatedStill ==
    ASSUME ListenerDisconnects = FALSE, IScreens, [Next]_vars, NEW c \in Calls, c \in Calls',
           c.op \in Ends \cup {"soloSelected"}
    PROVE  SeatedByStart(c)'
<1>1. IDuels /\ TypeOK /\ ICalls
  BY Types DEF IScreens, IOffline
<1>2. Starters(c)' = Starters(c) /\ Starters(c) \subseteq Players
  BY <1>1, StartersSame, StartersPlayers
<1>3. SeatedByStart(c)
  BY DEF IScreens, StartFree
<1>4. stack # <<>>
  BY WaitingCalls DEF Waiting
<1>5. Calls = {Top} \cup Below /\ Top \in Calls /\ \A d \in Below : d.op \notin {"start", "setup"}
  BY <1>1, <1>4, Pops
<1>6. CASE stack' = stack /\ (ClockTicks \/ UNCHANGED vars)
  <2>1. UNCHANGED <<stack, started, playerToDuel>>
    BY <1>6 DEF ClockTicks, vars, hostVars, returns
  <2> QED
    BY <1>2, <1>3, <2>1 DEF SeatedByStart, Calls
<1>7. CASE ThreadStep /\ Ran
  <2>1. PICK new : Makes(new, Below) /\ \A d \in new : MadeBy(d)
    BY <1>7 DEF Ran
  <2>2. Calls' = new \cup Below
    BY <2>1 DEF Makes, Calls
  <2>3. CASE Top.op = "start"
    <3>1. c \in Below /\ c.op \in Ends
      BY <1>1, <1>4, <1>5, <2>3, StartsCover DEF Ends
    <3>2. \A p \in Starters(c) : p \in Players /\ \E seat \in {0, 1} : Top.seats[seat] = p /\ p # None
      BY <1>1, <1>4, <2>3, <3>1, StartersSeats
    <3>3. CASE StartThrows /\ UNCHANGED playerToDuel
      <4>1. Makes({}, Below)
        BY <1>1, <1>4, <3>3, ReturnCalls DEF StartThrows
      <4>2. \A d \in Calls' : d.op # "setup"
        BY <1>5, <4>1 DEF Makes, Calls
      <4>3. \A p \in Starters(c) : playerToDuel[p] = 0
        BY <1>1, <1>5, <2>3, <3>2 DEF IDuels, SelectionsFree, CallFree
      <4> QED
        BY <1>2, <3>3, <4>2, <4>3 DEF SeatedByStart
    <3>4. CASE StartInstalls
      <4> DEFINE id == Len(duelSeats) + 1
                 owners == {Top.seats[0], Top.seats[1]} \ {None}
                 a == [op |-> "setup", duel |-> id]
      <4>1. playerToDuel' = [p \in Players |-> IF p \in owners THEN id ELSE playerToDuel[p]]
        BY <3>4 DEF StartInstalls
      <4>2. Calls' = {a} \cup Below
        BY <1>1, <3>4, StartInstallsCalls DEF Makes, Calls
      <4>3. \A p \in Starters(c) : p \in Players /\ p \in owners
        BY <3>2
      <4>4. a.op = "setup" /\ a.duel = id
        OBVIOUS
      <4> HIDE DEF id, owners, a
      <4>5. \A p \in Starters(c) : playerToDuel'[p] = id
        BY <4>1, <4>3
      <4>6. \A d \in Calls' : d.op = "setup" => d.duel = id
        BY <1>5, <4>2, <4>4
      <4>7. a \in Calls' /\ a.op = "setup"
        BY <4>2, <4>4
      <4> QED
        BY <1>2, <4>5, <4>6, <4>7 DEF SeatedByStart
    <3> QED
      BY <1>4, <1>7, <2>3, <3>3, <3>4, HostRuns
  <2>4. ASSUME Top.op # "start" PROVE \A d \in Calls' : d.op # "setup"
    BY <1>5, <2>1, <2>2, <2>4 DEF MadeBy
  <2>5. CASE Top.op = "setup"
    <3>1. \A p \in Starters(c) : playerToDuel[p] = Top.duel
      BY <1>3, <1>5, <2>5 DEF SeatedByStart
    <3>2. (SetupRuns \/ SetupCompletes) => started'
      BY DEF SetupRuns, SetupCompletes
    <3>3. ASSUME SetupThrows, NEW p \in Starters(c) PROVE playerToDuel'[p] = 0
      <4>1. EndDuel(Top.duel) /\ playerToDuel[p] = Top.duel /\ p \in Players
        BY <1>2, <3>1, <3>3 DEF SetupThrows
      <4>2. playerToDuel[p] # 0 => p \in Humans(Top.duel)
        BY <1>1, <4>1 DEF IDuels, DuelsPaired
      <4> QED
        BY <4>1, <4>2 DEF EndDuel
    <3>4. SetupRuns \/ SetupCompletes \/ SetupThrows
      BY <1>4, <1>7, <2>5, HostRuns
    <3>5. \A d \in Calls' : d.op # "setup"
      BY <2>4, <2>5
    <3> QED
      BY <1>2, <3>2, <3>3, <3>4, <3>5 DEF SeatedByStart
  <2>6. CASE Top.op \in Ends
    <3>1. c \notin new
      BY <2>1, <2>6 DEF MadeBy, Ends
    <3>2. c \in Below
      BY <2>2, <3>1
    <3> QED
      BY <1>1, <1>4, <2>6, <3>2, Pops DEF MayCover, Ends, Rounds, Lasts
  <2>7. CASE Top.op \notin {"start", "setup"} \cup Ends
    <3>1. UNCHANGED started
      BY <1>4, <1>7, <2>7, StartedKept DEF Ends
    <3>2. \A d \in Calls : d.op # "setup"
      BY <1>5, <2>7
    <3>3. \A p \in Players : playerToDuel'[p] \in {0, playerToDuel[p]}
      <4>1. ~StartInstalls
        BY <2>7 DEF StartInstalls, Running
      <4> QED
        BY <1>1, <4>1, OnlyStartsInstall
    <3>4. \A d \in Calls' : d.op # "setup"
      BY <2>4, <2>7
    <3>5. ASSUME ~started, NEW p \in Starters(c) PROVE playerToDuel'[p] = 0
      BY <1>2, <1>3, <3>2, <3>3, <3>5 DEF SeatedByStart
    <3> QED
      BY <1>2, <3>1, <3>4, <3>5 DEF SeatedByStart
  <2> QED
    BY <2>3, <2>5, <2>6, <2>7
<1> QED
  BY <1>1, <1>4, <1>6, <1>7, StackMoves

\* Who is told of a failure has no seat.
LEMMA FailingFree ==
    ASSUME IScreens, [Next]_vars, NEW c \in Calls', NEW p \in Players, Failing(c, p)
    PROVE  playerToDuel'[p] = 0
<1>1. IDuels /\ TypeOK /\ ICalls
  BY Types DEF IScreens, IOffline
<1>2. CASE c \in Calls
  <2>1. ~StartInstalls
    <3>1. ASSUME stack # <<>>, Top.op = "start" PROVE FALSE
      <4>1. c = Top \/ c.op \in Ends \cup {"reply"}
        BY <1>1, <1>2, <3>1, StartsCover, Pops
      <4> QED
        BY <3>1, <4>1 DEF Failing, Ends
    <3> QED
      BY <3>1 DEF StartInstalls, Running
  <2>2. playerToDuel[p] = 0
    BY <1>2 DEF IScreens, StartFree
  <2> QED
    BY <1>1, <2>1, <2>2, OnlyStartsInstall
<1>3. CASE c \notin Calls
  <2>1. Ran
    <3>1. ~Served /\ ~DropStep
      BY <1>1, <1>3, DropMoves DEF Served, PlainOps, Commands, Failing
    <3>2. stack' # stack
      BY <1>3 DEF Calls
    <3> QED
      BY <1>1, <3>1, <3>2, CallsMove
  <2>2. PICK new : Makes(new, Below) /\ \A d \in new : MadeBy(d)
    BY <2>1 DEF Ran
  <2>3. stack # <<>> /\ MadeBy(c) /\ Top \in Calls /\ Calls = {Top} \cup Below
    BY <1>1, <1>3, <2>1, <2>2, Pops DEF Makes, Calls, Ran
  <2>4. \/ Failing(Top, p)
        \/ Top.op \in Ends /\ p \in Starters(Top) /\ ~started
    BY <2>3 DEF MadeBy, Failing, Ends, Starters
  <2>5. ~StartInstalls
    BY <2>4 DEF Failing, Ends, StartInstalls, Running
  <2>6. playerToDuel[p] = 0
    <3>1. CASE Failing(Top, p)
      BY <2>3, <3>1 DEF IScreens, StartFree
    <3>2. CASE Top.op \in Ends /\ p \in Starters(Top) /\ ~started
      <4>1. \A d \in Calls : d.op # "setup"
        BY <1>1, <3>2, StartsOnTop DEF Ends
      <4>2. SeatedByStart(Top)
        BY <2>3, <3>2 DEF IScreens, StartFree
      <4> QED
        BY <3>2, <4>1, <4>2 DEF SeatedByStart
    <3> QED
      BY <2>4, <3>1, <3>2
  <2> QED
    BY <1>1, <2>5, <2>6, OnlyStartsInstall
<1> QED
  BY <1>2, <1>3

LEMMA StartFreeStill ==
    ASSUME ListenerDisconnects = FALSE, IScreens, [Next]_vars, NEW c \in Calls'
    PROVE  StartFree(c)'
<1>1. c.op \in Ends \cup {"soloSelected"} => SeatedByStart(c)'
  BY SeatedNew, SeatedStill
<1>2. \A p \in Players : Failing(c, p)' => playerToDuel'[p] = 0
  BY FailingFree DEF Failing
<1> QED
  BY <1>1, <1>2 DEF StartFree

-----------------------------------------------------------------------------
(* No start is given up because a player left *)

LEMMA PlayedStays ==
    ASSUME NEW call, flow[call.id] \in Flow
    PROVE  Played(call).loggedOutDuringStart = flow[call.id].loggedOutDuringStart
BY DEF Played, Submit, Settle, NewRound, Flow

LEMMA AcceptedStays ==
    ASSUME NEW call, flow[call.id] \in Flow
    PROVE  Accepted(call).loggedOutDuringStart = flow[call.id].loggedOutDuringStart
BY DEF Accepted, NewRound, Flow

LEMMA LoggedOutStays ==
    ASSUME IOffline, [Next]_vars, NEW f \in LiveFlows, f \in LiveFlows'
    PROVE  flow'[f].loggedOutDuringStart = flow[f].loggedOutDuringStart
<1>1. IDuels /\ TypeOK /\ ICalls /\ IFlows /\ IStarts
  BY Types DEF IOffline
<1>2. f \in FlowIds /\ flow[f] \in Flow
  BY <1>1, FlowTyped DEF LiveFlows
<1> SUFFICES ASSUME flow'[f] # flow[f]
             PROVE  flow'[f].loggedOutDuringStart = flow[f].loggedOutDuringStart
  OBVIOUS
<1>3. stack # <<>>
  BY <1>1, HowFlowsChange
<1>4. Top \in Calls /\ Calls = {Top} \cup Below
  BY <1>1, <1>3, Pops
<1>5. CASE f = Top.id /\ (flow'[f] = Played(Top) \/ flow'[f] = Accepted(Top))
  BY <1>2, <1>5, PlayedStays, AcceptedStays
<1>6. CASE flow'[f] = [flow[f] EXCEPT !.mode = "STARTING"]
  BY <1>2, <1>6 DEF Flow
<1>7. CASE flow[f].mode = "STARTING"
  <2>1. PICK b \in Calls : b.op = "finishStart"
    BY <1>1, <1>7 DEF IStarts, StartsHold
  <2>2. Top.op # "logout"
    BY <1>4, <2>1 DEF IOffline, LogoutFirst
  <2>3. ~Shutdown
    BY <1>3 DEF Shutdown, Waiting
  <2>4. ASSUME NEW g \in FlowIds, NEW result, NEW rest, Finish(g, result, rest) PROVE FALSE
    BY <1>1, <1>2, <2>4, LiveFinish
  <2>5. ~FlowProposed
    <3>1. flow \in Seq(Flow)
      BY <1>1 DEF TypeOK
    <3> QED
      BY <1>2, <3>1 DEF FlowProposed, FlowIds
  <2>6. ~FlowAdvances
    <3>1. ASSUME NEW g \in FlowIds, NEW new, Rewrites(g, new) PROVE g = f
      <4>1. flow \in Seq(Flow)
        BY <1>1 DEF TypeOK
      <4> QED
        BY <1>2, <3>1, <4>1 DEF Rewrites, FlowIds
    <3>2. Top.op = "hand" => ~(Top.id = f /\ HandAwaited(Top))
      BY <1>7 DEF HandAwaited
    <3>3. Top.op = "acceptSelected" => Top.id # f
      BY <1>1, <1>4, <1>7 DEF IStarts, AcceptStands
    <3>4. Top.op = "first" => ~(Top.id = f /\ MayChoose(Top))
      BY <1>7 DEF MayChoose
    <3> QED
      BY <2>2, <3>1, <3>2, <3>3, <3>4 DEF FlowAdvances
  <2> QED
    BY <1>1, <2>3, <2>4, <2>5, <2>6, FlowsMove
<1> QED
  BY <1>1, <1>5, <1>6, <1>7, HowFlowsChange

LEMMA NoneLoggedOut ==
    ASSUME IScreens, [Next]_vars, NEW f \in LiveFlows' PROVE ~flow'[f].loggedOutDuringStart
<1>1. IStarts /\ IOffline
  BY Types DEF IScreens, IOffline
<1>2. CASE f \in LiveFlows
  BY <1>1, <1>2, LoggedOutStays DEF IScreens
<1>3. CASE f \notin LiveFlows
  <2>1. flow'[f] = NewFlow(Top.actor, Top.target, Top.now)
    BY <1>1, <1>3, NewFlows
  <2> QED
    BY <2>1 DEF NewFlow
<1> QED
  BY <1>2, <1>3

LEMMA NextKeepsScreens ==
    ASSUME ListenerDisconnects = FALSE, IScreens, [Next]_vars PROVE IScreens'
<1>1. IViews' /\ IOffline'
  BY NextKeepsViews, NextKeepsOffline DEF IScreens
<1>2. \A p \in Players : ScreenFollows(p)'
  BY ScreenFollowsStill
<1>3. \A c \in Calls' : StartFree(c)'
  BY StartFreeStill
<1>4. \A f \in LiveFlows' : ~flow'[f].loggedOutDuringStart
  BY NoneLoggedOut
<1> QED
  BY <1>1, <1>2, <1>3, <1>4 DEF IScreens

LEMMA InitScreens == ASSUME Init PROVE IScreens
<1>1. IViews /\ IOffline
  BY InitViews, InitOffline
<1>2. Calls = {}
  BY WaitingCalls DEF Init, Waiting
<1>3. LiveFlows = {}
  BY DEF Init, LiveFlows, FlowIds
<1> QED
  BY <1>1, <1>2, <1>3 DEF IScreens, ScreenFollows, Init

\* Whenever the server waits, every client that holds a view holds the current
\* one, and its duel screen is live exactly while its player's duel is: also
\* after a start that failed, whose screen the notification of the failure has
\* cleared.
THEOREM ClientsFollow ==
    ASSUME ListenerDisconnects = FALSE PROVE Spec => []ClientsAgree
<1>1. Init => IScreens
  BY InitScreens
<1>2. IScreens /\ [Next]_vars => IScreens'
  BY NextKeepsScreens
<1>3. ASSUME IScreens, Waiting, NEW p \in online
      PROVE  /\ client[p].view # None => client[p].view = View(p)
             /\ client[p].duel = playerToDuel[p]
  <2>1. TypeOK /\ Calls = {}
    BY <1>3, Types, WaitingCalls DEF IScreens, IOffline
  <2>2. p \in Players
    BY <1>3, <2>1 DEF TypeOK
  <2>3. ViewFollows(p) /\ ScreenFollows(p)
    BY <1>3, <2>2 DEF IScreens, IViews
  <2>4. ~Owed(p) /\ ~Clearing(p)
    BY <2>1 DEF Owed, Clearing
  <2> QED
    BY <1>3, <2>3, <2>4 DEF ViewFollows, ScreenFollows
<1>4. IScreens => ClientsAgree
  BY <1>3 DEF ClientsAgree
<1> QED
  BY <1>1, <1>2, <1>4, PTL DEF Spec

-----------------------------------------------------------------------------
(* Prompts in chat.  A step is announced once, and a notification that       *)
(* reports how a flow ended announces nothing: it never has to, because its  *)
(* player is in no flow when it is sent.                                     *)

OutcomeFree(c) ==
    /\ c.op \in {"changed", "publish"} /\ c.result # "OK" => flows[c.player] = 0
    /\ c.op = "startFinished" => flows[c.player] = 0
    /\ c.op = "publish" => c.player \in online

\* What has been announced is what the chat shows.
Announced(p) ==
    announcements[p] # None => p \in online /\ client[p].prompt = announcements[p]

\* A step that waits for a player was announced, or is about to be.
AskedOrTold(p) ==
    p \in online /\ Actionable(View(p)) => announcements[p] = Asked(View(p)) \/ Told(p)

IPrompts ==
    /\ IViews /\ IOffline
    /\ \A c \in Calls : OutcomeFree(c)
    /\ \A p \in Players : Announced(p) /\ AskedOrTold(p)

LEMMA OutcomePlayer ==
    ASSUME IDuels, NEW c \in Calls, c.op \in {"changed", "publish", "startFinished"}
    PROVE  c.player \in Players
<1>1. c \in Frame
  BY Types, CallsAreFrames
<1>2. CASE c.op = "startFinished"
  <2>1. c \in OutcomeFrame
    BY <1>1, <1>2 DEF Frame, Frames, PlayerFrame, NoticeFrame, OutcomeFrame, SweepFrame,
       InviteFrame, AnswerFrame, HandFrame, FirstFrame, PreparedFrame, FinishFrame, CurrentFrame,
       StartFrame, SetupFrame
  <2> QED
    BY <2>1 DEF OutcomeFrame
<1>3. CASE c.op \in {"changed", "publish"}
  <2>1. c \in NoticeFrame
    BY <1>1, <1>3, KindOf
  <2> QED
    BY <2>1 DEF NoticeFrame
<1> QED
  BY <1>2, <1>3

\* Nobody gets into a flow while an outcome is on its way to him.
LEMMA OutcomeStill ==
    ASSUME ListenerDisconnects = FALSE, IPrompts, [Next]_vars, NEW c \in Calls, c \in Calls',
           c.op \in {"changed", "publish", "startFinished"}
    PROVE  OutcomeFree(c)'
<1>1. IDuels /\ IStarts /\ ICalls
  BY Types DEF IPrompts, IOffline
<1>2. stack # <<>>
  BY WaitingCalls DEF Waiting
<1>3. UNCHANGED online
  BY <1>1, <1>2, StackMoves
<1>4. c.player \in Players
  BY <1>1, OutcomePlayer
<1>5. Top.op # "inviteSelected"
  <2>1. Calls = {Top} \cup Below /\ \A d \in Below : MayCover(Top, d)
    BY <1>1, <1>2, Pops
  <2> QED
    BY <2>1 DEF MayCover, Rounds
<1>6. flows'[c.player] \in {0, flows[c.player]}
  BY <1>1, <1>4, <1>5, NewFlows
<1>7. OutcomeFree(c)
  BY DEF IPrompts
<1> QED
  BY <1>3, <1>6, <1>7 DEF OutcomeFree

LEMMA OutcomeNew ==
    ASSUME ListenerDisconnects = FALSE, IPrompts, [Next]_vars, NEW c \in Calls', c \notin Calls,
           c.op \in {"changed", "publish", "startFinished"}
    PROVE  OutcomeFree(c)'
<1>1. IDuels /\ ICalls
  BY Types DEF IPrompts, IOffline
<1>2. Ran
  <2>1. ~Served /\ ~DropStep
    BY <1>1, DropMoves DEF Served, PlainOps, Commands
  <2>2. stack' # stack
    BY DEF Calls
  <2> QED
    BY <1>1, <2>1, <2>2, CallsMove
<1>3. PICK new : Makes(new, Below) /\ \A d \in new : MadeBy(d)
  BY <1>2 DEF Ran
<1>4. stack # <<>> /\ MadeBy(c) /\ Top \in Calls /\ Calls = {Top} \cup Below
  BY <1>1, <1>2, <1>3, Pops DEF Makes, Calls, Ran
<1>5. ThreadStep /\ UNCHANGED online
  <2>1. stack' # stack
    BY DEF Calls
  <2> QED
    BY <1>1, <1>4, <2>1, StackMoves
<1>6. OutcomeFree(Top)
  BY <1>4 DEF IPrompts
<1>7. CASE c.op = "changed"
  <2>1. CASE c.result # "OK" /\ Top.op = "startFinished" /\ c.player = Top.player
    <3>1. StartFinished
      BY <1>4, <1>5, <2>1, ServiceRuns
    <3>2. flows' = flows
      BY <3>1 DEF StartFinished, Advanced
    <3> QED
      BY <1>6, <1>7, <2>1, <3>2 DEF OutcomeFree
  <2>2. CASE c.result # "OK" /\ flows'[c.player] = 0
    BY <1>7, <2>2 DEF OutcomeFree
  <2>3. CASE c.result = "OK"
    BY <1>7, <2>3 DEF OutcomeFree
  <2> QED
    BY <1>4, <1>7, <2>1, <2>2, <2>3 DEF MadeBy
<1>8. CASE c.op = "publish"
  <2>1. Top.op = "changed" /\ c.player = Top.player /\ c.result = Top.result
    BY <1>4, <1>8 DEF MadeBy
  <2>2. Notify /\ NotifyStep
    BY <1>4, <1>5, <2>1, HostRuns
  <2>3. ~Makes({}, Below)
    BY <1>4 DEF Makes, Calls
  <2>4. Top.player \in online
    BY <1>1, <2>2, <2>3, NotifyCalls
  <2>5. flows' = flows
    BY <2>2 DEF NotifyStep, prepVars
  <2> QED
    BY <1>5, <1>6, <1>8, <2>1, <2>4, <2>5 DEF OutcomeFree
<1>9. CASE c.op = "startFinished"
  <2>1. Top.op = "soloFinally" /\ c.player = Top.player
    BY <1>4, <1>9 DEF MadeBy
  <2>2. SoloStep
    BY <1>4, <1>5, <2>1, HostRuns
  <2>3. flows' = flows
    BY <2>2 DEF SoloStep, prepVars
  <2>4. Top.player \in startingPlayers
    BY <1>1, <1>4, <2>1 DEF IDuels, SoloHeld, SoloOps
  <2>5. flows[Top.player] = 0
    BY <1>1, <2>4 DEF IDuels, SoloHeld
  <2> QED
    BY <1>9, <2>1, <2>3, <2>5 DEF OutcomeFree
<1> QED
  BY <1>7, <1>8, <1>9

LEMMA OutcomeFreeStill ==
    ASSUME ListenerDisconnects = FALSE, IPrompts, [Next]_vars, NEW c \in Calls'
    PROVE  OutcomeFree(c)'
<1>1. c.op \notin {"changed", "publish", "startFinished"} => OutcomeFree(c)'
  BY DEF OutcomeFree
<1> QED
  BY <1>1, OutcomeStill, OutcomeNew

-----------------------------------------------------------------------------
(* What publish leaves announced *)

LEMMA ActionableHeld ==
    ASSUME NEW p \in Players, Actionable(View(p)) PROVE flows[p] # 0
BY DEF Actionable, View

\* The step a prompt asks for is of a mode, so it is a prompt and not None.
LEMMA AskedIsPrompt ==
    ASSUME TypeOK, NEW p \in Players, Actionable(View(p)) PROVE Asked(View(p)) # None
<1>1. flows[p] \in FlowIds
  BY ActionableHeld DEF TypeOK
<1>2. flow[flows[p]] \in Flow /\ flows[p] \in Nat
  BY <1>1 DEF TypeOK, FlowIds
<1>3. View(p).flow \in Nat /\ View(p).mode \in Modes /\ View(p).round \in Nat
  BY <1>1, <1>2 DEF View, Flow, FlowIds
<1>4. Asked(View(p)) \in Prompt
  BY <1>3 DEF Asked, Prompt
<1> QED
  BY <1>4, PromptAssumption

LEMMA PublishAnnounces ==
    ASSUME IPrompts, Publish
    PROVE  LET p == Top.player IN
           /\ p \in Players /\ p \in online
           /\ Actionable(View(p)) =>
                /\ announcements'[p] = Asked(View(p))
                /\ client'[p].prompt = announcements'[p]
           /\ ~Actionable(View(p)) =>
                /\ announcements'[p] \in {None, announcements[p]}
                /\ client'[p].prompt = client[p].prompt
           /\ \A q \in Players : q # p => /\ announcements'[q] = announcements[q]
                                          /\ client'[q] = client[q]
<1> DEFINE p == Top.player
           v == View(p)
           key == AnnouncementKey(v)
           told == /\ Actionable(v) /\ announcements[p] # key
                   /\ Top.result \notin {"START_FAILED", "STALE", "OFFLINE"}
           prompt == IF told THEN Asked(v) ELSE client[p].prompt
<1>1. IDuels /\ ICalls /\ TypeOK
  BY Types DEF IPrompts, IOffline
<1>2. stack # <<>> /\ Top.op = "publish" /\ Top \in Calls
  BY <1>1, Pops DEF Publish, Running
<1>3. p \in Players /\ OutcomeFree(Top)
  BY <1>1, <1>2, OutcomePlayer DEF IPrompts
<1>4. p \in online
  BY <1>2, <1>3 DEF OutcomeFree
<1>5. /\ announcements' =
           CASE v.mode \in {"IDLE", "DUEL"} -> [announcements EXCEPT ![p] = None]
             [] Actionable(v) -> [announcements EXCEPT ![p] = key]
             [] OTHER -> announcements
      /\ Receive(p, v, Top.result, prompt)
  BY DEF Publish
<1>6. /\ announcements \in [Players -> Prompt \cup {None}]
      /\ client \in [Players -> Screen]
  BY <1>1 DEF TypeOK
<1>7. client'[p].prompt = prompt /\ \A q \in Players : q # p => client'[q] = client[q]
  <2> HIDE DEF p, v, prompt
  <2> QED
    BY <1>3, <1>4, <1>5, <1>6 DEF Receive, Screen
<1>8. key = Asked(v)
  BY DEF AnnouncementKey, Asked
<1>9. CASE Actionable(v)
  <2>1. v.mode \notin {"IDLE", "DUEL"}
    BY <1>9 DEF Actionable
  <2>2. announcements' = [announcements EXCEPT ![p] = key]
    BY <1>5, <1>9, <2>1
  <2>3. flows[p] # 0
    BY <1>3, <1>9, ActionableHeld
  <2>4. Top.result = "OK"
    BY <1>2, <1>3, <2>3 DEF OutcomeFree
  <2>5. key # None
    BY <1>1, <1>3, <1>8, <1>9, AskedIsPrompt
  <2>6. announcements[p] # None => client[p].prompt = announcements[p]
    BY <1>3 DEF IPrompts, Announced
  <2>7. prompt = key
    BY <1>8, <1>9, <2>4, <2>5, <2>6
  <2> HIDE DEF p, v, key, prompt
  <2> QED
    BY <1>3, <1>4, <1>6, <1>7, <1>8, <1>9, <2>2, <2>7 DEF p, v
<1>10. CASE ~Actionable(v)
  <2>1. announcements' \in {announcements, [announcements EXCEPT ![p] = None]}
    BY <1>5, <1>10
  <2>2. prompt = client[p].prompt
    BY <1>10
  <2> HIDE DEF p, v, key, prompt
  <2> QED
    BY <1>3, <1>4, <1>6, <1>7, <1>10, <2>1, <2>2 DEF p, v
<1> QED
  BY <1>9, <1>10

\* Nothing else writes a prompt, or remembers one.
LEMMA PromptsMove ==
    ASSUME IPrompts, [Next]_vars, NEW p \in Players
    PROVE  \/ Publish /\ NotifyStep
           \/ announcements'[p] = None /\ p \notin online'
           \/ /\ announcements'[p] = announcements[p] /\ client'[p].prompt = client[p].prompt
              /\ p \in online => p \in online'
<1>1. IDuels /\ TypeOK
  BY Types DEF IPrompts, IOffline
<1>2. /\ announcements \in [Players -> Prompt \cup {None}]
      /\ client \in [Players -> Screen]
  BY <1>1 DEF TypeOK
<1>3. CASE Publish /\ NotifyStep
  BY <1>3
<1>4. CASE UNCHANGED <<announcements, client, online>>
  BY <1>4
<1>5. CASE Reply /\ NotifyStep
  <2>1. Receive(Top.player, View(Top.player), "OK", client[Top.player].prompt)
        /\ UNCHANGED announcements
    BY <1>5 DEF Reply
  <2>2. stack # <<>> /\ Top.op = "reply" /\ Top \in PlayerFrame
    BY <1>1, <1>5, Types, Pops, KindOfTop DEF Reply, Running
  <2>3. Top.player \in Players
    BY <2>2 DEF PlayerFrame
  <2>4. client'[p].prompt = client[p].prompt
    BY <1>2, <2>1, <2>3 DEF Receive, Screen
  <2>5. UNCHANGED online
    BY <1>5 DEF NotifyStep, hostVars
  <2> QED
    BY <2>1, <2>4, <2>5
<1>6. CASE DuelStep
  <2>1. UNCHANGED <<announcements, online>>
    BY <1>6 DEF DuelStep
  <2>2. UNCHANGED client \/ \E group, id : Show(group, id)
    BY <1>6 DEF DuelStep, StartInstalls, SetupRuns, SetupCompletes, SetupThrows, Leave,
       ResponseEndsDuel, Forfeit, FinishDuel
  <2>3. client'[p].prompt = client[p].prompt
    BY <1>2, <2>2 DEF Show, Screen
  <2> QED
    BY <2>1, <2>3
<1>7. CASE DropStep
  <2>1. PICK q \in Players : \E rest : Drop(q, rest)
    <3>1. CASE ListenerDisconnectsOwner
      <4>1. Top.player \in Players
        BY <1>1, <3>1 DEF ListenerDisconnectsOwner, TypeOK
      <4> QED
        BY <3>1, <4>1 DEF ListenerDisconnectsOwner
    <3> QED
      BY <1>7, <3>1 DEF DropStep, Disconnect
  <2> QED
    BY <1>2, <2>1 DEF Drop
<1>8. CASE DeckStep
  BY <1>8 DEF DeckStep, Login, ChangeDeck
<1>9. CASE Shutdown
  BY <1>9 DEF Shutdown
<1>10. CASE ServiceStep \/ ServiceResumes \/ SelectionStep \/ CheckStep \/ SoloStep \/ Request
              \/ ClockTicks \/ UNCHANGED vars
  BY <1>4, <1>10 DEF ServiceStep, ServiceResumes, SelectionStep, CheckStep, SoloStep, Request,
     ClockTicks, vars, hostVars
<1>11. CASE NotifyStep /\ UNCHANGED <<announcements, client>>
  BY <1>4, <1>11 DEF NotifyStep, hostVars
<1> QED
  BY <1>3, <1>5, <1>6, <1>7, <1>8, <1>9, <1>10, <1>11 DEF Next, ThreadStep, NotifyStep

LEMMA AnnouncedStill ==
    ASSUME ListenerDisconnects = FALSE, IPrompts, [Next]_vars, NEW p \in Players
    PROVE  Announced(p)'
<1>1. Announced(p)
  BY DEF IPrompts
<1>2. CASE Publish /\ NotifyStep
  <2>1. UNCHANGED online
    BY <1>2 DEF NotifyStep, hostVars
  <2> QED
    BY <1>1, <1>2, <2>1, PublishAnnounces DEF Announced
<1>3. CASE announcements'[p] = None /\ p \notin online'
  BY <1>3 DEF Announced
<1>4. CASE /\ announcements'[p] = announcements[p] /\ client'[p].prompt = client[p].prompt
           /\ p \in online => p \in online'
  BY <1>1, <1>4 DEF Announced
<1> QED
  BY <1>2, <1>3, <1>4, PromptsMove

-----------------------------------------------------------------------------
(* A step that waits *)

\* A player who has just come is asked for nothing.
LEMMA NewcomersFree ==
    ASSUME IPrompts, [Next]_vars, NEW p \in Players, p \notin online, p \in online'
    PROVE  flows'[p] = 0
<1>1. \E q \in Players : Login(q)
  <2>1. online' # online
    OBVIOUS
  <2>2. DeckStep \/ DropStep
    BY <2>1 DEF Next, ThreadStep, ServiceStep, ServiceResumes, NotifyStep, SelectionStep, CheckStep,
       DuelStep, SoloStep, Request, Shutdown, ClockTicks, vars, hostVars
  <2>3. ~DropStep
    BY DEF DropStep, ListenerDisconnectsOwner, Disconnect, Drop
  <2> QED
    BY <2>1, <2>2, <2>3 DEF DeckStep
<1>2. Calls = {} /\ UNCHANGED flows
  <2>1. Waiting
    BY <1>1 DEF Login
  <2>2. DeckStep
    BY <1>1 DEF Next, ThreadStep, ServiceStep, ServiceResumes, NotifyStep, SelectionStep, CheckStep,
       DuelStep, SoloStep, DropStep, ListenerDisconnectsOwner, Disconnect, Drop, Request, Shutdown,
       ClockTicks, vars, hostVars
  <2> QED
    BY <2>1, <2>2, WaitingCalls DEF DeckStep, prepVars
<1>3. AbsentHeld(p)
  BY DEF IPrompts, IOffline
<1> QED
  BY <1>2, <1>3 DEF AbsentHeld

\* Whatever changes what a player in a flow sees is about to be told.
LEMMA HeldViewsMove ==
    ASSUME IDuels, [Next]_vars, NEW p \in Players, flows'[p] # 0
    PROVE  View(p)' = View(p) \/ Noticed(p)
<1>1. CASE ServiceStep \/ ServiceResumes
  BY <1>1, ServiceViews
<1>2. CASE UNCHANGED prepVars
  <2>1. flows[p] # 0 /\ flows' = flows /\ flow' = flow /\ revisions' = revisions
    BY <1>2 DEF prepVars
  <2> QED
    BY <2>1, ViewSame DEF Shown
<1>3. ~Shutdown
  BY DEF Shutdown
<1>4. (\/ NotifyStep \/ SelectionStep \/ CheckStep \/ DuelStep \/ SoloStep \/ DropStep \/ DeckStep
       \/ Request \/ ClockTicks \/ UNCHANGED vars) => UNCHANGED prepVars
  BY DEF NotifyStep, SelectionStep, CheckStep, DuelStep, SoloStep, DropStep, DeckStep, Request,
     ClockTicks, vars
<1> QED
  BY <1>1, <1>2, <1>3, <1>4 DEF Next, ThreadStep

\* A notification on its way is passed on until it is published.
LEMMA ToldStays ==
    ASSUME ListenerDisconnects = FALSE, IPrompts, [Next]_vars, NEW p \in Players, p \in online,
           Told(p), ~(Publish /\ Top.player = p)
    PROVE  Told(p)'
<1>1. IDuels /\ ICalls
  BY Types DEF IPrompts, IOffline
<1>2. PICK c \in Calls : Tells(c, p)
  BY DEF Told
<1>3. CASE c \in Calls'
  BY <1>2, <1>3 DEF Told, Tells
<1>4. CASE c \notin Calls'
  <2>1. stack # <<>> /\ c = Top /\ ThreadStep
    BY <1>1, <1>4, OnlyTopEnds
  <2>2. Top.op = "changed" /\ Top.player = p
    BY <1>2, <2>1, HostRuns DEF Tells
  <2>3. Notify /\ Top \in NoticeFrame
    BY <1>1, <2>1, <2>2, HostRuns, Types, Pops, KindOfTop
  <2> DEFINE d == [Top EXCEPT !.op = "publish"]
  <2>4. d \in Calls'
    BY <1>1, <2>2, <2>3, NotifyCalls DEF Makes, Calls
  <2>5. d.op = "publish" /\ d.player = p
    BY <2>2, <2>3 DEF NoticeFrame
  <2> HIDE DEF d
  <2> QED
    BY <2>4, <2>5 DEF Told, Tells
<1> QED
  BY <1>3, <1>4

LEMMA AskedStill ==
    ASSUME ListenerDisconnects = FALSE, IPrompts, [Next]_vars, NEW p \in Players
    PROVE  AskedOrTold(p)'
<1>1. IDuels /\ TypeOK /\ TypeOK'
  BY Types, NextKeepsDuels DEF IPrompts, IOffline, IDuels, IStarts, ICalls, IFlows, ITypes
<1> SUFFICES ASSUME p \in online', Actionable(View(p))'
             PROVE  announcements'[p] = Asked(View(p))' \/ Told(p)'
  BY DEF AskedOrTold
<1>2. flows'[p] # 0
  BY DEF Actionable, View
<1>3. p \in online
  BY <1>2, NewcomersFree
<1>4. CASE Noticed(p)
  BY <1>4 DEF Noticed, Told, Tells
<1>5. CASE View(p)' = View(p)
  <2>1. Actionable(View(p)) /\ Asked(View(p))' = Asked(View(p))
    BY <1>5 DEF Actionable, Asked
  <2>2. CASE Publish /\ Top.player = p
    BY <2>1, <2>2, PublishAnnounces
  <2>3. CASE ~(Publish /\ Top.player = p)
    <3>1. announcements[p] = Asked(View(p)) \/ Told(p)
      BY <1>3, <2>1 DEF IPrompts, AskedOrTold
    <3>2. CASE Told(p)
      BY <1>3, <2>3, <3>2, ToldStays
    <3>3. CASE announcements[p] = Asked(View(p))
      <4>1. announcements'[p] = announcements[p]
        BY <2>3, PromptsMove, PublishAnnounces
      <4> QED
        BY <2>1, <3>3, <4>1
    <3> QED
      BY <3>1, <3>2, <3>3
  <2> QED
    BY <2>2, <2>3
<1> QED
  BY <1>1, <1>2, <1>4, <1>5, HeldViewsMove

LEMMA NextKeepsPrompts ==
    ASSUME ListenerDisconnects = FALSE, IPrompts, [Next]_vars PROVE IPrompts'
<1>1. IViews' /\ IOffline'
  BY NextKeepsViews, NextKeepsOffline DEF IPrompts
<1>2. \A c \in Calls' : OutcomeFree(c)'
  BY OutcomeFreeStill
<1>3. \A p \in Players : Announced(p)' /\ AskedOrTold(p)'
  BY AnnouncedStill, AskedStill
<1> QED
  BY <1>1, <1>2, <1>3 DEF IPrompts

LEMMA InitPrompts == ASSUME Init PROVE IPrompts
<1>1. IViews /\ IOffline
  BY InitViews, InitOffline
<1>2. Calls = {}
  BY WaitingCalls DEF Init, Waiting
<1> QED
  BY <1>1, <1>2 DEF IPrompts, Announced, AskedOrTold, Init

\* Whenever the server waits, the last prompt in the chat of a player who must
\* act is for the very step that waits: a step is announced once only, but no
\* notification that reports an outcome takes the place of its announcement.
THEOREM PromptsArrive ==
    ASSUME ListenerDisconnects = FALSE PROVE Spec => []PromptReached
<1>1. Init => IPrompts
  BY InitPrompts
<1>2. IPrompts /\ [Next]_vars => IPrompts'
  BY NextKeepsPrompts
<1>3. ASSUME IPrompts, Waiting, NEW p \in online, Actionable(View(p))
      PROVE  client[p].prompt = Asked(View(p))
  <2>1. TypeOK /\ Calls = {}
    BY <1>3, Types, WaitingCalls DEF IPrompts, IOffline
  <2>2. p \in Players
    BY <1>3, <2>1 DEF TypeOK
  <2>3. announcements[p] = Asked(View(p))
    BY <1>3, <2>1, <2>2 DEF IPrompts, AskedOrTold, Told
  <2>4. announcements[p] # None
    BY <1>3, <2>1, <2>2, <2>3, AskedIsPrompt
  <2> QED
    BY <1>3, <2>2, <2>3, <2>4 DEF IPrompts, Announced
<1>4. IPrompts => PromptReached
  BY <1>3 DEF PromptReached
<1> QED
  BY <1>1, <1>2, <1>4, PTL DEF Spec
=============================================================================
