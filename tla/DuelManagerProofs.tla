---------------------------- MODULE DuelManagerProofs ----------------------------
(***************************************************************************)
(* Proofs about DuelManager, and so about DuelPreparation under it, for    *)
(* any players, decks, deadlines and bounds:                               *)
(*   TypeCorrect        the state is well typed, the call stack included;  *)
(*   InvitationsHold    what invite() has found is still true when it      *)
(*                      comes back from selection();                       *)
(*   FlowsStayPaired    the two entries of a flow come and go together;    *)
(*   StartsAreHeld      a start in progress belongs to one flow, which     *)
(*                      stays locked until the start returns;              *)
(*   WinnersChoose      only the winner of the roll is ever asked;         *)
(*   HandsAlwaysStand   a hand is replaced by a tie only;                  *)
(*   DeadlinesBind      an overdue flow never advances;                    *)
(*   FlowsExpireOnce    nested sweeps end a flow once.                     *)
(***************************************************************************)
EXTENDS DuelManager, SequenceTheorems, TLAPS

-----------------------------------------------------------------------------
(* The call stack *)

\* More flows and duels admit more calls.
LEMMA FramesGrow ==
    ASSUME NEW F1, NEW F2, NEW D1, NEW D2, F1 \subseteq F2, D1 \subseteq D2
    PROVE  Frames(F1, D1) \subseteq Frames(F2, D2)
<1>1. SweepFrame(F1) \subseteq SweepFrame(F2)
  BY DEF SweepFrame
<1>2. AnswerFrame(F1) \subseteq AnswerFrame(F2)
  BY DEF AnswerFrame
<1>3. HandFrame(F1) \subseteq HandFrame(F2)
  BY DEF HandFrame
<1>4. FirstFrame(F1) \subseteq FirstFrame(F2)
  BY DEF FirstFrame
<1>5. PreparedFrame(F1) \subseteq PreparedFrame(F2)
  BY DEF PreparedFrame
<1>6. FinishFrame(F1) \subseteq FinishFrame(F2)
  BY DEF FinishFrame
<1>7. SetupFrame(D1) \subseteq SetupFrame(D2)
  BY DEF SetupFrame
<1> QED
  BY <1>1, <1>2, <1>3, <1>4, <1>5, <1>6, <1>7 DEF Frames

\* The running call is a frame, and so is everything it will return to.
LEMMA Popped ==
    ASSUME stack \in Seq(Frame), stack # <<>>
    PROVE  /\ Top \in Frame
           /\ Rest \in Seq(Frame)
BY HeadTailProperties DEF Top, Rest

\* The operation of a call tells what it carries.
LEMMA KindOfTop ==
    ASSUME Top \in Frame
    PROVE  /\ Top.op \in {"selection", "reply", "logout", "leave", "duelEnded", "cancelOwn",
                          "soloGuard", "soloSelected", "soloChecked", "soloFinally"}
                 => Top \in PlayerFrame
           /\ Top.op \in {"changed", "publish"} => Top \in NoticeFrame
           /\ Top.op = "startFinished" => Top \in OutcomeFrame
           /\ Top.op = "sweep" => Top \in SweepFrame(FlowIds)
           /\ Top.op \in {"invite", "inviteSelected"} => Top \in InviteFrame
           /\ Top.op \in {"accept", "acceptSelected", "decline", "cancel"}
                 => Top \in AnswerFrame(FlowIds)
           /\ Top.op = "hand" => Top \in HandFrame(FlowIds)
           /\ Top.op = "first" => Top \in FirstFrame(FlowIds)
           /\ Top.op \in {"startPrepared", "startChecked"} => Top \in PreparedFrame(FlowIds)
           /\ Top.op = "finishStart" => Top \in FinishFrame(FlowIds)
           /\ Top.op = "current" => Top \in CurrentFrame
           /\ Top.op = "start" => Top \in StartFrame
           /\ Top.op = "setup" => Top \in SetupFrame(DuelIds)
BY DEF Frame, Frames, PlayerFrame, NoticeFrame, OutcomeFrame, SweepFrame, InviteFrame,
       AnswerFrame, HandFrame, FirstFrame, PreparedFrame, FinishFrame, CurrentFrame,
       StartFrame, SetupFrame

LEMMA CallsTyped ==
    ASSUME NEW S, NEW a \in S, NEW b \in S, NEW c \in S
    PROVE  <<a>> \in Seq(S) /\ <<a, b>> \in Seq(S) /\ <<a, b, c>> \in Seq(S)
OBVIOUS

\* Calls made by the running one are pushed in front of the rest.
LEMMA Pushed ==
    ASSUME stack \in Seq(Frame), stack # <<>>, NEW frames \in Seq(Frame), Call(frames)
    PROVE  stack' \in Seq(Frame)
BY Popped, ConcatProperties DEF Call

-----------------------------------------------------------------------------
(* The service, for TypeCorrect *)

ITypes == TypeOK /\ ActiveSeated

\* A step of the service: no flow is made, none is lost.
ServiceTyped ==
    /\ flow' \in Seq(Flow)
    /\ Len(flow') = Len(flow)
    /\ flows' \in [Players -> {0} \cup FlowIds]
    /\ revisions' \in [Players -> Nat]
    /\ stack' \in Seq(Frame)

LEMMA ServiceTypes ==
    ASSUME ITypes, ServiceTyped, clock' \in Nat, selected' \in [Players -> Decks \cup {None}],
           started' \in BOOLEAN,
           UNCHANGED <<hostVars, managerVars, announcements, client>>
    PROVE  ITypes'
<1>1. FlowIds' = FlowIds /\ DuelIds' = DuelIds
  BY DEF ServiceTyped, FlowIds, DuelIds, managerVars
<1>2. Frame' = Frame /\ Screen' = Screen
  BY <1>1 DEF Frame, Screen
<1> QED
  BY <1>1, <1>2 DEF ITypes, TypeOK, ActiveSeated, ServiceTyped, hostVars, managerVars

\* A flow is a record whose players are players.
LEMMA FlowTyped ==
    ASSUME TypeOK, NEW f \in FlowIds
    PROVE  flow[f] \in Flow
BY ElementOfSeq DEF TypeOK, FlowIds

LEMMA ChangedTypes ==
    ASSUME TypeOK, NEW p \in Players, NEW q \in Players, NEW result \in Results,
           NEW rest \in Seq(Frame), Changed(p, q, result, rest)
    PROVE  /\ revisions' \in [Players -> Nat]
           /\ stack' \in Seq(Frame)
<1>1. revisions' \in [Players -> Nat]
  BY DEF Changed, TypeOK
<1>2. <<ChangedCall(p, result), ChangedCall(q, result)>> \in Seq(Frame)
  BY DEF ChangedCall, Frame, Frames, NoticeFrame
<1> QED
  BY <1>1, <1>2, ConcatProperties DEF Changed

LEMMA FinishTypes ==
    ASSUME TypeOK, NEW f \in FlowIds, NEW result \in Results,
           NEW rest \in Seq(Frame), Finish(f, result, rest)
    PROVE  ServiceTyped
<1>1. flow[f] \in Flow
  BY FlowTyped
<1>2. Garbage(flow[f]) \in Flow
  BY <1>1, NoneAssumption, StepAssumption DEF Garbage, NewFlow, Flow, Modes, TIE
<1>3. flow' \in Seq(Flow) /\ Len(flow') = Len(flow)
  BY <1>2, ExceptSeq DEF Finish, TypeOK, FlowIds
<1>4. flows' \in [Players -> {0} \cup FlowIds]
  BY DEF Finish, TypeOK
<1>5. revisions' \in [Players -> Nat] /\ stack' \in Seq(Frame)
  BY <1>1, ChangedTypes DEF Finish, Flow
<1> QED
  BY <1>3, <1>4, <1>5 DEF ServiceTyped

\* A flow that is rewritten in place, and announced.
LEMMA RewriteTypes ==
    ASSUME TypeOK, NEW f \in FlowIds, NEW new \in Flow, NEW rest \in Seq(Frame),
           flow' = [flow EXCEPT ![f] = new], UNCHANGED flows,
           Changed(flow[f].challenger, flow[f].accepter, "OK", rest)
    PROVE  ServiceTyped
<1>1. flow' \in Seq(Flow) /\ Len(flow') = Len(flow)
  BY ExceptSeq DEF TypeOK, FlowIds
<1>2. revisions' \in [Players -> Nat] /\ stack' \in Seq(Frame)
  BY FlowTyped, ChangedTypes DEF Flow, Results
<1> QED
  BY <1>1, <1>2 DEF ServiceTyped, TypeOK

LEMMA RefusedTypes ==
    ASSUME TypeOK, stack # <<>>, Refused
    PROVE  ServiceTyped
BY Popped DEF TypeOK, Refused, Return, prepVars, ServiceTyped

\* Expiry makes at most one call.
LEMMA ExpiryTypes ==
    ASSUME TypeOK, NEW now \in Nat
    PROVE  Expiry(now) \in Seq(Frame)
<1>1. [op |-> "sweep", now |-> now, todo |-> LiveFlows] \in Frame
  BY DEF Frame, Frames, SweepFrame, LiveFlows
<1> QED
  BY <1>1 DEF Expiry

LEMMA SweepTypes == ASSUME TypeOK, Sweep \/ SweepEnds PROVE ServiceTyped
<1>1. CASE Sweep
  <2> PICK f \in Top.todo :
        LET rest == <<[Top EXCEPT !.todo = @ \ {f}]>> \o Rest IN
        IF Overdue(f, Top.now) THEN Finish(f, "STALE", rest)
                               ELSE stack' = rest /\ UNCHANGED prepVars
    BY <1>1 DEF Sweep
  <2> DEFINE rest == <<[Top EXCEPT !.todo = @ \ {f}]>> \o Rest
  <2>1. /\ Top \in SweepFrame(FlowIds)
        /\ Rest \in Seq(Frame)
    BY <1>1, Popped, KindOfTop DEF Sweep, Running, TypeOK
  <2>2. f \in FlowIds
    BY <2>1 DEF SweepFrame
  <2>3. [Top EXCEPT !.todo = @ \ {f}] \in Frame
    BY <2>1 DEF SweepFrame, Frame, Frames
  <2>4. rest \in Seq(Frame)
    BY <2>1, <2>3, ConcatProperties
  <2>5. CASE Overdue(f, Top.now)
    <3>1. Finish(f, "STALE", rest)
      BY <2>5
    <3> QED
      BY <3>1, <2>2, <2>4, FinishTypes DEF Results
  <2>6. CASE ~Overdue(f, Top.now)
    BY <2>4, <2>6 DEF prepVars, ServiceTyped, TypeOK
  <2> QED
    BY <2>5, <2>6
<1>2. CASE SweepEnds
  BY <1>2, Popped DEF SweepEnds, Running, Return, prepVars, ServiceTyped, TypeOK
<1> QED
  BY <1>1, <1>2

LEMMA InviteTypes == ASSUME TypeOK, Invite PROVE ServiceTyped
<1>1. stack # <<>> /\ Top \in InviteFrame /\ Rest \in Seq(Frame)
  BY Popped, KindOfTop DEF Invite, Running, TypeOK
<1>2. <<SelectionCall(Top.actor), [Top EXCEPT !.op = "inviteSelected"]>> \in Seq(Frame)
  <2>1. SelectionCall(Top.actor) \in Frame
    BY <1>1 DEF InviteFrame, SelectionCall, Frame, Frames, PlayerFrame
  <2>2. [Top EXCEPT !.op = "inviteSelected"] \in Frame
    BY <1>1 DEF InviteFrame, Frame, Frames
  <2> QED
    BY <2>1, <2>2
<1>3. CASE Refused
  BY <1>1, <1>3, RefusedTypes
<1>4. CASE /\ Call(<<SelectionCall(Top.actor), [Top EXCEPT !.op = "inviteSelected"]>>)
           /\ UNCHANGED prepVars
  BY <1>1, <1>2, <1>4, Pushed DEF prepVars, ServiceTyped, TypeOK
<1> QED
  BY <1>3, <1>4 DEF Invite

LEMMA AcceptTypes == ASSUME TypeOK, Accept PROVE ServiceTyped
<1>1. stack # <<>> /\ Top \in AnswerFrame(FlowIds) /\ Rest \in Seq(Frame)
  BY Popped, KindOfTop DEF Accept, Running, TypeOK
<1>2. Top.id \in FlowIds /\ flow[Top.id] \in Flow
  BY <1>1, FlowTyped DEF AnswerFrame
<1>3. CASE Refused
  BY <1>1, <1>3, RefusedTypes
<1>4. CASE Finish(Top.id, Availability(Top.id), Rest)
  BY <1>1, <1>2, <1>4, FinishTypes DEF Availability, Results
<1>5. CASE /\ Call(<<SelectionCall(flow[Top.id].challenger),
                     SelectionCall(flow[Top.id].accepter), [Top EXCEPT !.op = "acceptSelected"]>>)
           /\ UNCHANGED prepVars
  <2>1. /\ SelectionCall(flow[Top.id].challenger) \in Frame
        /\ SelectionCall(flow[Top.id].accepter) \in Frame
    BY <1>2 DEF Flow, SelectionCall, Frame, Frames, PlayerFrame
  <2>2. [Top EXCEPT !.op = "acceptSelected"] \in Frame
    BY <1>1 DEF AnswerFrame, Frame, Frames
  <2>3. <<SelectionCall(flow[Top.id].challenger), SelectionCall(flow[Top.id].accepter),
          [Top EXCEPT !.op = "acceptSelected"]>> \in Seq(Frame)
    BY <2>1, <2>2, CallsTyped
  <2>4. stack' \in Seq(Frame)
    BY <1>1, <1>5, <2>3, Pushed DEF TypeOK
  <2> QED
    BY <1>5, <2>4 DEF prepVars, ServiceTyped, TypeOK
<1> QED
  BY <1>3, <1>4, <1>5 DEF Accept

LEMMA AnswerTypes == ASSUME TypeOK, Decline \/ Cancel PROVE ServiceTyped
<1>1. stack # <<>> /\ Top \in AnswerFrame(FlowIds) /\ Rest \in Seq(Frame)
  BY Popped, KindOfTop DEF Decline, Cancel, Running, TypeOK
<1>2. CASE Refused
  BY <1>1, <1>2, RefusedTypes
<1>3. CASE Finish(Top.id, "OK", Rest)
  BY <1>1, <1>3, FinishTypes DEF AnswerFrame, Results
<1> QED
  BY <1>2, <1>3 DEF Decline, Cancel

LEMMA NewRoundTyped ==
    ASSUME NEW f \in Flow, NEW now \in Nat
    PROVE  NewRound(f, now) \in Flow
<1>1. f.round + 1 \in Nat /\ now + Step \in Nat
  BY StepAssumption DEF Flow
<1> DEFINE r == f.round + 1
           d == now + Step
<1> HIDE DEF r, d
<1>2. [f EXCEPT !.mode = "RPS", !.round = r, !.challengerHand = "none",
                !.accepterHand = "none", !.deadline = d] \in Flow
  BY <1>1 DEF Flow, Modes, r, d
<1> QED
  BY <1>2 DEF NewRound, r, d

LEMMA SettleTyped ==
    ASSUME NEW f \in Flow, NEW now \in Nat
    PROVE  Settle(f, now) \in Flow
<1>1. [f EXCEPT !.winner = TIE] \in Flow
  BY DEF Flow, TIE
<1>2. CASE Resolve(f.challengerHand, f.accepterHand) = TIE
  BY <1>1, <1>2, NewRoundTyped DEF Settle
<1>3. CASE Resolve(f.challengerHand, f.accepterHand) # TIE
  <2> DEFINE w == Resolve(f.challengerHand, f.accepterHand)
             d == now + Step
  <2>1. w \in {0, 1} /\ d \in Nat
    BY <1>3, StepAssumption DEF Resolve
  <2> HIDE DEF w, d
  <2>2. [f EXCEPT !.winner = w, !.mode = "FIRST_CHOICE", !.round = 0, !.deadline = d] \in Flow
    BY <2>1 DEF Flow, Modes
  <2> QED
    BY <1>3, <2>2 DEF Settle, w, d
<1> QED
  BY <1>2, <1>3

LEMMA HandTypes == ASSUME TypeOK, Hand PROVE ServiceTyped
<1> DEFINE submitted == Submit(flow[Top.id], Top.actor, Top.hand)
           new == IF "none" \notin {submitted.challengerHand, submitted.accepterHand}
                  THEN Settle(submitted, Top.now) ELSE submitted
<1>1. stack # <<>> /\ Top \in HandFrame(FlowIds) /\ Rest \in Seq(Frame)
  BY Popped, KindOfTop DEF Hand, Running, TypeOK
<1>2. Top.id \in FlowIds /\ flow[Top.id] \in Flow
  BY <1>1, FlowTyped DEF HandFrame
<1>3. CASE Refused
  BY <1>1, <1>3, RefusedTypes
<1>4. CASE /\ flow' = [flow EXCEPT ![Top.id] = new]
           /\ Changed(flow[Top.id].challenger, flow[Top.id].accepter, "OK", Rest)
           /\ UNCHANGED flows
  <2>1. submitted \in Flow
    BY <1>1, <1>2 DEF Submit, Flow, HandFrame, Hands
  <2>2. new \in Flow
    BY <1>1, <2>1, SettleTyped DEF HandFrame
  <2> HIDE DEF new
  <2> QED
    BY <1>1, <1>2, <1>4, <2>2, RewriteTypes
<1> QED
  BY <1>3, <1>4 DEF Hand

LEMMA FirstTypes == ASSUME TypeOK, First PROVE ServiceTyped
<1> DEFINE f == Top.id
           start == [op |-> "startPrepared", flow |-> f, firstSeat |-> FirstSeat(f, Top.goFirst)]
           after == [op |-> "finishStart", flow |-> f, goFirst |-> Top.goFirst]
<1>1. stack # <<>> /\ Top \in FirstFrame(FlowIds) /\ Rest \in Seq(Frame)
  BY Popped, KindOfTop DEF First, Running, TypeOK
<1>2. f \in FlowIds /\ flow[f] \in Flow
  BY <1>1, FlowTyped DEF FirstFrame
<1>3. CASE Refused
  BY <1>1, <1>3, RefusedTypes
<1>4. CASE Finish(f, Availability(f), Rest)
  BY <1>1, <1>2, <1>4, FinishTypes DEF Availability, Results
<1>5. CASE /\ flow' = [flow EXCEPT ![f].mode = "STARTING"]
           /\ Changed(flow[f].challenger, flow[f].accepter, "OK", <<start, after>> \o Rest)
           /\ UNCHANGED flows
  <2>1. start \in Frame
    BY <1>1, <1>2 DEF FirstFrame, FirstSeat, Flow, Frame, Frames, PreparedFrame
  <2>2. after \in Frame
    BY <1>1, <1>2 DEF FirstFrame, Frame, Frames, FinishFrame
  <2>3. <<start, after>> \o Rest \in Seq(Frame)
    BY <1>1, <2>1, <2>2, CallsTyped, ConcatProperties
  <2>4. [flow[f] EXCEPT !.mode = "STARTING"] \in Flow
    BY <1>2 DEF Flow, Modes
  <2>5. flow' = [flow EXCEPT ![f] = [flow[f] EXCEPT !.mode = "STARTING"]]
    BY <1>5
  <2> QED
    BY <1>2, <1>5, <2>3, <2>4, <2>5, RewriteTypes
<1> QED
  BY <1>3, <1>4, <1>5 DEF First

LEMMA LogoutTypes == ASSUME TypeOK, Logout PROVE ServiceTyped
<1> DEFINE f == flows[Top.player]
<1>1. stack # <<>> /\ Top \in PlayerFrame /\ Rest \in Seq(Frame)
  BY Popped, KindOfTop DEF Logout, Running, TypeOK
<1>2. f \in {0} \cup FlowIds
  BY <1>1 DEF TypeOK, PlayerFrame
<1>3. CASE Refused
  BY <1>1, <1>3, RefusedTypes
<1>4. CASE f # 0 /\ Finish(f, "OFFLINE", Rest)
  BY <1>1, <1>2, <1>4, FinishTypes DEF Results
<1>5. CASE /\ f # 0
           /\ flow' = [flow EXCEPT ![f].loggedOutDuringStart = TRUE]
           /\ Return
           /\ UNCHANGED <<flows, revisions>>
  <2>1. flow[f] \in Flow
    BY <1>2, <1>5, FlowTyped
  <2>2. [flow[f] EXCEPT !.loggedOutDuringStart = TRUE] \in Flow
    BY <2>1 DEF Flow
  <2>3. flow' \in Seq(Flow) /\ Len(flow') = Len(flow)
    BY <1>2, <1>5, <2>2, ExceptSeq DEF TypeOK, FlowIds
  <2> QED
    BY <1>1, <1>5, <2>3 DEF ServiceTyped, TypeOK, Return
<1> QED
  BY <1>2, <1>3, <1>4, <1>5 DEF Logout

LEMMA OutcomeTypes == ASSUME TypeOK, DuelEnded \/ StartFinished PROVE ServiceTyped
<1>1. stack # <<>> /\ Top.player \in Players
  BY Popped, KindOfTop DEF DuelEnded, StartFinished, Running, TypeOK, PlayerFrame, OutcomeFrame
<1>2. PICK result \in Results : Advanced(Top.player, result)
  BY DEF DuelEnded, StartFinished, Results
<1>3. ChangedCall(Top.player, result) \in Frame
  BY <1>1 DEF ChangedCall, Frame, Frames, NoticeFrame
<1>4. stack' \in Seq(Frame)
  BY <1>1, <1>2, <1>3, CallsTyped, Pushed DEF Advanced, TypeOK
<1>5. revisions' \in [Players -> Nat]
  BY <1>1, <1>2 DEF Advanced, TypeOK
<1> QED
  BY <1>2, <1>4, <1>5 DEF Advanced, ServiceTyped, TypeOK

LEMMA ServiceStepTypes == ASSUME ITypes, ServiceStep PROVE ITypes'
<1>1. ServiceTyped
  BY SweepTypes, InviteTypes, AcceptTypes, AnswerTypes, HandTypes, FirstTypes, LogoutTypes,
     OutcomeTypes DEF ServiceStep, ITypes
<1> QED
  BY <1>1, ServiceTypes DEF ServiceStep, ITypes, TypeOK, returns

\* The only step of the service that makes a flow.
LEMMA InviteSelectedTypes ==
    ASSUME ITypes, InviteSelected, selected' = NoSelection, UNCHANGED started,
           UNCHANGED <<clock, hostVars, managerVars, announcements, client>>
    PROVE  ITypes'
<1> DEFINE p == Top.actor
           q == Top.target
           new == Len(flow) + 1
           made == NewFlow(p, q, Top.now)
<1>1. stack # <<>> /\ Top \in InviteFrame /\ Rest \in Seq(Frame)
  BY Popped, KindOfTop DEF InviteSelected, Running, ITypes, TypeOK
<1>2. selected' \in [Players -> Decks \cup {None}]
  BY DEF NoSelection
<1>3. CASE Refused
  BY <1>1, <1>2, <1>3, RefusedTypes, ServiceTypes DEF ITypes, TypeOK
<1>4. CASE /\ flow' = Append(flow, made)
           /\ flows' = [flows EXCEPT ![p] = new, ![q] = new]
           /\ Changed(p, q, "OK", Rest)
  <2>1. made \in Flow
    BY <1>1, StepAssumption, NoneAssumption DEF InviteFrame, NewFlow, Flow, Modes, TIE
  <2>2. flow' \in Seq(Flow) /\ Len(flow') = Len(flow) + 1
    BY <1>4, <2>1, AppendProperties DEF ITypes, TypeOK
  <2>3. /\ FlowIds \subseteq FlowIds'
        /\ new \in FlowIds'
        /\ DuelIds' = DuelIds
    BY <2>2, LenProperties DEF FlowIds, DuelIds, managerVars, ITypes, TypeOK
  <2>4. Frame \subseteq Frame' /\ Screen' = Screen
    BY <2>3, FramesGrow DEF Frame, Screen
  <2>5. revisions' \in [Players -> Nat] /\ stack' \in Seq(Frame)
    BY <1>1, <1>4, ChangedTypes DEF InviteFrame, Results, ITypes
  <2>6. stack' \in Seq(Frame')
    BY <2>4, <2>5, SeqMonotonic
  <2>7. flows' \in [Players -> {0} \cup FlowIds']
    BY <1>1, <1>4, <2>3 DEF ITypes, TypeOK
  <2> QED
    BY <1>2, <2>2, <2>3, <2>4, <2>5, <2>6, <2>7
    DEF ITypes, TypeOK, ActiveSeated, hostVars, managerVars
<1> QED
  BY <1>3, <1>4 DEF InviteSelected

LEMMA AcceptSelectedTypes == ASSUME TypeOK, AcceptSelected PROVE ServiceTyped
<1> DEFINE f == Top.id
           p == flow[f].challenger
           q == flow[f].accepter
           ready == [flow[f] EXCEPT !.prepared = [challenger |-> selected[p],
                                                  accepter |-> selected[q]]]
<1>1. stack # <<>> /\ Top \in AnswerFrame(FlowIds) /\ Rest \in Seq(Frame)
  BY Popped, KindOfTop DEF AcceptSelected, Running, TypeOK
<1>2. f \in FlowIds /\ flow[f] \in Flow /\ Top.now \in Nat
  BY <1>1, FlowTyped DEF AnswerFrame
<1>3. CASE Refused
  BY <1>1, <1>3, RefusedTypes
<1>4. CASE /\ flow' = [flow EXCEPT ![f] = NewRound(ready, Top.now)]
           /\ Changed(p, q, "OK", Rest)
           /\ UNCHANGED flows
  <2>1. selected[p] \in Decks \cup {None} /\ selected[q] \in Decks \cup {None}
    BY <1>2 DEF TypeOK, Flow
  <2>2. ready \in Flow
    BY <1>2, <2>1 DEF Flow
  <2>3. NewRound(ready, Top.now) \in Flow
    BY <1>2, <2>2, NewRoundTyped
  <2> HIDE DEF ready
  <2> QED
    BY <1>1, <1>2, <1>4, <2>3, RewriteTypes
<1> QED
  BY <1>3, <1>4 DEF AcceptSelected

LEMMA FinishStartTypes == ASSUME TypeOK, FinishStart PROVE ServiceTyped
<1>1. stack # <<>> /\ Top \in FinishFrame(FlowIds) /\ Rest \in Seq(Frame)
  BY Popped, KindOfTop DEF FinishStart, Running, TypeOK
<1> QED
  BY <1>1, FinishTypes DEF FinishStart, FinishFrame, Results

LEMMA ServiceResumesTypes == ASSUME ITypes, ServiceResumes PROVE ITypes'
<1>1. CASE InviteSelected /\ selected' = NoSelection /\ UNCHANGED started
  BY <1>1, InviteSelectedTypes DEF ServiceResumes
<1>2. CASE AcceptSelected /\ selected' = NoSelection /\ UNCHANGED started
  BY <1>2, AcceptSelectedTypes, ServiceTypes
  DEF ServiceResumes, ITypes, TypeOK, NoSelection
<1>3. CASE FinishStart /\ started' = FALSE /\ UNCHANGED selected
  BY <1>3, FinishStartTypes, ServiceTypes DEF ServiceResumes, ITypes, TypeOK
<1> QED
  BY <1>1, <1>2, <1>3 DEF ServiceResumes

-----------------------------------------------------------------------------
(* The manager, for TypeCorrect *)

\* A step that leaves flows and duels alone need only push frames.
LEMMA StackTypes ==
    ASSUME ITypes, stack' \in Seq(Frame), clock' \in Nat,
           selected' \in [Players -> Decks \cup {None}], started' \in BOOLEAN,
           online' \subseteq Players, startingPlayers' \subseteq Players,
           deck' \in [Players -> Decks \cup {None}],
           announcements' \in [Players -> Prompt \cup {None}],
           client' \in [Players -> Screen],
           UNCHANGED <<prepVars, playerToDuel, activeDuels, duelSeats>>
    PROVE  ITypes'
<1>1. FlowIds' = FlowIds /\ DuelIds' = DuelIds
  BY DEF prepVars, FlowIds, DuelIds
<1>2. Frame' = Frame /\ Screen' = Screen
  BY <1>1 DEF Frame, Screen
<1> QED
  BY <1>1, <1>2 DEF ITypes, TypeOK, ActiveSeated, prepVars

LEMMA ViewTyped ==
    ASSUME TypeOK, NEW p \in Players
    PROVE  View(p) \in Answer
<1>1. CASE flows[p] = 0
  BY <1>1 DEF View, Answer, Modes, TypeOK
<1>2. CASE flows[p] # 0
  <2>1. flows[p] \in FlowIds /\ flow[flows[p]] \in Flow
    BY <1>2, FlowTyped DEF TypeOK
  <2>2. flows[p] \in Nat
    BY <2>1, LenProperties DEF FlowIds, TypeOK
  <2> QED
    BY <1>2, <2>1, <2>2 DEF View, Answer, Flow, TypeOK
<1> QED
  BY <1>1, <1>2

LEMMA ReceiveTypes ==
    ASSUME TypeOK, NEW p \in Players, NEW v \in Answer, NEW result,
           NEW prompt \in Prompt \cup {None}, Receive(p, v, result, prompt)
    PROVE  client' \in [Players -> Screen]
<1> DEFINE held == client[p].view
           new == IF held = None \/ v.revision >= held.revision
                  THEN [client[p] EXCEPT !.view = v,
                                         !.duel = IF result = "START_FAILED" THEN 0 ELSE @]
                  ELSE client[p]
<1>1. client[p] \in Screen
  BY DEF TypeOK
<1>2. new \in Screen
  BY <1>1 DEF Screen
<1>3. [new EXCEPT !.prompt = prompt] \in Screen
  BY <1>2 DEF Screen
<1> HIDE DEF new
<1> QED
  BY <1>3 DEF Receive, TypeOK, new

LEMMA NotifyStepTypes == ASSUME ITypes, NotifyStep PROVE ITypes'
<1>1. CASE Notify /\ UNCHANGED <<announcements, client>>
  <2>1. stack # <<>> /\ Top \in NoticeFrame /\ Rest \in Seq(Frame)
    BY <1>1, Popped, KindOfTop DEF Notify, Running, ITypes, TypeOK
  <2>2. [Top EXCEPT !.op = "publish"] \in Frame
    BY <2>1 DEF NoticeFrame, Frame, Frames
  <2>3. Expiry(clock) \o <<[Top EXCEPT !.op = "publish"]>> \in Seq(Frame)
    BY <2>2, ExpiryTypes, CallsTyped, ConcatProperties DEF ITypes, TypeOK
  <2>4. stack' \in Seq(Frame)
    BY <1>1, <2>1, <2>3, Pushed DEF Notify, Return, ITypes, TypeOK
  <2> QED
    BY <1>1, <2>4, StackTypes
    DEF NotifyStep, ITypes, TypeOK, hostVars, managerVars, returns
<1>2. CASE Publish
  <2> DEFINE p == Top.player
             v == View(p)
             key == AnnouncementKey(v)
             told == /\ Actionable(v) /\ announcements[p] # key
                     /\ Top.result \notin {"START_FAILED", "STALE", "OFFLINE"}
  <2>1. stack # <<>> /\ Top \in NoticeFrame /\ Rest \in Seq(Frame)
    BY <1>2, Popped, KindOfTop DEF Publish, Running, ITypes, TypeOK
  <2>2. v \in Answer
    BY <2>1, ViewTyped DEF NoticeFrame, ITypes
  <2>3. Actionable(v) => key \in Prompt /\ Asked(v) \in Prompt
    BY <2>2 DEF Actionable, AnnouncementKey, Asked, Prompt, Answer, Modes
  <2>4. client[p].prompt \in Prompt \cup {None}
    BY <2>1 DEF NoticeFrame, ITypes, TypeOK, Screen
  <2>5. client' \in [Players -> Screen]
    BY <1>2, <2>1, <2>2, <2>3, <2>4, ReceiveTypes DEF Publish, NoticeFrame, ITypes
  <2>6. announcements' \in [Players -> Prompt \cup {None}]
    <3>1. announcements' = CASE v.mode \in {"IDLE", "DUEL"} -> [announcements EXCEPT ![p] = None]
                             [] Actionable(v) -> [announcements EXCEPT ![p] = key]
                             [] OTHER -> announcements
      BY <1>2 DEF Publish
    <3> HIDE DEF v, key
    <3> QED
      BY <2>1, <2>3, <3>1 DEF NoticeFrame, ITypes, TypeOK
  <2>7. stack' \in Seq(Frame)
    BY <1>2, <2>1 DEF Publish, Return
  <2> QED
    BY <1>2, <2>5, <2>6, <2>7, StackTypes
    DEF NotifyStep, ITypes, TypeOK, hostVars, managerVars, returns
<1>3. CASE Reply
  <2>1. stack # <<>> /\ Top \in PlayerFrame /\ Rest \in Seq(Frame)
    BY <1>3, Popped, KindOfTop DEF Reply, Running, ITypes, TypeOK
  <2>2. client[Top.player].prompt \in Prompt \cup {None}
    BY <2>1 DEF PlayerFrame, ITypes, TypeOK, Screen
  <2>3. client' \in [Players -> Screen]
    BY <1>3, <2>1, <2>2, ViewTyped, ReceiveTypes DEF Reply, PlayerFrame, ITypes
  <2>4. stack' \in Seq(Frame)
    BY <1>3, <2>1 DEF Reply, Return
  <2> QED
    BY <1>3, <2>3, <2>4, StackTypes
    DEF NotifyStep, Reply, ITypes, TypeOK, hostVars, managerVars, returns
<1> QED
  BY <1>1, <1>2, <1>3 DEF NotifyStep

LEMMA SelectionStepTypes == ASSUME ITypes, SelectionStep PROVE ITypes'
<1>1. stack # <<>> /\ Top \in PlayerFrame /\ Rest \in Seq(Frame)
  BY Popped, KindOfTop DEF SelectionStep, SelectionMissing, SelectionFails,
     SelectionRejected, SelectionAccepted, Running, ITypes, TypeOK
<1>2. stack' \in Seq(Frame)
  <2>1. CASE Denied
    BY <1>1, <2>1, ExpiryTypes, Pushed DEF Denied, ITypes, TypeOK
  <2>2. CASE SelectionAccepted
    BY <1>1, <2>2 DEF SelectionAccepted, Return
  <2> QED
    BY <2>1, <2>2 DEF SelectionStep, SelectionMissing, SelectionFails, SelectionRejected
<1>3. deck' \in [Players -> Decks \cup {None}] /\ selected' \in [Players -> Decks \cup {None}]
  BY <1>1 DEF SelectionStep, SelectionMissing, SelectionFails, SelectionRejected,
     SelectionAccepted, Denied, PlayerFrame, ITypes, TypeOK
<1> QED
  BY <1>2, <1>3, StackTypes DEF SelectionStep, ITypes, TypeOK, hostVars

LEMMA DropStepTypes == ASSUME ITypes, DropStep PROVE ITypes'
<1>1. PICK p \in Players : \E rest \in Seq(Frame) : Drop(p, rest)
  <2>1. CASE ListenerDisconnectsOwner
    BY <2>1, Popped, KindOfTop
    DEF ListenerDisconnectsOwner, Running, ITypes, TypeOK, PlayerFrame
  <2>2. CASE \E p \in Players : Disconnect(p)
    BY <2>2, EmptySeq DEF Disconnect
  <2> QED
    BY <2>1, <2>2 DEF DropStep
<1>2. PICK rest \in Seq(Frame) : Drop(p, rest)
  BY <1>1
<1>3. [op |-> "logout", player |-> p] \in Frame /\ [op |-> "leave", player |-> p] \in Frame
  BY DEF Frame, Frames, PlayerFrame
<1>4. stack' \in Seq(Frame)
  BY <1>2, <1>3, CallsTyped, ConcatProperties DEF Drop
<1>5. client' \in [Players -> Screen] /\ announcements' \in [Players -> Prompt \cup {None}]
  BY <1>2 DEF Drop, Disconnected, Screen, ITypes, TypeOK
<1>6. online' \subseteq Players
  BY <1>2 DEF Drop, ITypes, TypeOK
<1> QED
  BY <1>4, <1>5, <1>6, StackTypes DEF DropStep, ITypes, TypeOK, managerVars, returns

LEMMA SeatsTyped ==
    ASSUME NEW S, NEW a \in S, NEW b \in S
    PROVE  Seats(a, b) \in [{0, 1} -> S] /\ Seats(a, b)[0] = a /\ Seats(a, b)[1] = b
BY DEF Seats

LEMMA StartCallTyped ==
    ASSUME NEW p \in Players, NEW q \in Players \cup {None},
           NEW d \in Decks \cup {None}, NEW e \in Decks \cup {None}
    PROVE  StartCall(Seats(p, q), Seats(d, e)) \in Frame
<1>1. Seats(p, q) \in Seating
  <2>1. p \in Players \cup {None} /\ p # None
    BY NoneAssumption
  <2>2. Seats(p, q) \in [{0, 1} -> Players \cup {None}] /\ Seats(p, q)[0] = p
    BY <2>1 DEF Seats
  <2> QED
    BY <2>1, <2>2 DEF Seating
<1>2. Seats(d, e) \in [{0, 1} -> Decks \cup {None}]
  BY SeatsTyped
<1> QED
  BY <1>1, <1>2 DEF StartCall, StartFrame, Frame, Frames

\* The two decisions of a start, and the calls they make.
LEMMA StartPreparedTypes == ASSUME TypeOK, StartPrepared PROVE stack' \in Seq(Frame)
<1> DEFINE f == flow[Top.flow]
           first == CurrentCall(f.challenger, f.prepared.challenger)
           second == CurrentCall(f.accepter, f.prepared.accepter)
           after == [Top EXCEPT !.op = "startChecked"]
<1>1. stack # <<>> /\ Top \in PreparedFrame(FlowIds)
  BY Popped, KindOfTop DEF StartPrepared, Running, TypeOK
<1>2. f \in Flow
  BY <1>1, FlowTyped DEF PreparedFrame
<1>3. first \in Frame /\ second \in Frame
  BY <1>2 DEF Flow, CurrentCall, CurrentFrame, Frame, Frames
<1>4. after \in Frame
  BY <1>1 DEF PreparedFrame, Frame, Frames
<1>5. <<first, second, after>> \in Seq(Frame)
  BY <1>3, <1>4, CallsTyped
<1> QED
  BY <1>1, <1>5, Pushed DEF StartPrepared, TypeOK

LEMMA StartCheckedTypes == ASSUME TypeOK, StartChecked PROVE stack' \in Seq(Frame)
<1> DEFINE f == flow[Top.flow]
           p == f.challenger
           q == f.accepter
           start == IF Top.firstSeat = 0
                    THEN StartCall(Seats(p, q), Seats(f.prepared.challenger, f.prepared.accepter))
                    ELSE StartCall(Seats(q, p), Seats(f.prepared.accepter, f.prepared.challenger))
<1>1. stack # <<>> /\ Top \in PreparedFrame(FlowIds) /\ Rest \in Seq(Frame)
  BY Popped, KindOfTop DEF StartChecked, Running, TypeOK
<1>2. f \in Flow
  BY <1>1, FlowTyped DEF PreparedFrame
<1>3. start \in Frame
  BY <1>2, StartCallTyped DEF Flow
<1>4. <<start>> \in Seq(Frame)
  BY <1>3, CallsTyped
<1> QED
  BY <1>1, <1>4, Pushed DEF StartChecked, Return, TypeOK

LEMMA CurrentTypes == ASSUME TypeOK, Current PROVE stack' \in Seq(Frame)
<1>1. stack # <<>> /\ Top \in CurrentFrame /\ Rest \in Seq(Frame)
  BY Popped, KindOfTop DEF Current, Running, TypeOK
<1>2. SelectionCall(Top.player) \in Frame
  BY <1>1 DEF CurrentFrame, SelectionCall, PlayerFrame, Frame, Frames
<1> QED
  BY <1>1, <1>2, CallsTyped, Pushed DEF Current, Return, TypeOK

LEMMA SoloCallTyped ==
    ASSUME NEW p \in Players,
           NEW op \in {"cancelOwn", "soloGuard", "soloSelected", "soloChecked", "soloFinally"}
    PROVE  SoloCall(op, p) \in Frame
BY DEF SoloCall, PlayerFrame, Frame, Frames

LEMMA SoloCallsTypes ==
    ASSUME TypeOK, SoloSelected \/ SoloChecked \/ CancelOwn
    PROVE  stack' \in Seq(Frame)
<1> DEFINE p == Top.player
<1>1. stack # <<>> /\ p \in Players /\ Rest \in Seq(Frame)
  BY Popped, KindOfTop DEF SoloSelected, SoloChecked, CancelOwn, Running, TypeOK, PlayerFrame
<1>2. CASE SoloSelected
  <2>1. CurrentCall(p, selected[p]) \in Frame
    BY <1>1 DEF CurrentCall, CurrentFrame, Frame, Frames, TypeOK
  <2>2. <<SoloCall("soloFinally", p)>> \in Seq(Frame)
    BY <1>1, SoloCallTyped, CallsTyped
  <2>3. <<CurrentCall(p, selected[p]), SoloCall("soloChecked", p),
          SoloCall("soloFinally", p)>> \in Seq(Frame)
    BY <1>1, <2>1, SoloCallTyped, CallsTyped
  <2> QED
    BY <1>1, <1>2, <2>2, <2>3, Pushed DEF SoloSelected, TypeOK
<1>3. CASE SoloChecked
  <2>1. StartCall(Seats(p, None), Seats(selected[p], None)) \in Frame
    BY <1>1, StartCallTyped DEF TypeOK
  <2> QED
    BY <1>1, <1>3, <2>1, CallsTyped, Pushed DEF SoloChecked, Return, TypeOK
<1>4. CASE CancelOwn
  <2> DEFINE cancel == [op |-> "cancel", actor |-> p, id |-> flows[p], now |-> clock]
  <2>1. flows[p] # 0 => cancel \in Frame
    BY <1>1 DEF TypeOK, AnswerFrame, Frame, Frames
  <2>2. flows[p] # 0 => Expiry(clock) \o <<cancel>> \in Seq(Frame)
    BY <2>1, CallsTyped, ExpiryTypes, ConcatProperties DEF TypeOK
  <2> QED
    BY <1>1, <1>4, <2>2, Pushed DEF CancelOwn, Return, TypeOK
<1> QED
  BY <1>2, <1>3, <1>4

LEMMA CheckStepTypes == ASSUME ITypes, CheckStep PROVE ITypes'
<1>1. stack' \in Seq(Frame)
  BY StartPreparedTypes, StartCheckedTypes, CurrentTypes, SoloCallsTypes DEF CheckStep, ITypes
<1>2. selected' \in [Players -> Decks \cup {None}]
  BY DEF CheckStep, StartChecked, SoloSelected, SoloChecked, NoSelection, ITypes, TypeOK
<1> QED
  BY <1>1, <1>2, StackTypes DEF CheckStep, ITypes, TypeOK, hostVars, managerVars

LEMMA SoloStepTypes == ASSUME ITypes, SoloStep PROVE ITypes'
<1> DEFINE p == Top.player
<1>1. stack # <<>> /\ p \in Players
  BY Popped, KindOfTop DEF SoloStep, SoloGuard, SoloFinally, Running, ITypes, TypeOK, PlayerFrame
<1>2. CASE SoloGuard /\ UNCHANGED started
  <2>1. SelectionCall(p) \in Frame /\ SoloCall("soloSelected", p) \in Frame
    BY <1>1 DEF SelectionCall, SoloCall, PlayerFrame, Frame, Frames
  <2>2. stack' \in Seq(Frame)
    BY <1>1, <1>2, <2>1, CallsTyped, Pushed DEF SoloGuard, ITypes, TypeOK
  <2>3. startingPlayers' \subseteq Players
    BY <1>1, <1>2 DEF SoloGuard, ITypes, TypeOK
  <2> QED
    BY <1>2, <2>2, <2>3, StackTypes DEF SoloStep, ITypes, TypeOK, managerVars
<1>3. CASE SoloFinally
  <2>1. [op |-> "startFinished", player |-> p, success |-> started] \in Frame
    BY <1>1 DEF OutcomeFrame, Frame, Frames, ITypes, TypeOK
  <2>2. stack' \in Seq(Frame)
    BY <1>1, <1>3, <2>1, CallsTyped, Pushed DEF SoloFinally, ITypes, TypeOK
  <2>3. startingPlayers' \subseteq Players /\ started' \in BOOLEAN
    BY <1>3 DEF SoloFinally, ITypes, TypeOK
  <2> QED
    BY <2>2, <2>3, StackTypes DEF SoloStep, ITypes, TypeOK, managerVars
<1> QED
  BY <1>2, <1>3 DEF SoloStep

\* A step of the duels: none is made, the ones that end lose their seats.
DuelsTyped ==
    /\ duelSeats' \in Seq(Seating \cup {NoSeats})
    /\ Len(duelSeats') = Len(duelSeats)
    /\ activeDuels' \subseteq DuelIds
    /\ playerToDuel' \in [Players -> {0} \cup DuelIds]
    /\ \A id \in activeDuels' : duelSeats'[id] \in Seating
    /\ deck' = deck
    /\ client' \in [Players -> Screen]
    /\ stack' \in Seq(Frame)

LEMMA DuelTypes ==
    ASSUME ITypes, DuelsTyped, started' \in BOOLEAN,
           UNCHANGED <<clock, prepVars, selected, online, startingPlayers, announcements>>
    PROVE  ITypes'
<1>1. FlowIds' = FlowIds /\ DuelIds' = DuelIds
  BY DEF DuelsTyped, FlowIds, DuelIds, prepVars
<1>2. Frame' = Frame /\ Screen' = Screen
  BY <1>1 DEF Frame, Screen
<1> QED
  BY <1>1, <1>2 DEF ITypes, TypeOK, ActiveSeated, DuelsTyped, prepVars

LEMMA EndDuelTypes ==
    ASSUME ITypes, NEW id \in DuelIds, EndDuel(id)
    PROVE  /\ duelSeats' \in Seq(Seating \cup {NoSeats})
           /\ Len(duelSeats') = Len(duelSeats)
           /\ activeDuels' \subseteq DuelIds
           /\ playerToDuel' \in [Players -> {0} \cup DuelIds]
           /\ \A other \in activeDuels' : duelSeats'[other] \in Seating
           /\ deck' = deck
<1>1. /\ duelSeats' \in Seq(Seating \cup {NoSeats})
      /\ Len(duelSeats') = Len(duelSeats)
      /\ \A other \in DuelIds : other # id => duelSeats'[other] = duelSeats[other]
  BY ExceptSeq DEF EndDuel, ITypes, TypeOK, DuelIds
<1>2. activeDuels' \subseteq DuelIds /\ \A other \in activeDuels' : other # id
  BY DEF EndDuel, ITypes, TypeOK
<1>3. \A other \in activeDuels' : duelSeats'[other] \in Seating
  BY <1>1, <1>2 DEF EndDuel, ITypes, ActiveSeated
<1>4. playerToDuel' \in [Players -> {0} \cup DuelIds]
  BY DEF EndDuel, ITypes, TypeOK
<1> QED
  BY <1>1, <1>2, <1>3, <1>4 DEF EndDuel

LEMMA DuelEndedTyped ==
    ASSUME NEW seats \in Seating
    PROVE  DuelEndedCalls(seats) \in Seq(Frame)
<1>1. \A p \in Players : [op |-> "duelEnded", player |-> p] \in Frame
  BY DEF PlayerFrame, Frame, Frames
<1>2. seats[0] \in Players /\ (seats[1] # None => seats[1] \in Players)
  BY DEF Seating
<1> QED
  BY <1>1, <1>2, CallsTyped DEF DuelEndedCalls

LEMMA FinishDuelTypes ==
    ASSUME ITypes, NEW id, NEW rest \in Seq(Frame), FinishDuel(id, rest)
    PROVE  DuelsTyped
<1>1. id \in activeDuels /\ id \in DuelIds /\ duelSeats[id] \in Seating
  BY DEF FinishDuel, ITypes, TypeOK, ActiveSeated
<1>2. stack' \in Seq(Frame)
  BY <1>1, DuelEndedTyped, ConcatProperties DEF FinishDuel
<1>3. client' \in [Players -> Screen]
  BY DEF FinishDuel, Show, Screen, ITypes, TypeOK
<1> QED
  BY <1>1, <1>2, <1>3, EndDuelTypes DEF FinishDuel, DuelsTyped

\* A step that leaves the duels alone.
LEMMA NoDuelEndsTypes ==
    ASSUME ITypes, stack' \in Seq(Frame), UNCHANGED <<managerVars, playerToDuel, client>>
    PROVE  DuelsTyped
BY DEF ITypes, TypeOK, ActiveSeated, DuelsTyped, managerVars

\* The only step that makes a duel.
LEMMA StartInstallsTypes ==
    ASSUME ITypes, StartInstalls, UNCHANGED <<deck, started>>,
           UNCHANGED <<clock, prepVars, selected, online, startingPlayers, announcements>>
    PROVE  ITypes'
<1> DEFINE id == Len(duelSeats) + 1
           owners == {Top.seats[0], Top.seats[1]} \ {None}
<1>1. stack # <<>> /\ Top \in StartFrame /\ Rest \in Seq(Frame)
  BY Popped, KindOfTop DEF StartInstalls, Running, ITypes, TypeOK
<1>2. Top.seats \in Seating
  BY <1>1 DEF StartFrame
<1>3. /\ duelSeats' \in Seq(Seating \cup {NoSeats})
      /\ Len(duelSeats') = Len(duelSeats) + 1
      /\ \A other \in DuelIds : duelSeats'[other] = duelSeats[other]
      /\ duelSeats'[id] = Top.seats
  BY <1>2, AppendProperties DEF StartInstalls, ITypes, TypeOK, DuelIds
<1>4. /\ DuelIds \subseteq DuelIds'
      /\ id \in DuelIds'
      /\ FlowIds' = FlowIds
  BY <1>3, LenProperties DEF DuelIds, FlowIds, prepVars, ITypes, TypeOK
<1>5. Frame \subseteq Frame' /\ Screen \subseteq Screen'
  BY <1>4, FramesGrow DEF Frame, Screen
<1>6. stack' \in Seq(Frame')
  <2>1. [op |-> "setup", duel |-> id] \in Frame'
    BY <1>4 DEF Frame, Frames, SetupFrame
  <2>2. <<[op |-> "setup", duel |-> id]>> \in Seq(Frame')
    BY <2>1, CallsTyped
  <2>3. Rest \in Seq(Frame')
    BY <1>1, <1>5, SeqMonotonic
  <2>4. stack' = <<[op |-> "setup", duel |-> id]>> \o Rest
    BY DEF StartInstalls, Call
  <2> QED
    BY <2>2, <2>3, <2>4, ConcatProperties
<1>7. client' \in [Players -> Screen']
  <2>1. \A p \in Players : [client[p] EXCEPT !.duel = id] \in Screen'
    BY <1>4 DEF Screen, ITypes, TypeOK
  <2>2. client' = [p \in Players |-> IF p \in owners \cap online
                                     THEN [client[p] EXCEPT !.duel = id] ELSE client[p]]
    BY DEF StartInstalls, Show
  <2> QED
    BY <1>5, <2>1, <2>2 DEF ITypes, TypeOK
<1>8. playerToDuel' \in [Players -> {0} \cup DuelIds']
  BY <1>4 DEF StartInstalls, ITypes, TypeOK
<1>9. activeDuels' \subseteq DuelIds' /\ \A other \in activeDuels' : duelSeats'[other] \in Seating
  BY <1>2, <1>3, <1>4 DEF StartInstalls, ITypes, TypeOK, ActiveSeated
<1> QED
  BY <1>3, <1>4, <1>6, <1>7, <1>8, <1>9 DEF ITypes, TypeOK, ActiveSeated, prepVars

LEMMA DuelStepTypes == ASSUME ITypes, DuelStep PROVE ITypes'
<1>1. CASE StartInstalls /\ UNCHANGED <<deck, started>>
  BY <1>1, StartInstallsTypes DEF DuelStep
<1>2. CASE StartThrows /\ UNCHANGED <<managerVars, playerToDuel, client>>
  BY <1>2, Popped, NoDuelEndsTypes, DuelTypes
  DEF DuelStep, StartThrows, Running, Return, ITypes, TypeOK
<1>3. CASE SetupRuns
  BY <1>3, Popped, NoDuelEndsTypes, DuelTypes
  DEF DuelStep, SetupRuns, Running, Return, ITypes, TypeOK
<1>4. CASE SetupCompletes
  BY <1>4, Popped, FinishDuelTypes, DuelTypes
  DEF DuelStep, SetupCompletes, Running, ITypes, TypeOK
<1>5. CASE SetupThrows
  <2>1. stack # <<>> /\ Top \in SetupFrame(DuelIds) /\ Rest \in Seq(Frame)
    BY <1>5, Popped, KindOfTop DEF SetupThrows, Running, ITypes, TypeOK
  <2>2. DuelsTyped
    BY <1>5, <2>1, EndDuelTypes DEF SetupThrows, SetupFrame, Return, DuelsTyped, ITypes, TypeOK
  <2> QED
    BY <1>5, <2>2, DuelTypes DEF DuelStep, SetupThrows
<1>6. CASE Leave /\ UNCHANGED started
  <2>1. stack # <<>> /\ Rest \in Seq(Frame)
    BY <1>6, Popped DEF Leave, Running, ITypes, TypeOK
  <2>2. DuelsTyped
    BY <1>6, <2>1, FinishDuelTypes, NoDuelEndsTypes DEF Leave, Return
  <2> QED
    BY <1>6, <2>2, DuelTypes DEF DuelStep, ITypes, TypeOK
<1>7. CASE \E id \in DuelIds : ResponseEndsDuel(id) /\ UNCHANGED started
  <2>1. DuelsTyped
    BY <1>7, EmptySeq, FinishDuelTypes DEF ResponseEndsDuel
  <2> QED
    BY <1>7, <2>1, DuelTypes DEF DuelStep, ITypes, TypeOK
<1>8. CASE \E p \in Players : Forfeit(p) /\ UNCHANGED started
  <2>1. PICK p \in Players : Forfeit(p)
    BY <1>8
  <2>2. CASE FinishDuel(playerToDuel[p], <<>>)
    BY <1>8, <2>2, EmptySeq, FinishDuelTypes, DuelTypes DEF DuelStep, ITypes, TypeOK
  <2>3. CASE /\ stack' = Expiry(clock) \o <<SoloCall("cancelOwn", p)>>
             /\ UNCHANGED <<managerVars, playerToDuel, client>>
    <3>1. SoloCall("cancelOwn", p) \in Frame
      BY SoloCallTyped
    <3>2. stack' \in Seq(Frame)
      BY <2>3, <3>1, CallsTyped, ExpiryTypes, ConcatProperties DEF ITypes, TypeOK
    <3> QED
      BY <1>8, <2>3, <3>2, NoDuelEndsTypes, DuelTypes DEF DuelStep, ITypes, TypeOK
  <2> QED
    BY <2>1, <2>2, <2>3 DEF Forfeit
<1> QED
  BY <1>1, <1>2, <1>3, <1>4, <1>5, <1>6, <1>7, <1>8 DEF DuelStep

LEMMA DeckStepTypes == ASSUME ITypes, DeckStep PROVE ITypes'
<1>1. online' \subseteq Players /\ deck' \in [Players -> Decks \cup {None}]
  BY DEF DeckStep, Login, ChangeDeck, ITypes, TypeOK
<1> QED
  BY <1>1, StackTypes DEF DeckStep, ITypes, TypeOK, returns

\* Every packet makes a call that a player may make, and a reply.
LEMMA ServeTypes ==
    ASSUME ITypes, NEW command \in Frame, command.actor \in Players, Serve(command)
    PROVE  stack' \in Seq(Frame)
<1>1. ReplyCall(command.actor) \in Frame
  BY DEF ReplyCall, PlayerFrame, Frame, Frames
<1>2. /\ Expiry(clock) \in Seq(Frame)
      /\ <<command>> \in Seq(Frame)
      /\ <<command, ReplyCall(command.actor)>> \in Seq(Frame)
  BY <1>1, ExpiryTypes, CallsTyped DEF ITypes, TypeOK
<1> QED
  BY <1>2, ConcatProperties DEF Serve, ServePacket, ServeChat

LEMMA RequestTypes == ASSUME ITypes, Request PROVE ITypes'
<1>1. clock \in Nat /\ Expiry(clock) \in Seq(Frame)
  BY ExpiryTypes DEF ITypes, TypeOK
<1>2. stack' \in Seq(Frame)
  <2>1. CASE ServerTick
    BY <1>1, <2>1 DEF ServerTick
  <2>2. ASSUME NEW p \in Players, RequestView(p) PROVE stack' \in Seq(Frame)
    <3>1. ReplyCall(p) \in Frame
      BY DEF ReplyCall, PlayerFrame, Frame, Frames
    <3> QED
      BY <1>1, <2>2, <3>1, CallsTyped, ConcatProperties DEF RequestView
  <2>3. ASSUME NEW p \in Players, RequestSolo(p) PROVE stack' \in Seq(Frame)
    BY <1>1, <2>3, SoloCallTyped, CallsTyped, ConcatProperties DEF RequestSolo
  <2>4. ASSUME NEW p \in Players, NEW q \in Players, RequestInvite(p, q)
        PROVE  stack' \in Seq(Frame)
    <3> DEFINE invite == [op |-> "invite", actor |-> p, target |-> q, now |-> clock]
    <3>1. invite \in Frame /\ invite.actor = p
      BY <1>1 DEF InviteFrame, Frame, Frames
    <3>2. Serve(invite)
      BY <2>4 DEF RequestInvite
    <3> QED
      BY <3>1, <3>2, ServeTypes
  <2>5. ASSUME NEW p \in Players, NEW f \in FlowIds, NEW op \in {"accept", "decline", "cancel"},
               RequestAnswer(op, p, f)
        PROVE  stack' \in Seq(Frame)
    <3> DEFINE answer == [op |-> op, actor |-> p, id |-> f, now |-> clock]
    <3>1. answer \in Frame /\ answer.actor = p
      BY <1>1 DEF AnswerFrame, Frame, Frames
    <3>2. Serve(answer)
      BY <2>5 DEF RequestAnswer
    <3> QED
      BY <3>1, <3>2, ServeTypes
  <2>6. ASSUME NEW p \in Players, NEW f \in FlowIds, NEW r \in 1..MaxRounds, NEW h \in Hands,
               RequestHand(p, f, r, h)
        PROVE  stack' \in Seq(Frame)
    <3> DEFINE hand == [op |-> "hand", actor |-> p, id |-> f, round |-> r, hand |-> h,
                        now |-> clock]
    <3>1. hand \in Frame /\ hand.actor = p
      BY <1>1, RoundAssumption DEF HandFrame, Frame, Frames
    <3>2. Serve(hand)
      BY <2>6 DEF RequestHand
    <3> QED
      BY <3>1, <3>2, ServeTypes
  <2>7. ASSUME NEW p \in Players, NEW f \in FlowIds, NEW goFirst \in BOOLEAN,
               RequestFirst(p, f, goFirst)
        PROVE  stack' \in Seq(Frame)
    <3> DEFINE first == [op |-> "first", actor |-> p, id |-> f, goFirst |-> goFirst,
                         now |-> clock]
    <3>1. first \in Frame /\ first.actor = p
      BY <1>1 DEF FirstFrame, Frame, Frames
    <3>2. Serve(first)
      BY <2>7 DEF RequestFirst
    <3> QED
      BY <3>1, <3>2, ServeTypes
  <2> QED
    BY <2>1, <2>2, <2>3, <2>4, <2>5, <2>6, <2>7 DEF Request
<1> QED
  BY <1>2, StackTypes DEF Request, ITypes, TypeOK, returns, hostVars, managerVars

LEMMA ShutdownTypes == ASSUME ITypes, Shutdown PROVE ITypes'
<1>1. \A f \in FlowIds : Garbage(flow[f]) \in Flow
  <2> TAKE f \in FlowIds
  <2>1. flow[f] \in Flow
    BY FlowTyped DEF ITypes
  <2> QED
    BY <2>1, NoneAssumption, StepAssumption DEF Garbage, NewFlow, Flow, Modes, TIE
<1>2. Len(flow) \in Nat /\ Len(duelSeats) \in Nat
  BY LenProperties DEF ITypes, TypeOK
<1>3. flow' \in Seq(Flow) /\ Len(flow') = Len(flow)
  BY <1>1, <1>2 DEF Shutdown, FlowIds
<1>4. duelSeats' \in Seq(Seating \cup {NoSeats}) /\ Len(duelSeats') = Len(duelSeats)
  BY <1>2 DEF Shutdown, DuelIds
<1>5. FlowIds' = FlowIds /\ DuelIds' = DuelIds
  BY <1>3, <1>4 DEF FlowIds, DuelIds
<1>6. Frame' = Frame /\ Screen' = Screen
  BY <1>5 DEF Frame, Screen
<1> QED
  BY <1>3, <1>4, <1>5, <1>6 DEF Shutdown, ITypes, TypeOK, ActiveSeated, returns

LEMMA ClockTicksTypes == ASSUME ITypes, ClockTicks PROVE ITypes'
<1>1. clock' \in Nat
  BY DEF ClockTicks, ITypes, TypeOK
<1> QED
  BY <1>1, StackTypes DEF ClockTicks, ITypes, TypeOK, returns, hostVars, managerVars

LEMMA InitTypes == ASSUME Init PROVE ITypes
<1>1. flow \in Seq(Flow) /\ stack \in Seq(Frame) /\ duelSeats \in Seq(Seating \cup {NoSeats})
  BY EmptySeq DEF Init
<1>2. client \in [Players -> Screen]
  BY DEF Init, Disconnected, Screen
<1> QED
  BY <1>1, <1>2 DEF Init, ITypes, TypeOK, ActiveSeated, NoSelection

LEMMA StutterTypes == ASSUME ITypes, UNCHANGED vars PROVE ITypes'
BY StackTypes DEF vars, ITypes, TypeOK, prepVars, returns, hostVars, managerVars

LEMMA NextTypes == ASSUME ITypes, [Next]_vars PROVE ITypes'
BY ServiceStepTypes, ServiceResumesTypes, NotifyStepTypes, SelectionStepTypes, CheckStepTypes,
   DuelStepTypes, SoloStepTypes, DropStepTypes, DeckStepTypes, RequestTypes, ShutdownTypes,
   ClockTicksTypes, StutterTypes
DEF Next, ThreadStep

\* The state is always well typed: every call on the stack names a flow, a
\* duel and players that exist, so no handler reads an entry that is missing,
\* and a live duel has a player in its first seat.
THEOREM TypeCorrect == Spec => [](TypeOK /\ ActiveSeated)
<1>1. Init => ITypes
  BY InitTypes
<1>2. ITypes /\ [Next]_vars => ITypes'
  BY NextTypes
<1>3. ITypes => TypeOK /\ ActiveSeated
  BY DEF ITypes
<1> QED
  BY <1>1, <1>2, <1>3, PTL DEF Spec

-----------------------------------------------------------------------------
(* InvitationUnrivalled and FlowsPaired.  FlowsPaired alone is not inductive: *)
(* InviteSelected writes two entries of `flows` which were checked before    *)
(* selection() ran, and selection() may have run any number of sweeps and    *)
(* notifications since.  InvitationUnrivalled says they were all harmless:   *)
(* above a pending invitation the stack holds only calls that free players.  *)

\* Calls that run while selection() is being asked for: they free players of
\* flows and never put one into a flow.
QuietOps == {"selection", "sweep", "changed", "publish", "logout", "leave", "duelEnded"}

\* The two players whom invite() found free are still free when it comes back
\* from selection(), whatever expired, ended or disconnected meanwhile.
InvitationUnrivalled ==
    \A i \in 1..Len(stack) : stack[i].op = "inviteSelected" =>
        /\ stack[i].actor # stack[i].target
        /\ flows[stack[i].actor] = 0 /\ flows[stack[i].target] = 0
        /\ \A j \in 1..(i - 1) : stack[j].op \in QuietOps

Unrivalled(s, held) ==
    \A i \in 1..Len(s) : s[i].op = "inviteSelected" =>
        /\ s[i].actor # s[i].target
        /\ held[s[i].actor] = 0 /\ held[s[i].target] = 0
        /\ \A j \in 1..(i - 1) : s[j].op \in QuietOps

\* Calls that may run over a pending invitation, and stacks without one.
Quiet(s) == \A i \in 1..Len(s) : s[i].op \in QuietOps
Calm(s) == \A i \in 1..Len(s) : s[i].op # "inviteSelected"

LEMMA QuietCall ==
    ASSUME NEW a, a.op \in QuietOps
    PROVE  Quiet(<<a>>)
BY DEF Quiet

LEMMA UnrivalledTail ==
    ASSUME NEW S, NEW s \in Seq(S), s # <<>>, NEW held, Unrivalled(s, held)
    PROVE  Unrivalled(Tail(s), held)
<1>1. /\ Len(s) \in Nat
      /\ Len(Tail(s)) = Len(s) - 1
      /\ \A i \in 1..Len(Tail(s)) : Tail(s)[i] = s[i + 1]
  BY HeadTailProperties, LenProperties
<1> SUFFICES ASSUME NEW i \in 1..Len(Tail(s)), Tail(s)[i].op = "inviteSelected"
             PROVE  /\ Tail(s)[i].actor # Tail(s)[i].target
                    /\ held[Tail(s)[i].actor] = 0 /\ held[Tail(s)[i].target] = 0
                    /\ \A j \in 1..(i - 1) : Tail(s)[j].op \in QuietOps
  BY DEF Unrivalled
<1>2. i + 1 \in 1..Len(s) /\ Tail(s)[i] = s[i + 1]
  BY <1>1
<1>3. \A j \in 1..(i - 1) : Tail(s)[j] = s[j + 1] /\ j + 1 \in 1..i
  BY <1>1
<1> QED
  BY <1>2, <1>3 DEF Unrivalled

\* A call that is not quiet has no invitation waiting for it.
LEMMA LoudIsAlone ==
    ASSUME NEW S, NEW s \in Seq(S), s # <<>>, NEW held, Unrivalled(s, held),
           Head(s).op \notin QuietOps
    PROVE  Calm(Tail(s))
<1>1. /\ Len(s) \in Nat
      /\ Len(Tail(s)) = Len(s) - 1
      /\ \A i \in 1..Len(Tail(s)) : Tail(s)[i] = s[i + 1]
      /\ Head(s) = s[1]
  BY HeadTailProperties, LenProperties
<1> SUFFICES ASSUME NEW i \in 1..Len(Tail(s)), Tail(s)[i].op = "inviteSelected"
             PROVE  FALSE
  BY DEF Calm
<1>2. i + 1 \in 1..Len(s) /\ s[i + 1].op = "inviteSelected" /\ 1 \in 1..((i + 1) - 1)
  BY <1>1
<1> QED
  BY <1>1, <1>2 DEF Unrivalled

LEMMA QuietOver ==
    ASSUME NEW S, NEW s \in Seq(S), NEW frames \in Seq(S), NEW held,
           Unrivalled(s, held), Quiet(frames)
    PROVE  Unrivalled(frames \o s, held)
<1> DEFINE n == Len(frames)
           t == frames \o s
<1>1. /\ n \in Nat /\ Len(s) \in Nat
      /\ Len(t) = n + Len(s)
      /\ \A i \in 1..(n + Len(s)) : t[i] = IF i <= n THEN frames[i] ELSE s[i - n]
  BY ConcatProperties, LenProperties
<1> SUFFICES ASSUME NEW i \in 1..Len(t), t[i].op = "inviteSelected"
             PROVE  /\ t[i].actor # t[i].target
                    /\ held[t[i].actor] = 0 /\ held[t[i].target] = 0
                    /\ \A j \in 1..(i - 1) : t[j].op \in QuietOps
  BY DEF Unrivalled
<1> HIDE DEF n, t
<1>2. i > n
  BY <1>1 DEF Quiet, QuietOps, n
<1>3. i - n \in 1..Len(s) /\ t[i] = s[i - n]
  BY <1>1, <1>2
<1>4. ASSUME NEW j \in 1..(i - 1) PROVE t[j].op \in QuietOps
  <2>1. CASE j <= n
    BY <1>1, <2>1 DEF Quiet, n
  <2>2. CASE j > n
    <3>1. j - n \in 1..((i - n) - 1) /\ t[j] = s[j - n]
      BY <1>1, <1>3, <2>2
    <3> QED
      BY <1>3, <3>1 DEF Unrivalled
  <2> QED
    BY <1>1, <2>1, <2>2
<1> QED
  BY <1>3, <1>4 DEF Unrivalled

LEMMA CalmOver ==
    ASSUME NEW S, NEW s \in Seq(S), NEW frames \in Seq(S), NEW held, Calm(s), Calm(frames)
    PROVE  /\ Calm(frames \o s)
           /\ Unrivalled(frames \o s, held)
<1>1. \A i \in 1..Len(frames \o s) :
        \/ i \in 1..Len(frames) /\ (frames \o s)[i] = frames[i]
        \/ i - Len(frames) \in 1..Len(s) /\ (frames \o s)[i] = s[i - Len(frames)]
  BY ConcatProperties, LenProperties
<1> QED
  BY <1>1 DEF Calm, Unrivalled

\* Freeing players disturbs no pending invitation.
Freed == \A p \in Players : flows'[p] \in {0, flows[p]}

LEMMA UnrivalledFreed ==
    ASSUME NEW s \in Seq(Frame), Unrivalled(s, flows), Freed
    PROVE  Unrivalled(s, flows')
<1> SUFFICES ASSUME NEW i \in 1..Len(s), s[i].op = "inviteSelected"
             PROVE  flows'[s[i].actor] = 0 /\ flows'[s[i].target] = 0
  BY DEF Unrivalled
<1>1. s[i] \in Frame
  BY ElementOfSeq
<1>2. s[i] \in InviteFrame
  BY <1>1 DEF Frame, Frames, PlayerFrame, NoticeFrame, OutcomeFrame, SweepFrame, InviteFrame,
       AnswerFrame, HandFrame, FirstFrame, PreparedFrame, FinishFrame, CurrentFrame,
       StartFrame, SetupFrame
<1>3. s[i].actor \in Players /\ s[i].target \in Players
  BY <1>2 DEF InviteFrame
<1> QED
  BY <1>3 DEF Unrivalled, Freed

LEMMA ExpiryQuiet == ASSUME NEW now PROVE Quiet(Expiry(now))
BY DEF Quiet, Expiry, QuietOps

IFlows == ITypes /\ FlowsPaired /\ InvitationUnrivalled

\* What a step owes to the two invariants.
FlowsKept == FlowsPaired' /\ Unrivalled(stack', flows')

LEMMA RestUnrivalled ==
    ASSUME IFlows, stack # <<>>
    PROVE  /\ Rest \in Seq(Frame)
           /\ Unrivalled(Rest, flows)
           /\ Top.op \notin QuietOps => Calm(Rest)
<1>1. stack \in Seq(Frame) /\ Unrivalled(stack, flows)
  BY DEF IFlows, ITypes, TypeOK, InvitationUnrivalled, Unrivalled
<1> QED
  BY <1>1, Popped, UnrivalledTail, LoudIsAlone DEF Top, Rest

\* The flows and their players are as before.
LEMMA PairedSame ==
    ASSUME ITypes, FlowsPaired, UNCHANGED flows,
           \A f \in FlowIds : /\ flow'[f].challenger = flow[f].challenger
                              /\ flow'[f].accepter = flow[f].accepter
    PROVE  FlowsPaired'
<1> SUFFICES ASSUME NEW p \in Players, flows'[p] # 0
             PROVE  /\ p \in {flow'[flows'[p]].challenger, flow'[flows'[p]].accepter}
                    /\ flow'[flows'[p]].challenger # flow'[flows'[p]].accepter
                    /\ \A q \in {flow'[flows'[p]].challenger, flow'[flows'[p]].accepter} :
                         flows'[q] = flows'[p]
  BY DEF FlowsPaired, Pair
<1>1. flows[p] = flows'[p] /\ flows[p] \in FlowIds
  BY DEF ITypes, TypeOK
<1> QED
  BY <1>1 DEF FlowsPaired, Pair

\* finish() takes both entries of a flow out of the map, and no other.
LEMMA PairedFinish ==
    ASSUME ITypes, FlowsPaired, NEW f \in FlowIds, NEW result, NEW rest, Finish(f, result, rest)
    PROVE  FlowsPaired' /\ Freed
<1>1. Freed
  BY DEF Finish, Freed, ITypes, TypeOK
<1> SUFFICES ASSUME NEW p \in Players, flows'[p] # 0
             PROVE  /\ p \in {flow'[flows'[p]].challenger, flow'[flows'[p]].accepter}
                    /\ flow'[flows'[p]].challenger # flow'[flows'[p]].accepter
                    /\ \A q \in {flow'[flows'[p]].challenger, flow'[flows'[p]].accepter} :
                         flows'[q] = flows'[p]
  BY <1>1 DEF FlowsPaired, Pair
<1> DEFINE g == flows[p]
<1>2. g # 0 /\ g \in FlowIds /\ flows'[p] = g
  BY <1>1 DEF Freed, ITypes, TypeOK
<1>3. /\ p \in Pair(g)
      /\ flow[g].challenger # flow[g].accepter
      /\ \A q \in Pair(g) : flows[q] = g
  BY <1>2 DEF FlowsPaired
<1>4. g # f
  BY <1>2, <1>3 DEF Finish, Pair
<1>5. flow'[g] = flow[g]
  BY <1>2, <1>4 DEF Finish, FlowIds, ITypes, TypeOK
<1>6. \A q \in Pair(g) : q \in Players
  BY <1>2, FlowTyped DEF Pair, Flow, ITypes
<1>7. \A q \in Pair(g) : flows'[q] = g
  BY <1>3, <1>4, <1>6 DEF Finish
<1> QED
  BY <1>2, <1>3, <1>5, <1>7 DEF Pair

\* The notifications of changed() are quiet.
LEMMA ChangedUnrivalled ==
    ASSUME NEW p \in Players, NEW q \in Players, NEW result \in Results,
           NEW rest \in Seq(Frame), Changed(p, q, result, rest)
    PROVE  /\ \A held : Unrivalled(rest, held) => Unrivalled(stack', held)
           /\ \A held : Calm(rest) => Unrivalled(stack', held)
<1> DEFINE frames == <<ChangedCall(p, result), ChangedCall(q, result)>>
<1>1. frames \in Seq(Frame)
  BY CallsTyped DEF ChangedCall, Frame, Frames, NoticeFrame
<1>2. Quiet(frames) /\ Calm(frames)
  BY DEF Quiet, Calm, QuietOps, ChangedCall
<1>3. stack' = frames \o rest
  BY DEF Changed
<1> HIDE DEF frames
<1> QED
  BY <1>1, <1>2, <1>3, QuietOver, CalmOver

LEMMA FinishKeepsFlows ==
    ASSUME IFlows, NEW f \in FlowIds, NEW result \in Results, NEW rest \in Seq(Frame),
           Finish(f, result, rest), Unrivalled(rest, flows)
    PROVE  FlowsKept
<1>1. FlowsPaired' /\ Freed
  BY PairedFinish DEF IFlows
<1>2. Unrivalled(rest, flows')
  BY <1>1, UnrivalledFreed
<1>3. flow[f] \in Flow
  BY FlowTyped DEF IFlows, ITypes
<1>4. Unrivalled(stack', flows')
  BY <1>2, <1>3, ChangedUnrivalled DEF Finish, Flow
<1> QED
  BY <1>1, <1>4 DEF FlowsKept

\* A call that neither makes nor ends a flow, but may push quiet calls.
LEMMA QuietKeepsFlows ==
    ASSUME IFlows, NEW frames \in Seq(Frame), Quiet(frames), NEW rest \in Seq(Frame),
           Unrivalled(rest, flows), stack' = frames \o rest, UNCHANGED <<flow, flows>>
    PROVE  FlowsKept
<1>1. Unrivalled(stack', flows')
  BY QuietOver
<1>2. FlowsPaired'
  BY PairedSame DEF IFlows
<1> QED
  BY <1>1, <1>2 DEF FlowsKept

LEMMA ReturnKeepsFlows ==
    ASSUME IFlows, stack # <<>>, Return, UNCHANGED <<flow, flows>>
    PROVE  FlowsKept
<1>1. Unrivalled(stack', flows')
  BY RestUnrivalled DEF Return
<1>2. FlowsPaired'
  BY PairedSame DEF IFlows
<1> QED
  BY <1>1, <1>2 DEF FlowsKept

\* A call that is not quiet may push others that are not.
LEMMA LoudKeepsFlows ==
    ASSUME IFlows, NEW frames \in Seq(Frame), Calm(frames), NEW rest \in Seq(Frame),
           Calm(rest), stack' = frames \o rest, UNCHANGED <<flow, flows>>
    PROVE  FlowsKept
<1>1. Unrivalled(stack', flows')
  BY CalmOver
<1>2. FlowsPaired'
  BY PairedSame DEF IFlows
<1> QED
  BY <1>1, <1>2 DEF FlowsKept

LEMMA SweepKeepsFlows == ASSUME IFlows, Sweep \/ SweepEnds PROVE FlowsKept
<1>1. stack # <<>> /\ Top \in SweepFrame(FlowIds) /\ Top.op = "sweep"
  BY Popped, KindOfTop DEF Sweep, SweepEnds, Running, IFlows, ITypes, TypeOK
<1>2. CASE Sweep
  <2> PICK f \in Top.todo :
        LET rest == <<[Top EXCEPT !.todo = @ \ {f}]>> \o Rest IN
        IF Overdue(f, Top.now) THEN Finish(f, "STALE", rest)
                               ELSE stack' = rest /\ UNCHANGED prepVars
    BY <1>2 DEF Sweep
  <2> DEFINE left == [Top EXCEPT !.todo = @ \ {f}]
             again == <<left>>
             rest == again \o Rest
  <2>1. f \in FlowIds /\ left \in Frame /\ left.op \in QuietOps
    BY <1>1 DEF SweepFrame, Frame, Frames, QuietOps
  <2>2. again \in Seq(Frame) /\ Quiet(again)
    <3> HIDE DEF left
    <3> QED
      BY <2>1, CallsTyped, QuietCall
  <2>3. rest \in Seq(Frame) /\ Unrivalled(rest, flows)
    <3> HIDE DEF again
    <3> QED
      BY <1>1, <2>2, RestUnrivalled, QuietOver, ConcatProperties
  <2>4. CASE Overdue(f, Top.now)
    <3>1. Finish(f, "STALE", rest)
      BY <2>4
    <3> HIDE DEF rest
    <3> QED
      BY <2>1, <2>3, <3>1, FinishKeepsFlows DEF Results
  <2>5. CASE ~Overdue(f, Top.now)
    <3>1. stack' = rest /\ UNCHANGED <<flow, flows>>
      BY <2>5 DEF prepVars
    <3> HIDE DEF again
    <3> QED
      BY <1>1, <2>2, <3>1, RestUnrivalled, QuietKeepsFlows
  <2> QED
    BY <2>4, <2>5
<1>3. CASE SweepEnds
  BY <1>1, <1>3, ReturnKeepsFlows DEF SweepEnds, prepVars
<1> QED
  BY <1>2, <1>3

LEMMA InviteKeepsFlows == ASSUME IFlows, Invite PROVE FlowsKept
<1>1. stack # <<>> /\ Top \in InviteFrame /\ Top.op \notin QuietOps
  BY Popped, KindOfTop DEF Invite, Running, QuietOps, IFlows, ITypes, TypeOK
<1>2. CASE Refused
  BY <1>1, <1>2, ReturnKeepsFlows DEF Refused, prepVars
<1>3. CASE /\ Top.actor # Top.target
           /\ Free(Top.actor) /\ Free(Top.target)
           /\ Call(<<SelectionCall(Top.actor), [Top EXCEPT !.op = "inviteSelected"]>>)
           /\ UNCHANGED prepVars
  <2> DEFINE asking == <<SelectionCall(Top.actor)>>
             pending == [Top EXCEPT !.op = "inviteSelected"]
             rest == <<pending>> \o Rest
  <2>1. Rest \in Seq(Frame) /\ Calm(Rest)
    BY <1>1, RestUnrivalled
  <2>2. /\ pending \in Frame
        /\ pending.actor = Top.actor /\ pending.target = Top.target
    BY <1>1 DEF InviteFrame, Frame, Frames
  <2>3. SelectionCall(Top.actor) \in Frame
    BY <1>1 DEF InviteFrame, SelectionCall, PlayerFrame, Frame, Frames
  <2>4. asking \in Seq(Frame) /\ Quiet(asking)
    BY <2>3, CallsTyped DEF Quiet, QuietOps, SelectionCall
  <2> HIDE DEF pending
  <2>5. rest \in Seq(Frame)
    BY <2>1, <2>2, CallsTyped, ConcatProperties
  <2>6. Unrivalled(rest, flows)
    <3>1. \A i \in 1..Len(rest) :
            \/ i = 1 /\ rest[i] = pending
            \/ i > 1 /\ i - 1 \in 1..Len(Rest) /\ rest[i] = Rest[i - 1]
      BY <2>1, <2>2, CallsTyped, ConcatProperties, LenProperties
    <3> QED
      BY <1>3, <2>1, <2>2, <3>1 DEF Unrivalled, Calm, Free
  <2>7. stack' = asking \o rest
    <3>1. stack' = <<SelectionCall(Top.actor), pending>> \o Rest
      BY <1>3 DEF Call, pending
    <3>2. <<SelectionCall(Top.actor), pending>> = asking \o <<pending>>
      OBVIOUS
    <3> QED
      BY <2>1, <2>2, <2>4, <3>1, <3>2, CallsTyped, ConcatAssociative
  <2> QED
    BY <1>3, <2>4, <2>5, <2>6, <2>7, QuietKeepsFlows DEF prepVars
<1> QED
  BY <1>2, <1>3 DEF Invite

LEMMA AcceptKeepsFlows == ASSUME IFlows, Accept PROVE FlowsKept
<1> DEFINE f == Top.id
           first == SelectionCall(flow[f].challenger)
           second == SelectionCall(flow[f].accepter)
           after == [Top EXCEPT !.op = "acceptSelected"]
<1>1. stack # <<>> /\ Top \in AnswerFrame(FlowIds) /\ Top.op \notin QuietOps
  BY Popped, KindOfTop DEF Accept, Running, QuietOps, IFlows, ITypes, TypeOK
<1>2. f \in FlowIds /\ flow[f] \in Flow
  BY <1>1, FlowTyped DEF AnswerFrame, IFlows, ITypes
<1>3. Rest \in Seq(Frame) /\ Unrivalled(Rest, flows) /\ Calm(Rest)
  BY <1>1, RestUnrivalled
<1>4. CASE Refused
  BY <1>1, <1>4, ReturnKeepsFlows DEF Refused, prepVars
<1>5. CASE Finish(f, Availability(f), Rest)
  BY <1>2, <1>3, <1>5, FinishKeepsFlows DEF Availability, Results
<1>6. CASE Call(<<first, second, after>>) /\ UNCHANGED prepVars
  <2>1. first \in Frame /\ second \in Frame /\ first.op = "selection" /\ second.op = "selection"
    BY <1>2 DEF Flow, SelectionCall, PlayerFrame, Frame, Frames
  <2>2. after \in Frame /\ after.op = "acceptSelected"
    BY <1>1 DEF AnswerFrame, Frame, Frames
  <2> HIDE DEF first, second, after
  <2>3. <<first, second, after>> \in Seq(Frame) /\ Calm(<<first, second, after>>)
    BY <2>1, <2>2, CallsTyped DEF Calm
  <2> QED
    BY <1>3, <1>6, <2>3, LoudKeepsFlows DEF Call, prepVars
<1> QED
  BY <1>4, <1>5, <1>6 DEF Accept

LEMMA AnswerKeepsFlows == ASSUME IFlows, Decline \/ Cancel PROVE FlowsKept
<1>1. stack # <<>> /\ Top \in AnswerFrame(FlowIds)
  BY Popped, KindOfTop DEF Decline, Cancel, Running, IFlows, ITypes, TypeOK
<1>2. CASE Refused
  BY <1>1, <1>2, ReturnKeepsFlows DEF Refused, prepVars
<1>3. CASE Finish(Top.id, "OK", Rest)
  BY <1>1, <1>3, RestUnrivalled, FinishKeepsFlows DEF AnswerFrame, Results
<1> QED
  BY <1>2, <1>3 DEF Decline, Cancel

\* A call that rewrites a flow keeps its players, and announces the change.
LEMMA RewriteKeepsFlows ==
    ASSUME IFlows, NEW f \in FlowIds, NEW new,
           new.challenger = flow[f].challenger, new.accepter = flow[f].accepter,
           flow' = [flow EXCEPT ![f] = new], UNCHANGED flows,
           NEW rest \in Seq(Frame), Calm(rest),
           Changed(flow[f].challenger, flow[f].accepter, "OK", rest)
    PROVE  FlowsKept
<1>1. \A g \in FlowIds : /\ flow'[g].challenger = flow[g].challenger
                         /\ flow'[g].accepter = flow[g].accepter
  BY DEF IFlows, ITypes, TypeOK, FlowIds
<1>2. FlowsPaired'
  BY <1>1, PairedSame DEF IFlows
<1>3. flow[f] \in Flow
  BY FlowTyped DEF IFlows, ITypes
<1>4. Unrivalled(stack', flows')
  BY <1>3, ChangedUnrivalled DEF Flow, Results
<1> QED
  BY <1>2, <1>4 DEF FlowsKept

LEMMA HandKeepsFlows == ASSUME IFlows, Hand PROVE FlowsKept
<1> DEFINE submitted == Submit(flow[Top.id], Top.actor, Top.hand)
           new == IF "none" \notin {submitted.challengerHand, submitted.accepterHand}
                  THEN Settle(submitted, Top.now) ELSE submitted
<1>1. stack # <<>> /\ Top \in HandFrame(FlowIds) /\ Top.op \notin QuietOps
  BY Popped, KindOfTop DEF Hand, Running, QuietOps, IFlows, ITypes, TypeOK
<1>2. Top.id \in FlowIds /\ flow[Top.id] \in Flow
  BY <1>1, FlowTyped DEF HandFrame, IFlows, ITypes
<1>3. CASE Refused
  BY <1>1, <1>3, ReturnKeepsFlows DEF Refused, prepVars
<1>4. CASE /\ flow' = [flow EXCEPT ![Top.id] = new]
           /\ Changed(flow[Top.id].challenger, flow[Top.id].accepter, "OK", Rest)
           /\ UNCHANGED flows
  <2>1. /\ submitted \in Flow
        /\ submitted.challenger = flow[Top.id].challenger
        /\ submitted.accepter = flow[Top.id].accepter
    BY <1>1, <1>2 DEF Submit, Flow, HandFrame, Hands
  <2> HIDE DEF submitted
  <2>2. /\ Settle(submitted, Top.now).challenger = submitted.challenger
        /\ Settle(submitted, Top.now).accepter = submitted.accepter
    BY <2>1 DEF Settle, NewRound, Flow
  <2>3. new.challenger = flow[Top.id].challenger /\ new.accepter = flow[Top.id].accepter
    BY <2>1, <2>2
  <2> HIDE DEF new
  <2> QED
    BY <1>1, <1>2, <1>4, <2>3, RestUnrivalled, RewriteKeepsFlows
<1> QED
  BY <1>3, <1>4 DEF Hand

LEMMA FirstKeepsFlows == ASSUME IFlows, First PROVE FlowsKept
<1> DEFINE f == Top.id
           start == [op |-> "startPrepared", flow |-> f, firstSeat |-> FirstSeat(f, Top.goFirst)]
           after == [op |-> "finishStart", flow |-> f, goFirst |-> Top.goFirst]
           new == [flow[f] EXCEPT !.mode = "STARTING"]
<1>1. stack # <<>> /\ Top \in FirstFrame(FlowIds) /\ Top.op \notin QuietOps
  BY Popped, KindOfTop DEF First, Running, QuietOps, IFlows, ITypes, TypeOK
<1>2. f \in FlowIds /\ flow[f] \in Flow
  BY <1>1, FlowTyped DEF FirstFrame, IFlows, ITypes
<1>3. Rest \in Seq(Frame) /\ Unrivalled(Rest, flows) /\ Calm(Rest)
  BY <1>1, RestUnrivalled
<1>4. CASE Refused
  BY <1>1, <1>4, ReturnKeepsFlows DEF Refused, prepVars
<1>5. CASE Finish(f, Availability(f), Rest)
  BY <1>2, <1>3, <1>5, FinishKeepsFlows DEF Availability, Results
<1>6. CASE /\ flow' = [flow EXCEPT ![f].mode = "STARTING"]
           /\ Changed(flow[f].challenger, flow[f].accepter, "OK", <<start, after>> \o Rest)
           /\ UNCHANGED flows
  <2>1. start \in Frame /\ start.op = "startPrepared"
    BY <1>1, <1>2 DEF FirstFrame, FirstSeat, Flow, Frame, Frames, PreparedFrame
  <2>2. after \in Frame /\ after.op = "finishStart"
    BY <1>1, <1>2 DEF FirstFrame, Frame, Frames, FinishFrame
  <2>3. /\ new.challenger = flow[f].challenger
        /\ new.accepter = flow[f].accepter
        /\ flow' = [flow EXCEPT ![f] = new]
    BY <1>2, <1>6 DEF Flow
  <2> HIDE DEF start, after, new
  <2>4. <<start, after>> \in Seq(Frame) /\ Calm(<<start, after>>)
    BY <2>1, <2>2, CallsTyped DEF Calm
  <2>5. <<start, after>> \o Rest \in Seq(Frame) /\ Calm(<<start, after>> \o Rest)
    BY <1>3, <2>4, CalmOver, ConcatProperties
  <2> QED
    BY <1>2, <1>6, <2>3, <2>5, RewriteKeepsFlows
<1> QED
  BY <1>4, <1>5, <1>6 DEF First

LEMMA LogoutKeepsFlows == ASSUME IFlows, Logout PROVE FlowsKept
<1> DEFINE f == flows[Top.player]
<1>1. stack # <<>> /\ f \in {0} \cup FlowIds
  BY Popped, KindOfTop DEF Logout, Running, PlayerFrame, IFlows, ITypes, TypeOK
<1>2. CASE Refused
  BY <1>1, <1>2, ReturnKeepsFlows DEF Refused, prepVars
<1>3. CASE f # 0 /\ Finish(f, "OFFLINE", Rest)
  BY <1>1, <1>3, RestUnrivalled, FinishKeepsFlows DEF Results
<1>4. CASE /\ f # 0
           /\ flow' = [flow EXCEPT ![f].loggedOutDuringStart = TRUE]
           /\ Return
           /\ UNCHANGED <<flows, revisions>>
  <2>1. \A g \in FlowIds : /\ flow'[g].challenger = flow[g].challenger
                           /\ flow'[g].accepter = flow[g].accepter
    <3> DEFINE new == [flow[f] EXCEPT !.loggedOutDuringStart = TRUE]
    <3>1. flow[f] \in Flow
      BY <1>1, <1>4, FlowTyped DEF IFlows, ITypes
    <3>2. new.challenger = flow[f].challenger /\ new.accepter = flow[f].accepter
      BY <3>1 DEF Flow
    <3>3. flow' = [flow EXCEPT ![f] = new]
      BY <1>4
    <3> HIDE DEF new
    <3> QED
      BY <3>2, <3>3 DEF IFlows, ITypes, TypeOK, FlowIds
  <2>2. FlowsPaired'
    BY <1>4, <2>1, PairedSame DEF IFlows
  <2>3. Unrivalled(stack', flows')
    BY <1>1, <1>4, RestUnrivalled DEF Return
  <2> QED
    BY <2>2, <2>3 DEF FlowsKept
<1> QED
  BY <1>1, <1>2, <1>3, <1>4 DEF Logout

LEMMA OutcomeKeepsFlows == ASSUME IFlows, DuelEnded \/ StartFinished PROVE FlowsKept
<1>1. stack # <<>> /\ Top.player \in Players
  BY Popped, KindOfTop
  DEF DuelEnded, StartFinished, Running, IFlows, ITypes, TypeOK, PlayerFrame, OutcomeFrame
<1>2. PICK result \in Results : Advanced(Top.player, result)
  BY DEF DuelEnded, StartFinished, Results
<1>3. ChangedCall(Top.player, result) \in Frame /\ ChangedCall(Top.player, result).op = "changed"
  BY <1>1 DEF ChangedCall, Frame, Frames, NoticeFrame
<1>4. /\ <<ChangedCall(Top.player, result)>> \in Seq(Frame)
      /\ Quiet(<<ChangedCall(Top.player, result)>>)
  BY <1>3, CallsTyped, QuietCall DEF QuietOps
<1> QED
  BY <1>1, <1>2, <1>4, RestUnrivalled, QuietKeepsFlows DEF Advanced, Call

LEMMA ServiceStepKeepsFlows == ASSUME IFlows, ServiceStep PROVE FlowsKept
BY SweepKeepsFlows, InviteKeepsFlows, AcceptKeepsFlows, AnswerKeepsFlows, HandKeepsFlows,
   FirstKeepsFlows, LogoutKeepsFlows, OutcomeKeepsFlows DEF ServiceStep

\* The two entries written for a new flow are those that were found empty.
LEMMA InviteSelectedKeepsFlows == ASSUME IFlows, InviteSelected PROVE FlowsKept
<1> DEFINE p == Top.actor
           q == Top.target
           new == Len(flow) + 1
           made == NewFlow(p, q, Top.now)
<1>1. stack # <<>> /\ Top \in InviteFrame /\ Top.op = "inviteSelected"
  BY Popped, KindOfTop DEF InviteSelected, Running, IFlows, ITypes, TypeOK
<1>2. p \in Players /\ q \in Players /\ p # q /\ flows[p] = 0 /\ flows[q] = 0
  <2>1. 1 \in 1..Len(stack) /\ stack[1] = Top
    BY <1>1, LenProperties DEF Top, IFlows, ITypes, TypeOK
  <2> QED
    BY <1>1, <2>1 DEF IFlows, InvitationUnrivalled, InviteFrame
<1>3. CASE Refused
  BY <1>1, <1>3, ReturnKeepsFlows DEF Refused, prepVars
<1>4. CASE /\ flow' = Append(flow, made)
           /\ flows' = [flows EXCEPT ![p] = new, ![q] = new]
           /\ Changed(p, q, "OK", Rest)
  <2>1. made.challenger = p /\ made.accepter = q
    BY DEF NewFlow
  <2>2. /\ Len(flow) \in Nat
        /\ \A f \in FlowIds : flow'[f] = flow[f] /\ f # new
        /\ flow'[new] = made
    BY <1>4, LenProperties DEF FlowIds, IFlows, ITypes, TypeOK
  <2> HIDE DEF new, made
  <2>3. FlowsPaired'
    <3> SUFFICES ASSUME NEW x \in Players, flows'[x] # 0
                 PROVE  /\ x \in {flow'[flows'[x]].challenger, flow'[flows'[x]].accepter}
                        /\ flow'[flows'[x]].challenger # flow'[flows'[x]].accepter
                        /\ \A y \in {flow'[flows'[x]].challenger, flow'[flows'[x]].accepter} :
                             flows'[y] = flows'[x]
      BY DEF FlowsPaired, Pair
    <3>1. CASE x \in {p, q}
      <4>1. flows'[p] = new /\ flows'[q] = new
        BY <1>2, <1>4 DEF IFlows, ITypes, TypeOK
      <4> QED
        BY <1>2, <2>1, <2>2, <3>1, <4>1
    <3>2. CASE x \notin {p, q}
      <4> DEFINE f == flows[x]
      <4>1. flows'[x] = f /\ f # 0 /\ f \in FlowIds /\ flow'[f] = flow[f]
        BY <1>2, <1>4, <2>2, <3>2 DEF IFlows, ITypes, TypeOK
      <4>2. /\ x \in Pair(f)
            /\ flow[f].challenger # flow[f].accepter
            /\ \A y \in Pair(f) : flows[y] = f
        BY <4>1 DEF IFlows, FlowsPaired
      <4>3. \A y \in Pair(f) : y \in Players /\ y \notin {p, q}
        BY <1>2, <4>1, <4>2, FlowTyped DEF Pair, Flow, IFlows, ITypes
      <4>4. \A y \in Pair(f) : flows'[y] = f
        BY <1>2, <1>4, <4>2, <4>3 DEF IFlows, ITypes, TypeOK
      <4> QED
        BY <4>1, <4>2, <4>4 DEF Pair
    <3> QED
      BY <3>1, <3>2
  <2>4. Unrivalled(stack', flows')
    BY <1>1, <1>2, <1>4, RestUnrivalled, ChangedUnrivalled DEF QuietOps, Results
  <2> QED
    BY <2>3, <2>4 DEF FlowsKept
<1> QED
  BY <1>3, <1>4 DEF InviteSelected

LEMMA ServiceResumesKeepsFlows == ASSUME IFlows, ServiceResumes PROVE FlowsKept
<1>1. CASE AcceptSelected
  <2> DEFINE f == Top.id
             ready == [flow[f] EXCEPT !.prepared =
                         [challenger |-> selected[flow[f].challenger],
                          accepter |-> selected[flow[f].accepter]]]
             new == NewRound(ready, Top.now)
  <2>1. stack # <<>> /\ Top \in AnswerFrame(FlowIds) /\ Top.op \notin QuietOps
    BY <1>1, Popped, KindOfTop DEF AcceptSelected, Running, QuietOps, IFlows, ITypes, TypeOK
  <2>2. f \in FlowIds /\ flow[f] \in Flow
    BY <2>1, FlowTyped DEF AnswerFrame, IFlows, ITypes
  <2>3. CASE Refused
    BY <2>1, <2>3, ReturnKeepsFlows DEF Refused, prepVars
  <2>4. CASE /\ flow' = [flow EXCEPT ![f] = new]
             /\ Changed(flow[f].challenger, flow[f].accepter, "OK", Rest)
             /\ UNCHANGED flows
    <3>1. /\ DOMAIN ready = DOMAIN flow[f]
          /\ ready.challenger = flow[f].challenger
          /\ ready.accepter = flow[f].accepter
      BY <2>2 DEF Flow
    <3>2. {"challenger", "accepter"} \subseteq DOMAIN flow[f]
      BY <2>2 DEF Flow
    <3> HIDE DEF ready
    <3>3. new.challenger = ready.challenger /\ new.accepter = ready.accepter
      BY <3>1, <3>2 DEF NewRound
    <3> HIDE DEF new
    <3> QED
      BY <2>1, <2>2, <2>4, <3>1, <3>3, RestUnrivalled, RewriteKeepsFlows
  <2> QED
    BY <1>1, <2>3, <2>4 DEF AcceptSelected
<1>2. CASE FinishStart
  <2>1. stack # <<>> /\ Top \in FinishFrame(FlowIds)
    BY <1>2, Popped, KindOfTop DEF FinishStart, Running, IFlows, ITypes, TypeOK
  <2> QED
    BY <1>2, <2>1, RestUnrivalled, FinishKeepsFlows DEF FinishStart, FinishFrame, Results
<1> QED
  BY <1>1, <1>2, InviteSelectedKeepsFlows DEF ServiceResumes

\* A step of the manager leaves the flows alone, and may make quiet calls...
LEMMA QuietCalls ==
    ASSUME IFlows, UNCHANGED prepVars, NEW rest \in Seq(Frame), Unrivalled(rest, flows),
           NEW a, NEW b, a.op \in QuietOps, b.op \in QuietOps,
           stack' = <<a>> \o rest \/ stack' = <<a, b>> \o rest
    PROVE  FlowsKept
<1> DEFINE S == Frame \cup {a, b}
<1>1. /\ rest \in Seq(S)
      /\ <<a>> \in Seq(S) /\ Quiet(<<a>>)
      /\ <<a, b>> \in Seq(S) /\ Quiet(<<a, b>>)
  BY SeqMonotonic, CallsTyped DEF Quiet
<1>2. Unrivalled(stack', flows')
  BY <1>1, QuietOver DEF prepVars
<1>3. FlowsPaired'
  BY PairedSame DEF IFlows, prepVars
<1> QED
  BY <1>2, <1>3 DEF FlowsKept

\* ... or any calls but an invitation, if none waits below.
LEMMA LoudCalls ==
    ASSUME IFlows, UNCHANGED prepVars, NEW rest \in Seq(Frame), Calm(rest),
           NEW frames \in Seq(Frame), Calm(frames), NEW a, NEW b, NEW c,
           a.op # "inviteSelected", b.op # "inviteSelected", c.op # "inviteSelected",
           \/ stack' = frames \o rest
           \/ stack' = <<a>> \o rest \/ stack' = <<a, b>> \o rest
           \/ stack' = <<a, b, c>> \o rest
    PROVE  FlowsKept
<1> DEFINE S == Frame \cup {a, b, c}
<1>1. /\ rest \in Seq(S) /\ frames \in Seq(S)
      /\ <<a>> \in Seq(S) /\ Calm(<<a>>)
      /\ <<a, b>> \in Seq(S) /\ Calm(<<a, b>>)
      /\ <<a, b, c>> \in Seq(S) /\ Calm(<<a, b, c>>)
  BY SeqMonotonic, CallsTyped DEF Calm
<1>2. Unrivalled(stack', flows')
  BY <1>1, CalmOver
<1>3. FlowsPaired'
  BY PairedSame DEF IFlows, prepVars
<1> QED
  BY <1>2, <1>3 DEF FlowsKept

LEMMA CalmKeepsFlows == ASSUME IFlows, UNCHANGED prepVars, Calm(stack') PROVE FlowsKept
BY PairedSame DEF IFlows, prepVars, FlowsKept, Calm, Unrivalled

\* What a waiting server is asked for: a sweep if one is due, then these calls.
LEMMA AskedCalm ==
    ASSUME ITypes, NEW a, NEW b, a.op # "inviteSelected", b.op # "inviteSelected"
    PROVE  /\ Calm(Expiry(clock))
           /\ Calm(Expiry(clock) \o <<a>>)
           /\ Calm(Expiry(clock) \o <<a, b>>)
<1> DEFINE S == Frame \cup {a, b}
           e == Expiry(clock)
<1>1. e \in Seq(Frame)
  BY ExpiryTypes DEF ITypes, TypeOK
<1>2. Calm(e)
  BY DEF Expiry, Calm
<1> HIDE DEF e
<1>3. /\ e \in Seq(S)
      /\ <<a>> \in Seq(S) /\ Calm(<<a>>)
      /\ <<a, b>> \in Seq(S) /\ Calm(<<a, b>>)
  BY <1>1, SeqMonotonic, CallsTyped DEF Calm
<1>4. Calm(e \o <<a>>) /\ Calm(e \o <<a, b>>)
  BY <1>2, <1>3, CalmOver
<1> QED
  BY <1>2, <1>4 DEF e

LEMMA NotifyStepKeepsFlows == ASSUME IFlows, NotifyStep PROVE FlowsKept
<1>1. stack # <<>> /\ Rest \in Seq(Frame) /\ Unrivalled(Rest, flows)
  BY RestUnrivalled DEF NotifyStep, Notify, Publish, Reply, Running
<1>2. UNCHANGED prepVars
  BY DEF NotifyStep
<1>3. CASE Return
  BY <1>1, <1>2, <1>3, ReturnKeepsFlows DEF prepVars
<1>4. CASE Notify /\ ~Return
  <2> DEFINE publish == [Top EXCEPT !.op = "publish"]
  <2>1. Top \in NoticeFrame
    BY <1>4, Popped, KindOfTop DEF Notify, Running, IFlows, ITypes, TypeOK
  <2>2. publish \in Frame /\ publish.op \in QuietOps
    BY <2>1 DEF NoticeFrame, Frame, Frames, QuietOps
  <2>3. stack' = (Expiry(clock) \o <<publish>>) \o Rest
    BY <1>4 DEF Notify, Call
  <2> HIDE DEF publish
  <2>4. Expiry(clock) \in Seq(Frame) /\ Quiet(Expiry(clock))
    BY ExpiryTypes, ExpiryQuiet DEF IFlows, ITypes, TypeOK
  <2>5. <<publish>> \in Seq(Frame) /\ Quiet(<<publish>>)
    BY <2>2, CallsTyped, QuietCall
  <2>6. <<publish>> \o Rest \in Seq(Frame) /\ Unrivalled(<<publish>> \o Rest, flows)
    BY <1>1, <2>5, QuietOver, ConcatProperties
  <2>7. stack' = Expiry(clock) \o (<<publish>> \o Rest)
    BY <1>1, <2>3, <2>4, <2>5, ConcatAssociative
  <2> QED
    BY <1>2, <2>4, <2>6, <2>7, QuietKeepsFlows DEF prepVars
<1> QED
  BY <1>3, <1>4 DEF NotifyStep, Publish, Reply

LEMMA SelectionStepKeepsFlows == ASSUME IFlows, SelectionStep PROVE FlowsKept
<1>1. /\ stack # <<>> /\ Rest \in Seq(Frame) /\ Unrivalled(Rest, flows)
      /\ UNCHANGED prepVars
  BY RestUnrivalled DEF SelectionStep, SelectionMissing, SelectionFails, SelectionRejected,
     SelectionAccepted, Running
<1>2. CASE Denied
  <2>1. Expiry(clock) \in Seq(Frame) /\ Quiet(Expiry(clock))
    BY ExpiryTypes, ExpiryQuiet DEF IFlows, ITypes, TypeOK
  <2> QED
    BY <1>1, <1>2, <2>1, QuietKeepsFlows DEF Denied, Call, prepVars
<1>3. CASE SelectionAccepted
  BY <1>1, <1>3, ReturnKeepsFlows DEF SelectionAccepted, prepVars
<1> QED
  BY <1>2, <1>3 DEF SelectionStep, SelectionMissing, SelectionFails, SelectionRejected

LEMMA DropStepKeepsFlows == ASSUME IFlows, DropStep PROVE FlowsKept
<1>1. ASSUME NEW p, NEW rest \in Seq(Frame), Unrivalled(rest, flows), Drop(p, rest)
      PROVE  FlowsKept
  <2> DEFINE logout == [op |-> "logout", player |-> p]
             leave == [op |-> "leave", player |-> p]
  <2>1. logout.op \in QuietOps /\ leave.op \in QuietOps
    BY DEF QuietOps
  <2>2. stack' = <<logout, leave>> \o rest /\ UNCHANGED prepVars
    BY <1>1 DEF Drop, DropStep
  <2> HIDE DEF logout, leave
  <2> QED
    BY <1>1, <2>1, <2>2, QuietCalls
<1>2. stack \in Seq(Frame) /\ Unrivalled(stack, flows)
  BY DEF IFlows, ITypes, TypeOK, InvitationUnrivalled, Unrivalled
<1>3. <<>> \in Seq(Frame) /\ Unrivalled(<<>>, flows)
  BY EmptySeq DEF Unrivalled
<1> QED
  BY <1>1, <1>2, <1>3 DEF DropStep, ListenerDisconnectsOwner, Disconnect

LEMMA CheckStepKeepsFlows == ASSUME IFlows, CheckStep PROVE FlowsKept
<1> DEFINE p == Top.player
           f == flow[Top.flow]
<1>1. /\ stack # <<>> /\ Top.op \notin QuietOps
      /\ UNCHANGED prepVars
  BY DEF CheckStep, StartPrepared, Current, StartChecked, SoloSelected, SoloChecked, CancelOwn,
         Running, QuietOps
<1>2. Rest \in Seq(Frame) /\ Calm(Rest)
  BY <1>1, RestUnrivalled
<1>3. CASE Return
  BY <1>1, <1>3, ReturnKeepsFlows DEF prepVars
<1>4. ASSUME NEW frames \in Seq(Frame), Calm(frames), Call(frames) PROVE FlowsKept
  BY <1>1, <1>2, <1>4, LoudKeepsFlows DEF Call, prepVars
<1>one. ASSUME NEW a, a.op # "inviteSelected", Call(<<a>>) PROVE FlowsKept
  BY <1>1, <1>2, <1>one, LoudCalls, EmptySeq DEF Call, Calm
<1>three. ASSUME NEW a, NEW b, NEW c, a.op # "inviteSelected", b.op # "inviteSelected",
                 c.op # "inviteSelected", Call(<<a, b, c>>)
         PROVE  FlowsKept
  BY <1>1, <1>2, <1>three, LoudCalls, EmptySeq DEF Call, Calm
<1>6. \A x, d : CurrentCall(x, d).op # "inviteSelected"
  BY DEF CurrentCall
<1>7. \A x : SelectionCall(x).op # "inviteSelected"
  BY DEF SelectionCall
<1>8. \A s, d : StartCall(s, d).op # "inviteSelected"
  BY DEF StartCall
<1>9. \A op, x : SoloCall(op, x).op = op
  BY DEF SoloCall
<1>10. CASE StartPrepared
  <2> DEFINE after == [Top EXCEPT !.op = "startChecked"]
  <2>1. Top \in PreparedFrame(FlowIds)
    BY <1>10, Popped, KindOfTop DEF StartPrepared, Running, IFlows, ITypes, TypeOK
  <2>2. after.op # "inviteSelected"
    BY <2>1 DEF PreparedFrame
  <2>3. Call(<<CurrentCall(f.challenger, f.prepared.challenger),
               CurrentCall(f.accepter, f.prepared.accepter), after>>)
    BY <1>10 DEF StartPrepared
  <2> HIDE DEF after
  <2> QED
    BY <1>three, <1>6, <2>2, <2>3
<1>11. CASE Current
  BY <1>3, <1>one, <1>7, <1>11 DEF Current
<1>12. CASE StartChecked
  BY <1>3, <1>one, <1>8, <1>12 DEF StartChecked
<1>13. CASE SoloSelected
  BY <1>one, <1>three, <1>6, <1>9, <1>13 DEF SoloSelected
<1>14. CASE SoloChecked
  BY <1>3, <1>one, <1>8, <1>14 DEF SoloChecked
<1>15. CASE CancelOwn
  <2> DEFINE cancel == [op |-> "cancel", actor |-> p, id |-> flows[p], now |-> clock]
  <2>1. CASE flows[p] # 0
    <3>1. Call(Expiry(clock) \o <<cancel>>)
      BY <1>15, <2>1 DEF CancelOwn
    <3>2. cancel \in Frame
      <4>1. p \in Players
        BY <1>15, Popped, KindOfTop DEF CancelOwn, Running, PlayerFrame, IFlows, ITypes, TypeOK
      <4> QED
        BY <2>1, <4>1 DEF IFlows, ITypes, TypeOK, AnswerFrame, Frame, Frames
    <3>3. cancel.op # "inviteSelected"
      OBVIOUS
    <3> HIDE DEF cancel
    <3>4. Expiry(clock) \o <<cancel>> \in Seq(Frame)
      BY <3>2, CallsTyped, ExpiryTypes, ConcatProperties DEF IFlows, ITypes, TypeOK
    <3>5. Calm(Expiry(clock) \o <<cancel>>)
      BY <3>3, AskedCalm DEF IFlows
    <3> QED
      BY <1>4, <3>1, <3>4, <3>5
  <2> QED
    BY <1>3, <1>15, <2>1 DEF CancelOwn
<1> QED
  BY <1>10, <1>11, <1>12, <1>13, <1>14, <1>15 DEF CheckStep

LEMMA FinishDuelKeepsFlows ==
    ASSUME IFlows, UNCHANGED prepVars, NEW id, NEW rest \in Seq(Frame),
           Unrivalled(rest, flows), FinishDuel(id, rest)
    PROVE  FlowsKept
<1> DEFINE seats == duelSeats[id]
           a == [op |-> "duelEnded", player |-> seats[0]]
           b == [op |-> "duelEnded", player |-> seats[1]]
<1>1. a.op \in QuietOps /\ b.op \in QuietOps
  BY DEF QuietOps
<1>2. DuelEndedCalls(seats) = <<a>> \/ DuelEndedCalls(seats) = <<a, b>>
  BY DEF DuelEndedCalls
<1>3. stack' = DuelEndedCalls(seats) \o rest
  BY DEF FinishDuel
<1> HIDE DEF a, b
<1> QED
  BY <1>1, <1>2, <1>3, QuietCalls

LEMMA DuelStepKeepsFlows == ASSUME IFlows, DuelStep PROVE FlowsKept
<1>1. UNCHANGED prepVars
  BY DEF DuelStep
<1>2. CASE StartInstalls
  <2> DEFINE setup == [op |-> "setup", duel |-> Len(duelSeats) + 1]
  <2>1. Rest \in Seq(Frame) /\ Calm(Rest)
    BY <1>2, RestUnrivalled DEF StartInstalls, Running, QuietOps
  <2>2. stack' = <<setup>> \o Rest /\ setup.op # "inviteSelected"
    BY <1>2 DEF StartInstalls, Call
  <2> HIDE DEF setup
  <2> QED
    BY <1>1, <2>1, <2>2, LoudCalls, EmptySeq DEF Calm
<1>3. CASE StartThrows \/ SetupRuns \/ SetupThrows
  <2>1. stack # <<>> /\ Return
    BY <1>3 DEF StartThrows, SetupRuns, SetupThrows, Running
  <2> QED
    BY <1>1, <2>1, ReturnKeepsFlows DEF prepVars
<1>4. CASE SetupCompletes
  BY <1>1, <1>4, RestUnrivalled, FinishDuelKeepsFlows DEF SetupCompletes, Running
<1>5. CASE Leave
  <2>1. stack # <<>>
    BY <1>5 DEF Leave, Running
  <2> QED
    BY <1>1, <1>5, <2>1, RestUnrivalled, FinishDuelKeepsFlows, ReturnKeepsFlows DEF Leave, prepVars
<1>6. <<>> \in Seq(Frame) /\ Unrivalled(<<>>, flows)
  BY EmptySeq DEF Unrivalled
<1>7. CASE \E id \in DuelIds : ResponseEndsDuel(id)
  BY <1>1, <1>6, <1>7, FinishDuelKeepsFlows DEF ResponseEndsDuel
<1>8. CASE \E p \in Players : Forfeit(p)
  <2>1. PICK p \in Players : Forfeit(p)
    BY <1>8
  <2>2. CASE FinishDuel(playerToDuel[p], <<>>)
    BY <1>1, <1>6, <2>2, FinishDuelKeepsFlows
  <2>3. CASE stack' = Expiry(clock) \o <<SoloCall("cancelOwn", p)>>
    <3>1. SoloCall("cancelOwn", p).op # "inviteSelected"
      BY DEF SoloCall
    <3>2. Calm(stack')
      BY <2>3, <3>1, AskedCalm DEF IFlows
    <3> QED
      BY <1>1, <3>2, CalmKeepsFlows
  <2> QED
    BY <2>1, <2>2, <2>3 DEF Forfeit
<1> QED
  BY <1>2, <1>3, <1>4, <1>5, <1>7, <1>8 DEF DuelStep

LEMMA SoloStepKeepsFlows == ASSUME IFlows, SoloStep PROVE FlowsKept
<1> DEFINE p == Top.player
           outcome == [op |-> "startFinished", player |-> p, success |-> started]
<1>1. UNCHANGED prepVars /\ Rest \in Seq(Frame) /\ Calm(Rest)
  BY RestUnrivalled DEF SoloStep, SoloGuard, SoloFinally, Running, QuietOps
<1>2. /\ SelectionCall(p).op # "inviteSelected"
      /\ SoloCall("soloSelected", p).op # "inviteSelected"
      /\ outcome.op # "inviteSelected"
  BY DEF SelectionCall, SoloCall
<1>3. \/ stack' = <<SelectionCall(p), SoloCall("soloSelected", p)>> \o Rest
      \/ stack' = <<outcome>> \o Rest
  BY DEF SoloStep, SoloGuard, SoloFinally, Call
<1> HIDE DEF outcome
<1> QED
  BY <1>1, <1>2, <1>3, LoudCalls, EmptySeq DEF Calm

LEMMA ServeCalm ==
    ASSUME ITypes, NEW command, command.op # "inviteSelected", Serve(command)
    PROVE  Calm(stack')
<1>1. ReplyCall(command.actor).op # "inviteSelected"
  BY DEF ReplyCall
<1> QED
  BY <1>1, AskedCalm DEF Serve, ServePacket, ServeChat

LEMMA RequestKeepsFlows == ASSUME IFlows, Request PROVE FlowsKept
<1>1. ITypes
  BY DEF IFlows
<1>2. CASE ServerTick
  BY <1>1, <1>2, AskedCalm, CalmKeepsFlows DEF ServerTick, Request, Expiry, Calm
<1>3. ASSUME NEW p \in Players, RequestView(p) PROVE Calm(stack')
  <2>1. ReplyCall(p).op # "inviteSelected"
    BY DEF ReplyCall
  <2> QED
    BY <1>1, <1>3, <2>1, AskedCalm DEF RequestView
<1>4. ASSUME NEW p \in Players, RequestSolo(p) PROVE Calm(stack')
  <2>1. /\ SoloCall("cancelOwn", p).op # "inviteSelected"
        /\ SoloCall("soloGuard", p).op # "inviteSelected"
    BY DEF SoloCall
  <2> QED
    BY <1>1, <1>4, <2>1, AskedCalm DEF RequestSolo
<1>5. ASSUME NEW p, NEW q, RequestInvite(p, q) PROVE Calm(stack')
  BY <1>1, <1>5, ServeCalm DEF RequestInvite
<1>6. ASSUME NEW p, NEW f, NEW op \in {"accept", "decline", "cancel"}, RequestAnswer(op, p, f)
      PROVE  Calm(stack')
  BY <1>1, <1>6, ServeCalm DEF RequestAnswer
<1>7. ASSUME NEW p, NEW f, NEW r, NEW h, RequestHand(p, f, r, h) PROVE Calm(stack')
  BY <1>1, <1>7, ServeCalm DEF RequestHand
<1>8. ASSUME NEW p, NEW f, NEW goFirst, RequestFirst(p, f, goFirst) PROVE Calm(stack')
  BY <1>1, <1>8, ServeCalm DEF RequestFirst
<1> QED
  BY <1>2, <1>3, <1>4, <1>5, <1>6, <1>7, <1>8, CalmKeepsFlows DEF Request

LEMMA OthersKeepFlows ==
    ASSUME IFlows, DeckStep \/ ClockTicks \/ Shutdown \/ UNCHANGED vars
    PROVE  FlowsKept
<1>1. CASE Shutdown
  <2>1. FlowsPaired'
    BY <1>1 DEF Shutdown, FlowsPaired
  <2>2. stack' = <<>>
    BY <1>1 DEF Shutdown, Waiting
  <2> QED
    BY <2>1, <2>2 DEF FlowsKept, Unrivalled
<1>2. CASE DeckStep \/ ClockTicks \/ UNCHANGED vars
  <2>1. stack' = stack /\ UNCHANGED prepVars
    BY <1>2 DEF DeckStep, ClockTicks, vars
  <2>2. FlowsPaired'
    BY <2>1, PairedSame DEF IFlows, prepVars
  <2> QED
    BY <2>1, <2>2 DEF FlowsKept, Unrivalled, IFlows, InvitationUnrivalled, prepVars
<1> QED
  BY <1>1, <1>2

LEMMA NextKeepsFlows == ASSUME IFlows, [Next]_vars PROVE IFlows'
<1>1. FlowsKept
  BY ServiceStepKeepsFlows, ServiceResumesKeepsFlows, NotifyStepKeepsFlows,
     SelectionStepKeepsFlows, CheckStepKeepsFlows, DuelStepKeepsFlows, SoloStepKeepsFlows,
     DropStepKeepsFlows, RequestKeepsFlows, OthersKeepFlows DEF Next, ThreadStep
<1>2. InvitationUnrivalled'
  BY <1>1 DEF FlowsKept, Unrivalled, InvitationUnrivalled
<1> QED
  BY <1>1, <1>2, NextTypes DEF IFlows, FlowsKept

LEMMA InitFlows == ASSUME Init PROVE IFlows
<1>1. FlowsPaired
  BY DEF Init, FlowsPaired
<1>2. InvitationUnrivalled
  <2>1. Len(stack) = 0
    BY DEF Init
  <2> QED
    BY <2>1 DEF InvitationUnrivalled
<1> QED
  BY <1>1, <1>2, InitTypes DEF IFlows

\* Between invite() finding two players free and the entry of their flow, no
\* sweep, notification or disconnect of a deck check gives either a flow.
THEOREM InvitationsHold == Spec => []InvitationUnrivalled
<1>1. Init => IFlows
  BY InitFlows
<1>2. IFlows /\ [Next]_vars => IFlows'
  BY NextKeepsFlows
<1>3. IFlows => InvitationUnrivalled
  BY DEF IFlows
<1> QED
  BY <1>1, <1>2, <1>3, PTL DEF Spec

\* However requests, expiries, disconnects and re-entrant calls interleave,
\* and for any number of players and flows: the two entries of a flow come and
\* go together.
THEOREM FlowsStayPaired == Spec => []FlowsPaired
<1>1. Init => IFlows
  BY InitFlows
<1>2. IFlows /\ [Next]_vars => IFlows'
  BY NextKeepsFlows
<1>3. IFlows => FlowsPaired
  BY DEF IFlows
<1> QED
  BY <1>1, <1>2, <1>3, PTL DEF Spec

-----------------------------------------------------------------------------
(***************************************************************************)
(* The call stack of the server thread, and what it guarantees to the      *)
(* flows.  Most of it rests on one invariant: which call may wait for      *)
(* which, so that at most one start is ever pending and nothing but        *)
(* notifications and their sweeps can come between a request and its       *)
(* selections.                                                             *)
(***************************************************************************)
(* The order of the calls *)

CallsOf(s) == {s[i] : i \in 1..Len(s)}
Calls == CallsOf(stack)
Below == CallsOf(Rest)

\* Calls that wait for nobody but the reply, and calls that come last.
Rounds == {"invite", "inviteSelected", "accept", "acceptSelected", "decline", "hand", "first",
           "finishStart"}
Lasts == {"reply", "soloGuard", "soloSelected", "soloFinally", "startFinished"}

\* Whether b may wait for a.
MayCover(a, b) ==
    /\ a.op \in QuietOps => b.op \notin {"start", "setup"}
    /\ a.op \in Rounds => b.op = "reply"
    /\ a.op = "cancel" => \/ b.op = "reply"
                          \/ b.op = "soloGuard" /\ b.player = a.actor
    /\ a.op = "cancelOwn" => b.op = "soloGuard" /\ b.player = a.player
    /\ a.op \notin Lasts
    /\ a.op \in {"startPrepared", "startChecked"} =>
         \/ b.op = "reply"
         \/ b.op = "finishStart" /\ b.flow = a.flow
    /\ a.op = "current" => b.op \in {"current", "startChecked", "finishStart", "soloChecked",
                                     "soloFinally", "reply"}
    /\ a.op = "soloChecked" => b.op = "soloFinally" /\ b.player = a.player
    /\ a.op \in {"start", "setup"} => b.op \in {"finishStart", "soloFinally", "reply"}
    /\ a.op \in {"selection", "current"} /\ b.op \in {"selection", "current"}
         => a.player # b.player

Nested(s) == \A i, j \in 1..Len(s) : i < j => MayCover(s[i], s[j])

LEMMA OrderOf ==
    ASSUME NEW s, Nested(s), NEW c \in CallsOf(s), NEW d \in CallsOf(s)
    PROVE  c = d \/ MayCover(c, d) \/ MayCover(d, c)
<1>1. PICK i \in 1..Len(s), j \in 1..Len(s) : c = s[i] /\ d = s[j]
  BY DEF CallsOf
<1>2. i = j \/ i < j \/ j < i
  BY <1>1
<1> QED
  BY <1>1, <1>2 DEF Nested

\* The innermost call, and those it may return to.
LEMMA Innermost ==
    ASSUME NEW S, NEW s \in Seq(S), s # <<>>, Nested(s)
    PROVE  /\ CallsOf(s) = {Head(s)} \cup CallsOf(Tail(s))
           /\ Nested(Tail(s))
           /\ \A c \in CallsOf(Tail(s)) : MayCover(Head(s), c)
<1>1. /\ Len(s) \in Nat /\ Len(s) # 0
      /\ Len(Tail(s)) = Len(s) - 1
      /\ \A i \in 1..Len(Tail(s)) : Tail(s)[i] = s[i + 1]
      /\ Head(s) = s[1]
  BY HeadTailProperties, LenProperties, EmptySeq
<1>2. \A i \in 1..Len(Tail(s)) : i + 1 \in 1..Len(s) /\ 1 < i + 1
  BY <1>1
<1>3. \A i \in 1..Len(s) : i = 1 \/ (i - 1 \in 1..Len(Tail(s)) /\ s[i] = Tail(s)[i - 1])
  BY <1>1
<1>4. 1 \in 1..Len(s)
  BY <1>1
<1>5. CallsOf(s) = {Head(s)} \cup CallsOf(Tail(s))
  BY <1>1, <1>2, <1>3, <1>4 DEF CallsOf
<1>6. ASSUME NEW i \in 1..Len(Tail(s)), NEW j \in 1..Len(Tail(s)), i < j
      PROVE  MayCover(Tail(s)[i], Tail(s)[j])
  <2>1. i + 1 < j + 1
    BY <1>1, <1>6
  <2> QED
    BY <1>1, <1>2, <2>1 DEF Nested
<1>7. \A c \in CallsOf(Tail(s)) : MayCover(Head(s), c)
  BY <1>1, <1>2, <1>4 DEF CallsOf, Nested
<1> QED
  BY <1>5, <1>6, <1>7 DEF Nested

LEMMA CoverOne ==
    ASSUME NEW S, NEW s \in Seq(S), Nested(s), NEW a, \A c \in CallsOf(s) : MayCover(a, c)
    PROVE  /\ Nested(<<a>> \o s)
           /\ CallsOf(<<a>> \o s) = {a} \cup CallsOf(s)
<1> DEFINE T == S \cup {a}
           t == <<a>> \o s
<1>1. s \in Seq(T) /\ <<a>> \in Seq(T)
  BY SeqMonotonic, CallsTyped
<1>2. /\ Len(s) \in Nat /\ Len(t) = Len(s) + 1
      /\ t[1] = a
      /\ \A i \in 1..Len(t) : i = 1 \/ (i - 1 \in 1..Len(s) /\ t[i] = s[i - 1])
      /\ \A i \in 1..Len(s) : i + 1 \in 1..Len(t) /\ t[i + 1] = s[i]
      /\ 1 \in 1..Len(t)
  BY <1>1, ConcatProperties, LenProperties
<1> HIDE DEF t
<1>3. CallsOf(t) = {a} \cup CallsOf(s)
  BY <1>2 DEF CallsOf
<1>4. ASSUME NEW i \in 1..Len(t), NEW j \in 1..Len(t), i < j
      PROVE  MayCover(t[i], t[j])
  <2>1. j - 1 \in 1..Len(s) /\ t[j] = s[j - 1]
    BY <1>2, <1>4
  <2>2. CASE i = 1
    BY <1>2, <2>1, <2>2 DEF CallsOf
  <2>3. CASE i # 1
    <3>1. i - 1 \in 1..Len(s) /\ t[i] = s[i - 1] /\ i - 1 < j - 1
      BY <1>2, <1>4, <2>3
    <3> QED
      BY <2>1, <3>1 DEF Nested
  <2> QED
    BY <2>2, <2>3
<1> QED
  BY <1>3, <1>4 DEF Nested, t

LEMMA PairOf ==
    ASSUME NEW S, NEW a \in S, NEW b \in S
    PROVE  <<a, b>> = <<a>> \o <<b>>
<1>1. <<a>> \in Seq(S) /\ <<b>> \in Seq(S) /\ <<a, b>> \in Seq(S)
  BY CallsTyped
<1>2. /\ Len(<<a>> \o <<b>>) = 2
      /\ (<<a>> \o <<b>>)[1] = a /\ (<<a>> \o <<b>>)[2] = b
      /\ <<a>> \o <<b>> \in Seq(S)
  BY <1>1, ConcatProperties
<1>3. Len(<<a, b>>) = 2 /\ <<a, b>>[1] = a /\ <<a, b>>[2] = b
  OBVIOUS
<1>4. \A i \in 1..2 : <<a, b>>[i] = (<<a>> \o <<b>>)[i]
  BY <1>2, <1>3
<1>5. <<a, b>> \in Seq(S) /\ <<a>> \o <<b>> \in Seq(S)
  BY <1>1, <1>2
<1>6. /\ Len(<<a, b>>) = Len(<<a>> \o <<b>>)
      /\ \A i \in 1..Len(<<a, b>>) : <<a, b>>[i] = (<<a>> \o <<b>>)[i]
  BY <1>2, <1>3, <1>4
<1> QED
  BY <1>5, <1>6, SeqEqual, Zenon

LEMMA CoverTwo ==
    ASSUME NEW S, NEW s \in Seq(S), Nested(s), NEW a, NEW b, MayCover(a, b),
           \A c \in CallsOf(s) : MayCover(a, c) /\ MayCover(b, c)
    PROVE  /\ Nested(<<a, b>> \o s)
           /\ CallsOf(<<a, b>> \o s) = {a, b} \cup CallsOf(s)
<1> DEFINE T == S \cup {a, b}
           t == <<b>> \o s
<1>1. s \in Seq(T) /\ <<a>> \in Seq(T) /\ <<b>> \in Seq(T)
  BY SeqMonotonic, CallsTyped
<1>2. t \in Seq(T) /\ Nested(t) /\ CallsOf(t) = {b} \cup CallsOf(s)
  BY <1>1, CoverOne, ConcatProperties
<1>3. <<a, b>> \o s = <<a>> \o t
  <2>1. <<a, b>> = <<a>> \o <<b>>
    BY <1>1, PairOf
  <2>2. (<<a>> \o <<b>>) \o s = <<a>> \o (<<b>> \o s)
    BY <1>1, ConcatAssociative
  <2> QED
    BY <2>1, <2>2, Zenon
<1> HIDE DEF t
<1>4. \A c \in CallsOf(t) : MayCover(a, c)
  BY <1>2
<1>5. Nested(<<a>> \o t) /\ CallsOf(<<a>> \o t) = {a} \cup CallsOf(t)
  BY <1>2, <1>4, CoverOne
<1> QED
  BY <1>2, <1>3, <1>5

LEMMA CoverThree ==
    ASSUME NEW S, NEW s \in Seq(S), Nested(s), NEW a, NEW b, NEW d,
           MayCover(a, b), MayCover(a, d), MayCover(b, d),
           \A c \in CallsOf(s) : MayCover(a, c) /\ MayCover(b, c) /\ MayCover(d, c)
    PROVE  /\ Nested(<<a, b, d>> \o s)
           /\ CallsOf(<<a, b, d>> \o s) = {a, b, d} \cup CallsOf(s)
<1> DEFINE T == S \cup {a, b, d}
           t == <<b, d>> \o s
<1>1. s \in Seq(T) /\ <<a>> \in Seq(T) /\ <<b, d>> \in Seq(T)
  BY SeqMonotonic, CallsTyped
<1>2. t \in Seq(T) /\ Nested(t) /\ CallsOf(t) = {b, d} \cup CallsOf(s)
  BY <1>1, CoverTwo, ConcatProperties
<1>3. <<a, b, d>> \o s = <<a>> \o t
  <2>1. <<a, b, d>> = <<a>> \o <<b, d>>
    OBVIOUS
  <2>2. (<<a>> \o <<b, d>>) \o s = <<a>> \o (<<b, d>> \o s)
    BY <1>1, ConcatAssociative
  <2> QED
    BY <2>1, <2>2, Zenon
<1> HIDE DEF t
<1>4. \A c \in CallsOf(t) : MayCover(a, c)
  BY <1>2
<1>5. Nested(<<a>> \o t) /\ CallsOf(<<a>> \o t) = {a} \cup CallsOf(t)
  BY <1>2, <1>4, CoverOne
<1> QED
  BY <1>2, <1>3, <1>5

\* A sweep may be started over anything but a start that is about to run.
LEMMA CoverDue ==
    ASSUME NEW S, NEW s \in Seq(S), Nested(s), NEW now,
           \A c \in CallsOf(s) : c.op \notin {"start", "setup"}
    PROVE  /\ Nested(Expiry(now) \o s)
           /\ CallsOf(Expiry(now) \o s) = CallsOf(Expiry(now)) \cup CallsOf(s)
           /\ \A c \in CallsOf(Expiry(now)) : /\ c = [op |-> "sweep", now |-> now, todo |-> LiveFlows]
                                              /\ c.op = "sweep"
<1> DEFINE sweep == [op |-> "sweep", now |-> now, todo |-> LiveFlows]
<1>1. CASE \E f \in LiveFlows : Overdue(f, now)
  <2>1. Expiry(now) = <<sweep>>
    BY <1>1 DEF Expiry
  <2>2. sweep.op = "sweep"
    OBVIOUS
  <2> HIDE DEF sweep
  <2>3. CallsOf(Expiry(now)) = {sweep}
    <3>1. Len(<<sweep>>) = 1 /\ <<sweep>>[1] = sweep
      OBVIOUS
    <3> QED
      BY <2>1, <3>1 DEF CallsOf
  <2>4. \A c \in CallsOf(s) : MayCover(sweep, c)
    BY <2>2 DEF MayCover, QuietOps, Rounds, Lasts
  <2>5. Nested(<<sweep>> \o s) /\ CallsOf(<<sweep>> \o s) = {sweep} \cup CallsOf(s)
    BY <2>4, CoverOne
  <2> QED
    BY <2>1, <2>2, <2>3, <2>5 DEF sweep
<1>2. CASE ~\E f \in LiveFlows : Overdue(f, now)
  <2>1. Expiry(now) = <<>>
    BY <1>2 DEF Expiry
  <2>2. <<>> \o s = s
    BY ConcatEmptySeq
  <2>3. CallsOf(<<>>) = {}
    <3>1. Len(<<>>) = 0
      OBVIOUS
    <3> QED
      BY <3>1 DEF CallsOf
  <2> QED
    BY <2>1, <2>2, <2>3
<1> QED
  BY <1>1, <1>2

\* The state a step starts from, and what it leaves on the stack.
ICalls == IFlows /\ Nested(stack)

Makes(new, kept) == Nested(stack') /\ CallsOf(stack') = new \cup kept

LEMMA Pops ==
    ASSUME ICalls, stack # <<>>
    PROVE  /\ Top \in Frame /\ Rest \in Seq(Frame) /\ stack \in Seq(Frame)
           /\ Calls = {Top} \cup Below
           /\ Nested(Rest)
           /\ \A c \in Below : MayCover(Top, c) /\ c.op \notin {"start", "setup"}
<1>1. stack \in Seq(Frame) /\ Nested(stack)
  BY DEF ICalls, IFlows, ITypes, TypeOK
<1>2. Top \in Frame /\ Rest \in Seq(Frame)
  BY <1>1, Popped
<1>3. /\ Calls = {Top} \cup Below
      /\ Nested(Rest)
      /\ \A c \in Below : MayCover(Top, c)
  BY <1>1, Innermost DEF Calls, Below, Top, Rest
<1>4. ASSUME NEW a, NEW b, MayCover(a, b) PROVE b.op \notin {"start", "setup"} \/ a.op \notin
        QuietOps \cup Rounds \cup {"cancel", "cancelOwn", "startPrepared", "startChecked", "current",
                                   "soloChecked", "start", "setup"}
  BY <1>4 DEF MayCover
<1>5. Top.op \in QuietOps \cup Rounds \cup Lasts \cup
        {"cancel", "cancelOwn", "startPrepared", "startChecked", "current",
         "soloChecked", "start", "setup"}
  BY <1>2 DEF QuietOps, Rounds, Lasts, Frame, Frames, PlayerFrame, NoticeFrame, OutcomeFrame,
       SweepFrame, InviteFrame, AnswerFrame, HandFrame, FirstFrame, PreparedFrame, FinishFrame,
       CurrentFrame, StartFrame, SetupFrame
<1>6. ASSUME NEW c \in Below PROVE c.op \notin {"start", "setup"}
  <2>1. MayCover(Top, c)
    BY <1>3
  <2>2. Top.op \notin Lasts
    BY <2>1 DEF MayCover
  <2> QED
    BY <1>4, <1>5, <2>1, <2>2
<1> QED
  BY <1>1, <1>2, <1>3, <1>6

\* Every call on the stack is a frame of its kind.
LEMMA KindOf ==
    ASSUME NEW c \in Frame
    PROVE  /\ c.op \in {"selection", "reply", "logout", "leave", "duelEnded", "cancelOwn",
                        "soloGuard", "soloSelected", "soloChecked", "soloFinally"}
                 => c \in PlayerFrame
           /\ c.op \in {"changed", "publish"} => c \in NoticeFrame
           /\ c.op = "sweep" => c \in SweepFrame(FlowIds)
           /\ c.op \in {"invite", "inviteSelected"} => c \in InviteFrame
           /\ c.op \in {"accept", "acceptSelected", "decline", "cancel"}
                 => c \in AnswerFrame(FlowIds)
           /\ c.op = "hand" => c \in HandFrame(FlowIds)
           /\ c.op = "first" => c \in FirstFrame(FlowIds)
           /\ c.op \in {"startPrepared", "startChecked"} => c \in PreparedFrame(FlowIds)
           /\ c.op = "finishStart" => c \in FinishFrame(FlowIds)
           /\ c.op = "current" => c \in CurrentFrame
           /\ c.op = "start" => c \in StartFrame
           /\ c.op = "setup" => c \in SetupFrame(DuelIds)
BY DEF Frame, Frames, PlayerFrame, NoticeFrame, OutcomeFrame, SweepFrame, InviteFrame,
       AnswerFrame, HandFrame, FirstFrame, PreparedFrame, FinishFrame, CurrentFrame,
       StartFrame, SetupFrame

LEMMA CallsAreFrames == ASSUME ITypes PROVE Calls \subseteq Frame
<1>1. stack \in Seq(Frame)
  BY DEF ITypes, TypeOK
<1> QED
  BY <1>1, ElementOfSeq DEF Calls, CallsOf

LEMMA ReturnCalls == ASSUME ICalls, stack # <<>>, Return PROVE Makes({}, Below)
BY Pops DEF Return, Makes, Below

\* The notifications of changed(), in front of what is left to do.
Notices(p, q, result) == {ChangedCall(p, result), ChangedCall(q, result)}

LEMMA ChangedCalls ==
    ASSUME NEW S, NEW rest \in Seq(S), Nested(rest), NEW p, NEW q, NEW result,
           \A c \in CallsOf(rest) : c.op \notin {"start", "setup"},
           Changed(p, q, result, rest)
    PROVE  Makes(Notices(p, q, result), CallsOf(rest))
<1> DEFINE a == ChangedCall(p, result)
           b == ChangedCall(q, result)
<1>1. a.op = "changed" /\ b.op = "changed"
  BY DEF ChangedCall
<1>2. stack' = <<a, b>> \o rest
  BY DEF Changed
<1> HIDE DEF a, b
<1>3. MayCover(a, b) /\ \A c \in CallsOf(rest) : MayCover(a, c) /\ MayCover(b, c)
  BY <1>1 DEF MayCover, QuietOps, Rounds, Lasts
<1>4. Nested(<<a, b>> \o rest) /\ CallsOf(<<a, b>> \o rest) = {a, b} \cup CallsOf(rest)
  BY <1>3, CoverTwo
<1> QED
  BY <1>2, <1>4 DEF Makes, Notices, a, b

\* What finish() does to a flow, and to its players' notifications.
FinishMakes(f, result, extra) ==
    /\ \E rest : Finish(f, result, rest)
    /\ Makes(Notices(flow[f].challenger, flow[f].accepter, result) \cup extra, Below)

LEMMA FinishCalls ==
    ASSUME ICalls, stack # <<>>, NEW f, NEW result, Finish(f, result, Rest)
    PROVE  FinishMakes(f, result, {})
<1>1. Changed(flow[f].challenger, flow[f].accepter, result, Rest)
  BY DEF Finish
<1>2. Makes(Notices(flow[f].challenger, flow[f].accepter, result), Below)
  BY <1>1, Pops, ChangedCalls DEF Below
<1> QED
  BY <1>2 DEF FinishMakes

-----------------------------------------------------------------------------
(* What each step of the service leaves on the stack *)

LEMMA SweepCalls ==
    ASSUME ICalls, Sweep
    PROVE  \E f \in Top.todo :
             LET left == [Top EXCEPT !.todo = @ \ {f}] IN
             \/ Overdue(f, Top.now) /\ FinishMakes(f, "STALE", {left})
             \/ ~Overdue(f, Top.now) /\ UNCHANGED prepVars /\ Makes({left}, Below)
<1>1. stack # <<>> /\ Top.op = "sweep"
  BY DEF Sweep, Running
<1>2. /\ Top \in SweepFrame(FlowIds) /\ Rest \in Seq(Frame) /\ Nested(Rest)
      /\ \A c \in Below : MayCover(Top, c) /\ c.op \notin {"start", "setup"}
  BY <1>1, Pops, KindOfTop
<1> PICK f \in Top.todo :
      LET rest == <<[Top EXCEPT !.todo = @ \ {f}]>> \o Rest IN
      IF Overdue(f, Top.now) THEN Finish(f, "STALE", rest)
                             ELSE stack' = rest /\ UNCHANGED prepVars
  BY DEF Sweep
<1> DEFINE left == [Top EXCEPT !.todo = @ \ {f}]
           rest == <<left>> \o Rest
<1>3. left.op = "sweep"
  BY <1>2 DEF SweepFrame
<1>step. IF Overdue(f, Top.now) THEN Finish(f, "STALE", rest)
                                ELSE stack' = rest /\ UNCHANGED prepVars
  OBVIOUS
<1> HIDE DEF left
<1>4. \A c \in Below : MayCover(left, c)
  BY <1>2, <1>3 DEF MayCover, QuietOps, Rounds, Lasts
<1>5. Nested(rest) /\ CallsOf(rest) = {left} \cup Below
  BY <1>2, <1>4, CoverOne DEF Below
<1>6. rest \in Seq(Frame \cup {left})
  BY <1>2, SeqMonotonic, CallsTyped, ConcatProperties
<1>7. \A c \in CallsOf(rest) : c.op \notin {"start", "setup"}
  BY <1>2, <1>3, <1>5
<1> HIDE DEF rest
<1>8. CASE Overdue(f, Top.now)
  <2>1. Finish(f, "STALE", rest)
    BY <1>8, <1>step
  <2>2. Makes(Notices(flow[f].challenger, flow[f].accepter, "STALE"), CallsOf(rest))
    BY <1>5, <1>6, <1>7, <2>1, ChangedCalls DEF Finish
  <2>3. FinishMakes(f, "STALE", {left})
    BY <1>5, <2>1, <2>2 DEF FinishMakes, Makes
  <2> QED
    BY <1>8, <2>3 DEF left
<1>9. CASE ~Overdue(f, Top.now)
  <2>1. UNCHANGED prepVars /\ Makes({left}, Below)
    BY <1>5, <1>9, <1>step DEF Makes
  <2> QED
    BY <1>9, <2>1 DEF left
<1> QED
  BY <1>8, <1>9

\* A refused request leaves nothing.
LEMMA RefusedCalls == ASSUME ICalls, stack # <<>>, Refused PROVE UNCHANGED prepVars /\ Makes({}, Below)
BY ReturnCalls DEF Refused

LEMMA InviteCalls ==
    ASSUME ICalls, Invite
    PROVE  \/ UNCHANGED prepVars /\ Makes({}, Below)
           \/ /\ Top.actor # Top.target
              /\ {Top.actor, Top.target} \subseteq online
              /\ Free(Top.actor) /\ Free(Top.target)
              /\ UNCHANGED prepVars
              /\ Makes({SelectionCall(Top.actor), [Top EXCEPT !.op = "inviteSelected"]}, Below)
<1> DEFINE after == [Top EXCEPT !.op = "inviteSelected"]
           first == SelectionCall(Top.actor)
<1>1. stack # <<>> /\ Top.op = "invite"
  BY DEF Invite, Running
<1>2. /\ Top \in InviteFrame /\ Rest \in Seq(Frame) /\ Nested(Rest)
      /\ \A c \in Below : MayCover(Top, c) /\ c.op \notin {"start", "setup"}
  BY <1>1, Pops, KindOfTop
<1>3. CASE Refused
  BY <1>1, <1>3, RefusedCalls
<1>4. CASE /\ Top.actor # Top.target
           /\ {Top.actor, Top.target} \subseteq online
           /\ Free(Top.actor) /\ Free(Top.target)
           /\ Call(<<first, after>>)
           /\ UNCHANGED prepVars
  <2>1. first.op = "selection" /\ after.op = "inviteSelected"
    BY <1>2 DEF InviteFrame, SelectionCall
  <2>2. stack' = <<first, after>> \o Rest
    BY <1>4 DEF Call
  <2> HIDE DEF first, after
  <2>3. \A c \in Below : c.op = "reply"
    BY <1>1, <1>2 DEF MayCover, Rounds
  <2>4. MayCover(first, after) /\ \A c \in Below : MayCover(first, c) /\ MayCover(after, c)
    BY <2>1, <2>3 DEF MayCover, QuietOps, Rounds, Lasts
  <2>5. Makes({first, after}, Below)
    BY <1>2, <2>2, <2>4, CoverTwo DEF Makes, Below
  <2> QED
    BY <1>4, <2>5 DEF first, after
<1> QED
  BY <1>3, <1>4 DEF Invite

\* The two players of a flow that holds one of them are two.
LEMMA HeldPair ==
    ASSUME IFlows, NEW p \in Players, NEW f \in FlowIds, flows[p] = f
    PROVE  /\ p \in Pair(f)
           /\ flow[f].challenger # flow[f].accepter
           /\ f \in LiveFlows
           /\ \A q \in Pair(f) : q \in Players /\ flows[q] = f
<1>1. flows[p] # 0 /\ flow[f] \in Flow
  BY FlowTyped DEF IFlows, ITypes, FlowIds
<1>2. p \in Pair(f) /\ flow[f].challenger # flow[f].accepter /\ \A q \in Pair(f) : flows[q] = f
  BY <1>1 DEF IFlows, FlowsPaired
<1>3. flow[f].challenger \in Pair(f)
  BY DEF Pair
<1>4. \A q \in Pair(f) : q \in Players
  BY <1>1 DEF Pair, Flow
<1> QED
  BY <1>2, <1>3, <1>4 DEF LiveFlows

LEMMA AcceptCalls ==
    ASSUME ICalls, Accept
    PROVE  LET f == Top.id IN
           \/ UNCHANGED prepVars /\ Makes({}, Below)
           \/ Answerable(Top) /\ FinishMakes(f, Availability(f), {})
           \/ /\ Answerable(Top) /\ Availability(f) = "OK"
              /\ UNCHANGED prepVars
              /\ Makes({SelectionCall(flow[f].challenger), SelectionCall(flow[f].accepter),
                        [Top EXCEPT !.op = "acceptSelected"]}, Below)
<1> DEFINE f == Top.id
           first == SelectionCall(flow[f].challenger)
           second == SelectionCall(flow[f].accepter)
           after == [Top EXCEPT !.op = "acceptSelected"]
<1>1. stack # <<>> /\ Top.op = "accept"
  BY DEF Accept, Running
<1>2. /\ Top \in AnswerFrame(FlowIds) /\ Rest \in Seq(Frame) /\ Nested(Rest)
      /\ \A c \in Below : MayCover(Top, c) /\ c.op \notin {"start", "setup"}
  BY <1>1, Pops, KindOfTop
<1>3. CASE Refused
  BY <1>1, <1>3, RefusedCalls
<1>4. CASE Answerable(Top) /\ Finish(f, Availability(f), Rest)
  BY <1>1, <1>4, FinishCalls
<1>5. CASE /\ Answerable(Top) /\ Availability(f) = "OK"
           /\ Call(<<first, second, after>>)
           /\ UNCHANGED prepVars
  <2>1. /\ first.op = "selection" /\ second.op = "selection" /\ after.op = "acceptSelected"
        /\ first.player = flow[f].challenger /\ second.player = flow[f].accepter
    BY <1>2 DEF AnswerFrame, SelectionCall
  <2>2. stack' = <<first, second, after>> \o Rest
    BY <1>5 DEF Call
  <2>3. first.player # second.player
    <3>1. Top.actor \in Players /\ f \in FlowIds /\ flows[Top.actor] = f
      BY <1>2, <1>5 DEF AnswerFrame, Answerable
    <3> QED
      BY <2>1, <3>1, HeldPair DEF ICalls
  <2> HIDE DEF first, second, after
  <2>4. \A c \in Below : c.op = "reply"
    BY <1>1, <1>2 DEF MayCover, Rounds
  <2>5. /\ MayCover(first, second) /\ MayCover(first, after) /\ MayCover(second, after)
        /\ \A c \in Below : MayCover(first, c) /\ MayCover(second, c) /\ MayCover(after, c)
    BY <2>1, <2>3, <2>4 DEF MayCover, QuietOps, Rounds, Lasts
  <2>6. Makes({first, second, after}, Below)
    BY <1>2, <2>2, <2>5, CoverThree DEF Makes, Below
  <2> QED
    BY <1>5, <2>6 DEF first, second, after
<1> QED
  BY <1>3, <1>4, <1>5 DEF Accept

LEMMA DeclineCalls ==
    ASSUME ICalls, Decline
    PROVE  \/ UNCHANGED prepVars /\ Makes({}, Below)
           \/ Answerable(Top) /\ FinishMakes(Top.id, "OK", {})
BY RefusedCalls, FinishCalls DEF Decline, Running

LEMMA CancelCalls ==
    ASSUME ICalls, Cancel
    PROVE  \/ /\ flows[Top.actor] = Top.id /\ flow[Top.id].mode # "STARTING"
              /\ FinishMakes(Top.id, "OK", {})
           \/ /\ ~(flows[Top.actor] = Top.id /\ flow[Top.id].mode # "STARTING")
              /\ UNCHANGED prepVars /\ Makes({}, Below)
BY RefusedCalls, FinishCalls DEF Cancel, Running

\* A flow is rewritten in place: nothing ends, and both players are told.
Rewrites(f, new) == flow' = [flow EXCEPT ![f] = new] /\ UNCHANGED flows

\* The flow after a hand was submitted, settled if it was the second one.
Played(call) ==
    LET submitted == Submit(flow[call.id], call.actor, call.hand) IN
    IF "none" \notin {submitted.challengerHand, submitted.accepterHand}
    THEN Settle(submitted, call.now) ELSE submitted

LEMMA HandCalls ==
    ASSUME ICalls, Hand
    PROVE  LET f == Top.id IN
           \/ UNCHANGED prepVars /\ Makes({}, Below)
           \/ /\ HandAwaited(Top)
              /\ Rewrites(f, Played(Top))
              /\ Makes(Notices(flow[f].challenger, flow[f].accepter, "OK"), Below)
<1> DEFINE f == Top.id
<1>1. stack # <<>> /\ Top.op = "hand"
  BY DEF Hand, Running
<1>2. CASE Refused
  BY <1>1, <1>2, RefusedCalls
<1>3. CASE /\ HandAwaited(Top)
           /\ Rewrites(f, Played(Top))
           /\ Changed(flow[f].challenger, flow[f].accepter, "OK", Rest)
  <2>1. Makes(Notices(flow[f].challenger, flow[f].accepter, "OK"), Below)
    BY <1>1, <1>3, Pops, ChangedCalls DEF Below
  <2> QED
    BY <1>3, <2>1
<1> QED
  BY <1>2, <1>3 DEF Hand, Rewrites, Played

LEMMA FirstCalls ==
    ASSUME ICalls, First
    PROVE  LET f == Top.id IN
           \/ UNCHANGED prepVars /\ Makes({}, Below)
           \/ MayChoose(Top) /\ FinishMakes(f, Availability(f), {})
           \/ /\ MayChoose(Top) /\ Availability(f) = "OK"
              /\ flow' = [flow EXCEPT ![f].mode = "STARTING"] /\ UNCHANGED flows
              /\ Makes(Notices(flow[f].challenger, flow[f].accepter, "OK") \cup
                       {[op |-> "startPrepared", flow |-> f,
                         firstSeat |-> FirstSeat(f, Top.goFirst)],
                        [op |-> "finishStart", flow |-> f, goFirst |-> Top.goFirst]}, Below)
<1> DEFINE f == Top.id
           start == [op |-> "startPrepared", flow |-> f, firstSeat |-> FirstSeat(f, Top.goFirst)]
           after == [op |-> "finishStart", flow |-> f, goFirst |-> Top.goFirst]
           rest == <<start, after>> \o Rest
<1>1. stack # <<>> /\ Top.op = "first"
  BY DEF First, Running
<1>2. /\ Rest \in Seq(Frame) /\ Nested(Rest)
      /\ \A c \in Below : MayCover(Top, c) /\ c.op \notin {"start", "setup"}
  BY <1>1, Pops
<1>3. CASE Refused
  BY <1>1, <1>3, RefusedCalls
<1>4. CASE MayChoose(Top) /\ Finish(f, Availability(f), Rest)
  BY <1>1, <1>4, FinishCalls
<1>5. CASE /\ MayChoose(Top) /\ Availability(f) = "OK"
           /\ flow' = [flow EXCEPT ![f].mode = "STARTING"]
           /\ Changed(flow[f].challenger, flow[f].accepter, "OK", rest)
           /\ UNCHANGED flows
  <2>1. start.op = "startPrepared" /\ after.op = "finishStart" /\ start.flow = after.flow
    OBVIOUS
  <2>2. <<start, after>> \in Seq({start, after}) /\ Changed(flow[f].challenger, flow[f].accepter, "OK", rest)
    BY <1>5, CallsTyped
  <2> HIDE DEF start, after
  <2>3. \A c \in Below : c.op = "reply"
    BY <1>1, <1>2 DEF MayCover, Rounds
  <2>4. MayCover(start, after) /\ \A c \in Below : MayCover(start, c) /\ MayCover(after, c)
    BY <2>1, <2>3 DEF MayCover, QuietOps, Rounds, Lasts
  <2>5. Nested(rest) /\ CallsOf(rest) = {start, after} \cup Below
    BY <1>2, <2>4, CoverTwo DEF Below
  <2>6. rest \in Seq(Frame \cup {start, after})
    BY <1>2, <2>2, SeqMonotonic, ConcatProperties
  <2>7. \A c \in CallsOf(rest) : c.op \notin {"start", "setup"}
    BY <2>1, <2>3, <2>5
  <2> HIDE DEF rest
  <2>8. Makes(Notices(flow[f].challenger, flow[f].accepter, "OK"), CallsOf(rest))
    BY <2>2, <2>5, <2>6, <2>7, ChangedCalls
  <2>9. Makes(Notices(flow[f].challenger, flow[f].accepter, "OK") \cup {start, after}, Below)
    BY <2>5, <2>8 DEF Makes
  <2> QED
    BY <1>5, <2>9 DEF start, after
<1> QED
  BY <1>3, <1>4, <1>5 DEF First

LEMMA LogoutCalls ==
    ASSUME ICalls, Logout
    PROVE  LET f == flows[Top.player] IN
           \/ f = 0 /\ UNCHANGED prepVars /\ Makes({}, Below)
           \/ /\ f # 0 /\ flow[f].mode = "STARTING"
              /\ flow' = [flow EXCEPT ![f].loggedOutDuringStart = TRUE]
              /\ UNCHANGED <<flows, revisions>> /\ Makes({}, Below)
           \/ f # 0 /\ flow[f].mode # "STARTING" /\ FinishMakes(f, "OFFLINE", {})
<1>1. stack # <<>>
  BY DEF Logout, Running
<1>2. CASE flows[Top.player] = 0
  BY <1>1, <1>2, RefusedCalls DEF Logout
<1>3. CASE flows[Top.player] # 0 /\ flow[flows[Top.player]].mode = "STARTING"
  BY <1>1, <1>3, ReturnCalls DEF Logout
<1>4. CASE flows[Top.player] # 0 /\ flow[flows[Top.player]].mode # "STARTING"
  BY <1>1, <1>4, FinishCalls DEF Logout
<1> QED
  BY <1>2, <1>3, <1>4

LEMMA AdvancedCalls ==
    ASSUME ICalls, stack # <<>>, NEW p, NEW result, Advanced(p, result)
    PROVE  Makes({ChangedCall(p, result)}, Below)
<1> DEFINE a == ChangedCall(p, result)
<1>1. a.op = "changed" /\ stack' = <<a>> \o Rest
  BY DEF ChangedCall, Advanced, Call
<1> HIDE DEF a
<1>2. \A c \in Below : MayCover(a, c)
  BY <1>1, Pops DEF MayCover, QuietOps, Rounds, Lasts
<1> QED
  BY <1>1, <1>2, Pops, CoverOne DEF Makes, Below, a

LEMMA OutcomeCalls ==
    ASSUME ICalls, DuelEnded \/ StartFinished
    PROVE  /\ \E result \in {"OK", "START_FAILED"} :
                /\ Makes({ChangedCall(Top.player, result)}, Below)
                /\ DuelEnded => result = "OK"
                /\ StartFinished => result = IF Top.success THEN "OK" ELSE "START_FAILED"
           /\ revisions' = [revisions EXCEPT ![Top.player] = @ + 1]
           /\ UNCHANGED <<flow, flows>>
<1>1. stack # <<>>
  BY DEF DuelEnded, StartFinished, Running
<1>2. CASE DuelEnded
  <2>1. Advanced(Top.player, "OK") /\ ~StartFinished
    BY <1>2 DEF DuelEnded, StartFinished, Running
  <2> QED
    BY <1>1, <2>1, AdvancedCalls DEF Advanced
<1>3. CASE StartFinished
  <2>1. Advanced(Top.player, IF Top.success THEN "OK" ELSE "START_FAILED") /\ ~DuelEnded
    BY <1>3 DEF DuelEnded, StartFinished, Running
  <2> QED
    BY <1>1, <2>1, AdvancedCalls DEF Advanced
<1> QED
  BY <1>2, <1>3

LEMMA InviteSelectedCalls ==
    ASSUME ICalls, InviteSelected
    PROVE  LET new == Len(flow) + 1 IN
           \/ UNCHANGED prepVars /\ Makes({}, Below)
           \/ /\ selected[Top.actor] # None
              /\ flow' = Append(flow, NewFlow(Top.actor, Top.target, Top.now))
              /\ flows' = [flows EXCEPT ![Top.actor] = new, ![Top.target] = new]
              /\ Makes(Notices(Top.actor, Top.target, "OK"), Below)
<1>1. stack # <<>>
  BY DEF InviteSelected, Running
<1>2. CASE Refused
  BY <1>1, <1>2, RefusedCalls
<1>3. ASSUME Changed(Top.actor, Top.target, "OK", Rest)
      PROVE  Makes(Notices(Top.actor, Top.target, "OK"), Below)
  BY <1>1, <1>3, Pops, ChangedCalls DEF Below
<1> QED
  BY <1>2, <1>3 DEF InviteSelected

\* The flow with the decks the two players were found with, in its first round.
Accepted(call) ==
    LET f == call.id IN
    NewRound([flow[f] EXCEPT !.prepared = [challenger |-> selected[flow[f].challenger],
                                           accepter |-> selected[flow[f].accepter]]], call.now)

LEMMA AcceptSelectedCalls ==
    ASSUME ICalls, AcceptSelected
    PROVE  LET f == Top.id IN
           \/ UNCHANGED prepVars /\ Makes({}, Below)
           \/ /\ selected[flow[f].challenger] # None /\ selected[flow[f].accepter] # None
              /\ Rewrites(f, Accepted(Top))
              /\ Makes(Notices(flow[f].challenger, flow[f].accepter, "OK"), Below)
<1> DEFINE f == Top.id
<1>1. stack # <<>>
  BY DEF AcceptSelected, Running
<1>2. CASE Refused
  BY <1>1, <1>2, RefusedCalls
<1>3. CASE /\ selected[flow[f].challenger] # None /\ selected[flow[f].accepter] # None
           /\ Rewrites(f, Accepted(Top))
           /\ Changed(flow[f].challenger, flow[f].accepter, "OK", Rest)
  <2>1. Makes(Notices(flow[f].challenger, flow[f].accepter, "OK"), Below)
    BY <1>1, <1>3, Pops, ChangedCalls DEF Below
  <2> QED
    BY <1>3, <2>1
<1> QED
  BY <1>2, <1>3 DEF AcceptSelected, Rewrites, Accepted

\* How a start is reported.
StartResult(f) ==
    IF flow[f].loggedOutDuringStart THEN "OFFLINE" ELSE IF started THEN "OK" ELSE "START_FAILED"

LEMMA FinishStartCalls ==
    ASSUME ICalls, FinishStart
    PROVE  FinishMakes(Top.flow, StartResult(Top.flow), {})
<1>1. stack # <<>> /\ Finish(Top.flow, StartResult(Top.flow), Rest)
  BY DEF FinishStart, Running, StartResult
<1> QED
  BY <1>1, FinishCalls

-----------------------------------------------------------------------------
(* What each step of the manager leaves on the stack *)

\* The sweep that a call begins with, if a flow is overdue.
Due == CallsOf(Expiry(clock))

\* Any call may be made in place of one it can stand in for.
LEMMA InPlaceCalls ==
    ASSUME ICalls, stack # <<>>, NEW a, stack' = <<a>> \o Rest, \A c \in Below : MayCover(a, c)
    PROVE  Makes({a}, Below)
BY Pops, CoverOne DEF Makes, Below

LEMMA DueCalls ==
    ASSUME NEW S, NEW s \in Seq(S), Nested(s), \A c \in CallsOf(s) : c.op \notin {"start", "setup"},
           stack' = Expiry(clock) \o s
    PROVE  Makes(Due, CallsOf(s)) /\ \A c \in Due : c.op = "sweep"
BY CoverDue DEF Makes, Due

LEMMA NotifyCalls ==
    ASSUME ICalls, Notify
    PROVE  /\ \A c \in Due : c.op = "sweep"
           /\ \/ Top.player \notin online /\ Makes({}, Below)
              \/ Top.player \in online /\ Makes(Due \cup {[Top EXCEPT !.op = "publish"]}, Below)
<1> DEFINE publish == [Top EXCEPT !.op = "publish"]
           s == <<publish>> \o Rest
<1>1. stack # <<>> /\ Top.op = "changed"
  BY DEF Notify, Running
<1>2. /\ Top \in NoticeFrame /\ Rest \in Seq(Frame) /\ Nested(Rest)
      /\ \A c \in Below : MayCover(Top, c) /\ c.op \notin {"start", "setup"}
  BY <1>1, Pops, KindOfTop
<1>3. \A c \in Due : c.op = "sweep"
  BY DEF Due, CallsOf, Expiry
<1>4. CASE Top.player \notin online
  BY <1>1, <1>3, <1>4, ReturnCalls DEF Notify
<1>5. CASE Top.player \in online
  <2>1. publish.op = "publish" /\ stack' = (Expiry(clock) \o <<publish>>) \o Rest
    BY <1>2, <1>5 DEF Notify, Call, NoticeFrame
  <2>2. Expiry(clock) \in Seq(Frame)
    BY ExpiryTypes DEF ICalls, IFlows, ITypes, TypeOK
  <2> HIDE DEF publish
  <2>3. \A c \in Below : MayCover(publish, c)
    BY <1>2, <2>1 DEF MayCover, QuietOps, Rounds, Lasts
  <2>4. /\ Expiry(clock) \in Seq(Frame \cup {publish})
        /\ <<publish>> \in Seq(Frame \cup {publish}) /\ Rest \in Seq(Frame \cup {publish})
    BY <1>2, <2>2, SeqMonotonic, CallsTyped
  <2>5. stack' = Expiry(clock) \o s /\ s \in Seq(Frame \cup {publish})
    BY <2>1, <2>4, ConcatAssociative, ConcatProperties
  <2>6. Nested(s) /\ CallsOf(s) = {publish} \cup Below
    BY <1>2, <2>3, CoverOne DEF Below
  <2> HIDE DEF s
  <2>7. \A c \in CallsOf(s) : c.op \notin {"start", "setup"}
    BY <1>2, <2>1, <2>6
  <2>8. Makes(Due, CallsOf(s))
    BY <2>5, <2>6, <2>7, DueCalls
  <2>9. Makes(Due \cup {publish}, Below)
    BY <2>6, <2>8 DEF Makes
  <2> QED
    BY <1>3, <1>5, <2>9 DEF publish
<1> QED
  BY <1>4, <1>5

LEMMA AnsweredCalls == ASSUME ICalls, Publish \/ Reply PROVE Makes({}, Below)
BY ReturnCalls DEF Publish, Reply, Running

LEMMA DeniedCalls ==
    ASSUME ICalls, stack # <<>>, Denied
    PROVE  Makes(Due, Below) /\ \A c \in Due : c.op = "sweep"
BY Pops, DueCalls DEF Denied, Call, Below

LEMMA SelectionCalls ==
    ASSUME ICalls, SelectionMissing \/ SelectionFails \/ SelectionRejected \/ SelectionAccepted
    PROVE  /\ stack # <<>> /\ Top.op = "selection"
           /\ \/ SelectionAccepted /\ Makes({}, Below)
              \/ /\ ~SelectionAccepted /\ UNCHANGED selected
                 /\ Makes(Due, Below) /\ \A c \in Due : c.op = "sweep"
<1>1. stack # <<>> /\ Top.op = "selection"
  BY DEF SelectionMissing, SelectionFails, SelectionRejected, SelectionAccepted, Running
<1>2. CASE SelectionAccepted
  BY <1>1, <1>2, ReturnCalls DEF SelectionAccepted
<1>3. CASE ~SelectionAccepted
  BY <1>1, <1>3, DeniedCalls DEF SelectionMissing, SelectionFails, SelectionRejected, Denied
<1> QED
  BY <1>1, <1>2, <1>3

\* A connection is lost between two calls, or inside a deck check.
LEMMA DropCalls ==
    ASSUME NEW S, NEW rest \in Seq(S), Nested(rest), NEW p, Drop(p, rest),
           \A c \in CallsOf(rest) : c.op \notin {"start", "setup"}
    PROVE  Makes({[op |-> "logout", player |-> p], [op |-> "leave", player |-> p]}, CallsOf(rest))
<1> DEFINE a == [op |-> "logout", player |-> p]
           b == [op |-> "leave", player |-> p]
<1>1. a.op = "logout" /\ b.op = "leave" /\ stack' = <<a, b>> \o rest
  BY DEF Drop
<1> HIDE DEF a, b
<1>2. MayCover(a, b) /\ \A c \in CallsOf(rest) : MayCover(a, c) /\ MayCover(b, c)
  BY <1>1 DEF MayCover, QuietOps, Rounds, Lasts
<1> QED
  BY <1>1, <1>2, CoverTwo DEF Makes, a, b

LEMMA NothingNested == Nested(<<>>) /\ CallsOf(<<>>) = {} /\ <<>> \in Seq(Frame)
<1>1. Len(<<>>) = 0
  OBVIOUS
<1> QED
  BY <1>1, EmptySeq DEF Nested, CallsOf

LEMMA DisconnectCalls ==
    ASSUME NEW p, Disconnect(p)
    PROVE  Makes({[op |-> "logout", player |-> p], [op |-> "leave", player |-> p]}, {})
BY NothingNested, DropCalls DEF Disconnect

LEMMA ListenerCalls ==
    ASSUME ICalls, ListenerDisconnectsOwner
    PROVE  Makes({[op |-> "logout", player |-> Top.player],
                  [op |-> "leave", player |-> Top.player]}, Calls)
<1>1. stack # <<>> /\ Top.op = "selection" /\ Drop(Top.player, stack)
  BY DEF ListenerDisconnectsOwner, Running
<1>2. \A c \in Calls : c.op \notin {"start", "setup"}
  BY <1>1, Pops
<1> QED
  BY <1>1, <1>2, Pops, DropCalls DEF Calls, ICalls

LEMMA StartPreparedCalls ==
    ASSUME ICalls, StartPrepared, flow[Top.flow].challenger # flow[Top.flow].accepter
    PROVE  LET f == flow[Top.flow] IN
           Makes({CurrentCall(f.challenger, f.prepared.challenger),
                  CurrentCall(f.accepter, f.prepared.accepter),
                  [Top EXCEPT !.op = "startChecked"]}, Below)
<1> DEFINE f == flow[Top.flow]
           a == CurrentCall(f.challenger, f.prepared.challenger)
           b == CurrentCall(f.accepter, f.prepared.accepter)
           d == [Top EXCEPT !.op = "startChecked"]
<1>1. stack # <<>> /\ Top.op = "startPrepared"
  BY DEF StartPrepared, Running
<1>2. /\ Top \in PreparedFrame(FlowIds) /\ Rest \in Seq(Frame) /\ Nested(Rest)
      /\ \A c \in Below : MayCover(Top, c)
  BY <1>1, Pops, KindOfTop
<1>3. /\ a.op = "current" /\ b.op = "current" /\ d.op = "startChecked"
      /\ a.player # b.player /\ d.flow = Top.flow
      /\ stack' = <<a, b, d>> \o Rest
  BY <1>2 DEF StartPrepared, Call, CurrentCall, PreparedFrame
<1> HIDE DEF a, b, d
<1>4. \A c \in Below : c.op = "reply" \/ (c.op = "finishStart" /\ c.flow = Top.flow)
  BY <1>1, <1>2 DEF MayCover
<1>5. /\ MayCover(a, b) /\ MayCover(a, d) /\ MayCover(b, d)
      /\ \A c \in Below : MayCover(a, c) /\ MayCover(b, c) /\ MayCover(d, c)
  BY <1>3, <1>4 DEF MayCover, QuietOps, Rounds, Lasts
<1>6. Makes({a, b, d}, Below)
  BY <1>2, <1>3, <1>5, CoverThree DEF Makes, Below
<1> QED
  BY <1>6 DEF a, b, d

LEMMA CurrentCalls ==
    ASSUME ICalls, Current
    PROVE  \/ Makes({}, Below)
           \/ /\ Top.player \in online /\ playerToDuel[Top.player] = 0
              /\ deck[Top.player] = Top.deck
              /\ Makes({SelectionCall(Top.player)}, Below)
<1> DEFINE a == SelectionCall(Top.player)
<1>1. stack # <<>> /\ Top.op = "current"
  BY DEF Current, Running
<1>2. CASE Return
  BY <1>1, <1>2, ReturnCalls
<1>3. CASE /\ Top.player \in online /\ playerToDuel[Top.player] = 0
           /\ deck[Top.player] = Top.deck
           /\ Call(<<a>>)
  <2>1. a.op = "selection" /\ a.player = Top.player /\ stack' = <<a>> \o Rest
    BY <1>3 DEF SelectionCall, Call
  <2> HIDE DEF a
  <2>2. \A c \in Below : MayCover(a, c)
    BY <1>1, <2>1, Pops DEF MayCover, QuietOps, Rounds, Lasts
  <2>3. Makes({a}, Below)
    BY <1>1, <2>1, <2>2, InPlaceCalls
  <2> QED
    BY <1>3, <2>3 DEF a
<1> QED
  BY <1>2, <1>3 DEF Current

\* The start that both checked decks lead to.
StartOf(call) ==
    LET f == flow[call.flow] IN
    IF call.firstSeat = 0
    THEN StartCall(Seats(f.challenger, f.accepter), Seats(f.prepared.challenger, f.prepared.accepter))
    ELSE StartCall(Seats(f.accepter, f.challenger), Seats(f.prepared.accepter, f.prepared.challenger))

LEMMA StartCheckedCalls ==
    ASSUME ICalls, StartChecked
    PROVE  \/ Makes({}, Below)
           \/ /\ selected[flow[Top.flow].challenger] # None
              /\ selected[flow[Top.flow].accepter] # None
              /\ Makes({StartOf(Top)}, Below)
<1>1. stack # <<>> /\ Top.op = "startChecked"
  BY DEF StartChecked, Running
<1>2. CASE Return
  BY <1>1, <1>2, ReturnCalls
<1>3. CASE /\ selected[flow[Top.flow].challenger] # None
           /\ selected[flow[Top.flow].accepter] # None
           /\ Call(<<StartOf(Top)>>)
  <2>1. StartOf(Top).op = "start" /\ stack' = <<StartOf(Top)>> \o Rest
    BY <1>3 DEF StartOf, StartCall, Call
  <2>2. \A c \in Below : MayCover(StartOf(Top), c)
    BY <1>1, <2>1, Pops DEF MayCover, QuietOps, Rounds, Lasts
  <2> QED
    BY <1>1, <1>3, <2>1, <2>2, InPlaceCalls
<1> QED
  BY <1>2, <1>3 DEF StartChecked, StartOf

LEMMA SoloSelectedCalls ==
    ASSUME ICalls, SoloSelected
    PROVE  LET p == Top.player IN
           \/ selected[p] = None /\ Makes({SoloCall("soloFinally", p)}, Below)
           \/ /\ selected[p] # None
              /\ Makes({CurrentCall(p, selected[p]), SoloCall("soloChecked", p),
                        SoloCall("soloFinally", p)}, Below)
<1> DEFINE p == Top.player
           a == CurrentCall(p, selected[p])
           b == SoloCall("soloChecked", p)
           d == SoloCall("soloFinally", p)
<1>1. stack # <<>> /\ Top.op = "soloSelected"
  BY DEF SoloSelected, Running
<1>2. Rest \in Seq(Frame) /\ Nested(Rest) /\ \A c \in Below : FALSE
  BY <1>1, Pops DEF MayCover, Lasts
<1>3. /\ a.op = "current" /\ b.op = "soloChecked" /\ d.op = "soloFinally"
      /\ b.player = d.player
  BY DEF CurrentCall, SoloCall
<1>4. CASE selected[p] = None
  <2>1. stack' = <<d>> \o Rest
    BY <1>4 DEF SoloSelected, Call
  <2> QED
    BY <1>1, <1>2, <1>4, <2>1, InPlaceCalls
<1>5. CASE selected[p] # None
  <2>1. stack' = <<a, b, d>> \o Rest
    BY <1>5 DEF SoloSelected, Call
  <2> HIDE DEF a, b, d
  <2>2. MayCover(a, b) /\ MayCover(a, d) /\ MayCover(b, d)
    BY <1>3 DEF MayCover, QuietOps, Rounds, Lasts
  <2>3. Makes({a, b, d}, Below)
    BY <1>2, <2>1, <2>2, CoverThree DEF Makes, Below
  <2> QED
    BY <1>5, <2>3 DEF a, b, d
<1> QED
  BY <1>4, <1>5

LEMMA SoloCheckedCalls ==
    ASSUME ICalls, SoloChecked
    PROVE  LET p == Top.player IN
           \/ Makes({}, Below)
           \/ /\ selected[p] # None
              /\ Makes({StartCall(Seats(p, None), Seats(selected[p], None))}, Below)
<1> DEFINE p == Top.player
           a == StartCall(Seats(p, None), Seats(selected[p], None))
<1>1. stack # <<>> /\ Top.op = "soloChecked"
  BY DEF SoloChecked, Running
<1>2. CASE Return
  BY <1>1, <1>2, ReturnCalls
<1>3. CASE selected[p] # None /\ Call(<<a>>)
  <2>1. a.op = "start" /\ stack' = <<a>> \o Rest
    BY <1>3 DEF StartCall, Call
  <2> HIDE DEF a
  <2>2. \A c \in Below : MayCover(a, c)
    BY <1>1, <2>1, Pops DEF MayCover, QuietOps, Rounds, Lasts
  <2>3. Makes({a}, Below)
    BY <1>1, <2>1, <2>2, InPlaceCalls
  <2> QED
    BY <1>3, <2>3 DEF a
<1> QED
  BY <1>2, <1>3 DEF SoloChecked

LEMMA CancelOwnCalls ==
    ASSUME ICalls, CancelOwn
    PROVE  LET p == Top.player IN
           \/ flows[p] = 0 /\ Makes({}, Below)
           \/ /\ flows[p] # 0
              /\ \A c \in Due : c.op = "sweep"
              /\ Makes(Due \cup {[op |-> "cancel", actor |-> p, id |-> flows[p], now |-> clock]},
                       Below)
<1> DEFINE p == Top.player
           a == [op |-> "cancel", actor |-> p, id |-> flows[p], now |-> clock]
           s == <<a>> \o Rest
<1>1. stack # <<>> /\ Top.op = "cancelOwn"
  BY DEF CancelOwn, Running
<1>2. CASE flows[p] = 0
  BY <1>1, <1>2, ReturnCalls DEF CancelOwn
<1>3. CASE flows[p] # 0
  <2>1. /\ Rest \in Seq(Frame) /\ Nested(Rest)
        /\ \A c \in Below : c.op = "soloGuard" /\ c.player = p
    BY <1>1, Pops DEF MayCover
  <2>2. a.op = "cancel" /\ a.actor = p /\ stack' = (Expiry(clock) \o <<a>>) \o Rest
    BY <1>3 DEF CancelOwn, Call
  <2>3. Expiry(clock) \in Seq(Frame)
    BY ExpiryTypes DEF ICalls, IFlows, ITypes, TypeOK
  <2> HIDE DEF a
  <2>4. \A c \in Below : MayCover(a, c)
    BY <2>1, <2>2 DEF MayCover, QuietOps, Rounds, Lasts
  <2>5. /\ Expiry(clock) \in Seq(Frame \cup {a})
        /\ <<a>> \in Seq(Frame \cup {a}) /\ Rest \in Seq(Frame \cup {a})
    BY <2>1, <2>3, SeqMonotonic, CallsTyped
  <2>6. stack' = Expiry(clock) \o s /\ s \in Seq(Frame \cup {a})
    BY <2>2, <2>5, ConcatAssociative, ConcatProperties
  <2>7. Nested(s) /\ CallsOf(s) = {a} \cup Below
    BY <2>1, <2>4, CoverOne DEF Below
  <2> HIDE DEF s
  <2>8. \A c \in CallsOf(s) : c.op \notin {"start", "setup"}
    BY <2>1, <2>2, <2>7
  <2>9. Makes(Due, CallsOf(s)) /\ \A c \in Due : c.op = "sweep"
    BY <2>6, <2>7, <2>8, DueCalls
  <2>10. Makes(Due \cup {a}, Below)
    BY <2>7, <2>9 DEF Makes
  <2> QED
    BY <1>3, <2>9, <2>10 DEF a
<1> QED
  BY <1>2, <1>3

LEMMA StartInstallsCalls ==
    ASSUME ICalls, StartInstalls
    PROVE  Makes({[op |-> "setup", duel |-> Len(duelSeats) + 1]}, Below)
<1> DEFINE a == [op |-> "setup", duel |-> Len(duelSeats) + 1]
<1>1. stack # <<>> /\ Top.op = "start" /\ a.op = "setup" /\ stack' = <<a>> \o Rest
  BY DEF StartInstalls, Running, Call
<1> HIDE DEF a
<1>2. \A c \in Below : MayCover(a, c)
  BY <1>1, Pops DEF MayCover, QuietOps, Rounds, Lasts
<1>3. Makes({a}, Below)
  BY <1>1, <1>2, InPlaceCalls
<1> QED
  BY <1>3 DEF a

\* A duel that ends notifies its players, and no one else.
LEMMA FinishDuelCalls ==
    ASSUME NEW S, NEW rest \in Seq(S), Nested(rest), NEW id, FinishDuel(id, rest),
           \A c \in CallsOf(rest) : c.op \notin {"start", "setup"}
    PROVE  \E new : /\ Makes(new, CallsOf(rest))
                    /\ \A c \in new : c.op = "duelEnded" /\ c.player \in {duelSeats[id][0], duelSeats[id][1]}
                    /\ \A p \in {duelSeats[id][0], duelSeats[id][1]} \ {None} :
                         duelSeats[id][0] # None => [op |-> "duelEnded", player |-> p] \in new
<1> DEFINE seats == duelSeats[id]
           a == [op |-> "duelEnded", player |-> seats[0]]
           b == [op |-> "duelEnded", player |-> seats[1]]
<1>1. /\ a.op = "duelEnded" /\ b.op = "duelEnded"
      /\ a.player = seats[0] /\ b.player = seats[1]
      /\ \A p \in {seats[0], seats[1]} : [op |-> "duelEnded", player |-> p] \in {a, b}
      /\ [op |-> "duelEnded", player |-> seats[0]] \in {a}
  OBVIOUS
<1>2. \/ seats[1] = None /\ stack' = <<a>> \o rest
      \/ stack' = <<a, b>> \o rest
  BY DEF FinishDuel, DuelEndedCalls
<1> HIDE DEF a, b
<1>3. MayCover(a, b) /\ \A c \in CallsOf(rest) : MayCover(a, c) /\ MayCover(b, c)
  BY <1>1 DEF MayCover, QuietOps, Rounds, Lasts
<1>4. CASE seats[1] = None /\ stack' = <<a>> \o rest
  <2>1. Makes({a}, CallsOf(rest))
    BY <1>3, <1>4, CoverOne DEF Makes
  <2>2. \A p \in {seats[0], seats[1]} \ {None} : [op |-> "duelEnded", player |-> p] \in {a}
    BY <1>1, <1>4
  <2> QED
    BY <1>1, <2>1, <2>2
<1>5. CASE stack' = <<a, b>> \o rest
  <2>1. Makes({a, b}, CallsOf(rest))
    BY <1>3, <1>5, CoverTwo DEF Makes
  <2> QED
    BY <1>1, <2>1
<1> QED
  BY <1>2, <1>4, <1>5

LEMMA SoloGuardCalls ==
    ASSUME ICalls, SoloGuard
    PROVE  Makes({SelectionCall(Top.player), SoloCall("soloSelected", Top.player)}, {}) /\ Below = {}
<1> DEFINE a == SelectionCall(Top.player)
           b == SoloCall("soloSelected", Top.player)
<1>1. /\ stack # <<>> /\ Top.op = "soloGuard" /\ a.op = "selection" /\ b.op = "soloSelected"
      /\ stack' = <<a, b>> \o Rest
  BY DEF SoloGuard, Running, SelectionCall, SoloCall, Call
<1>2. Rest \in Seq(Frame) /\ Nested(Rest) /\ Below = {}
  BY <1>1, Pops DEF MayCover, Lasts
<1> HIDE DEF a, b
<1>3. MayCover(a, b)
  BY <1>1 DEF MayCover, QuietOps, Rounds, Lasts
<1>4. Makes({a, b}, {})
  BY <1>1, <1>2, <1>3, CoverTwo DEF Makes, Below
<1> QED
  BY <1>2, <1>4 DEF a, b

LEMMA SoloFinallyCalls ==
    ASSUME ICalls, SoloFinally
    PROVE  /\ Makes({[op |-> "startFinished", player |-> Top.player, success |-> started]}, {})
           /\ Below = {}
<1> DEFINE a == [op |-> "startFinished", player |-> Top.player, success |-> started]
<1>1. stack # <<>> /\ Top.op = "soloFinally" /\ stack' = <<a>> \o Rest
  BY DEF SoloFinally, Running, Call
<1>2. Below = {}
  BY <1>1, Pops DEF MayCover, Lasts
<1> HIDE DEF a
<1>3. Makes({a}, {})
  BY <1>1, <1>2, InPlaceCalls
<1> QED
  BY <1>2, <1>3 DEF a

\* What a waiting server is asked for.
LEMMA AskedCalls ==
    ASSUME NEW a, NEW b, MayCover(a, b), a.op \notin {"start", "setup"},
           b.op \notin {"start", "setup"}, ITypes
    PROVE  /\ \A c \in Due : c.op = "sweep"
           /\ stack' = Expiry(clock) => Makes(Due, {})
           /\ stack' = Expiry(clock) \o <<b>> => Makes(Due \cup {b}, {})
           /\ stack' = Expiry(clock) \o <<a, b>> => Makes(Due \cup {a, b}, {})
<1> DEFINE S == {a, b}
<1>1. <<b>> \in Seq(S) /\ <<a, b>> \in Seq(S) /\ <<>> \in Seq(S)
  BY CallsTyped, EmptySeq
<1>2. Nested(<<>>) /\ CallsOf(<<>>) = {}
  BY NothingNested
<1>3. /\ <<>> \o <<>> = <<>> /\ <<b>> \o <<>> = <<b>> /\ <<a, b>> \o <<>> = <<a, b>>
      /\ Expiry(clock) \o <<>> = Expiry(clock)
  BY <1>1, ConcatEmptySeq, ExpiryTypes DEF ITypes, TypeOK
<1>4. Nested(<<b>>) /\ CallsOf(<<b>>) = {b}
  <2>1. Nested(<<b>> \o <<>>) /\ CallsOf(<<b>> \o <<>>) = {b} \cup CallsOf(<<>>)
    BY <1>1, <1>2, CoverOne
  <2> QED
    BY <1>2, <1>3, <2>1
<1>5. Nested(<<a, b>>) /\ CallsOf(<<a, b>>) = {a, b}
  <2>1. Nested(<<a, b>> \o <<>>) /\ CallsOf(<<a, b>> \o <<>>) = {a, b} \cup CallsOf(<<>>)
    BY <1>1, <1>2, CoverTwo
  <2> QED
    BY <1>2, <1>3, <2>1
<1>6. stack' = Expiry(clock) => Makes(Due, {})
  BY <1>1, <1>2, <1>3, DueCalls
<1>7. stack' = Expiry(clock) \o <<b>> => Makes(Due \cup {b}, {})
  BY <1>1, <1>4, DueCalls DEF Makes
<1>8. stack' = Expiry(clock) \o <<a, b>> => Makes(Due \cup {a, b}, {})
  BY <1>1, <1>5, DueCalls DEF Makes
<1>9. \A c \in Due : c.op = "sweep"
  BY DEF Due, CallsOf, Expiry
<1> QED
  BY <1>6, <1>7, <1>8, <1>9

-----------------------------------------------------------------------------
(* The flows under the calls.  StartsHold is StartingHeld in terms of the     *)
(* calls, with the checks of the two decks; AcceptStands and SweptFirst say   *)
(* why a request still finds the flow as it was when it was made: calls that  *)
(* run in between only end flows, and whatever is overdue at the request is   *)
(* still to be swept by a call above it.                                      *)

StartOps == {"startPrepared", "startChecked", "finishStart"}

StartsHold ==
    /\ \A c \in Calls : c.op \in StartOps =>
         /\ c.flow \in LiveFlows /\ flow[c.flow].mode = "STARTING"
         /\ \E d \in Calls : d.op = "finishStart" /\ d.flow = c.flow
    /\ \A f \in LiveFlows : flow[f].mode = "STARTING" =>
         \E c \in Calls : c.op = "finishStart" /\ c.flow = f

AcceptStands ==
    \A c \in Calls : c.op = "acceptSelected" /\ c.id \in LiveFlows => flow[c.id].mode = "INVITED"

\* Requests that may advance a flow.
Timed == {"accept", "acceptSelected", "hand", "first"}

ToSweep(f, calls) ==
    \E s \in calls : s.op = "sweep" /\ f \in s.todo /\ flow[f].deadline =< s.now

SweptFirst ==
    \A c \in Calls : c.op \in Timed =>
      \A f \in LiveFlows :
        flow[f].mode # "STARTING" /\ flow[f].deadline =< c.now => ToSweep(f, Calls)

RollWon(r) ==
    r.mode \in {"FIRST_CHOICE", "STARTING"} =>
      /\ r.challengerHand # "none" /\ r.accepterHand # "none"
      /\ r.winner = Resolve(r.challengerHand, r.accepterHand)
      /\ r.winner # TIE

RollsWon == \A f \in FlowIds : RollWon(flow[f])

IStarts == ICalls /\ StartsHold /\ AcceptStands /\ SweptFirst /\ RollsWon

StartsKept == Nested(stack') /\ StartsHold' /\ AcceptStands' /\ SweptFirst' /\ RollsWon'

\* Live flows stay as they are, and so do the calls that matter to them.
LEMMA NothingStarts ==
    ASSUME IStarts, NEW new, NEW kept, Makes(new, kept),
           FlowIds' = FlowIds, LiveFlows' \subseteq LiveFlows, RollsWon',
           \A f \in LiveFlows' : /\ flow'[f].mode = flow[f].mode
                                 /\ flow'[f].deadline = flow[f].deadline,
           \A c \in new \cup kept : c.op \in StartOps \cup Timed => c \in Calls,
           \A c \in new \cup kept : c.op \in StartOps => c.flow \in LiveFlows',
           \A c \in Calls : c.op = "finishStart" /\ c.flow \in LiveFlows' => c \in new \cup kept,
           \A f \in LiveFlows' : flow[f].mode # "STARTING" /\ ToSweep(f, Calls)
                                    => ToSweep(f, new \cup kept)
    PROVE  StartsKept
<1>1. Calls' = new \cup kept /\ Nested(stack')
  BY DEF Makes, Calls
<1> DEFINE calls == new \cup kept
<1> HIDE DEF calls
<1>2. Calls' = calls
  BY <1>1 DEF calls
<1>3. StartsHold'
  <2>1. ASSUME NEW c \in calls, c.op \in StartOps
        PROVE  /\ c.flow \in LiveFlows' /\ flow'[c.flow].mode = "STARTING"
               /\ \E d \in calls : d.op = "finishStart" /\ d.flow = c.flow
    <3>1. c \in Calls /\ c.flow \in LiveFlows'
      BY <2>1 DEF calls
    <3>2. flow[c.flow].mode = "STARTING"
      BY <2>1, <3>1 DEF IStarts, StartsHold
    <3>3. PICK d \in Calls : d.op = "finishStart" /\ d.flow = c.flow
      BY <2>1, <3>1 DEF IStarts, StartsHold
    <3>4. d \in calls
      BY <3>1, <3>3 DEF calls
    <3> QED
      BY <3>1, <3>2, <3>3, <3>4
  <2>2. ASSUME NEW f \in LiveFlows', flow'[f].mode = "STARTING"
        PROVE  \E c \in calls : c.op = "finishStart" /\ c.flow = f
    <3>1. PICK c \in Calls : c.op = "finishStart" /\ c.flow = f
      BY <2>2 DEF IStarts, StartsHold
    <3> QED
      BY <3>1 DEF calls
  <2> QED
    BY <1>2, <2>1, <2>2 DEF StartsHold
<1>4. AcceptStands'
  <2>1. ASSUME NEW c \in calls, c.op = "acceptSelected", c.id \in LiveFlows'
        PROVE  flow'[c.id].mode = "INVITED"
    <3>1. c \in Calls
      BY <2>1 DEF calls, Timed
    <3> QED
      BY <2>1, <3>1 DEF IStarts, AcceptStands
  <2> QED
    BY <1>2, <2>1 DEF AcceptStands
<1>5. SweptFirst'
  <2>1. ASSUME NEW c \in calls, c.op \in Timed, NEW f \in LiveFlows',
               flow'[f].mode # "STARTING", flow'[f].deadline =< c.now
        PROVE  ToSweep(f, calls)'
    <3>1. c \in Calls /\ f \in LiveFlows
      BY <2>1 DEF calls
    <3>2. flow[f].mode # "STARTING" /\ flow[f].deadline =< c.now
      BY <2>1
    <3>3. ToSweep(f, Calls)
      BY <2>1, <3>1, <3>2 DEF IStarts, SweptFirst
    <3>4. ToSweep(f, calls)
      BY <3>2, <3>3 DEF calls
    <3>5. PICK s \in calls : s.op = "sweep" /\ f \in s.todo /\ flow[f].deadline =< s.now
      BY <3>4 DEF ToSweep
    <3>6. \E t \in calls' : t.op = "sweep" /\ f \in t.todo /\ flow'[f].deadline =< t.now
      BY <3>5 DEF calls
    <3> QED
      BY <3>6 DEF ToSweep
  <2>2. \A c \in calls : c.op \in Timed => \A f \in LiveFlows' :
          flow'[f].mode # "STARTING" /\ flow'[f].deadline =< c.now => ToSweep(f, Calls)'
    <3>1. calls' = calls
      BY DEF calls
    <3> QED
      BY <1>2, <2>1, <3>1 DEF ToSweep
  <2> QED
    BY <1>2, <2>2 DEF SweptFirst
<1> QED
  BY <1>1, <1>3, <1>4, <1>5 DEF StartsKept

LEMMA LiveSame ==
    ASSUME UNCHANGED flows, Len(flow') = Len(flow),
           \A f \in FlowIds : flow'[f].challenger = flow[f].challenger
    PROVE  FlowIds' = FlowIds /\ LiveFlows' = LiveFlows
<1>1. FlowIds' = FlowIds
  BY DEF FlowIds
<1> QED
  BY <1>1 DEF LiveFlows

\* finish() ends the flow and no other.
LEMMA LiveFinish ==
    ASSUME IFlows, NEW f \in FlowIds, NEW result, NEW rest, Finish(f, result, rest)
    PROVE  /\ FlowIds' = FlowIds
           /\ LiveFlows' = LiveFlows \ {f}
           /\ \A g \in FlowIds : g # f => flow'[g] = flow[g]
           /\ flow'[f] = Garbage(flow[f])
           /\ flow'[f].challenger = flow[f].challenger /\ flow'[f].accepter = flow[f].accepter
           /\ \A p \in Players : flows'[p] = IF flows[p] = f THEN 0 ELSE flows[p]
<1>1. flow \in Seq(Flow) /\ flow' = [flow EXCEPT ![f] = Garbage(@)]
  BY DEF Finish, IFlows, ITypes, TypeOK
<1>2. Len(flow') = Len(flow) /\ Len(flow) \in Nat
  BY <1>1, LenProperties DEF FlowIds
<1>3. /\ FlowIds' = FlowIds
      /\ \A g \in FlowIds : g # f => flow'[g] = flow[g]
      /\ flow'[f] = Garbage(flow[f])
  BY <1>1, <1>2 DEF FlowIds
<1>4. \A g \in FlowIds : flow[g].challenger \in Players /\ flow[g].accepter \in Players
  BY FlowTyped DEF Flow, IFlows, ITypes
<1>5. flow'[f].challenger = flow[f].challenger /\ flow'[f].accepter = flow[f].accepter
  BY <1>3 DEF Garbage, NewFlow
<1>6. f # 0 /\ \A g \in FlowIds : g # 0
  BY DEF FlowIds
<1>7. \A p \in Players : flows'[p] = IF flows[p] = f THEN 0 ELSE flows[p]
  <2>1. ASSUME NEW p \in Players, flows[p] = f PROVE p \in Pair(f)
    BY <2>1, HeldPair
  <2> QED
    BY <2>1 DEF Finish, Pair
<1>8. \A g \in FlowIds : g \in LiveFlows' <=> g \in LiveFlows \ {f}
  BY <1>3, <1>4, <1>5, <1>6, <1>7 DEF LiveFlows
<1> QED
  BY <1>3, <1>5, <1>7, <1>8 DEF LiveFlows

LEMMA GarbageWon == ASSUME NEW r PROVE RollWon(Garbage(r)) /\ Garbage(r).mode = "INVITED"
BY DEF RollWon, Garbage, NewFlow

LEMMA NewRoundRecord ==
    ASSUME NEW r \in Flow, NEW now
    PROVE  /\ NewRound(r, now).mode = "RPS"
           /\ NewRound(r, now).round = r.round + 1
           /\ NewRound(r, now).challenger = r.challenger
           /\ NewRound(r, now).accepter = r.accepter
           /\ NewRound(r, now).challengerHand = "none"
           /\ NewRound(r, now).accepterHand = "none"
           /\ NewRound(r, now).deadline = now + Step
           /\ NewRound(r, now).prepared = r.prepared
BY DEF NewRound, Flow

\* What a submitted hand makes of a flow.
LEMMA PlayedRecord ==
    ASSUME NEW call, NEW r \in Flow, flow[call.id] = r, r.mode = "RPS", call.hand \in Hands,
           call.actor \in {r.challenger, r.accepter}, r.challenger # r.accepter,
           OwnHand(call.actor, call.id) = "none"
    PROVE  LET new == Played(call) IN
           /\ RollWon(new)
           /\ new.challenger = r.challenger /\ new.accepter = r.accepter
           /\ new.prepared = r.prepared
           /\ new.mode \in {"RPS", "FIRST_CHOICE"}
           /\ \/ /\ r.challengerHand \in {"none", new.challengerHand}
                 /\ r.accepterHand \in {"none", new.accepterHand}
              \/ /\ new.mode = "RPS" /\ new.round = r.round + 1
                 /\ IF call.actor = r.challenger THEN r.accepterHand = call.hand
                                                 ELSE r.challengerHand = call.hand
           /\ call.actor = r.challenger => r.challengerHand = "none"
           /\ call.actor = r.accepter => r.accepterHand = "none"
<1> DEFINE s == Submit(r, call.actor, call.hand)
<1>1. /\ s \in Flow
      /\ s.mode = "RPS"
      /\ s.challenger = r.challenger /\ s.accepter = r.accepter /\ s.prepared = r.prepared
      /\ s.round = r.round
      /\ s.challengerHand = IF call.actor = r.challenger THEN call.hand ELSE r.challengerHand
      /\ s.accepterHand = IF call.actor = r.challenger THEN r.accepterHand ELSE call.hand
  BY DEF Submit, Flow, Hands
<1>2. /\ call.actor = r.challenger => r.challengerHand = "none"
      /\ call.actor = r.accepter => r.accepterHand = "none"
  BY DEF OwnHand
<1>3. Played(call) = IF "none" \notin {s.challengerHand, s.accepterHand}
                     THEN Settle(s, call.now) ELSE s
  BY DEF Played
<1>4. call.hand # "none"
  BY DEF Hands
<1> HIDE DEF s
<1>5. CASE "none" \in {s.challengerHand, s.accepterHand}
  <2>1. Played(call) = s
    BY <1>3, <1>5
  <2> QED
    BY <1>1, <1>2, <1>4, <2>1 DEF RollWon
<1>6. CASE "none" \notin {s.challengerHand, s.accepterHand}
  <2> DEFINE w == Resolve(s.challengerHand, s.accepterHand)
  <2>1. Played(call) = Settle(s, call.now)
    BY <1>3, <1>6
  <2>2. CASE w = TIE
    <3> DEFINE t == [s EXCEPT !.winner = TIE]
    <3>1. /\ t \in Flow /\ t.round = s.round /\ t.challenger = s.challenger
          /\ t.accepter = s.accepter /\ t.prepared = s.prepared
      BY <1>1 DEF Flow, TIE
    <3>2. Settle(s, call.now) = NewRound(t, call.now)
      BY <2>2 DEF Settle
    <3>3. s.challengerHand = s.accepterHand
      BY <2>2 DEF Resolve, TIE
    <3> HIDE DEF t, w
    <3> QED
      BY <1>1, <1>2, <2>1, <3>1, <3>2, <3>3, NewRoundRecord DEF RollWon
  <2>3. CASE w # TIE
    <3> DEFINE t == [s EXCEPT !.winner = w, !.mode = "FIRST_CHOICE", !.round = 0,
                              !.deadline = call.now + Step]
    <3>1. Settle(s, call.now) = t
      BY <2>3 DEF Settle
    <3>2. /\ t.winner = w /\ t.mode = "FIRST_CHOICE" /\ t.challenger = s.challenger
          /\ t.accepter = s.accepter /\ t.prepared = s.prepared
          /\ t.challengerHand = s.challengerHand /\ t.accepterHand = s.accepterHand
      BY <1>1 DEF Flow
    <3> HIDE DEF t
    <3>3. RollWon(t)
      BY <1>6, <2>3, <3>2 DEF RollWon
    <3> QED
      BY <1>1, <1>2, <1>4, <2>1, <3>1, <3>2, <3>3
  <2> QED
    BY <2>2, <2>3
<1> QED
  BY <1>5, <1>6

\* A step that leaves the flows alone, and neither starts nor ends a start or
\* a sweep.
LEMMA IdleKeeps ==
    ASSUME IStarts, UNCHANGED <<flow, flows>>, NEW new, NEW kept, Makes(new, kept),
           \A c \in new : c.op \notin StartOps \cup Timed,
           \/ kept = Calls
           \/ stack # <<>> /\ kept = Below /\ Top.op \notin {"finishStart", "sweep"}
    PROVE  StartsKept
<1>1. FlowIds' = FlowIds /\ LiveFlows' = LiveFlows
  BY LiveSame
<1>2. kept \subseteq Calls /\ \A c \in Calls : c.op \in {"finishStart", "sweep"} => c \in kept
  BY Pops DEF IStarts
<1>3. RollsWon'
  BY <1>1 DEF IStarts, RollsWon
<1>4. \A f \in LiveFlows' : flow[f].mode # "STARTING" /\ ToSweep(f, Calls)
                               => ToSweep(f, new \cup kept)
  BY <1>2 DEF ToSweep
<1>5. \A c \in new \cup kept : c.op \in StartOps \cup Timed => c \in Calls
  BY <1>2
<1>6. \A c \in new \cup kept : c.op \in StartOps => c.flow \in LiveFlows'
  BY <1>1, <1>5 DEF IStarts, StartsHold
<1>7. \A c \in Calls : c.op = "finishStart" /\ c.flow \in LiveFlows' => c \in new \cup kept
  BY <1>2
<1> QED
  BY <1>1, <1>3, <1>4, <1>5, <1>6, <1>7, NothingStarts

\* A flow ends, with the start that holds it if there is one.
LEMMA FinishKeeps ==
    ASSUME IStarts, stack # <<>>, NEW f \in FlowIds, NEW result, NEW extra,
           FinishMakes(f, result, extra),
           \A c \in extra : c.op \notin StartOps \cup Timed,
           \A c \in Below : c.op \in StartOps => c.flow # f,
           Top.op = "finishStart" => Top.flow = f,
           Top.op = "sweep" => \A g \in LiveFlows \ {f} :
             g \in Top.todo => \E s \in extra : s.op = "sweep" /\ g \in s.todo /\ s.now = Top.now
    PROVE  StartsKept
<1> DEFINE new == Notices(flow[f].challenger, flow[f].accepter, result) \cup extra
<1>1. PICK rest : Finish(f, result, rest)
  BY DEF FinishMakes
<1>2. Makes(new, Below)
  BY DEF FinishMakes
<1>3. /\ FlowIds' = FlowIds
      /\ LiveFlows' = LiveFlows \ {f}
      /\ \A g \in FlowIds : g # f => flow'[g] = flow[g]
      /\ flow'[f] = Garbage(flow[f])
  BY <1>1, LiveFinish DEF IStarts, ICalls
<1>4. RollsWon'
  BY <1>3, GarbageWon DEF IStarts, RollsWon
<1>5. Calls = {Top} \cup Below
  BY Pops DEF IStarts
<1>6. \A c \in new : c.op \notin StartOps \cup Timed
  BY DEF Notices, ChangedCall, StartOps, Timed
<1> HIDE DEF new
<1>7. \A c \in new \cup Below : c.op \in StartOps \cup Timed => c \in Calls
  BY <1>5, <1>6
<1>8. \A c \in new \cup Below : c.op \in StartOps => c.flow \in LiveFlows'
  <2>1. \A c \in new \cup Below : c.op \in StartOps => c \in Below /\ c \in Calls
    BY <1>5, <1>6
  <2>2. \A c \in Calls : c.op \in StartOps => c.flow \in LiveFlows
    BY DEF IStarts, StartsHold
  <2> QED
    BY <1>3, <2>1, <2>2
<1>9. \A c \in Calls : c.op = "finishStart" /\ c.flow \in LiveFlows' => c \in new \cup Below
  BY <1>3, <1>5
<1>10. ASSUME NEW g \in LiveFlows', ToSweep(g, Calls) PROVE ToSweep(g, new \cup Below)
  <2>1. PICK s \in Calls : s.op = "sweep" /\ g \in s.todo /\ flow[g].deadline =< s.now
    BY <1>10 DEF ToSweep
  <2>2. CASE s \in Below
    BY <2>1, <2>2 DEF ToSweep
  <2>3. CASE s = Top
    <3>1. PICK t \in extra : t.op = "sweep" /\ g \in t.todo /\ t.now = Top.now
      BY <1>3, <2>1, <2>3
    <3>2. t \in new \cup Below
      BY DEF new
    <3> QED
      BY <2>1, <2>3, <3>1, <3>2 DEF ToSweep
  <2> QED
    BY <1>5, <2>2, <2>3
<1>11. \A g \in LiveFlows' : flow'[g].mode = flow[g].mode /\ flow'[g].deadline = flow[g].deadline
  BY <1>3 DEF LiveFlows
<1> QED
  BY <1>2, <1>3, <1>4, <1>7, <1>8, <1>9, <1>10, <1>11, NothingStarts

\* While a request runs no start is pending, and nothing but the reply waits.
LEMMA RoundAlone ==
    ASSUME IStarts, stack # <<>>, Top.op \in Rounds
    PROVE  /\ \A c \in Below : c.op = "reply"
           /\ Top.op # "finishStart" => \A f \in LiveFlows : flow[f].mode # "STARTING"
<1>1. Calls = {Top} \cup Below /\ \A c \in Below : MayCover(Top, c)
  BY Pops DEF IStarts
<1>2. \A c \in Below : c.op = "reply"
  BY <1>1 DEF MayCover
<1> QED
  BY <1>1, <1>2 DEF IStarts, StartsHold

\* The same for a cancellation, alone or before a duel against the AI.
LEMMA CancelAlone ==
    ASSUME IStarts, stack # <<>>, Top.op \in {"cancel", "cancelOwn"}
    PROVE  /\ \A c \in Below : c.op \in {"reply", "soloGuard"}
           /\ \A f \in LiveFlows : flow[f].mode # "STARTING"
<1>1. Calls = {Top} \cup Below /\ \A c \in Below : MayCover(Top, c)
  BY Pops DEF IStarts
<1>2. \A c \in Below : c.op \in {"reply", "soloGuard"}
  BY <1>1 DEF MayCover
<1> QED
  BY <1>1, <1>2 DEF IStarts, StartsHold

\* A request changes flows of its own: nothing else was going on.
LEMMA RoundKeeps ==
    ASSUME IStarts, NEW new, NEW kept, Makes(new, kept), RollsWon',
           \A c \in new \cup kept : c.op \notin StartOps \cup Timed,
           \A f \in LiveFlows' : flow'[f].mode # "STARTING"
    PROVE  StartsKept
<1>1. Calls' = new \cup kept /\ Nested(stack')
  BY DEF Makes, Calls
<1> DEFINE calls == new \cup kept
<1> HIDE DEF calls
<1>2. Calls' = calls /\ \A c \in calls : c.op \notin StartOps \cup Timed
  BY <1>1 DEF calls
<1>3. StartsHold'
  BY <1>2 DEF StartsHold
<1>4. AcceptStands' /\ SweptFirst'
  BY <1>2 DEF AcceptStands, SweptFirst, Timed
<1> QED
  BY <1>1, <1>3, <1>4 DEF StartsKept

LEMMA SweepKeeps == ASSUME IStarts, Sweep \/ SweepEnds PROVE StartsKept
<1>1. stack # <<>> /\ Top.op = "sweep" /\ Top \in SweepFrame(FlowIds)
  BY Pops, KindOfTop DEF Sweep, SweepEnds, Running, IStarts
<1>2. Calls = {Top} \cup Below
  BY <1>1, Pops DEF IStarts
<1>3. CASE Sweep
  <2> PICK f \in Top.todo :
        LET left == [Top EXCEPT !.todo = @ \ {f}] IN
        \/ Overdue(f, Top.now) /\ FinishMakes(f, "STALE", {left})
        \/ ~Overdue(f, Top.now) /\ UNCHANGED prepVars /\ Makes({left}, Below)
    BY <1>3, SweepCalls DEF IStarts
  <2> DEFINE left == [Top EXCEPT !.todo = @ \ {f}]
  <2>1. /\ left.op = "sweep" /\ left.now = Top.now /\ left.todo = Top.todo \ {f}
        /\ f \in FlowIds /\ Top.now \in Nat
    BY <1>1 DEF SweepFrame
  <2>2. \/ Overdue(f, Top.now) /\ FinishMakes(f, "STALE", {left})
        \/ ~Overdue(f, Top.now) /\ UNCHANGED prepVars /\ Makes({left}, Below)
    OBVIOUS
  <2>3. left.op \notin StartOps \cup Timed
    BY <2>1 DEF StartOps, Timed
  <2> HIDE DEF left
  <2>4. CASE Overdue(f, Top.now) /\ FinishMakes(f, "STALE", {left})
    <3>1. flow[f].mode # "STARTING"
      BY <2>4 DEF Overdue
    <3>2. \A c \in Below : c.op \in StartOps => c.flow # f
      BY <1>2, <3>1 DEF IStarts, StartsHold
    <3>3. \A g \in LiveFlows \ {f} : g \in Top.todo =>
            \E s \in {left} : s.op = "sweep" /\ g \in s.todo /\ s.now = Top.now
      BY <2>1
    <3> QED
      BY <1>1, <2>1, <2>3, <2>4, <3>2, <3>3, FinishKeeps
  <2>5. CASE ~Overdue(f, Top.now) /\ UNCHANGED prepVars /\ Makes({left}, Below)
    <3>1. FlowIds' = FlowIds /\ LiveFlows' = LiveFlows /\ flow' = flow
      BY <2>5, LiveSame DEF prepVars
    <3>2. RollsWon'
      BY <3>1 DEF IStarts, RollsWon
    <3>3. ASSUME NEW g \in LiveFlows, flow[g].mode # "STARTING", ToSweep(g, Calls)
          PROVE  ToSweep(g, {left} \cup Below)
      <4>1. PICK s \in Calls : s.op = "sweep" /\ g \in s.todo /\ flow[g].deadline =< s.now
        BY <3>3 DEF ToSweep
      <4>2. CASE s \in Below
        BY <4>1, <4>2 DEF ToSweep
      <4>3. CASE s = Top
        <5>1. g \in FlowIds /\ flows[flow[g].challenger] = g /\ flow[g].deadline \in Nat
          BY FlowTyped DEF LiveFlows, Flow, IStarts, ICalls, IFlows, ITypes
        <5>2. g # f
          BY <2>1, <2>5, <3>3, <4>1, <4>3, <5>1 DEF Overdue
        <5> QED
          BY <2>1, <4>1, <4>3, <5>2 DEF ToSweep
      <4> QED
        BY <1>2, <4>2, <4>3
    <3>4. \A c \in {left} \cup Below : c.op \in StartOps \cup Timed => c \in Calls
      BY <1>2, <2>3
    <3>5. \A c \in {left} \cup Below : c.op \in StartOps => c.flow \in LiveFlows'
      BY <3>1, <3>4 DEF IStarts, StartsHold
    <3>6. \A c \in Calls : c.op = "finishStart" /\ c.flow \in LiveFlows' => c \in {left} \cup Below
      BY <1>1, <1>2
    <3> QED
      BY <2>5, <3>1, <3>2, <3>3, <3>4, <3>5, <3>6, NothingStarts
  <2> QED
    BY <2>2, <2>4, <2>5
<1>4. CASE SweepEnds
  <2>1. Makes({}, Below) /\ UNCHANGED <<flow, flows>>
    BY <1>1, <1>4, ReturnCalls DEF SweepEnds, prepVars, IStarts
  <2>2. FlowIds' = FlowIds /\ LiveFlows' = LiveFlows /\ flow' = flow
    BY <2>1, LiveSame
  <2>3. RollsWon'
    BY <2>2 DEF IStarts, RollsWon
  <2>4. \A g \in LiveFlows : ToSweep(g, Calls) => ToSweep(g, {} \cup Below)
    BY <1>2, <1>4 DEF ToSweep, SweepEnds
  <2>5. \A c \in {} \cup Below : c.op \in StartOps \cup Timed => c \in Calls
    BY <1>2
  <2>6. \A c \in {} \cup Below : c.op \in StartOps => c.flow \in LiveFlows'
    BY <2>2, <2>5 DEF IStarts, StartsHold
  <2>7. \A c \in Calls : c.op = "finishStart" /\ c.flow \in LiveFlows' => c \in {} \cup Below
    BY <1>1, <1>2
  <2> QED
    BY <2>1, <2>2, <2>3, <2>4, <2>5, <2>6, <2>7, NothingStarts
<1> QED
  BY <1>3, <1>4

\* A flow that no start holds ends.
LEMMA EndKeeps ==
    ASSUME IStarts, stack # <<>>, NEW f \in FlowIds, NEW result, FinishMakes(f, result, {}),
           flow[f].mode # "STARTING", Top.op \notin {"finishStart", "sweep"}
    PROVE  StartsKept
<1>1. Calls = {Top} \cup Below
  BY Pops DEF IStarts
<1>2. \A c \in Below : c.op \in StartOps => c.flow # f
  BY <1>1 DEF IStarts, StartsHold
<1> QED
  BY <1>2, FinishKeeps

LEMMA RefusedKeeps ==
    ASSUME IStarts, stack # <<>>, Top.op \notin {"finishStart", "sweep"}, UNCHANGED prepVars,
           Makes({}, Below)
    PROVE  StartsKept
BY IdleKeeps DEF prepVars

LEMMA InviteKeeps == ASSUME IStarts, Invite PROVE StartsKept
<1> DEFINE first == SelectionCall(Top.actor)
           after == [Top EXCEPT !.op = "inviteSelected"]
<1>1. stack # <<>> /\ Top.op = "invite" /\ Top \in InviteFrame
  BY Pops, KindOfTop DEF Invite, Running, IStarts
<1>2. first.op = "selection" /\ after.op = "inviteSelected"
  BY <1>1 DEF InviteFrame, SelectionCall
<1>3. UNCHANGED prepVars /\ (Makes({}, Below) \/ Makes({first, after}, Below))
  BY InviteCalls DEF IStarts
<1> HIDE DEF first, after
<1>4. CASE Makes({}, Below)
  BY <1>1, <1>3, <1>4, RefusedKeeps
<1>5. CASE Makes({first, after}, Below)
  <2>1. \A c \in {first, after} : c.op \notin StartOps \cup Timed
    BY <1>2 DEF StartOps, Timed
  <2> QED
    BY <1>1, <1>3, <1>5, <2>1, IdleKeeps DEF prepVars
<1> QED
  BY <1>3, <1>4, <1>5

LEMMA AcceptKeeps == ASSUME IStarts, Accept PROVE StartsKept
<1> DEFINE f == Top.id
           first == SelectionCall(flow[f].challenger)
           second == SelectionCall(flow[f].accepter)
           after == [Top EXCEPT !.op = "acceptSelected"]
<1>1. stack # <<>> /\ Top.op = "accept" /\ Top \in AnswerFrame(FlowIds)
  BY Pops, KindOfTop DEF Accept, Running, IStarts
<1>2. f \in FlowIds
  BY <1>1 DEF AnswerFrame
<1>3. \/ UNCHANGED prepVars /\ Makes({}, Below)
      \/ Answerable(Top) /\ FinishMakes(f, Availability(f), {})
      \/ Answerable(Top) /\ UNCHANGED prepVars /\ Makes({first, second, after}, Below)
  BY AcceptCalls DEF IStarts
<1>4. CASE UNCHANGED prepVars /\ Makes({}, Below)
  BY <1>1, <1>4, RefusedKeeps
<1>5. CASE Answerable(Top) /\ FinishMakes(f, Availability(f), {})
  BY <1>1, <1>2, <1>5, EndKeeps DEF Answerable
<1>6. CASE Answerable(Top) /\ UNCHANGED prepVars /\ Makes({first, second, after}, Below)
  <2>1. /\ first.op = "selection" /\ second.op = "selection"
        /\ after.op = "acceptSelected" /\ after.id = f /\ after.now = Top.now
    BY <1>1 DEF AnswerFrame, SelectionCall
  <2>2. /\ \A c \in Below : c.op = "reply"
        /\ \A g \in LiveFlows : flow[g].mode # "STARTING"
        /\ Calls = {Top} \cup Below
    BY <1>1, RoundAlone, Pops DEF Rounds, IStarts
  <2>3. UNCHANGED <<flow, flows>> /\ FlowIds' = FlowIds /\ LiveFlows' = LiveFlows
    BY <1>6, LiveSame DEF prepVars
  <2> HIDE DEF first, second, after
  <2>4. Nested(stack') /\ Calls' = {first, second, after} \cup Below
    BY <1>6 DEF Makes, Calls
  <2>5. \A c \in Calls' : c.op \in {"selection", "reply"} \/ c = after
    BY <2>1, <2>2, <2>4
  <2>6. StartsHold'
    BY <2>1, <2>2, <2>3, <2>5 DEF StartsHold, StartOps
  <2>7. AcceptStands'
    BY <1>6, <2>1, <2>3, <2>5 DEF AcceptStands, Answerable
  <2>8. \A g \in LiveFlows : ~(flow[g].deadline =< Top.now)
    <3>1. \A g \in LiveFlows : ~ToSweep(g, Calls)
      BY <1>1, <2>2 DEF ToSweep
    <3>2. Top \in Calls /\ Top.op \in Timed
      BY <1>1, <2>2 DEF Timed
    <3> QED
      BY <2>2, <3>1, <3>2 DEF IStarts, SweptFirst
  <2>9. SweptFirst'
    <3>1. \A c \in Calls' : c.op \in Timed => c.now = Top.now
      BY <2>1, <2>5 DEF Timed
    <3> QED
      BY <2>3, <2>8, <3>1 DEF SweptFirst
  <2>10. RollsWon'
    BY <2>3 DEF IStarts, RollsWon
  <2> QED
    BY <2>4, <2>6, <2>7, <2>9, <2>10 DEF StartsKept
<1> QED
  BY <1>3, <1>4, <1>5, <1>6

LEMMA AnswerKeeps == ASSUME IStarts, Decline \/ Cancel PROVE StartsKept
<1>1. /\ stack # <<>> /\ Top.op \in {"decline", "cancel"} /\ Top \in AnswerFrame(FlowIds)
  BY Pops, KindOfTop DEF Decline, Cancel, Running, IStarts
<1>2. Top.id \in FlowIds
  BY <1>1 DEF AnswerFrame
<1>3. \/ UNCHANGED prepVars /\ Makes({}, Below)
      \/ flow[Top.id].mode # "STARTING" /\ FinishMakes(Top.id, "OK", {})
  BY DeclineCalls, CancelCalls DEF Answerable, IStarts
<1> QED
  BY <1>1, <1>2, <1>3, RefusedKeeps, EndKeeps

LEMMA HandKeeps == ASSUME IStarts, Hand PROVE StartsKept
<1> DEFINE f == Top.id
           new == Played(Top)
           told == Notices(flow[f].challenger, flow[f].accepter, "OK")
<1>1. stack # <<>> /\ Top.op = "hand" /\ Top \in HandFrame(FlowIds)
  BY Pops, KindOfTop DEF Hand, Running, IStarts
<1>2. \/ UNCHANGED prepVars /\ Makes({}, Below)
      \/ HandAwaited(Top) /\ Rewrites(f, new) /\ Makes(told, Below)
  BY HandCalls DEF IStarts
<1>3. CASE UNCHANGED prepVars /\ Makes({}, Below)
  BY <1>1, <1>3, RefusedKeeps
<1>4. CASE HandAwaited(Top) /\ Rewrites(f, new) /\ Makes(told, Below)
  <2>1. f \in FlowIds /\ Top.actor \in Players /\ Top.hand \in Hands
    BY <1>1 DEF HandFrame
  <2>2. flow[f] \in Flow /\ flow \in Seq(Flow)
    BY <2>1, FlowTyped DEF IStarts, ICalls, IFlows, ITypes, TypeOK
  <2>3. Top.actor \in Pair(f) /\ flow[f].challenger # flow[f].accepter
    BY <1>4, <2>1, HeldPair DEF HandAwaited, IStarts, ICalls
  <2>4. /\ RollWon(new) /\ new.mode \in {"RPS", "FIRST_CHOICE"}
        /\ new.challenger = flow[f].challenger
    BY <1>4, <2>1, <2>2, <2>3, PlayedRecord DEF HandAwaited, Pair
  <2> HIDE DEF new
  <2>5. /\ \A g \in FlowIds : flow'[g] = IF g = f THEN new ELSE flow[g]
        /\ Len(flow') = Len(flow) /\ UNCHANGED flows
    BY <1>4, <2>1, <2>2 DEF Rewrites, FlowIds
  <2>6. FlowIds' = FlowIds /\ LiveFlows' = LiveFlows
    BY <2>4, <2>5, LiveSame
  <2>7. RollsWon'
    BY <2>4, <2>5, <2>6 DEF IStarts, RollsWon
  <2>8. (\A c \in Below : c.op = "reply") /\ \A g \in LiveFlows : flow[g].mode # "STARTING"
    BY <1>1, RoundAlone DEF Rounds
  <2>9. \A g \in LiveFlows' : flow'[g].mode # "STARTING"
    BY <2>4, <2>5, <2>6, <2>8 DEF LiveFlows
  <2>10. \A c \in told \cup Below : c.op \notin StartOps \cup Timed
    BY <2>8 DEF Notices, ChangedCall, StartOps, Timed
  <2> QED
    BY <1>4, <2>7, <2>9, <2>10, RoundKeeps
<1> QED
  BY <1>2, <1>3, <1>4

\* The choice of the first turn starts the one start there is.
LEMMA FirstKeeps == ASSUME IStarts, First PROVE StartsKept
<1> DEFINE f == Top.id
           start == [op |-> "startPrepared", flow |-> f, firstSeat |-> FirstSeat(f, Top.goFirst)]
           after == [op |-> "finishStart", flow |-> f, goFirst |-> Top.goFirst]
           told == Notices(flow[f].challenger, flow[f].accepter, "OK")
<1>1. stack # <<>> /\ Top.op = "first" /\ Top \in FirstFrame(FlowIds)
  BY Pops, KindOfTop DEF First, Running, IStarts
<1>2. f \in FlowIds /\ Top.actor \in Players
  BY <1>1 DEF FirstFrame
<1>3. \/ UNCHANGED prepVars /\ Makes({}, Below)
      \/ MayChoose(Top) /\ FinishMakes(f, Availability(f), {})
      \/ /\ MayChoose(Top) /\ UNCHANGED flows
         /\ flow' = [flow EXCEPT ![f].mode = "STARTING"]
         /\ Makes(told \cup {start, after}, Below)
  BY FirstCalls DEF IStarts
<1>4. CASE UNCHANGED prepVars /\ Makes({}, Below)
  BY <1>1, <1>4, RefusedKeeps
<1>5. CASE MayChoose(Top) /\ FinishMakes(f, Availability(f), {})
  BY <1>1, <1>2, <1>5, EndKeeps DEF MayChoose
<1>6. CASE /\ MayChoose(Top) /\ UNCHANGED flows
           /\ flow' = [flow EXCEPT ![f].mode = "STARTING"]
           /\ Makes(told \cup {start, after}, Below)
  <2>1. flow[f] \in Flow /\ flow \in Seq(Flow)
    BY <1>2, FlowTyped DEF IStarts, ICalls, IFlows, ITypes, TypeOK
  <2>2. /\ \A g \in FlowIds : g # f => flow'[g] = flow[g]
        /\ flow'[f] = [flow[f] EXCEPT !.mode = "STARTING"]
        /\ Len(flow') = Len(flow)
    BY <1>2, <1>6, <2>1 DEF FlowIds
  <2>3. flow'[f].challenger = flow[f].challenger /\ flow'[f].mode = "STARTING"
    BY <2>1, <2>2 DEF Flow
  <2>4. FlowIds' = FlowIds /\ LiveFlows' = LiveFlows /\ f \in LiveFlows
    BY <1>2, <1>6, <2>2, <2>3, LiveSame, HeldPair DEF MayChoose, IStarts, ICalls
  <2>5. RollsWon'
    <3>1. RollWon(flow'[f])
      <4>1. RollWon(flow[f]) /\ flow[f].mode = "FIRST_CHOICE"
        BY <1>2, <1>6 DEF IStarts, RollsWon, MayChoose
      <4> QED
        BY <2>1, <2>2, <4>1 DEF RollWon, Flow
    <3> QED
      BY <2>2, <2>4, <3>1 DEF IStarts, RollsWon
  <2>6. (\A c \in Below : c.op = "reply") /\ \A g \in LiveFlows : flow[g].mode # "STARTING"
    BY <1>1, RoundAlone DEF Rounds
  <2>7. /\ start.op = "startPrepared" /\ after.op = "finishStart"
        /\ start.flow = f /\ after.flow = f
        /\ \A c \in told : c.op = "changed"
    BY DEF Notices, ChangedCall
  <2> HIDE DEF start, after, told
  <2>8. Nested(stack') /\ Calls' = told \cup {start, after} \cup Below
    BY <1>6 DEF Makes, Calls
  <2>9. \A c \in Calls' : c.op \in {"changed", "reply"} \/ c \in {start, after}
    BY <2>6, <2>7, <2>8
  <2>10. StartsHold'
    BY <2>2, <2>3, <2>4, <2>6, <2>7, <2>8, <2>9 DEF StartsHold, StartOps, LiveFlows
  <2>11. AcceptStands' /\ SweptFirst'
    BY <2>7, <2>9 DEF AcceptStands, SweptFirst, Timed
  <2> QED
    BY <2>5, <2>8, <2>10, <2>11 DEF StartsKept
<1> QED
  BY <1>3, <1>4, <1>5, <1>6

\* "A synchronous startup owns the locks until its callback returns": the
\* logout of a player in it is remembered, and nothing is released.
LEMMA LogoutKeeps == ASSUME IStarts, Logout PROVE StartsKept
<1> DEFINE f == flows[Top.player]
<1>1. stack # <<>> /\ Top.op = "logout" /\ Top \in PlayerFrame
  BY Pops, KindOfTop DEF Logout, Running, IStarts
<1>2. f \in {0} \cup FlowIds /\ flow \in Seq(Flow)
  BY <1>1 DEF PlayerFrame, IStarts, ICalls, IFlows, ITypes, TypeOK
<1>3. \/ UNCHANGED prepVars /\ Makes({}, Below)
      \/ /\ f # 0 /\ flow[f].mode = "STARTING"
         /\ flow' = [flow EXCEPT ![f].loggedOutDuringStart = TRUE]
         /\ UNCHANGED flows /\ Makes({}, Below)
      \/ f # 0 /\ flow[f].mode # "STARTING" /\ FinishMakes(f, "OFFLINE", {})
  BY LogoutCalls DEF IStarts
<1> HIDE DEF f
<1>4. CASE UNCHANGED prepVars /\ Makes({}, Below)
  BY <1>1, <1>4, RefusedKeeps
<1>5. CASE f # 0 /\ flow[f].mode # "STARTING" /\ FinishMakes(f, "OFFLINE", {})
  BY <1>1, <1>2, <1>5, EndKeeps
<1>6. CASE /\ f # 0 /\ flow[f].mode = "STARTING"
           /\ flow' = [flow EXCEPT ![f].loggedOutDuringStart = TRUE]
           /\ UNCHANGED flows /\ Makes({}, Below)
  <2>1. f \in FlowIds /\ flow[f] \in Flow
    BY <1>2, <1>6, FlowTyped DEF IStarts, ICalls, IFlows, ITypes
  <2>2. /\ \A g \in FlowIds : g # f => flow'[g] = flow[g]
        /\ flow'[f] = [flow[f] EXCEPT !.loggedOutDuringStart = TRUE]
        /\ Len(flow') = Len(flow)
    <3> DEFINE out == [flow[f] EXCEPT !.loggedOutDuringStart = TRUE]
    <3>1. flow' = [flow EXCEPT ![f] = out]
      BY <1>6
    <3> HIDE DEF out
    <3>2. /\ \A g \in FlowIds : g # f => flow'[g] = flow[g]
          /\ flow'[f] = out /\ Len(flow') = Len(flow)
      BY <1>2, <2>1, <3>1 DEF FlowIds
    <3> QED
      BY <3>2 DEF out
  <2>3. \A g \in FlowIds : /\ flow'[g].challenger = flow[g].challenger
                           /\ flow'[g].mode = flow[g].mode
                           /\ flow'[g].deadline = flow[g].deadline
    BY <2>1, <2>2 DEF Flow
  <2>4. FlowIds' = FlowIds /\ LiveFlows' = LiveFlows
    BY <1>6, <2>2, <2>3, LiveSame
  <2>5. RollsWon'
    <3>1. RollWon(flow'[f])
      BY <2>1, <2>2 DEF RollWon, Flow, IStarts, RollsWon
    <3> QED
      BY <2>2, <2>4, <3>1 DEF IStarts, RollsWon
  <2>6. Calls = {Top} \cup Below
    BY <1>1, Pops DEF IStarts
  <2>7. \A c \in {} \cup Below : c.op \in StartOps => c.flow \in LiveFlows'
    BY <2>4, <2>6 DEF IStarts, StartsHold
  <2>8. \A c \in Calls : c.op \in {"finishStart", "sweep"} => c \in {} \cup Below
    BY <1>1, <2>6
  <2>9. \A g \in LiveFlows' : flow[g].mode # "STARTING" /\ ToSweep(g, Calls)
                                 => ToSweep(g, {} \cup Below)
    BY <2>8 DEF ToSweep
  <2>10. \A g \in LiveFlows' : /\ flow'[g].mode = flow[g].mode
                               /\ flow'[g].deadline = flow[g].deadline
    BY <2>3, <2>4 DEF LiveFlows
  <2>11. \A c \in {} \cup Below : c.op \in StartOps \cup Timed => c \in Calls
    BY <2>6
  <2> QED
    BY <1>6, <2>4, <2>5, <2>7, <2>8, <2>9, <2>10, <2>11, NothingStarts
<1> QED
  BY <1>3, <1>4, <1>5, <1>6

LEMMA OutcomeKeeps == ASSUME IStarts, DuelEnded \/ StartFinished PROVE StartsKept
<1>1. stack # <<>> /\ Top.op \in {"duelEnded", "startFinished"}
  BY DEF DuelEnded, StartFinished, Running
<1>2. PICK result \in {"OK", "START_FAILED"} : Makes({ChangedCall(Top.player, result)}, Below)
  BY OutcomeCalls DEF IStarts
<1>3. UNCHANGED <<flow, flows>>
  BY OutcomeCalls DEF IStarts
<1>4. \A c \in {ChangedCall(Top.player, result)} : c.op \notin StartOps \cup Timed
  BY DEF ChangedCall, StartOps, Timed
<1> QED
  BY <1>1, <1>2, <1>3, <1>4, IdleKeeps

LEMMA ServiceStepKeeps == ASSUME IStarts, ServiceStep PROVE StartsKept
BY SweepKeeps, InviteKeeps, AcceptKeeps, AnswerKeeps, HandKeeps, FirstKeeps, LogoutKeeps,
   OutcomeKeeps DEF ServiceStep

LEMMA InviteSelectedKeeps == ASSUME IStarts, InviteSelected PROVE StartsKept
<1> DEFINE new == Len(flow) + 1
           made == NewFlow(Top.actor, Top.target, Top.now)
           told == Notices(Top.actor, Top.target, "OK")
<1>1. stack # <<>> /\ Top.op = "inviteSelected" /\ Top \in InviteFrame
  BY Pops, KindOfTop DEF InviteSelected, Running, IStarts
<1>2. \/ UNCHANGED prepVars /\ Makes({}, Below)
      \/ /\ flow' = Append(flow, made)
         /\ flows' = [flows EXCEPT ![Top.actor] = new, ![Top.target] = new]
         /\ Makes(told, Below)
  BY InviteSelectedCalls DEF IStarts
<1>3. CASE UNCHANGED prepVars /\ Makes({}, Below)
  BY <1>1, <1>3, RefusedKeeps
<1>4. CASE /\ flow' = Append(flow, made)
           /\ flows' = [flows EXCEPT ![Top.actor] = new, ![Top.target] = new]
           /\ Makes(told, Below)
  <2>1. made.mode = "INVITED"
    BY DEF NewFlow
  <2>2. /\ flow \in Seq(Flow) /\ Len(flow) \in Nat
        /\ flows \in [Players -> {0} \cup FlowIds]
        /\ \A g \in FlowIds : flow[g] \in Flow
    BY FlowTyped, LenProperties DEF IStarts, ICalls, IFlows, ITypes, TypeOK
  <2>3. /\ \A g \in FlowIds : flow'[g] = flow[g] /\ g # new
        /\ flow'[new] = made /\ FlowIds' = FlowIds \cup {new}
    BY <1>4, <2>2 DEF FlowIds
  <2> HIDE DEF new, made
  <2>4. \A g \in LiveFlows' : g = new \/ g \in LiveFlows
    BY <1>4, <2>2, <2>3 DEF LiveFlows, Flow
  <2>5. (\A c \in Below : c.op = "reply") /\ \A g \in LiveFlows : flow[g].mode # "STARTING"
    BY <1>1, RoundAlone DEF Rounds
  <2>6. \A g \in LiveFlows' : flow'[g].mode # "STARTING"
    BY <2>1, <2>3, <2>4, <2>5 DEF LiveFlows
  <2>7. RollsWon'
    BY <2>1, <2>3 DEF IStarts, RollsWon, RollWon
  <2>8. \A c \in told \cup Below : c.op \notin StartOps \cup Timed
    BY <2>5 DEF Notices, ChangedCall, StartOps, Timed
  <2> QED
    BY <1>4, <2>6, <2>7, <2>8, RoundKeeps
<1> QED
  BY <1>2, <1>3, <1>4

LEMMA AcceptedRecord ==
    ASSUME IFlows, NEW call, call.id \in FlowIds
    PROVE  /\ Accepted(call).mode = "RPS"
           /\ Accepted(call).challenger = flow[call.id].challenger
           /\ Accepted(call).accepter = flow[call.id].accepter
           /\ Accepted(call).challengerHand = "none" /\ Accepted(call).accepterHand = "none"
           /\ Accepted(call).prepared = [challenger |-> selected[flow[call.id].challenger],
                                         accepter |-> selected[flow[call.id].accepter]]
<1> DEFINE f == flow[call.id]
           decks == [challenger |-> selected[f.challenger], accepter |-> selected[f.accepter]]
           ready == [f EXCEPT !.prepared = decks]
<1>1. f \in Flow
  BY FlowTyped DEF IFlows, ITypes
<1>2. decks \in [challenger : Decks \cup {None}, accepter : Decks \cup {None}]
  BY <1>1 DEF Flow, IFlows, ITypes, TypeOK
<1> HIDE DEF decks
<1>3. /\ ready \in Flow /\ ready.challenger = f.challenger /\ ready.accepter = f.accepter
      /\ ready.prepared = decks
  BY <1>1, <1>2 DEF Flow
<1>4. Accepted(call) = NewRound(ready, call.now)
  BY DEF Accepted, decks
<1> HIDE DEF ready
<1> QED
  BY <1>3, <1>4, NewRoundRecord DEF decks

LEMMA AcceptSelectedKeeps == ASSUME IStarts, AcceptSelected PROVE StartsKept
<1> DEFINE f == Top.id
           new == Accepted(Top)
           told == Notices(flow[f].challenger, flow[f].accepter, "OK")
<1>1. stack # <<>> /\ Top.op = "acceptSelected" /\ Top \in AnswerFrame(FlowIds)
  BY Pops, KindOfTop DEF AcceptSelected, Running, IStarts
<1>2. f \in FlowIds /\ flow \in Seq(Flow)
  BY <1>1 DEF AnswerFrame, IStarts, ICalls, IFlows, ITypes, TypeOK
<1>3. new.mode = "RPS" /\ new.challenger = flow[f].challenger
  BY <1>2, AcceptedRecord DEF IStarts, ICalls
<1>4. \/ UNCHANGED prepVars /\ Makes({}, Below)
      \/ Rewrites(f, new) /\ Makes(told, Below)
  BY AcceptSelectedCalls DEF IStarts
<1> HIDE DEF new
<1>5. CASE UNCHANGED prepVars /\ Makes({}, Below)
  BY <1>1, <1>5, RefusedKeeps
<1>6. CASE Rewrites(f, new) /\ Makes(told, Below)
  <2>1. /\ \A g \in FlowIds : flow'[g] = IF g = f THEN new ELSE flow[g]
        /\ Len(flow') = Len(flow) /\ UNCHANGED flows
    BY <1>2, <1>6 DEF Rewrites, FlowIds
  <2>2. FlowIds' = FlowIds /\ LiveFlows' = LiveFlows
    BY <1>3, <2>1, LiveSame
  <2>3. RollsWon'
    BY <1>3, <2>1, <2>2 DEF IStarts, RollsWon, RollWon
  <2>4. (\A c \in Below : c.op = "reply") /\ \A g \in LiveFlows : flow[g].mode # "STARTING"
    BY <1>1, RoundAlone DEF Rounds
  <2>5. \A g \in LiveFlows' : flow'[g].mode # "STARTING"
    BY <1>3, <2>1, <2>2, <2>4 DEF LiveFlows
  <2>6. \A c \in told \cup Below : c.op \notin StartOps \cup Timed
    BY <2>4 DEF Notices, ChangedCall, StartOps, Timed
  <2> QED
    BY <1>6, <2>3, <2>5, <2>6, RoundKeeps
<1> QED
  BY <1>4, <1>5, <1>6

LEMMA ServiceResumesKeeps == ASSUME IStarts, ServiceResumes PROVE StartsKept
<1>1. CASE FinishStart
  <2>1. stack # <<>> /\ Top.op = "finishStart" /\ Top \in FinishFrame(FlowIds)
    BY <1>1, Pops, KindOfTop DEF FinishStart, Running, IStarts
  <2>2. Top.flow \in FlowIds /\ FinishMakes(Top.flow, StartResult(Top.flow), {})
    BY <1>1, <2>1, FinishStartCalls DEF FinishFrame, IStarts
  <2>3. \A c \in Below : c.op = "reply"
    BY <2>1, RoundAlone DEF Rounds
  <2>4. \A c \in Below : c.op \notin StartOps
    BY <2>3 DEF StartOps
  <2> QED
    BY <2>1, <2>2, <2>4, FinishKeeps
<1> QED
  BY <1>1, InviteSelectedKeeps, AcceptSelectedKeeps DEF ServiceResumes

-----------------------------------------------------------------------------
(* The steps of the manager: none touches a flow, and one resumes a start *)

LEMMA NotifyStepKeeps == ASSUME IStarts, NotifyStep PROVE StartsKept
<1>1. UNCHANGED <<flow, flows>>
  BY DEF NotifyStep, prepVars
<1>2. CASE Notify
  <2> DEFINE publish == [Top EXCEPT !.op = "publish"]
  <2>1. stack # <<>> /\ Top.op = "changed" /\ Top \in NoticeFrame
    BY <1>2, Pops, KindOfTop DEF Notify, Running, IStarts
  <2>2. publish.op = "publish"
    BY <2>1 DEF NoticeFrame
  <2>3. /\ \A c \in Due : c.op = "sweep"
        /\ Makes({}, Below) \/ Makes(Due \cup {publish}, Below)
    BY <1>2, NotifyCalls DEF IStarts
  <2> HIDE DEF publish
  <2>4. \A c \in Due \cup {publish} : c.op \notin StartOps \cup Timed
    BY <2>2, <2>3 DEF StartOps, Timed
  <2> QED
    BY <1>1, <2>1, <2>3, <2>4, IdleKeeps
<1>3. CASE Publish \/ Reply
  <2>1. stack # <<>> /\ Top.op \notin {"finishStart", "sweep"} /\ Makes({}, Below)
    BY <1>3, AnsweredCalls DEF Publish, Reply, Running, IStarts
  <2> QED
    BY <1>1, <2>1, IdleKeeps
<1> QED
  BY <1>2, <1>3 DEF NotifyStep

LEMMA SelectionStepKeeps == ASSUME IStarts, SelectionStep PROVE StartsKept
<1>1. UNCHANGED <<flow, flows>>
  BY DEF SelectionStep, prepVars
<1>2. stack # <<>> /\ Top.op = "selection"
  BY SelectionCalls DEF SelectionStep, IStarts
<1>3. Makes({}, Below) \/ (Makes(Due, Below) /\ \A c \in Due : c.op = "sweep")
  BY SelectionCalls DEF SelectionStep, IStarts
<1>4. (\A c \in Due : c.op = "sweep") => \A c \in Due : c.op \notin StartOps \cup Timed
  BY DEF StartOps, Timed
<1> QED
  BY <1>1, <1>2, <1>3, <1>4, IdleKeeps

LEMMA WaitingCalls == ASSUME Waiting PROVE Calls = {}
BY NothingNested DEF Waiting, Calls

LEMMA DropStepKeeps == ASSUME IStarts, DropStep PROVE StartsKept
<1>1. UNCHANGED <<flow, flows>>
  BY DEF DropStep, prepVars
<1>2. PICK p : \/ Disconnect(p)
               \/ ListenerDisconnectsOwner /\ p = Top.player
  BY DEF DropStep
<1> DEFINE new == {[op |-> "logout", player |-> p], [op |-> "leave", player |-> p]}
<1>3. Makes(new, Calls)
  <2>1. CASE Disconnect(p)
    <3>1. Makes(new, {}) /\ Calls = {}
      BY <2>1, DisconnectCalls, WaitingCalls DEF Disconnect
    <3> QED
      BY <3>1
  <2>2. CASE ListenerDisconnectsOwner /\ p = Top.player
    BY <2>2, ListenerCalls DEF IStarts
  <2> QED
    BY <1>2, <2>1, <2>2
<1>4. \A c \in new : c.op \notin StartOps \cup Timed
  BY DEF StartOps, Timed
<1> HIDE DEF new
<1> QED
  BY <1>1, <1>3, <1>4, IdleKeeps

\* The two deck checks of a start wait for the same outcome.
LEMMA StartPreparedKeeps ==
    ASSUME IStarts, StartPrepared, UNCHANGED <<flow, flows>> PROVE StartsKept
<1> DEFINE f == flow[Top.flow]
           a == CurrentCall(f.challenger, f.prepared.challenger)
           b == CurrentCall(f.accepter, f.prepared.accepter)
           d == [Top EXCEPT !.op = "startChecked"]
<1>1. stack # <<>> /\ Top.op = "startPrepared" /\ Top \in PreparedFrame(FlowIds)
  BY Pops, KindOfTop DEF StartPrepared, Running, IStarts
<1>2. Calls = {Top} \cup Below
  BY <1>1, Pops DEF IStarts
<1>3. Top.flow \in LiveFlows /\ flow[Top.flow].mode = "STARTING"
  BY <1>1, <1>2 DEF IStarts, StartsHold, StartOps
<1>4. f.challenger # f.accepter
  <2>1. Top.flow \in FlowIds /\ flows[f.challenger] = Top.flow /\ f.challenger \in Players
    BY <1>3, FlowTyped DEF LiveFlows, Flow, IStarts, ICalls, IFlows, ITypes
  <2> QED
    BY <2>1, HeldPair DEF IStarts, ICalls
<1>5. Makes({a, b, d}, Below)
  BY <1>4, StartPreparedCalls DEF IStarts
<1>6. a.op = "current" /\ b.op = "current" /\ d.op = "startChecked" /\ d.flow = Top.flow
  BY <1>1 DEF CurrentCall, PreparedFrame
<1>7. FlowIds' = FlowIds /\ LiveFlows' = LiveFlows
  BY LiveSame
<1> HIDE DEF a, b, d
<1>8. Nested(stack') /\ Calls' = {a, b, d} \cup Below
  BY <1>5 DEF Makes, Calls
<1>9. \A c \in Calls : c.op = "finishStart" => c \in Calls'
  BY <1>1, <1>2, <1>8
<1>10. \A c \in Calls' : c.op \in StartOps =>
         \E e \in Calls : e.op \in StartOps /\ e.flow = c.flow
  BY <1>1, <1>2, <1>6, <1>8 DEF StartOps
<1>11. StartsHold'
  <2>1. ASSUME NEW c \in Calls', c.op \in StartOps
        PROVE  /\ c.flow \in LiveFlows /\ flow[c.flow].mode = "STARTING"
               /\ \E e \in Calls' : e.op = "finishStart" /\ e.flow = c.flow
    <3>1. PICK e \in Calls : e.op \in StartOps /\ e.flow = c.flow
      BY <1>10, <2>1
    <3>2. PICK g \in Calls : g.op = "finishStart" /\ g.flow = e.flow
      BY <3>1 DEF IStarts, StartsHold
    <3> QED
      BY <1>9, <3>1, <3>2 DEF IStarts, StartsHold
  <2>2. \A g \in LiveFlows : flow[g].mode = "STARTING" =>
          \E c \in Calls' : c.op = "finishStart" /\ c.flow = g
    BY <1>9 DEF IStarts, StartsHold
  <2> QED
    BY <1>7, <2>1, <2>2 DEF StartsHold
<1>12. \A c \in Calls' : c.op \in Timed => c \in Below
  BY <1>6, <1>8 DEF Timed
<1>13. AcceptStands'
  BY <1>2, <1>7, <1>12 DEF IStarts, AcceptStands, Timed
<1>14. SweptFirst'
  <2>1. \A g \in LiveFlows : ToSweep(g, Calls) => ToSweep(g, Calls)'
    BY <1>1, <1>2, <1>8 DEF ToSweep
  <2> QED
    BY <1>2, <1>7, <1>12, <2>1 DEF IStarts, SweptFirst
<1>15. RollsWon'
  BY <1>7 DEF IStarts, RollsWon
<1> QED
  BY <1>8, <1>11, <1>13, <1>14, <1>15 DEF StartsKept

LEMMA CheckStepKeeps == ASSUME IStarts, CheckStep PROVE StartsKept
<1>1. UNCHANGED <<flow, flows>>
  BY DEF CheckStep, prepVars
<1>2. CASE StartPrepared
  BY <1>1, <1>2, StartPreparedKeeps
<1>3. CASE Current \/ StartChecked \/ SoloSelected \/ SoloChecked \/ CancelOwn
  <2>1. stack # <<>> /\ Top.op \notin {"finishStart", "sweep"}
    BY <1>3 DEF Current, StartChecked, SoloSelected, SoloChecked, CancelOwn, Running
  <2>2. PICK new : Makes(new, Below) /\ \A c \in new : c.op \notin StartOps \cup Timed
    <3>1. CASE Current
      <4>1. \A c \in {SelectionCall(Top.player)} : c.op \notin StartOps \cup Timed
        BY DEF SelectionCall, StartOps, Timed
      <4> QED
        BY <3>1, <4>1, CurrentCalls DEF IStarts
    <3>2. CASE StartChecked
      <4>1. \A c \in {StartOf(Top)} : c.op \notin StartOps \cup Timed
        BY DEF StartOf, StartCall, StartOps, Timed
      <4> QED
        BY <3>2, <4>1, StartCheckedCalls DEF IStarts
    <3>3. CASE SoloSelected
      <4> DEFINE p == Top.player
                 a == CurrentCall(p, selected[p])
                 b == SoloCall("soloChecked", p)
                 d == SoloCall("soloFinally", p)
      <4>1. \A c \in {a, b, d} : c.op \notin StartOps \cup Timed
        BY DEF CurrentCall, SoloCall, StartOps, Timed
      <4>2. Makes({d}, Below) \/ Makes({a, b, d}, Below)
        BY <3>3, SoloSelectedCalls DEF IStarts
      <4> HIDE DEF a, b, d
      <4> QED
        BY <4>1, <4>2
    <3>4. CASE SoloChecked
      <4> DEFINE a == StartCall(Seats(Top.player, None), Seats(selected[Top.player], None))
      <4>1. \A c \in {a} : c.op \notin StartOps \cup Timed
        BY DEF StartCall, StartOps, Timed
      <4>2. Makes({}, Below) \/ Makes({a}, Below)
        BY <3>4, SoloCheckedCalls DEF IStarts
      <4> HIDE DEF a
      <4> QED
        BY <4>1, <4>2
    <3>5. CASE CancelOwn
      <4> DEFINE p == Top.player
                 a == [op |-> "cancel", actor |-> p, id |-> flows[p], now |-> clock]
      <4>1. Makes({}, Below) \/ (Makes(Due \cup {a}, Below) /\ \A c \in Due : c.op = "sweep")
        BY <3>5, CancelOwnCalls DEF IStarts
      <4>2. (\A c \in Due : c.op = "sweep") => \A c \in Due \cup {a} : c.op \notin StartOps \cup Timed
        BY DEF StartOps, Timed
      <4> HIDE DEF a
      <4> QED
        BY <4>1, <4>2
    <3> QED
      BY <1>3, <3>1, <3>2, <3>3, <3>4, <3>5
  <2> QED
    BY <1>1, <2>1, <2>2, IdleKeeps
<1> QED
  BY <1>2, <1>3 DEF CheckStep

\* A duel that ends leaves the calls below it.
LEMMA FinishDuelKeeps ==
    ASSUME IStarts, stack # <<>>, Top.op \notin {"finishStart", "sweep"},
           UNCHANGED <<flow, flows>>, NEW id, FinishDuel(id, Rest)
    PROVE  StartsKept
<1>1. /\ Rest \in Seq(Frame) /\ Nested(Rest)
      /\ \A c \in CallsOf(Rest) : c.op \notin {"start", "setup"}
  BY Pops DEF Below, IStarts
<1>2. PICK new : Makes(new, CallsOf(Rest)) /\ \A c \in new : c.op = "duelEnded"
  BY <1>1, FinishDuelCalls
<1>3. \A c \in new : c.op \notin StartOps \cup Timed
  BY <1>2 DEF StartOps, Timed
<1> QED
  BY <1>2, <1>3, IdleKeeps DEF Below

LEMMA WaitingDuelEndKeeps ==
    ASSUME IStarts, Waiting, UNCHANGED <<flow, flows>>, NEW id, FinishDuel(id, <<>>)
    PROVE  StartsKept
<1>1. PICK new : Makes(new, CallsOf(<<>>)) /\ \A c \in new : c.op = "duelEnded"
  BY NothingNested, FinishDuelCalls
<1>2. Makes(new, Calls)
  BY <1>1, NothingNested, WaitingCalls
<1>3. \A c \in new : c.op \notin StartOps \cup Timed
  BY <1>1 DEF StartOps, Timed
<1> QED
  BY <1>2, <1>3, IdleKeeps

LEMMA ReturnKeeps ==
    ASSUME IStarts, stack # <<>>, Top.op \notin {"finishStart", "sweep"},
           UNCHANGED <<flow, flows>>, Return
    PROVE  StartsKept
BY ReturnCalls, IdleKeeps DEF IStarts

LEMMA AskedKeeps ==
    ASSUME IStarts, Waiting, UNCHANGED <<flow, flows>>, NEW new, Makes(Due \cup new, {}),
           \A c \in Due : c.op = "sweep",
           \A c \in new : /\ c.op \notin StartOps \cup {"acceptSelected"}
                          /\ c.op \in Timed => c.now = clock
    PROVE  StartsKept
<1>1. FlowIds' = FlowIds /\ LiveFlows' = LiveFlows
  BY LiveSame
<1>2. Nested(stack') /\ Calls' = Due \cup new
  BY DEF Makes, Calls
<1>3. \A f \in LiveFlows : flow[f].mode # "STARTING"
  BY WaitingCalls DEF IStarts, StartsHold
<1>4. StartsHold'
  <2>1. \A c \in Calls' : c.op \notin StartOps
    BY <1>2 DEF StartOps
  <2> QED
    BY <1>1, <1>3, <2>1 DEF StartsHold
<1>5. AcceptStands'
  BY <1>2 DEF AcceptStands
<1>6. SweptFirst'
  <2>1. ASSUME NEW f \in LiveFlows, flow[f].mode # "STARTING", flow[f].deadline =< clock
        PROVE  \E s \in Due : s.op = "sweep" /\ f \in s.todo /\ flow[f].deadline =< s.now
    <3> DEFINE sweep == [op |-> "sweep", now |-> clock, todo |-> LiveFlows]
    <3>1. flow[f].deadline \in Nat /\ clock \in Nat
      BY FlowTyped DEF LiveFlows, Flow, IStarts, ICalls, IFlows, ITypes, TypeOK
    <3>2. Overdue(f, clock)
      BY <2>1, <3>1 DEF Overdue, LiveFlows
    <3>3. Expiry(clock) = <<sweep>>
      BY <3>2 DEF Expiry
    <3>4. Len(<<sweep>>) = 1 /\ <<sweep>>[1] = sweep
      OBVIOUS
    <3>5. sweep \in Due
      BY <3>3, <3>4 DEF Due, CallsOf
    <3> QED
      BY <2>1, <3>5
  <2>2. \A f \in LiveFlows : flow[f].mode # "STARTING" /\ flow[f].deadline =< clock
                                => ToSweep(f, Due \cup new)
    BY <2>1 DEF ToSweep
  <2>3. \A c \in Due \cup new : c.op \in Timed => c.now = clock
    BY DEF Timed
  <2>4. \A f \in LiveFlows : ToSweep(f, Due \cup new) => ToSweep(f, Calls)'
    BY <1>2 DEF ToSweep
  <2> QED
    BY <1>1, <1>2, <2>2, <2>3, <2>4 DEF SweptFirst
<1>7. RollsWon'
  BY <1>1 DEF IStarts, RollsWon
<1> QED
  BY <1>2, <1>4, <1>5, <1>6, <1>7 DEF StartsKept

LEMMA DuelStepKeeps == ASSUME IStarts, DuelStep PROVE StartsKept
<1>1. UNCHANGED <<flow, flows>>
  BY DEF DuelStep, prepVars
<1>2. CASE StartThrows \/ SetupRuns \/ SetupThrows
  BY <1>1, <1>2, ReturnKeeps DEF StartThrows, SetupRuns, SetupThrows, Running
<1>3. CASE StartInstalls
  <2>1. Makes({[op |-> "setup", duel |-> Len(duelSeats) + 1]}, Below)
    BY <1>3, StartInstallsCalls DEF IStarts
  <2>2. \A c \in {[op |-> "setup", duel |-> Len(duelSeats) + 1]} : c.op \notin StartOps \cup Timed
    BY DEF StartOps, Timed
  <2> QED
    BY <1>1, <1>3, <2>1, <2>2, IdleKeeps DEF StartInstalls, Running
<1>4. CASE SetupCompletes
  BY <1>1, <1>4, FinishDuelKeeps DEF SetupCompletes, Running
<1>5. CASE Leave
  BY <1>1, <1>5, FinishDuelKeeps, ReturnKeeps DEF Leave, Running
<1>6. ASSUME NEW id, ResponseEndsDuel(id) PROVE StartsKept
  BY <1>1, <1>6, WaitingDuelEndKeeps DEF ResponseEndsDuel
<1>7. ASSUME NEW p, Forfeit(p) PROVE StartsKept
  <2>1. CASE FinishDuel(playerToDuel[p], <<>>)
    BY <1>1, <1>7, <2>1, WaitingDuelEndKeeps DEF Forfeit
  <2>2. CASE stack' = Expiry(clock) \o <<SoloCall("cancelOwn", p)>>
    <3> DEFINE a == [op |-> "sweep"]
               b == SoloCall("cancelOwn", p)
    <3>1. a.op = "sweep" /\ b.op = "cancelOwn"
      BY DEF SoloCall
    <3>2. stack' = Expiry(clock) \o <<b>>
      BY <2>2
    <3> HIDE DEF a, b
    <3>3. MayCover(a, b)
      BY <3>1 DEF MayCover, QuietOps, Rounds, Lasts
    <3>4. Makes(Due \cup {b}, {}) /\ \A c \in Due : c.op = "sweep"
      BY <3>1, <3>2, <3>3, AskedCalls DEF IStarts, ICalls, IFlows
    <3> QED
      BY <1>1, <1>7, <3>1, <3>4, AskedKeeps DEF Forfeit, StartOps, Timed
  <2> QED
    BY <1>7, <2>1, <2>2 DEF Forfeit
<1> QED
  BY <1>2, <1>3, <1>4, <1>5, <1>6, <1>7 DEF DuelStep

LEMMA SoloStepKeeps == ASSUME IStarts, SoloStep PROVE StartsKept
<1>1. UNCHANGED <<flow, flows>>
  BY DEF SoloStep, prepVars
<1>2. CASE SoloGuard
  <2> DEFINE new == {SelectionCall(Top.player), SoloCall("soloSelected", Top.player)}
  <2>1. Makes(new, Below)
    BY <1>2, SoloGuardCalls DEF IStarts
  <2>2. \A c \in new : c.op \notin StartOps \cup Timed
    BY DEF SelectionCall, SoloCall, StartOps, Timed
  <2> HIDE DEF new
  <2> QED
    BY <1>1, <1>2, <2>1, <2>2, IdleKeeps DEF SoloGuard, Running
<1>3. CASE SoloFinally
  <2> DEFINE new == {[op |-> "startFinished", player |-> Top.player, success |-> started]}
  <2>1. Makes(new, Below)
    BY <1>3, SoloFinallyCalls DEF IStarts
  <2>2. \A c \in new : c.op \notin StartOps \cup Timed
    BY DEF StartOps, Timed
  <2> HIDE DEF new
  <2> QED
    BY <1>1, <1>3, <2>1, <2>2, IdleKeeps DEF SoloFinally, Running
<1> QED
  BY <1>2, <1>3 DEF SoloStep

Commands == {"invite", "accept", "decline", "cancel", "hand", "first"}

LEMMA ServeKeeps ==
    ASSUME IStarts, UNCHANGED <<flow, flows>>, NEW command, command.op \in Commands,
           command.now = clock, Serve(command)
    PROVE  StartsKept
<1> DEFINE b == ReplyCall(command.actor)
<1>1. b.op = "reply"
  BY DEF ReplyCall
<1>2. Waiting /\ \/ stack' = Expiry(clock) \o <<command, b>>
                 \/ stack' = Expiry(clock) \o <<command>>
  BY DEF Serve, ServePacket, ServeChat, Admitted
<1> HIDE DEF b
<1>3. MayCover(command, b)
  BY <1>1 DEF MayCover, QuietOps, Rounds, Lasts, Commands
<1>4. ITypes
  BY DEF IStarts, ICalls, IFlows
<1>5. \A c \in Due : c.op = "sweep"
  BY <1>1, <1>3, <1>4, AskedCalls DEF Commands
<1>6. command.op \notin StartOps \cup {"acceptSelected"}
  BY DEF StartOps, Commands
<1>7. b.op \notin StartOps \cup {"acceptSelected"} \cup Timed
  BY <1>1 DEF StartOps, Timed
<1>8. CASE stack' = Expiry(clock) \o <<command, b>>
  <2>1. Makes(Due \cup {command, b}, {})
    BY <1>1, <1>3, <1>4, <1>8, AskedCalls DEF Commands
  <2>2. \A c \in {command, b} : /\ c.op \notin StartOps \cup {"acceptSelected"}
                                /\ c.op \in Timed => c.now = clock
    BY <1>6, <1>7
  <2> QED
    BY <1>2, <1>5, <2>1, <2>2, AskedKeeps DEF StartOps, Timed
<1>9. CASE stack' = Expiry(clock) \o <<command>>
  <2> DEFINE a == [op |-> "sweep"]
  <2>1. a.op = "sweep"
    OBVIOUS
  <2> HIDE DEF a
  <2>2. MayCover(a, command)
    BY <2>1 DEF MayCover, QuietOps, Rounds, Lasts, Commands
  <2>3. Makes(Due \cup {command}, {})
    BY <1>4, <1>9, <2>1, <2>2, AskedCalls DEF Commands
  <2>4. \A c \in {command} : /\ c.op \notin StartOps \cup {"acceptSelected"}
                             /\ c.op \in Timed => c.now = clock
    BY <1>6
  <2> QED
    BY <1>2, <1>5, <2>3, <2>4, AskedKeeps DEF StartOps, Timed
<1> QED
  BY <1>2, <1>8, <1>9

LEMMA RequestKeeps == ASSUME IStarts, Request PROVE StartsKept
<1>1. UNCHANGED <<flow, flows>> /\ ITypes
  BY DEF Request, prepVars, IStarts, ICalls, IFlows
<1>2. CASE ServerTick
  <2> DEFINE a == [op |-> "sweep"]
             b == [op |-> "reply"]
  <2>1. a.op = "sweep" /\ b.op = "reply"
    OBVIOUS
  <2> HIDE DEF a, b
  <2>2. MayCover(a, b)
    BY <2>1 DEF MayCover, QuietOps, Rounds, Lasts
  <2>3. Waiting /\ stack' = Expiry(clock)
    BY <1>2 DEF ServerTick
  <2>4. Makes(Due, {}) /\ \A c \in Due : c.op = "sweep"
    BY <1>1, <2>1, <2>2, <2>3, AskedCalls
  <2>5. Makes(Due \cup {}, {})
    BY <2>4
  <2> QED
    BY <1>1, <2>3, <2>4, <2>5, AskedKeeps
<1>3. ASSUME NEW p, RequestView(p) PROVE StartsKept
  <2> DEFINE a == [op |-> "sweep"]
             b == ReplyCall(p)
  <2>1. a.op = "sweep" /\ b.op = "reply" /\ Waiting /\ stack' = Expiry(clock) \o <<b>>
    BY <1>3 DEF RequestView, ReplyCall
  <2> HIDE DEF a, b
  <2>2. MayCover(a, b)
    BY <2>1 DEF MayCover, QuietOps, Rounds, Lasts
  <2>3. Makes(Due \cup {b}, {}) /\ \A c \in Due : c.op = "sweep"
    BY <1>1, <2>1, <2>2, AskedCalls
  <2> QED
    BY <1>1, <2>1, <2>3, AskedKeeps DEF StartOps, Timed
<1>4. ASSUME NEW p, RequestSolo(p) PROVE StartsKept
  <2> DEFINE a == SoloCall("cancelOwn", p)
             b == SoloCall("soloGuard", p)
  <2>1. /\ a.op = "cancelOwn" /\ b.op = "soloGuard" /\ a.player = b.player /\ Waiting
        /\ stack' = Expiry(clock) \o <<a, b>>
    BY <1>4 DEF RequestSolo, SoloCall
  <2> HIDE DEF a, b
  <2>2. MayCover(a, b)
    BY <2>1 DEF MayCover, QuietOps, Rounds, Lasts
  <2>3. Makes(Due \cup {a, b}, {}) /\ \A c \in Due : c.op = "sweep"
    BY <1>1, <2>1, <2>2, AskedCalls
  <2> QED
    BY <1>1, <2>1, <2>3, AskedKeeps DEF StartOps, Timed
<1>5. ASSUME NEW p, NEW q, RequestInvite(p, q) PROVE StartsKept
  BY <1>1, <1>5, ServeKeeps DEF RequestInvite, Commands
<1>6. ASSUME NEW p, NEW f, NEW op \in {"accept", "decline", "cancel"}, RequestAnswer(op, p, f)
      PROVE  StartsKept
  BY <1>1, <1>6, ServeKeeps DEF RequestAnswer, Commands
<1>7. ASSUME NEW p, NEW f, NEW r, NEW h, RequestHand(p, f, r, h) PROVE StartsKept
  BY <1>1, <1>7, ServeKeeps DEF RequestHand, Commands
<1>8. ASSUME NEW p, NEW f, NEW goFirst, RequestFirst(p, f, goFirst) PROVE StartsKept
  BY <1>1, <1>8, ServeKeeps DEF RequestFirst, Commands
<1> QED
  BY <1>2, <1>3, <1>4, <1>5, <1>6, <1>7, <1>8 DEF Request

LEMMA OthersKeepStarts ==
    ASSUME IStarts, DeckStep \/ ClockTicks \/ Shutdown \/ UNCHANGED vars
    PROVE  StartsKept
<1>1. CASE Shutdown
  <2>1. stack' = <<>>
    BY <1>1 DEF Shutdown, Waiting
  <2>2. Nested(stack') /\ Calls' = {}
    BY <2>1, NothingNested DEF Calls
  <2>3. /\ flow \in Seq(Flow) /\ Len(flow) \in Nat
        /\ flow' = [f \in FlowIds |-> Garbage(flow[f])]
    BY <1>1, LenProperties DEF Shutdown, IStarts, ICalls, IFlows, ITypes, TypeOK
  <2>4. FlowIds' = FlowIds
    <3>1. Len(flow') = Len(flow)
      BY <2>3 DEF FlowIds
    <3> QED
      BY <3>1 DEF FlowIds
  <2>5. \A f \in FlowIds : flow'[f] = Garbage(flow[f])
    BY <2>3
  <2>6. RollsWon'
    BY <2>4, <2>5, GarbageWon DEF RollsWon
  <2>7. \A f \in FlowIds' : flow'[f].mode # "STARTING"
    BY <2>4, <2>5, GarbageWon
  <2> QED
    BY <2>2, <2>6, <2>7 DEF StartsKept, StartsHold, AcceptStands, SweptFirst, LiveFlows
<1>2. CASE DeckStep \/ ClockTicks \/ UNCHANGED vars
  <2>1. stack' = stack /\ UNCHANGED <<flow, flows>>
    BY <1>2 DEF DeckStep, ClockTicks, vars, prepVars
  <2>2. Makes({}, Calls)
    BY <2>1 DEF Makes, Calls, IStarts, ICalls
  <2> QED
    BY <2>1, <2>2, IdleKeeps
<1> QED
  BY <1>1, <1>2

LEMMA NextKeepsStarts == ASSUME IStarts, [Next]_vars PROVE IStarts'
<1>1. StartsKept
  BY ServiceStepKeeps, ServiceResumesKeeps, NotifyStepKeeps, SelectionStepKeeps,
     CheckStepKeeps, DuelStepKeeps, SoloStepKeeps, DropStepKeeps, RequestKeeps,
     OthersKeepStarts DEF Next, ThreadStep
<1>2. IFlows'
  BY NextKeepsFlows DEF IStarts, ICalls
<1> QED
  BY <1>1, <1>2 DEF IStarts, ICalls, StartsKept

LEMMA InitStarts == ASSUME Init PROVE IStarts
<1>1. Nested(stack) /\ Calls = {}
  BY NothingNested DEF Init, Calls
<1>2. FlowIds = {}
  BY DEF Init, FlowIds
<1>3. LiveFlows = {}
  BY <1>2 DEF LiveFlows
<1> QED
  BY <1>1, <1>2, <1>3, InitFlows DEF IStarts, ICalls, StartsHold, AcceptStands, SweptFirst, RollsWon

-----------------------------------------------------------------------------
(* The theorems *)

\* "A synchronous startup owns the locks until its callback returns, even on
\* disconnect", whatever the deck checks, the engine and the notifications of
\* the start do: one start at most is ever pending, for one flow.
THEOREM StartsAreHeld == Spec => []StartingHeld
<1>1. Init => IStarts
  BY InitStarts
<1>2. IStarts /\ [Next]_vars => IStarts'
  BY NextKeepsStarts
<1>3. ASSUME IStarts PROVE StartingHeld
  <2> DEFINE pending == {i \in 1..Len(stack) : stack[i].op = "finishStart"}
  <2>1. \A i \in 1..Len(stack) : stack[i] \in Calls
    BY DEF Calls, CallsOf
  <2>2. \A i \in pending : Live(stack[i].flow) /\ flow[stack[i].flow].mode = "STARTING"
    BY <1>3, <2>1 DEF IStarts, StartsHold, StartOps, Live
  <2>3. ASSUME NEW i \in pending, NEW j \in pending PROVE j = i
    <3>1. i \in Int /\ j \in Int /\ (i < j \/ j < i \/ i = j)
      OBVIOUS
    <3>2. ASSUME NEW k \in pending, NEW m \in pending, k < m PROVE FALSE
      <4>1. MayCover(stack[k], stack[m])
        BY <1>3, <3>2 DEF IStarts, ICalls, Nested
      <4> QED
        BY <4>1 DEF MayCover, Rounds
    <3> QED
      BY <3>1, <3>2
  <2>4. ASSUME NEW f \in LiveFlows, flow[f].mode = "STARTING"
        PROVE  \E i \in pending : stack[i].flow = f
    <3>1. PICK c \in Calls : c.op = "finishStart" /\ c.flow = f
      BY <1>3, <2>4 DEF IStarts, StartsHold
    <3> QED
      BY <3>1 DEF Calls, CallsOf
  <2> HIDE DEF pending
  <2>5. /\ \A i \in pending : Live(stack[i].flow) /\ flow[stack[i].flow].mode = "STARTING"
        /\ \A f \in LiveFlows : flow[f].mode = "STARTING" =>
             \E i \in pending : stack[i].flow = f /\ \A j \in pending : j = i
    BY <2>2, <2>3, <2>4
  <2> QED
    BY <2>5 DEF StartingHeld, pending
<1> QED
  BY <1>1, <1>2, <1>3, PTL DEF Spec

\* Whoever is asked to choose the first turn won the roll of the two hands
\* that the flow still holds, and keeps that right until the start is over.
THEOREM WinnersChoose == Spec => []WinnerChooses
<1>1. Init => IStarts
  BY InitStarts
<1>2. IStarts /\ [Next]_vars => IStarts'
  BY NextKeepsStarts
<1>3. IStarts => WinnerChooses
  BY DEF IStarts, RollsWon, RollWon, WinnerChooses, LiveFlows
<1> QED
  BY <1>1, <1>2, <1>3, PTL DEF Spec

\* Every step leaves the flows alone, ends one, moves one to its next stage,
\* makes one, or clears them all.
FlowAdvances ==
    \/ /\ Top.op = "hand" /\ Top.id \in FlowIds /\ HandAwaited(Top)
       /\ Rewrites(Top.id, Played(Top))
    \/ /\ Top.op = "acceptSelected" /\ Top.id \in FlowIds
       /\ selected[flow[Top.id].challenger] # None /\ selected[flow[Top.id].accepter] # None
       /\ Rewrites(Top.id, Accepted(Top))
    \/ /\ Top.op = "first" /\ Top.id \in FlowIds /\ MayChoose(Top)
       /\ Rewrites(Top.id, [flow[Top.id] EXCEPT !.mode = "STARTING"])
    \/ /\ Top.op = "logout" /\ flows[Top.player] \in FlowIds
       /\ flow[flows[Top.player]].mode = "STARTING"
       /\ Rewrites(flows[Top.player],
                   [flow[flows[Top.player]] EXCEPT !.loggedOutDuringStart = TRUE])

FlowProposed ==
    LET new == Len(flow) + 1 IN
    /\ Top.op = "inviteSelected" /\ selected[Top.actor] # None
    /\ flow' = Append(flow, NewFlow(Top.actor, Top.target, Top.now))
    /\ flows' = [flows EXCEPT ![Top.actor] = new, ![Top.target] = new]

LEMMA FlowsMove ==
    ASSUME IStarts, [Next]_vars
    PROVE  \/ UNCHANGED <<flow, flows>>
           \/ \E g \in FlowIds : \E result, rest : Finish(g, result, rest)
           \/ stack # <<>> /\ (FlowAdvances \/ FlowProposed)
           \/ Shutdown
<1> DEFINE Ends == \E g \in FlowIds : \E result, rest : Finish(g, result, rest)
<1>1. IFlows /\ ICalls
  BY DEF IStarts, ICalls
<1>2. ASSUME NEW g \in FlowIds, NEW result, NEW extra, FinishMakes(g, result, extra)
      PROVE  Ends
  BY <1>2 DEF FinishMakes
<1> HIDE DEF Ends
<1> SUFFICES UNCHANGED <<flow, flows>> \/ Ends \/ (stack # <<>> /\ (FlowAdvances \/ FlowProposed)) \/ Shutdown
  BY DEF Ends
<1>4. CASE Sweep
  <2>1. stack # <<>> /\ Top \in SweepFrame(FlowIds)
    BY <1>1, <1>4, Pops, KindOfTop DEF Sweep, Running
  <2>2. Top.todo \subseteq FlowIds
    BY <2>1 DEF SweepFrame
  <2>3. PICK g \in Top.todo : \/ \E extra : FinishMakes(g, "STALE", extra)
                              \/ UNCHANGED prepVars
    BY <1>1, <1>4, SweepCalls
  <2> QED
    BY <1>2, <2>2, <2>3 DEF prepVars
<1>5. CASE Accept \/ Decline \/ Cancel
  <2>1. stack # <<>> /\ Top \in AnswerFrame(FlowIds)
    BY <1>1, <1>5, Pops, KindOfTop DEF Accept, Decline, Cancel, Running
  <2>2. Top.id \in FlowIds
    BY <2>1 DEF AnswerFrame
  <2>3. UNCHANGED prepVars \/ \E result : FinishMakes(Top.id, result, {})
    BY <1>1, <1>5, AcceptCalls, DeclineCalls, CancelCalls
  <2> QED
    BY <1>2, <2>2, <2>3 DEF prepVars
<1>6. CASE Hand
  <2>1. stack # <<>> /\ Top \in HandFrame(FlowIds) /\ Top.op = "hand"
    BY <1>1, <1>6, Pops, KindOfTop DEF Hand, Running
  <2>2. Top.id \in FlowIds
    BY <2>1 DEF HandFrame
  <2>3. UNCHANGED prepVars \/ (HandAwaited(Top) /\ Rewrites(Top.id, Played(Top)))
    BY <1>1, <1>6, HandCalls
  <2> QED
    BY <2>1, <2>2, <2>3 DEF prepVars, FlowAdvances
<1>7. CASE First
  <2>1. stack # <<>> /\ Top \in FirstFrame(FlowIds) /\ Top.op = "first"
    BY <1>1, <1>7, Pops, KindOfTop DEF First, Running
  <2>2. Top.id \in FlowIds
    BY <2>1 DEF FirstFrame
  <2>3. \/ UNCHANGED prepVars
        \/ FinishMakes(Top.id, Availability(Top.id), {})
        \/ /\ MayChoose(Top) /\ UNCHANGED flows
           /\ flow' = [flow EXCEPT ![Top.id].mode = "STARTING"]
    BY <1>1, <1>7, FirstCalls
  <2>4. CASE /\ MayChoose(Top) /\ UNCHANGED flows
             /\ flow' = [flow EXCEPT ![Top.id].mode = "STARTING"]
    BY <2>1, <2>2, <2>4 DEF FlowAdvances, Rewrites
  <2> QED
    BY <1>2, <2>2, <2>3, <2>4 DEF prepVars
<1>8. CASE Logout
  <2> DEFINE g == flows[Top.player]
  <2>1. stack # <<>> /\ Top \in PlayerFrame /\ Top.op = "logout"
    BY <1>1, <1>8, Pops, KindOfTop DEF Logout, Running
  <2>2. g \in {0} \cup FlowIds
    BY <1>1, <2>1 DEF PlayerFrame, IFlows, ITypes, TypeOK
  <2>3. \/ UNCHANGED prepVars
        \/ /\ g # 0 /\ flow[g].mode = "STARTING" /\ UNCHANGED flows
           /\ flow' = [flow EXCEPT ![g].loggedOutDuringStart = TRUE]
        \/ g # 0 /\ FinishMakes(g, "OFFLINE", {})
    BY <1>1, <1>8, LogoutCalls
  <2>4. CASE /\ g # 0 /\ flow[g].mode = "STARTING" /\ UNCHANGED flows
             /\ flow' = [flow EXCEPT ![g].loggedOutDuringStart = TRUE]
    BY <2>1, <2>2, <2>4 DEF FlowAdvances, Rewrites
  <2> QED
    BY <1>2, <2>2, <2>3, <2>4 DEF prepVars
<1>9. CASE InviteSelected
  BY <1>1, <1>9, InviteSelectedCalls DEF prepVars, FlowProposed, InviteSelected, Running
<1>10. CASE AcceptSelected
  <2>1. stack # <<>> /\ Top \in AnswerFrame(FlowIds) /\ Top.op = "acceptSelected"
    BY <1>1, <1>10, Pops, KindOfTop DEF AcceptSelected, Running
  <2>2. Top.id \in FlowIds
    BY <2>1 DEF AnswerFrame
  <2> QED
    BY <1>1, <1>10, <2>1, <2>2, AcceptSelectedCalls DEF prepVars, FlowAdvances
<1>11. CASE FinishStart
  <2>1. stack # <<>> /\ Top \in FinishFrame(FlowIds)
    BY <1>1, <1>11, Pops, KindOfTop DEF FinishStart, Running
  <2>2. Top.flow \in FlowIds /\ FinishMakes(Top.flow, StartResult(Top.flow), {})
    BY <1>1, <1>11, <2>1, FinishStartCalls DEF FinishFrame
  <2> QED
    BY <1>2, <2>2
<1>12. CASE SweepEnds \/ Invite \/ DuelEnded \/ StartFinished
  BY <1>1, <1>12, InviteCalls, OutcomeCalls DEF SweepEnds, prepVars
<1>13. CASE \/ NotifyStep \/ SelectionStep \/ CheckStep \/ DuelStep \/ SoloStep \/ DropStep
            \/ DeckStep \/ Request \/ ClockTicks \/ UNCHANGED vars
  BY <1>13 DEF NotifyStep, SelectionStep, CheckStep, DuelStep, SoloStep, DropStep, DeckStep,
     Request, ClockTicks, vars, prepVars
<1>14. CASE ServiceStep
  BY <1>4, <1>5, <1>6, <1>7, <1>8, <1>12, <1>14 DEF ServiceStep
<1>15. CASE ServiceResumes
  BY <1>9, <1>10, <1>11, <1>15 DEF ServiceResumes
<1> QED
  BY <1>13, <1>14, <1>15 DEF Next, ThreadStep

\* One flow of those there are is rewritten.
LEMMA RewriteOne ==
    ASSUME IFlows, NEW f \in FlowIds, NEW new, Rewrites(f, new), new.challenger = flow[f].challenger
    PROVE  /\ \A g \in FlowIds : flow'[g] = IF g = f THEN new ELSE flow[g]
           /\ FlowIds' = FlowIds /\ LiveFlows' = LiveFlows /\ UNCHANGED flows
<1>1. flow \in Seq(Flow)
  BY DEF IFlows, ITypes, TypeOK
<1>2. /\ \A g \in FlowIds : flow'[g] = IF g = f THEN new ELSE flow[g]
      /\ Len(flow') = Len(flow) /\ UNCHANGED flows
  BY <1>1 DEF Rewrites, FlowIds
<1> QED
  BY <1>2, LiveSame

\* A flow that stays alive changes by a hand, by the end of accept(), by the
\* choice of the first turn, or by a logout while it is starting.
LEMMA HowFlowsChange ==
    ASSUME IStarts, [Next]_vars, NEW f \in LiveFlows, f \in LiveFlows', flow'[f] # flow[f]
    PROVE  /\ stack # <<>>
           /\ \/ Top.op = "hand" /\ f = Top.id /\ HandAwaited(Top) /\ flow'[f] = Played(Top)
              \/ Top.op = "acceptSelected" /\ f = Top.id /\ flow'[f] = Accepted(Top)
              \/ /\ Top.op = "first" /\ f = Top.id /\ MayChoose(Top)
                 /\ flow'[f] = [flow[f] EXCEPT !.mode = "STARTING"]
              \/ /\ flow[f].mode = "STARTING"
                 /\ flow'[f] = [flow[f] EXCEPT !.loggedOutDuringStart = TRUE]
<1>1. IFlows /\ f \in FlowIds /\ flow \in Seq(Flow)
  BY DEF IStarts, ICalls, IFlows, ITypes, TypeOK, LiveFlows
<1>2. ASSUME NEW g \in FlowIds, NEW new, Rewrites(g, new)
      PROVE  f = g /\ flow'[f] = new
  BY <1>1, <1>2 DEF FlowIds, Rewrites
<1>3. ASSUME NEW g \in FlowIds, NEW result, NEW rest, Finish(g, result, rest) PROVE FALSE
  <2>1. LiveFlows' = LiveFlows \ {g} /\ \A h \in FlowIds : h # g => flow'[h] = flow[h]
    BY <1>1, <1>3, LiveFinish
  <2> QED
    BY <1>1, <2>1
<1>4. CASE FlowProposed
  BY <1>1, <1>4 DEF FlowProposed, FlowIds
<1>5. CASE Shutdown
  <2>1. flow[f].challenger \in Players /\ f # 0
    BY <1>1, FlowTyped DEF Flow, FlowIds, IFlows, ITypes
  <2>2. flow'[f].challenger = flow[f].challenger
    BY <1>1, <1>5 DEF Shutdown, Garbage, NewFlow
  <2> QED
    BY <1>5, <2>1, <2>2 DEF Shutdown, LiveFlows
<1>6. CASE stack # <<>> /\ FlowAdvances
  BY <1>2, <1>6 DEF FlowAdvances
<1> QED
  BY <1>3, <1>4, <1>5, <1>6, FlowsMove

\* When a request runs, every flow that was overdue as it came is gone.
LEMMA InTime ==
    ASSUME IStarts, stack # <<>>, Top.op \in {"hand", "acceptSelected", "first"},
           NEW f \in LiveFlows, flow[f].mode # "STARTING"
    PROVE  Top.now < flow[f].deadline
<1>1. Calls = {Top} \cup Below /\ \A c \in Below : c.op = "reply"
  BY Pops, RoundAlone DEF Rounds, IStarts
<1>2. ~ToSweep(f, Calls)
  BY <1>1 DEF ToSweep
<1>3. ~(flow[f].deadline =< Top.now)
  BY <1>1, <1>2 DEF IStarts, SweptFirst, Timed
<1>4. Top.now \in Nat
  <2>1. Top \in HandFrame(FlowIds) \cup AnswerFrame(FlowIds) \cup FirstFrame(FlowIds)
    BY Pops, KindOfTop DEF IStarts
  <2> QED
    BY <2>1 DEF HandFrame, AnswerFrame, FirstFrame
<1>5. flow[f].deadline \in Nat
  BY FlowTyped DEF LiveFlows, Flow, IStarts, ICalls, IFlows, ITypes
<1> QED
  BY <1>3, <1>4, <1>5

\* The deadline of a step ends it for good, for every length of a step and
\* every order of sweeps, requests and re-entrant views: no request that came
\* at the deadline or later advances the flow.
THEOREM DeadlinesBind == Spec => OverdueNeverAdvances
<1>1. Init => IStarts
  BY InitStarts
<1>2. IStarts /\ [Next]_vars => IStarts'
  BY NextKeepsStarts
<1>3. ASSUME IStarts, [Next]_vars
      PROVE  \A f \in FlowIds :
               Kept(f) /\ flow[f].mode # "STARTING" /\ flow'[f] # flow[f]
                 => Top.now < flow[f].deadline
  BY <1>3, HowFlowsChange, InTime DEF Kept, Live
<1>4. ASSUME IStarts, [Next]_vars
      PROVE  [\A f \in FlowIds :
                Kept(f) /\ flow[f].mode # "STARTING" /\ flow'[f] # flow[f]
                  => Top.now < flow[f].deadline]_vars
  BY <1>3, <1>4
<1> QED
  BY <1>1, <1>2, <1>4, PTL DEF Spec, OverdueNeverAdvances

\* A hand stands until the round it was played in is over, and only the
\* opponent's equal hand opens another: for any number of flows and rounds,
\* duplicates and delayed requests of either player change nothing.
THEOREM HandsAlwaysStand == Spec => HandsStand
<1>1. Init => IStarts
  BY InitStarts
<1>2. IStarts /\ [Next]_vars => IStarts'
  BY NextKeepsStarts
<1>3. ASSUME IStarts, [Next]_vars, NEW f \in FlowIds, Kept(f), flow[f].mode = "RPS",
             NEW p \in Pair(f)
      PROVE  \/ OwnHand(p, f) = "none" \/ OwnHand(p, f)' = OwnHand(p, f)
             \/ /\ flow'[f].round = flow[f].round + 1
                /\ Top.actor # p /\ Top.hand = OwnHand(p, f)
  <2>1. f \in LiveFlows /\ f \in LiveFlows'
    BY <1>3 DEF Kept, Live
  <2>2. CASE flow'[f] = flow[f]
    BY <2>2 DEF OwnHand
  <2>3. CASE flow'[f] # flow[f]
    <3>1. /\ stack # <<>>
          /\ \/ Top.op = "hand" /\ f = Top.id /\ HandAwaited(Top) /\ flow'[f] = Played(Top)
             \/ Top.op = "acceptSelected" /\ f = Top.id
             \/ Top.op = "first" /\ f = Top.id /\ MayChoose(Top)
      BY <1>3, <2>1, <2>3, HowFlowsChange
    <3>2. Top \in Calls
      BY <1>3, <3>1, Pops DEF IStarts
    <3>3. ~(Top.op = "acceptSelected" /\ f = Top.id) /\ ~(f = Top.id /\ MayChoose(Top))
      BY <1>3, <2>1, <3>2 DEF IStarts, AcceptStands, MayChoose
    <3>4. Top.op = "hand" /\ f = Top.id /\ HandAwaited(Top) /\ flow'[f] = Played(Top)
      BY <3>1, <3>3
    <3>5. Top \in HandFrame(FlowIds) /\ flow[f] \in Flow
      BY <1>3, <3>1, <3>4, Pops, KindOfTop, FlowTyped DEF IStarts, ICalls, IFlows, ITypes
    <3>6. Top.hand \in Hands /\ Top.actor \in Players
      BY <3>5 DEF HandFrame
    <3>7. Top.actor \in Pair(f) /\ flow[f].challenger # flow[f].accepter
      BY <1>3, <3>4, <3>6, HeldPair DEF HandAwaited, IStarts, ICalls
    <3> DEFINE new == Played(Top)
    <3>8. /\ new.challenger = flow[f].challenger /\ new.accepter = flow[f].accepter
          /\ \/ /\ flow[f].challengerHand \in {"none", new.challengerHand}
                /\ flow[f].accepterHand \in {"none", new.accepterHand}
             \/ /\ new.round = flow[f].round + 1
                /\ IF Top.actor = flow[f].challenger
                   THEN flow[f].accepterHand = Top.hand ELSE flow[f].challengerHand = Top.hand
          /\ Top.actor = flow[f].challenger => flow[f].challengerHand = "none"
          /\ Top.actor = flow[f].accepter => flow[f].accepterHand = "none"
      BY <1>3, <3>4, <3>5, <3>6, <3>7, PlayedRecord DEF HandAwaited, Pair
    <3> HIDE DEF new
    <3>9. flow'[f] = new
      BY <3>4 DEF new
    <3>10. OwnHand(p, f)' = IF p = new.challenger THEN new.challengerHand ELSE new.accepterHand
      BY <3>9 DEF OwnHand
    <3> QED
      BY <1>3, <3>7, <3>8, <3>9, <3>10 DEF OwnHand, Pair
  <2> QED
    BY <2>2, <2>3
<1>4. ASSUME IStarts, [Next]_vars
      PROVE  [\A f \in FlowIds :
                Kept(f) /\ flow[f].mode = "RPS" =>
                  \A p \in Pair(f) :
                    OwnHand(p, f) = "none" \/ OwnHand(p, f)' = OwnHand(p, f)
                    \/ /\ flow'[f].round = flow[f].round + 1
                       /\ Top.actor # p /\ Top.hand = OwnHand(p, f)]_vars
  BY <1>3, <1>4
<1> QED
  BY <1>1, <1>2, <1>4, PTL DEF Spec, HandsStand

\* Sweeps nest, because each notification asks for a view and a view sweeps:
\* what any of them announces is still the end of a flow that was alive, to
\* the two players it held and to nobody else.
THEOREM FlowsExpireOnce == Spec => ExpiresOnce
<1>1. Init => IStarts
  BY InitStarts
<1>2. IStarts /\ [Next]_vars => IStarts'
  BY NextKeepsStarts
<1>3. ASSUME IStarts, [Next]_vars, Running("sweep"), revisions' # revisions
      PROVE  \E f \in LiveFlows : /\ f \notin LiveFlows'
                                  /\ \A p \in Players :
                                       revisions'[p] # revisions[p] <=> p \in Pair(f)
  <2>1. ~Waiting /\ stack # <<>> /\ Top.op = "sweep"
    BY <1>3 DEF Running, Waiting
  <2>2. Sweep
    <3>1. ~ServiceResumes /\ ~Shutdown
      BY <2>1 DEF ServiceResumes, InviteSelected, AcceptSelected, FinishStart, Running, Shutdown
    <3>2. CASE \/ NotifyStep \/ SelectionStep \/ CheckStep \/ DuelStep \/ SoloStep \/ DropStep
               \/ DeckStep \/ Request \/ ClockTicks \/ UNCHANGED vars
      BY <1>3, <3>2 DEF NotifyStep, SelectionStep, CheckStep, DuelStep, SoloStep, DropStep,
         DeckStep, Request, ClockTicks, vars, prepVars
    <3>3. CASE ServiceStep
      BY <1>3, <2>1, <3>3 DEF ServiceStep, SweepEnds, Invite, Accept, Decline, Cancel, Hand,
         First, Logout, DuelEnded, StartFinished, Running, prepVars
    <3> QED
      BY <1>3, <3>1, <3>2, <3>3 DEF Next, ThreadStep
  <2>3. Top \in SweepFrame(FlowIds)
    BY <1>3, <2>1, Pops, KindOfTop DEF IStarts
  <2>4. Top.todo \subseteq FlowIds
    BY <2>3 DEF SweepFrame
  <2>5. PICK f \in Top.todo : Overdue(f, Top.now) /\ \E extra : FinishMakes(f, "STALE", extra)
    BY <1>3, <2>2, SweepCalls DEF prepVars, IStarts
  <2>6. PICK rest : Finish(f, "STALE", rest)
    BY <2>5 DEF FinishMakes
  <2>7. f \in LiveFlows
    BY <2>4, <2>5 DEF LiveFlows, Overdue
  <2>8. f \notin LiveFlows'
    BY <1>3, <2>4, <2>6, LiveFinish DEF IStarts, ICalls
  <2>9. /\ revisions' = [x \in Players |-> revisions[x] + IF x \in Pair(f) THEN 1 ELSE 0]
        /\ revisions \in [Players -> Nat]
    BY <1>3, <2>6 DEF Finish, Changed, Pair, IStarts, ICalls, IFlows, ITypes, TypeOK
  <2>10. \A p \in Players : revisions'[p] # revisions[p] <=> p \in Pair(f)
    BY <2>9
  <2> QED
    BY <2>7, <2>8, <2>10
<1>4. ASSUME IStarts, [Next]_vars
      PROVE  [Running("sweep") /\ revisions' # revisions =>
                \E f \in LiveFlows : /\ f \notin LiveFlows'
                                     /\ \A p \in Players :
                                          revisions'[p] # revisions[p] <=> p \in Pair(f)]_vars
  BY <1>3, <1>4
<1> QED
  BY <1>1, <1>2, <1>4, PTL DEF Spec, ExpiresOnce

=============================================================================
