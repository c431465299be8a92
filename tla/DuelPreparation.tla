---------------------------- MODULE DuelPreparation ----------------------------
(***************************************************************************)
(* DuelPreparationService: invitations, rock-paper-scissors, the choice of *)
(* the first turn and the start of a duel between two players.             *)
(*                                                                         *)
(* The service runs on the server thread and is re-entered from its own    *)
(* notifications: Host.changed asks for a view, and every view first       *)
(* expires overdue flows, which notifies again.  The call stack of that    *)
(* thread is therefore part of the state.  Each element of `stack` is a    *)
(* call, or the rest of one that waits for a callback; only the first      *)
(* element can take a step, and a request of a player is admitted only     *)
(* when the stack is empty.  The wall clock may tick between any two steps.*)
(*                                                                         *)
(* The variables the service reads through its Host (who is online, who    *)
(* duels) belong to DuelManager, which extends this module.                *)
(***************************************************************************)
EXTENDS Integers, Sequences, FiniteSets

CONSTANTS
    Players,    \* the players of the server
    Decks,      \* the saved decks a player may make active
    None,       \* null: no player, no deck, no hand
    Step,       \* STEP_MILLIS, in ticks of the clock
    MaxRounds   \* bound on the rolls of one flow

VARIABLES
    clock,              \* System.currentTimeMillis(), in ticks
    stack,              \* the call stack of the server thread, innermost first
    flow,               \* every Flow object ever made; its index is its id
    flows,              \* player -> id of the flow that holds the player, 0 for none
    revisions,          \* player -> revision of the player's view
    selected,           \* player -> deck of an eligible selection() not yet read, or None
    started,            \* what Host.start returned, until it is read
    online,             \* Host: connected players
    playerToDuel,       \* Host: player -> duel, 0 for none
    startingPlayers     \* Host: players whose solo duel is starting

prepVars == <<flow, flows, revisions>>

ASSUME StepAssumption == Step \in Nat \ {0}
ASSUME RoundAssumption == MaxRounds \in Nat \ {0}
ASSUME NoneAssumption == None \notin Players /\ None \notin Decks

-----------------------------------------------------------------------------
(* Data *)

Modes == {"INVITED", "RPS", "FIRST_CHOICE", "STARTING"}
Hands == {"ROCK", "PAPER", "SCISSORS"}
Results == {"OK", "STALE", "OFFLINE", "BUSY", "START_FAILED"}

TIE == -1

Beats == [ROCK |-> "SCISSORS", PAPER |-> "ROCK", SCISSORS |-> "PAPER"]

\* The seat whose hand wins the roll.
Resolve(hand0, hand1) ==
    IF hand0 = hand1 THEN TIE ELSE IF Beats[hand0] = hand1 THEN 0 ELSE 1

Flow == [challenger : Players, accepter : Players, mode : Modes, deadline : Nat,
         round : Nat, challengerHand : Hands \cup {"none"},
         accepterHand : Hands \cup {"none"}, winner : {-1, 0, 1},
         prepared : [challenger : Decks \cup {None}, accepter : Decks \cup {None}],
         loggedOutDuringStart : BOOLEAN]

NewFlow(sender, target, now) ==
    [challenger |-> sender, accepter |-> target, mode |-> "INVITED",
     deadline |-> now + Step, round |-> 0, challengerHand |-> "none",
     accepterHand |-> "none", winner |-> TIE,
     prepared |-> [challenger |-> None, accepter |-> None],
     loggedOutDuringStart |-> FALSE]

\* Rolls are numbered within their flow, so a pair <<flow, round>> is a round id.
NewRound(f, now) ==
    [f EXCEPT !.mode = "RPS", !.round = @ + 1, !.challengerHand = "none",
              !.accepterHand = "none", !.deadline = now + Step]

FlowIds == 1..Len(flow)
LiveFlows == {f \in FlowIds : flows[flow[f].challenger] = f}

IsDueling(p) == playerToDuel[p] # 0 \/ p \in startingPlayers
IsPreparing(p) == flows[p] # 0 /\ flow[flows[p]].mode # "INVITED"

Chooser(f) == IF flow[f].winner = 0 THEN flow[f].challenger ELSE flow[f].accepter
OwnHand(p, f) ==
    IF p = flow[f].challenger THEN flow[f].challengerHand ELSE flow[f].accepterHand

\* Mutant: only duels make a player unavailable.
AvailabilityUnlessBusy(f) ==
    IF \E p \in {flow[f].challenger, flow[f].accepter} : IsDueling(p) THEN "BUSY" ELSE "OK"

Availability(f) ==
    LET pair == {flow[f].challenger, flow[f].accepter} IN
    CASE ~(pair \subseteq online) -> "OFFLINE"
      [] pair \subseteq online /\ \E p \in pair : IsDueling(p) -> "BUSY"
      [] OTHER -> "OK"

\* What view() tells a player.  The time left and the names are not kept.
View(p) ==
    LET f == flows[p] IN
    IF f = 0
    THEN [revision |-> revisions[p], mode |-> IF IsDueling(p) THEN "DUEL" ELSE "IDLE",
          flow |-> 0, round |-> 0, outgoing |-> FALSE, ownHandSubmitted |-> FALSE,
          canChooseFirst |-> FALSE]
    ELSE [revision |-> revisions[p], mode |-> flow[f].mode, flow |-> f,
          round |-> flow[f].round, outgoing |-> flow[f].challenger = p,
          ownHandSubmitted |-> OwnHand(p, f) # "none",
          canChooseFirst |-> flow[f].mode = "FIRST_CHOICE" /\ Chooser(f) = p]

-----------------------------------------------------------------------------
(* The call stack *)

Top == Head(stack)
Rest == Tail(stack)
Running(op) == stack # <<>> /\ Top.op = op

\* The running call ends, or makes these calls and ends after them.
Return == stack' = Rest
Call(frames) == stack' = frames \o Rest

SelectionCall(p) == [op |-> "selection", player |-> p]
ChangedCall(p, result) == [op |-> "changed", player |-> p, result |-> result]

\* Mutant: only the first player is notified.
ChangedOnce(p, q, result, rest) ==
    /\ revisions' = [x \in Players |-> revisions[x] + IF x \in {p, q} THEN 1 ELSE 0]
    /\ stack' = <<ChangedCall(p, result)>> \o rest

\* changed(): both revisions first, then both notifications, then `rest`.
Changed(p, q, result, rest) ==
    /\ revisions' = [x \in Players |-> revisions[x] + IF x \in {p, q} THEN 1 ELSE 0]
    /\ stack' = <<ChangedCall(p, result), ChangedCall(q, result)>> \o rest

\* Nothing reaches a flow outside the map but calls that hold on to it, and
\* those read who its players are: the rest of the object is garbage.
Garbage(f) == [NewFlow(f.challenger, f.accepter, 0) EXCEPT !.deadline = 0]

\* Mutant: the accepter's entry stays.
FinishHalf(f, result, rest) ==
    LET p == flow[f].challenger
        q == flow[f].accepter IN
    /\ flows' = [flows EXCEPT ![p] = IF @ = f THEN 0 ELSE @]
    /\ flow' = [flow EXCEPT ![f] = Garbage(@)]
    /\ Changed(p, q, result, rest)

\* finish(): the conditional removals, then changed().
Finish(f, result, rest) ==
    LET p == flow[f].challenger
        q == flow[f].accepter IN
    /\ flows' = [x \in Players |-> IF x \in {p, q} /\ flows[x] = f THEN 0 ELSE flows[x]]
    /\ flow' = [flow EXCEPT ![f] = Garbage(@)]
    /\ Changed(p, q, result, rest)

-----------------------------------------------------------------------------
(* expire: a loop over a copy of the flows.  Every entry point and every    *)
(* view() begins with one; when no flow is overdue it does nothing.         *)

\* Mutants: the deadline itself is still in time; a flow removed meanwhile is
\* finished again; only rolls expire.
OverdueAfter(f, now) ==
    flows[flow[f].challenger] = f /\ flow[f].mode # "STARTING" /\ now > flow[f].deadline
OverdueAgain(f, now) == flow[f].mode # "STARTING" /\ now >= flow[f].deadline
OverdueRoll(f, now) ==
    flows[flow[f].challenger] = f /\ flow[f].mode = "RPS" /\ now >= flow[f].deadline

Overdue(f, now) ==
    /\ flows[flow[f].challenger] = f
    /\ flow[f].mode # "STARTING"
    /\ now >= flow[f].deadline

\* The calls that expire(now) amounts to when it is the next thing to run.
Expiry(now) ==
    IF \E f \in LiveFlows : Overdue(f, now)
    THEN <<[op |-> "sweep", now |-> now, todo |-> LiveFlows]>>
    ELSE <<>>

Sweep ==
    /\ Running("sweep")
    /\ \E f \in Top.todo :
         LET rest == <<[Top EXCEPT !.todo = @ \ {f}]>> \o Rest IN
         IF Overdue(f, Top.now)
         THEN Finish(f, "STALE", rest)
         ELSE stack' = rest /\ UNCHANGED prepVars

SweepEnds ==
    /\ Running("sweep")
    /\ Top.todo = {}
    /\ Return
    /\ UNCHANGED prepVars

-----------------------------------------------------------------------------
(* Requests.  Each is a frame [op, actor, ..., now]; `id` is the flow the   *)
(* client names, which need not be the one it is in any more.               *)

Refused == Return /\ UNCHANGED prepVars

\* Mutant: a player with an invitation may be invited again.
FreeOfDuels(p) == ~IsDueling(p)

Free(p) == flows[p] = 0 /\ ~IsDueling(p)

Invite ==
    /\ Running("invite")
    /\ IF /\ Top.actor # Top.target
          /\ {Top.actor, Top.target} \subseteq online
          /\ Free(Top.actor) /\ Free(Top.target)
       THEN /\ Call(<<SelectionCall(Top.actor), [Top EXCEPT !.op = "inviteSelected"]>>)
            /\ UNCHANGED prepVars
       ELSE Refused

InviteSelected ==
    /\ Running("inviteSelected")
    /\ IF selected[Top.actor] # None
       THEN LET new == Len(flow) + 1 IN
            /\ flow' = Append(flow, NewFlow(Top.actor, Top.target, Top.now))
            /\ flows' = [flows EXCEPT ![Top.actor] = new, ![Top.target] = new]
            /\ Changed(Top.actor, Top.target, "OK", Rest)
       ELSE Refused

\* The flow an invited player may still answer.
Answerable(call) ==
    /\ flows[call.actor] = call.id
    /\ flow[call.id].mode = "INVITED"
    /\ flow[call.id].accepter = call.actor

Accept ==
    /\ Running("accept")
    /\ LET f == Top.id IN
       CASE ~Answerable(Top) -> Refused
         [] Answerable(Top) /\ Availability(f) # "OK" -> Finish(f, Availability(f), Rest)
         [] OTHER ->
              /\ Call(<<SelectionCall(flow[f].challenger), SelectionCall(flow[f].accepter),
                        [Top EXCEPT !.op = "acceptSelected"]>>)
              /\ UNCHANGED prepVars

AcceptSelected ==
    /\ Running("acceptSelected")
    /\ LET f == Top.id
           p == flow[f].challenger
           q == flow[f].accepter IN
       IF selected[p] # None /\ selected[q] # None
       THEN /\ flow' = [flow EXCEPT ![f] =
                          NewRound([@ EXCEPT !.prepared = [challenger |-> selected[p],
                                                           accepter |-> selected[q]]], Top.now)]
            /\ Changed(p, q, "OK", Rest)
            /\ UNCHANGED flows
       ELSE Refused

Decline ==
    /\ Running("decline")
    /\ IF Answerable(Top) THEN Finish(Top.id, "OK", Rest) ELSE Refused

Cancel ==
    /\ Running("cancel")
    /\ IF flows[Top.actor] = Top.id /\ flow[Top.id].mode # "STARTING"
       THEN Finish(Top.id, "OK", Rest)
       ELSE Refused

\* Mutant: the hands are compared the wrong way round.
SettleSwapped(f, now) ==
    LET winner == Resolve(f.accepterHand, f.challengerHand) IN
    IF winner = TIE THEN NewRound([f EXCEPT !.winner = TIE], now)
    ELSE [f EXCEPT !.winner = winner, !.mode = "FIRST_CHOICE", !.round = 0,
                   !.deadline = now + Step]

\* Both hands are in: a tie is rolled again, else the winner chooses.
Settle(f, now) ==
    LET winner == Resolve(f.challengerHand, f.accepterHand) IN
    IF winner = TIE THEN NewRound([f EXCEPT !.winner = TIE], now)
    ELSE [f EXCEPT !.winner = winner, !.mode = "FIRST_CHOICE", !.round = 0,
                   !.deadline = now + Step]

Submit(f, actor, hand) ==
    IF actor = f.challenger THEN [f EXCEPT !.challengerHand = hand]
    ELSE [f EXCEPT !.accepterHand = hand]

\* Mutant: a second hand replaces the first.
HandAwaitedAgain(call) ==
    flows[call.actor] = call.id /\ flow[call.id].mode = "RPS" /\ flow[call.id].round = call.round

HandAwaited(call) ==
    /\ flows[call.actor] = call.id
    /\ flow[call.id].mode = "RPS" /\ flow[call.id].round = call.round
    /\ OwnHand(call.actor, call.id) = "none"

Hand ==
    /\ Running("hand")
    /\ LET f == Top.id
           submitted == Submit(flow[f], Top.actor, Top.hand)
           complete == "none" \notin {submitted.challengerHand, submitted.accepterHand} IN
       IF HandAwaited(Top)
       THEN /\ flow' = [flow EXCEPT ![f] =
                          IF complete THEN Settle(submitted, Top.now) ELSE submitted]
            /\ Changed(flow[f].challenger, flow[f].accepter, "OK", Rest)
            /\ UNCHANGED flows
       ELSE Refused

-----------------------------------------------------------------------------
(* first: the winner's choice, and the start of the duel by the Host *)

MayChoose(call) ==
    /\ flows[call.actor] = call.id
    /\ flow[call.id].mode = "FIRST_CHOICE"
    /\ Chooser(call.id) = call.actor

\* Mutant: the choice is taken for the challenger's, whoever won.
FirstSeatOfChallenger(f, goFirst) == IF goFirst THEN 0 ELSE 1

\* 0 seats the challenger first, 1 the accepter.
FirstSeat(f, goFirst) == IF goFirst THEN flow[f].winner ELSE 1 - flow[f].winner

First ==
    /\ Running("first")
    /\ LET f == Top.id
           start == [op |-> "startPrepared", flow |-> f,
                     firstSeat |-> FirstSeat(f, Top.goFirst)]
           after == [op |-> "finishStart", flow |-> f, goFirst |-> Top.goFirst] IN
       CASE ~MayChoose(Top) -> Refused
         [] MayChoose(Top) /\ Availability(f) # "OK" -> Finish(f, Availability(f), Rest)
         [] OTHER ->
              /\ flow' = [flow EXCEPT ![f].mode = "STARTING"]
              /\ Changed(flow[f].challenger, flow[f].accepter, "OK", <<start, after>> \o Rest)
              /\ UNCHANGED flows

\* Mutant: a failed start is reported as if nothing had happened.
FinishStartQuietly ==
    /\ Running("finishStart")
    /\ Finish(Top.flow, IF flow[Top.flow].loggedOutDuringStart THEN "OFFLINE" ELSE "OK", Rest)

FinishStart ==
    /\ Running("finishStart")
    /\ Finish(Top.flow, IF flow[Top.flow].loggedOutDuringStart THEN "OFFLINE"
                        ELSE IF started THEN "OK" ELSE "START_FAILED", Rest)

-----------------------------------------------------------------------------
(* Calls of the Host *)

\* Mutants: only an invitation ends with the connection; a start in progress
\* is given up like any other flow.
LogoutInvited ==
    /\ Running("logout")
    /\ LET f == flows[Top.player] IN
       IF f # 0 /\ flow[f].mode = "INVITED" THEN Finish(f, "OFFLINE", Rest) ELSE Refused
LogoutAlways ==
    /\ Running("logout")
    /\ LET f == flows[Top.player] IN
       IF f # 0 THEN Finish(f, "OFFLINE", Rest) ELSE Refused

Logout ==
    /\ Running("logout")
    /\ LET f == flows[Top.player] IN
       CASE f = 0 -> Refused
         [] f # 0 /\ flow[f].mode = "STARTING" ->
              /\ flow' = [flow EXCEPT ![f].loggedOutDuringStart = TRUE]
              /\ Return
              /\ UNCHANGED <<flows, revisions>>
         [] OTHER -> Finish(f, "OFFLINE", Rest)

\* Mutant: the notification carries the old revision.
AdvancedSilently(p, result) == Call(<<ChangedCall(p, result)>>) /\ UNCHANGED prepVars

\* duelEnded and startFinished: a visible change that is not a flow's.
Advanced(p, result) ==
    /\ revisions' = [revisions EXCEPT ![p] = @ + 1]
    /\ Call(<<ChangedCall(p, result)>>)
    /\ UNCHANGED <<flow, flows>>

DuelEnded ==
    /\ Running("duelEnded")
    /\ Advanced(Top.player, "OK")

StartFinished ==
    /\ Running("startFinished")
    /\ Advanced(Top.player, IF Top.success THEN "OK" ELSE "START_FAILED")
=============================================================================
