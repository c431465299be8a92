---------------------------- MODULE DuelStartsProofs ----------------------------
(***************************************************************************)
(* The starts of duels and what is left after them, for any players,       *)
(* decks, deadlines and bounds:                                            *)
(*   SeatsArePaired       playerToDuel, activeDuels and duelSeats always   *)
(*                        tell the same story;                             *)
(*   NothingStaysBehind   a waiting server holds no lock of a start, and   *)
(*                        no duellist in an invitation;                    *)
(*   StartsFollowTheRoll  a duel is installed for free players only, with  *)
(*                        the decks and the seats they agreed on;          *)
(*   PromiseKept          under the mapping Engagement, every step is one  *)
(*                        of Matchmaking, or changes nobody's engagement.  *)
(*                                                                         *)
(* A start reads what selection() returned, the flow and its own arguments *)
(* after callbacks that may end duels, flows and connections.  The         *)
(* invariants below say what those callbacks leave alone.                  *)
(***************************************************************************)
EXTENDS DuelManagerProofs

-----------------------------------------------------------------------------
(* The inductive invariant *)

\* Calls that read what selection() returned.
Awaiting == {"inviteSelected", "acceptSelected", "soloSelected", "startChecked", "soloChecked"}

\* Whoever is asked for a deck, or about to be seated, is in no duel; and a
\* seat's deck is still the active one.
CallFree(c) ==
    /\ c.op \in {"selection", "soloGuard"} => playerToDuel[c.player] = 0
    /\ c.op = "inviteSelected" => playerToDuel[c.actor] = 0 /\ playerToDuel[c.target] = 0
    /\ c.op = "start" => \A seat \in {0, 1} :
         c.seats[seat] # None => /\ playerToDuel[c.seats[seat]] = 0
                                 /\ c.decks[seat] = deck[c.seats[seat]]
    /\ c.op \in {"selection", "current"} => selected[c.player] = None

SelectionsFree ==
    /\ \A p \in Players : selected[p] # None => playerToDuel[p] = 0 /\ selected[p] = deck[p]
    /\ \A c \in Calls : CallFree(c)
    /\ (\E c \in Calls : c.op \in Awaiting) \/ selected = NoSelection
    /\ \A c \in Calls : c.op \in {"selection", "current"} => \E b \in Calls : b.op \in Awaiting

\* The deck a player of a flow was found with when it was accepted.
Prepared(f, p) ==
    IF p = flow[f].challenger THEN flow[f].prepared.challenger ELSE flow[f].prepared.accepter

\* What a call of a start owes to the rest of the start that waits for it.
Follows(a, b) ==
    /\ b.op = "startChecked" =>
         /\ a.op \in {"current", "selection"} => a.player \in Pair(b.flow)
         /\ a.op = "current" => a.deck = Prepared(b.flow, a.player)
         /\ a.op = "selection" => deck[a.player] = Prepared(b.flow, a.player)
    /\ a.op \in {"startPrepared", "startChecked"} /\ b.op = "finishStart" =>
         a.firstSeat = FirstSeat(b.flow, b.goFirst)
    /\ a.op = "start" /\ b.op = "finishStart" =>
         /\ {a.seats[0], a.seats[1]} = Pair(b.flow)
         /\ b.goFirst <=> a.seats[0] = Chooser(b.flow)
         /\ a.decks = IF a.seats[0] = flow[b.flow].challenger
                      THEN Seats(flow[b.flow].prepared.challenger, flow[b.flow].prepared.accepter)
                      ELSE Seats(flow[b.flow].prepared.accepter, flow[b.flow].prepared.challenger)
    /\ a.op = "start" /\ b.op = "soloFinally" => a.seats = Seats(b.player, None)

\* A deck that was found eligible for a start is the one prepared for it.
FoundPrepared(b) ==
    b.op = "startChecked" =>
      \A p \in Pair(b.flow) : selected[p] # None => deck[p] = Prepared(b.flow, p)

StartsFollow ==
    /\ \A a, b \in Calls : Follows(a, b)
    /\ \A b \in Calls : FoundPrepared(b)
    /\ \A a \in Calls : a.op \in {"start", "setup"} =>
         \E b \in Calls : b.op \in {"finishStart", "soloFinally"}

\* The guard of a duel against the AI is held by the call that releases it,
\* and by nobody in a flow.
SoloOps == {"soloSelected", "soloFinally"}

\* The invitation of a player who asked for such a duel is as good as gone.
SoloFree(c, calls) ==
    c.op = "soloGuard" =>
      \/ flows[c.player] = 0
      \/ \E b \in calls : b.op = "cancelOwn" /\ b.player = c.player
      \/ \E b \in calls : b.op = "cancel" /\ b.actor = c.player /\ b.id = flows[c.player]

SoloHeld ==
    /\ \A c \in Calls : c.op \in SoloOps => c.player \in startingPlayers
    /\ \A p \in startingPlayers : \E c \in Calls : c.op \in SoloOps /\ c.player = p
    /\ \A c \in Calls : c.op = "soloChecked" =>
         \E b \in Calls : b.op = "soloFinally" /\ b.player = c.player
    /\ \A p \in startingPlayers : flows[p] = 0
    /\ \A c \in Calls : SoloFree(c, Calls)

\* A duel of a player in a flow is the one that the flow has just started.
DuelsApart ==
    /\ \A f \in LiveFlows : \A p \in Pair(f) :
         \/ playerToDuel[p] = 0
         \/ flow[f].mode = "STARTING" /\ Humans(playerToDuel[p]) = Pair(f)
    /\ \A p \in startingPlayers : playerToDuel[p] = 0 \/ Humans(playerToDuel[p]) = {p}

IDuels ==
    IStarts /\ SelectionsFree /\ StartsFollow /\ SoloHeld /\ DuelsApart /\ DuelsPaired

DuelsKept == SelectionsFree' /\ StartsFollow' /\ SoloHeld' /\ DuelsApart' /\ DuelsPaired'

-----------------------------------------------------------------------------
(* What a step may do to the flows and the duels *)

\* A flow that is starting is not rewritten: pair, decks and winner stand.
FlowStands(f) ==
    /\ flow'[f].challenger = flow[f].challenger /\ flow'[f].accepter = flow[f].accepter
    /\ flow[f].mode = "STARTING" =>
         /\ flow'[f].mode = "STARTING"
         /\ flow'[f].prepared = flow[f].prepared
         /\ flow'[f].winner = flow[f].winner

LEMMA FlowsStand ==
    ASSUME IStarts, [Next]_vars, NEW f \in LiveFlows, f \in LiveFlows' PROVE FlowStands(f)
<1>1. f \in FlowIds /\ flow[f] \in Flow /\ IFlows
  BY FlowTyped DEF LiveFlows, IStarts, ICalls, IFlows, ITypes
<1>2. CASE flow'[f] = flow[f]
  BY <1>2 DEF FlowStands
<1>3. CASE flow'[f] # flow[f]
  <2>1. stack # <<>> /\ Top \in Calls
    BY <1>3, HowFlowsChange, Pops DEF IStarts
  <2>2. CASE Top.op = "hand" /\ f = Top.id /\ HandAwaited(Top) /\ flow'[f] = Played(Top)
    <3>1. Top \in HandFrame(FlowIds)
      BY <2>1, <2>2, Pops, KindOfTop DEF IStarts
    <3>2. Top.hand \in Hands /\ Top.actor \in Players
      BY <3>1 DEF HandFrame
    <3>3. Top.actor \in Pair(f) /\ flow[f].challenger # flow[f].accepter
      BY <1>1, <2>2, <3>2, HeldPair DEF HandAwaited
    <3>4. /\ flow'[f].challenger = flow[f].challenger /\ flow'[f].accepter = flow[f].accepter
          /\ flow[f].mode = "RPS"
      BY <1>1, <2>2, <3>2, <3>3, PlayedRecord DEF HandAwaited, Pair
    <3> QED
      BY <3>4 DEF FlowStands
  <2>3. CASE Top.op = "acceptSelected" /\ f = Top.id /\ flow'[f] = Accepted(Top)
    <3>1. flow[f].mode = "INVITED"
      BY <2>1, <2>3 DEF IStarts, AcceptStands
    <3> QED
      BY <1>1, <2>3, <3>1, AcceptedRecord DEF FlowStands
  <2>4. CASE MayChoose(Top) /\ f = Top.id /\ flow'[f] = [flow[f] EXCEPT !.mode = "STARTING"]
    BY <1>1, <2>4 DEF FlowStands, Flow
  <2>5. CASE /\ flow[f].mode = "STARTING"
             /\ flow'[f] = [flow[f] EXCEPT !.loggedOutDuringStart = TRUE]
    BY <1>1, <2>5 DEF FlowStands, Flow
  <2> QED
    BY <1>3, <2>2, <2>3, <2>4, <2>5, HowFlowsChange
<1> QED
  BY <1>2, <1>3

\* A flow is made by the end of invite() only, and only that puts players
\* into one.
LEMMA NewFlows ==
    ASSUME IStarts, [Next]_vars
    PROVE  \/ /\ LiveFlows' \subseteq LiveFlows
              /\ \A p \in Players : flows'[p] \in {0, flows[p]}
           \/ /\ stack # <<>> /\ Top.op = "inviteSelected" /\ FlowProposed
              /\ \A f \in LiveFlows' : \/ f \in LiveFlows
                                       \/ /\ f = Len(flow) + 1
                                          /\ flow'[f] = NewFlow(Top.actor, Top.target, Top.now)
<1>1. /\ IFlows /\ flow \in Seq(Flow) /\ Len(flow) \in Nat
      /\ flows \in [Players -> {0} \cup FlowIds]
      /\ \A f \in FlowIds : flow[f] \in Flow
  BY FlowTyped, LenProperties DEF IStarts, ICalls, IFlows, ITypes, TypeOK
<1>2. CASE UNCHANGED <<flow, flows>>
  BY <1>2, LiveSame
<1>3. ASSUME NEW g \in FlowIds, NEW result, NEW rest, Finish(g, result, rest)
      PROVE  LiveFlows' \subseteq LiveFlows /\ \A p \in Players : flows'[p] \in {0, flows[p]}
  BY <1>1, <1>3, LiveFinish
<1>4. ASSUME NEW g \in FlowIds, NEW new, Rewrites(g, new), new.challenger = flow[g].challenger
      PROVE  LiveFlows' = LiveFlows /\ UNCHANGED flows
  BY <1>1, <1>4, RewriteOne
<1>5. CASE stack # <<>> /\ FlowAdvances
  <2>1. CASE Top.op = "hand" /\ Top.id \in FlowIds /\ HandAwaited(Top) /\ Rewrites(Top.id, Played(Top))
    <3>1. Top \in HandFrame(FlowIds)
      BY <1>5, <2>1, Pops, KindOfTop DEF IStarts
    <3>2. Top.hand \in Hands /\ Top.actor \in Players
      BY <3>1 DEF HandFrame
    <3>3. Top.actor \in Pair(Top.id) /\ flow[Top.id].challenger # flow[Top.id].accepter
      BY <1>1, <2>1, <3>2, HeldPair DEF HandAwaited
    <3>4. Played(Top).challenger = flow[Top.id].challenger
      BY <1>1, <2>1, <3>2, <3>3, PlayedRecord DEF HandAwaited, Pair
    <3> QED
      BY <1>4, <2>1, <3>4
  <2>2. CASE /\ Top.op = "acceptSelected" /\ Top.id \in FlowIds /\ Rewrites(Top.id, Accepted(Top))
    BY <1>1, <1>4, <2>2, AcceptedRecord
  <2>3. CASE /\ Top.op = "first" /\ Top.id \in FlowIds /\ MayChoose(Top)
             /\ Rewrites(Top.id, [flow[Top.id] EXCEPT !.mode = "STARTING"])
    BY <1>1, <1>4, <2>3 DEF Flow
  <2>4. CASE /\ Top.op = "logout" /\ flows[Top.player] \in FlowIds
             /\ flow[flows[Top.player]].mode = "STARTING"
             /\ Rewrites(flows[Top.player],
                         [flow[flows[Top.player]] EXCEPT !.loggedOutDuringStart = TRUE])
    BY <1>1, <1>4, <2>4 DEF Flow
  <2> QED
    BY <1>5, <2>1, <2>2, <2>3, <2>4 DEF FlowAdvances
<1>6. CASE stack # <<>> /\ FlowProposed
  <2>1. Top.op = "inviteSelected" /\ Top \in InviteFrame
    BY <1>6, Pops, KindOfTop DEF FlowProposed, IStarts
  <2> DEFINE new == Len(flow) + 1
             made == NewFlow(Top.actor, Top.target, Top.now)
  <2>2. /\ \A g \in FlowIds : flow'[g] = flow[g] /\ g # new
        /\ flow'[new] = made /\ FlowIds' = FlowIds \cup {new}
    BY <1>1, <1>6 DEF FlowIds, FlowProposed
  <2>3. flows' = [flows EXCEPT ![Top.actor] = new, ![Top.target] = new]
    BY <1>6 DEF FlowProposed
  <2> HIDE DEF new, made
  <2>4. \A g \in LiveFlows' : g = new \/ g \in LiveFlows
    BY <1>1, <2>2, <2>3 DEF LiveFlows, Flow
  <2> QED
    BY <1>6, <2>1, <2>2, <2>4 DEF new, made
<1>7. CASE Shutdown
  <2>1. \A p \in Players : flows'[p] = 0
    BY <1>7 DEF Shutdown
  <2>2. FlowIds' = FlowIds /\ \A f \in FlowIds : flow'[f].challenger = flow[f].challenger
    <3>1. flow' = [f \in FlowIds |-> Garbage(flow[f])]
      BY <1>7 DEF Shutdown
    <3>2. Len(flow') = Len(flow)
      BY <1>1, <3>1 DEF FlowIds
    <3> QED
      BY <3>1, <3>2 DEF FlowIds, Garbage, NewFlow
  <2>3. \A f \in FlowIds : f # 0 /\ flow[f].challenger \in Players
    BY <1>1 DEF Flow, FlowIds
  <2> QED
    BY <2>1, <2>2, <2>3 DEF LiveFlows
<1> QED
  BY <1>2, <1>3, <1>5, <1>6, <1>7, FlowsMove

\* A step that does not install a duel: none ends, or one does as a whole.
DuelsMove ==
    \/ UNCHANGED <<activeDuels, duelSeats, playerToDuel>>
    \/ \E id \in DuelIds : EndDuel(id)

\* No player changes to another duel, and the duels that go on keep theirs.
DuelsShrink ==
    \A p \in Players :
      \/ playerToDuel'[p] = 0
      \/ playerToDuel'[p] = playerToDuel[p] /\ (Humans(playerToDuel[p]))' = Humans(playerToDuel[p])

LEMMA SeatsPeople ==
    ASSUME ITypes, NEW id \in DuelIds
    PROVE  /\ duelSeats[id] \in Seating \cup {NoSeats}
           /\ Humans(id) = {duelSeats[id][0], duelSeats[id][1]} \ {None}
           /\ Humans(id) \subseteq Players
<1>1. duelSeats[id] \in Seating \cup {NoSeats}
  BY ElementOfSeq DEF ITypes, TypeOK, DuelIds
<1>2. duelSeats[id][0] \in Players \cup {None} /\ duelSeats[id][1] \in Players \cup {None}
  BY <1>1 DEF Seating, NoSeats, Seats
<1> QED
  BY <1>1, <1>2 DEF Humans

LEMMA DuelsEnd ==
    ASSUME ITypes, DuelsPaired, DuelsMove
    PROVE  DuelsPaired' /\ DuelsShrink
<1>1. CASE UNCHANGED <<activeDuels, duelSeats, playerToDuel>>
  <2>1. DuelsPaired'
    <3>1. DuelIds' = DuelIds /\ \A d : Humans(d)' = Humans(d)
      BY <1>1 DEF DuelIds, Humans
    <3>2. \A id \in DuelIds' : id \in activeDuels' <=> Humans(id)' # {}
      BY <1>1, <3>1 DEF DuelsPaired
    <3>3. \A id \in activeDuels' : \A p \in Humans(id)' : playerToDuel'[p] = id
      BY <1>1, <3>1 DEF DuelsPaired
    <3>4. \A p \in Players : playerToDuel'[p] # 0 => p \in (Humans(playerToDuel[p]))'
      BY <1>1 DEF DuelsPaired, Humans
    <3> QED
      BY <3>2, <3>3, <3>4 DEF DuelsPaired
  <2>2. \A p \in Players : playerToDuel'[p] = playerToDuel[p]
    BY <1>1
  <2>3. \A p \in Players : (Humans(playerToDuel[p]))' = Humans(playerToDuel[p])
    BY <1>1 DEF Humans
  <2> QED
    BY <2>1, <2>2, <2>3 DEF DuelsShrink
<1>2. ASSUME NEW id \in DuelIds, EndDuel(id) PROVE DuelsPaired' /\ DuelsShrink
  <2>1. /\ duelSeats \in Seq(Seating \cup {NoSeats}) /\ Len(duelSeats) \in Nat
        /\ playerToDuel \in [Players -> {0} \cup DuelIds]
        /\ activeDuels \subseteq DuelIds
    BY LenProperties DEF ITypes, TypeOK
  <2>2. /\ Len(duelSeats') = Len(duelSeats) /\ duelSeats'[id] = NoSeats
        /\ \A d \in DuelIds : d # id => duelSeats'[d] = duelSeats[d]
    BY <1>2, <2>1 DEF EndDuel, DuelIds
  <2>3. DuelIds' = DuelIds
    BY <2>2 DEF DuelIds
  <2>4. \A d \in DuelIds : {duelSeats'[d][seat] : seat \in {0, 1}} \ {None} =
                             IF d = id THEN {} ELSE Humans(d)
    BY <2>2 DEF Humans, NoSeats, Seats
  <2>5. /\ activeDuels' = activeDuels \ {id}
        /\ \A p \in Players : playerToDuel'[p] = IF p \in Humans(id) /\ playerToDuel[p] = id
                                                 THEN 0 ELSE playerToDuel[p]
    BY <1>2 DEF EndDuel
  <2>6. \A p \in Players : playerToDuel'[p] = IF playerToDuel[p] = id THEN 0 ELSE playerToDuel[p]
    <3>1. id # 0
      BY DEF DuelIds
    <3> QED
      BY <2>5, <3>1 DEF DuelsPaired
  <2>7. \A d \in DuelIds : Humans(d) \subseteq Players
    BY SeatsPeople
  <2>8. DuelsPaired'
    <3>1. \A d \in DuelIds' : d \in activeDuels' <=> Humans(d)' # {}
      BY <2>3, <2>4, <2>5 DEF DuelsPaired, Humans
    <3>2. \A d \in activeDuels' : \A p \in Humans(d)' : playerToDuel'[p] = d
      <4> SUFFICES ASSUME NEW d \in activeDuels', NEW p \in Humans(d)' PROVE playerToDuel'[p] = d
        OBVIOUS
      <4>1. d \in activeDuels /\ d # id /\ d \in DuelIds
        BY <2>1, <2>5
      <4>2. p \in Humans(d)
        BY <2>4, <4>1 DEF Humans
      <4> QED
        BY <2>6, <2>7, <4>1, <4>2 DEF DuelsPaired
    <3>3. \A p \in Players : playerToDuel'[p] # 0 => p \in (Humans(playerToDuel[p]))'
      <4> SUFFICES ASSUME NEW p \in Players, playerToDuel'[p] # 0
                   PROVE  p \in {duelSeats'[playerToDuel'[p]][seat] : seat \in {0, 1}} \ {None}
        BY DEF Humans
      <4>1. playerToDuel'[p] = playerToDuel[p] /\ playerToDuel[p] # id /\ playerToDuel[p] \in DuelIds
        BY <2>1, <2>6
      <4> QED
        BY <2>4, <4>1 DEF DuelsPaired
    <3> QED
      BY <3>1, <3>2, <3>3 DEF DuelsPaired
  <2>9. DuelsShrink
    <3> SUFFICES ASSUME NEW p \in Players, playerToDuel'[p] # 0
                 PROVE  /\ playerToDuel'[p] = playerToDuel[p]
                        /\ {duelSeats'[playerToDuel'[p]][seat] : seat \in {0, 1}} \ {None}
                             = Humans(playerToDuel[p])
      BY DEF DuelsShrink, Humans
    <3>1. playerToDuel'[p] = playerToDuel[p] /\ playerToDuel[p] # id /\ playerToDuel[p] \in DuelIds
      BY <2>1, <2>6
    <3> QED
      BY <2>4, <3>1
  <2> QED
    BY <2>8, <2>9
<1> QED
  BY <1>1, <1>2 DEF DuelsMove

LEMMA CallFreeKept ==
    ASSUME ITypes, NEW c \in Frame, CallFree(c), UNCHANGED deck,
           \A p \in Players : playerToDuel'[p] \in {0, playerToDuel[p]},
           \A p \in Players : selected'[p] \in {None, selected[p]}
    PROVE  CallFree(c)'
<1>1. c.op \in {"selection", "soloGuard", "current"} => c.player \in Players
  BY KindOf DEF PlayerFrame, CurrentFrame
<1>2. c.op = "inviteSelected" => c.actor \in Players /\ c.target \in Players
  BY KindOf DEF InviteFrame
<1>3. c.op = "start" => \A seat \in {0, 1} : c.seats[seat] \in Players \cup {None}
  BY KindOf DEF StartFrame, Seating
<1> QED
  BY <1>1, <1>2, <1>3 DEF CallFree

LEMMA SelectionsKept ==
    ASSUME IDuels, NEW new, NEW kept, Makes(new, kept), kept \subseteq Calls, UNCHANGED deck,
           \A p \in Players : playerToDuel'[p] \in {0, playerToDuel[p]},
           selected' \in {selected, NoSelection},
           \A c \in new : CallFree(c)',
           \A c \in new : c.op \in {"selection", "current"} =>
             \E b \in new \cup kept : b.op \in Awaiting,
           \/ \A c \in Calls : c.op \in Awaiting => c \in kept
           \/ /\ selected' = NoSelection
              /\ \A c \in kept : c.op \notin {"selection", "current"}
    PROVE  SelectionsFree'
<1>1. ITypes /\ Calls \subseteq Frame /\ SelectionsFree
  BY CallsAreFrames DEF IDuels, IStarts, ICalls, IFlows
<1>2. \A p \in Players : selected'[p] \in {None, selected[p]}
  BY DEF NoSelection
<1> DEFINE calls == new \cup kept
<1>3. Calls' = calls
  BY DEF Makes, Calls
<1>4. \A p \in Players : selected'[p] # None => playerToDuel'[p] = 0 /\ selected'[p] = deck'[p]
  BY <1>1, <1>2 DEF SelectionsFree
<1>5. \A c \in calls : CallFree(c)'
  <2>1. \A c \in kept : CallFree(c)'
    BY <1>1, <1>2, CallFreeKept DEF SelectionsFree
  <2> QED
    BY <2>1
<1>6. (\E c \in calls : c.op \in Awaiting) \/ selected' = NoSelection'
  BY <1>1 DEF SelectionsFree, NoSelection
<1>7. \A c \in calls : c.op \in {"selection", "current"} => \E b \in calls : b.op \in Awaiting
  BY <1>1 DEF SelectionsFree
<1> HIDE DEF calls
<1> QED
  BY <1>3, <1>4, <1>5, <1>6, <1>7 DEF SelectionsFree

LEMMA FollowsKept ==
    ASSUME IStarts, [Next]_vars, NEW a \in Calls, NEW b \in Calls, b \in Calls', Follows(a, b),
           a.op = "selection" => deck'[a.player] = deck[a.player]
    PROVE  Follows(a, b)'
<1>1. CASE b.op \in {"startChecked", "finishStart"}
  <2> DEFINE f == b.flow
  <2>1. f \in LiveFlows /\ flow[f].mode = "STARTING" /\ f \in LiveFlows'
    BY <1>1, NextKeepsStarts DEF IStarts, StartsHold, StartOps
  <2>2. FlowStands(f)
    BY <2>1, FlowsStand
  <2>3. /\ flow'[f].challenger = flow[f].challenger /\ flow'[f].accepter = flow[f].accepter
        /\ flow'[f].prepared = flow[f].prepared /\ flow'[f].winner = flow[f].winner
    BY <2>1, <2>2 DEF FlowStands
  <2>4. /\ Pair(f)' = Pair(f) /\ Chooser(f)' = Chooser(f)
        /\ \A p : Prepared(f, p)' = Prepared(f, p)
        /\ \A g : FirstSeat(f, g)' = FirstSeat(f, g)
    BY <2>3 DEF Pair, Chooser, Prepared, FirstSeat
  <2> QED
    BY <1>1, <2>3, <2>4 DEF Follows
<1>2. CASE b.op \notin {"startChecked", "finishStart"}
  BY <1>2 DEF Follows
<1> QED
  BY <1>1, <1>2

LEMMA StartsFollowKept ==
    ASSUME IDuels, [Next]_vars, NEW new, NEW kept, Makes(new, kept), kept \subseteq Calls,
           \A a \in kept : a.op = "selection" => deck'[a.player] = deck[a.player],
           \A a \in new : \A b \in new \cup kept : Follows(a, b)',
           \A a \in kept : \A b \in new : Follows(a, b)',
           \A b \in new : FoundPrepared(b)',
           \A b \in kept : b.op = "startChecked" =>
             \A p \in Pair(b.flow) : selected'[p] # None =>
               \/ selected'[p] = selected[p] /\ deck'[p] = deck[p]
               \/ deck'[p] = Prepared(b.flow, p),
           \A a \in new \cup kept : a.op \in {"start", "setup"} =>
             \E b \in new \cup kept : b.op \in {"finishStart", "soloFinally"}
    PROVE  StartsFollow'
<1>1. StartsFollow /\ IStarts
  BY DEF IDuels
<1> DEFINE calls == new \cup kept
<1>2. Calls' = calls
  BY DEF Makes, Calls
<1>3. \A a \in kept : \A b \in kept : Follows(a, b)'
  <2>1. kept \subseteq Calls'
    BY <1>2
  <2> QED
    BY <1>1, <2>1, FollowsKept DEF StartsFollow
<1>4. \A a \in calls : \A b \in calls : Follows(a, b)'
  BY <1>3
<1>5. \A b \in kept : FoundPrepared(b)'
  <2> SUFFICES ASSUME NEW b \in kept, b.op = "startChecked" PROVE FoundPrepared(b)'
    BY DEF FoundPrepared
  <2>1. b.flow \in LiveFlows /\ flow[b.flow].mode = "STARTING" /\ b.flow \in LiveFlows'
    BY <1>1, <1>2, NextKeepsStarts DEF IStarts, StartsHold, StartOps
  <2>2. FlowStands(b.flow)
    BY <1>1, <2>1, FlowsStand
  <2>3. Pair(b.flow)' = Pair(b.flow) /\ \A p : Prepared(b.flow, p)' = Prepared(b.flow, p)
    BY <2>1, <2>2 DEF FlowStands, Pair, Prepared
  <2>4. FoundPrepared(b)
    BY <1>1 DEF StartsFollow
  <2> QED
    BY <2>3, <2>4 DEF FoundPrepared
<1>6. \A b \in calls : FoundPrepared(b)'
  BY <1>5
<1>7. \A a \in calls : a.op \in {"start", "setup"} => \E b \in calls : b.op \in {"finishStart", "soloFinally"}
  OBVIOUS
<1> HIDE DEF calls
<1> QED
  BY <1>2, <1>4, <1>6, <1>7 DEF StartsFollow

\* Nobody is put into a flow while a duel against the AI is starting.
LEMMA SoloAlone ==
    ASSUME IDuels, [Next]_vars
    PROVE  /\ \A p \in startingPlayers : flows'[p] = 0
           /\ \A c \in Calls : c.op = "soloGuard" => flows'[c.player] \in {0, flows[c.player]}
<1>1. CASE \A p \in Players : flows'[p] \in {0, flows[p]}
  <2>1. \A c \in Calls : c.op = "soloGuard" => c.player \in Players
    BY CallsAreFrames, KindOf DEF PlayerFrame, IDuels, IStarts, ICalls, IFlows
  <2>2. startingPlayers \subseteq Players
    BY DEF IDuels, IStarts, ICalls, IFlows, ITypes, TypeOK
  <2> QED
    BY <1>1, <2>1, <2>2 DEF IDuels, SoloHeld
<1>2. CASE stack # <<>> /\ Top.op = "inviteSelected"
  <2>1. Calls = {Top} \cup Below /\ \A c \in Below : c.op = "reply"
    BY <1>2, Pops, RoundAlone DEF Rounds, IDuels, IStarts
  <2> QED
    BY <1>2, <2>1 DEF IDuels, SoloHeld, SoloOps
<1> QED
  BY <1>1, <1>2, NewFlows DEF IDuels

\* The step leaves a player who asked for a duel against the AI without an
\* invitation, or makes the call that cancels it.
SoloFreed(c, new) ==
    \/ flows'[c.player] = 0
    \/ \E b \in new : b.op = "cancel" /\ b.actor = c.player /\ b.id = flows'[c.player]

LEMMA SoloKept ==
    ASSUME IDuels, [Next]_vars, NEW new, NEW kept, Makes(new, kept), kept \subseteq Calls,
           UNCHANGED startingPlayers,
           \A c \in new : c.op \notin SoloOps \cup {"soloChecked", "soloGuard"},
           \A c \in Calls : c.op \in SoloOps => c \in kept,
           \A c \in kept : c.op = "soloGuard" =>
             \/ SoloFreed(c, new)
             \/ \A d \in Calls : d.op \in {"cancel", "cancelOwn"} => d \in kept
    PROVE  SoloHeld'
<1>1. SoloHeld
  BY DEF IDuels
<1> DEFINE calls == new \cup kept
<1>2. Calls' = calls
  BY DEF Makes, Calls
<1>3. ASSUME NEW c \in calls, c.op = "soloGuard" PROVE SoloFree(c, calls)'
  <2>1. c \in kept /\ c \in Calls /\ flows'[c.player] \in {0, flows[c.player]}
    BY <1>3, SoloAlone
  <2>2. CASE \A d \in Calls : d.op \in {"cancel", "cancelOwn"} => d \in kept
    <3>1. SoloFree(c, Calls)
      BY <1>1, <2>1 DEF SoloHeld
    <3>2. \/ flows[c.player] = 0
          \/ \E b \in calls : b.op = "cancelOwn" /\ b.player = c.player
          \/ \E b \in calls : b.op = "cancel" /\ b.actor = c.player /\ b.id = flows[c.player]
      BY <1>3, <2>2, <3>1 DEF SoloFree
    <3> HIDE DEF calls
    <3> QED
      BY <1>2, <2>1, <3>2 DEF SoloFree
  <2>3. CASE SoloFreed(c, new)
    BY <2>3 DEF SoloFreed, SoloFree
  <2> QED
    BY <1>3, <2>1, <2>2, <2>3
<1>4. \A c \in calls : SoloFree(c, calls)'
  BY <1>3 DEF SoloFree
<1>5. \A c \in calls : c.op \in SoloOps => c.player \in startingPlayers
  BY <1>1 DEF SoloHeld
<1>6. \A p \in startingPlayers : \E c \in calls : c.op \in SoloOps /\ c.player = p
  BY <1>1 DEF SoloHeld
<1>7. \A c \in calls : c.op = "soloChecked" => \E b \in calls : b.op = "soloFinally" /\ b.player = c.player
  BY <1>1 DEF SoloHeld, SoloOps
<1>8. \A p \in startingPlayers : flows'[p] = 0
  BY SoloAlone
<1> HIDE DEF calls
<1>9. \A c \in Calls' : SoloFree(c, Calls)'
  BY <1>2, <1>4 DEF SoloFree
<1> QED
  BY <1>2, <1>5, <1>6, <1>7, <1>8, <1>9 DEF SoloHeld

LEMMA ApartKept ==
    ASSUME IDuels, [Next]_vars, startingPlayers' \subseteq startingPlayers, DuelsShrink
    PROVE  DuelsApart'
<1>1. DuelsApart /\ IStarts /\ IFlows
  BY DEF IDuels, IStarts, ICalls
<1>2. ASSUME NEW f \in LiveFlows', NEW p \in Pair(f)', playerToDuel'[p] # 0
      PROVE  flow'[f].mode = "STARTING" /\ (Humans(playerToDuel[p]))' = Pair(f)'
  <2>1. CASE f \in LiveFlows
    <3>1. FlowStands(f) /\ flow[f] \in Flow
      BY <1>1, <1>2, <2>1, FlowsStand, FlowTyped DEF LiveFlows, IFlows, ITypes
    <3>2. p \in Pair(f) /\ Pair(f)' = Pair(f) /\ p \in Players
      BY <3>1 DEF FlowStands, Pair, Flow
    <3>3. playerToDuel'[p] = playerToDuel[p] /\ (Humans(playerToDuel[p]))' = Humans(playerToDuel[p])
      BY <1>2, <3>2 DEF DuelsShrink
    <3>4. flow[f].mode = "STARTING" /\ Humans(playerToDuel[p]) = Pair(f)
      BY <1>1, <1>2, <2>1, <3>2, <3>3 DEF DuelsApart
    <3> QED
      BY <3>1, <3>2, <3>3, <3>4 DEF FlowStands
  <2>2. CASE /\ stack # <<>> /\ Top.op = "inviteSelected"
             /\ flow'[f] = NewFlow(Top.actor, Top.target, Top.now)
    <3>1. Top \in InviteFrame /\ Top \in Calls
      BY <1>1, <2>2, Pops, KindOfTop DEF IStarts
    <3>2. Top.actor \in Players /\ Top.target \in Players
      BY <3>1 DEF InviteFrame
    <3>3. playerToDuel[Top.actor] = 0 /\ playerToDuel[Top.target] = 0
      BY <2>2, <3>1 DEF IDuels, SelectionsFree, CallFree
    <3>4. p \in {Top.actor, Top.target}
      BY <2>2 DEF Pair, NewFlow
    <3> QED
      BY <1>2, <3>2, <3>3, <3>4 DEF DuelsShrink
  <2> QED
    BY <1>1, <1>2, <2>1, <2>2, NewFlows
<1>3. ASSUME NEW p \in startingPlayers', playerToDuel'[p] # 0
      PROVE  (Humans(playerToDuel[p]))' = {p}
  <2>1. p \in Players /\ p \in startingPlayers
    BY <1>1 DEF IFlows, ITypes, TypeOK
  <2> QED
    BY <1>1, <1>3, <2>1 DEF DuelsShrink, DuelsApart
<1> QED
  BY <1>2, <1>3 DEF DuelsApart

-----------------------------------------------------------------------------
(* The steps that start nothing *)

\* Calls that owe something to another call or to a variable.
TiedOps == {"selection", "current", "inviteSelected", "startPrepared", "startChecked",
            "finishStart", "start", "setup", "soloGuard", "soloSelected", "soloChecked",
            "soloFinally"}

LEMMA PlainKeeps ==
    ASSUME IDuels, [Next]_vars, NEW new, NEW kept, Makes(new, kept), kept \subseteq Calls,
           \A c \in new : c.op \notin TiedOps,
           DuelsMove, UNCHANGED <<deck, startingPlayers>>,
           \/ /\ selected' = selected
              /\ \A c \in Calls : c.op \in Awaiting => c \in kept
           \/ /\ selected' = NoSelection
              /\ \A c \in kept : c.op \notin {"selection", "current"},
           \/ \A c \in Calls : c.op \in {"finishStart", "soloFinally"} => c \in kept
           \/ \A c \in kept : c.op \notin {"start", "setup"},
           \A c \in Calls : c.op \in SoloOps => c \in kept,
           \/ \A c \in Calls : c.op \in {"cancel", "cancelOwn"} => c \in kept
           \/ \A c \in kept : c.op = "soloGuard" => SoloFreed(c, new)
    PROVE  DuelsKept
<1>1. ITypes /\ IStarts /\ IFlows /\ DuelsPaired
  BY DEF IDuels, IStarts, ICalls, IFlows
<1>2. DuelsPaired' /\ DuelsShrink
  BY <1>1, DuelsEnd
<1>3. \A p \in Players : playerToDuel'[p] \in {0, playerToDuel[p]}
  BY <1>2 DEF DuelsShrink
<1>4. SelectionsFree'
  <2>1. \A c \in new : CallFree(c)'
    BY DEF CallFree, TiedOps
  <2>2. \A c \in new : c.op \notin {"selection", "current"}
    BY DEF TiedOps
  <2> QED
    BY <1>3, <2>1, <2>2, SelectionsKept
<1>5. StartsFollow'
  <2>1. \A a \in new : \A b \in new \cup kept : Follows(a, b)'
    BY DEF Follows, TiedOps
  <2>2. \A a \in kept : \A b \in new : Follows(a, b)'
    BY DEF Follows, TiedOps
  <2>3. \A b \in new : FoundPrepared(b)'
    BY DEF FoundPrepared, TiedOps
  <2>4. ASSUME NEW b \in kept, b.op = "startChecked", NEW p \in Pair(b.flow), selected'[p] # None
        PROVE  selected'[p] = selected[p] /\ deck'[p] = deck[p]
    <3>1. b \in PreparedFrame(FlowIds)
      BY <1>1, <2>4, CallsAreFrames, KindOf
    <3>2. flow[b.flow] \in Flow
      BY <1>1, <3>1, FlowTyped DEF PreparedFrame, ITypes
    <3>3. p \in Players
      BY <2>4, <3>2 DEF Pair, Flow
    <3> QED
      BY <2>4, <3>3 DEF NoSelection
  <2>5. \A a \in new \cup kept : a.op \in {"start", "setup"} =>
          \E b \in new \cup kept : b.op \in {"finishStart", "soloFinally"}
    <3> SUFFICES ASSUME NEW a \in new \cup kept, a.op \in {"start", "setup"}
                 PROVE  \E b \in new \cup kept : b.op \in {"finishStart", "soloFinally"}
      OBVIOUS
    <3>1. a \in kept /\ a \in Calls
      BY DEF TiedOps
    <3>2. \E b \in Calls : b.op \in {"finishStart", "soloFinally"}
      BY <3>1 DEF IDuels, StartsFollow
    <3> QED
      BY <3>1, <3>2
  <2> QED
    BY <2>1, <2>2, <2>3, <2>4, <2>5, StartsFollowKept
<1>6. SoloHeld'
  <2>1. \A c \in new : c.op \notin SoloOps \cup {"soloChecked", "soloGuard"}
    BY DEF TiedOps, SoloOps
  <2> QED
    BY <2>1, SoloKept
<1>7. DuelsApart'
  BY <1>2, ApartKept
<1> QED
  BY <1>2, <1>4, <1>5, <1>6, <1>7 DEF DuelsKept

\* Calls that nothing depends on while they run.
LooseTop ==
    stack # <<>> /\ Top.op \notin Awaiting \cup SoloOps \cup {"finishStart", "cancel", "cancelOwn"}

LEMMA LooseKeeps ==
    ASSUME IDuels, [Next]_vars, NEW new, NEW kept, Makes(new, kept),
           kept = Calls \/ (kept = Below /\ LooseTop),
           \A c \in new : c.op \notin TiedOps,
           DuelsMove, UNCHANGED <<deck, startingPlayers, selected>>
    PROVE  DuelsKept
<1>1. \/ kept = Calls
      \/ kept = Below /\ LooseTop /\ Calls = {Top} \cup Below
  BY Pops DEF IDuels, IStarts, LooseTop
<1>2. /\ kept \subseteq Calls
      /\ \A c \in Calls : c.op \in Awaiting => c \in kept
      /\ \A c \in Calls : c.op \in {"finishStart", "soloFinally"} => c \in kept
      /\ \A c \in Calls : c.op \in SoloOps => c \in kept
      /\ \A c \in Calls : c.op \in {"cancel", "cancelOwn"} => c \in kept
  BY <1>1 DEF LooseTop, SoloOps
<1> QED
  BY <1>2, PlainKeeps

LEMMA LooseOver ==
    ASSUME IDuels, [Next]_vars, NEW new, Makes(new, Calls), \A c \in new : c.op \notin TiedOps,
           DuelsMove, UNCHANGED <<deck, startingPlayers, selected>>
    PROVE  DuelsKept
<1> DEFINE kept == Calls
<1>1. /\ Makes(new, kept) /\ kept \subseteq Calls
      /\ \A c \in Calls : c.op \in Awaiting => c \in kept
      /\ \A c \in Calls : c.op \in {"finishStart", "soloFinally"} => c \in kept
      /\ \A c \in Calls : c.op \in SoloOps => c \in kept
      /\ \A c \in Calls : c.op \in {"cancel", "cancelOwn"} => c \in kept
  OBVIOUS
<1>2. UNCHANGED <<deck, startingPlayers>> /\ selected' = selected
  OBVIOUS
<1> HIDE DEF kept
<1> QED
  BY <1>1, <1>2, PlainKeeps

\* What changed() and the sweeps of expire() leave on the stack is tied to nothing.
LEMMA NoticesLoose ==
    ASSUME NEW p, NEW q, NEW result
    PROVE  \A c \in Notices(p, q, result) : c.op \notin TiedOps
BY DEF Notices, ChangedCall, TiedOps

LEMMA LooseSame ==
    ASSUME UNCHANGED <<hostVars, managerVars>>
    PROVE  DuelsMove /\ UNCHANGED <<deck, startingPlayers>>
BY DEF hostVars, managerVars, DuelsMove

\* What the service leaves to the manager.
HostRests == UNCHANGED <<hostVars, managerVars, selected>>

LEMMA LooseEnds ==
    ASSUME IDuels, [Next]_vars, LooseTop, HostRests,
           Makes({}, Below) \/ \E f, result : FinishMakes(f, result, {})
    PROVE  DuelsKept
<1>1. DuelsMove /\ UNCHANGED <<deck, startingPlayers, selected>>
  BY LooseSame DEF HostRests
<1>2. CASE Makes({}, Below)
  <2>1. \A c \in {} : c.op \notin TiedOps
    OBVIOUS
  <2> QED
    BY <1>1, <1>2, <2>1, LooseKeeps
<1>3. ASSUME NEW f, NEW result, FinishMakes(f, result, {}) PROVE DuelsKept
  <2> DEFINE new == Notices(flow[f].challenger, flow[f].accepter, result) \cup {}
  <2>1. Makes(new, Below)
    BY <1>3 DEF FinishMakes
  <2>2. \A c \in new : c.op \notin TiedOps
    BY NoticesLoose
  <2> HIDE DEF new
  <2> QED
    BY <1>1, <2>1, <2>2, LooseKeeps
<1> QED
  BY <1>2, <1>3

LEMMA SweepKeepsDuels ==
    ASSUME IDuels, [Next]_vars, Sweep \/ SweepEnds, HostRests PROVE DuelsKept
<1>1. stack # <<>> /\ Top.op = "sweep" /\ LooseTop /\ ICalls
  BY DEF Sweep, SweepEnds, Running, LooseTop, Awaiting, SoloOps, IDuels, IStarts
<1>2. CASE SweepEnds
  BY <1>1, <1>2, ReturnCalls, LooseEnds DEF SweepEnds
<1>3. CASE Sweep
  <2>1. Top \in SweepFrame(FlowIds)
    BY <1>1, Pops, KindOfTop
  <2>2. PICK f \in Top.todo :
          LET left == [Top EXCEPT !.todo = @ \ {f}] IN
          \/ FinishMakes(f, "STALE", {left})
          \/ Makes({left}, Below)
    BY <1>1, <1>3, SweepCalls
  <2> DEFINE left == [Top EXCEPT !.todo = @ \ {f}]
             told == Notices(flow[f].challenger, flow[f].accepter, "STALE") \cup {left}
  <2>3. left.op = "sweep"
    BY <2>1 DEF SweepFrame
  <2>4. Makes(told, Below) \/ Makes({left}, Below)
    BY <2>2 DEF FinishMakes
  <2> HIDE DEF left
  <2>5. \A c \in told : c.op \notin TiedOps
    BY <2>3, NoticesLoose DEF TiedOps
  <2>6. \A c \in {left} : c.op \notin TiedOps
    BY <2>3 DEF TiedOps
  <2> HIDE DEF told
  <2> QED
    BY <1>1, <2>4, <2>5, <2>6, LooseSame, LooseKeeps DEF HostRests
<1> QED
  BY <1>2, <1>3

LEMMA AnswerKeepsDuels ==
    ASSUME IDuels, [Next]_vars, Decline \/ Hand \/ Logout, HostRests PROVE DuelsKept
<1>1. LooseTop /\ stack # <<>> /\ ICalls
  BY DEF Decline, Hand, Logout, Running, LooseTop, Awaiting, SoloOps, IDuels, IStarts
<1>2. CASE Decline
  BY <1>1, <1>2, DeclineCalls, LooseEnds
<1>3. CASE Logout
  BY <1>1, <1>3, LogoutCalls, LooseEnds
<1>4. CASE Hand
  <2> DEFINE told == Notices(flow[Top.id].challenger, flow[Top.id].accepter, "OK")
  <2>1. Makes({}, Below) \/ Makes(told, Below)
    BY <1>1, <1>4, HandCalls
  <2>2. \A c \in told : c.op \notin TiedOps
    BY NoticesLoose
  <2> HIDE DEF told
  <2> QED
    BY <1>1, <2>1, <2>2, LooseSame, LooseKeeps, LooseEnds DEF HostRests
<1> QED
  BY <1>2, <1>3, <1>4

LEMMA OutcomeKeepsDuels ==
    ASSUME IDuels, [Next]_vars, DuelEnded \/ StartFinished, HostRests PROVE DuelsKept
<1>1. LooseTop /\ stack # <<>> /\ ICalls
  BY DEF DuelEnded, StartFinished, Running, LooseTop, Awaiting, SoloOps, IDuels, IStarts
<1>2. PICK result : Makes({ChangedCall(Top.player, result)}, Below)
  BY <1>1, OutcomeCalls
<1>3. \A c \in {ChangedCall(Top.player, result)} : c.op \notin TiedOps
  BY DEF ChangedCall, TiedOps
<1> QED
  BY <1>1, <1>2, <1>3, LooseSame, LooseKeeps DEF HostRests

\* A cancellation before a duel against the AI frees the player of it.
LEMMA CancelKeepsDuels == ASSUME IDuels, [Next]_vars, Cancel, HostRests PROVE DuelsKept
<1>1. stack # <<>> /\ Top.op = "cancel" /\ ICalls
  BY DEF Cancel, Running, IDuels, IStarts
<1>2. Top \in AnswerFrame(FlowIds) /\ Calls = {Top} \cup Below /\ \A c \in Below : MayCover(Top, c)
  BY <1>1, Pops, KindOfTop
<1>3. Top.actor \in Players
  BY <1>2 DEF AnswerFrame
<1>4. ASSUME NEW c \in Below, c.op = "soloGuard"
      PROVE  c.player = Top.actor /\ (flows[c.player] = 0 \/ flows[c.player] = Top.id)
  <2>1. c.player = Top.actor
    BY <1>1, <1>2, <1>4 DEF MayCover
  <2>2. \A b \in Below : b.op \notin {"cancel", "cancelOwn"}
    BY <1>1, CancelAlone DEF IDuels
  <2>3. SoloFree(c, Calls)
    BY <1>2 DEF IDuels, SoloHeld
  <2>4. \/ flows[c.player] = 0
        \/ \E b \in Calls : b.op = "cancel" /\ b.actor = c.player /\ b.id = flows[c.player]
    BY <1>1, <1>2, <1>4, <2>2, <2>3 DEF SoloFree
  <2> QED
    BY <1>2, <2>1, <2>2, <2>4
<1> DEFINE told == Notices(flow[Top.id].challenger, flow[Top.id].accepter, "OK") \cup {}
<1>5. PICK new : /\ Makes(new, Below)
                 /\ \A c \in new : c.op \notin TiedOps
                 /\ flows[Top.actor] = Top.id => flows'[Top.actor] = 0
                 /\ flows[Top.actor] = 0 => flows'[Top.actor] = 0
  <2>1. Top.id \in FlowIds /\ Top.id # 0
    BY <1>2 DEF AnswerFrame, FlowIds
  <2>2. CASE flows[Top.actor] = Top.id
    <3>1. flow[Top.id].mode # "STARTING"
      BY <1>1, <1>3, <2>1, <2>2, HeldPair, CancelAlone DEF IDuels, ICalls
    <3>2. FinishMakes(Top.id, "OK", {})
      BY <1>1, <2>2, <3>1, CancelCalls
    <3>3. PICK rest : Finish(Top.id, "OK", rest)
      BY <3>2 DEF FinishMakes
    <3>4. flows'[Top.actor] = 0
      BY <1>1, <1>3, <2>1, <2>2, <3>3, LiveFinish DEF ICalls
    <3>5. Makes(told, Below)
      BY <3>2 DEF FinishMakes
    <3>6. \A c \in told : c.op \notin TiedOps
      BY NoticesLoose
    <3> HIDE DEF told
    <3> QED
      BY <2>1, <2>2, <3>4, <3>5, <3>6
  <2>3. CASE flows[Top.actor] # Top.id
    <3>1. UNCHANGED prepVars /\ Makes({}, Below)
      BY <1>1, <2>3, CancelCalls
    <3>2. \A c \in {} : c.op \notin TiedOps
      OBVIOUS
    <3> QED
      BY <2>3, <3>1, <3>2 DEF prepVars
  <2> QED
    BY <2>2, <2>3
<1>6. \A c \in Below : c.op = "soloGuard" => SoloFreed(c, new)
  BY <1>4, <1>5 DEF SoloFreed
<1>7. /\ Below \subseteq Calls
      /\ \A c \in Calls : c.op \in Awaiting => c \in Below
      /\ \A c \in Calls : c.op \in {"finishStart", "soloFinally"} => c \in Below
      /\ \A c \in Calls : c.op \in SoloOps => c \in Below
  BY <1>1, <1>2 DEF Awaiting, SoloOps
<1>8. DuelsMove /\ UNCHANGED <<deck, startingPlayers>> /\ selected' = selected
  BY LooseSame DEF HostRests
<1>9. Makes(new, Below) /\ \A c \in new : c.op \notin TiedOps
  BY <1>5
<1> QED
  BY <1>6, <1>7, <1>8, <1>9, PlainKeeps

LEMMA NotifyKeepsDuels == ASSUME IDuels, [Next]_vars, NotifyStep PROVE DuelsKept
<1>1. HostRests /\ ICalls
  BY DEF NotifyStep, HostRests, returns, IDuels, IStarts
<1>2. LooseTop /\ stack # <<>>
  BY DEF NotifyStep, Notify, Publish, Reply, Running, LooseTop, Awaiting, SoloOps
<1>3. CASE Notify
  <2> DEFINE publish == [Top EXCEPT !.op = "publish"]
             new == Due \cup {publish}
  <2>1. Top \in NoticeFrame
    BY <1>1, <1>3, Pops, KindOfTop DEF Notify, Running
  <2>2. publish.op = "publish"
    BY <2>1 DEF NoticeFrame
  <2>3. /\ \A c \in Due : c.op = "sweep"
        /\ Makes({}, Below) \/ Makes(new, Below)
    BY <1>1, <1>3, NotifyCalls
  <2> HIDE DEF publish
  <2>4. \A c \in new : c.op \notin TiedOps
    BY <2>2, <2>3 DEF TiedOps
  <2> HIDE DEF new
  <2> QED
    BY <1>1, <1>2, <2>3, <2>4, LooseSame, LooseKeeps, LooseEnds DEF HostRests
<1>4. CASE Publish \/ Reply
  BY <1>1, <1>2, <1>4, AnsweredCalls, LooseEnds
<1> QED
  BY <1>3, <1>4 DEF NotifyStep

\* Without an eligible deck the owner's opponent is told, and that is all.
LEMMA DenialKeepsDuels ==
    ASSUME IDuels, [Next]_vars, SelectionMissing \/ SelectionFails,
           UNCHANGED <<hostVars, activeDuels, duelSeats>>
    PROVE  DuelsKept
<1>1. ICalls /\ stack # <<>> /\ Denied /\ UNCHANGED <<deck, selected>> /\ LooseTop
  BY DEF SelectionMissing, SelectionFails, Denied, Running, LooseTop, Awaiting, SoloOps, IDuels, IStarts
<1>2. Makes(Due, Below) /\ \A c \in Due : c.op = "sweep"
  BY <1>1, DeniedCalls
<1>3. \A c \in Due : c.op \notin TiedOps
  BY <1>2 DEF TiedOps
<1>4. DuelsMove /\ UNCHANGED <<deck, startingPlayers, selected>>
  BY <1>1 DEF DuelsMove, hostVars
<1> QED
  BY <1>1, <1>2, <1>3, <1>4, LooseKeeps

LEMMA DropKeepsDuels == ASSUME IDuels, [Next]_vars, DropStep PROVE DuelsKept
<1>1. DuelsMove /\ UNCHANGED <<deck, startingPlayers, selected>> /\ ICalls
  BY DEF DropStep, DuelsMove, managerVars, returns, IDuels, IStarts
<1>2. PICK p : \/ Disconnect(p)
               \/ ListenerDisconnectsOwner /\ p = Top.player
  BY DEF DropStep
<1> DEFINE a == [op |-> "logout", player |-> p]
           b == [op |-> "leave", player |-> p]
<1>3. Makes({a, b}, Calls)
  BY <1>1, <1>2, DisconnectCalls, ListenerCalls, WaitingCalls DEF Disconnect
<1>4. \A c \in {a, b} : c.op \notin TiedOps
  BY DEF TiedOps
<1> HIDE DEF a, b
<1> QED
  BY <1>1, <1>3, <1>4, LooseOver

\* A duel ends as a whole, wherever its end is noticed.
LEMMA LeftKeepsDuels ==
    ASSUME IDuels, [Next]_vars, NEW id, FinishDuel(id, Rest), LooseTop,
           UNCHANGED <<startingPlayers, selected>>
    PROVE  DuelsKept
<1>1. ICalls /\ ITypes
  BY DEF IDuels, IStarts, ICalls, IFlows
<1>2. id \in DuelIds /\ EndDuel(id)
  BY <1>1 DEF FinishDuel, ITypes, TypeOK
<1>3. DuelsMove /\ UNCHANGED <<deck, startingPlayers, selected>>
  BY <1>2 DEF DuelsMove, EndDuel
<1>4. /\ Rest \in Seq(Frame) /\ Nested(Rest)
      /\ \A c \in CallsOf(Rest) : c.op \notin {"start", "setup"}
  BY <1>1, Pops DEF Below, LooseTop
<1>5. PICK new : Makes(new, CallsOf(Rest)) /\ \A c \in new : c.op = "duelEnded"
  BY <1>4, FinishDuelCalls
<1>6. Makes(new, Below) /\ \A c \in new : c.op \notin TiedOps
  BY <1>5 DEF Below, TiedOps
<1> QED
  BY <1>3, <1>6, LooseKeeps

LEMMA OverKeepsDuels ==
    ASSUME IDuels, [Next]_vars, NEW id, FinishDuel(id, <<>>), Waiting,
           UNCHANGED <<startingPlayers, selected>>
    PROVE  DuelsKept
<1>1. ITypes
  BY DEF IDuels, IStarts, ICalls, IFlows
<1>2. id \in DuelIds /\ EndDuel(id)
  BY <1>1 DEF FinishDuel, ITypes, TypeOK
<1>3. DuelsMove /\ UNCHANGED <<deck, startingPlayers, selected>>
  BY <1>2 DEF DuelsMove, EndDuel
<1>4. PICK new : Makes(new, CallsOf(<<>>)) /\ \A c \in new : c.op = "duelEnded"
  BY NothingNested, FinishDuelCalls
<1>5. Makes(new, Calls) /\ \A c \in new : c.op \notin TiedOps
  BY <1>4, NothingNested, WaitingCalls DEF TiedOps
<1> QED
  BY <1>3, <1>5, LooseOver

LEMMA AskedKeepsDuels ==
    ASSUME IDuels, [Next]_vars, Waiting, HostRests, NEW new, Makes(Due \cup new, {}),
           \A c \in Due : c.op = "sweep",
           \A c \in new : c.op \notin TiedOps
    PROVE  DuelsKept
<1> DEFINE all == Due \cup new
<1>1. \A c \in all : c.op \notin TiedOps
  BY DEF TiedOps
<1>2. Makes(all, Calls)
  BY WaitingCalls
<1> HIDE DEF all
<1> QED
  BY <1>1, <1>2, LooseSame, LooseOver DEF HostRests

\* The steps of DuelStep that install no duel.
DuelRuns ==
    \/ StartThrows /\ UNCHANGED <<managerVars, playerToDuel, client>>
    \/ SetupRuns \/ SetupCompletes \/ SetupThrows \/ Leave
    \/ \E id \in DuelIds : ResponseEndsDuel(id)
    \/ \E p \in Players : Forfeit(p)

LEMMA DuelRunsKeepsDuels ==
    ASSUME IDuels, [Next]_vars, DuelRuns, UNCHANGED <<prepVars, online, startingPlayers, selected>>
    PROVE  DuelsKept
<1>1. ICalls /\ ITypes
  BY DEF IDuels, IStarts, ICalls, IFlows
<1>2. ASSUME LooseTop, DuelsMove, UNCHANGED deck, Return PROVE DuelsKept
  <2>1. Makes({}, Below)
    BY <1>1, <1>2, ReturnCalls DEF LooseTop
  <2>2. \A c \in {} : c.op \notin TiedOps
    OBVIOUS
  <2> QED
    BY <1>2, <2>1, <2>2, LooseKeeps
<1>3. UNCHANGED <<managerVars, playerToDuel>> => DuelsMove /\ UNCHANGED deck
  BY DEF DuelsMove, managerVars
<1>4. CASE StartThrows /\ UNCHANGED <<managerVars, playerToDuel, client>>
  <2>1. LooseTop /\ Return
    BY <1>4 DEF StartThrows, Running, LooseTop, Awaiting, SoloOps
  <2> QED
    BY <1>2, <1>3, <1>4, <2>1
<1>5. CASE SetupRuns
  <2>1. LooseTop /\ Return /\ UNCHANGED <<managerVars, playerToDuel>>
    BY <1>5 DEF SetupRuns, Running, LooseTop, Awaiting, SoloOps
  <2> QED
    BY <1>2, <1>3, <2>1
<1>6. CASE SetupCompletes
  <2>1. LooseTop /\ FinishDuel(Top.duel, Rest)
    BY <1>6 DEF SetupCompletes, Running, LooseTop, Awaiting, SoloOps
  <2> QED
    BY <2>1, LeftKeepsDuels
<1>7. CASE SetupThrows
  <2>1. LooseTop /\ Return /\ EndDuel(Top.duel) /\ stack # <<>> /\ Top.op = "setup"
    BY <1>7 DEF SetupThrows, Running, LooseTop, Awaiting, SoloOps
  <2>2. Top \in SetupFrame(DuelIds)
    BY <1>1, <2>1, Pops, KindOfTop
  <2>3. Top.duel \in DuelIds
    BY <2>2 DEF SetupFrame
  <2>4. DuelsMove /\ UNCHANGED deck
    BY <2>1, <2>3 DEF DuelsMove, EndDuel
  <2> QED
    BY <1>2, <2>1, <2>4
<1>8. CASE Leave
  <2>1. LooseTop
    BY <1>8 DEF Leave, Running, LooseTop, Awaiting, SoloOps
  <2>2. CASE FinishDuel(playerToDuel[Top.player], Rest)
    BY <2>1, <2>2, LeftKeepsDuels
  <2>3. CASE Return /\ UNCHANGED <<managerVars, playerToDuel>>
    BY <1>2, <1>3, <2>1, <2>3
  <2> QED
    BY <1>8, <2>2, <2>3 DEF Leave
<1>9. CASE \E id \in DuelIds : ResponseEndsDuel(id)
  BY <1>9, OverKeepsDuels DEF ResponseEndsDuel
<1>10. ASSUME NEW p \in Players, Forfeit(p) PROVE DuelsKept
  <2>1. CASE FinishDuel(playerToDuel[p], <<>>)
    BY <1>10, <2>1, OverKeepsDuels DEF Forfeit
  <2>2. CASE /\ stack' = Expiry(clock) \o <<SoloCall("cancelOwn", p)>>
             /\ UNCHANGED <<managerVars, playerToDuel>>
    <3> DEFINE a == [op |-> "sweep"]
               b == SoloCall("cancelOwn", p)
    <3>1. a.op = "sweep" /\ b.op = "cancelOwn"
      BY DEF SoloCall
    <3>2. stack' = Expiry(clock) \o <<b>>
      BY <2>2
    <3> HIDE DEF a, b
    <3>3. MayCover(a, b)
      BY <3>1 DEF MayCover, QuietOps, Rounds, Lasts
    <3> DEFINE new == {b}
    <3>4. Makes(Due \cup new, {}) /\ \A c \in Due : c.op = "sweep"
      BY <1>1, <3>1, <3>2, <3>3, AskedCalls
    <3>5. \A c \in new : c.op \notin TiedOps
      BY <3>1 DEF TiedOps
    <3> HIDE DEF new
    <3>6. HostRests /\ Waiting
      BY <1>10, <2>2 DEF HostRests, hostVars, Forfeit
    <3> QED
      BY <3>4, <3>5, <3>6, AskedKeepsDuels
  <2> QED
    BY <1>10, <2>1, <2>2 DEF Forfeit
<1> QED
  BY <1>4, <1>5, <1>6, <1>7, <1>8, <1>9, <1>10 DEF DuelRuns

LEMMA ServeKeepsDuels ==
    ASSUME IDuels, [Next]_vars, HostRests, NEW command, command.op \in Commands, Serve(command)
    PROVE  DuelsKept
<1> DEFINE b == ReplyCall(command.actor)
           a == [op |-> "sweep"]
<1>1. b.op = "reply" /\ a.op = "sweep" /\ ITypes
  BY DEF ReplyCall, IDuels, IStarts, ICalls, IFlows
<1>2. Waiting /\ \/ stack' = Expiry(clock) \o <<command, b>>
                 \/ stack' = Expiry(clock) \o <<command>>
  BY DEF Serve, ServePacket, ServeChat, Admitted
<1> HIDE DEF a, b
<1>3. MayCover(command, b) /\ MayCover(a, command)
  BY <1>1 DEF MayCover, QuietOps, Rounds, Lasts, Commands
<1>4. command.op \notin TiedOps \cup {"start", "setup"} /\ b.op \notin TiedOps
  BY <1>1 DEF TiedOps, Commands
<1>5. \A c \in Due : c.op = "sweep"
  BY <1>1, <1>3, <1>4, AskedCalls
<1>6. CASE stack' = Expiry(clock) \o <<command, b>>
  <2> DEFINE new == {command, b}
  <2>1. Makes(Due \cup new, {})
    BY <1>1, <1>3, <1>4, <1>6, AskedCalls
  <2>2. \A c \in new : c.op \notin TiedOps
    BY <1>4
  <2> HIDE DEF new
  <2> QED
    BY <1>2, <1>5, <2>1, <2>2, AskedKeepsDuels
<1>7. CASE stack' = Expiry(clock) \o <<command>>
  <2> DEFINE new == {command}
  <2>1. Makes(Due \cup new, {})
    BY <1>1, <1>3, <1>4, <1>7, AskedCalls
  <2>2. \A c \in new : c.op \notin TiedOps
    BY <1>4
  <2> HIDE DEF new
  <2> QED
    BY <1>2, <1>5, <2>1, <2>2, AskedKeepsDuels
<1> QED
  BY <1>2, <1>6, <1>7

\* Whoever asks for a duel against the AI may still be in an invitation: the
\* cancellation of it is called first.
LEMMA RequestSoloKeepsDuels ==
    ASSUME IDuels, [Next]_vars, HostRests, NEW p \in Players, RequestSolo(p)
    PROVE  DuelsKept
<1> DEFINE a == SoloCall("cancelOwn", p)
           b == SoloCall("soloGuard", p)
           new == Due \cup {a, b}
<1>1. /\ a.op = "cancelOwn" /\ b.op = "soloGuard" /\ a.player = p /\ b.player = p
      /\ stack' = Expiry(clock) \o <<a, b>>
      /\ Waiting /\ ITypes /\ playerToDuel[p] = 0 /\ p \notin startingPlayers
  BY DEF RequestSolo, SoloCall, IsBusy, IDuels, IStarts, ICalls, IFlows
<1> HIDE DEF a, b
<1>2. MayCover(a, b)
  BY <1>1 DEF MayCover, QuietOps, Rounds, Lasts
<1>3. Makes(new, {}) /\ \A c \in Due : c.op = "sweep"
  BY <1>1, <1>2, AskedCalls
<1>4. \A c \in new : /\ c.op \in {"sweep", "cancelOwn", "soloGuard"}
                     /\ c.op = "soloGuard" => c = b
  BY <1>1, <1>3
<1>5. a \in new
  OBVIOUS
<1> HIDE DEF new
<1>6. Calls = {} /\ Calls' = new
  BY <1>1, <1>3, WaitingCalls DEF Makes, Calls
<1>7. /\ UNCHANGED <<deck, startingPlayers, selected, playerToDuel>> /\ DuelsMove
  BY LooseSame DEF HostRests, hostVars
<1>8. selected = NoSelection /\ startingPlayers = {}
  BY <1>6 DEF IDuels, SelectionsFree, SoloHeld
<1>9. SelectionsFree'
  <2>1. selected' = NoSelection'
    BY <1>7, <1>8 DEF NoSelection
  <2>2. \A q \in Players : selected'[q] = None
    BY <2>1 DEF NoSelection
  <2>3. \A c \in new : CallFree(c)'
    BY <1>1, <1>4, <1>7 DEF CallFree
  <2>4. \A c \in new : c.op \notin {"selection", "current"}
    BY <1>4
  <2> QED
    BY <1>6, <2>1, <2>2, <2>3, <2>4 DEF SelectionsFree
<1>10. StartsFollow'
  BY <1>4, <1>6 DEF StartsFollow, Follows, FoundPrepared
<1>11. SoloHeld'
  <2>1. startingPlayers' = {}
    BY <1>7, <1>8
  <2>2. \A c \in Calls' : SoloFree(c, Calls)'
    <3>1. a \in Calls'
      BY <1>5, <1>6
    <3>2. \A c \in Calls' : c.op = "soloGuard" => c.player = p
      BY <1>1, <1>4, <1>6
    <3> QED
      BY <1>1, <3>1, <3>2 DEF SoloFree
  <2>3. \A c \in new : c.op \notin SoloOps \cup {"soloChecked"}
    BY <1>4 DEF SoloOps
  <2> QED
    BY <1>6, <2>1, <2>2, <2>3 DEF SoloHeld
<1>12. DuelsPaired' /\ DuelsApart'
  BY <1>1, <1>7, DuelsEnd, ApartKept DEF IDuels
<1> QED
  BY <1>9, <1>10, <1>11, <1>12 DEF DuelsKept

LEMMA RequestKeepsDuels == ASSUME IDuels, [Next]_vars, Request PROVE DuelsKept
<1>1. HostRests /\ ITypes
  BY DEF Request, HostRests, returns, IDuels, IStarts, ICalls, IFlows
<1> DEFINE a == [op |-> "sweep"]
<1>2. a.op = "sweep"
  OBVIOUS
<1> HIDE DEF a
<1>3. CASE ServerTick
  <2> DEFINE b == [op |-> "reply"]
             new == {}
  <2>1. b.op = "reply" /\ Waiting /\ stack' = Expiry(clock)
    BY <1>3 DEF ServerTick
  <2> HIDE DEF b
  <2>2. MayCover(a, b)
    BY <1>2, <2>1 DEF MayCover, QuietOps, Rounds, Lasts
  <2>3. Makes(Due \cup new, {}) /\ \A c \in Due : c.op = "sweep"
    BY <1>1, <1>2, <2>1, <2>2, AskedCalls
  <2>4. \A c \in new : c.op \notin TiedOps
    OBVIOUS
  <2> HIDE DEF new
  <2> QED
    BY <1>1, <2>1, <2>3, <2>4, AskedKeepsDuels
<1>4. ASSUME NEW p, RequestView(p) PROVE DuelsKept
  <2> DEFINE b == ReplyCall(p)
             new == {b}
  <2>1. b.op = "reply" /\ Waiting /\ stack' = Expiry(clock) \o <<b>>
    BY <1>4 DEF RequestView, ReplyCall
  <2> HIDE DEF b
  <2>2. MayCover(a, b)
    BY <1>2, <2>1 DEF MayCover, QuietOps, Rounds, Lasts
  <2>3. Makes(Due \cup new, {}) /\ \A c \in Due : c.op = "sweep"
    BY <1>1, <1>2, <2>1, <2>2, AskedCalls
  <2>4. \A c \in new : c.op \notin TiedOps
    BY <2>1 DEF TiedOps
  <2> HIDE DEF new
  <2> QED
    BY <1>1, <2>1, <2>3, <2>4, AskedKeepsDuels
<1>5. ASSUME NEW p \in Players, RequestSolo(p) PROVE DuelsKept
  BY <1>1, <1>5, RequestSoloKeepsDuels
<1>6. ASSUME NEW p, NEW q, RequestInvite(p, q) PROVE DuelsKept
  BY <1>1, <1>6, ServeKeepsDuels DEF RequestInvite, Commands
<1>7. ASSUME NEW p, NEW f, NEW op \in {"accept", "decline", "cancel"}, RequestAnswer(op, p, f)
      PROVE  DuelsKept
  BY <1>1, <1>7, ServeKeepsDuels DEF RequestAnswer, Commands
<1>8. ASSUME NEW p, NEW f, NEW r, NEW h, RequestHand(p, f, r, h) PROVE DuelsKept
  BY <1>1, <1>8, ServeKeepsDuels DEF RequestHand, Commands
<1>9. ASSUME NEW p, NEW f, NEW goFirst, RequestFirst(p, f, goFirst) PROVE DuelsKept
  BY <1>1, <1>9, ServeKeepsDuels DEF RequestFirst, Commands
<1> QED
  BY <1>3, <1>4, <1>5, <1>6, <1>7, <1>8, <1>9 DEF Request

LEMMA IdleKeepsDuels ==
    ASSUME IDuels, [Next]_vars, ClockTicks \/ UNCHANGED vars PROVE DuelsKept
<1> DEFINE new == {}
<1>1. DuelsMove /\ UNCHANGED <<deck, startingPlayers, selected, stack>>
  BY DEF ClockTicks, vars, hostVars, managerVars, returns, DuelsMove
<1>2. Makes(new, Calls)
  BY <1>1 DEF Makes, Calls, IDuels, IStarts, ICalls
<1>3. \A c \in new : c.op \notin TiedOps
  OBVIOUS
<1> HIDE DEF new
<1> QED
  BY <1>1, <1>2, <1>3, LooseOver

-----------------------------------------------------------------------------
(* The steps of a request and of a start *)

\* A step that changes no duel and no deck.
LEMMA RestKeeps ==
    ASSUME IDuels, [Next]_vars, UNCHANGED <<hostVars, activeDuels, duelSeats>>
    PROVE  /\ DuelsPaired' /\ DuelsApart'
           /\ \A p \in Players : playerToDuel'[p] \in {0, playerToDuel[p]}
<1>1. DuelsMove /\ startingPlayers' = startingPlayers
  BY DEF DuelsMove, hostVars
<1>2. DuelsPaired' /\ DuelsShrink
  BY <1>1, DuelsEnd DEF IDuels, IStarts, ICalls, IFlows
<1> QED
  BY <1>1, <1>2, ApartKept DEF DuelsShrink

\* No start is going on among the calls that a step leaves.
LEMMA NothingFollows ==
    ASSUME NEW calls, Calls' = calls,
           \A c \in calls : c.op \notin {"startChecked", "finishStart", "soloFinally", "start", "setup"}
    PROVE  StartsFollow'
BY DEF StartsFollow, Follows, FoundPrepared

\* A request asks for decks of players who are in no duel.
LEMMA AskingKeeps ==
    ASSUME IDuels, [Next]_vars, HostRests, stack # <<>>, Top.op \in {"invite", "accept"},
           NEW new, Makes(new, Below),
           \A c \in new : c.op \in {"selection", "inviteSelected", "acceptSelected"},
           \E c \in new : c.op \in Awaiting,
           \A c \in new : c.op = "selection" => c.player \in Players /\ playerToDuel[c.player] = 0,
           \A c \in new : c.op = "inviteSelected" =>
             playerToDuel[c.actor] = 0 /\ playerToDuel[c.target] = 0
    PROVE  DuelsKept
<1>1. ICalls /\ UNCHANGED <<hostVars, activeDuels, duelSeats, deck, selected, playerToDuel,
                            startingPlayers>>
  BY DEF HostRests, hostVars, managerVars, IDuels, IStarts
<1>2. Calls = {Top} \cup Below /\ \A c \in Below : c.op = "reply"
  BY <1>1, Pops, RoundAlone DEF Rounds, IDuels
<1>3. selected = NoSelection
  BY <1>2 DEF IDuels, SelectionsFree, Awaiting
<1>4. Calls' = new \cup Below
  BY DEF Makes, Calls
<1>5. DuelsPaired' /\ DuelsApart' /\ \A p \in Players : playerToDuel'[p] \in {0, playerToDuel[p]}
  BY <1>1, RestKeeps
<1>6. \A c \in new : CallFree(c)'
  BY <1>1, <1>3 DEF CallFree, NoSelection
<1>7. SelectionsFree'
  <2>1. Below \subseteq Calls /\ \A c \in Calls : c.op \in Awaiting => c \in Below
    BY <1>2 DEF Awaiting
  <2>2. \A c \in new : c.op \in {"selection", "current"} => \E b \in new \cup Below : b.op \in Awaiting
    OBVIOUS
  <2>3. UNCHANGED deck /\ selected' \in {selected, NoSelection}
    BY <1>1
  <2> QED
    BY <1>5, <1>6, <2>1, <2>2, <2>3, SelectionsKept
<1>8. StartsFollow'
  <2>1. \A c \in new \cup Below :
          c.op \notin {"startChecked", "finishStart", "soloFinally", "start", "setup"}
    BY <1>2
  <2> QED
    BY <1>4, <2>1, NothingFollows
<1>9. SoloHeld'
  <2>1. Below \subseteq Calls /\ \A c \in Calls : c.op \in SoloOps => c \in Below
    BY <1>2 DEF SoloOps
  <2>2. \A c \in new : c.op \notin SoloOps \cup {"soloChecked", "soloGuard"}
    BY DEF SoloOps
  <2>3. UNCHANGED startingPlayers
    BY <1>1
  <2>4. \A c \in Below : c.op = "soloGuard" =>
          SoloFreed(c, new) \/ \A d \in Calls : d.op \in {"cancel", "cancelOwn"} => d \in Below
    BY <1>2
  <2> QED
    BY <2>1, <2>2, <2>3, <2>4, SoloKept
<1> QED
  BY <1>5, <1>7, <1>8, <1>9 DEF DuelsKept

LEMMA InviteKeepsDuels == ASSUME IDuels, [Next]_vars, Invite, HostRests PROVE DuelsKept
<1>1. stack # <<>> /\ Top.op = "invite" /\ LooseTop /\ ICalls
  BY DEF Invite, Running, LooseTop, Awaiting, SoloOps, IDuels, IStarts
<1>2. Top \in InviteFrame
  BY <1>1, Pops, KindOfTop
<1> DEFINE a == SelectionCall(Top.actor)
           b == [Top EXCEPT !.op = "inviteSelected"]
           new == {a, b}
<1>3. CASE Makes({}, Below)
  BY <1>1, <1>3, LooseEnds
<1>4. CASE Free(Top.actor) /\ Free(Top.target) /\ Makes(new, Below)
  <2>1. /\ a.op = "selection" /\ a.player = Top.actor
        /\ b.op = "inviteSelected" /\ b.actor = Top.actor /\ b.target = Top.target
        /\ Top.actor \in Players
    BY <1>2 DEF SelectionCall, InviteFrame
  <2>2. playerToDuel[Top.actor] = 0 /\ playerToDuel[Top.target] = 0
    BY <1>4 DEF Free, IsDueling
  <2> HIDE DEF a, b
  <2>3. /\ \A c \in new : c.op \in {"selection", "inviteSelected", "acceptSelected"}
        /\ \A c \in new : c.op = "selection" => c.player \in Players /\ playerToDuel[c.player] = 0
        /\ \A c \in new : c.op = "inviteSelected" =>
             playerToDuel[c.actor] = 0 /\ playerToDuel[c.target] = 0
        /\ \E c \in new : c.op \in Awaiting
    BY <2>1, <2>2 DEF Awaiting
  <2>4. Makes(new, Below)
    BY <1>4
  <2> HIDE DEF new
  <2> QED
    BY <1>1, <2>3, <2>4, AskingKeeps
<1> QED
  BY <1>1, <1>3, <1>4, InviteCalls

LEMMA AcceptKeepsDuels == ASSUME IDuels, [Next]_vars, Accept, HostRests PROVE DuelsKept
<1> DEFINE f == Top.id
           a == SelectionCall(flow[f].challenger)
           b == SelectionCall(flow[f].accepter)
           d == [Top EXCEPT !.op = "acceptSelected"]
           new == {a, b, d}
<1>1. stack # <<>> /\ Top.op = "accept" /\ LooseTop /\ ICalls
  BY DEF Accept, Running, LooseTop, Awaiting, SoloOps, IDuels, IStarts
<1>2. Top \in AnswerFrame(FlowIds)
  BY <1>1, Pops, KindOfTop
<1>3. CASE Makes({}, Below) \/ FinishMakes(f, Availability(f), {})
  BY <1>1, <1>3, LooseEnds
<1>4. CASE Availability(f) = "OK" /\ Makes(new, Below)
  <2>1. flow[f] \in Flow
    BY <1>1, <1>2, FlowTyped DEF AnswerFrame, ICalls, IFlows, ITypes
  <2>2. /\ a.op = "selection" /\ a.player = flow[f].challenger
        /\ b.op = "selection" /\ b.player = flow[f].accepter
        /\ d.op = "acceptSelected"
    BY <1>2 DEF SelectionCall, AnswerFrame
  <2>3. playerToDuel[flow[f].challenger] = 0 /\ playerToDuel[flow[f].accepter] = 0
    BY <1>4 DEF Availability, IsDueling
  <2>4. flow[f].challenger \in Players /\ flow[f].accepter \in Players
    BY <2>1 DEF Flow
  <2> HIDE DEF a, b, d
  <2>5. /\ \A c \in new : c.op \in {"selection", "inviteSelected", "acceptSelected"}
        /\ \A c \in new : c.op = "selection" => c.player \in Players /\ playerToDuel[c.player] = 0
        /\ \A c \in new : c.op = "inviteSelected" =>
             playerToDuel[c.actor] = 0 /\ playerToDuel[c.target] = 0
        /\ \E c \in new : c.op \in Awaiting
    BY <2>2, <2>3, <2>4 DEF Awaiting
  <2>6. Makes(new, Below)
    BY <1>4
  <2> HIDE DEF new
  <2> QED
    BY <1>1, <2>5, <2>6, AskingKeeps
<1> QED
  BY <1>1, <1>3, <1>4, AcceptCalls

\* The winner's choice: the start of the flow and what comes after it agree.
LEMMA FirstKeepsDuels == ASSUME IDuels, [Next]_vars, First, HostRests PROVE DuelsKept
<1> DEFINE f == Top.id
           told == Notices(flow[f].challenger, flow[f].accepter, "OK")
           a == [op |-> "startPrepared", flow |-> f, firstSeat |-> FirstSeat(f, Top.goFirst)]
           b == [op |-> "finishStart", flow |-> f, goFirst |-> Top.goFirst]
           new == told \cup {a, b}
<1>1. stack # <<>> /\ Top.op = "first" /\ LooseTop /\ ICalls
  BY DEF First, Running, LooseTop, Awaiting, SoloOps, IDuels, IStarts
<1>2. Top \in FirstFrame(FlowIds)
  BY <1>1, Pops, KindOfTop
<1>3. CASE Makes({}, Below) \/ FinishMakes(f, Availability(f), {})
  BY <1>1, <1>3, LooseEnds
<1>4. CASE flow' = [flow EXCEPT ![f].mode = "STARTING"] /\ Makes(new, Below)
  <2>1. f \in FlowIds /\ flow[f] \in Flow /\ flow \in Seq(Flow)
    BY <1>1, <1>2, FlowTyped DEF FirstFrame, ICalls, IFlows, ITypes, TypeOK
  <2>2. flow'[f].winner = flow[f].winner
    BY <1>4, <2>1 DEF FlowIds, Flow
  <2>3. /\ \A c \in told : c.op = "changed"
        /\ a.op = "startPrepared" /\ a.flow = f /\ a.firstSeat = FirstSeat(f, Top.goFirst)
        /\ b.op = "finishStart" /\ b.flow = f /\ b.goFirst = Top.goFirst
    BY DEF Notices, ChangedCall
  <2>4. Calls = {Top} \cup Below /\ \A c \in Below : c.op = "reply"
    BY <1>1, Pops, RoundAlone DEF Rounds, IDuels
  <2>5. \A c \in new : c = a \/ c = b \/ c.op = "changed"
    BY <2>3
  <2> HIDE DEF a, b, told
  <2>6. UNCHANGED <<hostVars, activeDuels, duelSeats>> /\ UNCHANGED <<deck, startingPlayers>>
        /\ selected' = selected
    BY DEF HostRests, hostVars, managerVars
  <2>7. DuelsPaired' /\ DuelsApart' /\ \A p \in Players : playerToDuel'[p] \in {0, playerToDuel[p]}
    BY <2>6, RestKeeps
  <2>8. Makes(new, Below)
    BY <1>4
  <2> HIDE DEF new
  <2>9. /\ Below \subseteq Calls
        /\ \A c \in Calls : c.op \in Awaiting => c \in Below
        /\ \A c \in Calls : c.op \in SoloOps => c \in Below
    BY <1>1, <2>4 DEF Awaiting, SoloOps
  <2>10. SelectionsFree'
    <3>1. \A c \in new : CallFree(c)'
      BY <2>3, <2>5 DEF CallFree
    <3>2. \A c \in new : c.op \notin {"selection", "current"}
      BY <2>3, <2>5
    <3> QED
      BY <2>6, <2>7, <2>8, <2>9, <3>1, <3>2, SelectionsKept
  <2>11. StartsFollow'
    <3>1. ASSUME NEW x \in new, NEW y \in new \cup Below PROVE Follows(x, y)'
      <4>1. y.op \in {"changed", "startPrepared", "finishStart", "reply"} /\ x.op # "start"
        BY <2>3, <2>4, <2>5
      <4>2. CASE x.op \in {"startPrepared", "startChecked"} /\ y.op = "finishStart"
        <5>1. x = a /\ y = b
          BY <2>3, <2>4, <2>5, <4>2
        <5>2. /\ flow'[y.flow].winner = flow[y.flow].winner
              /\ x.firstSeat = FirstSeat(y.flow, y.goFirst)
          BY <2>2, <2>3, <5>1
        <5> QED
          BY <4>1, <5>2 DEF Follows, FirstSeat
      <4> QED
        BY <4>1, <4>2 DEF Follows
    <3>2. \A x \in Below : \A y \in new : Follows(x, y)'
      BY <2>4 DEF Follows
    <3>3. \A y \in new : FoundPrepared(y)'
      BY <2>3, <2>5 DEF FoundPrepared
    <3>4. \A c \in Below : c.op = "reply"
      BY <2>4
    <3>5. \A x \in new \cup Below : x.op \notin {"start", "setup"}
      BY <2>3, <2>4, <2>5
    <3> QED
      BY <2>8, <2>9, <3>1, <3>2, <3>3, <3>4, <3>5, StartsFollowKept
  <2>12. SoloHeld'
    <3>1. \A c \in new : c.op \notin SoloOps \cup {"soloChecked", "soloGuard"}
      BY <2>3, <2>5 DEF SoloOps
    <3>2. \A c \in Below : c.op = "soloGuard" =>
            SoloFreed(c, new) \/ \A d \in Calls : d.op \in {"cancel", "cancelOwn"} => d \in Below
      BY <2>4
    <3> QED
      BY <2>6, <2>8, <2>9, <3>1, <3>2, SoloKept
  <2> QED
    BY <2>7, <2>10, <2>11, <2>12 DEF DuelsKept
<1> QED
  BY <1>1, <1>3, <1>4, FirstCalls

LEMMA ServiceStepKeepsDuels == ASSUME IDuels, [Next]_vars, ServiceStep PROVE DuelsKept
<1>1. HostRests
  BY DEF ServiceStep, HostRests, returns
<1> QED
  BY <1>1, SweepKeepsDuels, InviteKeepsDuels, AcceptKeepsDuels, AnswerKeepsDuels,
     CancelKeepsDuels, FirstKeepsDuels, OutcomeKeepsDuels DEF ServiceStep

\* A call that has read its selections leaves them behind, and the other way
\* round: nobody else waits for one while a request ends.
LEMMA ServiceResumesKeepsDuels ==
    ASSUME IDuels, [Next]_vars, ServiceResumes PROVE DuelsKept
<1>1. ICalls /\ stack # <<>> /\ Top.op \in {"inviteSelected", "acceptSelected", "finishStart"}
  BY DEF ServiceResumes, InviteSelected, AcceptSelected, FinishStart, Running, IDuels, IStarts
<1>2. Calls = {Top} \cup Below /\ \A c \in Below : c.op = "reply"
  BY <1>1, Pops, RoundAlone DEF Rounds, IDuels
<1>3. \/ Top.op \in {"inviteSelected", "acceptSelected"} /\ selected' = NoSelection
      \/ Top.op = "finishStart" /\ selected' = selected
  BY DEF ServiceResumes, InviteSelected, AcceptSelected, FinishStart, Running
<1>4. DuelsMove /\ UNCHANGED <<deck, startingPlayers>>
  BY LooseSame DEF ServiceResumes
<1>5. PICK new : Makes(new, Below) /\ \A c \in new : c.op \notin TiedOps
  <2>1. \A p, q, result : \A c \in Notices(p, q, result) \cup {} : c.op \notin TiedOps
    BY NoticesLoose
  <2>2. \A c \in {} : c.op \notin TiedOps
    OBVIOUS
  <2>3. CASE Makes({}, Below)
    BY <2>2, <2>3
  <2>4. ASSUME NEW p, NEW q, NEW result, Makes(Notices(p, q, result) \cup {}, Below)
        PROVE  \E new : Makes(new, Below) /\ \A c \in new : c.op \notin TiedOps
    BY <2>1, <2>4
  <2>5. ASSUME NEW p, NEW q, NEW result, Makes(Notices(p, q, result), Below)
        PROVE  \E new : Makes(new, Below) /\ \A c \in new : c.op \notin TiedOps
    BY NoticesLoose, <2>5
  <2>6. CASE InviteSelected
    BY <1>1, <2>3, <2>5, <2>6, InviteSelectedCalls
  <2>7. CASE AcceptSelected
    BY <1>1, <2>3, <2>5, <2>7, AcceptSelectedCalls
  <2>8. CASE FinishStart
    BY <1>1, <2>4, <2>8, FinishStartCalls DEF FinishMakes
  <2> QED
    BY <2>6, <2>7, <2>8 DEF ServiceResumes
<1>6. /\ Below \subseteq Calls
      /\ \A c \in Below : c.op \notin {"selection", "current"}
      /\ \A c \in Below : c.op \notin {"start", "setup"}
      /\ \A c \in Calls : c.op \in SoloOps => c \in Below
      /\ \A c \in Calls : c.op \in {"cancel", "cancelOwn"} => c \in Below
  BY <1>1, <1>2 DEF SoloOps
<1>7. Top.op = "finishStart" => \A c \in Calls : c.op \in Awaiting => c \in Below
  BY <1>2 DEF Awaiting
<1> QED
  BY <1>3, <1>4, <1>5, <1>6, <1>7, PlainKeeps

\* A step of a start that changes nothing but the selections and the stack.
CheckRests == UNCHANGED <<prepVars, hostVars, managerVars>>

LEMMA CancelOwnKeepsDuels ==
    ASSUME IDuels, [Next]_vars, CancelOwn, CheckRests, UNCHANGED selected PROVE DuelsKept
<1>1. ICalls /\ stack # <<>> /\ Top.op = "cancelOwn"
  BY DEF CancelOwn, Running, IDuels, IStarts
<1>2. Calls = {Top} \cup Below /\ \A c \in Below : MayCover(Top, c)
  BY <1>1, Pops
<1>3. \A c \in Below : c.op = "soloGuard" /\ c.player = Top.player
  BY <1>1, <1>2 DEF MayCover
<1>4. DuelsMove /\ UNCHANGED <<deck, startingPlayers>> /\ selected' = selected /\ flows' = flows
  BY LooseSame DEF CheckRests, prepVars
<1>5. /\ Below \subseteq Calls
      /\ \A c \in Calls : c.op \in Awaiting => c \in Below
      /\ \A c \in Below : c.op \notin {"start", "setup"}
      /\ \A c \in Calls : c.op \in SoloOps => c \in Below
  BY <1>1, <1>2, <1>3 DEF SoloOps, Awaiting
<1>6. CASE flows[Top.player] = 0 /\ Makes({}, Below)
  <2> DEFINE new == {}
  <2>1. \A c \in new : c.op \notin TiedOps
    OBVIOUS
  <2>2. Makes(new, Below)
    BY <1>6
  <2> HIDE DEF new
  <2>3. \A c \in Below : c.op = "soloGuard" => SoloFreed(c, new)
    BY <1>3, <1>4, <1>6 DEF SoloFreed
  <2> QED
    BY <1>4, <1>5, <2>1, <2>2, <2>3, PlainKeeps
<1>7. CASE /\ \A c \in Due : c.op = "sweep"
           /\ Makes(Due \cup {[op |-> "cancel", actor |-> Top.player, id |-> flows[Top.player],
                               now |-> clock]}, Below)
  <2> DEFINE a == [op |-> "cancel", actor |-> Top.player, id |-> flows[Top.player], now |-> clock]
             new == Due \cup {a}
  <2>1. a.op = "cancel" /\ a.actor = Top.player /\ a.id = flows[Top.player] /\ Makes(new, Below)
    BY <1>7
  <2> HIDE DEF a
  <2>2. \A c \in new : c.op \notin TiedOps
    BY <1>7, <2>1 DEF TiedOps
  <2>3. a \in new
    OBVIOUS
  <2> HIDE DEF new
  <2>4. \A c \in Below : c.op = "soloGuard" => SoloFreed(c, new)
    BY <1>3, <1>4, <2>1, <2>3 DEF SoloFreed
  <2> QED
    BY <1>4, <1>5, <2>1, <2>2, <2>4, PlainKeeps
<1> QED
  BY <1>1, <1>6, <1>7, CancelOwnCalls

LEMMA FollowsSame ==
    ASSUME UNCHANGED <<flow, deck>>, NEW a, NEW b PROVE Follows(a, b)' <=> Follows(a, b)
<1>1. flow' = flow /\ deck' = deck
  OBVIOUS
<1>2. /\ \A f : Pair(f)' = Pair(f) /\ Chooser(f)' = Chooser(f)
      /\ \A f, p : Prepared(f, p)' = Prepared(f, p) /\ FirstSeat(f, p)' = FirstSeat(f, p)
  BY <1>1 DEF Pair, Chooser, Prepared, FirstSeat
<1> QED
  BY <1>1, <1>2 DEF Follows

LEMMA CheckKeeps ==
    ASSUME IDuels, [Next]_vars, CheckRests, NEW new, Makes(new, Below), Below \subseteq Calls,
           selected' \in {selected, NoSelection},
           \A c \in new : CallFree(c)',
           \A c \in new : c.op \in {"selection", "current"} =>
             \E b \in new \cup Below : b.op \in Awaiting,
           \/ \A c \in Calls : c.op \in Awaiting => c \in Below
           \/ /\ selected' = NoSelection
              /\ \A c \in Below : c.op \notin {"selection", "current"},
           \A a \in new : \A b \in new \cup Below : Follows(a, b),
           \A a \in Below : \A b \in new : Follows(a, b),
           \A b \in new : FoundPrepared(b)',
           \A a \in new \cup Below : a.op \in {"start", "setup"} =>
             \E b \in new \cup Below : b.op \in {"finishStart", "soloFinally"},
           SoloHeld'
    PROVE  DuelsKept
<1>1. /\ UNCHANGED <<flow, deck, startingPlayers>> /\ UNCHANGED <<hostVars, activeDuels, duelSeats>>
      /\ ITypes /\ IStarts
  BY DEF CheckRests, prepVars, hostVars, managerVars, IDuels, IStarts, ICalls, IFlows
<1>2. DuelsPaired' /\ DuelsApart' /\ \A p \in Players : playerToDuel'[p] \in {0, playerToDuel[p]}
  BY <1>1, RestKeeps
<1>3. SelectionsFree'
  <2>1. UNCHANGED deck
    BY <1>1
  <2> QED
    BY <1>2, <2>1, SelectionsKept
<1>4. StartsFollow'
  <2>1. /\ \A a \in new : \A b \in new \cup Below : Follows(a, b)'
        /\ \A a \in Below : \A b \in new : Follows(a, b)'
    BY <1>1, FollowsSame
  <2>2. ASSUME NEW b \in Below, b.op = "startChecked", NEW p \in Pair(b.flow), selected'[p] # None
        PROVE  selected'[p] = selected[p] /\ deck'[p] = deck[p]
    <3>1. b \in PreparedFrame(FlowIds)
      BY <1>1, <2>2, CallsAreFrames, KindOf
    <3>2. flow[b.flow] \in Flow
      BY <1>1, <3>1, FlowTyped DEF PreparedFrame, ITypes
    <3>3. p \in Players
      BY <2>2, <3>2 DEF Pair, Flow
    <3> QED
      BY <1>1, <2>2, <3>3 DEF NoSelection
  <2>3. \A a \in Below : a.op = "selection" => deck'[a.player] = deck[a.player]
    BY <1>1
  <2> QED
    BY <2>1, <2>2, <2>3, StartsFollowKept
<1> QED
  BY <1>2, <1>3, <1>4 DEF DuelsKept

LEMMA SoloRests ==
    ASSUME IDuels, [Next]_vars, CheckRests, NEW new, Makes(new, Below), Calls = {Top} \cup Below,
           Top.op \notin SoloOps \cup {"cancel", "cancelOwn"},
           \A c \in new : c.op \notin SoloOps \cup {"soloChecked", "soloGuard"}
    PROVE  SoloHeld'
<1>1. UNCHANGED startingPlayers
  BY DEF CheckRests, hostVars
<1>2. /\ Below \subseteq Calls
      /\ \A c \in Calls : c.op \in SoloOps => c \in Below
      /\ \A c \in Calls : c.op \in {"cancel", "cancelOwn"} => c \in Below
  OBVIOUS
<1> QED
  BY <1>1, <1>2, SoloKept

LEMMA CurrentKeepsDuels ==
    ASSUME IDuels, [Next]_vars, Current, CheckRests, UNCHANGED selected PROVE DuelsKept
<1>1. ICalls /\ ITypes /\ stack # <<>> /\ Top.op = "current" /\ LooseTop
  BY DEF Current, Running, LooseTop, Awaiting, SoloOps, IDuels, IStarts, ICalls, IFlows
<1>2. /\ Top \in CurrentFrame /\ Calls = {Top} \cup Below
      /\ \A c \in Below : MayCover(Top, c) /\ c.op \notin {"start", "setup"}
  BY <1>1, Pops, KindOfTop
<1>3. UNCHANGED <<deck, playerToDuel, selected, flow>> /\ HostRests
  BY DEF CheckRests, prepVars, hostVars, managerVars, HostRests
<1>4. CASE Makes({}, Below)
  BY <1>1, <1>3, <1>4, LooseEnds
<1>5. CASE /\ playerToDuel[Top.player] = 0 /\ deck[Top.player] = Top.deck
           /\ Makes({SelectionCall(Top.player)}, Below)
  <2> DEFINE a == SelectionCall(Top.player)
             new == {a}
  <2>1. a.op = "selection" /\ a.player = Top.player /\ Makes(new, Below)
    BY <1>5 DEF SelectionCall
  <2> HIDE DEF a
  <2>2. CallFree(Top) /\ \E b \in Calls : b.op \in Awaiting
    BY <1>1, <1>2 DEF IDuels, SelectionsFree
  <2>3. selected[Top.player] = None
    BY <1>1, <2>2 DEF CallFree
  <2>4. \A c \in new : CallFree(c)'
    <3>1. \A c \in new : c.op = "selection" /\ playerToDuel'[c.player] = 0 /\ selected'[c.player] = None
      BY <1>3, <1>5, <2>1, <2>3
    <3> QED
      BY <3>1 DEF CallFree
  <2>5. \E b \in new \cup Below : b.op \in Awaiting
    BY <1>1, <1>2, <2>2 DEF Awaiting
  <2>6. ASSUME NEW b \in Below PROVE Follows(a, b)
    <3>1. Follows(Top, b)
      BY <1>2 DEF IDuels, StartsFollow
    <3> QED
      BY <1>1, <1>5, <2>1, <3>1 DEF Follows
  <2>7. \A c \in new : c = a
    OBVIOUS
  <2>8. \A c \in new : \A b \in new \cup Below : Follows(c, b)
    <3>1. Follows(a, a)
      BY <2>1 DEF Follows
    <3> QED
      BY <2>6, <2>7, <3>1
  <2>9. \A c \in Below : \A b \in new : Follows(c, b)
    BY <2>1, <2>7 DEF Follows
  <2>10. \A b \in new : FoundPrepared(b)'
    BY <2>1, <2>7 DEF FoundPrepared
  <2>11. \A c \in new \cup Below : c.op \notin {"start", "setup"}
    BY <1>2, <2>1
  <2>12. \A c \in new : c.op \notin SoloOps \cup {"soloChecked", "soloGuard"}
    BY <2>1, <2>7 DEF SoloOps
  <2> HIDE DEF new
  <2>13. SoloHeld'
    BY <1>1, <1>2, <2>1, <2>12, SoloRests DEF SoloOps
  <2>14. \A c \in Calls : c.op \in Awaiting => c \in Below
    BY <1>1, <1>2 DEF Awaiting
  <2>15. selected' = selected /\ Below \subseteq Calls
    BY <1>2, <1>3
  <2> QED
    BY <2>1, <2>4, <2>5, <2>8, <2>9, <2>10, <2>11, <2>13, <2>14, <2>15, CheckKeeps
<1> QED
  BY <1>1, <1>4, <1>5, CurrentCalls

LEMMA StartPreparedKeepsDuels ==
    ASSUME IDuels, [Next]_vars, StartPrepared, CheckRests, UNCHANGED selected PROVE DuelsKept
<1>1. ICalls /\ IFlows /\ ITypes /\ stack # <<>> /\ Top.op = "startPrepared"
  BY DEF StartPrepared, Running, IDuels, IStarts, ICalls, IFlows
<1>2. /\ Top \in PreparedFrame(FlowIds) /\ Calls = {Top} \cup Below
      /\ \A c \in Below : MayCover(Top, c)
  BY <1>1, Pops, KindOfTop
<1>3. \A c \in Below : \/ c.op = "reply"
                       \/ c.op = "finishStart" /\ c.flow = Top.flow
  BY <1>1, <1>2 DEF MayCover
<1> DEFINE f == Top.flow
           p == flow[f].challenger
           q == flow[f].accepter
<1>4. f \in FlowIds /\ f \in LiveFlows /\ flow[f] \in Flow
  <2>1. f \in FlowIds
    BY <1>2 DEF PreparedFrame
  <2>2. f \in LiveFlows
    BY <1>1, <1>2 DEF IDuels, IStarts, StartsHold, StartOps
  <2> QED
    BY <1>1, <2>1, <2>2, FlowTyped DEF ITypes
<1>5. p \in Players /\ q \in Players /\ p # q /\ Pair(f) = {p, q}
  <2>1. p \in Players /\ q \in Players
    BY <1>4 DEF Flow
  <2>2. flows[p] = f
    BY <1>4 DEF LiveFlows
  <2> QED
    BY <1>1, <1>4, <2>1, <2>2, HeldPair DEF Pair
<1>6. selected = NoSelection /\ selected' = selected
  BY <1>1, <1>2, <1>3 DEF IDuels, SelectionsFree, Awaiting
<1> DEFINE a == CurrentCall(p, flow[f].prepared.challenger)
           b == CurrentCall(q, flow[f].prepared.accepter)
           d == [Top EXCEPT !.op = "startChecked"]
           new == {a, b, d}
<1>7. /\ a.op = "current" /\ a.player = p /\ a.deck = Prepared(f, p)
      /\ b.op = "current" /\ b.player = q /\ b.deck = Prepared(f, q)
      /\ d.op = "startChecked" /\ d.flow = f /\ d.firstSeat = Top.firstSeat
  BY <1>2, <1>5 DEF CurrentCall, PreparedFrame, Prepared
<1>8. Makes(new, Below)
  BY <1>1, <1>5, StartPreparedCalls
<1> HIDE DEF a, b, d, p, q
<1>9. \A c \in new : c = a \/ c = b \/ c = d
  OBVIOUS
<1>10. \E c \in new \cup Below : c.op \in Awaiting
  BY <1>7 DEF Awaiting
<1> HIDE DEF new
<1>11. \A c \in new : CallFree(c)'
  <2>1. \A c \in new : c.op \in {"current", "startChecked"} /\ (c.op = "current" => c.player \in Players)
    BY <1>5, <1>7, <1>9
  <2>2. \A x \in Players : selected'[x] = None
    BY <1>6 DEF NoSelection
  <2> QED
    BY <2>1, <2>2 DEF CallFree
<1>12. \A x \in new : \A y \in new \cup Below : Follows(x, y)
  <2>1. Follows(a, d) /\ Follows(b, d)
    BY <1>5, <1>7 DEF Follows
  <2>2. ASSUME NEW y \in Below PROVE Follows(d, y)
    <3>1. Follows(Top, y)
      BY <1>2 DEF IDuels, StartsFollow
    <3>2. y.op \in {"reply", "finishStart"}
      BY <1>3
    <3> QED
      BY <1>1, <1>7, <3>1, <3>2 DEF Follows
  <2>3. \A x \in new : \A y \in new \cup Below : y.op \in {"current", "reply"} => Follows(x, y)
    BY DEF Follows
  <2>4. \A x \in {a, b} : \A y \in Below : Follows(x, y)
    <3>1. \A x \in {a, b} : x.op = "current"
      BY <1>7
    <3>2. \A y \in Below : y.op \in {"reply", "finishStart"}
      BY <1>3
    <3> QED
      BY <3>1, <3>2 DEF Follows
  <2>5. Follows(d, d)
    BY <1>7 DEF Follows
  <2> QED
    BY <1>7, <1>9, <2>1, <2>2, <2>3, <2>4, <2>5
<1>13. \A x \in Below : \A y \in new : Follows(x, y)
  <2>1. \A x \in Below : x.op \in {"reply", "finishStart"}
    BY <1>3
  <2>2. \A y \in new : y.op \in {"current", "startChecked"}
    BY <1>7, <1>9
  <2> QED
    BY <2>1, <2>2 DEF Follows
<1>14. \A y \in new : FoundPrepared(y)'
  <2>1. flow' = flow
    BY DEF CheckRests, prepVars
  <2>2. ASSUME NEW y \in new, y.op = "startChecked", NEW x \in Pair(y.flow)' PROVE selected'[x] = None
    <3>1. y.flow = f
      BY <1>7, <1>9, <2>2
    <3>2. x \in {p, q}
      BY <1>5, <2>1, <2>2, <3>1 DEF Pair
    <3> QED
      BY <1>5, <1>6, <3>2 DEF NoSelection
  <2> QED
    BY <2>2 DEF FoundPrepared
<1>15. \A c \in new \cup Below : c.op \notin {"start", "setup"}
  BY <1>3, <1>7, <1>9
<1>16. SoloHeld'
  <2>1. \A c \in new : c.op \notin SoloOps \cup {"soloChecked", "soloGuard"}
    BY <1>7, <1>9 DEF SoloOps
  <2> QED
    BY <1>1, <1>2, <1>8, <2>1, SoloRests DEF SoloOps
<1>17. Below \subseteq Calls /\ \A c \in Calls : c.op \in Awaiting => c \in Below
  BY <1>1, <1>2 DEF Awaiting
<1> QED
  BY <1>6, <1>8, <1>10, <1>11, <1>12, <1>13, <1>14, <1>15, <1>16, <1>17, CheckKeeps

\* The check of both decks found the ones that were prepared: the duel starts
\* with them, in the seats the winner chose.
LEMMA StartCheckedKeepsDuels ==
    ASSUME IDuels, [Next]_vars, StartChecked, CheckRests PROVE DuelsKept
<1>1. ICalls /\ IFlows /\ ITypes /\ stack # <<>> /\ Top.op = "startChecked"
  BY DEF StartChecked, Running, IDuels, IStarts, ICalls, IFlows
<1>2. /\ Top \in PreparedFrame(FlowIds) /\ Calls = {Top} \cup Below
      /\ \A c \in Below : MayCover(Top, c)
  BY <1>1, Pops, KindOfTop
<1> DEFINE f == Top.flow
           p == flow[f].challenger
           q == flow[f].accepter
<1>3. \A c \in Below : \/ c.op = "reply"
                       \/ c.op = "finishStart" /\ c.flow = f
  BY <1>1, <1>2 DEF MayCover
<1>4. f \in FlowIds /\ f \in LiveFlows /\ flow[f] \in Flow /\ flow[f].mode = "STARTING"
  <2>1. f \in FlowIds
    BY <1>2 DEF PreparedFrame
  <2>2. f \in LiveFlows /\ flow[f].mode = "STARTING"
    BY <1>1, <1>2 DEF IDuels, IStarts, StartsHold, StartOps
  <2> QED
    BY <1>1, <2>1, <2>2, FlowTyped DEF ITypes
<1>5. p \in Players /\ q \in Players /\ p # q /\ Pair(f) = {p, q}
  <2>1. p \in Players /\ q \in Players
    BY <1>4 DEF Flow
  <2>2. flows[p] = f
    BY <1>4 DEF LiveFlows
  <2> QED
    BY <1>1, <1>4, <2>1, <2>2, HeldPair DEF Pair
<1>6. /\ DuelsMove /\ UNCHANGED <<deck, startingPlayers, playerToDuel>>
      /\ selected' = NoSelection
  BY LooseSame DEF CheckRests, StartChecked, hostVars
<1>7. /\ Below \subseteq Calls
      /\ \A c \in Below : c.op \notin {"selection", "current", "start", "setup"}
      /\ \A c \in Calls : c.op \in SoloOps => c \in Below
      /\ \A c \in Calls : c.op \in {"cancel", "cancelOwn"} => c \in Below
  BY <1>1, <1>2, <1>3 DEF SoloOps
<1>8. CASE Makes({}, Below)
  <2> DEFINE new == {}
  <2>1. Makes(new, Below) /\ \A c \in new : c.op \notin TiedOps
    BY <1>8
  <2> HIDE DEF new
  <2> QED
    BY <1>6, <1>7, <2>1, PlainKeeps
<1>9. CASE selected[p] # None /\ selected[q] # None /\ Makes({StartOf(Top)}, Below)
  <2> DEFINE a == StartOf(Top)
             new == {a}
  <2>1. /\ a.op = "start"
        /\ a.seats = IF Top.firstSeat = 0 THEN Seats(p, q) ELSE Seats(q, p)
        /\ a.decks = IF Top.firstSeat = 0
                     THEN Seats(flow[f].prepared.challenger, flow[f].prepared.accepter)
                     ELSE Seats(flow[f].prepared.accepter, flow[f].prepared.challenger)
    BY DEF StartOf, StartCall
  <2>2. Makes(new, Below)
    BY <1>9
  <2> HIDE DEF a
  <2>3. /\ Top.firstSeat = 0 => /\ a.seats[0] = p /\ a.seats[1] = q
                                /\ a.decks[0] = Prepared(f, p) /\ a.decks[1] = Prepared(f, q)
        /\ Top.firstSeat # 0 => /\ a.seats[0] = q /\ a.seats[1] = p
                                /\ a.decks[0] = Prepared(f, q) /\ a.decks[1] = Prepared(f, p)
    BY <1>5, <2>1 DEF Seats, Prepared
  <2>4. \A x \in {p, q} : playerToDuel[x] = 0 /\ deck[x] = Prepared(f, x)
    <3>1. FoundPrepared(Top)
      BY <1>2 DEF IDuels, StartsFollow
    <3>2. \A x \in {p, q} : selected[x] # None /\ x \in Players
      BY <1>5, <1>9
    <3> QED
      BY <1>1, <1>5, <3>1, <3>2 DEF FoundPrepared, IDuels, SelectionsFree
  <2>5. \A c \in new : c = a
    OBVIOUS
  <2>6. \A c \in new : CallFree(c)'
    <3>1. \A seat \in {0, 1} : /\ playerToDuel[a.seats[seat]] = 0
                               /\ a.decks[seat] = deck[a.seats[seat]]
      BY <2>3, <2>4
    <3>2. \A seat \in {0, 1} : /\ playerToDuel'[a.seats[seat]] = 0
                               /\ a.decks[seat] = deck'[a.seats[seat]]
      BY <1>6, <3>1
    <3>3. ASSUME NEW c \in new PROVE CallFree(c)'
      <4>1. /\ c.op = "start"
            /\ \A seat \in {0, 1} : /\ playerToDuel'[c.seats[seat]] = 0
                                    /\ c.decks[seat] = deck'[c.seats[seat]]
        BY <2>1, <2>5, <3>2
      <4> QED
        BY <4>1 DEF CallFree
    <3> QED
      BY <3>3
  <2>7. PICK b \in Below : b.op = "finishStart" /\ b.flow = f
    BY <1>1, <1>2 DEF IDuels, IStarts, StartsHold, StartOps
  <2>8. ASSUME NEW c \in Below PROVE Follows(a, c)
    <3>1. CASE c.op = "finishStart"
      <4>1. c.flow = f /\ Follows(Top, c)
        BY <1>2, <1>3, <3>1 DEF IDuels, StartsFollow
      <4>2. Top.firstSeat = FirstSeat(f, c.goFirst)
        BY <1>1, <3>1, <4>1 DEF Follows
      <4>3. flow[f].winner \in {0, 1}
        <5>1. RollWon(flow[f]) /\ flow[f].winner \in {-1, 0, 1}
          BY <1>4 DEF IDuels, IStarts, RollsWon, Flow
        <5> QED
          BY <1>4, <5>1 DEF RollWon, TIE
      <4>4. c.goFirst \in BOOLEAN
        <5>1. c \in FinishFrame(FlowIds)
          BY <1>1, <1>2, <3>1, CallsAreFrames, KindOf
        <5> QED
          BY <5>1 DEF FinishFrame
      <4>5. Chooser(f) = IF flow[f].winner = 0 THEN p ELSE q
        BY DEF Chooser
      <4> HIDE DEF p, q
      <4>6. c.goFirst <=> a.seats[0] = Chooser(f)
        <5>1. Top.firstSeat = IF c.goFirst THEN flow[f].winner ELSE 1 - flow[f].winner
          BY <4>2 DEF FirstSeat
        <5>2. CASE flow[f].winner = 0
          BY <1>5, <2>3, <4>4, <4>5, <5>1, <5>2
        <5>3. CASE flow[f].winner = 1
          BY <1>5, <2>3, <4>4, <4>5, <5>1, <5>3
        <5> QED
          BY <4>3, <5>2, <5>3
      <4>7. {a.seats[0], a.seats[1]} = Pair(f)
        BY <1>5, <2>3
      <4>8. a.decks = IF a.seats[0] = p
                      THEN Seats(flow[f].prepared.challenger, flow[f].prepared.accepter)
                      ELSE Seats(flow[f].prepared.accepter, flow[f].prepared.challenger)
        BY <1>5, <2>1, <2>3
      <4> QED
        BY <2>1, <3>1, <4>1, <4>6, <4>7, <4>8 DEF Follows, p
    <3>2. CASE c.op = "reply"
      BY <2>1, <3>2 DEF Follows
    <3> QED
      BY <1>3, <3>1, <3>2
  <2>9. \A x \in new : \A y \in new \cup Below : Follows(x, y)
    <3>1. Follows(a, a)
      BY <2>1 DEF Follows
    <3> QED
      BY <2>5, <2>8, <3>1
  <2>10. \A x \in Below : \A y \in new : Follows(x, y)
    BY <2>1, <2>5 DEF Follows
  <2>11. \A y \in new : FoundPrepared(y)'
    BY <2>1, <2>5 DEF FoundPrepared
  <2>12. \A c \in new : c.op \notin {"selection", "current"} \cup SoloOps \cup {"soloChecked", "soloGuard"}
    BY <2>1, <2>5 DEF SoloOps
  <2> HIDE DEF new
  <2>13. SoloHeld'
    BY <1>1, <1>2, <2>2, <2>12, SoloRests DEF SoloOps
  <2> QED
    BY <1>6, <1>7, <2>2, <2>6, <2>7, <2>9, <2>10, <2>11, <2>12, <2>13, CheckKeeps
<1> QED
  BY <1>1, <1>8, <1>9, StartCheckedCalls

LEMMA SoloSelectedKeepsDuels ==
    ASSUME IDuels, [Next]_vars, SoloSelected, CheckRests PROVE DuelsKept
<1>1. ICalls /\ IFlows /\ ITypes /\ stack # <<>> /\ Top.op = "soloSelected"
  BY DEF SoloSelected, Running, IDuels, IStarts, ICalls, IFlows
<1>2. Top \in PlayerFrame /\ Calls = {Top} /\ Below = {}
  <2>1. Top \in PlayerFrame /\ Calls = {Top} \cup Below /\ \A c \in Below : MayCover(Top, c)
    BY <1>1, Pops, KindOfTop
  <2>2. \A c \in Below : FALSE
    BY <1>1, <2>1 DEF MayCover, Lasts
  <2> QED
    BY <2>1, <2>2
<1> DEFINE p == Top.player
<1>3. p \in Players /\ p \in startingPlayers
  BY <1>1, <1>2 DEF PlayerFrame, IDuels, SoloHeld, SoloOps
<1>4. /\ UNCHANGED <<flow, deck, startingPlayers, playerToDuel, flows>> /\ selected' = NoSelection
  BY DEF CheckRests, SoloSelected, hostVars, prepVars, managerVars
<1>5. ASSUME NEW new, Calls' = new, \A c \in new : c.op # "soloGuard",
             \A c \in new : c.op \in SoloOps \cup {"soloChecked"} => c.player = p,
             \E c \in new : c.op = "soloFinally" /\ c.player = p
      PROVE  SoloHeld'
  <2>1. SoloHeld
    BY DEF IDuels
  <2>2. \A q \in startingPlayers : q = p
    BY <1>2, <2>1 DEF SoloHeld
  <2>3. \A c \in new : c.op \in SoloOps => c.player \in startingPlayers
    BY <1>3, <1>5
  <2>4. \A q \in startingPlayers : \E c \in new : c.op \in SoloOps /\ c.player = q
    BY <1>5, <2>2 DEF SoloOps
  <2>5. \A c \in new : c.op = "soloChecked" => \E b \in new : b.op = "soloFinally" /\ b.player = c.player
    BY <1>5
  <2>6. \A q \in startingPlayers : flows[q] = 0
    BY <2>1 DEF SoloHeld
  <2>7. \A c \in Calls' : SoloFree(c, Calls)'
    BY <1>5 DEF SoloFree
  <2> QED
    BY <1>4, <1>5, <2>3, <2>4, <2>5, <2>6, <2>7 DEF SoloHeld
<1> DEFINE a == CurrentCall(p, selected[p])
           b == SoloCall("soloChecked", p)
           d == SoloCall("soloFinally", p)
<1>6. /\ a.op = "current" /\ a.player = p
      /\ b.op = "soloChecked" /\ b.player = p
      /\ d.op = "soloFinally" /\ d.player = p
  BY DEF CurrentCall, SoloCall
<1>7. Makes({d}, Below) \/ Makes({a, b, d}, Below)
  BY <1>1, SoloSelectedCalls
<1> HIDE DEF a, b, d, p
<1>8. ASSUME NEW new, Makes(new, Below), d \in new, \A c \in new : c = a \/ c = b \/ c = d,
             (\E c \in new : c.op = "current") => b \in new
      PROVE  DuelsKept
  <2>1. Calls' = new
    BY <1>2, <1>8 DEF Makes, Calls
  <2>2. \A c \in new : c.op \in {"current", "soloChecked", "soloFinally"} /\ c.player = p
    BY <1>6, <1>8
  <2>3. SoloHeld'
    BY <1>5, <1>6, <1>8, <2>1, <2>2
  <2>4. \A c \in new : CallFree(c)'
    <3>1. selected'[p] = None
      BY <1>3, <1>4 DEF NoSelection
    <3> QED
      BY <2>2, <3>1 DEF CallFree
  <2>5. \A c \in new : c.op \in {"selection", "current"} => \E e \in new \cup Below : e.op \in Awaiting
    BY <1>6, <1>8, <2>2 DEF Awaiting
  <2>6. \A x \in new : \A y \in new \cup Below : Follows(x, y)
    BY <1>2, <2>2 DEF Follows
  <2>7. \A x \in Below : \A y \in new : Follows(x, y)
    BY <1>2
  <2>8. \A y \in new : FoundPrepared(y)'
    BY <2>2 DEF FoundPrepared
  <2>9. \A c \in new \cup Below : c.op \notin {"start", "setup"}
    BY <1>2, <2>2
  <2>10. \A c \in Below : c.op \notin {"selection", "current"}
    BY <1>2
  <2>11. Below \subseteq Calls
    BY <1>2
  <2> QED
    BY <1>4, <1>8, <2>3, <2>4, <2>5, <2>6, <2>7, <2>8, <2>9, <2>10, <2>11, CheckKeeps
<1>9. CASE Makes({d}, Below)
  <2> DEFINE new == {d}
  <2>1. Makes(new, Below) /\ d \in new /\ \A c \in new : c = a \/ c = b \/ c = d
    BY <1>9
  <2>2. (\E c \in new : c.op = "current") => b \in new
    BY <1>6
  <2> HIDE DEF new
  <2> QED
    BY <1>8, <2>1, <2>2
<1>10. CASE Makes({a, b, d}, Below)
  <2> DEFINE new == {a, b, d}
  <2>1. Makes(new, Below) /\ d \in new /\ b \in new /\ \A c \in new : c = a \/ c = b \/ c = d
    BY <1>10
  <2> HIDE DEF new
  <2> QED
    BY <1>8, <2>1
<1> QED
  BY <1>7, <1>9, <1>10

\* The player's deck was found eligible once more: the duel starts with it.
LEMMA SoloCheckedKeepsDuels ==
    ASSUME IDuels, [Next]_vars, SoloChecked, CheckRests PROVE DuelsKept
<1>1. ICalls /\ IFlows /\ ITypes /\ stack # <<>> /\ Top.op = "soloChecked"
  BY DEF SoloChecked, Running, IDuels, IStarts, ICalls, IFlows
<1>2. /\ Top \in PlayerFrame /\ Calls = {Top} \cup Below
      /\ \A c \in Below : MayCover(Top, c)
  BY <1>1, Pops, KindOfTop
<1> DEFINE p == Top.player
<1>3. \A c \in Below : c.op = "soloFinally" /\ c.player = p
  BY <1>1, <1>2 DEF MayCover
<1>4. p \in Players
  BY <1>2 DEF PlayerFrame
<1>5. PICK e \in Below : e.op = "soloFinally"
  <2>1. PICK e \in Calls : e.op = "soloFinally"
    BY <1>1, <1>2 DEF IDuels, SoloHeld
  <2> QED
    BY <1>1, <1>2, <2>1
<1>6. /\ DuelsMove /\ UNCHANGED <<deck, startingPlayers, playerToDuel>>
      /\ selected' = NoSelection
  BY LooseSame DEF CheckRests, SoloChecked, hostVars
<1>7. /\ Below \subseteq Calls
      /\ \A c \in Below : c.op \notin {"selection", "current", "start", "setup"}
      /\ \A c \in Calls : c.op \in SoloOps => c \in Below
      /\ \A c \in Calls : c.op \in {"cancel", "cancelOwn"} => c \in Below
  BY <1>1, <1>2, <1>3 DEF SoloOps
<1>8. CASE Makes({}, Below)
  <2> DEFINE new == {}
  <2>1. Makes(new, Below) /\ \A c \in new : c.op \notin TiedOps
    BY <1>8
  <2> HIDE DEF new
  <2> QED
    BY <1>6, <1>7, <2>1, PlainKeeps
<1>9. CASE /\ selected[p] # None
           /\ Makes({StartCall(Seats(p, None), Seats(selected[p], None))}, Below)
  <2> DEFINE a == StartCall(Seats(p, None), Seats(selected[p], None))
             new == {a}
  <2>1. /\ a.op = "start" /\ a.seats = Seats(p, None)
        /\ a.seats[0] = p /\ a.seats[1] = None /\ a.decks[0] = selected[p]
    BY DEF StartCall, Seats
  <2>2. Makes(new, Below) /\ \A c \in new : c = a
    BY <1>9
  <2> HIDE DEF a
  <2>3. playerToDuel'[p] = 0 /\ deck'[p] = selected[p]
    BY <1>4, <1>6, <1>9 DEF IDuels, SelectionsFree
  <2> HIDE DEF p
  <2>4. \A c \in new : CallFree(c)'
    <3>1. \A c \in new : /\ c.op = "start" /\ c.seats[0] = p /\ c.seats[1] = None
                         /\ c.decks[0] = selected[p]
      BY <2>1, <2>2
    <3>2. ASSUME NEW c \in new PROVE CallFree(c)'
      BY <2>3, <3>1 DEF CallFree
    <3> QED
      BY <3>2
  <2>5. Follows(a, a) /\ \A c \in Below : Follows(a, c)
    BY <1>3, <2>1 DEF Follows
  <2>6. \A x \in new : \A y \in new \cup Below : Follows(x, y)
    BY <2>2, <2>5
  <2>7. \A x \in Below : \A y \in new : Follows(x, y)
    BY <2>1, <2>2 DEF Follows
  <2>8. \A y \in new : FoundPrepared(y)'
    BY <2>1, <2>2 DEF FoundPrepared
  <2>9. \A c \in new : c.op \notin {"selection", "current"} \cup SoloOps \cup {"soloChecked", "soloGuard"}
    BY <2>1, <2>2 DEF SoloOps
  <2> HIDE DEF new
  <2>10. SoloHeld'
    BY <1>1, <1>2, <2>2, <2>9, SoloRests DEF SoloOps
  <2> QED
    BY <1>5, <1>6, <1>7, <2>2, <2>4, <2>6, <2>7, <2>8, <2>9, <2>10, CheckKeeps
<1> QED
  BY <1>1, <1>8, <1>9, SoloCheckedCalls

LEMMA CheckStepKeepsDuels == ASSUME IDuels, [Next]_vars, CheckStep PROVE DuelsKept
<1>1. CheckRests
  BY DEF CheckStep, CheckRests
<1> QED
  BY <1>1, StartPreparedKeepsDuels, CurrentKeepsDuels, StartCheckedKeepsDuels,
     SoloSelectedKeepsDuels, SoloCheckedKeepsDuels, CancelOwnKeepsDuels DEF CheckStep

-----------------------------------------------------------------------------
(* The answer of selection() *)

\* A verdict changes the deck or the selection of the player asked about only,
\* and no other call that is waiting asks about the same player.
LEMMA VerdictKeeps ==
    ASSUME IDuels, [Next]_vars, stack # <<>>, Top.op = "selection",
           UNCHANGED <<hostVars, activeDuels, duelSeats, prepVars>>,
           NEW new, Makes(new, Below), \A c \in new : c.op = "sweep",
           \A p \in Players : p # Top.player => selected'[p] = selected[p] /\ deck'[p] = deck[p],
           selected'[Top.player] # None =>
             selected'[Top.player] = deck[Top.player] /\ deck'[Top.player] = deck[Top.player]
    PROVE  DuelsKept
<1>1. ICalls /\ IFlows /\ ITypes /\ IStarts /\ Calls \subseteq Frame
  BY CallsAreFrames DEF IDuels, IStarts, ICalls, IFlows
<1>2. /\ Top \in PlayerFrame /\ Top \in Calls /\ Calls = {Top} \cup Below
      /\ \A c \in Below : MayCover(Top, c) /\ c.op \notin {"start", "setup"}
  BY <1>1, Pops, KindOfTop
<1>3. UNCHANGED <<playerToDuel, startingPlayers, flow>>
  BY DEF hostVars, prepVars
<1>4. DuelsPaired' /\ DuelsApart' /\ \A p \in Players : playerToDuel'[p] \in {0, playerToDuel[p]}
  BY RestKeeps
<1>5. Calls' = new \cup Below
  BY DEF Makes, Calls
<1>6. \A c \in Below : c.op \in {"selection", "current"} => c.player \in Players /\ c.player # Top.player
  <2>1. \A c \in Below : c.op \in {"selection", "current"} => c.player \in Players
    BY <1>1, <1>2, KindOf DEF PlayerFrame, CurrentFrame
  <2>2. \A c \in Below : c.op \in {"selection", "current"} => c.player # Top.player
    BY <1>2 DEF MayCover
  <2> QED
    BY <2>1, <2>2
<1>7. CallFree(Top) /\ \E b \in Below : b.op \in Awaiting
  <2>1. \E b \in Calls : b.op \in Awaiting
    BY <1>2 DEF IDuels, SelectionsFree
  <2> QED
    BY <1>2, <2>1 DEF IDuels, SelectionsFree, Awaiting
<1>8. SelectionsFree'
  <2>1. \A p \in Players : selected'[p] # None => playerToDuel'[p] = 0 /\ selected'[p] = deck'[p]
    <3>1. playerToDuel[Top.player] = 0
      BY <1>2, <1>7 DEF CallFree
    <3> QED
      BY <1>3, <3>1 DEF IDuels, SelectionsFree
  <2>2. ASSUME NEW c \in new \cup Below PROVE CallFree(c)'
    <3>1. CASE c \in new
      BY <3>1 DEF CallFree
    <3>2. CASE c \in Below
      <4>1. CallFree(c) /\ c.op # "start"
        BY <1>2, <3>2 DEF IDuels, SelectionsFree
      <4>2. c.op \in {"selection", "current"} => selected'[c.player] = None
        BY <1>6, <3>2, <4>1 DEF CallFree
      <4> QED
        BY <1>3, <4>1, <4>2 DEF CallFree
    <3> QED
      BY <3>1, <3>2
  <2>3. \E b \in new \cup Below : b.op \in Awaiting
    BY <1>7
  <2> QED
    BY <1>5, <2>1, <2>2, <2>3 DEF SelectionsFree
<1>9. StartsFollow'
  <2>1. \A a \in new : \A b \in new \cup Below : Follows(a, b)'
    BY DEF Follows
  <2>2. \A a \in Below : \A b \in new : Follows(a, b)'
    BY DEF Follows
  <2>3. \A b \in new : FoundPrepared(b)'
    BY DEF FoundPrepared
  <2>4. \A a \in Below : a.op = "selection" => deck'[a.player] = deck[a.player]
    BY <1>6
  <2>5. ASSUME NEW b \in Below, b.op = "startChecked", NEW p \in Pair(b.flow), selected'[p] # None
        PROVE  \/ selected'[p] = selected[p] /\ deck'[p] = deck[p]
               \/ deck'[p] = Prepared(b.flow, p)
    <3>1. b \in PreparedFrame(FlowIds)
      BY <1>1, <1>2, <2>5, KindOf
    <3>2. flow[b.flow] \in Flow
      BY <1>1, <3>1, FlowTyped DEF PreparedFrame, ITypes
    <3>3. p \in Players
      BY <2>5, <3>2 DEF Pair, Flow
    <3>4. Follows(Top, b)
      BY <1>2 DEF IDuels, StartsFollow
    <3>5. p = Top.player => deck[p] = Prepared(b.flow, p)
      BY <1>2, <2>5, <3>4 DEF Follows
    <3> QED
      BY <2>5, <3>3, <3>5
  <2>6. \A a \in new \cup Below : a.op \notin {"start", "setup"}
    BY <1>2
  <2>7. Below \subseteq Calls
    BY <1>2
  <2> QED
    BY <2>1, <2>2, <2>3, <2>4, <2>5, <2>6, <2>7, StartsFollowKept
<1>10. SoloHeld'
  <2>1. /\ Below \subseteq Calls
        /\ \A c \in Calls : c.op \in SoloOps => c \in Below
        /\ \A c \in Calls : c.op \in {"cancel", "cancelOwn"} => c \in Below
    BY <1>2 DEF SoloOps
  <2>2. \A c \in new : c.op \notin SoloOps \cup {"soloChecked", "soloGuard"}
    BY DEF SoloOps
  <2> QED
    BY <1>3, <2>1, <2>2, SoloKept
<1> QED
  BY <1>4, <1>8, <1>9, <1>10 DEF DuelsKept

LEMMA SelectionStepKeepsDuels == ASSUME IDuels, [Next]_vars, SelectionStep PROVE DuelsKept
<1>1. ICalls /\ ITypes
  BY DEF IDuels, IStarts, ICalls, IFlows
<1>2. UNCHANGED <<hostVars, activeDuels, duelSeats, prepVars>>
  BY DEF SelectionStep
<1>3. CASE SelectionMissing \/ SelectionFails
  BY <1>2, <1>3, DenialKeepsDuels
<1>4. CASE SelectionAccepted
  <2>1. stack # <<>> /\ Top.op = "selection"
    BY <1>4 DEF SelectionAccepted, Running
  <2>2. Makes({}, Below)
    BY <1>1, <1>4, <2>1, ReturnCalls DEF SelectionAccepted
  <2> DEFINE new == {}
  <2>3. Makes(new, Below) /\ \A c \in new : c.op = "sweep"
    BY <2>2
  <2> HIDE DEF new
  <2>4. Top.player \in Players
    BY <1>1, <2>1, Pops, KindOfTop DEF PlayerFrame
  <2>5. /\ \A p \in Players : p # Top.player => selected'[p] = selected[p] /\ deck'[p] = deck[p]
        /\ selected'[Top.player] = deck[Top.player] /\ deck'[Top.player] = deck[Top.player]
    BY <1>1, <1>4, <2>4 DEF SelectionAccepted, ITypes, TypeOK
  <2> QED
    BY <1>2, <2>1, <2>3, <2>5, VerdictKeeps
<1>5. CASE SelectionRejected
  <2>1. stack # <<>> /\ Top.op = "selection" /\ Denied
    BY <1>5 DEF SelectionRejected, Running
  <2> DEFINE new == Due
  <2>2. Makes(new, Below) /\ \A c \in new : c.op = "sweep"
    BY <1>1, <2>1, DeniedCalls
  <2> HIDE DEF new
  <2>3. Top.player \in Players /\ Top \in Calls
    BY <1>1, <2>1, Pops, KindOfTop DEF PlayerFrame
  <2>4. selected' = selected /\ selected[Top.player] = None
    BY <2>1, <2>3 DEF Denied, IDuels, SelectionsFree, CallFree
  <2>5. \A p \in Players : p # Top.player => deck'[p] = deck[p]
    BY <1>1, <1>5 DEF SelectionRejected, ITypes, TypeOK
  <2> QED
    BY <1>2, <2>1, <2>2, <2>4, <2>5, VerdictKeeps
<1> QED
  BY <1>3, <1>4, <1>5 DEF SelectionStep

-----------------------------------------------------------------------------
(* The steps that install a duel, or begin and end a start against the AI *)

LEMMA HeldByFlow ==
    ASSUME IFlows, NEW f \in LiveFlows, NEW p \in Pair(f)
    PROVE  p \in Players /\ flows[p] = f /\ flows[p] # 0
<1>1. f \in FlowIds /\ flow[f] \in Flow /\ flows[flow[f].challenger] = f
  BY FlowTyped DEF LiveFlows, IFlows, ITypes
<1>2. f # 0 /\ flow[f].challenger \in Players /\ flow[f].accepter \in Players
  BY <1>1 DEF FlowIds, Flow
<1> QED
  BY <1>1, <1>2 DEF IFlows, FlowsPaired, Pair

LEMMA NoneSelected ==
    ASSUME UNCHANGED selected, selected = NoSelection,
           \A c \in Calls' : c.op \notin {"selection", "current", "soloGuard", "inviteSelected", "start"}
    PROVE  SelectionsFree'
<1>1. \A p \in Players : selected'[p] = None
  BY DEF NoSelection
<1>2. \A c \in Calls' : CallFree(c)'
  BY DEF CallFree
<1>3. selected' = NoSelection'
  BY DEF NoSelection
<1> QED
  BY <1>1, <1>2, <1>3 DEF SelectionsFree

LEMMA StartInstallsKeepsDuels ==
    ASSUME IDuels, [Next]_vars, StartInstalls,
           UNCHANGED <<prepVars, selected, online, startingPlayers, deck>>
    PROVE  DuelsKept
<1>1. ICalls /\ IFlows /\ ITypes /\ IStarts /\ stack # <<>> /\ Top.op = "start"
  BY DEF StartInstalls, Running, IDuels, IStarts, ICalls, IFlows
<1>2. /\ Top \in StartFrame /\ Top \in Calls /\ Calls = {Top} \cup Below
      /\ \A c \in Below : MayCover(Top, c)
  BY <1>1, Pops, KindOfTop
<1>3. \A c \in Below : c.op \in {"finishStart", "soloFinally", "reply"}
  BY <1>1, <1>2 DEF MayCover
<1> DEFINE id == Len(duelSeats) + 1
           owners == {Top.seats[0], Top.seats[1]} \ {None}
<1>4. Top.seats \in Seating /\ Top.seats[0] \in Players /\ Top.seats[1] \in Players \cup {None}
  BY <1>2 DEF StartFrame, Seating, Seats
<1>5. owners \subseteq Players /\ owners # {}
  BY <1>4, NoneAssumption
<1>6. \A p \in owners : playerToDuel[p] = 0
  <2>1. CallFree(Top)
    BY <1>2 DEF IDuels, SelectionsFree
  <2> QED
    BY <1>1, <2>1 DEF CallFree
<1>7. selected = NoSelection /\ selected' = selected
  BY <1>1, <1>2, <1>3 DEF IDuels, SelectionsFree, Awaiting
<1>8. /\ DuelIds' = DuelIds \cup {id} /\ id \notin DuelIds /\ id # 0
      /\ \A d \in DuelIds : duelSeats'[d] = duelSeats[d]
      /\ duelSeats'[id] = Top.seats
  <2>1. duelSeats \in Seq(Seating \cup {NoSeats}) /\ Len(duelSeats) \in Nat
    BY <1>1, LenProperties DEF ITypes, TypeOK
  <2>2. duelSeats' = Append(duelSeats, Top.seats)
    BY DEF StartInstalls
  <2> QED
    BY <1>4, <2>1, <2>2, AppendProperties DEF DuelIds
<1>9. /\ \A d \in DuelIds : (Humans(d))' = Humans(d)
      /\ {duelSeats'[id][seat] : seat \in {0, 1}} \ {None} = owners
  BY <1>8 DEF Humans
<1>10. /\ activeDuels' = activeDuels \cup {id}
       /\ \A p \in Players : playerToDuel'[p] = IF p \in owners THEN id ELSE playerToDuel[p]
  BY DEF StartInstalls
<1>11. activeDuels \subseteq DuelIds /\ \A p \in Players : playerToDuel[p] \in {0} \cup DuelIds
  BY <1>1 DEF ITypes, TypeOK
<1>12. Makes({[op |-> "setup", duel |-> id]}, Below)
  BY <1>1, StartInstallsCalls
<1> HIDE DEF id, owners
<1>13. \A d \in DuelIds : {duelSeats'[d][seat] : seat \in {0, 1}} \ {None} = Humans(d)
  BY <1>8 DEF Humans
<1>14. DuelsPaired'
  <2>1. \A d \in DuelIds' : d \in activeDuels' <=> (Humans(d))' # {}
    <3>1. \A d \in DuelIds : d \in activeDuels <=> Humans(d) # {}
      BY DEF IDuels, DuelsPaired
    <3>2. \A d \in DuelIds : d \in activeDuels' <=> {duelSeats'[d][seat] : seat \in {0, 1}} \ {None} # {}
      BY <1>8, <1>10, <1>13, <3>1
    <3>3. id \in activeDuels' /\ {duelSeats'[id][seat] : seat \in {0, 1}} \ {None} # {}
      BY <1>5, <1>9, <1>10
    <3> QED
      BY <1>8, <3>2, <3>3 DEF Humans
  <2>2. ASSUME NEW d \in activeDuels', NEW p \in (Humans(d))' PROVE playerToDuel'[p] = d
    <3>1. CASE d = id
      BY <1>5, <1>9, <1>10, <2>2, <3>1 DEF Humans
    <3>2. CASE d # id
      <4>1. d \in activeDuels /\ d \in DuelIds /\ p \in Humans(d)
        BY <1>10, <1>11, <1>13, <2>2, <3>2 DEF Humans
      <4>2. playerToDuel[p] = d /\ p \in Players /\ d # 0
        BY <1>1, <4>1, SeatsPeople DEF IDuels, DuelsPaired, DuelIds
      <4> QED
        BY <1>6, <1>10, <4>2
    <3> QED
      BY <3>1, <3>2
  <2>3. ASSUME NEW p \in Players, playerToDuel'[p] # 0
        PROVE  p \in {duelSeats'[playerToDuel'[p]][seat] : seat \in {0, 1}} \ {None}
    <3>1. CASE p \in owners
      BY <1>9, <1>10, <3>1
    <3>2. CASE p \notin owners
      <4>1. playerToDuel'[p] = playerToDuel[p] /\ playerToDuel[p] \in DuelIds
        BY <1>10, <1>11, <2>3, <3>2
      <4> QED
        BY <1>13, <2>3, <4>1 DEF IDuels, DuelsPaired
    <3> QED
      BY <3>1, <3>2
  <2>4. \A p \in Players : playerToDuel'[p] # 0 => p \in (Humans(playerToDuel[p]))'
    BY <2>3 DEF Humans
  <2> QED
    BY <2>1, <2>2, <2>4 DEF DuelsPaired
<1>15. \/ \E f \in LiveFlows : flow[f].mode = "STARTING" /\ owners = Pair(f)
       \/ \E p \in startingPlayers : owners = {p}
  <2>1. PICK b \in Below : b.op \in {"finishStart", "soloFinally"}
    <3>1. \E b \in Calls : b.op \in {"finishStart", "soloFinally"}
      BY <1>1, <1>2 DEF IDuels, StartsFollow
    <3> QED
      BY <1>1, <1>2, <3>1
  <2>2. Follows(Top, b) /\ b \in Calls
    BY <1>2 DEF IDuels, StartsFollow
  <2>3. CASE b.op = "finishStart"
    <3>1. b.flow \in LiveFlows /\ flow[b.flow].mode = "STARTING"
      BY <2>2, <2>3 DEF IDuels, IStarts, StartsHold, StartOps
    <3>2. {Top.seats[0], Top.seats[1]} = Pair(b.flow)
      BY <1>1, <2>2, <2>3 DEF Follows
    <3>3. Pair(b.flow) \subseteq Players
      BY <1>1, <3>1, HeldByFlow
    <3> QED
      BY <3>1, <3>2, <3>3, NoneAssumption DEF owners
  <2>4. CASE b.op = "soloFinally"
    <3>1. b.player \in startingPlayers
      BY <2>2, <2>4 DEF IDuels, SoloHeld, SoloOps
    <3>2. Top.seats[0] = b.player /\ Top.seats[1] = None
      BY <1>1, <2>2, <2>4 DEF Follows, Seats
    <3> QED
      BY <1>4, <3>1, <3>2, NoneAssumption DEF owners
  <2> QED
    BY <2>1, <2>3, <2>4
<1>16. DuelsApart'
  <2>1. LiveFlows' = LiveFlows /\ flow' = flow /\ flows' = flows /\ startingPlayers' = startingPlayers
    BY DEF LiveFlows, FlowIds, prepVars
  <2>2. \A f \in LiveFlows : \A p \in Pair(f) : p \in Players /\ flows[p] = f /\ flows[p] # 0
    BY <1>1, HeldByFlow
  <2>3. startingPlayers \subseteq Players /\ \A p \in startingPlayers : flows[p] = 0
    BY <1>1 DEF ITypes, TypeOK, IDuels, SoloHeld
  <2>4. ASSUME NEW f \in LiveFlows, NEW p \in Pair(f), playerToDuel'[p] # 0
        PROVE  flow[f].mode = "STARTING" /\ (Humans(playerToDuel[p]))' = Pair(f)
    <3>1. CASE p \in owners
      <4>1. (Humans(playerToDuel[p]))' = owners
        BY <1>5, <1>9, <1>10, <3>1 DEF Humans
      <4> QED
        BY <1>15, <2>2, <2>3, <3>1, <4>1
    <3>2. CASE p \notin owners
      <4>1. playerToDuel'[p] = playerToDuel[p] /\ playerToDuel[p] \in DuelIds
        BY <1>10, <1>11, <2>2, <2>4, <3>2
      <4>2. (Humans(playerToDuel[p]))' = Humans(playerToDuel[p])
        BY <1>13, <4>1 DEF Humans
      <4> QED
        BY <2>4, <4>1, <4>2 DEF IDuels, DuelsApart
    <3> QED
      BY <3>1, <3>2
  <2>5. ASSUME NEW p \in startingPlayers, playerToDuel'[p] # 0 PROVE (Humans(playerToDuel[p]))' = {p}
    <3>1. CASE p \in owners
      <4>1. (Humans(playerToDuel[p]))' = owners
        BY <1>5, <1>9, <1>10, <3>1 DEF Humans
      <4> QED
        BY <1>15, <2>2, <2>3, <3>1, <4>1
    <3>2. CASE p \notin owners
      <4>1. playerToDuel'[p] = playerToDuel[p] /\ playerToDuel[p] \in DuelIds
        BY <1>10, <1>11, <2>3, <2>5, <3>2
      <4>2. (Humans(playerToDuel[p]))' = Humans(playerToDuel[p])
        BY <1>13, <4>1 DEF Humans
      <4> QED
        BY <2>5, <4>1, <4>2 DEF IDuels, DuelsApart
    <3> QED
      BY <3>1, <3>2
  <2>6. \A f : Pair(f)' = Pair(f)
    BY <2>1 DEF Pair
  <2> QED
    BY <2>1, <2>4, <2>5, <2>6 DEF DuelsApart
<1> DEFINE new == {[op |-> "setup", duel |-> id]}
<1>17. Makes(new, Below) /\ Calls' = new \cup Below /\ \A c \in new : c.op = "setup"
  BY <1>12 DEF Makes, Calls
<1> HIDE DEF new
<1>18. SelectionsFree'
  <2>1. \A c \in Calls' : c.op \in {"setup", "finishStart", "soloFinally", "reply"}
    BY <1>3, <1>17
  <2> QED
    BY <1>7, <2>1, NoneSelected
<1>19. /\ Below \subseteq Calls
       /\ \A c \in Calls : c.op \in SoloOps => c \in Below
       /\ \A c \in Calls : c.op \in {"cancel", "cancelOwn"} => c \in Below
  BY <1>1, <1>2 DEF SoloOps
<1>20. StartsFollow'
  <2>1. \A a \in new : \A b \in new \cup Below : Follows(a, b)'
    BY <1>3, <1>17 DEF Follows
  <2>2. \A a \in Below : \A b \in new : Follows(a, b)'
    BY <1>17 DEF Follows
  <2>3. \A b \in new : FoundPrepared(b)'
    BY <1>17 DEF FoundPrepared
  <2>4. \E b \in new \cup Below : b.op \in {"finishStart", "soloFinally"}
    <3>1. \E b \in Calls : b.op \in {"finishStart", "soloFinally"}
      BY <1>1, <1>2 DEF IDuels, StartsFollow
    <3> QED
      BY <1>1, <1>2, <3>1
  <2>5. \A b \in Below : b.op \notin {"startChecked", "selection"}
    BY <1>3
  <2> QED
    BY <1>17, <1>19, <2>1, <2>2, <2>3, <2>4, <2>5, StartsFollowKept
<1>21. SoloHeld'
  <2>1. \A c \in new : c.op \notin SoloOps \cup {"soloChecked", "soloGuard"}
    BY <1>17 DEF SoloOps
  <2> QED
    BY <1>17, <1>19, <2>1, SoloKept
<1> QED
  BY <1>14, <1>16, <1>18, <1>20, <1>21 DEF DuelsKept

LEMMA DuelStepKeepsDuels == ASSUME IDuels, [Next]_vars, DuelStep PROVE DuelsKept
<1>1. UNCHANGED <<prepVars, selected, online, startingPlayers>>
  BY DEF DuelStep
<1>2. CASE StartInstalls /\ UNCHANGED deck
  BY <1>1, <1>2, StartInstallsKeepsDuels
<1>3. CASE DuelRuns
  BY <1>1, <1>3, DuelRunsKeepsDuels
<1> QED
  BY <1>2, <1>3 DEF DuelStep, DuelRuns

LEMMA SoloGuardKeepsDuels ==
    ASSUME IDuels, [Next]_vars, SoloGuard,
           UNCHANGED <<prepVars, selected, online, playerToDuel, managerVars>>
    PROVE  DuelsKept
<1>1. ICalls /\ IFlows /\ ITypes /\ stack # <<>> /\ Top.op = "soloGuard"
  BY DEF SoloGuard, Running, IDuels, IStarts, ICalls, IFlows
<1> DEFINE p == Top.player
           a == SelectionCall(p)
           b == SoloCall("soloSelected", p)
           new == {a, b}
<1>2. Makes(new, {}) /\ Below = {}
  BY <1>1, SoloGuardCalls
<1>3. Top \in PlayerFrame /\ Calls = {Top}
  BY <1>1, <1>2, Pops, KindOfTop
<1>4. p \in Players /\ playerToDuel[p] = 0 /\ flows[p] = 0
  <2>1. CallFree(Top) /\ SoloFree(Top, {Top})
    BY <1>3 DEF IDuels, SelectionsFree, SoloHeld
  <2> QED
    BY <1>1, <1>3, <2>1 DEF PlayerFrame, CallFree, SoloFree
<1>5. startingPlayers = {} /\ startingPlayers' = {p}
  <2>1. startingPlayers = {}
    BY <1>1, <1>3 DEF IDuels, SoloHeld, SoloOps
  <2> QED
    BY <2>1 DEF SoloGuard
<1>6. selected = NoSelection
  BY <1>1, <1>3 DEF IDuels, SelectionsFree, Awaiting
<1>7. /\ a.op = "selection" /\ a.player = p
      /\ b.op = "soloSelected" /\ b.player = p
  BY DEF SelectionCall, SoloCall
<1>8. Calls' = new
  BY <1>2 DEF Makes, Calls
<1> HIDE DEF a, b, p
<1>9. \A c \in new : c.op \in {"selection", "soloSelected"} /\ c.player = p
  BY <1>7
<1>10. a \in new /\ b \in new
  OBVIOUS
<1> HIDE DEF new
<1>11. /\ flow' = flow /\ flows' = flows /\ playerToDuel' = playerToDuel /\ selected' = selected
       /\ UNCHANGED <<deck, activeDuels, duelSeats>>
  BY DEF prepVars, managerVars
<1>12. DuelsPaired' /\ DuelsShrink
  <2>1. DuelsMove
    BY <1>11 DEF DuelsMove
  <2> QED
    BY <1>1, <2>1, DuelsEnd DEF IDuels
<1>13. DuelsApart'
  <2>1. LiveFlows' = LiveFlows /\ \A f : Pair(f)' = Pair(f)
    BY <1>11 DEF LiveFlows, FlowIds, Pair
  <2>2. \A x : (Humans(playerToDuel[x]))' = Humans(playerToDuel[x])
    BY <1>11 DEF Humans
  <2>3. \A f \in LiveFlows : \A x \in Pair(f) :
          \/ playerToDuel'[x] = 0
          \/ flow'[f].mode = "STARTING" /\ (Humans(playerToDuel[x]))' = Pair(f)
    <3>1. \A f \in LiveFlows : \A x \in Pair(f) :
            \/ playerToDuel[x] = 0
            \/ flow[f].mode = "STARTING" /\ Humans(playerToDuel[x]) = Pair(f)
      BY DEF IDuels, DuelsApart
    <3> QED
      BY <1>11, <2>2, <3>1
  <2>4. \A x \in startingPlayers' : playerToDuel'[x] = 0
    BY <1>4, <1>5, <1>11
  <2> QED
    BY <2>1, <2>3, <2>4 DEF DuelsApart
<1>14. SelectionsFree'
  <2>1. \A c \in new : CallFree(c)'
    <3>1. selected'[p] = None /\ playerToDuel'[p] = 0
      BY <1>4, <1>6, <1>11 DEF NoSelection
    <3> QED
      BY <1>9, <3>1 DEF CallFree
  <2>2. \E c \in new : c.op \in Awaiting
    BY <1>7, <1>10 DEF Awaiting
  <2>3. \A x \in Players : selected'[x] = None
    BY <1>6, <1>11 DEF NoSelection
  <2> QED
    BY <1>8, <2>1, <2>2, <2>3 DEF SelectionsFree
<1>15. StartsFollow'
  BY <1>8, <1>9, NothingFollows
<1>16. SoloHeld'
  <2>1. \A c \in new : c.op \in SoloOps => c.player \in startingPlayers'
    BY <1>5, <1>9
  <2>2. \A x \in startingPlayers' : \E c \in new : c.op \in SoloOps /\ c.player = x
    BY <1>5, <1>7, <1>10 DEF SoloOps
  <2>3. \A x \in startingPlayers' : flows'[x] = 0
    BY <1>4, <1>5, <1>11
  <2>4. \A c \in Calls' : c.op # "soloChecked" /\ SoloFree(c, Calls)'
    BY <1>8, <1>9 DEF SoloFree
  <2> QED
    BY <1>8, <2>1, <2>2, <2>3, <2>4 DEF SoloHeld
<1> QED
  BY <1>12, <1>13, <1>14, <1>15, <1>16 DEF DuelsKept

\* The step that ends everything, or leaves a server with nothing to resume.
LEMMA QuietKeeps ==
    ASSUME UNCHANGED selected, selected = NoSelection, startingPlayers' = {},
           \A c \in Calls' : c.op = "startFinished",
           DuelsPaired', DuelsApart'
    PROVE  DuelsKept
<1>1. SelectionsFree'
  BY NoneSelected
<1>2. StartsFollow'
  <2> DEFINE calls == Calls'
  <2>1. Calls' = calls
    OBVIOUS
  <2>2. \A c \in calls : c.op \notin {"startChecked", "finishStart", "soloFinally", "start", "setup"}
    OBVIOUS
  <2> HIDE DEF calls
  <2> QED
    BY <2>1, <2>2, NothingFollows
<1>3. SoloHeld'
  BY DEF SoloHeld, SoloOps, SoloFree
<1> QED
  BY <1>1, <1>2, <1>3 DEF DuelsKept

LEMMA SoloFinallyKeepsDuels ==
    ASSUME IDuels, [Next]_vars, SoloFinally,
           UNCHANGED <<prepVars, selected, online, playerToDuel, managerVars>>
    PROVE  DuelsKept
<1>1. ICalls /\ IFlows /\ ITypes /\ stack # <<>> /\ Top.op = "soloFinally"
  BY DEF SoloFinally, Running, IDuels, IStarts, ICalls, IFlows
<1>2. /\ Makes({[op |-> "startFinished", player |-> Top.player, success |-> started]}, {})
      /\ Below = {}
  BY <1>1, SoloFinallyCalls
<1>3. Calls = {Top}
  BY <1>1, <1>2, Pops
<1>4. startingPlayers \subseteq {Top.player} /\ startingPlayers' = startingPlayers \ {Top.player}
  BY <1>3 DEF IDuels, SoloHeld, SoloFinally
<1>5. selected = NoSelection
  BY <1>1, <1>3 DEF IDuels, SelectionsFree, Awaiting
<1>6. \A c \in Calls' : c.op = "startFinished"
  BY <1>2 DEF Makes, Calls
<1>7. DuelsMove
  BY DEF DuelsMove, managerVars
<1>8. DuelsPaired' /\ DuelsShrink
  BY <1>1, <1>7, DuelsEnd DEF IDuels
<1>9. DuelsApart'
  BY <1>4, <1>8, ApartKept
<1>10. startingPlayers' = {}
  BY <1>4
<1> QED
  BY <1>5, <1>6, <1>8, <1>9, <1>10, QuietKeeps

LEMMA SoloStepKeepsDuels == ASSUME IDuels, [Next]_vars, SoloStep PROVE DuelsKept
BY SoloGuardKeepsDuels, SoloFinallyKeepsDuels DEF SoloStep

\* Between two handlers nothing waits for anything.
LEMMA WaitingIdle ==
    ASSUME IDuels, Waiting PROVE Calls = {} /\ selected = NoSelection /\ startingPlayers = {}
BY WaitingCalls DEF IDuels, SelectionsFree, SoloHeld

LEMMA DeckStepKeepsDuels == ASSUME IDuels, [Next]_vars, DeckStep PROVE DuelsKept
<1>1. ITypes /\ Waiting
  BY DEF IDuels, IStarts, ICalls, IFlows, DeckStep, Login, ChangeDeck
<1>2. Calls = {} /\ selected = NoSelection /\ startingPlayers = {}
  BY <1>1, WaitingIdle
<1>3. /\ UNCHANGED <<selected, startingPlayers, activeDuels, duelSeats, playerToDuel>>
      /\ stack' = stack
  BY DEF DeckStep, returns
<1>4. Calls' = {} /\ DuelsMove
  BY <1>2, <1>3 DEF Calls, DuelsMove
<1>5. DuelsPaired' /\ DuelsShrink
  BY <1>1, <1>4, DuelsEnd DEF IDuels
<1>6. DuelsApart'
  BY <1>3, <1>5, ApartKept
<1> QED
  BY <1>2, <1>3, <1>4, <1>5, <1>6, QuietKeeps

LEMMA ShutdownKeepsDuels == ASSUME IDuels, Shutdown PROVE DuelsKept
<1>1. ITypes /\ Waiting
  BY DEF IDuels, IStarts, ICalls, IFlows, Shutdown
<1>2. Calls = {} /\ selected = NoSelection
  BY <1>1, WaitingIdle
<1>3. /\ selected' = selected /\ stack' = stack /\ startingPlayers' = {} /\ activeDuels' = {}
      /\ duelSeats' = [id \in DuelIds |-> NoSeats]
      /\ \A p \in Players : playerToDuel'[p] = 0
  BY DEF Shutdown, returns
<1>4. Calls' = {}
  BY <1>2, <1>3 DEF Calls
<1>5. DuelIds' = DuelIds
  <2>1. Len(duelSeats) \in Nat
    BY <1>1, LenProperties DEF ITypes, TypeOK
  <2>2. Len(duelSeats') = Len(duelSeats)
    BY <1>3, <2>1 DEF DuelIds
  <2> QED
    BY <2>2 DEF DuelIds
<1>6. DuelsPaired'
  <2>1. \A id \in DuelIds : {duelSeats'[id][seat] : seat \in {0, 1}} \ {None} = {}
    BY <1>3 DEF NoSeats, Seats
  <2> QED
    BY <1>3, <1>5, <2>1 DEF DuelsPaired, Humans
<1>7. DuelsApart'
  <2>1. LiveFlows' = {}
    <3>1. \A p \in Players : flows'[p] = 0
      BY DEF Shutdown
    <3>2. /\ flow \in Seq(Flow) /\ Len(flow) \in Nat
          /\ flow' = [f \in FlowIds |-> Garbage(flow[f])]
      BY <1>1, LenProperties DEF Shutdown, ITypes, TypeOK
    <3>3. FlowIds' = FlowIds
      <4>1. Len(flow') = Len(flow)
        BY <3>2 DEF FlowIds
      <4> QED
        BY <4>1 DEF FlowIds
    <3>4. \A f \in FlowIds : f # 0 /\ flow'[f].challenger \in Players
      BY <1>1, <3>2, FlowTyped DEF Garbage, NewFlow, Flow, FlowIds, ITypes
    <3> QED
      BY <3>1, <3>3, <3>4 DEF LiveFlows
  <2> QED
    BY <1>3, <2>1 DEF DuelsApart
<1> QED
  BY <1>2, <1>3, <1>4, <1>6, <1>7, QuietKeeps

LEMMA NextKeepsDuels == ASSUME IDuels, [Next]_vars PROVE IDuels'
<1>1. DuelsKept
  BY ServiceStepKeepsDuels, ServiceResumesKeepsDuels, NotifyKeepsDuels, SelectionStepKeepsDuels,
     CheckStepKeepsDuels, DuelStepKeepsDuels, SoloStepKeepsDuels, DropKeepsDuels, RequestKeepsDuels,
     DeckStepKeepsDuels, ShutdownKeepsDuels, IdleKeepsDuels DEF Next, ThreadStep
<1>2. IStarts'
  BY NextKeepsStarts DEF IDuels
<1> QED
  BY <1>1, <1>2 DEF IDuels, DuelsKept

LEMMA InitDuels == ASSUME Init PROVE IDuels
<1>1. IStarts
  BY InitStarts
<1>2. Calls = {} /\ selected = NoSelection /\ startingPlayers = {}
  BY NothingNested DEF Init, Calls
<1>3. /\ activeDuels = {} /\ duelSeats = <<>> /\ flow = <<>>
      /\ \A p \in Players : playerToDuel[p] = 0
  BY DEF Init
<1>4. DuelIds = {} /\ FlowIds = {}
  BY <1>3 DEF DuelIds, FlowIds
<1>5. DuelsPaired
  BY <1>3, <1>4 DEF DuelsPaired
<1>6. DuelsApart
  BY <1>2, <1>4 DEF DuelsApart, LiveFlows
<1>7. SelectionsFree
  BY <1>2 DEF SelectionsFree, NoSelection
<1>8. StartsFollow /\ SoloHeld
  BY <1>2 DEF StartsFollow, SoloHeld
<1> QED
  BY <1>1, <1>5, <1>6, <1>7, <1>8 DEF IDuels

-----------------------------------------------------------------------------
(* The theorems *)

\* Every player of a live duel is in that duel and in no other, and nobody
\* else is in any: whatever ends a duel (the engine, a forfeit, a lost
\* connection, a failed setup), and whenever it does, during a start included.
THEOREM SeatsArePaired == Spec => []DuelsPaired
<1>1. Init => IDuels
  BY InitDuels
<1>2. IDuels /\ [Next]_vars => IDuels'
  BY NextKeepsDuels
<1>3. IDuels => DuelsPaired
  BY DEF IDuels
<1> QED
  BY <1>1, <1>2, <1>3, PTL DEF Spec

\* No path through a start, against a player or the AI, through its failure or
\* its immediate end, leaves a lock behind or a duellist with an invitation.
THEOREM NothingStaysBehind == Spec => []NothingLeftBehind
<1>1. Init => IDuels
  BY InitDuels
<1>2. IDuels /\ [Next]_vars => IDuels'
  BY NextKeepsDuels
<1>3. ASSUME IDuels PROVE NothingLeftBehind
  <2> SUFFICES ASSUME Waiting
               PROVE  /\ startingPlayers = {}
                      /\ \A f \in LiveFlows : /\ flow[f].mode # "STARTING"
                                              /\ \A p \in Pair(f) : playerToDuel[p] = 0
    BY DEF NothingLeftBehind
  <2>1. Calls = {} /\ startingPlayers = {}
    BY <1>3, WaitingIdle
  <2>2. \A f \in LiveFlows : flow[f].mode # "STARTING"
    BY <1>3, <2>1 DEF IDuels, IStarts, StartsHold
  <2> QED
    BY <1>3, <2>1, <2>2 DEF IDuels, DuelsApart
<1> QED
  BY <1>1, <1>2, <1>3, PTL DEF Spec

\* Only the end of start() gives a player a duel.
LEMMA OnlyStartsInstall ==
    ASSUME IDuels, [Next]_vars, ~StartInstalls
    PROVE  \A p \in Players : playerToDuel'[p] \in {0, playerToDuel[p]}
<1>1. CASE UNCHANGED playerToDuel
  BY <1>1
<1>2. ASSUME NEW id, EndDuel(id) PROVE \A p \in Players : playerToDuel'[p] \in {0, playerToDuel[p]}
  BY <1>2 DEF EndDuel
<1>3. CASE Shutdown
  BY <1>3 DEF Shutdown
<1>4. CASE DuelStep
  BY <1>1, <1>2, <1>4 DEF DuelStep, SetupRuns, SetupCompletes, SetupThrows, Leave, ResponseEndsDuel,
     Forfeit, FinishDuel
<1>5. CASE ServiceStep \/ ServiceResumes \/ NotifyStep \/ SelectionStep \/ CheckStep
  BY <1>1, <1>5 DEF ServiceStep, ServiceResumes, NotifyStep, SelectionStep, CheckStep, hostVars
<1>6. CASE SoloStep \/ DropStep \/ DeckStep \/ Request \/ ClockTicks \/ UNCHANGED vars
  BY <1>1, <1>6 DEF SoloStep, DropStep, DeckStep, Request, ClockTicks, vars, hostVars
<1> QED
  BY <1>3, <1>4, <1>5, <1>6 DEF Next, ThreadStep

\* The call that a start of the service returns to is the next one.
LEMMA ReturnsToFinish ==
    ASSUME IDuels, stack # <<>>, Top.op = "start", NEW b \in Below, b.op = "finishStart"
    PROVE  stack[2] = b
<1>1. ICalls /\ stack \in Seq(Frame) /\ Nested(stack) /\ Len(stack) \in Nat
  BY LenProperties DEF IDuels, IStarts, ICalls, IFlows, ITypes, TypeOK
<1>2. \A c \in Below : c.op \in {"finishStart", "soloFinally", "reply"}
  BY <1>1, Pops DEF MayCover
<1>3. Len(Rest) = Len(stack) - 1 /\ \A i \in 1..Len(Rest) : Rest[i] = stack[i + 1]
  BY <1>1, HeadTailProperties, EmptySeq DEF Rest
<1>4. PICK i \in 1..Len(Rest) : b = Rest[i]
  BY DEF Below, CallsOf
<1>5. CASE i = 1
  BY <1>3, <1>4, <1>5
<1>6. CASE i # 1
  <2>1. 1 \in 1..Len(Rest) /\ 2 \in 1..Len(stack) /\ i + 1 \in 1..Len(stack) /\ 2 < i + 1
    BY <1>1, <1>3, <1>4, <1>6
  <2>2. MayCover(stack[2], b) /\ stack[2] = Rest[1] /\ Rest[1] \in Below
    <3>1. MayCover(stack[2], stack[i + 1])
      BY <1>1, <2>1 DEF Nested
    <3> QED
      BY <1>3, <1>4, <2>1, <3>1 DEF Below, CallsOf
  <2>3. stack[2].op \in {"finishStart", "soloFinally", "reply"}
    BY <1>2, <2>2
  <2> QED
    BY <2>2, <2>3 DEF MayCover, Lasts, Rounds
<1> QED
  BY <1>5, <1>6

\* A duel of two is installed for the pair whose roll was won and whose start
\* is the one that waits, both of them free, with the decks captured when the
\* invitation was accepted, each still active, and with the winner first
\* exactly if the winner chose to go first; a duel against the AI is the one
\* whose guard is held.  The deck checks in between may end duels, change
\* decks and lose connections.
THEOREM StartsFollowTheRoll == Spec => StartsPrepared
<1>1. Init => IDuels
  BY InitDuels
<1>2. IDuels /\ [Next]_vars => IDuels'
  BY NextKeepsDuels
<1> DEFINE Agreed(p) ==
             LET seats == duelSeats'[playerToDuel'[p]] IN
             /\ playerToDuel[p] = 0
             /\ \A seat \in {0, 1} : seats[seat] # None => Top.decks[seat] = deck[seats[seat]]
             /\ \/ /\ p \in startingPlayers
                   /\ seats = Seats(p, None)
                \/ LET f == flows[p]
                       after == stack[2] IN
                   /\ after.op = "finishStart" /\ after.flow = f
                   /\ {seats[0], seats[1]} = Pair(f)
                   /\ after.goFirst <=> seats[0] = Chooser(f)
                   /\ Top.decks = IF seats[0] = flow[f].challenger
                                  THEN Seats(flow[f].prepared.challenger, flow[f].prepared.accepter)
                                  ELSE Seats(flow[f].prepared.accepter, flow[f].prepared.challenger)
<1>3. ASSUME IDuels, [Next]_vars, NEW p \in Players, playerToDuel'[p] \notin {0, playerToDuel[p]}
      PROVE  Agreed(p)
  <2>1. StartInstalls
    BY <1>3, OnlyStartsInstall
  <2>2. ICalls /\ IFlows /\ ITypes /\ stack # <<>> /\ Top.op = "start"
    BY <1>3, <2>1 DEF StartInstalls, Running, IDuels, IStarts, ICalls, IFlows
  <2>3. Top \in StartFrame /\ Top \in Calls /\ Calls = {Top} \cup Below
    BY <2>2, Pops, KindOfTop
  <2>4. /\ p \in {Top.seats[0], Top.seats[1]} \ {None}
        /\ playerToDuel'[p] = Len(duelSeats) + 1
    BY <1>3, <2>1 DEF StartInstalls
  <2>5. duelSeats'[playerToDuel'[p]] = Top.seats
    <3>1. /\ duelSeats \in Seq(Seating \cup {NoSeats}) /\ duelSeats' = Append(duelSeats, Top.seats)
          /\ Top.seats \in Seating
      BY <2>1, <2>2, <2>3 DEF ITypes, TypeOK, StartInstalls, StartFrame
    <3> QED
      BY <2>4, <3>1, AppendProperties
  <2>6. /\ playerToDuel[p] = 0
        /\ \A seat \in {0, 1} : Top.seats[seat] # None => Top.decks[seat] = deck[Top.seats[seat]]
    <3>1. CallFree(Top)
      BY <1>3, <2>3 DEF IDuels, SelectionsFree
    <3> QED
      BY <2>2, <2>4, <3>1 DEF CallFree
  <2>7. PICK b \in Below : b.op \in {"finishStart", "soloFinally"}
    <3>1. \E b \in Calls : b.op \in {"finishStart", "soloFinally"}
      BY <1>3, <2>2, <2>3 DEF IDuels, StartsFollow
    <3> QED
      BY <2>2, <2>3, <3>1
  <2>8. Follows(Top, b) /\ b \in Calls
    BY <1>3, <2>3 DEF IDuels, StartsFollow
  <2>9. CASE b.op = "soloFinally"
    <3>1. Top.seats = Seats(b.player, None) /\ b.player \in startingPlayers
      BY <1>3, <2>2, <2>8, <2>9 DEF Follows, IDuels, SoloHeld, SoloOps
    <3>2. p = b.player
      BY <2>4, <3>1 DEF Seats
    <3> QED
      BY <2>5, <2>6, <3>1, <3>2
  <2>10. CASE b.op = "finishStart"
    <3>1. stack[2] = b
      BY <1>3, <2>2, <2>10, ReturnsToFinish
    <3>2. /\ {Top.seats[0], Top.seats[1]} = Pair(b.flow)
          /\ b.goFirst <=> Top.seats[0] = Chooser(b.flow)
          /\ Top.decks = IF Top.seats[0] = flow[b.flow].challenger
                         THEN Seats(flow[b.flow].prepared.challenger, flow[b.flow].prepared.accepter)
                         ELSE Seats(flow[b.flow].prepared.accepter, flow[b.flow].prepared.challenger)
      BY <2>2, <2>8, <2>10 DEF Follows
    <3>3. flows[p] = b.flow
      <4>1. b.flow \in LiveFlows /\ p \in Pair(b.flow)
        BY <1>3, <2>4, <2>8, <2>10, <3>2 DEF IDuels, IStarts, StartsHold, StartOps
      <4> QED
        BY <2>2, <4>1, HeldByFlow
    <3> QED
      BY <2>5, <2>6, <2>10, <3>1, <3>2, <3>3
  <2> QED
    BY <2>7, <2>9, <2>10
<1>4. ASSUME IDuels, [Next]_vars
      PROVE  [\A p \in Players : playerToDuel'[p] \notin {0, playerToDuel[p]} => Agreed(p)]_vars
  BY <1>3, <1>4
<1> QED
  BY <1>1, <1>2, <1>4, PTL DEF Spec, StartsPrepared, Agreed

-----------------------------------------------------------------------------
(***************************************************************************)
(* The promise of Matchmaking: every step proposes a party of two free     *)
(* players, advances one by one stage, begins a duel against the AI,       *)
(* releases one party as a whole, stops the server, or changes nobody's    *)
(* engagement.                                                             *)
(*                                                                         *)
(* The steps that install a duel or end one in the middle of a start are   *)
(* the ones that change nothing: who is in a start stays engaged in it     *)
(* until the start returns (DuelsApart), and what it returns to finds the  *)
(* whole party in the same duel or in none (DuelsPaired).                  *)
(***************************************************************************)
(* How engagements move *)

At(party, stage) == [party |-> party, stage |-> stage]
Idle == At({}, "idle")

LEMMA EngagementIs ==
    ASSUME NEW p
    PROVE  /\ p \in startingPlayers => Engagement(p) = At({p}, "starting")
           /\ p \notin startingPlayers /\ flows[p] # 0 =>
                Engagement(p) = At(Pair(flows[p]), StageOf[flow[flows[p]].mode])
           /\ p \notin startingPlayers /\ flows[p] = 0 /\ playerToDuel[p] # 0 =>
                Engagement(p) = At(Humans(playerToDuel[p]), "dueling")
           /\ p \notin startingPlayers /\ flows[p] = 0 /\ playerToDuel[p] = 0 =>
                Engagement(p) = Idle
BY DEF Engagement, At, Idle

LEMMA EngagementNext ==
    ASSUME NEW p
    PROVE  /\ p \in startingPlayers' => Engagement(p)' = At({p}, "starting")
           /\ p \notin startingPlayers' /\ flows'[p] # 0 =>
                Engagement(p)' = At(Pair(flows[p])', StageOf[flow'[flows'[p]].mode])
           /\ p \notin startingPlayers' /\ flows'[p] = 0 /\ playerToDuel'[p] # 0 =>
                Engagement(p)' = At(Humans(playerToDuel[p])', "dueling")
           /\ p \notin startingPlayers' /\ flows'[p] = 0 /\ playerToDuel'[p] = 0 =>
                Engagement(p)' = Idle
BY DEF Engagement, At, Idle

\* A party moves as a whole, and nobody else does.
Moves(party, from, to) ==
    /\ party \in SUBSET Players
    /\ \A p \in party : Engagement(p) = from
    /\ \A p \in Players : Engagement(p)' = IF p \in party THEN to ELSE Engagement(p)

LEMMA MoveOfPromise ==
    ASSUME NEW party, NEW from, NEW to, Moves(party, from, to)
    PROVE  Promise!Move(party, from, to)
<1>1. \A p \in party : p \in Players
  BY DEF Moves
<1> QED
  BY <1>1 DEF Moves, Promise!Move

Engaged == [p \in Players |-> Engagement(p)]

\* What a step may do, told in terms of Engagement.
Promised ==
    \/ \A p \in Players : Engagement(p)' = Engagement(p)
    \/ \E p, q \in Players : p # q /\ Moves({p, q}, Idle, At({p, q}, "invited"))
    \/ \E p \in Players : Moves({p}, Idle, At({p}, "starting"))
    \/ \E party \in SUBSET Players :
         \/ Moves(party, At(party, "invited"), At(party, "rolling"))
         \/ Moves(party, At(party, "rolling"), At(party, "choosing"))
         \/ Moves(party, At(party, "choosing"), At(party, "starting"))
         \/ Moves(party, At(party, "starting"), At(party, "dueling"))
         \/ \E stage \in Promise!Stages : Moves(party, At(party, stage), Idle)
    \/ \A p \in Players : Engagement(p)' = Idle

LEMMA PromisedNext == ASSUME Promised PROVE [Promise!Next]_Engaged
<1>1. CASE \A p \in Players : Engagement(p)' = Engagement(p)
  BY <1>1 DEF Engaged
<1>2. ASSUME NEW p \in Players, NEW q \in Players, p # q, Moves({p, q}, Idle, At({p, q}, "invited"))
      PROVE  Promise!Next
  <2>1. Promise!Propose(p, q)
    BY <1>2, MoveOfPromise DEF Promise!Propose, Promise!Idle, Promise!At, Idle, At
  <2> QED
    BY <2>1 DEF Promise!Next
<1>3. ASSUME NEW p \in Players, Moves({p}, Idle, At({p}, "starting")) PROVE Promise!Next
  <2>1. Promise!BeginSolo(p)
    BY <1>3, MoveOfPromise DEF Promise!BeginSolo, Promise!Idle, Promise!At, Idle, At
  <2> QED
    BY <2>1 DEF Promise!Next
<1>4. ASSUME NEW party \in SUBSET Players,
             \/ Moves(party, At(party, "invited"), At(party, "rolling"))
             \/ Moves(party, At(party, "rolling"), At(party, "choosing"))
             \/ Moves(party, At(party, "choosing"), At(party, "starting"))
             \/ Moves(party, At(party, "starting"), At(party, "dueling"))
      PROVE  Promise!Next
  <2>1. Promise!Advance(party)
    BY <1>4, MoveOfPromise DEF Promise!Advance, Promise!At, At
  <2> QED
    BY <2>1 DEF Promise!Next
<1>5. ASSUME NEW party \in SUBSET Players, NEW stage \in Promise!Stages,
             Moves(party, At(party, stage), Idle)
      PROVE  Promise!Next
  <2>1. Promise!Release(party)
    BY <1>5, MoveOfPromise DEF Promise!Release, Promise!Idle, Promise!At, Idle, At
  <2> QED
    BY <2>1 DEF Promise!Next
<1>6. CASE \A p \in Players : Engagement(p)' = Idle
  <2>1. Promise!Stop
    BY <1>6 DEF Promise!Stop, Promise!Idle, Idle, At
  <2> QED
    BY <2>1 DEF Promise!Next
<1> QED
  BY <1>1, <1>2, <1>3, <1>4, <1>5, <1>6 DEF Promised

LEMMA EngagementStays ==
    ASSUME NEW p, p \in startingPlayers' <=> p \in startingPlayers, flows'[p] = flows[p],
           flows[p] # 0 => /\ flow'[flows[p]].challenger = flow[flows[p]].challenger
                           /\ flow'[flows[p]].accepter = flow[flows[p]].accepter
                           /\ flow'[flows[p]].mode = flow[flows[p]].mode,
           p \notin startingPlayers /\ flows[p] = 0 =>
             /\ playerToDuel'[p] = playerToDuel[p]
             /\ playerToDuel[p] # 0 => duelSeats'[playerToDuel[p]] = duelSeats[playerToDuel[p]]
    PROVE  Engagement(p)' = Engagement(p)
<1>1. CASE p \in startingPlayers
  BY <1>1, EngagementIs, EngagementNext
<1>2. CASE p \notin startingPlayers /\ flows[p] # 0
  <2>1. Pair(flows[p])' = Pair(flows[p])
    BY <1>2 DEF Pair
  <2> QED
    BY <1>2, <2>1, EngagementIs, EngagementNext
<1>3. CASE p \notin startingPlayers /\ flows[p] = 0
  <2>1. playerToDuel[p] # 0 => Humans(playerToDuel[p])' = Humans(playerToDuel[p])
    BY <1>3 DEF Humans
  <2> QED
    BY <1>3, <2>1, EngagementIs, EngagementNext
<1> QED
  BY <1>1, <1>2, <1>3

\* The duels and the guards of the manager, which a step of the service reads only.
SeatsStay == UNCHANGED <<startingPlayers, playerToDuel, duelSeats>>

LEMMA InFlow ==
    ASSUME IDuels, NEW f \in LiveFlows, NEW p \in Pair(f)
    PROVE  /\ p \in Players /\ flows[p] = f /\ f # 0 /\ f \in FlowIds /\ p \notin startingPlayers
           /\ Engagement(p) = At(Pair(f), StageOf[flow[f].mode])
           /\ flow[f].mode \in Modes
<1>1. IFlows /\ f \in FlowIds /\ flow[f] \in Flow
  BY FlowTyped DEF IDuels, IStarts, ICalls, IFlows, ITypes, LiveFlows
<1>2. p \in Players /\ flows[p] = f /\ flows[p] # 0
  BY <1>1, HeldByFlow
<1>3. p \notin startingPlayers
  BY <1>2 DEF IDuels, SoloHeld
<1> QED
  BY <1>1, <1>2, <1>3, EngagementIs DEF Flow

\* Only the players of a live flow are in it.
LEMMA OutOfFlow ==
    ASSUME IDuels, NEW f \in FlowIds, NEW p \in Players, f \in LiveFlows => p \notin Pair(f)
    PROVE  flows[p] # f /\ flows[p] \in {0} \cup FlowIds
<1>1. IFlows /\ flows[p] \in {0} \cup FlowIds
  BY DEF IDuels, IStarts, ICalls, IFlows, ITypes, TypeOK
<1> QED
  BY <1>1, HeldPair

\* A flow that comes to its end releases both players, or leaves them in the
\* duel it has started.
LEMMA FinishPromised ==
    ASSUME IDuels, NEW f \in FlowIds, NEW result, NEW rest, Finish(f, result, rest), SeatsStay
    PROVE  Promised
<1>1. /\ \A g \in FlowIds : g # f => flow'[g] = flow[g]
      /\ \A p \in Players : flows'[p] = IF flows[p] = f THEN 0 ELSE flows[p]
  BY LiveFinish DEF IDuels, IStarts, ICalls
<1>2. ASSUME NEW p \in Players, f \in LiveFlows => p \notin Pair(f)
      PROVE  Engagement(p)' = Engagement(p)
  <2>1. flows[p] # f /\ flows[p] \in {0} \cup FlowIds
    BY <1>2, OutOfFlow
  <2>2. flows'[p] = flows[p] /\ (flows[p] # 0 => flow'[flows[p]] = flow[flows[p]])
    BY <1>1, <2>1
  <2> QED
    BY <2>2, EngagementStays DEF SeatsStay
<1>3. CASE f \notin LiveFlows
  BY <1>2, <1>3 DEF Promised
<1>4. CASE f \in LiveFlows
  <2> DEFINE party == Pair(f)
  <2>1. \A p \in party : /\ p \in Players /\ flows[p] = f /\ p \notin startingPlayers
                         /\ Engagement(p) = At(party, StageOf[flow[f].mode])
    BY <1>4, InFlow
  <2>2. flow[f].mode \in Modes
    BY <1>4, InFlow DEF Pair
  <2>3. \A p \in party : p \notin startingPlayers' /\ flows'[p] = 0 /\ playerToDuel'[p] = playerToDuel[p]
    BY <1>1, <2>1 DEF SeatsStay
  <2>4. party \in SUBSET Players
    BY <2>1
  <2>5. CASE \A p \in party : playerToDuel[p] = 0
    <3>1. \A p \in party : Engagement(p)' = Idle
      BY <2>3, <2>5, EngagementNext
    <3>2. StageOf[flow[f].mode] \in Promise!Stages
      BY <2>2 DEF StageOf, Modes, Promise!Stages
    <3>3. Moves(party, At(party, StageOf[flow[f].mode]), Idle)
      BY <1>2, <2>1, <2>4, <3>1 DEF Moves
    <3> HIDE DEF party
    <3> QED
      BY <2>4, <3>2, <3>3 DEF Promised
  <2>6. ASSUME NEW q \in party, playerToDuel[q] # 0 PROVE Promised
    <3> DEFINE d == playerToDuel[q]
    <3>1. flow[f].mode = "STARTING" /\ Humans(d) = party
      BY <1>4, <2>6 DEF IDuels, DuelsApart
    <3>2. d \in DuelIds
      BY <2>1, <2>6 DEF IDuels, IStarts, ICalls, IFlows, ITypes, TypeOK
    <3>3. \A p \in party : playerToDuel[p] = d
      BY <2>6, <3>1, <3>2 DEF IDuels, DuelsPaired
    <3>4. duelSeats'[d] = duelSeats[d]
      BY DEF SeatsStay
    <3>5. \A p \in party : Humans(playerToDuel[p])' = party
      BY <2>3, <3>1, <3>3, <3>4 DEF Humans
    <3> HIDE DEF d
    <3>6. \A p \in party : Engagement(p)' = At(party, "dueling")
      <4> SUFFICES ASSUME NEW p \in party PROVE Engagement(p)' = At(party, "dueling")
        OBVIOUS
      <4>1. p \notin startingPlayers' /\ flows'[p] = 0 /\ playerToDuel'[p] # 0
        BY <2>3, <3>2, <3>3 DEF DuelIds
      <4>2. Humans(playerToDuel[p])' = party
        BY <3>5
      <4> QED
        BY <4>1, <4>2, EngagementNext
    <3>7. StageOf[flow[f].mode] = "starting"
      BY <3>1 DEF StageOf
    <3>8. Moves(party, At(party, "starting"), At(party, "dueling"))
      BY <1>2, <2>1, <2>4, <3>6, <3>7 DEF Moves
    <3> HIDE DEF party
    <3> QED
      BY <2>4, <3>8 DEF Promised
  <2> QED
    BY <2>5, <2>6
<1> QED
  BY <1>3, <1>4

\* A flow that goes on takes both players from one stage to the next.
LEMMA RewritePromised ==
    ASSUME IDuels, NEW f \in FlowIds, NEW new, Rewrites(f, new), SeatsStay,
           new.challenger = flow[f].challenger, new.accepter = flow[f].accepter,
           f \in LiveFlows =>
             \/ new.mode = flow[f].mode
             \/ flow[f].mode = "INVITED" /\ new.mode = "RPS"
             \/ flow[f].mode = "RPS" /\ new.mode = "FIRST_CHOICE"
             \/ flow[f].mode = "FIRST_CHOICE" /\ new.mode = "STARTING"
    PROVE  Promised
<1>1. /\ \A g \in FlowIds : flow'[g] = IF g = f THEN new ELSE flow[g]
      /\ \A p \in Players : flows'[p] = flows[p]
  BY RewriteOne DEF IDuels, IStarts, ICalls
<1>2. ASSUME NEW p \in Players, \/ f \notin LiveFlows \/ p \notin Pair(f) \/ new.mode = flow[f].mode
      PROVE  Engagement(p)' = Engagement(p)
  <2>1. CASE flows[p] = f
    <3>1. new.mode = flow[f].mode
      BY <1>2, <2>1, OutOfFlow
    <3> QED
      BY <1>1, <2>1, <3>1, EngagementStays DEF SeatsStay
  <2>2. CASE flows[p] # f
    <3>1. flows[p] # 0 => flow'[flows[p]] = flow[flows[p]]
      BY <1>1, <2>2 DEF IDuels, IStarts, ICalls, IFlows, ITypes, TypeOK
    <3> QED
      BY <1>1, <3>1, EngagementStays DEF SeatsStay
  <2> QED
    BY <2>1, <2>2
<1>3. CASE f \notin LiveFlows \/ new.mode = flow[f].mode
  BY <1>2, <1>3 DEF Promised
<1>4. CASE f \in LiveFlows /\ new.mode # flow[f].mode
  <2> DEFINE party == Pair(f)
             from == At(party, StageOf[flow[f].mode])
             to == At(party, StageOf[new.mode])
  <2>1. \A p \in party : /\ p \in Players /\ flows[p] = f /\ f # 0 /\ p \notin startingPlayers
                         /\ Engagement(p) = from
    BY <1>4, InFlow
  <2>2. Pair(f)' = party
    BY <1>1 DEF Pair
  <2>3. \A p \in party : Engagement(p)' = to
    <3> SUFFICES ASSUME NEW p \in party PROVE Engagement(p)' = to
      OBVIOUS
    <3>1. flows'[p] = f /\ f # 0 /\ p \notin startingPlayers' /\ flow'[f] = new
      BY <1>1, <2>1 DEF SeatsStay
    <3>2. Pair(flows[p])' = party
      BY <2>2, <3>1 DEF Pair
    <3> QED
      BY <3>1, <3>2, EngagementNext
  <2>4. party \in SUBSET Players
    BY <2>1
  <2>5. Moves(party, from, to)
    BY <1>2, <2>1, <2>3, <2>4 DEF Moves
  <2> HIDE DEF party
  <2>6. \/ Moves(party, At(party, "invited"), At(party, "rolling"))
        \/ Moves(party, At(party, "rolling"), At(party, "choosing"))
        \/ Moves(party, At(party, "choosing"), At(party, "starting"))
    BY <1>4, <2>5 DEF StageOf
  <2> QED
    BY <2>4, <2>6 DEF Promised
<1> QED
  BY <1>3, <1>4

\* A flow that is made holds two players who were in nothing.
LEMMA ProposalPromised ==
    ASSUME IDuels, stack # <<>>, FlowProposed, SeatsStay
    PROVE  Promised
<1> DEFINE p == Top.actor
           q == Top.target
           new == Len(flow) + 1
           made == NewFlow(p, q, Top.now)
<1>1. IStarts /\ ICalls /\ IFlows /\ ITypes /\ Top.op = "inviteSelected"
  BY DEF FlowProposed, IDuels, IStarts, ICalls, IFlows
<1>2. Top \in InviteFrame /\ Calls = {Top} \cup Below /\ \A c \in Below : c.op = "reply"
  BY <1>1, Pops, KindOfTop, RoundAlone DEF Rounds
<1>3. p \in Players /\ q \in Players
  BY <1>2 DEF InviteFrame
<1>4. p # q /\ flows[p] = 0 /\ flows[q] = 0
  <2>1. stack \in Seq(Frame) /\ stack[1] = Top /\ 1 \in 1..Len(stack)
    BY <1>1, EmptySeq, LenProperties DEF ITypes, TypeOK, Top
  <2> QED
    BY <1>1, <2>1 DEF IFlows, InvitationUnrivalled
<1>5. playerToDuel[p] = 0 /\ playerToDuel[q] = 0
  BY <1>1, <1>2 DEF IDuels, SelectionsFree, CallFree
<1>6. startingPlayers = {}
  BY <1>1, <1>2 DEF IDuels, SoloHeld, SoloOps
<1>7. /\ flow \in Seq(Flow) /\ Len(flow) \in Nat
      /\ flows \in [Players -> {0} \cup FlowIds]
  BY <1>1, LenProperties DEF ITypes, TypeOK
<1>8. new # 0 /\ flow'[new] = made /\ \A g \in FlowIds : flow'[g] = flow[g]
  BY <1>7 DEF FlowIds, FlowProposed
<1>9. \A x \in Players : flows'[x] = IF x \in {p, q} THEN new ELSE flows[x]
  BY <1>7 DEF FlowProposed
<1>10. made.challenger = p /\ made.accepter = q /\ made.mode = "INVITED"
  BY DEF NewFlow
<1> HIDE DEF p, q, new, made
<1>11. Engagement(p) = Idle /\ Engagement(q) = Idle
  BY <1>4, <1>5, <1>6, EngagementIs
<1>12. ASSUME NEW x \in {p, q} PROVE Engagement(x)' = At({p, q}, "invited")
  <2>1. x \notin startingPlayers' /\ flows'[x] = new
    BY <1>3, <1>6, <1>9 DEF SeatsStay
  <2>2. Pair(flows[x])' = {p, q}
    BY <1>8, <1>10, <2>1 DEF Pair
  <2>3. StageOf[flow'[flows'[x]].mode] = "invited"
    BY <1>8, <1>10, <2>1 DEF StageOf
  <2> QED
    BY <1>8, <2>1, <2>2, <2>3, EngagementNext
<1>13. ASSUME NEW x \in Players, x \notin {p, q} PROVE Engagement(x)' = Engagement(x)
  <2>1. flows'[x] = flows[x] /\ (flows[x] # 0 => flow'[flows[x]] = flow[flows[x]])
    BY <1>7, <1>8, <1>9, <1>13
  <2> QED
    BY <2>1, EngagementStays DEF SeatsStay
<1>14. Moves({p, q}, Idle, At({p, q}, "invited"))
  BY <1>3, <1>11, <1>12, <1>13 DEF Moves
<1> QED
  BY <1>3, <1>4, <1>14 DEF Promised

\* A request takes its flow to the next stage, or leaves it in its stage.
LEMMA AdvancePromised ==
    ASSUME IDuels, stack # <<>>, FlowAdvances, SeatsStay
    PROVE  Promised
<1> IStarts /\ ICalls /\ IFlows /\ ITypes
  BY DEF IDuels, IStarts, ICalls, IFlows
<1>1. Top \in Calls /\ \A f \in FlowIds : flow[f] \in Flow
  <2>1. Top \in Calls
    BY Pops
  <2>2. \A f \in FlowIds : flow[f] \in Flow
    BY FlowTyped DEF ITypes
  <2> QED
    BY <2>1, <2>2
<1>2. CASE Top.op = "hand" /\ Top.id \in FlowIds /\ HandAwaited(Top) /\ Rewrites(Top.id, Played(Top))
  <2>1. Top \in HandFrame(FlowIds)
    BY <1>1, <1>2, Pops, KindOfTop
  <2>2. Top.hand \in Hands /\ Top.actor \in Players
    BY <2>1 DEF HandFrame
  <2>3. Top.actor \in Pair(Top.id) /\ flow[Top.id].challenger # flow[Top.id].accepter
    BY <1>1, <1>2, <2>2, HeldPair DEF HandAwaited
  <2>4. /\ Played(Top).challenger = flow[Top.id].challenger
        /\ Played(Top).accepter = flow[Top.id].accepter
        /\ Played(Top).mode \in {"RPS", "FIRST_CHOICE"} /\ flow[Top.id].mode = "RPS"
    BY <1>1, <1>2, <2>2, <2>3, PlayedRecord DEF HandAwaited, Pair
  <2> QED
    BY <1>2, <2>4, RewritePromised
<1>3. CASE /\ Top.op = "acceptSelected" /\ Top.id \in FlowIds /\ Rewrites(Top.id, Accepted(Top))
  <2>1. Top.id \in LiveFlows => flow[Top.id].mode = "INVITED"
    BY <1>1, <1>3 DEF IStarts, AcceptStands
  <2>2. /\ Accepted(Top).mode = "RPS" /\ Accepted(Top).challenger = flow[Top.id].challenger
        /\ Accepted(Top).accepter = flow[Top.id].accepter
    BY <1>1, <1>3, AcceptedRecord
  <2> QED
    BY <1>3, <2>1, <2>2, RewritePromised
<1>4. CASE /\ Top.op = "first" /\ Top.id \in FlowIds /\ MayChoose(Top)
           /\ Rewrites(Top.id, [flow[Top.id] EXCEPT !.mode = "STARTING"])
  <2> DEFINE new == [flow[Top.id] EXCEPT !.mode = "STARTING"]
  <2>1. /\ new.mode = "STARTING" /\ new.challenger = flow[Top.id].challenger
        /\ new.accepter = flow[Top.id].accepter /\ flow[Top.id].mode = "FIRST_CHOICE"
    BY <1>1, <1>4 DEF Flow, MayChoose
  <2>2. Rewrites(Top.id, new)
    BY <1>4
  <2> HIDE DEF new
  <2> QED
    BY <1>4, <2>1, <2>2, RewritePromised
<1>5. CASE /\ Top.op = "logout" /\ flows[Top.player] \in FlowIds
           /\ Rewrites(flows[Top.player],
                       [flow[flows[Top.player]] EXCEPT !.loggedOutDuringStart = TRUE])
  <2> DEFINE f == flows[Top.player]
             new == [flow[f] EXCEPT !.loggedOutDuringStart = TRUE]
  <2>1. /\ new.mode = flow[f].mode /\ new.challenger = flow[f].challenger
        /\ new.accepter = flow[f].accepter
    BY <1>1, <1>5 DEF Flow
  <2>2. f \in FlowIds /\ Rewrites(f, new)
    BY <1>5
  <2> HIDE DEF new, f
  <2> QED
    BY <2>1, <2>2, RewritePromised
<1> QED
  BY <1>2, <1>3, <1>4, <1>5 DEF FlowAdvances

\* Steps that change no duel and hold no guard.
LEMMA FlowsPromised == ASSUME IDuels, [Next]_vars, SeatsStay, ~Shutdown PROVE Promised
<1>1. CASE UNCHANGED <<flow, flows>>
  <2>1. \A p \in Players : Engagement(p)' = Engagement(p)
    BY <1>1, EngagementStays DEF SeatsStay
  <2> QED
    BY <2>1 DEF Promised
<1>2. CASE \E g \in FlowIds : \E result, rest : Finish(g, result, rest)
  BY <1>2, FinishPromised
<1>3. CASE stack # <<>> /\ (FlowAdvances \/ FlowProposed)
  BY <1>3, AdvancePromised, ProposalPromised
<1> QED
  BY <1>1, <1>2, <1>3, FlowsMove DEF IDuels

-----------------------------------------------------------------------------
(* The steps of the manager *)

\* A duel that is over releases its players, unless they are in the start that
\* has made it: then the start does, when it returns.
LEMMA DuelEndPromised ==
    ASSUME IDuels, NEW id \in DuelIds, EndDuel(id), UNCHANGED <<flow, flows, startingPlayers>>
    PROVE  Promised
<1>1. IFlows /\ ITypes /\ DuelsPaired /\ DuelsApart /\ id # 0
  BY DEF IDuels, IStarts, ICalls, IFlows, DuelIds
<1>2. \A p \in Players : playerToDuel[p] \in {0} \cup DuelIds /\ flows[p] \in {0} \cup FlowIds
  BY <1>1 DEF ITypes, TypeOK
<1>3. \A d \in DuelIds : d # id => duelSeats'[d] = duelSeats[d]
  <2>1. duelSeats \in Seq(Seating \cup {NoSeats}) /\ Len(duelSeats) \in Nat
    BY <1>1, LenProperties DEF ITypes, TypeOK
  <2> QED
    BY <2>1 DEF EndDuel, DuelIds
<1>4. \A p \in Players : playerToDuel'[p] = IF playerToDuel[p] = id THEN 0 ELSE playerToDuel[p]
  BY <1>1 DEF EndDuel, DuelsPaired
<1>5. ASSUME NEW p \in Players, playerToDuel[p] # id \/ p \in startingPlayers \/ flows[p] # 0
      PROVE  Engagement(p)' = Engagement(p)
  <2>1. p \notin startingPlayers /\ flows[p] = 0 =>
          /\ playerToDuel'[p] = playerToDuel[p]
          /\ playerToDuel[p] # 0 => duelSeats'[playerToDuel[p]] = duelSeats[playerToDuel[p]]
    BY <1>2, <1>3, <1>4, <1>5
  <2> QED
    BY <2>1, EngagementStays
<1>6. CASE \A p \in Humans(id) : p \in startingPlayers \/ flows[p] # 0
  <2>1. \A p \in Players : playerToDuel[p] = id => p \in Humans(id)
    BY <1>1 DEF DuelsPaired
  <2> QED
    BY <1>5, <1>6, <2>1 DEF Promised
<1>7. ASSUME NEW q \in Humans(id), q \notin startingPlayers, flows[q] = 0 PROVE Promised
  <2> DEFINE party == Humans(id)
  <2>1. party \in SUBSET Players
    BY <1>1, SeatsPeople
  <2>2. \A p \in party : playerToDuel[p] = id
    BY <1>1, <1>7 DEF DuelsPaired
  <2>3. ASSUME NEW p \in party PROVE p \notin startingPlayers /\ flows[p] = 0
    <3>1. CASE p \in startingPlayers
      <4>1. Humans(id) = {p}
        BY <1>1, <2>2, <3>1 DEF DuelsApart
      <4> QED
        BY <1>7, <3>1, <4>1
    <3>2. CASE flows[p] # 0
      <4> DEFINE f == flows[p]
      <4>1. f \in FlowIds /\ p \in Players
        BY <1>2, <2>1, <3>2
      <4>2. f \in LiveFlows /\ p \in Pair(f) /\ \A x \in Pair(f) : flows[x] = f
        BY <1>1, <4>1, HeldPair
      <4>3. Humans(id) = Pair(f)
        BY <1>1, <2>2, <4>2 DEF DuelsApart
      <4> QED
        BY <1>7, <3>2, <4>2, <4>3
    <3> QED
      BY <3>1, <3>2
  <2>4. \A p \in party : Engagement(p) = At(party, "dueling")
    BY <1>1, <2>2, <2>3, EngagementIs
  <2>5. \A p \in party : p \notin startingPlayers' /\ flows'[p] = 0 /\ playerToDuel'[p] = 0
    BY <1>4, <2>1, <2>2, <2>3
  <2>6. \A p \in party : Engagement(p)' = Idle
    BY <2>5, EngagementNext
  <2>7. \A p \in Players : p \notin party => playerToDuel[p] # id
    BY <1>1 DEF DuelsPaired
  <2>8. Moves(party, At(party, "dueling"), Idle)
    BY <1>5, <2>1, <2>4, <2>6, <2>7 DEF Moves
  <2>9. "dueling" \in Promise!Stages
    BY DEF Promise!Stages
  <2> HIDE DEF party
  <2> QED
    BY <2>1, <2>8, <2>9 DEF Promised
<1> QED
  BY <1>6, <1>7

\* Whoever is seated by a start is held by it: by its flow or by its guard.
LEMMA SeatedAreHeld ==
    ASSUME IDuels, stack # <<>>, Top.op = "start",
           NEW p \in {Top.seats[0], Top.seats[1]} \ {None}
    PROVE  p \in startingPlayers \/ flows[p] # 0
<1>1. ICalls /\ IFlows
  BY DEF IDuels, IStarts, ICalls
<1>2. Top \in StartFrame /\ Top \in Calls
  BY <1>1, Pops, KindOfTop
<1>3. PICK b \in Calls : b.op \in {"finishStart", "soloFinally"}
  BY <1>2 DEF IDuels, StartsFollow
<1>4. Follows(Top, b)
  BY <1>2 DEF IDuels, StartsFollow
<1>5. CASE b.op = "finishStart"
  <2>1. b.flow \in LiveFlows /\ p \in Pair(b.flow)
    BY <1>4, <1>5 DEF Follows, IDuels, IStarts, StartsHold, StartOps
  <2> QED
    BY <1>1, <2>1, HeldByFlow
<1>6. CASE b.op = "soloFinally"
  <2>1. Top.seats[0] = b.player /\ Top.seats[1] = None
    BY <1>4, <1>6 DEF Follows, Seats
  <2>2. b.player \in startingPlayers
    BY <1>6 DEF IDuels, SoloHeld, SoloOps
  <2> QED
    BY <2>1, <2>2
<1> QED
  BY <1>3, <1>5, <1>6

\* A duel that is installed is still a start to the players.
LEMMA InstallPromised ==
    ASSUME IDuels, StartInstalls, UNCHANGED <<flow, flows, startingPlayers>>
    PROVE  Promised
<1> DEFINE owners == {Top.seats[0], Top.seats[1]} \ {None}
<1>1. /\ duelSeats \in Seq(Seating \cup {NoSeats}) /\ Len(duelSeats) \in Nat
      /\ \A p \in Players : playerToDuel[p] \in {0} \cup DuelIds
  BY LenProperties DEF IDuels, IStarts, ICalls, IFlows, ITypes, TypeOK
<1>2. \A d \in DuelIds : duelSeats'[d] = duelSeats[d]
  BY <1>1 DEF StartInstalls, DuelIds
<1>3. \A p \in Players : p \notin owners => playerToDuel'[p] = playerToDuel[p]
  BY DEF StartInstalls
<1>4. \A p \in owners : p \in startingPlayers \/ flows[p] # 0
  BY SeatedAreHeld DEF StartInstalls, Running
<1> HIDE DEF owners
<1>5. ASSUME NEW p \in Players PROVE Engagement(p)' = Engagement(p)
  <2>1. p \notin startingPlayers /\ flows[p] = 0 =>
          /\ playerToDuel'[p] = playerToDuel[p]
          /\ playerToDuel[p] # 0 => duelSeats'[playerToDuel[p]] = duelSeats[playerToDuel[p]]
    BY <1>1, <1>2, <1>3, <1>4
  <2> QED
    BY <2>1, EngagementStays
<1> QED
  BY <1>5 DEF Promised

LEMMA DuelStepPromised == ASSUME IDuels, [Next]_vars, DuelStep PROVE Promised
<1>1. ICalls /\ UNCHANGED <<flow, flows, startingPlayers>>
  BY DEF IDuels, IStarts, DuelStep, prepVars
<1>2. activeDuels \subseteq DuelIds
  BY DEF IDuels, IStarts, ICalls, IFlows, ITypes, TypeOK
<1>3. CASE UNCHANGED <<managerVars, playerToDuel>>
  <2>1. SeatsStay
    BY <1>1, <1>3 DEF SeatsStay, managerVars
  <2>2. \A p \in Players : Engagement(p)' = Engagement(p)
    BY <1>1, <2>1, EngagementStays DEF SeatsStay
  <2> QED
    BY <2>2 DEF Promised
<1>4. CASE StartInstalls
  BY <1>1, <1>4, InstallPromised
<1>5. ASSUME NEW id, NEW rest, FinishDuel(id, rest) PROVE Promised
  BY <1>1, <1>2, <1>5, DuelEndPromised DEF FinishDuel
<1>6. CASE SetupThrows
  <2>1. stack # <<>> /\ Top \in SetupFrame(DuelIds)
    BY <1>1, <1>6, Pops, KindOfTop DEF SetupThrows, Running
  <2>2. Top.duel \in DuelIds /\ EndDuel(Top.duel)
    BY <1>6, <2>1 DEF SetupThrows, SetupFrame
  <2> QED
    BY <1>1, <2>2, DuelEndPromised
<1> QED
  BY <1>3, <1>4, <1>5, <1>6 DEF DuelStep, SetupRuns, SetupCompletes, Leave, ResponseEndsDuel, Forfeit

\* startSoloDuel takes a player who is in nothing.
LEMMA SoloGuardPromised ==
    ASSUME IDuels, SoloGuard, UNCHANGED <<prepVars, playerToDuel, duelSeats>>
    PROVE  Promised
<1>1. ICalls /\ stack # <<>> /\ Top.op = "soloGuard"
  BY DEF SoloGuard, Running, IDuels, IStarts
<1>2. Below = {}
  BY <1>1, SoloGuardCalls
<1>3. Top \in PlayerFrame /\ Calls = {Top}
  BY <1>1, <1>2, Pops, KindOfTop
<1> PICK p \in Players : p = Top.player
  BY <1>1, <1>3 DEF PlayerFrame
<1>4. playerToDuel[p] = 0 /\ flows[p] = 0
  <2>1. CallFree(Top) /\ SoloFree(Top, {Top})
    BY <1>3 DEF IDuels, SelectionsFree, SoloHeld
  <2> QED
    BY <1>1, <1>3, <2>1 DEF CallFree, SoloFree
<1>5. startingPlayers = {} /\ startingPlayers' = {p}
  <2>1. startingPlayers = {}
    BY <1>1, <1>3 DEF IDuels, SoloHeld, SoloOps
  <2> QED
    BY <2>1 DEF SoloGuard
<1>6. flow' = flow /\ flows' = flows /\ playerToDuel' = playerToDuel /\ duelSeats' = duelSeats
  BY DEF prepVars
<1>7. Engagement(p) = Idle /\ Engagement(p)' = At({p}, "starting")
  BY <1>4, <1>5, EngagementIs, EngagementNext
<1>8. ASSUME NEW x \in Players, x # p PROVE Engagement(x)' = Engagement(x)
  <2>1. x \in startingPlayers' <=> x \in startingPlayers
    BY <1>5, <1>8
  <2> QED
    BY <1>6, <2>1, EngagementStays
<1>9. Moves({p}, Idle, At({p}, "starting"))
  BY <1>4, <1>7, <1>8 DEF Moves
<1> QED
  BY <1>4, <1>9 DEF Promised

\* A start against the AI comes to its end with a duel of the player alone,
\* or with none.
LEMMA SoloFinallyPromised ==
    ASSUME IDuels, SoloFinally, UNCHANGED <<prepVars, playerToDuel, duelSeats>>
    PROVE  Promised
<1>1. ICalls /\ ITypes /\ stack # <<>> /\ Top.op = "soloFinally"
  BY DEF SoloFinally, Running, IDuels, IStarts, ICalls, IFlows
<1>2. Below = {}
  BY <1>1, SoloFinallyCalls
<1>3. Top \in PlayerFrame /\ Calls = {Top}
  BY <1>1, <1>2, Pops, KindOfTop
<1> PICK p \in Players : p = Top.player
  BY <1>1, <1>3 DEF PlayerFrame
<1>4. p \in startingPlayers /\ flows[p] = 0
  BY <1>1, <1>3 DEF IDuels, SoloHeld, SoloOps
<1>5. startingPlayers \subseteq {p} /\ startingPlayers' = startingPlayers \ {p}
  BY <1>3 DEF IDuels, SoloHeld, SoloFinally
<1>6. flow' = flow /\ flows' = flows /\ playerToDuel' = playerToDuel /\ duelSeats' = duelSeats
  BY DEF prepVars
<1>7. playerToDuel[p] = 0 \/ Humans(playerToDuel[p]) = {p}
  BY <1>4 DEF IDuels, DuelsApart
<1>8. Engagement(p) = At({p}, "starting")
  BY <1>4, EngagementIs
<1>9. ASSUME NEW x \in Players, x # p PROVE Engagement(x)' = Engagement(x)
  <2>1. x \in startingPlayers' <=> x \in startingPlayers
    BY <1>5, <1>9
  <2> QED
    BY <1>6, <2>1, EngagementStays
<1>10. p \notin startingPlayers'
  BY <1>5
<1>11. CASE playerToDuel[p] = 0
  <2>1. Engagement(p)' = Idle
    BY <1>4, <1>6, <1>10, <1>11, EngagementNext
  <2>2. Moves({p}, At({p}, "starting"), Idle)
    BY <1>4, <1>8, <1>9, <2>1 DEF Moves
  <2>3. "starting" \in Promise!Stages /\ {p} \in SUBSET Players
    BY <1>4 DEF Promise!Stages
  <2> QED
    BY <2>2, <2>3 DEF Promised
<1>12. CASE playerToDuel[p] # 0
  <2>1. Humans(playerToDuel[p])' = {p}
    BY <1>6, <1>7, <1>12 DEF Humans
  <2>2. Engagement(p)' = At({p}, "dueling")
    BY <1>4, <1>6, <1>10, <1>12, <2>1, EngagementNext
  <2>3. Moves({p}, At({p}, "starting"), At({p}, "dueling"))
    BY <1>4, <1>8, <1>9, <2>2 DEF Moves
  <2>4. {p} \in SUBSET Players
    BY <1>4
  <2> QED
    BY <2>3, <2>4 DEF Promised
<1> QED
  BY <1>11, <1>12

LEMMA ShutdownPromised == ASSUME Shutdown PROVE Promised
<1>1. \A p \in Players : p \notin startingPlayers' /\ flows'[p] = 0 /\ playerToDuel'[p] = 0
  BY DEF Shutdown
<1>2. \A p \in Players : Engagement(p)' = Idle
  BY <1>1, EngagementNext
<1> QED
  BY <1>2 DEF Promised

LEMMA NextPromised == ASSUME IDuels, [Next]_vars PROVE Promised
<1>1. CASE ServiceStep \/ ServiceResumes \/ NotifyStep \/ SelectionStep \/ CheckStep
  <2>1. SeatsStay
    BY <1>1 DEF ServiceStep, ServiceResumes, NotifyStep, SelectionStep, CheckStep, SeatsStay,
       hostVars, managerVars
  <2> QED
    BY <2>1, FlowsPromised, ShutdownPromised
<1>2. CASE DropStep \/ DeckStep \/ Request \/ ClockTicks \/ UNCHANGED vars
  <2>1. SeatsStay
    BY <1>2 DEF DropStep, DeckStep, Request, ClockTicks, vars, SeatsStay, hostVars, managerVars
  <2> QED
    BY <2>1, FlowsPromised, ShutdownPromised
<1>3. CASE SoloStep
  <2>1. UNCHANGED <<prepVars, playerToDuel, duelSeats>>
    BY <1>3 DEF SoloStep, managerVars
  <2> QED
    BY <1>3, <2>1, SoloGuardPromised, SoloFinallyPromised DEF SoloStep
<1> QED
  BY <1>1, <1>2, <1>3, DuelStepPromised, ShutdownPromised DEF Next, ThreadStep

-----------------------------------------------------------------------------
(* The theorem *)

LEMMA InitPromise == ASSUME Init PROVE Promise!Init
<1>1. \A p \in Players : p \notin startingPlayers /\ flows[p] = 0 /\ playerToDuel[p] = 0
  BY DEF Init
<1>2. \A p \in Players : Engagement(p) = Idle
  BY <1>1, EngagementIs
<1> QED
  BY <1>2 DEF Promise!Init, Promise!Idle, Idle, At

\* Whatever the order of requests, expiries, disconnects and re-entrant calls,
\* the service and the manager together keep the promise of Matchmaking: a
\* player is in one party at a time, its members pass the same stages in the
\* same order, and it comes and goes as a whole.
THEOREM PromiseKept == Spec => KeepsPromise
<1>1. Init => IDuels /\ Promise!Init
  BY InitDuels, InitPromise
<1>2. IDuels /\ [Next]_vars => IDuels'
  BY NextKeepsDuels
<1>3. IDuels /\ [Next]_vars => [Promise!Next]_Engaged
  BY NextPromised, PromisedNext
<1> QED
  BY <1>1, <1>2, <1>3, PTL DEF Spec, KeepsPromise, Promise!Spec, Engaged

=============================================================================
