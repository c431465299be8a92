------------------------------ MODULE DuelManager ------------------------------
(***************************************************************************)
(* DuelManager: the Host of DuelPreparationService, the owner of the live  *)
(* duels, and the entry points of the server.  Together with the service   *)
(* it is the whole path of a player from an invitation to a duel and back. *)
(*                                                                         *)
(* A duel is opaque here: the engine may end it whenever it runs.  Clients *)
(* keep what they were sent last, and the connection delivers in order.    *)
(***************************************************************************)
EXTENDS DuelPreparation

CONSTANTS
    ListenerDisconnects,  \* may a DeckUseCheckEvent listener disconnect the owner it checks?
    MaxClock,             \* bound on the clock
    MaxFlows,             \* bound on the invitations ever made
    MaxDuels,             \* bound on the duels installed by the time one is asked for
    MaxRevision           \* bound on the revision at which a solo duel is asked for

VARIABLES
    deck,           \* player -> active deck of the saved collection, or None
    activeDuels,    \* ids of the duels with a session
    duelSeats,      \* seats of every duel ever installed; its index is its id
    announcements,  \* player -> last actionable step announced in chat
    client          \* player -> what the connected client shows

managerVars == <<deck, activeDuels, duelSeats>>
hostVars == <<online, playerToDuel, startingPlayers>>
returns == <<selected, started>>
vars == <<clock, stack, prepVars, returns, hostVars, managerVars, announcements, client>>

ASSUME ListenerAssumption == ListenerDisconnects \in BOOLEAN
ASSUME BoundsAssumption == {MaxClock, MaxFlows, MaxDuels, MaxRevision} \subseteq Nat

-----------------------------------------------------------------------------
(* Data *)

\* The AI's seat is None, and so are both seats of a duel that is over.
Seats(first, second) == [seat \in {0, 1} |-> IF seat = 0 THEN first ELSE second]
NoSeats == Seats(None, None)
DuelIds == 1..Len(duelSeats)
Humans(id) == {duelSeats[id][seat] : seat \in {0, 1}} \ {None}

NoSelection == [p \in Players |-> None]

\* A client holds the last view, the prompt the chat asked last, and the duel
\* whose screen is live.
Disconnected == [view |-> None, prompt |-> None, duel |-> 0]

IsBusy(p) == playerToDuel[p] # 0 \/ IsPreparing(p) \/ p \in startingPlayers

\* ClientPreparationState.receive applies a view unless it holds a newer one.
Receive(p, v, result, prompt) ==
    LET held == client[p].view
        new == IF held = None \/ v.revision >= held.revision
               THEN [client[p] EXCEPT !.view = v, !.duel = IF result = "START_FAILED" THEN 0 ELSE @]
               ELSE client[p] IN
    client' = IF p \in online THEN [client EXCEPT ![p] = [new EXCEPT !.prompt = prompt]] ELSE client

\* The duel screen of the connected players of a group: opened on DuelStart,
\* no longer live once DuelEnd gives the result.
Show(group, id) ==
    client' = [p \in Players |-> IF p \in group \cap online
                                 THEN [client[p] EXCEPT !.duel = id] ELSE client[p]]

-----------------------------------------------------------------------------
(* publish: the notification of a player *)

Actionable(v) ==
    \/ v.mode = "INVITED" /\ ~v.outgoing
    \/ v.mode = "RPS" /\ ~v.ownHandSubmitted
    \/ v.mode = "FIRST_CHOICE" /\ v.canChooseFirst

\* The step a prompt in chat asks for.
Asked(v) == [flow |-> v.flow, mode |-> v.mode, round |-> v.round]

\* Mutant: the rounds of a flow are not told apart.
AnnouncementKeyOfFlow(v) == [flow |-> v.flow, mode |-> v.mode, round |-> 0]

AnnouncementKey(v) == [flow |-> v.flow, mode |-> v.mode, round |-> v.round]

Notify ==
    /\ Running("changed")
    /\ IF Top.player \in online
       THEN Call(Expiry(clock) \o <<[Top EXCEPT !.op = "publish"]>>)
       ELSE Return

\* A step is announced once, unless the message reports how a flow ended.
Publish ==
    /\ Running("publish")
    /\ LET p == Top.player
           v == View(p)
           key == AnnouncementKey(v)
           told == /\ Actionable(v) /\ announcements[p] # key
                   /\ Top.result \notin {"START_FAILED", "STALE", "OFFLINE"} IN
       /\ announcements' =
            CASE v.mode \in {"IDLE", "DUEL"} -> [announcements EXCEPT ![p] = None]
              [] Actionable(v) -> [announcements EXCEPT ![p] = key]
              [] OTHER -> announcements
       /\ Receive(p, v, Top.result, IF told THEN Asked(v) ELSE client[p].prompt)
    /\ Return

\* PreparationPayloadHandler.apply answers every request with the actor's view
\* at the time the request came: by then every flow overdue at it is gone.
ReplyCall(p) == [op |-> "reply", player |-> p]

Reply ==
    /\ Running("reply")
    /\ Receive(Top.player, View(Top.player), "OK", client[Top.player].prompt)
    /\ Return
    /\ UNCHANGED announcements

-----------------------------------------------------------------------------
(* selection: the active deck, evaluated again by the deck policy.  Without *)
(* an eligible one the opponent is told, through a view of the owner.       *)

Denied == Call(Expiry(clock)) /\ UNCHANGED selected

SelectionMissing ==
    /\ Running("selection")
    /\ deck[Top.player] = None
    /\ Denied
    /\ UNCHANGED deck

SelectionFails ==
    /\ Running("selection")
    /\ deck[Top.player] # None
    /\ Denied
    /\ UNCHANGED deck

SelectionRejected ==
    /\ Running("selection")
    /\ deck[Top.player] # None
    /\ deck' = [deck EXCEPT ![Top.player] = IF Top.player \in online THEN None ELSE @]
    /\ Denied

SelectionAccepted ==
    /\ Running("selection")
    /\ deck[Top.player] # None
    /\ selected' = [selected EXCEPT ![Top.player] = deck[Top.player]]
    /\ Return
    /\ UNCHANGED deck

\* Connection lost: the player is gone and logout() is called.
Drop(p, rest) ==
    /\ online' = online \ {p}
    /\ client' = [client EXCEPT ![p] = Disconnected]
    /\ announcements' = [announcements EXCEPT ![p] = None]
    /\ stack' = <<[op |-> "logout", player |-> p], [op |-> "leave", player |-> p]>> \o rest

ListenerDisconnectsOwner ==
    /\ ListenerDisconnects
    /\ Running("selection")
    /\ deck[Top.player] # None
    /\ Top.player \in online
    /\ Drop(Top.player, stack)

-----------------------------------------------------------------------------
(* endDuel and finishDuel *)

\* Mutant: the AI's seat is notified too.
DuelEndedCallsBoth(seats) ==
    <<[op |-> "duelEnded", player |-> seats[0]], [op |-> "duelEnded", player |-> seats[1]]>>

DuelEndedCalls(seats) ==
    LET ended(p) == [op |-> "duelEnded", player |-> p] IN
    IF seats[1] = None THEN <<ended(seats[0])>> ELSE <<ended(seats[0]), ended(seats[1])>>

\* Mutant: only the first seat's player is released.
EndDuelFirst(id) ==
    /\ activeDuels' = activeDuels \ {id}
    /\ duelSeats' = [duelSeats EXCEPT ![id] = NoSeats]
    /\ playerToDuel' = [playerToDuel EXCEPT ![duelSeats[id][0]] = 0]
    /\ UNCHANGED deck

EndDuel(id) ==
    /\ activeDuels' = activeDuels \ {id}
    /\ duelSeats' = [duelSeats EXCEPT ![id] = NoSeats]
    /\ playerToDuel' = [p \in Players |-> IF p \in Humans(id) /\ playerToDuel[p] = id
                                          THEN 0 ELSE playerToDuel[p]]
    /\ UNCHANGED deck

FinishDuel(id, rest) ==
    /\ id \in activeDuels
    /\ Show(Humans(id), 0)
    /\ EndDuel(id)
    /\ stack' = DuelEndedCalls(duelSeats[id]) \o rest

-----------------------------------------------------------------------------
(* startPrepared: both decks are checked again, then the duel starts *)

CurrentCall(p, d) == [op |-> "current", player |-> p, deck |-> d]
StartCall(seats, decks) == [op |-> "start", seats |-> seats, decks |-> decks]

StartPrepared ==
    /\ Running("startPrepared")
    /\ LET f == flow[Top.flow] IN
       Call(<<CurrentCall(f.challenger, f.prepared.challenger),
              CurrentCall(f.accepter, f.prepared.accepter), [Top EXCEPT !.op = "startChecked"]>>)

Current ==
    /\ Running("current")
    /\ IF /\ Top.player \in online
          /\ playerToDuel[Top.player] = 0
          /\ deck[Top.player] = Top.deck
       THEN Call(<<SelectionCall(Top.player)>>)
       ELSE Return

StartChecked ==
    /\ Running("startChecked")
    /\ LET f == flow[Top.flow]
           p == f.challenger
           q == f.accepter IN
       IF selected[p] # None /\ selected[q] # None
       THEN Call(<<IF Top.firstSeat = 0
                   THEN StartCall(Seats(p, q), Seats(f.prepared.challenger, f.prepared.accepter))
                   ELSE StartCall(Seats(q, p), Seats(f.prepared.accepter, f.prepared.challenger))>>)
       ELSE Return
    /\ selected' = NoSelection

-----------------------------------------------------------------------------
(* start: allocate the session, register it, set it up and run it *)

StartThrows ==
    /\ Running("start")
    /\ started' = FALSE
    /\ Return

StartInstalls ==
    /\ Running("start")
    /\ LET id == Len(duelSeats) + 1
           owners == {Top.seats[0], Top.seats[1]} \ {None} IN
       /\ activeDuels' = activeDuels \cup {id}
       /\ duelSeats' = Append(duelSeats, Top.seats)
       /\ playerToDuel' = [p \in Players |-> IF p \in owners THEN id ELSE playerToDuel[p]]
       /\ Show(owners, id)
       /\ Call(<<[op |-> "setup", duel |-> id]>>)

SetupRuns ==
    /\ Running("setup")
    /\ started' = TRUE
    /\ Return
    /\ UNCHANGED <<managerVars, playerToDuel, client>>

\* The engine ends the duel before the first prompt.
SetupCompletes ==
    /\ Running("setup")
    /\ started' = TRUE
    /\ FinishDuel(Top.duel, Rest)

\* The duel may be over already: ending it again changes nothing, as it has no seats left.
SetupThrows ==
    /\ Running("setup")
    /\ started' = FALSE
    /\ EndDuel(Top.duel)
    /\ Return
    /\ UNCHANGED client

-----------------------------------------------------------------------------
(* startSoloDuel *)

SoloCall(op, p) == [op |-> op, player |-> p]

\* cancel() of whatever flow the view of the player names.
CancelOwn ==
    /\ Running("cancelOwn")
    /\ LET p == Top.player IN
       IF flows[p] = 0 THEN Return
       ELSE Call(Expiry(clock) \o <<[op |-> "cancel", actor |-> p, id |-> flows[p],
                                     now |-> clock]>>)

SoloGuard ==
    /\ Running("soloGuard")
    /\ startingPlayers' = startingPlayers \cup {Top.player}
    /\ Call(<<SelectionCall(Top.player), SoloCall("soloSelected", Top.player)>>)

SoloSelected ==
    /\ Running("soloSelected")
    /\ LET p == Top.player IN
       IF selected[p] = None
       THEN Call(<<SoloCall("soloFinally", p)>>)
       ELSE Call(<<CurrentCall(p, selected[p]), SoloCall("soloChecked", p),
                   SoloCall("soloFinally", p)>>)
    /\ selected' = NoSelection

SoloChecked ==
    /\ Running("soloChecked")
    /\ LET p == Top.player IN
       \/ selected[p] # None /\ Call(<<StartCall(Seats(p, None), Seats(selected[p], None))>>)
       \/ Return      \* not eligible any more, or the AI's deck is not legal
    /\ selected' = NoSelection

SoloFinally ==
    /\ Running("soloFinally")
    /\ startingPlayers' = startingPlayers \ {Top.player}
    /\ started' = FALSE
    /\ Call(<<[op |-> "startFinished", player |-> Top.player, success |-> started]>>)

Leave ==
    /\ Running("leave")
    /\ LET id == playerToDuel[Top.player] IN
       IF id \in activeDuels THEN FinishDuel(id, Rest)
       ELSE Return /\ UNCHANGED <<managerVars, playerToDuel, client>>

-----------------------------------------------------------------------------
(* What reaches the server between two handlers *)

Waiting == stack = <<>>

\* A deadline set now still fits in the clock.
Admitted(command) ==
    /\ Waiting
    /\ command.actor \in online
    /\ clock + Step =< MaxClock

\* A packet is answered with the actor's view; a chat command with a line of
\* chat only.
ServePacket(command) ==
    /\ Admitted(command)
    /\ stack' = Expiry(clock) \o <<command, ReplyCall(command.actor)>>
ServeChat(command) ==
    /\ Admitted(command)
    /\ stack' = Expiry(clock) \o <<command>>

Serve(command) == ServePacket(command) \/ ServeChat(command)

RequestView(p) ==
    /\ Waiting
    /\ p \in online
    /\ stack' = Expiry(clock) \o <<ReplyCall(p)>>

RequestInvite(p, q) ==
    /\ Len(flow) < MaxFlows
    /\ Serve([op |-> "invite", actor |-> p, target |-> q, now |-> clock])

RequestAnswer(op, p, f) ==
    Serve([op |-> op, actor |-> p, id |-> f, now |-> clock])

\* The bound on rounds: no tie in the last one.
RequestHand(p, f, r, h) ==
    /\ r = MaxRounds => h \notin {flow[f].challengerHand, flow[f].accepterHand}
    /\ Serve([op |-> "hand", actor |-> p, id |-> f, round |-> r, hand |-> h, now |-> clock])

RequestFirst(p, f, goFirst) ==
    /\ Len(duelSeats) < MaxDuels
    /\ Serve([op |-> "first", actor |-> p, id |-> f, goFirst |-> goFirst, now |-> clock])

\* Mutant: the player's invitation is not cancelled first.
RequestSoloInvited(p) ==
    /\ Waiting
    /\ p \in online
    /\ ~IsBusy(p)
    /\ Len(duelSeats) < MaxDuels /\ revisions[p] < MaxRevision
    /\ stack' = Expiry(clock) \o <<SoloCall("soloGuard", p)>>

RequestSolo(p) ==
    /\ Waiting
    /\ p \in online
    /\ ~IsBusy(p)
    /\ Len(duelSeats) < MaxDuels /\ revisions[p] < MaxRevision
    /\ stack' = Expiry(clock) \o <<SoloCall("cancelOwn", p), SoloCall("soloGuard", p)>>

\* handleResponse, when the engine ends the duel on the answer.
ResponseEndsDuel(id) ==
    /\ Waiting
    /\ Humans(id) \cap online # {}
    /\ FinishDuel(id, <<>>)

Forfeit(p) ==
    /\ Waiting
    /\ p \in online
    /\ \/ FinishDuel(playerToDuel[p], <<>>)
       \/ /\ playerToDuel[p] = 0
          /\ stack' = Expiry(clock) \o <<SoloCall("cancelOwn", p)>>
          /\ UNCHANGED <<managerVars, playerToDuel, client>>

Disconnect(p) ==
    /\ Waiting
    /\ p \in online
    /\ Drop(p, <<>>)

\* Login revalidates the active deck, which may clear it.
Login(p) ==
    /\ Waiting
    /\ p \notin online
    /\ online' = online \cup {p}
    /\ deck' \in {deck, [deck EXCEPT ![p] = None]}

\* The collection screen activates, edits or clears the deck of a player who
\* is not busy; asking for the current deck revalidates it at any time.
ChangeDeck(p) ==
    /\ Waiting
    /\ p \in online
    /\ \E d \in Decks \cup {None} :
         /\ d # deck[p]
         /\ ~IsBusy(p) \/ d = None
         /\ deck' = [deck EXCEPT ![p] = d]

\* The tick handler expires flows; without an overdue one it changes nothing.
ServerTick ==
    /\ Waiting
    /\ \E f \in LiveFlows : Overdue(f, clock)
    /\ stack' = Expiry(clock)

\* onServerStopped, after the last player left: the next server starts afresh.
\* With nobody online the notifications of endDuel and clear reach no one.
Shutdown ==
    /\ Waiting
    /\ online = {}
    /\ Len(flow) + Len(duelSeats) > 0
    /\ flow' = [f \in FlowIds |-> Garbage(flow[f])]
    /\ flows' = [p \in Players |-> 0]
    /\ revisions' = [p \in Players |-> 0]
    /\ activeDuels' = {}
    /\ duelSeats' = [id \in DuelIds |-> NoSeats]
    /\ playerToDuel' = [p \in Players |-> 0]
    /\ startingPlayers' = {}
    /\ announcements' = [p \in Players |-> None]
    /\ UNCHANGED <<clock, stack, returns, online, deck, client>>

\* Only these calls read the clock; when it ticks matters to nothing else.
ReadsClock == Running("changed") \/ Running("selection") \/ Running("cancelOwn")

ClockTicks ==
    /\ clock < MaxClock
    /\ Waiting \/ ReadsClock
    /\ clock' = clock + 1
    /\ UNCHANGED <<stack, prepVars, returns, hostVars, managerVars, announcements, client>>

-----------------------------------------------------------------------------

Init ==
    /\ clock = 0
    /\ stack = <<>>
    /\ flow = <<>>
    /\ flows = [p \in Players |-> 0]
    /\ revisions = [p \in Players |-> 0]
    /\ selected = NoSelection
    /\ started = FALSE
    /\ online = {}
    /\ playerToDuel = [p \in Players |-> 0]
    /\ startingPlayers = {}
    /\ deck \in [Players -> Decks \cup {None}]
    /\ activeDuels = {}
    /\ duelSeats = <<>>
    /\ announcements = [p \in Players |-> None]
    /\ client = [p \in Players |-> Disconnected]

\* Calls of the service that read no returned value.
ServiceStep ==
    /\ \/ Sweep \/ SweepEnds
       \/ Invite \/ Accept \/ Decline \/ Cancel \/ Hand \/ First
       \/ Logout \/ DuelEnded \/ StartFinished
    /\ UNCHANGED <<clock, returns, hostVars, managerVars, announcements, client>>

\* The rest of a service call after its selections, or after Host.start.
ServiceResumes ==
    /\ \/ InviteSelected /\ selected' = NoSelection /\ UNCHANGED started
       \/ AcceptSelected /\ selected' = NoSelection /\ UNCHANGED started
       \/ FinishStart /\ started' = FALSE /\ UNCHANGED selected
    /\ UNCHANGED <<clock, hostVars, managerVars, announcements, client>>

NotifyStep ==
    /\ \/ Notify /\ UNCHANGED <<announcements, client>>
       \/ Publish
       \/ Reply
    /\ UNCHANGED <<clock, prepVars, returns, hostVars, managerVars>>

SelectionStep ==
    /\ SelectionMissing \/ SelectionFails \/ SelectionRejected \/ SelectionAccepted
    /\ UNCHANGED <<clock, prepVars, started, hostVars, activeDuels, duelSeats,
                   announcements, client>>

DropStep ==
    /\ ListenerDisconnectsOwner \/ \E p \in Players : Disconnect(p)
    /\ UNCHANGED <<clock, prepVars, returns, playerToDuel, startingPlayers, managerVars>>

CheckStep ==
    /\ \/ StartPrepared /\ UNCHANGED selected
       \/ Current /\ UNCHANGED selected
       \/ StartChecked
       \/ SoloSelected
       \/ SoloChecked
       \/ CancelOwn /\ UNCHANGED selected
    /\ UNCHANGED <<clock, prepVars, started, hostVars, managerVars, announcements, client>>

DuelStep ==
    /\ \/ StartThrows /\ UNCHANGED <<managerVars, playerToDuel, client>>
       \/ StartInstalls /\ UNCHANGED <<deck, started>>
       \/ SetupRuns
       \/ SetupCompletes
       \/ SetupThrows
       \/ Leave /\ UNCHANGED started
       \/ \E id \in DuelIds : ResponseEndsDuel(id) /\ UNCHANGED started
       \/ \E p \in Players : Forfeit(p) /\ UNCHANGED started
    /\ UNCHANGED <<clock, prepVars, selected, online, startingPlayers, announcements>>

SoloStep ==
    /\ \/ SoloGuard /\ UNCHANGED started
       \/ SoloFinally
    /\ UNCHANGED <<clock, prepVars, selected, online, playerToDuel, managerVars,
                   announcements, client>>

DeckStep ==
    /\ \E p \in Players : \/ Login(p)
                          \/ ChangeDeck(p) /\ UNCHANGED online
    /\ UNCHANGED <<clock, stack, prepVars, returns, playerToDuel, startingPlayers,
                   activeDuels, duelSeats, announcements, client>>

Request ==
    /\ \/ ServerTick
       \/ \E p \in Players :
            \/ RequestView(p)
            \/ RequestSolo(p)
            \/ \E q \in Players : RequestInvite(p, q)
            \/ \E f \in FlowIds :
                 \/ \E op \in {"accept", "decline", "cancel"} : RequestAnswer(op, p, f)
                 \/ \E r \in 1..MaxRounds, h \in Hands : RequestHand(p, f, r, h)
                 \/ \E goFirst \in BOOLEAN : RequestFirst(p, f, goFirst)
    /\ UNCHANGED <<clock, prepVars, returns, hostVars, managerVars, announcements, client>>

ThreadStep ==
    \/ ServiceStep \/ ServiceResumes \/ NotifyStep \/ SelectionStep \/ CheckStep
    \/ DuelStep \/ SoloStep

Next ==
    \/ ThreadStep
    \/ DropStep
    \/ DeckStep
    \/ Request
    \/ Shutdown
    \/ ClockTicks

Spec == Init /\ [][Next]_vars

-----------------------------------------------------------------------------
(* Types *)

Answer == [revision : Nat, mode : Modes \cup {"IDLE", "DUEL"}, flow : Nat, round : Nat,
           outgoing : BOOLEAN, ownHandSubmitted : BOOLEAN, canChooseFirst : BOOLEAN]

Prompt == [flow : Nat, mode : Modes, round : Nat]

\* No prompt is null.
ASSUME PromptAssumption == None \notin Prompt

Screen == [view : Answer \cup {None}, prompt : Prompt \cup {None}, duel : {0} \cup DuelIds]

Seating == {seats \in [{0, 1} -> Players \cup {None}] : seats[0] # None}

\* The calls that may be on the stack, when these flows and duels exist.
PlayerFrame ==
    [op : {"selection", "reply", "logout", "leave", "duelEnded", "cancelOwn", "soloGuard",
           "soloSelected", "soloChecked", "soloFinally"}, player : Players]
NoticeFrame == [op : {"changed", "publish"}, player : Players, result : Results]
OutcomeFrame == [op : {"startFinished"}, player : Players, success : BOOLEAN]
SweepFrame(flowIds) == [op : {"sweep"}, now : Nat, todo : SUBSET flowIds]
InviteFrame == [op : {"invite", "inviteSelected"}, actor : Players, target : Players, now : Nat]
AnswerFrame(flowIds) ==
    [op : {"accept", "acceptSelected", "decline", "cancel"}, actor : Players,
     id : flowIds, now : Nat]
HandFrame(flowIds) ==
    [op : {"hand"}, actor : Players, id : flowIds, round : Nat, hand : Hands, now : Nat]
FirstFrame(flowIds) ==
    [op : {"first"}, actor : Players, id : flowIds, goFirst : BOOLEAN, now : Nat]
PreparedFrame(flowIds) ==
    [op : {"startPrepared", "startChecked"}, flow : flowIds, firstSeat : Int]
FinishFrame(flowIds) == [op : {"finishStart"}, flow : flowIds, goFirst : BOOLEAN]
CurrentFrame == [op : {"current"}, player : Players, deck : Decks \cup {None}]
StartFrame == [op : {"start"}, seats : Seating, decks : [{0, 1} -> Decks \cup {None}]]
SetupFrame(duelIds) == [op : {"setup"}, duel : duelIds]

Frames(flowIds, duelIds) ==
    PlayerFrame \cup NoticeFrame \cup OutcomeFrame \cup SweepFrame(flowIds) \cup InviteFrame
    \cup AnswerFrame(flowIds) \cup HandFrame(flowIds) \cup FirstFrame(flowIds)
    \cup PreparedFrame(flowIds) \cup FinishFrame(flowIds) \cup CurrentFrame \cup StartFrame
    \cup SetupFrame(duelIds)

Frame == Frames(FlowIds, DuelIds)

TypeOK ==
    /\ clock \in Nat
    /\ flow \in Seq(Flow)
    /\ stack \in Seq(Frame)
    /\ flows \in [Players -> {0} \cup FlowIds]
    /\ revisions \in [Players -> Nat]
    /\ selected \in [Players -> Decks \cup {None}]
    /\ started \in BOOLEAN
    /\ online \subseteq Players
    /\ startingPlayers \subseteq Players
    /\ deck \in [Players -> Decks \cup {None}]
    /\ duelSeats \in Seq(Seating \cup {NoSeats})
    /\ activeDuels \subseteq DuelIds
    /\ playerToDuel \in [Players -> {0} \cup DuelIds]
    /\ announcements \in [Players -> Prompt \cup {None}]
    /\ client \in [Players -> Screen]

-----------------------------------------------------------------------------
(* Invariants *)

Live(f) == f \in LiveFlows
Pair(f) == {flow[f].challenger, flow[f].accepter}

\* The two entries of a flow in the map `flows` come and go together, so no
\* player is held by two flows, or by one that has forgotten him.
FlowsPaired ==
    \A p \in Players : flows[p] # 0 =>
        LET f == flows[p] IN
        /\ p \in Pair(f)
        /\ flow[f].challenger # flow[f].accepter
        /\ \A q \in Pair(f) : flows[q] = f

\* The seats of a live duel are taken.
ActiveSeated == \A id \in activeDuels : duelSeats[id] \in Seating

\* playerToDuel, activeDuels and duelSeats tell the same story: each player of
\* a live duel is in that duel and no other, and no one else is in any.
DuelsPaired ==
    /\ \A id \in DuelIds : id \in activeDuels <=> Humans(id) # {}
    /\ \A id \in activeDuels : \A p \in Humans(id) : playerToDuel[p] = id
    /\ \A p \in Players : playerToDuel[p] # 0 => p \in Humans(playerToDuel[p])

\* No path through a start, its failure or its immediate end leaves a lock
\* behind, or a duellist with an invitation.
NothingLeftBehind ==
    Waiting => /\ startingPlayers = {}
               /\ \A f \in LiveFlows : /\ flow[f].mode # "STARTING"
                                       /\ \A p \in Pair(f) : playerToDuel[p] = 0

\* Every visible change is sent: once the server waits, a client that got any
\* view has the current one, and its duel screen is live while its duel is.
ClientsAgree ==
    Waiting => \A p \in online :
        /\ client[p].view # None => client[p].view = View(p)
        /\ client[p].duel = playerToDuel[p]

\* A failed start clears the duel screens it has opened: no client shows a
\* live screen of a duel that is over.
NoGhostScreen ==
    Waiting => \A p \in online : client[p].duel # 0 => client[p].duel \in activeDuels

\* A player who must act was asked to in chat, for the very step that waits,
\* although publish announces a step once and lets an outcome take its place.
PromptReached ==
    Waiting => \A p \in online :
        Actionable(View(p)) => client[p].prompt = Asked(View(p))

\* Disconnecting releases every lock of the player, and the opponent's.
OfflineReleased ==
    Waiting => \A p \in Players \ online : flows[p] = 0 /\ playerToDuel[p] = 0

\* "A synchronous startup owns the locks until its callback returns, even on
\* disconnect": the pair is held from the choice to the end of the start, and
\* a start in progress belongs to exactly one flow.
StartingHeld ==
    LET pending == {i \in 1..Len(stack) : stack[i].op = "finishStart"} IN
    /\ \A i \in pending : Live(stack[i].flow) /\ flow[stack[i].flow].mode = "STARTING"
    /\ \A f \in LiveFlows : flow[f].mode = "STARTING" =>
           \E i \in pending : /\ stack[i].flow = f
                              /\ \A j \in pending : j = i

\* The player who may choose won the roll of the two hands that were kept.
WinnerChooses ==
    \A f \in LiveFlows : flow[f].mode \in {"FIRST_CHOICE", "STARTING"} =>
        /\ "none" \notin {flow[f].challengerHand, flow[f].accepterHand}
        /\ flow[f].winner = Resolve(flow[f].challengerHand, flow[f].accepterHand)
        /\ flow[f].winner # TIE

-----------------------------------------------------------------------------
(* Action properties *)

Kept(f) == Live(f) /\ f \in LiveFlows'

\* The deadline ends a step for good: a request that came at the deadline or
\* later changes nothing of the flow, even one no sweep has removed before.
OverdueNeverAdvances ==
    [][\A f \in FlowIds :
         Kept(f) /\ flow[f].mode # "STARTING" /\ flow'[f] # flow[f] => Top.now < flow[f].deadline]_vars

\* Nobody goes on against a player who is gone: a flow changes only while both
\* of its players are connected, although its sender may have been disconnected
\* by his own deck check, before the flow was made, and either of them by the
\* deck checks of an acceptance, after their availability was read.
AbsentNeverAdvance ==
    [][\A f \in FlowIds :
         Kept(f) /\ flow[f].mode # "STARTING" /\ flow'[f] # flow[f] => Pair(f) \subseteq online]_vars

\* A view is determined by its revision as long as the player is connected:
\* a client that drops older revisions never misses or keeps a wrong view.
ViewsFollowRevision ==
    [][\A p \in Players :
         LET held == client[p].view
             new == client'[p].view IN
         held # None /\ new # None => held.revision < new.revision \/ held = new]_vars

\* A hand stands until its round is over: neither a duplicate nor a delayed
\* request replaces it, and only two equal hands open another round.
HandsStand ==
    [][\A f \in FlowIds :
         Kept(f) /\ flow[f].mode = "RPS" =>
           \A p \in Pair(f) :
             OwnHand(p, f) = "none" \/ OwnHand(p, f)' = OwnHand(p, f)
             \/ /\ flow'[f].round = flow[f].round + 1
                /\ Top.actor # p /\ Top.hand = OwnHand(p, f)]_vars

\* A duel of two is installed for the pair whose roll was won, both of them
\* free, with the decks captured at acceptance, which are still the active
\* ones, and the winner first exactly if the winner chose to go first.
StartsPrepared ==
    [][\A p \in Players :
         playerToDuel'[p] \notin {0, playerToDuel[p]} =>
           LET seats == duelSeats'[playerToDuel'[p]] IN
           /\ playerToDuel[p] = 0
           /\ \A seat \in {0, 1} : seats[seat] # None => Top.decks[seat] = deck[seats[seat]]
           /\ \/ /\ p \in startingPlayers
                 /\ seats = Seats(p, None)
              \/ LET f == flows[p]
                     after == stack[2] IN
                 /\ after.op = "finishStart" /\ after.flow = f
                 /\ {seats[0], seats[1]} = Pair(f)
                 /\ after.goFirst <=> seats[0] = Chooser(f)
                 /\ Top.decks = IF seats[0] = flow[f].challenger
                                THEN Seats(flow[f].prepared.challenger, flow[f].prepared.accepter)
                                ELSE Seats(flow[f].prepared.accepter, flow[f].prepared.challenger)
      ]_vars

\* A flow ends once, although the sweeps nest: what a sweep announces is the
\* end of a flow that was alive when it was announced.
ExpiresOnce ==
    [][Running("sweep") /\ revisions' # revisions =>
         \E f \in LiveFlows : /\ f \notin LiveFlows'
                              /\ \A p \in Players :
                                   revisions'[p] # revisions[p] <=> p \in Pair(f)]_vars

-----------------------------------------------------------------------------
(* Refinement of the promise made to the players *)

StageOf == [INVITED |-> "invited", RPS |-> "rolling", FIRST_CHOICE |-> "choosing",
            STARTING |-> "starting"]

\* A start in progress has the last word: what it installs is not a duel yet.
Engagement(p) ==
    LET f == flows[p]
        id == playerToDuel[p] IN
    CASE p \in startingPlayers -> [party |-> {p}, stage |-> "starting"]
      [] p \notin startingPlayers /\ f # 0 ->
           [party |-> Pair(f), stage |-> StageOf[flow[f].mode]]
      [] p \notin startingPlayers /\ f = 0 /\ id # 0 ->
           [party |-> Humans(id), stage |-> "dueling"]
      [] OTHER -> [party |-> {}, stage |-> "idle"]

Promise == INSTANCE Matchmaking WITH engaged <- [p \in Players |-> Engagement(p)]

\* Whatever the order of requests, expiries, disconnects and re-entrant calls,
\* the service and the manager together keep the promise of Matchmaking.
KeepsPromise == Promise!Spec

-----------------------------------------------------------------------------
(* Fairness: the server thread runs its calls to the end; time passes, also *)
(* while packets keep the thread busy (the model lets the clock tick only   *)
(* where it is read, so the tick is enabled again and again, not always);   *)
(* and the tick handler runs again and again between the packets.           *)

FairSpec ==
    /\ Spec
    /\ WF_vars(ThreadStep)
    /\ SF_vars(ClockTicks)
    /\ SF_vars(ServerTick /\ UNCHANGED <<clock, prepVars, returns, hostVars, managerVars,
                                        announcements, client>>)

\* Nobody is held by a silent opponent: every flow ends, by a duel or without.
FlowsSettle == \A f \in 1..MaxFlows : [](f \in LiveFlows => <>(f \notin LiveFlows))
=============================================================================
