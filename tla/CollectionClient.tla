--------------------------- MODULE CollectionClient ---------------------------
(***************************************************************************)
(* The client side of a collection, CollectionClient over                  *)
(* ClientCollectionState, composed with the server side.                   *)
(*                                                                         *)
(* Requests complete in any order, or time out.  A refresh opens a         *)
(* snapshot and pulls its pages one after the other; a reply that tells of *)
(* a newer revision lets a later refresh supersede it.  A reply that was   *)
(* received is a task of the client thread and may run when its connection *)
(* is over.  The player may join another world, whose revisions tell       *)
(* nothing about those of the one he left.                                 *)
(*                                                                         *)
(* A refresh waits for one request at a time, and its identity, the future *)
(* `refreshing`, is the identity of that request: `awaited`.               *)
(***************************************************************************)
EXTENDS CollectionService

CONSTANTS
    Amounts,        \* amounts a player asks to transfer
    MaxPending,     \* bound on the requests and replies under way when another request is made
    MaxConnections  \* bound on the connections made

ASSUME ClientBounds == MaxPending \in Nat /\ MaxConnections \in Nat /\ MaxChanges \in Nat

VARIABLES
    client,     \* CollectionClient and its ClientCollectionState
    handed      \* history: the list last handed to the editor, and the revision shown then

vars == <<serverVars, netVars, toServer, toClient, changes, disturbed, client, handed>>

NoId == 0
NoHeader == [snapshot |-> 0]
Empty == [key \in {} |-> 0]
NoAssembly == [opened |-> NoHeader, counts |-> Empty, summaries |-> Empty, countIndex |-> 0, deckIndex |-> 0]
NoView == [revision |-> -1, summaries |-> Empty]
NotHanded == [revision |-> -1]

\* A client that has no view and has asked for nothing.
NewClient ==
    [pending |-> Empty, requiredRevision |-> 0, refreshingRevision |-> 0, awaited |-> NoId,
     view |-> NoView, assembly |-> NoAssembly]

-----------------------------------------------------------------------------
(* ClientCollectionState *)

View(c) == [revision |-> c.assembly.opened.revision, counts |-> c.assembly.counts,
            summaries |-> c.assembly.summaries, active |-> c.assembly.opened.active]

NoPage == [op |-> "none"]
PageCommand(opened, kind, index) ==
    [op |-> "page", snapshot |-> opened.snapshot, kind |-> kind, index |-> index]

NextPage(assembly) ==
    IF assembly.opened = NoHeader THEN NoPage
    ELSE IF assembly.countIndex < assembly.opened.countPages
    THEN PageCommand(assembly.opened, "COUNTS", assembly.countIndex)
    ELSE IF assembly.deckIndex < assembly.opened.deckPages
    THEN PageCommand(assembly.opened, "DECKS", assembly.deckIndex)
    ELSE NoPage

\* Mutant: the lists that were summarised are not cleared.
DiscardButSummaries(c) == [c EXCEPT !.assembly = [NoAssembly EXCEPT !.summaries = c.assembly.summaries]]

DiscardPending(c) == [c EXCEPT !.assembly = NoAssembly]

PublishIfComplete(c) ==
    IF NextPage(c.assembly) # NoPage THEN c ELSE DiscardPending([c EXCEPT !.view = View(c)])

Begins(c, header) ==
    /\ c.view = NoView \/ header.revision >= c.view.revision
    /\ header.active = NoDeck \/ header.deckPages > 0

Begin(c, header) == PublishIfComplete([DiscardPending(c) EXCEPT !.assembly.opened = header])

\* Every page but the last is full.
FullPage(size, limit, index, pages) == size \in 1..limit /\ (index = pages - 1 \/ size = limit)

\* A page is accepted if it is the next one, has the size it should, says nothing twice and,
\* if it is the last, leaves no active list unlisted.
Accepts(assembly, page) ==
    LET expected == NextPage(assembly)
        opened == assembly.opened
        keys == DOMAIN page.entries
        size == Cardinality(keys)
    IN /\ expected # NoPage /\ page.op = expected.kind
       /\ page.snapshot = expected.snapshot /\ page.index = expected.index
       /\ page.revision = opened.revision
       /\ IF page.op = "COUNTS"
          THEN /\ FullPage(size, COUNT_PAGE, page.index, opened.countPages)
               /\ keys \cap DOMAIN assembly.counts = {}
          ELSE /\ FullPage(size, SUMMARY_PAGE, page.index, opened.deckPages)
               /\ keys \cap DOMAIN assembly.summaries = {}
               /\ page.index = opened.deckPages - 1 =>
                    opened.active \in keys \cup DOMAIN assembly.summaries \cup {NoDeck}

Accept(c, page) ==
    PublishIfComplete(
        IF page.op = "COUNTS"
        THEN [c EXCEPT !.assembly.counts = Joined(page.entries, @), !.assembly.countIndex = @ + 1]
        ELSE [c EXCEPT !.assembly.summaries = Joined(page.entries, @), !.assembly.deckIndex = @ + 1])

-----------------------------------------------------------------------------
(* Requests *)

Ids == 1..(MaxPending + 1)
Named == DOMAIN client.pending \cup {toServer[i].id : i \in DOMAIN toServer}
            \cup {toClient[i].id : i \in DOMAIN toClient}

\* A random identity: any that nothing names any more is as good.
FreshId == CHOOSE id \in 1..(Cardinality(Named) + 1) : id \notin Named

Ask(c, id, command) == [c EXCEPT !.pending = Put(@, id, command)]
Open == [op |-> "open"]

\* The client goes on to c; the request it has made by that, if any, is sent.  A refresh
\* that begins has not been disturbed yet.
ClientStep(c) ==
    LET new == DOMAIN c.pending \ DOMAIN client.pending
    IN /\ client' = c
       /\ toServer' = toServer \o SetToSeq({[id |-> id, command |-> c.pending[id]] : id \in new})
       /\ disturbed' = (disturbed /\ ~(c.awaited \in new /\ c.pending[c.awaited] = Open))

\* finishRefresh with an error.
FinishFailed(c) == DiscardPending([c EXCEPT !.awaited = NoId])

\* refresh: callers share the refresh under way if it meets the required revision.
Refresh(c, id) ==
    IF c.awaited # NoId /\ c.refreshingRevision >= c.requiredRevision THEN c
    ELSE Ask(DiscardPending([c EXCEPT !.awaited = id, !.refreshingRevision = c.requiredRevision]), id, Open)

PullPage(c, id) ==
    LET page == NextPage(c.assembly)
    IN IF page = NoPage THEN [c EXCEPT !.awaited = NoId] ELSE Ask([c EXCEPT !.awaited = id], id, page)

\* The refresh gets the reply it waits for; id is for the next request.
Pulled(c, command, reply, id) ==
    IF reply.op = "rejected" THEN FinishFailed(c)
    ELSE IF command = Open
    THEN IF reply.revision < c.requiredRevision \/ ~Begins(c, reply) THEN FinishFailed(c)
         ELSE PullPage(Begin([c EXCEPT !.refreshingRevision = reply.revision], reply), id)
    ELSE IF c.refreshingRevision < c.requiredRevision \/ ~Accepts(c.assembly, reply) THEN FinishFailed(c)
    ELSE PullPage(Accept(c, reply), id)

Matches(command, reply) ==
    \/ reply.op = "rejected"
    \/ command.op = "open" /\ reply.op = "opened"
    \/ /\ command.op = "page" /\ reply.op = command.kind
       /\ reply.snapshot = command.snapshot /\ reply.index = command.index
    \/ command.op = "read" /\ reply.op = "deck"
    \/ /\ command.op \in Mutations \cup Transfers /\ reply.op = "changed"
       /\ reply.revision = command.expected + 1
       /\ reply.saved = IF command.op = "save" THEN command.content ELSE "none"
       /\ command.op \in {"DEPOSIT", "WITHDRAW"} => reply.moved = command.amount
       /\ command.op = "DEPOSIT_ALL" => reply.moved > 0

\* Replies about the collection as such tell of its revision.
Learn(c, reply) ==
    IF reply.op \notin {"changed", "deck", "rejected"} THEN c
    ELSE [c EXCEPT !.requiredRevision = IF reply.revision > @ THEN reply.revision ELSE @]

\* Mutant: the revision of the list is not compared with the one that is shown.
DeckFitsAny(c, command, reply) ==
    c.view # NoView /\ command.deck = reply.deck

\* A list may be edited only against the view it belongs to.
DeckFits(c, command, reply) ==
    /\ c.view # NoView /\ c.view.revision = reply.revision
    /\ reply.revision >= c.requiredRevision
    /\ command.deck = reply.deck

-----------------------------------------------------------------------------
(* Steps of the client *)

\* A request of a screen or a command.
Request(command) ==
    /\ connection.up
    /\ Cardinality(Named) < MaxPending
    /\ ClientStep(Ask(client, FreshId, command))
    /\ UNCHANGED <<serverVars, netVars, toClient, handed>>

\* The player opens a list he is shown.
ReadDeck(deck) ==
    /\ deck \in DOMAIN client.view.summaries
    /\ Request([op |-> "read", deck |-> deck])
    /\ UNCHANGED changes

\* The revision a change is asked against: of the view, or of an acknowledgement since.
Expected == IF client.view = NoView THEN {} ELSE {client.view.revision, client.requiredRevision}

Change(command) ==
    /\ changes < MaxChanges
    /\ changes' = changes + 1
    /\ Request(command)

Edit ==
    \E expected \in Expected, deck \in Decks, content \in Contents :
        \/ Change([op |-> "save", expected |-> expected, deck |-> deck, content |-> content])
        \/ \E op \in {"delete", "activate"} : Change([op |-> op, expected |-> expected, deck |-> deck])
        \/ Change([op |-> "clearActive", expected |-> expected])

Move ==
    \E expected \in Expected, code \in Codes, amount \in Amounts \cap 1..MAX_AMOUNT :
        \/ \E op \in {"DEPOSIT", "WITHDRAW"} :
            Change([op |-> op, expected |-> expected, code |-> code, amount |-> amount])
        \/ Change([op |-> "DEPOSIT_ALL", expected |-> expected, code |-> NoCard, amount |-> 0])

\* A screen wants a view.
WantView ==
    /\ connection.up
    /\ Cardinality(Named) < MaxPending
    /\ Refresh(client, FreshId) # client
    /\ ClientStep(Refresh(client, FreshId))
    /\ UNCHANGED <<serverVars, netVars, toClient, changes, handed>>

Forget(id) == [client EXCEPT !.pending = Restrict(@, DOMAIN @ \ {id})]

\* Mutant: the refresh is not told that its request timed out.
TimeoutUntold(id) ==
    /\ id \in DOMAIN client.pending
    /\ client' = Forget(id)
    /\ disturbed' = TRUE
    /\ UNCHANGED <<serverVars, netVars, toServer, toClient, changes, handed>>

\* TIMEOUT_MS pass.  Whether the request is, or will be, served is not known.
Timeout(id) ==
    /\ id \in DOMAIN client.pending
    /\ client' = IF id = client.awaited THEN FinishFailed(Forget(id)) ELSE Forget(id)
    /\ disturbed' = TRUE
    /\ UNCHANGED <<serverVars, netVars, toServer, toClient, changes, handed>>

\* A reply that still has its connection and its request completes the request.
Complete(id, reply) ==
    LET command == client.pending[id]
        c == Learn(Forget(id), reply)
        reads == command.op = "read" /\ reply.op = "deck"
    IN IF ~Matches(command, reply)
       THEN ClientStep(IF id = client.awaited THEN FinishFailed(Forget(id)) ELSE Forget(id)) /\ UNCHANGED handed
       ELSE IF id = client.awaited THEN ClientStep(Pulled(c, command, reply, FreshId)) /\ UNCHANGED handed
       ELSE IF reads /\ DeckFits(c, command, reply)
       THEN /\ ClientStep(c)
            /\ handed' = [revision |-> c.view.revision, deck |-> command.deck, content |-> reply.content]
       ELSE ClientStep(IF reads THEN Refresh(c, FreshId) ELSE c) /\ UNCHANGED handed

Receive ==
    /\ toClient # <<>>
    /\ toClient' = Tail(toClient)
    /\ LET packet == Head(toClient)
       IN IF /\ connection.up /\ packet.connection = connection.generation
             /\ packet.id \in DOMAIN client.pending
          THEN Complete(packet.id, packet.reply)
          ELSE UNCHANGED <<client, toServer, disturbed, handed>>
    /\ UNCHANGED <<serverVars, netVars, changes>>

\* Mutant: what was required of the last world is still required.
ResetRequiring(c) ==
    [c EXCEPT !.pending = Empty, !.refreshingRevision = 0, !.awaited = NoId,
              !.view = NoView, !.assembly = NoAssembly]

\* Nothing of a connection is known to the next.
Reset(c) ==
    [c EXCEPT !.pending = Empty, !.requiredRevision = 0, !.refreshingRevision = 0, !.awaited = NoId,
              !.view = NoView, !.assembly = NoAssembly]

\* The connection ends.  Of the replies under way some have been received.
Disconnect ==
    /\ connection.up
    /\ connection' = [up |-> FALSE, generation |-> connection.generation + 1]
    /\ client' = Reset(client)
    /\ handed' = NotHanded
    /\ \E received \in 0..Len(toClient) : toClient' = SubSeq(toClient, 1, received)
    /\ UNCHANGED <<serverVars, online, toServer, changes, disturbed>>

\* The player joins the world he left, or another.
Connect(world) ==
    /\ ~connection.up /\ ~online
    /\ connection.generation < 2 * MaxConnections
    /\ connection' = [up |-> TRUE, generation |-> connection.generation + 1]
    /\ online' = TRUE
    /\ client' = Reset(client)
    /\ data' = world.data /\ slots' = world.slots
    /\ held' = Put(Empty, world.data.revision, world.data)
    /\ UNCHANGED <<snapshot, toServer, toClient, changes, disturbed, handed>>

-----------------------------------------------------------------------------

Init ==
    /\ \E world \in Worlds : data = world.data /\ slots = world.slots
    /\ held = Put(Empty, data.revision, data)
    /\ snapshot = NoSnapshot
    /\ online = FALSE /\ connection = [up |-> FALSE, generation |-> 0]
    /\ toServer = <<>> /\ toClient = <<>>
    /\ changes = 0
    /\ disturbed = FALSE
    /\ client = NewClient
    /\ handed = NotHanded

ServerStep ==
    /\ Serve \/ ClearedElsewhere \/ IdlePasses \/ Logout
       \/ \E code \in Codes, count \in Amounts : Grant(code, count)
    /\ UNCHANGED <<client, handed>>

Next ==
    \/ ServerStep
    \/ Edit
    \/ Move
    \/ \E deck \in Decks : ReadDeck(deck)
    \/ WantView
    \/ \E id \in DOMAIN client.pending : Timeout(id)
    \/ Receive
    \/ Disconnect
    \/ \E world \in Worlds \cup {[data |-> data, slots |-> slots]} : Connect(world)

Spec == Init /\ [][Next]_vars

-----------------------------------------------------------------------------
(* Properties *)

\* The collection, the slots and the client's counters have the values their Java
\* counterparts can have.  What the queues, the snapshot and the view hold is said by the
\* properties below and by CollectionProofs.
TypeOK ==
    /\ data.counts \in [Codes -> Nat] /\ data.active \in DOMAIN data.decks \cup {NoDeck}
    /\ \A deck \in DOMAIN data.decks : deck \in Decks /\ data.decks[deck] \in Contents
    /\ \A i \in DOMAIN slots : slots[i].code \in Codes \cup {NoCard, Foreign} /\ slots[i].count \in Nat
    /\ online \in BOOLEAN /\ connection.up \in BOOLEAN /\ disturbed \in BOOLEAN
    /\ changes \in 0..MaxChanges
    /\ client.requiredRevision \in Nat /\ client.refreshingRevision \in Nat
    /\ DOMAIN client.pending \subseteq Ids /\ client.awaited \in Ids \cup {NoId}
    /\ client.assembly.countIndex \in Nat /\ client.assembly.deckIndex \in Nat
    /\ data.revision \in DOMAIN held

\* What the client shows is what the server held, all of it, at the revision it shows, in
\* the world the player is in: pages of two collections are never put together, though
\* refreshes are superseded, time out or are cut off (ClientCollectionState.accept).
ViewTrue ==
    LET view == client.view
    IN view # NoView =>
        /\ connection.up /\ view.revision \in DOMAIN held
        /\ LET was == held[view.revision]
           IN view.counts = Owned(was.counts) /\ view.summaries = was.decks /\ view.active = was.active

\* A list handed to the editor is the one of the view shown beside it, though a save whose
\* answer never came may have changed it since (CollectionClient.receive).
DeckOfView ==
    handed # NotHanded =>
        /\ handed.revision \in DOMAIN held
        /\ LET decks == held[handed.revision].decks
           IN handed.deck \in DOMAIN decks /\ decks[handed.deck] = handed.content

\* A refresh under way waits for a request of its own that will be answered or time out:
\* callers that share it never wait for nothing (CollectionClient.refresh).
RefreshAwaits ==
    client.awaited # NoId =>
        /\ client.awaited \in DOMAIN client.pending
        /\ client.pending[client.awaited] = IF client.assembly.opened = NoHeader THEN Open
                                            ELSE NextPage(client.assembly)

RefreshEnds ==
    /\ connection'.up /\ client.awaited # NoId /\ client'.awaited = NoId
    /\ client'.assembly = NoAssembly

\* A refresh fails only for a cause: the collection changed meanwhile, the snapshot was idle,
\* the server refused, or a request timed out.  Otherwise it ends with the current view, so
\* nothing left from an earlier refresh, view or connection wedges the client.
RefreshSucceeds ==
    [][RefreshEnds =>
        disturbed' \/ (client'.view # NoView /\ client'.view.revision = data.revision)]_vars

Carried(inventory, code) ==
    FoldLeft(LAMBDA n, slot : n + (IF slot.code = code THEN slot.count ELSE 0), 0, inventory)

\* Where copies of a code could be put: stacks of it and empty slots, the offhand excepted.
Room(inventory, code) ==
    FoldLeft(LAMBDA n, i : n + (IF inventory[i].code \in {code, NoCard}
                                THEN MAX_STACK - inventory[i].count ELSE 0),
             0, Main)

\* The copies of a code that a transfer is to take out of the inventory.
Due(command, code) ==
    CASE command.op = "DEPOSIT" -> IF code = command.code THEN command.amount ELSE 0
      [] command.op = "WITHDRAW" -> IF code = command.code THEN 0 - command.amount ELSE 0
      [] command.op = "DEPOSIT_ALL" -> IF code \in Depositable THEN Carried(slots, code) ELSE 0

\* The cards, or the room for them, are there.
Feasible(command) ==
    CASE command.op = "WITHDRAW" ->
            data.counts[command.code] >= command.amount /\ Room(slots, command.code) >= command.amount
      [] command.op = "DEPOSIT" ->
            command.code \in Depositable /\ Carried(slots, command.code) >= command.amount
      [] command.op = "DEPOSIT_ALL" -> \E code \in Depositable : Carried(slots, code) > 0

Transferring == toServer # <<>> /\ toServer' = Tail(toServer) /\ Command.op \in Transfers

\* A transfer moves every copy it should from one side to the other, within the stack limit and
\* past the offhand and foreign stacks, or nothing at all; and it is refused for the cards only
\* if they, or the room for them, are not there (InventoryTransferPlan, CardTransferService).
TransfersExact ==
    [][Transferring =>
        IF data' = data
        THEN /\ slots' = slots
             /\ connection.up /\ Feasible(Command) =>
                    Last(toClient').reply.error \notin {"INSUFFICIENT_CARDS", "INVENTORY_FULL"}
        ELSE /\ \A code \in Codes :
                    /\ Carried(slots, code) - Carried(slots', code) = Due(Command, code)
                    /\ data'.counts[code] - data.counts[code] = Due(Command, code)
             /\ \A i \in DOMAIN slots :
                    \/ slots'[i] = slots[i]
                    \/ /\ slots[i].code # Foreign /\ slots'[i].count <= MAX_STACK
                       /\ Command.op = "WITHDRAW" => i <= MainSlots]_vars
=============================================================================
