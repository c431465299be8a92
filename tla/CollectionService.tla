-------------------------- MODULE CollectionService --------------------------
(***************************************************************************)
(* The server side of one player's collection: CollectionPayloadHandler,   *)
(* CollectionService, CollectionSnapshotStore and CardTransferService.     *)
(*                                                                         *)
(* Requests are handled one at a time on the server thread.  A change is   *)
(* accepted against the revision its sender names; what a client reads it  *)
(* reads page by page from a snapshot, while the collection moves on.      *)
(* Nothing is shared between owners, so one owner is modelled.             *)
(*                                                                         *)
(* The idle time of a snapshot is a flag that time may set.  The verdict   *)
(* of the deck policy, which depends on settings and listeners of other    *)
(* mods, is any.  Left out are attachments that cannot be read and a       *)
(* server without a manager, for which every request is refused, revisions *)
(* past the range of a long, and that a deposit refused for its cards may  *)
(* be UNSUPPORTED_CARDS.                                                   *)
(***************************************************************************)
EXTENDS InventoryTransferPlan, Functions, FiniteSets

CONSTANTS
    Decks,          \* identities of saved lists, in the order of the lists
    Contents,       \* names and cards of lists
    NoDeck,         \* no active list
    COUNT_PAGE,     \* 256
    SUMMARY_PAGE,   \* 32
    Worlds,         \* [data, slots]: what the player may have in the worlds he may join
    MaxChanges      \* bound on requests for changes and on changes from elsewhere

\* Pages are cut from the keys in their order.
ASSUME KeyAssumption == Codes \cup Decks \subseteq Int /\ IsFiniteSet(Codes) /\ IsFiniteSet(Decks)
ASSUME DeckAssumption == NoDeck \notin Decks
ASSUME PageAssumption == COUNT_PAGE \in Nat \ {0} /\ SUMMARY_PAGE \in Nat \ {0}

\* What is loaded for a player who joins is a PlayerCollectionData, and what he carries is
\* seen as snapshot sees it.
ASSUME WorldAssumption ==
    \A world \in Worlds :
        /\ world.data.revision \in Nat /\ world.data.counts \in [Codes -> Nat]
        /\ world.data.decks \in UNION {[listed -> Contents] : listed \in SUBSET Decks}
        /\ world.data.active \in DOMAIN world.data.decks \cup {NoDeck}
        /\ world.slots \in [1..(MainSlots + 1) -> Stacks]

VARIABLES
    data,       \* PlayerCollectionData: revision, counts, decks, active
    slots,      \* the player's inventory
    snapshot,   \* snapshots.get(owner)
    online,     \* the player is logged in
    connection, \* the client's connection: whether it is up, and its generation
    toServer,   \* requests on their way
    toClient,   \* replies on their way, or queued on the client thread
    changes,    \* bounded by MaxChanges
    held,       \* history: revision -> the collection with that revision
    disturbed   \* history: since the client's refresh began, something rightly fails it

serverVars == <<data, slots, snapshot, held>>
netVars == <<online, connection>>

NoSnapshot == [id |-> 0]
Verdicts == {"eligible", "ineligible", "fails"}

\* A map with an entry put, and the entries of two maps.
Put(map, key, value) == [k \in DOMAIN map \cup {key} |-> IF k = key THEN value ELSE map[k]]
Joined(map, more) == [k \in DOMAIN map \cup DOMAIN more |-> IF k \in DOMAIN map THEN map[k] ELSE more[k]]

-----------------------------------------------------------------------------
(* Replies *)

Rejected(error, revision) == [op |-> "rejected", error |-> error, revision |-> revision]
Stale == Rejected("STALE", data.revision)
Unavailable == Rejected("DATA_UNAVAILABLE", data.revision)

\* The request the server thread handles next.
Pending == Head(toServer)
Command == Pending.command
Asked(ops) == online /\ toServer # <<>> /\ Command.op \in ops

\* The reply goes out on the connection the request came from, if it is still up.
Answer(reply) ==
    /\ toServer' = Tail(toServer)
    /\ toClient' = IF connection.up
                   THEN Append(toClient, [connection |-> connection.generation,
                                          id |-> Pending.id, reply |-> reply])
                   ELSE toClient
    /\ UNCHANGED <<netVars, changes>>

\* A refused request changes nothing.
Refuse(reply) == Answer(reply) /\ UNCHANGED serverVars

\* Busy in a duel or its preparation, whatever is asked.
RefuseBusy ==
    /\ online /\ toServer # <<>>
    /\ Refuse(Rejected("BUSY", data.revision))
    /\ disturbed' = TRUE

-----------------------------------------------------------------------------
(* CollectionService *)

\* changed: the revision tells this collection from the one before.
Revised(counts, decks, active) ==
    [revision |-> data.revision + 1, counts |-> counts, decks |-> decks, active |-> active]

\* A new collection is persisted and the pages of the old one are withdrawn.
Persist(new) ==
    /\ data' = new
    /\ held' = Put(held, new.revision, new)
    /\ snapshot' = NoSnapshot
    /\ disturbed' = TRUE

\* The active list after a change of its cards or counts: an ineligible one is cleared.
Reviewed(active, verdict) == IF verdict = "ineligible" THEN NoDeck ELSE active

\* Mutant: a deleted list that was the active one stays it.
DeletedOnly(deck) ==
    Revised(data.counts, Restrict(data.decks, DOMAIN data.decks \ {deck}), data.active)

\* delete
Deleted(deck) ==
    Revised(data.counts, Restrict(data.decks, DOMAIN data.decks \ {deck}),
            IF deck = data.active THEN NoDeck ELSE data.active)

\* What save, delete, activate and clearActive come to, once the gate is passed.
Mutated(command, verdict) ==
    LET listed == command.op = "clearActive" \/ command.deck \in DOMAIN data.decks
        checked == command.op = "activate" \/ (command.op = "save" /\ command.deck = data.active)
    IN IF command.op # "save" /\ ~listed THEN Rejected("NOT_FOUND", data.revision)
       ELSE IF checked /\ verdict = "fails" THEN Unavailable
       ELSE CASE command.op = "save" ->
                    Revised(data.counts, Put(data.decks, command.deck, command.content),
                            IF checked THEN Reviewed(data.active, verdict) ELSE data.active)
              [] command.op = "delete" -> Deleted(command.deck)
              [] command.op = "activate" ->
                    IF verdict = "ineligible" THEN Rejected("INELIGIBLE", data.revision)
                    ELSE Revised(data.counts, data.decks, command.deck)
              [] command.op = "clearActive" -> Revised(data.counts, data.decks, NoDeck)

Mutations == {"save", "delete", "activate", "clearActive"}
Changed(new, saved, moved) ==
    [op |-> "changed", revision |-> new.revision, saved |-> saved, moved |-> moved]

IsRejected(outcome) == "error" \in DOMAIN outcome

ServeMutation(verdict) ==
    /\ Asked(Mutations)
    /\ LET outcome == IF Command.expected # data.revision THEN Stale ELSE Mutated(Command, verdict)
       IN IF IsRejected(outcome) THEN Refuse(outcome) /\ UNCHANGED disturbed
          ELSE /\ Persist(outcome)
               /\ Answer(Changed(outcome, IF Command.op = "save" THEN Command.content ELSE "none", 0))
               /\ UNCHANGED slots

\* The active list is cleared by a login, a duel's deck check or a command.
ClearedElsewhere ==
    /\ online /\ data.active # NoDeck
    /\ changes < MaxChanges
    /\ changes' = changes + 1
    /\ Persist(Revised(data.counts, data.decks, NoDeck))
    /\ UNCHANGED <<slots, netVars, toServer, toClient>>

-----------------------------------------------------------------------------
(* CardTransferService *)

Transfers == {"DEPOSIT", "WITHDRAW", "DEPOSIT_ALL"}

\* What a transfer comes to: the plan, if the policy can be asked about the new counts.
Transferred(command, verdict) ==
    LET plan == Plan(slots, data.counts, command.op, command.code, command.amount)
    IN IF plan.error # "NONE" THEN Rejected(plan.error, data.revision)
       ELSE IF data.active # NoDeck /\ verdict = "fails" THEN Unavailable
       ELSE [plan |-> plan,
             data |-> Revised(plan.counts, data.decks,
                              IF data.active = NoDeck THEN NoDeck ELSE Reviewed(data.active, verdict))]

\* Slots and collection are written together, or neither.
ServeTransfer(verdict) ==
    /\ Asked(Transfers)
    /\ LET outcome == IF Command.expected # data.revision THEN Stale ELSE Transferred(Command, verdict)
       IN IF IsRejected(outcome) THEN Refuse(outcome) /\ UNCHANGED disturbed
          ELSE /\ slots' = outcome.plan.slots
               /\ Persist(outcome.data)
               /\ Answer(Changed(outcome.data, "none", outcome.plan.moved))

\* The grant command: cards for the inventory, none for the collection.
Grant(code, count) ==
    /\ online /\ code \in Depositable
    /\ changes < MaxChanges
    /\ changes' = changes + 1
    /\ LET plan == Plan(slots, [c \in Codes |-> IF c = code THEN count ELSE 0], "WITHDRAW", code, count)
       IN plan.error = "NONE" /\ slots' = plan.slots
    /\ UNCHANGED <<data, snapshot, held, netVars, toServer, toClient, disturbed>>

-----------------------------------------------------------------------------
(* CollectionSnapshotStore *)

Pages(size, limit) == size \div limit + (IF size % limit = 0 THEN 0 ELSE 1)

Owned(counts) == Restrict(counts, {code \in Codes : counts[code] > 0})
CountPages(d) == Pages(Cardinality(DOMAIN Owned(d.counts)), COUNT_PAGE)
DeckPages(d) == Pages(Cardinality(DOMAIN d.decks), SUMMARY_PAGE)

\* The place of a key among the sorted keys.
Rank(key, keys) == Cardinality({other \in keys : other < key})

\* The entries of a map on one page of it.
PageOf(map, limit, index) ==
    Restrict(map, {key \in DOMAIN map : Rank(key, DOMAIN map) \div limit = index})

\* A random identity: any that nothing names any more is as good.
SnapshotsNamed ==
    {snapshot.id}
        \cup {toClient[i].reply.snapshot : i \in {j \in DOMAIN toClient : "snapshot" \in DOMAIN toClient[j].reply}}
        \cup {toServer[i].command.snapshot : i \in {j \in DOMAIN toServer : toServer[j].command.op = "page"}}
FreshSnapshot(named) == CHOOSE id \in 1..(Cardinality(named) + 1) : id \notin named

Opened(id, d) ==
    [op |-> "opened", snapshot |-> id, revision |-> d.revision, countPages |-> CountPages(d),
     deckPages |-> DeckPages(d), active |-> d.active]

\* The active list is checked again, then the owner's snapshot is replaced.
ServeOpen(verdict) ==
    /\ Asked({"open"})
    /\ IF data.active # NoDeck /\ verdict = "fails" THEN Refuse(Unavailable) /\ disturbed' = TRUE
       ELSE LET cleared == data.active # NoDeck /\ verdict = "ineligible"
                new == IF cleared THEN Revised(data.counts, data.decks, NoDeck) ELSE data
                id == FreshSnapshot(SnapshotsNamed)
            IN /\ data' = new
               /\ held' = Put(held, new.revision, new)
               /\ snapshot' = [id |-> id, data |-> new, idle |-> FALSE]
               /\ disturbed' = (disturbed \/ cleared)
               /\ Answer(Opened(id, new))
               /\ UNCHANGED slots

\* How many pages of a kind a snapshot has.
PagesListed(d, kind) == IF kind = "COUNTS" THEN CountPages(d) ELSE DeckPages(d)

\* A page of the snapshot asked for, unless it is gone, was idle too long, has no such page
\* or is no longer what the collection is.
ServePage ==
    /\ Asked({"page"})
    /\ LET current == snapshot # NoSnapshot /\ snapshot.id = Command.snapshot
           fresh == current /\ ~snapshot.idle
           d == snapshot.data
           listed == Command.index \in 0..(PagesListed(d, Command.kind) - 1)
           entries == IF Command.kind = "COUNTS" THEN PageOf(Owned(d.counts), COUNT_PAGE, Command.index)
                      ELSE PageOf(d.decks, SUMMARY_PAGE, Command.index)
       IN IF fresh /\ (listed => d.revision = data.revision)
          THEN Refuse(IF listed THEN [op |-> Command.kind, snapshot |-> snapshot.id, revision |-> d.revision,
                                      index |-> Command.index, entries |-> entries]
                      ELSE Rejected("INVALID", data.revision))
          ELSE /\ Answer(Stale)
               /\ snapshot' = IF current THEN NoSnapshot ELSE snapshot
               /\ UNCHANGED <<data, slots, held>>
    /\ UNCHANGED disturbed

ServeRead ==
    /\ Asked({"read"})
    /\ Refuse(IF Command.deck \in DOMAIN data.decks
              THEN [op |-> "deck", revision |-> data.revision, deck |-> Command.deck,
                    content |-> data.decks[Command.deck]]
              ELSE Rejected("NOT_FOUND", data.revision))
    /\ UNCHANGED disturbed

\* Nobody asks for a page for SNAPSHOT_IDLE_MS.
IdlePasses ==
    /\ snapshot # NoSnapshot /\ ~snapshot.idle
    /\ snapshot' = [snapshot EXCEPT !.idle = TRUE]
    /\ disturbed' = TRUE
    /\ UNCHANGED <<data, slots, held, netVars, toServer, toClient, changes>>

\* The server notices that the client is gone.
Logout ==
    /\ online /\ ~connection.up
    /\ online' = FALSE
    /\ snapshot' = NoSnapshot
    /\ toServer' = <<>>
    /\ UNCHANGED <<data, slots, held, connection, toClient, changes, disturbed>>

Serve ==
    \/ RefuseBusy
    \/ \E verdict \in Verdicts : ServeMutation(verdict) \/ ServeTransfer(verdict) \/ ServeOpen(verdict)
    \/ ServePage
    \/ ServeRead
=============================================================================
