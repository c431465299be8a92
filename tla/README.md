# Duelcraft: a verification project

Duelcraft is a NeoForge mod that lets Minecraft players duel each other, or an
AI, with the ygopro-core engine. This directory holds TLA+ models of the parts
of it that are hard to test, the TLC configurations that check them on small
instances, and TLAPS proofs of what holds for every instance. Paths below are
relative to the repository; `…/` stands for `src/main/java/com/haxerus/duelcraft/`.

## The system

| component | state it keeps | operations | talks to | what makes it hard |
|---|---|---|---|---|
| **DuelPreparationService** (`…/server/DuelPreparationService.java`) | `flows` (player → Flow), `revisions` | `invite`, `accept`, `decline`, `cancel`, `hand`, `first`, `view`, `expire`, `logout`, `duelEnded`, `startFinished` | calls its `Host` (the DuelManager) for availability, selections, the start, and to be notified | every entry point, and every `view()`, first expires overdue flows; every change notifies, and a notification asks for a view: the service re-enters itself in the middle of its loops |
| **DuelManager** (`…/server/DuelManager.java`) | `activeDuels`, `playerToDuel`, `duelSeats`, `startingPlayers`, `announcements` | login, logout, tick, `startPrepared`, `startSoloDuel`, `handleResponse`, `forfeit`, `endDuel`, `publish`, shutdown | is the Host of the service; owns a `DuelSession` per duel; sends packets | a start can fail before, after or because of what it installs; a duel may be over before `start()` returns; deck checks run listeners of other mods |
| **Preparation requests** (`PreparationPayloadHandler`, `DuelCommand`) | none | one call of the service per packet or chat command, then an answer | service | a client may name a flow or a round that is over |
| **Client preparation state** (`…/client/interaction/ClientPreparationState.java`, `ClientPayloadHandler`) | the last view, open requests, the live duel screen | `receive`, time-outs | fed by packets | notifications arrive in the order in which re-entrant calls finish |
| **Duel session and handlers** (`DuelSession`, `ServerDuelHandler`, `SoloDuelHandler`) | engine handle, `ended`, `closed`; pending player, last prompt, AI retries | `process`, `setResponse`, `onMessage`, `close` | engine through JNI, network, DuelManager | the engine loop calls listeners that may end and close the session under it; the AI's answers re-enter it |
| **Collection service** (`…/server/collection/`) | per player a collection with its revision, and one snapshot | `save`, `delete`, `activate`, `clearActive`, `replaceCounts`, `revalidateActive`; `open`, `page` | player data, network, DuelManager | a change is checked against the revision its sender saw; pages are asked for while the collection moves on |
| **Card transfers** (`CardTransferService`, `InventoryTransferPlan`, `CardGrantCommand`) | inventory and collection together | deposit, withdraw, deposit all, grant | collection service | two stores, one commit: cards must be conserved |
| **Client collection** (`CollectionClient`, `ClientCollectionState`) | open requests, the refresh in progress, the pages it has, the view shown | `request`, `refresh`, `receive`, time-out, `connect`, `disconnect` | collection service by packets | late replies, superseded refreshes, reconnects to another world |
| **Deck editor and search** (`CollectionSearchWorker`) | query generation, debounce, worker | submit, close | three threads | only the result of the last query may be shown |
| **Response building** (`…/duel/response/`) | none | pure: is this selection an answer to this prompt? | prompts | the sum selection is a search problem |
| **Client duel state and prompts** (`ClientDuelState`, `SelectionGate`, …) | zones, counters, the prompt | fold of messages | UI | order, re-entrant clicks |
| **Screen navigation** (`ScreenRequests`, `DuelcraftScreens`) | latest request | open, close | UI | the latest navigation wins |
| **Messages and codecs** (`…/duel/message/`) | none | parse, encode | network, engine | byte formats, covered by round-trip tests |
| **Card data cache** (`…/core/data/CardDataCache.java`) | snapshots on disk and a pointer | download, publish, prune | file system | crashes between two file operations |
| **Native bridge** (`src/native/jni-bridge/`) | engine, `contexts_`; `cards_`, `unknownCodes_`; `resolved_`; `g_onNativeLog` | `nCreateEngine`, `nCreateDuel`, `nDuelProcess`, … and the callbacks `cardReader`, `scriptReader`, `logHandler` | called by `OcgCore`, calls ygopro-core, which calls back; logs into Java | every call that enters the core may come back for cards, scripts and the log, where Java may throw; files change under it; handles are addresses that are used again |
| **Items, blocks, configuration**, **UI fixtures** | | | | registration, tests |

Everything the server does runs on its main thread, so there are no data races
in the modelled core. Its difficulty is *re-entrancy*: `expire → finish →
changed → Host.changed → publish → view → expire` is one call chain, and so is
`accept → selection → notifyUnreadyPeer → publish → view → expire`, which may
expire the flow that is being accepted. Added to that are the order of
packets, the deadline racing an answer, disconnects at any point between two
handlers (or inside a deck check), and starts that fail half way.

What makes each component correct:

* *Service*: a player is in one flow at a time, the pair enters and leaves it
  together; deadlines are final; hands are final; the winner of the roll
  chooses; a flow ends once; a flow ends at all.
* *Manager*: the three maps of the live duels agree; locks are released on
  every path; a duel starts only with the pair, the decks and the order that
  were agreed on.
* *Notifications*: after every handler each connected client shows the current
  state, and a player who must act has been asked to.
* *Session*: an answer reaches the prompt it was given for; a running duel
  always waits for somebody who knows it; a closed handle is not used; the AI
  gives up.
* *Collections*: what the client shows, and what it edits, is what the server
  held; a refresh ends, and fails only for a cause; cards are conserved.
* *Native bridge*: handles, contexts and core duels agree; cards mean what the
  files say; a script has one source in the life of an engine; a miss is told
  once; no exception waits under the engine's frames.
* *Search*: the last query wins. *Cache*: a crash leaves a readable snapshot.
  (Neither is modelled, see "Not modelled".)

## Modules

| module | models |
|---|---|
| `DuelPreparation` | the service: data, helpers, one action per handler or rest of a handler |
| `DuelManager` | extends it with the Host, the duels, the packets, clients, clock and fairness; properties at the end |
| `Matchmaking` | the abstract promise: parties that are formed, advance and break up as a whole; a server stop that releases everybody |
| `MCDuelManager` | TLC instances: symmetry and the action constraints of the larger runs |
| `DuelManagerProofs` | TLAPS: types, invitations, flows, the order of the calls and what it guarantees to the flows |
| `DuelStartsProofs` | TLAPS, on top of it: starts, their locks, the duels they install, and the refinement of `Matchmaking` |
| `DuelViewsProofs` | TLAPS, on top of `DuelStartsProofs`: what clients hold, and what is left of players who are gone |
| `DuelSession` | one running duel: engine loop, listener, AI, client prompts, packets; properties at the end |
| `DuelSessionProofs` | TLAPS: every safety property of a running duel |
| `JavaLog`, `CardDatabase`, `ScriptProvider` | `java_log.cpp`, `card_database.cpp`, `script_provider.cpp` |
| `NativeBridge` | extends them with `jni_interface.cpp` and `duel_engine.cpp`: calls in progress, callbacks, handles; properties at the end |
| `BridgeContract` | the abstract promise of the bridge |
| `MCNativeBridge` | TLC instances: databases, script files, configurations |
| `NativeBridgeProofs` | TLAPS: the invariants of the bridge, its contract, and that its cards mean what the files say |
| `InventoryTransferPlan` | the plan of a transfer, as pure operators |
| `CollectionService` | extends it with the server side of one collection: requests, revisions, snapshots |
| `CollectionClient` | extends that with the client side, connections and worlds; properties at the end |
| `MCCollection` | TLC instance: worlds, and the action constraint on later connections |
| `CollectionProofs` | TLAPS: what a client shows and edits, and what its refreshes wait for |
| `TransferProofs` | TLAPS, on top of it: what a transfer conserves, and the types |
| `FoldLemmas` | TLAPS: folds over sequences and the induction they need, for `NativeBridgeProofs` and `TransferProofs` |

The three systems, duels as a matter of players (`DuelManager`), a duel from
inside (`DuelSession`) and the collection (`CollectionClient`), meet in two
places only, which each abstracts: a duel ends in `DuelManager` when the
engine likes, and in `DuelSession` whenever `FinishDuel` or `Shutdown` comes
from outside; the active deck changes in `DuelManager` by `ChangeDeck`, and in
`CollectionService` by a duel's deck check, `ClearedElsewhere`. What
`DuelSession` calls the core is what the native bridge serves.

### DuelManager: the call stack

`stack` is the call stack of the server thread, innermost call first. An
element is a record `[op, …]`: a call that has not started, or the rest of one
that waits for a callback. Only the head can take a step; a step does what the
Java code does up to the next call out of the component, and pushes that call
and the rest of itself. So `invite` becomes `Invite` (the checks before
`selection()`) and `InviteSelected` (what follows); `first` becomes `First`,
`startPrepared`…`setup`, and `FinishStart`; `expire` is the frame `sweep`,
whose `todo` is the copy of the map that the loop iterates over (in any order,
as the map's order is not specified). Requests are admitted when the stack is
empty (`Waiting`).

| code | model |
|---|---|
| `flows`, `Flow` | `flows` (0 for absent), `flow` (every object ever made, its index is its identity) |
| `revisions`, `announcements`, `playerToDuel`, `activeDuels`, `duelSeats`, `startingPlayers` | variables of these names |
| `host.online` | `online` |
| the saved active deck | `deck` |
| the result of `selection()` / `Host.start` until it is read | `selected`, `started` |
| `changed()`, `finish()`, `expire()`, `view()` | `Changed`, `Finish`, `Expiry`/`Sweep`, `View` |
| `Host.changed` → `publish`, `shouldAnnounce` | `Notify` (the expiry in `view()`), `Publish` |
| `selection()`, `notifyUnreadyPeer` | `SelectionMissing/Fails/Rejected/Accepted`, `Denied` |
| `startPrepared`, `current`, `start` | `StartPrepared`, `Current`, `StartChecked`, `StartThrows`, `StartInstalls`, `Setup…` |
| `startSoloDuel` | `CancelOwn`, `SoloGuard`, `SoloSelected`, `SoloChecked`, `SoloFinally` |
| `finishDuel`, `endDuel` | `FinishDuel`, `EndDuel` |
| login, logout, tick, server stop | `Login`, `Drop`/`Logout`/`Leave`, `ServerTick`, `Shutdown` |
| `PreparationPayloadHandler.handle/apply`, `DuelCommand` | `ServePacket`, `ServeChat`, `Request…`, `Reply` |
| `ClientPreparationState.receive`, the duel screen | `Receive`, `Show` |

Abstractions:

* `now` is read when a request is handled and kept in the frame, as the code
  passes it down; the calls that read the clock themselves read `clock`. The
  clock ticks between handlers and before the calls that read it, nowhere else,
  as no other step can tell.
* Seeds, rules, names, the time left and the text of messages are left out.
  A deck is a model value; legality is the choice between the outcomes of
  `selection()`, so the AI's deck and the player's may be found illegal at any
  check.
* Connections deliver in order, as TCP does, so a packet is applied to
  `client[p]` when it is sent. The client still compares revisions.
* A chat command (`DuelCommand`) is the same request without the answer to the
  client (`ServeChat`). It may name any flow, as a packet may; the command
  itself names the one the player is in.
* A flow that has left the map is reset to `Garbage`: only calls that hold on
  to it can reach it, and they read its players only.
* The engine behind a duel may end it at any answer, at once when it starts,
  or never.
* `ListenerDisconnects` says whether a `DeckUseCheckEvent` listener may
  disconnect the player whose deck it checks. `docs/player-collections.md`
  asks listeners to have no such effects, so it is FALSE in most runs; the
  service has code for the case (`loggedOutDuringStart`), so two runs set it.
  With it, a player who disconnects between the deck checks and the install
  can be left in a duel (`OfflineReleased` is then violated): that is a
  consequence of what the documentation excludes, and is not listed as a
  finding.

### DuelSession

`thread` is where the server thread is inside this duel: `idle`, `process`
(entered), `run` (the core is about to run), `dispatch` (records left in the
batch), `auto` (`processSoloAutoResponse` between two answers). Each iteration
of the loop of `processUntilInput`, and each record it dispatches, is a step;
an AI's answer goes back to `process` without the thread going idle. The
listener is one record `handler` for `ServerDuelHandler` (`solo = FALSE`) and
`SoloDuelHandler`.

| code | model |
|---|---|
| `DuelSession.ended`, `closed`; `activeDuels` | `session` |
| `process`, `processUntilInput` | `EnterProcess`, `RunCore`, `AutoPass`, `DispatchInfo/Prompt/Win`, `BatchDone` |
| `ServerDuelHandler.onMessage`, `SoloDuelHandler.onMessage` | `ServerPrompt`, `ServerRetry`; `RoutePrompt`, `HandleRetry`, `ForwardAiPrompt` |
| `handleResponse`, `handleSoloAutoResponse` | `HandleResponse`, `ProcessSoloAutoResponse` |
| `ClientDuelState`, `LDLibDuelScreen.sendResponse` | `Receive`, `Respond` |

What a prompt asks and an answer says is abstracted to whose prompt it is, its
number, and whether the AI can answer it. Answers carry no number in the code;
the `of` of an answer is history, used by properties only. The core may refuse
any answer, stop anywhere, and end with or without a winner. A prompt is the
last record of its batch and one the parser can read. The refreshes of the
field count as native calls; what the sanitizer hides from whom is left out.

### NativeBridge

Java calls the bridge on one thread. A call that never enters the core is one
step; one that does begins (`nCreateDuel`, `Enter`), lets the core call back
any number of times (`ReadCard`, `ScriptReader`, the log), and returns
(`CreateReturns`, `CallReturns`). `call` is the call in progress. Script files
may change between any two steps. A log line has three outcomes: written, not
written (hook not found, string not built), or written with a listener that
throws; `Cleared` is the code that has to follow.

| code | model |
|---|---|
| `nCreateEngine`, `nDestroyEngine`, `DuelEngine::init/shutdown` | same names, `EngineInit`, `EngineShutdown` |
| `nCreateDuel`, `createDuel` | `nCreateDuel`, `CreationFails`, `DuelCreated`, `LoadBootstrap`, `CreateReturns` |
| `nDuelNewCard`, `nStartDuel`, `nDuelProcess` | `Enter`, `CallReturns` |
| `nDuelGetMessage` … `nDuelQueryField` | `Consult` |
| `contexts_`, the core's duels, Java's sessions | `contexts`, `alive`, `sessions` |
| `CardDatabase::open`, `loadFromFile`, `cardReader` | `OpenedCards`, `LoadFromFile`, `CardReader` |
| `ScriptProvider::readFile`, `resolved_` | `Source`, `Remember`, `ReportMiss`; `resolved` |
| `javaLog`, `resolveHook` | `JavaLog`, `ResolveHook` |

Widths are scaled: `ByteBase` is the number of values of a byte (2 in the
runs), and words, fields and columns are two, four and eight of them, so that
every truncation, sign and packing of `loadFromFile` is done on numbers TLC
can enumerate. `nGetVersion`, which makes an engine of its own and keeps
nothing, and calls with a null engine, which `DuelEngine.java` never makes, are
left out.

### CollectionClient

Requests and replies are two queues; the server handles one request a step
(`Serve`). The client handles a reply whole (`Receive`), with everything its
completion triggers: learning the revision, the next page, a fresh refresh.
Java's future `refreshing` is identified by the request it waits for
(`awaited`), as a refresh waits for one at a time. A task of the client thread
carries the generation of its connection, so a reply that was received may
still run when that connection is over (`Disconnect` keeps any prefix of the
replies). Random identities are drawn from the least pool that keeps them
distinct among all that is still named. The idle time of a snapshot is a flag
that time may set, a time-out may hit any open request. Page sizes, the stack
size and the largest amount are constants. Keys of the two maps of a collection
are integers, and an entry is on the page which its place among the sorted
keys (`Rank`), divided by the page size, gives.

| code | model |
|---|---|
| `CollectionPayloadHandler.handle` | `RefuseBusy`, `ServeMutation`, `ServeTransfer`, `ServeOpen`, `ServePage`, `ServeRead` |
| `CollectionService.save/delete/activate/clearActive` | `Mutated` |
| `CardTransferService.apply`, `replaceCounts` | `ServeTransfer`, `Transferred` |
| `CollectionClient.pending`, `requiredRevision`, `refreshing`, … | fields of `client` |
| `ClientCollectionState` | `client.assembly`, `client.view`; `Begin`, `NextPage`, `Accept`, `PublishIfComplete` |
| `refresh`, `pullPage`, `finishRefresh` | `Refresh`, `Pulled`, `PullPage`, `FinishFailed` |
| `send` and its time-out, `receive`, `reset` | `Request`, `Timeout`, `Receive`/`Complete`, `Reset` |

`held` (what the server held at each revision), `handed` (the list last given
to the editor) and `disturbed` (something happened that may rightly fail the
refresh) are history variables. The verdict of the deck policy is any of
eligible, ineligible, or the exception of a listener.

## Runs

| run | instance | shows |
|---|---|---|
| `core` | 2 players, 2 decks, 2 rounds, 1 flow, 1 duel; decks change, starts fail, players come and go; 3.2 M states | `TypeOK`, `FlowsPaired`, `DuelsPaired`, `NothingLeftBehind`, `ClientsAgree`, `PromptReached`, `OfflineReleased`, `WinnerChooses`, `OverdueNeverAdvances`, `ViewsFollowRevision`, `HandsStand`, `StartsPrepared` |
| `crossing` | 3 players, 2 flows, 1 duel; decks and connections settled; 2.3 M | crossing invitations, answers and starts: `KeepsPromise`, the refinement of `Matchmaking` |
| `rematch` | 2 players, 2 flows, 2 duels; 3.4 M | the rest of a first flow or duel never touches the second: `DuelsPaired`, `ClientsAgree`, `StartsPrepared` |
| `sweeps` | 4 players, 2 flows overdue together; 1.1 M | nested sweeps end and announce each flow once: `ExpiresOnce` |
| `reentrant` | 2 players, 2 duels, a listener that disconnects; 1.5 M | `StartingHeld`, `KeepsPromise` under logouts inside a start, and two solo duels that nobody is left to end; `AbsentNeverAdvance` |
| `patience` | 2 players, fairness, no symmetry; 0.1 M | `FlowsSettle`: every flow ends |
| `ghost_screen` | as `reentrant` | a finding below |
| `session` | 2 players, and 1 against the AI; 5 prompts; 10 k | `TypeOK`, `HandleRespected`, `AnswersMeetPrompts`, `SomeoneIsAsked`, `OneResult`, `ThreadReturns` |
| `bridge` | 2 engines, 2 addresses, 2 directories, 3 scripts, 1 change of a file; 145 k | `TypeOK`, `DuelsOwned`, `OneSource`, `ToldOnce`, `NoStrayException`, `ImplementsContract` |
| `cards` | 1 engine, 2 files, 60 odd rows, each column at its limits; 24 k | `CardsMeanFiles` |
| `bootstrap` | as `bridge`, 1 engine | a finding below |
| `collection` | 2 codes, 1 list, 3 slots and the offhand, 2 worlds, 2 connections, 1 change, 2 requests at a time; 3.8 M | `TypeOK`, `ViewTrue`, `DeckOfView`, `RefreshAwaits`, `RefreshSucceeds`, `TransfersExact` |

Deadlock is checked in the runs of `MCDuelManager`: a server that waits can
always be asked for something. It is not in the others, which do stop: a duel
is over for good in `session`, an engine that was destroyed may be the last in
the bridge's runs, and the connections of `collection` are counted.

Bounds of the manager's runs. `Step` is one tick and `MaxClock` two: a request can come before, at
and after a deadline, and a second deadline can follow the first (a request is
admitted only while a deadline it may set still fits in the clock).
`MaxRounds = 2` has a tie and the round after it; the last round has no tie.
`MaxFlows`, `MaxDuels` and `MaxRevision` bound how often players start over;
two flows and two duels are what it takes for one to interfere with another,
and two flows need three or four players to be open at once. They bound
the requests, never the handlers. The runs with more than two players leave out
(`Settled`, `Gathered`) changes of decks and disconnects, which `core` and
`reentrant` explore. Players and decks are symmetric: nothing in the code
distinguishes them.

Bounds of the other runs. `MaxPrompts = 5` lets the AI be refused
`MAX_AI_RETRIES` + 1 times, as a refusal takes no prompt, and lets a chain
window, a prompt of the AI and one of the human follow each other. Two engines
and two addresses are what it takes for a handle, a remembered script or a
warned code of one engine to reach the next, and for an address to be used
again while another duel lives; one change of a file falls between any two
steps. `cards` has one column at its limits at a time, as no column's decoding
reads another but the link markers' (type and defence vary together), and two
files that meet in one code. In `collection` one change, by the player or from
elsewhere, falls between any two pages, and with the pages of size 1 a
snapshot has three; `MaxPending = 2` lets one request overtake another, and a
time-out of either leaves its answer under way. The second world has a lower revision than the
first. `LaterLooks` lets the player do no more on the second connection than be
shown his collection: it is there for what the first one may leave behind. Amounts are chosen so that
a withdrawal fills a stack and an empty slot, or does not fit, and a deposit
takes from two slots, the offhand among them.

Fairness (`FairSpec` of `DuelManager`): the server thread finishes the calls it has begun
(weak fairness of `ThreadStep`); time passes (strong fairness of `ClockTicks`,
which the model enables only where the clock is read); and the tick handler
runs again and again while packets arrive (strong fairness of `ServerTick`):
Minecraft handles packets and then ticks, twenty times a second. Nothing is
assumed of players: they may never answer. `DuelSession` assumes that the
thread runs on and the network delivers (weak fairness of `ThreadStep`,
`Receive`, `HandleResponse`), and of the core that it stops for a prompt or ends
within the bound. The other modules state safety only.

Every property also has a mutant of the code, an operator beside the definition
it changes (`FinishHalf`, `OverdueAfter`, `SettleSwapped`, …), under which the
run fails: the comments marked `Mutant` say which bug each one is.

### The properties worth reading

* `ClientsAgree`: after each handler a client that got any view has *the*
  current one. `publish` may be overtaken by the nested publication it caused,
  so this needs both the revisions and the order in which `changed()`
  advances and notifies.
* `PromptReached`: `shouldAnnounce` marks a step as announced even when the
  message that goes out reports an outcome; the run shows that the step was, or
  will be, asked for all the same.
* `OverdueNeverAdvances`: no request that came at the deadline or later changes
  a flow, whether or not a tick had removed it.
* `AbsentNeverAdvance`: `invite()` and `accept()` read who is connected, and then have
  decks checked, which may disconnect either player. An invitation may so be made in
  the name of somebody who is gone, and nobody tells the service again; it must
  still not be accepted, played for or started.
* `StartsPrepared`: the duel that is installed has the pair of the flow, the
  decks captured when it was accepted, which are still the active ones, and
  the agreed first seat, although listeners, sweeps and deck checks ran since.
* `StartingHeld`: the comment in `logout` ("A synchronous startup owns the
  locks until its callback returns, even on disconnect").
* `KeepsPromise`: the whole of it, as a refinement. `Engagement(p)` maps a
  player to a party and its stage; every step of the manager is a step of
  `Matchmaking` or changes nobody's engagement. In particular the step in
  which a paired duel is installed is not visible: the party is "starting"
  until `finish()` returns, and "dueling" at once for both. `Stop` of
  `Matchmaking` is what a server stop needs: it takes the duels of several
  parties at once, if their players were disconnected inside the deck checks
  of their solo duels and so were not there to leave.

* `SomeoneIsAsked`: whenever the server thread is idle a running duel waits
  for one human, who sees the prompt, will see it, or has his answer on the way,
  and nobody else does; at most one packet is under way. With `AnswersMeetPrompts` it says why it is safe that an
  answer does not name its prompt.
* `DuelsOwned`: `contexts_`, the core's duels and Java's sessions are one set,
  the duel in the making excepted. Java destroys a duel once (`HandleRespected`); a
  second call for the same handle is not modelled. Nor are pointers: of the card
  table it is checked that it does not change while an engine is up.
* `CardsMeanFiles`: the decoding of every row against a definition from the
  other side, which says what number the fields must add up to.
* `ViewTrue`: pages of two collections are never put together, though refreshes
  are superseded, time out, or end with their connection.
* `RefreshSucceeds`: a refresh that ends without a current view had a cause
  that `disturbed` noted since it began. It is what a revision left over from
  another world would break, silently and for good.
* `TransfersExact`: compares counts before and after over both stores, and
  says that a refusal for cards or room is right; it does not use the plan's
  own order of slots. The code writes the slots and then the collection, on one thread;
  the model writes both in one step, so a failure between the two is not covered.

### Findings

`ghost_screen` (documentation and code differ): `docs/multiplayer-decks.md:18`
says "A startup failure releases locks and clears the transient duel screen
through `START_FAILED`". `first()` (`DuelPreparationService.java:179`) reports
`OFFLINE` when one of the pair was logged out during the start, also if the
start failed; the client closes the duel screen for `START_FAILED` only, and
a failed start sends no `DuelEnd`. The player who stayed keeps the live screen
of a duel that does not exist. The run needs `ListenerDisconnects`.

`bootstrap` (comment and code differ): `duel_engine.cpp:70` says of the
bootstrap scripts that "a failure of either is logged as an error". A miss is
remembered, and told once in the life of an engine, so every later duel of
the same engine is made without `utility.lua` and without a line; a remembered
script that cannot be read any more is logged as a warning.

## Proofs

### DuelManagerProofs

`DuelManagerProofs` proves, for any set of players and decks, any deadline and
any bounds, from the named assumptions on the constants (`StepAssumption`,
`RoundAssumption`, `NoneAssumption`):

* `TypeCorrect`: `Spec => [](TypeOK /\ ActiveSeated)`. `TypeOK` types every
  frame of the call stack, so a handler that is resumed finds the flow, the
  duel and the players it was called with. It is inductive only together with
  `ActiveSeated` (a duel in `activeDuels` has a player in its first seat), which
  `endDuel` relies on when it notifies the seats.
* `InvitationsHold`: `Spec => []InvitationUnrivalled`, an invariant stated beside its proof, and
* `FlowsStayPaired`: `Spec => []FlowsPaired`.

`FlowsPaired` is not inductive: `InviteSelected` writes the two entries of a
new flow without looking at what is there, as the code does; had one of the
players got into a flow since `Invite` checked, the entry of that flow's other
player would dangle. `InvitationUnrivalled` closes the gap. It says that the
calls above a pending invitation on the stack are all *quiet* (`QuietOps`: deck
checks, sweeps, notifications, disconnects), and that its two players are free.
Quiet calls push only quiet calls and only take entries out of the map
(`QuietOver`, `UnrivalledFreed`); any other call finds no invitation below it
(`LoudIsAlone`) and so can do no harm. With that the argument has one lemma
per action: `…Types` for the types, `…KeepsFlows` for the two invariants.

The second half of the module is about the order of the calls.
`StartsAreHeld`, `WinnersChoose`, `DeadlinesBind`, `HandsAlwaysStand` and
`FlowsExpireOnce` are `Spec =>` of `[]StartingHeld`, `[]WinnerChooses`,
`OverdueNeverAdvances`, `HandsStand` and `ExpiresOnce`. They rest on `IStarts`,
which adds to the types, `FlowsPaired` and `InvitationUnrivalled`:

* `Nested(stack)`: which call may be on the stack above which (`MayCover`). It
  is the re-entrancy of the server in one relation: notifications, sweeps
  and disconnects may interrupt anything but a start that is about to run; a
  request, only a reply; so one start at most is pending, and between a request
  and the result of its deck check come only calls that end flows.
* `StartsHold`: each call of a start belongs to a live flow in mode `STARTING`
  whose `FinishStart` is on the stack, and each such flow has that call.
* `AcceptStands`: the flow that is being accepted is still an invitation, if it is
  still there.
* `SweptFirst`: a request that may advance a flow meets it before its deadline,
  or a sweep that will remove it is still above. `OverdueNeverAdvances`
  speaks of the step that changes the flow; the code checks the deadline
  several calls earlier, by sweeping.
* `RollsWon`: whoever chooses won the roll that the flow still holds.

One lemma per action shows that it keeps `Nested`, one that it keeps the rest.
`HowFlowsChange` says in one place which calls rewrite a flow, and how; the
action properties follow from it.

### DuelStartsProofs

`SeatsArePaired`, `NothingStaysBehind` and `StartsFollowTheRoll` are `Spec =>` of
`[]DuelsPaired`, `[]NothingLeftBehind` and `StartsPrepared`. Installing a duel
writes `playerToDuel` without looking at what was there, as the code does, and
reads decks that were looked up before callbacks ran. `IDuels` adds to
`IStarts` why that is right:

* `SelectionsFree`: whoever is asked for a deck, or is about to be seated, is in no
  duel, what `selection()` returned is still the active deck, and a seat's deck too;
* `StartsFollow`: the calls of one start agree on its pair, order and decks
  (`Follows`), and a deck found eligible is the prepared one;
* `SoloHeld`: a lock in `startingPlayers` is held by the call that releases it, and
  no player who has one is in a flow;
* `DuelsApart`: a player of a flow who is in a duel is in the one which that flow
  has just started, with both players or none.

The second half of the module is the promise of the whole: `PromiseKept` is `Spec => KeepsPromise`: every step of the server proposes a
party of two free players, advances one party by one stage, begins a duel
against the AI, releases one party, stops the server, or changes nobody's
engagement. `Moves(party, from, to)` says it for the mapping `Engagement`;
`Promised` lists what is allowed and `PromisedNext` takes it to
`Matchmaking!Next`. Steps that leave locks and duels alone are sorted by what they
do to the flows (`HowFlowsChange`): a proposal, an advance, the end of one
flow. The steps that install a duel, or end one inside its own start, change
nothing, by `DuelsApart`. It is here that `DuelsPaired` is needed of the
moment `finish()` returns: the whole party is found in the same duel, or in none.

### DuelViewsProofs

`NobodyPlaysAlone` is `Spec => AbsentNeverAdvance`, whatever a deck check disconnects. Its invariant,
`IAttended`, says of a flow that is or is being accepted (`Committed`) that each of its players is
connected, or his `logout` is among the calls under way (`Leaving`). `MadeBy` says that both were
connected when the acceptance looked; a call ends by running only (`OnlyTopEnds`), and a
`logout` that runs ends its player's flow (`LeavingStays`). A request that would change the
flow runs above no `logout`, so both are there.

`RevisionsTell` is `Spec => ViewsFollowRevision`. `AbsentAreReleased`,
`ClientsFollow` and `PromptsArrive` are `Spec => []` of `OfflineReleased`,
`ClientsAgree` and `PromptReached`, under `ListenerDisconnects = FALSE`, which
`docs/player-collections.md` asks of listeners. Without it the first two of the three are false:
the run `ghost_screen` shows a screen that stays live, and an owner who is
disconnected inside his own deck check is seated afterwards. `RevisionsTell` and the three say
that every change is told; while calls are under way the invariants say who
still has to be told, and by which call:

* `IViews`: a client's view is not ahead of its player's revision; if it is not
  the current view, a call is under way that tells the player (`Owed`): a
  notification, or one that will make one. While a notification is under way,
  a view of the current revision is the current view; that is why the
  answer to a packet cannot replace a view by another of the same revision. `ServiceViews` is the heart of it: a step of the
  service leaves a player's view alone, or advances his revision and notifies
  him. The duel that is over changes views outside the service, hence
  `LeaveAlone` and `SetupHeld`: whoever loses his seat is notified by
  `duelEnded`, or is held by the start that is about to report.
* `IOffline`: who is offline and still holds a flow or a seat has his `logout` or
  `leave` on the stack, and a `logout` is what runs next (`LogoutFirst`); nobody who is
  offline is put into a flow (`PresentAsked`).
* `IScreens`: a screen that is not that of the player's duel is of a start that
  failed, and a call that reports `START_FAILED` to the player, or will, is under
  way (`Clearing`). That the report comes after the seat is lost, and to
  players who have none (`SeatedByStart`, `StartFree`), is what makes clearing
  right. `loggedOutDuringStart` is never set: otherwise the report would be
  `OFFLINE`, the finding above.
* `IPrompts`: a step that waits for a player was announced, or a notification is
  under way that will announce it (`AskedOrTold`); what was announced is what the
  chat shows (`Announced`). `publish` marks a step as announced and stays silent
  when it reports an outcome; `OutcomeFree` says why no step is lost that way: who is
  told of an outcome is in no flow, and gets into none until he was told.
  `PromptAssumption` (no prompt is null) keeps a first announcement apart from none.

`MadeBy` says of each call by which call it is made, and what its maker knows.
One lemma per group of actions shows it (`ServiceStepMade`, …); the invariants
are kept because of that, without a look at the actions again.

### NativeBridgeProofs

For any files, scripts, addresses, configurations and bounds, from the named
assumptions of `CardDatabase`, `ScriptProvider` and `NativeBridge`:

* `BridgeTypes`, `DuelsAlwaysOwned`, `ScriptsHaveOneSource`, `MissesToldOnce`,
  `NoExceptionBehind`: `Spec => []` of `TypeOK`, `DuelsOwned`, `OneSource`,
  `ToldOnce`, `NoStrayException`.
* `BridgeKeepsContract`: `Spec => ImplementsContract`, the refinement of
  `BridgeContract`: every step is one of the contract or leaves it alone.

All follow from one inductive invariant, `BridgeInv`: the five properties and
`Phases`. `Phases` says what a stage of the call in progress means (an engine is
up; while the bootstrap scripts load, their duel is in `contexts_`). Without it
`DuelsOwned` and `NoStrayException` are not inductive: the core could create a
duel, or a hook leave an exception, inside a call of an engine that is gone.
The proof has one lemma per action. The card table enters this proof only as far as
that it is replaced as a whole by `nCreateEngine`.

`CardsFaithful` is `Spec => []CardsMeanFiles`, for any files of any number of rows, with integers of
any size in their columns. It further assumes `ByteAssumption` (a byte has at least two values,
`TYPE_LINK` is a positive number; neither need be a power of two), `DatabaseAssumption` (a query
delivers some of the first rows of a table) and that configurations name known files. It has two parts:

* The table. `CardsInv` says that an engine's files could all be read, and that its table is of all
  their rows (`TableOf`: it has their codes, and each entry is decoded from the last row with its
  code). `LoadFromFile` is a fold over rows and `open` one over files, so `nCreateEngine` establishes
  it by two inductions, whose steps are `RowMore` and `FileMore`; `OpenedTells` puts them together.
  No other step writes the table or the files of an engine that is up.
* The entry. `EntryMeans` says of every row what its entry means. It is arithmetic of remainders with a
  symbolic base, for which SMT alone is of no use: `TwoDigits` gives the remainder by a product from
  the two digits, `FourWords` and `LevelIs` follow for the set codes and the level, `Int32Is` and
  `Int32Wraps` say that the conversion to a signed number is congruent and in range, and `LinkIs` that the
  test of the link bit is the digit of the type.

### CollectionProofs

`ViewsAreWhole`, `DecksAreOfViews` and `RefreshesAwait` are `Spec => []` of
`ViewTrue`, `DeckOfView` and `RefreshAwaits`, for any codes, lists, contents,
page sizes, worlds, amounts and bounds. The assumptions are `KeyAssumption` (keys are
integers, and finitely many), `PageAssumption` (pages are not empty) and
`WorldAssumption` (what is loaded for a player who joins is a collection). They
follow from `CollectionInv`, in three parts:

* `ServerTrue`: no revision stands for two collections, the last one held is the
  current one, and the pages of a snapshot are of just that one. It needs that each
  change withdraws the snapshot, and that revisions only grow in one world.
* `PacketsTrue`: what a reply of the present connection tells of a collection
  was held at the revision it names (`Tells`). Nothing is said of the replies of
  earlier connections, whose revisions mean another world: each packet's generation
  is at most the present one, and a connection that ends leaves it behind.
* `ClientTrue`: the pages that have been put together are the first pages
  (`Prefix`) of one collection that was held (`Assembled`), and the view is one
  (`Shown`). `RefreshAwaits` is part of it: a reply of a refresh answers `Open`
  if nothing is assembled, else the very page that comes next.

`NextOfPages` is the step that matters: the page with an index, joined to
the first pages, gives the first pages up to it. `AllPages` says that as many as
the snapshot announced are the whole map: a key's place is below their
number (`RankIs`), so its page is below `Pages` of it. `FreshIs` shows that there is
always an identity no request or reply names, by counting (`FreeId`); it is why no
reply meets the request of another. `ServerKeeps`, `CompleteKeeps` and
the lemmas beside them have one case per action.

`RefreshesSucceed` is `Spec => RefreshSucceeds`. Its invariant, `RefreshInv`, follows the one
request of a refresh through both queues:

* `KnownTrue`: no reply of the present connection tells of a revision that is yet to
  come, and the client requires none. So a reply to a refresh is never too old, though
  `requiredRevision` survives every refresh; that it does not survive a connection is
  why `reset` clears it.
* `Followed`: a refresh that was not disturbed is `Waiting` or `Served`. While it waits,
  its request to open is in the queue, once, and none to open a snapshot is behind it: an
  earlier refresh that was superseded is served before, so its snapshot does not replace
  the one this refresh will pull. Once it is served the snapshot is the server's and of the
  current collection, no request to open is under way, and the answer to the request it
  waits for, if it is there, is `Answered`, the page the client has to accept.
* `ActiveTrue`: an active list is listed, for the last page is refused otherwise.

`AcceptsNow` shows that the client accepts what the server cuts: every page but the last
is full (`PageSize`, by counting ranks: `RanksFill`), none repeats a key, and the last leaves none out
(`PageFits`). `disturbed` is what the server does to a refresh (a change, an idle snapshot, a
refusal) or a time-out; `PulledFollows` is the step where nothing else is left that fails it.

### TransferProofs

`TransfersAreExact` is `Spec => TransfersExact`, for any codes, any number of slots, any stack
limit and largest amount, and any inventory whose stacks are `Stacks`. It further assumes
`CodeAssumption` and `SlotAssumption` (an empty slot and a foreign stack have codes no card has;
the stack limit is not 0) and that `WorldAssumption` says so of the slots a player joins with.

A plan is a pass over the slots, written as `FoldLeft`, so a statement about its result is an
induction on the slots. `FoldLemmas` (below) has the
induction. `Carried` and `Room` are folds too, of sums: `SumUpdate` says what a change of one slot does
to a sum, `CarriedUpdate` and `RoomUpdate` what it does to them. For each pass there is then what every step keeps (`FillKeeps`, `GiveKeeps`: what left one side is
on the other, stacks are within the limit, all but the slots that were touched are as
before) and what has been reached after k slots (`FillReaches`, `GiveReaches`: enough has been moved, or each of
the first k slots is full, or has given all it has). At the end the first makes a plan exact, and
the second makes a refusal right: a `WITHDRAW` that moved too little left no room, a
`DEPOSIT` no copy. `WithdrawIs` puts the two passes of `WITHDRAW` together, `PlanExact` the kinds.
What is left is that `data.counts` and `slots` are written by the transfer alone, and by
grants and changes that answer nothing (`ServerTransfers`, `ClientSends`).

`CollectionTypes` is `Spec => []TypeOK`. Its conjunct on `Ids` is no matter of types: an identity is a
number up to `MaxPending`, and the bound counts the requests the client waits for together with those that
time-outs and disconnects left in the queues. `NamesTrue` is the invariant: no request, and no reply,
is in its queue twice, none in both queues, and `Named` has at most `MaxPending` elements. The server keeps it because
it answers a request as it takes it out (`AnswerNames`), the client because a fresh identity is one no
queue has (`FreshBounded`).

### FoldLemmas

The library's induction theorems take the statement as a parameter, which no prover here
instantiates; this module does without them:

* `Least`: a set of natural numbers that is not empty has a least element, from the
  well-foundedness of `<` on `Nat`, which is a statement about sets. `Steps` follows: what is
  in `0..n`, has 0, and with each number below n the next, is all of `0..n`.
* `FoldExists`, `FoldSteps`: the community modules define a fold by the `CHOOSE` of a function
  on sets of places. By `Steps` there is such a function, so the choice is one, and the fold after
  place i is the step at i applied to the fold before.
* `JoinsExist`, `FlattenIs`: the same for `FlattenSeq`, a recursive function of the place.

It has lemmas only; its results are the theorems of the two modules that use it.

### DuelSessionProofs

For a duel of any length (`MaxPrompts`, a natural number), between two players
or against the AI: `SessionTypesHold`, `HandleStaysValid`, `AnswersAreMet`,
`OneHumanIsAsked` and `ResultToldOnce` are `Spec => []` of `TypeOK`,
`HandleRespected`, `AnswersMeetPrompts`, `SomeoneIsAsked` and `OneResult`.

None of the last four is inductive. They follow from `SessionInv`, which has
three parts beside the types:

* `Lifecycle`: the thread is inside a duel only while `DuelManager` has it. So
  no ended duel reaches a native call: the loop is left with the win, and
  `ended` and `isEnded` are looked at before each way back in.
* `Told`: no result was told before the session was closed, and `winSent` is
  set only where it ends. The ways to end exclude each other because each of
  them needs a duel that is still there.
* `TokenInv`: the right to go on is one token. While the thread is inside the
  duel no packet is under way, and no prompt is open at a client (`Supplied`,
  `Dispatching`). When it leaves, one human has the token, in one of the four
  places `Asks` lists (prompt on its way, retry on its way, prompt open,
  answer on its way), or the AI does (`AiAsked`). `Retriable` says that a
  refusal goes back to the one who answered. It is why an answer needs no
  mark of its prompt: there is never a second one it could be for.

TLC checked the parts of `SessionInv` first, on the instance of `session`.

### Model-checked only

Liveness (`FlowsSettle`, `ThreadReturns`): fairness and `ENABLED` are out of the
prover's reach. Every safety property of a run that passes is also a theorem.

## Plan

Every step of the plan is done. What could still grow is the model: the search
worker and the cache of "Not modelled".

## Not modelled

* *Deck editor and search*: a text model and a filter. `CollectionSearchWorker`
  passes a query over three threads, with one generation counter compared at
  each; everything around it is user interface.
* *Response building and validation*: pure conversions between a prompt, a
  selection and bytes, and a search for a subset with a given sum; no state.
* *The fold of duel messages* into the client's field (`ClientDuelState`),
  highlights, choice of cards, rendering: data and user interface. Only its
  prompts are modelled (`DuelSession`).
* *Screen navigation*: one counter, read by no other component.
* *Messages and codecs*: byte formats, covered by round-trip tests. Models assume
  that what was encoded is decoded, and that prompts can be parsed.
* *Card data cache*: what a crash leaves between two file operations is the
  file system's, and no code in the repository fixes it.
* *Controllers of the collection's screens* (`SavedDeckController`,
  `CardTransferController`): the requests they make are in `CollectionClient`,
  their tokens, forms and confirmations are not.
* *Player data on disk*: Minecraft saves it; a crash that loses the latest
  save loses collection and inventory together.
* *ygopro-core and SQLite*: external; what the code relies on of them is in
  `DuelSession` (`NewCore`, `Refuses`, `GoesOn`), `NativeBridge` and `CardDatabase`.
* *Registration, static configuration and test scenarios.*
