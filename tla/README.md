# Planning poker: specifications, model checks and proofs

TLA+ modules for the planning poker application: how a room turns votes into a
result, what a room is and how every command changes it, how requests work on
one room through Redis or through the in-memory hub, how a command that is sent
again is answered, how connections come and go, what a browser tab does with its
end of a connection, and how the protocol's types and guards are generated. TLC
checks small instances, TLAPS
proves the main properties for every instance. Paths below are relative to the
repository.

## 1. Inventory

### The parts of the system

| Part | State | Operations |
|---|---|---|
| Deck and vote summary (`internal/domain/entity/deck.go`, `room_voting.go`) | none | card lookup, vote collection, average, most appearing votes, consensus |
| Room aggregate (`room.go`, `room_voting.go`, `room_presence.go`, `room_backlog.go`, `client.go`) | clients in order with name, owner, spectator, vote; reveal flag and results; backlog mode, stories, current index | join, leave, vote, reveal, reset, toggles, rename, eight backlog operations |
| Use cases (`internal/application/planningpoker/usecase`) | none between requests | lock, load a copy, apply one operation, save, broadcast, unlock; join also creates the room or rolls back |
| Redis hub, rooms (`internal/infra/boundaries/hub/redis/hub.go`) | room key with a version | initial save, `saveRoomScript`, `compareAndSaveRoomScript`, load, delete, publish |
| Redis hub, buses | bus map, clients per room, pub/sub subscriptions of one instance | AddBus, RemoveBus, subscribe, deliver snapshots |
| Redis lock (`internal/infra/lock/redis.go`) | one key per room with a TTL of 10 s | SetNX with bounded retries, release by compare-and-delete |
| In-memory hub and lock (`hub/inmemory/hub.go`, `lock/inmemory.go`) | live rooms, a saved copy of each, clients, buses; a mutex per room | as the Redis ones, on shared room objects; used by the integration tests |
| WebSocket bus (`internal/infra/bus/websocketbus.go`) | a connection, its close-once, its detach flag | read loop, pinger, dispatch of commands, close |
| Command ledger (`internal/infra/bus/ledger.go`, `boundaries/commandledger`) | reservation or outcome per command id, with TTLs | claim, complete |
| Protocol generator (`tools/protocolgen`) | definitions parsed so far, the stack of those under way | parse, build messages, render Go and TypeScript |
| Browser connection (`frontend/.../hooks/room/useRoomConnection.ts`, `app/room/[roomId]/page.tsx`) | current socket, last snapshot, identity, retry timer, whether the visitor left | connect, retry with backoff, apply snapshot, send guarded commands, leave, be kicked |
| Unvoted reminder (`hooks/useUnvotedReminder.ts`) | what was rendered last, what the effect has run for, a timer, a count | render, effect, remind again |
| HTTP handlers, metrics, startup, other browser pages | counters | thin adapters |

A browser sends a command over its WebSocket; the bus claims it in the ledger
and calls its use case. The use case takes the room's lock, loads the room from
the hub, calls one method of the aggregate, saves the copy and publishes it. Every
instance that is subscribed to the room forwards the snapshot to its own
clients. Instances share nothing but Redis. Both ends of the connection are
typed by code that the protocol generator writes.

### What is hard

* Every call to Redis is a point where other requests, on this or on another
  instance, run. `update-name` takes no lock at all. The lock expires after its
  TTL whether or not its holder has finished, and it stays behind when its
  holder dies.
* The two saves differ: most owner commands compare the version the *client*
  expected, not the version that was loaded; join, leave, vote, add-story,
  rename and the admin's toggle write unconditionally.
* A room that loses its last client is deleted; the next join under its id
  starts the numbering again.
* A failed save of a join is logged and the join goes on; a failed broadcast of
  a join removes the client again, which is itself a load and a save.
* The in-memory hub hands out the live room: a use case changes it before it is
  saved, and a guarded command that turns out stale has to be undone.
* Inside the aggregate, several operations complete a ballot, several change
  which story the index denotes, and clearing votes depends on hiding first.
* Integer rounding decides the two thirds majority.
* Buses: closing waits for the room's lock, a reconnect closes the old bus
  while holding it; a stale bus on another instance removes a live client.
* The generator treats optional, nullable, referenced and nested schemas in six
  places (Go type, import of `time`, TypeScript type, guard, helpers, dispatch)
  that have to agree.
* In the browser a frame, a close or a timer of one room may arrive after the
  visitor has left it, was kicked, or is in another room; effects run after
  renders, and a reminder's timer may fire between the two.

`PROJECT.json` lists these as hazards, each at its line and with the properties
that cover it. Open, with a note why, are a bus left behind on another instance
(`websocketbus.go:126`), the death of an instance with its connections (`:187`)
and delivery as a step (`redis/hub.go:502`); see the plan.

### What makes the parts correct

| Part | Properties |
|---|---|
| Vote summary | grades match a definition by pairwise distances and an exact majority; High has one winner; special cards abstain; average and most appearing votes lie between lowest and highest; agreeing never lowers the consensus |
| Room | an owner exists; the index denotes a story; results agree with the reveal and with the stories; a completed ballot is revealed; a revealed room is frozen; another story means a fresh round; estimates are kept |
| Use cases, hub and lock | the stored room is always a correct room; with the lock it changes by one whole operation at a time and no update is lost; guarded saves lose none even without it; snapshots in order and none missing; a lock is freed |
| In-memory hub | between requests the saved room is the live one, the hub knows exactly the room's clients, all have been shown the room; the saved room changes by whole operations |
| Command ledger | one execution per reservation; a guarded command takes effect once; answers agree and are true; a reservation ends |
| Buses and hub | an open connection is reached; a mapped bus has a subscription; active users are counted once; a close finishes |
| Generator | definitions are parsed after those they use, only circles are circular; what the server sends passes the browser's guards; the guard, the types and the schema agree; imports match uses; a frame finds its guard |
| Browser tab | only the current room's socket is open, what is shown is of that room, and nothing is left to bring back a visitor who left; a tab that stays gets its connection back; a reminder's timer runs only for a state that calls for it, and who is waited for gets every reminder |

## 2. The modules

| Module | Models | Used by |
|---|---|---|
| `Voting` | deck and summary, as operators | `VotingRound`, `RoomAggregate` |
| `VotingRound` | all ballots of a set of voters | `MCVotingRound`, `RoomProofs` |
| `RoomAggregate` | a room as a record, its methods as operators, and what a correct room is | `Room`, `RoomCommands` |
| `Room` | one room, every operation atomic | `MCRoom`, `RoomProofs` |
| `RoomCommands` | the commands of the protocol and the operation each applies | `RoomService`, `InMemoryHub` |
| `AtomicRoom` | the abstract specification: a room that changes by one whole operation at a time | instantiated by `RoomService` and `InMemoryHub` |
| `RoomService` | concurrent requests, store, lock, failures on Redis | `MCRoomService`, `RoomServiceProofs` |
| `InMemoryHub` | concurrent requests on shared room objects | `MCInMemoryHub`, `InMemoryHubProofs` |
| `CommandLedger` | deliveries of one command, the ledger, the answers | `MCCommandLedger`, `CommandLedgerProofs` |
| `HubPresence` | connections, buses, subscriptions, join, leave and kick on several instances; the clients that other commands load and save | `MCHubPresence`, `HubPresenceProofs` |
| `SchemaLoader` | the order in which the generator follows `$ref`s | `ProtocolMessages`, `SchemaLoaderProofs` |
| `ProtocolMessages` | documents, the messages built from them, and their dispatch | `ProtocolGen`, `SchemaLoaderProofs` |
| `ProtocolGen` | schemas and what is generated from them | `MCProtocolGen` |
| `RoomConnection` | a tab's sockets, frames, retry timer, ways in and out of a room | `RoomPage` |
| `UnvotedReminder` | renders, effects and the timer of the reminder | `RoomPage` |
| `RoomPage` | the two together: the reminder renders what the connection shows | `MCRoomPage`, `RoomPageProofs` |
| `RoomAggregateProofs` | every operation keeps `RoomOK` | the proof modules of rooms and requests |
| `RoomProofs` | the invariants, and the action properties, of `Room`; consensus and summary of `VotingRound` | |
| `RoomServiceProofs` | the stored room is always correct; guarded commands lose no update; requests that lock implement `AtomicRoom`, lose no update, publish in order and leave nothing unannounced | |
| `InMemoryHubProofs` | room objects are correct; requests that lock settle the hub, change the saved room atomically and show it to everyone | |
| `CommandLedgerProofs` | types, one execution, one effect, answers that agree and are true | |
| `HubPresenceProofs` | mapped buses stay subscribed; on one server, listeners are reached and users counted until a rename writes over a join or a leave | |
| `SchemaLoaderProofs` | parsing order, circles; frames find their guard | |
| `RoomPageProofs` | the page fits its room, timers are due | |

The `MC` modules hold the decks, command sets, documents and symmetry of the
runs only. `PROJECT.json` maps each definition to the lines it translates.

### Voting and VotingRound

A ballot is a function from voters to a card or `None`. `collectVotes`,
`getMostVoteCount`, `mostAppearingVotes`, `calculateConsensus` and `summarize`
keep the names of the Go functions (`summarize` is the part of `reveal` that
fills the result fields). A deck is the constants `EstimateCards`,
`SpecialDeckCards` and `Atoi`, the numbers of its numeric labels. The average,
a `float32` in the code, is kept as an exact fraction, so rounding is not
covered. `VotingRound` is the state machine of votes cast, changed and
withdrawn before a reveal; its only purpose is to reach every ballot.

### RoomAggregate and Room

A room is a record; a client's fields are functions over all `ClientIDs` with
zero values for clients that are not in the room. A method `Op` is an operator
`Op(r, ...)` returning the new room, and `OpError(r, ...)` returning its error
code or `OK`. Methods validate before they change anything, so a refused
command changes nothing. Order of calls inside a method is composition:
`startRound(r) == clearVotes(hide(r))`,
`RemoveClient(r, c) == checkReveal(promoteFirst(dropClient(r, c)))`.
Story indexes are 0-based as in the code. Texts and names are opaque values,
`None` being the empty one.

`Room` has one variable and one action per command (`VoteCmd`, `RevealCmd`,
`Join`, `Leave`, ...). `Leave` also covers the leave of a client that is gone
already: the code then removes nothing but still runs `checkReveal`.

### RoomCommands and AtomicRoom

`RoomCommands` is what both hubs have in common: the kinds of commands with
their payloads, `OperationError(command, r)`, the check of a use case and of the
method it calls, and `Operation(command, r)`, what the method makes of the room.
`OneOperation(r, s)` says that `s` is `r` after one join, leave or command, and
`LastLeaves(r)` that a leave may empty it.

`AtomicRoom` knows nothing of hubs: a room is created, changed by one whole
operation, or closed when its last client leaves. It is the promise that the
lock interface and the hub interface together make to the use cases.

### RoomService

| Variable | In the code |
|---|---|
| `stored` | the room key in Redis: room and version (and the incarnation it belongs to) |
| `lock` | the lock key: the request that set it |
| `pc`, `task` | how far a request is, and its command with sender, payload and `expectedRoomVersion` |
| `base`, `work` | the stored room it loaded (or saved), and its changed copy |
| `shown`, `seen` | the last, and all, published snapshots by version |
| `joined` | clients that have joined at some time and may send commands |
| `inc` | how often the room was created; a history variable the program lacks |
| `begun`, `failures` | the model's bounds |

A request goes `lock`, `load`, (`create`,) `save`, (`reload`,) `publish`,
`release`. Each label is one Redis call together with the local computation up
to the next one, which nothing else can observe:

| Action | Code |
|---|---|
| `Begin` | the bus dispatches a command to its use case |
| `Acquire`, `GiveUp`, `Release`, `Expire`, `ExpireEarly` | `lock/redis.go`: SetNX, retries exhausted, compare-and-delete, TTL |
| `LoadForJoin`, `LoadForRemoval`, `LoadForOperation`, `LoadMissing` | `GetRoom` and the operation that follows it |
| `Create` | join into a missing room: `saveInitialRoom` |
| `Save`, `SaveStale` | the two save scripts, and `RemoveRoom` for a room that is empty |
| `Reload` | LeaveRoom loads the room again to broadcast it |
| `Publish` | `BroadcastToRoom` |
| `CallFails`, `SaveFails`, `PublishFails` | an error reply; a write may have happened although its reply was lost |
| `Crash` | the instance dies, or the release fails |

`reset` stands for `vote-again` as well, since both use cases call
`ResetVoting`. `CreateRoom` is an initial state (version 0, nobody in the room).
A guarded command carries any version that was ever published, or none: the
browser may send an old one after a reconnect.

Bounds of `RoomService`: `MaxCommands` caps the commands of a behaviour and `MaxFailures` the
failed calls, crashes and early expiries together. `StoryIDs` caps the stories
a room holds at once: a command that needs a new id when there is none is
refused in `RoomCommands` and not taken in `Room`, which the code never does. No
other bound exists; versions are unbounded numbers limited by `MaxCommands`.

### InMemoryHub

Rooms are Go pointers here, so the model has a heap: `heap` maps references to
room objects, `live` is the one in `h.Rooms`, `saved` the copy in `h.saved`, and
`ptr[p]` what request `p` got from `LoadRoom`. `Clients`, `removedClients` (who
has a channel to wait on) and `Buses`, with what each bus was last sent, are the
hub's maps; `lock` is the mutex of `lock/inmemory.go`, which neither times out
nor fails. A request goes `lock`, `load`, `apply` (the live object changes),
`save`, `publish`, `unlock`; a join `add`, `bus` instead of `save`; a leave is
`remove` and `publish`.

`SaveStale` is the refusing part of `SaveRoomIfVersion`: the live object is
replaced by a new one made of the saved copy. A request that holds the old object without the lock is
then left with an orphan. This is why the invariants between requests, and the
refinement, are stated as long as no `update-name` has come (`Quiet`,
`renamed`): a rename that holds an orphan saves it, and with it the guarded
change that had been undone. `RoomsCorrect` holds with renames too.

Other than in Redis, a join does not bump the version, a room starts at version
0, and joins and leaves refresh the saved copy without numbering it. A broadcast
that fails at one client is not sent to those behind it (`BroadcastFails`);
a join is then undone, a reconnect loses its bus. Bounds: `MaxCommands`,
`MaxFailures` (failed broadcasts); `Refs` has one reference more than can be
held at once, so `NewRef` always finds one. The reconnect that closes an old bus
is part of `HubPresence`.

### CommandLedger

One command with a `commandId`, and any number of deliveries of it (`Attempts`),
which overlap when a client reconnects and sends again. `entry` is the command's
key in Redis: absent, the pending marker, or the stored answer. `pc` and `frame`
say where the handler of a delivery is and what it will answer; `version` is
that of the room. `told`, `claims`, `lapses`, `effects` and
`effectAt` are history variables the properties are about.

| Action | Code |
|---|---|
| `Claim`, `Get`, `ClaimAgain` | `Ledger.Claim`, one Redis call each |
| `Execute`, `ExecuteStale`, `ExecuteRefused` | the use case, whose details are in `RoomService`: it saves the room, or returns `stale_version`, or another error |
| `RoomVersion` | `roomVersion`, called by `finishAck` and by `finishError` for a stale command |
| `Complete`, `Send` | `finishCommand`; a client that has gone gets nothing |
| `ClaimFails`, `ExecuteFails`, `RoomVersionFails`, `CompleteFails`, `Crash` | an error reply at each of these calls, executed or not, and the death of the instance |
| `PendingExpires`, `PendingExpiresEarly`, `ResultExpires` | the two TTLs |
| `OtherChange` | any other command saves the room |

`command_in_progress` and the internal error of a failed claim are sent but are
no outcomes: they are not stored, and `told` does not hold them. Bounds:
`MaxChanges` for `OtherChange`, `MaxFailures` for failures, crashes and early
expiries together. `ExecutionsMayStall` says whether an execution may outlast
its reservation of 30 s. A room that is deleted meanwhile is left to
`RoomService`: there the guard can be passed by a number of an earlier life.
The browser sends no `commandId` at this commit; the ledger serves clients of
the protocol that do.

The ledger does not promise that a command is executed once: if `Complete` fails
(`websocketbus.go:324`, logged only) or the instance dies after the use case, a
retry after `CommandPendingTTL` executes it again. What it promises is
`OneExecutionPerReservation`; for guarded commands the version check does the
rest (`GuardedTakesEffectOnce`).

### HubPresence

| Variable | In the code |
|---|---|
| `conn`, `pc` | client, room and instance of a connection, and where its handler is between upgrade and end |
| `once`, `detached` | `closeOnce` and `skipCleanup` of its bus |
| `buses`, `roomClientCounts`, `roomSubs` | the fields of `RedisHub`, per instance |
| `members`, `lock` | the clients of each room in Redis, and the room's lock |
| `copy` | the clients of the room that a handler has loaded and not saved yet |
| `activeUsers` | the gauge of each instance |
| `fresh`, `old` | of a join: did it add the client, which bus does it replace |
| `admin` | the kick or removal under way, with the bus it looked up before the leave and the clients it loaded |
| `overwritten` | a history variable, not in the code: a rename has written back other clients than were in Redis |

Every use case loads the room and saves all of it, so what matters of each is
which clients it loads and when it writes them back: the load and the save are
two steps, with `copy` in between. A join takes the lock, loads the room and
does not find the client in it (`JoinNew`), then saves it with the client
(`JoinSaves`), or finds the client there (`JoinAgain`) and closes the bus it
replaces (`CloseOld`, which waits while that bus is inside `closeOnce`); it calls
`AddBus` (`JoinAddsBus`), broadcasts and counts (`Notify`). A bus that listens
executes one command after the other: `update-name` without the lock
(`RenameLoads`, `RenameSaves`), any other one with it (`CommandLocks`,
`CommandSaves`). That these change a name, a vote or a story is left to
`RoomService`; here they write back the clients they have loaded, which for a
rename may be others than are in the room by then. The browser sends
`update-name` right after every join (`useRoomConnection.ts:163-170`).

`Close` begins when the connection ends for whatever reason: closed by the client
or the server, or no pong before the read deadline. The handler then leaves the
room inside `closeOnce` (`LeaveLocks`, `Leave`, which removes the bus and loads,
and `LeaveSaves`; or `LeaveGivesUp` when the lock was not free for 100 tries).
`AddBus` and `RemoveBus` run under `busMux` and are single steps. The failures
are those of `AddClient` (logged only), of the subscription, of the broadcast, of
the rollback, of the lock, of a rename's save, and of the leave after the bus was
removed. `MaxFailures` is the only bound besides the number of connections (`Buses`); one admin request
runs at a time. Locks do not expire here: what an outlived lock does to the
stored room is the subject of `RoomService`.

### SchemaLoader, ProtocolMessages and ProtocolGen

`SchemaLoader` is `parseDefinition` of `tools/protocolgen/spec.go`: it follows
the `$ref`s of a definition recursively, remembers those under way (`stack`, the
recursion) and caches those that are done (`parsed`, in order). `uses` gives the
`$ref`s of each definition, `left` those still to follow, `broken` the
definitions that are wrong by themselves. The code goes through names in sorted
order; the model in any, which includes that one.

`ProtocolMessages` fills the definitions in. A document has schema files, the
components, channel and operations of the AsyncAPI file, and a schema is a record
of the keywords the tool reads. Its steps are the loader's until the definitions
are parsed, then `BuildMessages` (every check of exposures, operations and
messages) and `Emit`, the end of the emitters with either outcome. It leaves open
which `$ref`s a schema has and which schemas are wrong: both are recursive.
`ProtocolGen` says it (`refs`, `schemaError`) and decides on the outcome
(`emitError`), so each of its behaviours is one of `MessagesSpec`: its `Init`
adds conjuncts to `MessagesInit`, and `generateArtifacts` is `Emit` of one
outcome. What is rendered is kept as data: the Go type
of a field is the sequence of its `*`, `[]` and name with its `omitempty`, a
guard is the predicate it computes, a TypeScript type the set of its values.
The properties run these on JSON values: `marshals` and `unmarshals` are
`encoding/json`, `validates` is JSON Schema. The recursive operators are in
`ProtocolGen` only, so the other two can be proved about.

`GoReachesBrowser` says of every value that Go makes of a filled property whether
the guard takes it. `filled` is only that a string, number or object is one its
schema asks for; what is null or left out is Go's doing. The guards turn away one
thing, and exactly that (`nilSlice`): the null that a nil slice becomes where the
array is not nullable. This is so for a required and for an optional property:
`goPropertyType` gives a slice no `omitempty` (`golang.go:74-76`: "optional and
nullable slices both carry explicit null"), and the guard of an optional property
lets it be absent, not null (`typescript.go:230-231`). In the repository's schemas
`stories` and `mostAppearingVotes` are nullable, so their nil slices pass;
`participants` and `cards` are not, so the server must not leave them nil.

What the emitters are known not to check is named in `ValidationAgrees`, which
holds outside of it (`loose`, `holdsNull`): an inline enum is
checked by neither end; a nullable constant, and a constant with a format; a
`uint64` without `minimum`; an array passes for a record without required
properties (`isRecord`); the TypeScript type of an array with nullable items
lacks `| null` although its guard admits it. Of these only payloads without
required properties occur in the repository's schemas. `pointerName` uses the last segment of a `$ref` only.
Not modelled: `goName` and collisions of its results, the wording of the
documentation, reading, writing and comparing files (`--check`).

### RoomConnection, UnvotedReminder and RoomPage

| Variable | In the code |
|---|---|
| `route`, `mounted` | the room of the address, and the room whose effect of `useRoomConnection` is running |
| `socket`, `sockets` | `socket.current`, and the sockets that are not closed: room, identity they were opened with, connecting or open, whether `update-client-id` has come |
| `timer`, `deliberate` | `reconnectTimeoutRef` with the effect its closure belongs to, `deliberateDisconnectRef` |
| `savedID` | `clientId` in the session's storage, all that a reload leaves |
| `clientId`, `snapshot`, `isConnected` | the hook's state (and the refs that follow it) |
| `seen`, `logical`, `armed`, `count` | the reminder's refs, the state its effect last ran for, its timer, how often it has reminded |

| Action | Code |
|---|---|
| `Mount`, `Cleanup`, `TimerFires` | the effect connects, its clean-up disconnects, a retry connects if its effect is not disposed |
| `Opens`, `Drops`, `GetsClientID`, `GetsRoomState`, `GetsKicked` | `onopen`, `onclose` and the frames of `onmessage`, each guarded by `disposed` and by the socket being current |
| `Navigate`, `BackHome`, `Reload` | the address changes, the page's own way out, the browser loads the page anew |
| `RenderPage`, `Effect`, `Notify` | a render writes the reminder's refs, its effect cancels and arms, its callback reminds and arms again |

The guard `disposed || socket.current !== ws` is the operator `Heard`: a socket
belongs to the current effect if it was opened for the room that is mounted. The
reminder is kept apart from the connection because it sees no more of it than a
render does; `RoomPage` renders `[view, client, connected]`. Simplifications:
the visitor has given a name (without one, the join page is shown and no effect
runs); over a connection to a room the server sends views of that room only;
once handlers are taken off a socket and it is closed, it is gone; one
navigation is rendered before the next; the version comes with the view. The
lengths of delays, toasts, the ref `connected`, frames that only inform and what
the tab sends (`update-name` after its identity, and commands) are left out. A tab applies whichever snapshot arrives, also an older one
(`useRoomConnection.ts:153`): that they are published in order is the property
`SnapshotsInOrder` of `RoomService`. There is no bound: `Sockets` has more
objects than are open at once, and closed ones are used again.

## 3. The runs

| Run (cfg) | Question | Instance |
|---|---|---|
| `MCVotingRound_Fibonacci` | `ConsensusMatchesReference`, `SummaryIsCoherent`, `AgreeingNeverLowersConsensus` | the whole deck, 5 voters |
| `MCRoom_Small` | `RoomHasOwner`, `StoryIndexValid`, `ResultsCoherent`, `CompletedBallotReveals`, `RevealedIsFrozen`, `AnotherStoryStartsFreshRound`, `EstimatesKept` | 3 clients, 2 stories, one estimate and one special card |
| `MCRoomService_Locked` | `SavesSeeLatest`, `SnapshotsInOrder`, `QuietRoomIsShown`, `ImplementsRoom` when every request locks and finishes within the TTL, and `LockIsFreed` under `FairSpec` | 2 requests at a time, 4 commands, 1 failure |
| `MCRoomService_Everything` | `StoredRoomCorrect`, `GuardedSavesSeeLatest` with every kind of command, unlocked renames and outlived locks | 2 requests, 4 commands, 1 failure |
| `MCRoomService_Rename` | refutes `RenameOnlyRenames` | 2 requests, 4 commands |
| `MCInMemoryHub_Mixed` | `RoomsCorrect`, `HubIsSettled`, `EveryoneIsShown`, `SavedChangesAtomically` | 2 clients, 1 story, 2 requests, 5 commands of every way to save, 1 failed broadcast |
| `MCCommandLedger_Guarded` | `OneExecutionPerReservation`, `GuardedTakesEffectOnce`, `AnswersAgree`, `AnswersAreTrue` of a guarded command, and `ReservationEnds` under `FairSpec` | 3 deliveries, 2 other changes, 2 failures, slow executions |
| `MCHubPresence_OneServer` | `ListenersAreReached`, `UsersAreCounted`, and `ClosesFinish` under `FairSpec` | 1 instance, 1 room, 2 clients, 3 connections, no failure, no admin |
| `MCHubPresence_Cluster` | `MappedAreSubscribed` | 2 instances, 2 rooms, 2 clients, 2 connections, admin on both instances, 2 failures |
| `MCHubPresence_Counts` | refutes `CountsEndWithClients` | 1 client, 2 connections, no failure |
| `MCRoomPage_Tab` | `PageFitsRoom`, `TimersAreDue`, and `ComesBack`, `WaitersAreReminded` under `FairSpec` | 2 rooms, 2 identities, 2 sockets, 4 views |
| `MCProtocolGen_Documents` | `ParsedInOrder`, `CircularIsACircle`, `GoReachesBrowser`, `ValidationAgrees`, `ImportsMatchUses`, `FramesFindTheirGuard` | 7,185 documents |

Why the bounds are enough to be interesting. Voters may abstain, so five voters
cover every smaller number too: all remainders of the two thirds threshold, ties
between two and three cards, and minorities spread over several cards.
Three clients is the first number at which a leave can leave several clients
without an owner and at which a third client's leave completes the ballot of two
others. Two stories are the current one and one before or after it, so that
removals and moves happen on both sides of it; backlogs of any length are
covered by the proofs. Two requests interleave in every way that two
processes can; four commands let a room be created, joined by both and changed
by one while the other leaves, or be emptied and created again under a request
that still holds its older copy. In memory the fifth command lets a rename hold
the live room while a stale guarded command replaces it and a third one saves.
Three deliveries let one execute, one find its
reservation and one come when it has expired. Two connections of a client are
one that is replaced and one that replaces it; a third one overlaps both, as
another reconnect or as another client whose join a rename may write over.
Commands are not bounded: a connection may execute any number of them. In the
cluster a connection is opened on either instance and for either room, so
two are a bus that is looked up, left behind or counted, and one that takes its
place in the map; two failures are a failed join and its failed rollback. All
three safety properties of `HubPresence` are proved for any number of
connections. In the cluster run instances, rooms, clients and connections are
interchangeable (the admin reaches both instances), so it uses symmetry; the one
with a liveness property does not. The documents of
`MCProtocolGen` are every graph of up to two `$ref`s from each of three
definitions (also to a missing one, and from file to file), every property
schema up to arrays of arrays, required or not, and two messages exposed,
listed and directed in every way. A tab has two rooms to move between, two
identities (its own and a new one after it left), a second socket so that a
wrong one could stay open, and views in which the tab's client is awaited alone,
with another, with too many others, or not any more.

`ListenersAreReached` and `UsersAreCounted` are stated for what the code can
promise: one instance (and one room), no failed call, no admin, and only until a
rename has written over a join or a leave (`~overwritten`). The run is that
instance, with every command in every order. A rename that loads the room
before another client joins and saves it afterwards takes the client that has
just joined out of the room again: it goes on listening and is no longer reached,
and the gauge counts a client that no room has. A rename that loads before a
leave and saves after it brings back a client that has gone and was counted
down. Without `~overwritten` TLC finds the first of these for either property;
it is the finding of `MCRoomService_Rename` seen from the connections. With a
second instance the first does not hold: `GetBus` knows local
buses only, so a bus left behind on another instance takes the client out of the
room when it times out. With a second room it does not hold either: the bus map
has one bus per client, so a late leave of one room removes the bus of the
other. Nothing in the repository says otherwise, so these are listed as hazards
and not as findings. An admin's kick looks up the client's bus before it leaves
the room for it: a bus that is closing by itself at that moment leaves a second
time and counts the active users down once more, although the comment in
`usecase/adminkickclient.go:65-66` says that detaching it prevents that, and a
client that reconnects in between keeps a bus that is neither reached nor
closed. `MappedAreSubscribed` holds in all these cases.

Deadlock is checked in the runs of `Room`, `VotingRound` and `RoomPage`. The others turn it
off because a server that receives no more commands or connections has nothing
to do, and the generator ends.

Each property has been tried against a deliberate error in the code it is
about: the operators marked "Mutant" beside the definitions are these errors (a
swapped order, a dropped guard, an off-by-one), and TLC finds the property
violated when one takes the definition's place. The specifications do not use
them.

### Refinement

`RoomService` and `InMemoryHub` both instantiate `AtomicRoom` with their own
room: what is in Redis, and what is in `h.saved`. `ImplementsRoom` says that
every step of the requests that lock is one whole operation on that room or
leaves it alone, so a client may think of commands as atomic although they are
up to seven calls with others in between. `SavedChangesAtomically` says it for
the in-memory hub, where use cases change the shared object in place, up to the
first `update-name`.

### Fairness

`FairSpec` assumes that a request which has begun goes on (weak fairness of
`Step(p)`: the Go scheduler runs it, and every Redis call has a deadline after
which it returns) and that Redis eventually drops a key whose TTL has passed
(weak fairness of `Expire`). It assumes nothing of `Begin`, and nothing of
failures. `Expire` is only for locks whose holder is done or dead, so the
property does not get its truth from taking locks away from working holders.

In `CommandLedger` a delivery whose claim has been made goes on, and Redis drops
a reservation whose execution is over; nothing makes a client send again, an
outcome expire or a call succeed. In `HubPresence` handlers and admin requests
go on: every call returns, and `acquireLock` gives up after its retries. Nothing
makes a client connect or a connection end. That the wait of a closing bus is
bounded is what `ClosesFinish` rests on: with a lock that waits for ever, as the
in-memory one does, TLC finds the two waiting for each other.

In `RoomPage` React runs effects and renders what has changed, and timers fire
(weak fairness). Of a tab's attempts to connect infinitely many may fail, but
not all (strong fairness of a socket's opening): without it a tab whose server
is down never comes back, which is as it should be. Nothing makes a visitor
stay, a connection last or a frame come.

### What the code does differently from its documentation

* **A rename overwrites other changes.** `protocol/README.md:34` describes
  `update-name` as changing the current client's display name. The use case
  loads the room, renames in its copy and saves all of it, unconditionally and
  without the room's lock (`usecase/updatename.go:30`). If another client's
  join, leave or vote is saved in between, it is undone; a room deleted in
  between comes back. `MCRoomService_Rename` shows the interleaving. If it was a
join, the client listens to a room it is no longer in, and the gauge of active
users stays wrong (`HubPresence`). The stored
  room is a correct room all the same (`StoredRoomAlwaysCorrect`).
* **A reconnect leaks a count.** `AddBus` counts a client that replaces its own
  bus (`hub/redis/hub.go:219`), `RemoveBus` counts down once. The integration
  test (`hub_test.go:231`) asserts that the count is removed after all clients
  disconnect, with clients that never reconnect. `MCHubPresence_Counts` shows
  the count, and thus the subscription and its goroutine, outliving the last
  client.

A known limit beside these: versions restart when a deleted room is created
again (`hub/redis/hub.go:427`), so a version of the room's earlier life passes
as soon as the new room has reached the same number. `GuardedSavesSeeLatest`,
which is proved, is about versions of one life.

## 4. The proofs

All theorems hold for any sets of clients, cards, names and stories, and any
number of requests and commands; where a set has to be finite (the voters of a
round, the requests that are at work in memory at a time) this is said. They use
only the assumptions the modules state: `DeckAssumption` (cards of a deck are distinct, special cards are
not estimates, no card is the empty label), `LabelAssumption` (the estimates of
a deck are all numbers, in ascending order, or none of them is one: both decks
of `deck.go:38-54`), `VotersAssumption` (finitely many
voters), `RoomAssumption` (`None` is no story
id), `CommandAssumption` (commands are well formed), `ServiceAssumption` (`None`
is no request, no room and no snapshot), `HubAssumption` (the same, and finitely
many requests at a time, so that the heap never runs out of references),
`LedgerAssumption` (`None` is no
number, no answer and not the pending marker) and `PageAssumption` (`None` is no
room, identity, socket or view).

**Room** (`RoomProofs`). `RoomOK` is the conjunction of `RoomTypeOK`,
`HasOwner`, `StoryIndexInRange` and `ResultsAgree`. It is inductive as a whole
and its parts are not: that the index stays in range after a removal needs the
types of the list, that an operation on the current story keeps `ResultsAgree`
needs the index to be in range and the ids to be distinct, that a promotion
restores `HasOwner` needs absent clients to have no state.
`RoomAggregateProofs` has one lemma per operation, of the form
`RoomOK(r) /\ OpError(r, ...) = OK => RoomOK(Op(r, ...))`, built from lemmas on
the steps they share (`hide`, `show`, `startRound`, `dropClient`,
`promoteFirst`, replacing, removing and inserting a story). `RoomCorrect` then
has one step per action, and `TypeCorrect`, `OwnerAlways`, `IndexAlwaysValid`
and `ResultsAlwaysCoherent` are its parts. (`TypeOK` of `Room` and of
`CommandLedger` are proved and not run: what a run would add is in the
properties that use them.)

**What a command of a room may do** (`RoomProofs`).
`CompletedBallotIsRevealed`, `RevealedStaysFrozen`, `AnotherStoryIsFresh` and
`EstimatesAreKept` are facts of single steps from a correct room. Each step is
split into what it does to the round (`SameRound`, `NewRound`, or a reveal) and
what it does to the backlog (`SameStories`, `SameEstimates`); each operation is
one of a few combinations, and the four properties follow from the combination.
The hard cases are `checkReveal` after a leave or a spectator toggle, and the
index moves of `RemoveStory` and `ReorderStory`, which must keep the current
story the current one.

**The consensus of a round** (`RoomProofs`). `ConsensusIsGraded`: for any finite
set of voters, any deck and any votes, `calculateConsensus` grades the ballot as
the reference of `VotingRound` does. `SpreadOf` relates minimum and maximum of
the positions to the distances of all pairs, `MostVotesOf` the highest count to
the voters of a card, and `TwoThirdsThreshold` the rounded threshold of
`strongMajority` to an exact two thirds. That minimum and maximum exist needs
induction, which the provers have only in the form "a non-empty set of numbers
has a least element" (`LeastOf`, from `WFMin`); `LimitsOf` gets the maximum as
the least upper bound.

`AgreeingIsSafe` is the action property `AgreeingNeverLowersConsensus`. If one
card `c` is shown as most appearing, it is the only index of maximal count
(`OneWinner`), so some voter holds it. A voter who moves to `c` leaves every
distance among those there were before (`SpreadOf` again), so the spread does not
grow; `c` has one vote more of at most one estimate more, and `3m >= 2n` implies
`3(m + 1) >= 2(n + 1)` (`AgreeingStep`). The grade is monotone in both
(`LevelIsMonotone`).

`SummaryAlwaysCoherent` has four parts. Two winners with a two thirds majority
each would be more votes than there are (`HighHasOneWinner`). The k-th card
shown is the one of rank k among the winners, and such a card exists for each k:
the least index with at least k winners up to it (`RankReached`, `RankGrows`,
`ShownOf`). The sum is a fold over a set of voters; that it meets its own
recursive equation holds because the set is finite (`SumExists`: take the least
size at which no function does), and a sum of numbers between two limits lies
between their multiples (`SumBounds`, by the least subset for which it would not).
That the limits are the labels shown needs `LabelAssumption`. Ballots with the
same estimates have the same summary but for the special votes (`SameSummary`).
`ShownSummaryFits` takes the first three parts to the room: whatever a room of
finitely many clients shows after any commands is such a summary, since
`TypeOK` makes it one of some ballot.

**Requests in any order** (`RoomServiceProofs`). `StoredRoomAlwaysCorrect`: with any number
of concurrent requests, unlocked renames, stale saves, failed calls, crashes and
expired locks, the room in Redis satisfies `RoomOK`. The invariant `ServiceInv`
adds what each request carries: the copy of a request that is about to save
satisfies `RoomOK`, and its task is a command of its kind with a payload of the
right type. It does not mention the lock, and this is the point: races can lose
updates, as the findings show, but what is written is always the result of one
operation on one correct room.

`GuardedNeverLoseUpdates` does not use the lock either. Its invariant
`VersionInv` says that numbers of one incarnation name rooms: published stamps
and loaded rooms are no newer than the stored one, a loaded room with the stored
number is the stored room (`LoadedFrom`), and the version a guarded command
expects is no newer than what it loaded (`NotAfter`), since it was published
before. When it matches the stored version, nothing fits between the three
(`NothingBetween`). Writes keep this because they move the number or the
incarnation up (`StoreMovesOn`, `NoNewer`).

**Requests that lock** (`RoomServiceProofs`). Under `OnlyLocking` (no
`update-name` among the commands, and no lock expires under its holder),
`LockedImplementsRoom`: `RoomService` implements `AtomicRoom`;
`LockedSavesSeeLatest`: what a request writes it computed from what it
overwrites; `LockedSnapshotsInOrder`: snapshots are published in the order of
their versions. Whoever is past acquiring the lock owns it, so nobody else
writes between its load and its save, and its copy is one operation away from
the room as it still is (`LockedInv`); failed calls, crashes and rollbacks are
included. For the order of snapshots, what the owner has loaded is no older than
what is shown and no newer than what is stored (`OrderInv`).
`LockedQuietRoomIsShown`: when all requests are done and nothing has failed, what
is shown is what is stored. While nothing has failed, either the stored room has
been shown or the request that holds the lock is still on its way to publish it,
and what it is about to publish is the stored room (`AnnounceInv`); a save and
its publish are two calls, so neither half is an invariant by itself.

**Requests in memory** (`InMemoryHubProofs`), for any finite number of requests
at a time. `RoomsAlwaysCorrect` includes `update-name`, which changes the shared
object without the mutex, also after another request has replaced the object:
`HubInv` says that references denote objects (`HeapOK`), that every object
satisfies `RoomOK`, and which requests hold one. Objects nobody refers to are
dropped in the model, which is also what bounds the heap: there are more
references than the hub and the requests can hold, so a new one is always found
(a pigeonhole argument on cardinalities). The other three hold up to the first
`update-name`. `LockedInv`: whoever is past the mutex owns it, the live room is
the saved one unless the owner is between a change and its save, when it is one
operation ahead of it, and the three other maps know the clients of the saved
room. From it `HubAlwaysSettles`, and `SavedAlwaysChangesAtomically`: the save
is the one operation that `LockedInv` says the live room is ahead. `ShownInv`
adds, up to the first failed send, that everyone has been sent the saved room
unless the owner still has to tell them, for which every client but the one that
joins has a bus already; from it `EveryoneAlwaysShown`.

**Command ledger** (`CommandLedgerProofs`). `OneExecution` follows from
`ReservationInv`: there is at most one reservation more than there were
expiries, and while the key is absent there is not even that one, so that only
an expiry makes room for another claim. `GuardedOnce` follows from
`GuardInv`: the version never falls below the expected one, and once the command
has changed the room the version is above it, whoever else changes it. Neither
mentions where the deliveries are, which is why neither depends on their number.
The answers do depend on it. `AgreeInv`: until the key expires at most one
delivery is busy, answers that are on their way or sent are equal, also to the
stored one, and there is none while a delivery is busy or the key absent; from
it `AnswersAlwaysAgree`. `TruthInv`: what `AnswersAreTrue` asks of an answer that
was sent holds of every answer that is stored or on its way, and before the
first expiry a delivery only executes a command without effect yet; from it
`AnswersAlwaysTrue`.

**Subscriptions** (`HubPresenceProofs`). `MappedStaySubscribed`, for any number
of instances, rooms, clients and connections. `roomClientCounts` is no exact
count, as a finding shows; the invariant is that it is never below the number of
mapped buses of the room (a finite set), and that a positive count has a
subscription. A count that reaches 0 therefore leaves no bus behind.

**One server** (`HubPresenceProofs`). `OneServerReachesListeners` and
`OneServerCountsUsers`, for any number of clients, each with any number of
connections, under `OneServer(i, r)`: `i` is the only instance, `r` the only
room, and no admin kicks anyone. The properties do not hold without this, nor
once a rename has written over a join or a leave (see section 3); the instance of
`MCHubPresence_OneServer` satisfies it, and the theorems are about every step up
to such a rename (`overwritten` in `OneServerInv`), any number of harmless renames
and other commands among them. The
invariant pairs every open connection with its place: the client's
mapped bus is its own (`OwnsPlace`), a client is a member exactly when it has a
mapped bus, except between the two under the lock (`ClientOK`, `Between`: a join
has saved the client and not added its bus yet, or a leave has removed the bus
and not saved yet), and the gauge is the number of members, less one while a
handler has joined its client and has not counted it yet (`CountOK`). A handler
that holds the lock and has loaded the room has the clients that are stored: the
only save that needs no lock is a rename's, and one that has not overwritten
anything has written back just those. The hard case is a reconnect
while the old bus is leaving by itself: closing it waits for that leave, which
needs the lock the reconnect holds and so gives up without taking the client out.

**Generator** (`SchemaLoaderProofs`). `LoaderParsesInOrder` and
`LoaderRejectsCircles` for every graph of `$ref`s. The invariant is that of a
depth-first search: each definition on the stack is a `$ref` of the one before,
and what is no longer `left` of a definition is parsed. `FramesAreGuarded`, for
every document and whatever is wrong with its schemas: what is built has passed
`documentError` and stays as it was built (`MessagesInv`, inductive). Since
messages and wire types correspond one to one, a frame's `type` leads to one
message, whose direction an operation gave it; so one dispatcher takes it.

**Browser tab** (`RoomPageProofs`). `PageAlwaysFits` and `TimersAlwaysDue`, for
any number of rooms, identities, views and sockets. `PageFitsRoom` is inductive
together with the types of what it speaks of: that a new socket is the only one
needs that none is open when an effect or a timer connects, which is what its
conjuncts on the timer and on the end of a visit say. `TimersAreDue` is
inductive as it stands, since every step of the connection leaves the
reminder alone.

**Only model-checked**: liveness (`LockIsFreed`, `ReservationEnds`,
`ClosesFinish`, `ComesBack`, `WaitersAreReminded`), which the prover cannot do;
and three properties of `ProtocolGen` (`GoReachesBrowser`, `ValidationAgrees`,
`ImportsMatchUses`), whose operators recurse over schemas of any depth. Every
other property of the passing runs is a theorem.

## 5. What is not modelled

* Domain events, `VotedAt` and the room's start time: nothing but tests reads
  them back.
* The rounding of the `float32` average.
* The deck of a room is a constant. A room that is created by a join (not by
  `CreateRoom`) has the default deck, so an emptied T-shirt room that is
  re-joined becomes a Fibonacci room; the model does not show the change.
* The 24 h TTL of rooms and the client keys in Redis, which only mirror a
  client's room.
* Retries inside the Redis client library, except for their effect: a call may
  report an error although it was executed.
* Delivery of a snapshot as a step, the death of an instance with its
  connections, `Close` of the hub, the gauge of active rooms and the in-memory
  ledger: see the plan.
* The answer to a command without `commandId`: it is sent and nothing more.
* Of the generator: `goName`, the documentation, and files.
* Of the browser: the join page, the log route and what the components render.
  Configuration and startup have no behaviour of their own. The mocks are generated test code.

## 6. Plan

Still to write, in this order:

1. Delivery in `HubPresence`: published snapshots, `forwardToLocalClients` with
   its own load, `Send` to a closed bus, the death of an instance. Promise: on
   one instance a connected client ends with the last published snapshot.
2. The gauge of active rooms, with creation and deletion of rooms, and the
   in-memory ledger with its atomic claim.

With a model of delivery, the theorem to add is that on one instance nobody is
sent an older snapshot after a newer one, from `OneServerInv` and `OrderInv`.
