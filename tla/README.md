# bit-relay in TLA+

Specifications of [bit-relay](../src/README.md): TLA+ modules, TLC configurations
that check them on small instances, and proofs for TLAPS. Paths below are
relative to `src/` of the repository.

Run from this directory:

    tlc -workers 2 -config Session.cfg MCGitServeSession.tla
    tlapm GitServeSession_proofs.tla

The other proof modules are checked the same way, each in one to four minutes.

## 1. Inventory

bit-relay is one program for two platforms: a Deno process (`deno_main.ts`) and a
Cloudflare Worker with Durable Objects (`cloudflare_worker.ts`). JavaScript runs
one handler at a time up to its next `await`; everything hard about the program
happens at those awaits, at timers, and at restarts.

| component | state | operations | hard part | what makes it correct |
|---|---|---|---|---|
| Git serve session (`git_serve_session.ts`) | active flag and token, pending requests with timeouts, waiting polls, TTL timer | register, git request, poll, respond, timeouts, cleanup, restore | lost wakeups, double answers, late answers, restarts | each queued client is answered once or timed out; a request reaches a polling daemon; events match verdicts |
| Sender identity (`memory_handler.ts` 1269-1387, 1729-1895, 2880-2960) | key registry, nonces with time, stored snapshot | publish and review checks, rotate, verify with GitHub, restart | check and update on two sides of an await; pruning against clock skew; crash before the put | no replay that pruning could have stopped; first use is final; the GitHub mark belongs to the key |
| Room (`memory_handler.ts` 761-944, 2373-2543) | messages, acks, rate counters | publish, poll, pending, ack, restart | evictions and restarts shift cursors; windows that do not start together | the room holds the newest messages once; polls never go back and skip at most what was dropped; inboxes drain |
| Cache exchange (`cache_exchange.ts`, `cache_sync_worker.ts`, `memory_handler.ts` 1198-1220, 1429-1591) | ring of records with cursor, a cursor per peer | pull, push, sync, Worker fan-out | loops, hop limits, partial pushes, peer restarts | no loops, every message reaches every node within its hops |
| Issue sync (`issue_sync_engine.ts`, `memory_handler.ts` 1917-2157) | delivery ids, dead letter queue | webhook, retry, list | duplicate and concurrent deliveries, eviction | each delivery applied once or kept for retry |
| Issue projection (`relay_cache_adapter.ts`, `cache_persistence_queue.ts`) | issue cursor in memory and in the cache, events, snapshots, queue | persist, retry, pull, sync | retry of half-done tasks, cursor read before an await; envelopes accepted anew; pages by position | a follower sees every event, in order, but for named races; a puller misses or repeats only what a shift of the list makes it |
| Cache store (`cache_store.ts`) | records with TTL and size policy | put, get, list, delete | eviction of fresh records, list-then-delete | limits hold; a record is lost only to the policy |
| Git cache fallback (`git_cache_layer.ts`, `deno_main.ts` 380-417) | cached responses | read, forward, write | copy read before the request was forwarded | a cached answer only where the session is gone |
| WebSocket sessions (`memory_handler.ts` 946-1014, 1235-1267, 1657-1696) | sockets with last activity | subscribe, broadcast, ping, reap | reaping driven by requests | sockets that answer stay; limit holds |
| Presence and reviews (`memory_handler.ts` 1016-1062, 2545-2778) | heartbeats, verdicts | heartbeat, list, leave, review | TTL against heartbeats | a live participant is listed |
| Triggers (`trigger_dispatcher.ts`, `memory_handler.ts` 2159-2290) | none | dispatch, callback, results | one attempt only | callbacks are idempotent |
| Worker routing and fan-out (`cloudflare_worker.ts` 151-577) | one Durable Object per room, with its rooms | route, split a push | a push that fails half way; rooms in query, entry and body that differ | what is answered 200 for a room is where polls of the room look |
| Deno server (`deno_main.ts`) | map of sessions, cache, timers | route, sync loop | fallback between two readings of a path | - |
| GitHub target, admin API, MCP server, configuration, observability | none | network calls, parsing, logging | - | - |

Interaction: a publish passes identity and limits, enters the room, is
broadcast to sockets, recorded for exchange and handed to the projection, all
but the last in one stretch without an await. Git sessions on Deno report
incoming refs to the trigger dispatcher through a callback. A webhook publishes
into a room through the issue sync engine. The sync worker pulls from peers and
pushes into its own relay over HTTP.

## 2. Modules

| module | what it is |
|---|---|
| `GitRelay` | abstract: what a relay of git requests promises to clients and daemon |
| `GitServeSession` | the session in detail; refines `GitRelay` |
| `GitServeSession_proofs` | type correctness, the invariants and the refinement, proved |
| `RelayIdentity` | what a relay knows of one sender, with the Durable Object's storage |
| `RelayRoom` | one room: rate limits, messages, polls, inboxes |
| `CacheExchange` | relays that replicate each other's messages |
| `RelayIdentity_proofs`, `CacheExchange_proofs` | types and safety of these, proved |
| `IssueProjection` | the issue cache of a room: persistence queue, cursors, events, snapshots |
| `IssueSyncEngine` | GitHub webhooks: remembered deliveries, dead letters and their retry |
| `IssueProjection_proofs`, `IssueSyncEngine_proofs` | types and safety of these, proved |
| `MemoryCacheStore` | the cache store in memory: operations of one step each |
| `R2CacheStore` | the cache store over an R2 bucket, beside a `MemoryCacheStore` with the same calls |
| `GitCacheFallback` | git requests on Deno: the cache read first, the session behind it; an instance of `GitRelay` |
| `RoomSockets` | WebSockets of a room: broadcasts of messages, presence and reviews, pings, the reaper |
| `RoomSockets_proofs` | types and safety of `RoomSockets`, proved |
| `Caches_proofs` | types and safety of the two caches, `GitCacheFallback` and `R2CacheStore`, proved |
| `WorkerRooms` | the rooms of the Worker spread over Durable Objects, pushes split over them |
| `Rooms_proofs` | types and safety of `RelayRoom` and `WorkerRooms`, proved |
| `MC*` | the instances TLC checks |

Operators marked `mutant` in a comment are no part of a specification: each is a
plausible mistake in the definition that follows it, kept to show that the
properties notice.

### GitServeSession

`pending`, `waiters`, `active`, `token` are the fields of `GitServeSessionState`;
`ttlArmed` and `timers` are the timers that are set, each of which may fire at
any moment while it is armed, so that the model covers every ratio of the 60 s,
30 s and 24 h limits. `client[r]` and `poller[p]` say what the two kinds of HTTP
callers are waiting for. `stranded`, `settles`, `handed`, `known`, `acked`,
`events` record what happened for the properties.

| code | action |
|---|---|
| `handleRegister`, then `persist` of the Durable Object | `Register`, `PersistRegister` |
| `cleanup` from the session timer | `SessionTimeout` |
| constructor, `restore` | `Restart` |
| `handleGitRequest` up to and after `arrayBuffer()` | `GitRequest`; `GitBody`, `GitBodyFails` |
| timeout of a request, of a poll | `RequestTimeout`, `PollTimeout` |
| `handlePoll` | `Poll`; the daemon may `HangUp` |
| `handleRespond` up to and after `text()` | `Respond`; `RespondBody` |

Abstracted: paths, headers and bodies, to the kind of a request and the kind of
a response (`RequestKinds`, `Bodies`); the compatibility answers for daemons
without receive-pack, to the verdict they give; wrong tokens, which change
nothing. A request kind with several refs emits one event per ref in the code
and one in the model.

Behaviour a reader might not expect, and the model has: a second registration
answers neither polls nor requests of the first; a request whose body arrives
after the session was closed is queued all the same and times out.

### RelayIdentity

One sender; senders share nothing. `Begin` is a handler up to its first await
(skew, replay, registered key), `FinishSigned` and `FinishRotate` are the rest
of it, `BeginVerify` and `FinishVerify` enclose the fetch from GitHub. With
`HasStorage` a call then waits in `persisting` until the snapshot was put
(`Persist`), or the put failed and was only logged. A replayed or stale request
also ends with a put, as in `RelayRoom.fetch` of `cloudflare_worker.ts`. All
requests are signed properly: a bad signature ends a call without any change
but the pruning `Begin` already did. A JavaScript object sorts integer-like
keys, so a restored nonce map could have another order; nonces are taken to be
no integers. `At` and `Live` say what the deleting loop of `pruneSenderNonces`
leaves, in its order. No code sets a key to `revoked`.

### RelayRoom

`Admit` is the publish handler up to its await: the counters of address, sender
and room are charged in order and the first that refuses ends it. `Publish` is
`publishIntoRoom`; `PublishFails` is any refusal between the two. Several requests of one
id may wait at once, and a request may be sent again when it was answered (`Publishes`).
Messages carry the number of their acceptance so that properties can talk about what a poller
missed. `Pending` are the messages a consumer has not acked, of which `InboxPage`
takes the first. `Shares` is what the senders may take of one window of the room,
as a set, so that its size is the bound of `SendersShareTheRoom`. What a publish does beside the room is in `RoomSockets` (broadcast),
`CacheExchange` (record) and `IssueProjection`. `Restart` empties everything but what clients hold.

### CacheExchange

Each node is a Deno server with its peers, its worker and its rooms.
`Publish` and `PushEntry` share `Accept`, which is `publishIntoRoom` for an id
the room does not hold, followed by `recordCacheExchange`. `Pull` is the peer's
`handleCacheExchangePull`; the answer is on its way until a push step uses it or
`PullFails` drops it, which stands for every way a pull can fail: it changes
nothing at the peer. A page is a set, whose order is that of the cursors: the
ring is sorted by them. `Reached` are the records the loop of
`selectCacheExchangeEntries` looks at before the page is full. A push is one `PushEntry` per accepted entry, because the
handler awaits the projection after each, with the entries that are merely
counted in between taken along (`Stop`); it ends with `PushDone`, or with
`PushForbidden` at a room that wants a token, which the worker does not send.

Abstracted: the bodies of messages (two with one id conflict in the code and are
counted), expiry of a discovery answer, and entries that cannot be parsed or
have a wrong room or topic, which no relay of this code offers. `RELAY_NODE_ID`
is taken to be configured: without it a restarted process has a new name and
takes its own old messages back. `known`, `outdated` and `lossless` record what
happened for the properties.

Behaviour a reader might not expect, and the model has: a worker never lowers a
cursor, so after a peer's restart it skips what the peer numbers anew up to the
old cursor; a node that restarts does not get back the messages it published,
because pulls and pushes leave out the node's own origin; an id that a full room
has evicted is accepted again when a peer offers it.

### IssueProjection

`issues`, `events`, `snapshots` and `record` are what the cache store holds for one
room, `memory` is the room's entry of `issueCursorByRoom`, `room` are the messages the room
holds. The first task of `queue` runs; `task.phase` is the call of the cache it makes next:

| code | action |
|---|---|
| `publishIntoRoom` and `persistEnvelope` up to the queue | `Publish`, of another topic `PublishOther` |
| the four `putCacheJsonObject` of a task | `Put`; `PutFails` with or without effect, then `Retry` |
| `nextIssueCursor` | `TakeCursor` |
| reading the old snapshot and keeping it, or failing to | `KeepSnapshot`, `SnapshotUnread` |
| `syncIssues` up to the answer for the cursor, and the rest | `Sync`, `SyncAnswer` |
| `pullIssues`, with an entry it cannot read | `Pull`, `PullUnread` |
| a new relay over the same cache | `Restart` |

An envelope is compared with the messages the room holds, so one that was evicted or lost in
a restart is accepted anew, with a task and an event of its own; `accepted` numbers the
acceptances. The hint of a task is the length of the room after the cut, at most `MaxMessages`.

A put that failed may have taken place, since the R2 store prunes after it wrote.
`sound` becomes false where the code gives up what it promises: a task used up
its attempts, a read failed and counted as "nothing there", a restart came while
a task was under way, or a follower took the cursor back under a repeated task.
The last one is a race: a follower's call reads the
cursor, a task takes the next one, writes its event and fails, the repeated task
takes another one, and then the follower's call writes the old cursor back
(`relay_cache_adapter.ts:266`). When the task fails once more it takes a cursor
it already had, ends with a record below one of its own events, and the next
envelope shares a cursor with that event: a follower that saw the event passes over the
envelope. It takes two failures of one task, hence at least two retries, which is the
default. Each of the other conditions is needed with one retry already: without it TLC finds
a counterexample in the run.

Abstracted: bodies, to issue, source and time; parsing of records, which cannot
fail for what the adapter wrote itself; other rooms; the tasks of other topics, which
write nothing that is read here. The snapshots a sync answers are not followed
further. The Deno server keeps its cache in memory and loses it with the rest;
a cache that outlives the relay is what `tests/cache_issue_sync_test.ts` 186-243
has. The cache's own limits belong to the cache store.

Behaviour a reader might not expect, and the model has: a repeated task, or an envelope
accepted anew, writes another event under a new cursor, so followers may see an envelope
twice; a snapshot from the source that is not preferred stays when the preferred one sends
an older state; a puller passes over what is stored under a smaller id than it has.

### IssueSyncEngine

`deliveryIds` and `dlq` are the engine's two memories, oldest first; `held` are the
deliveries whose envelope is among the messages of its room. A call runs without an
await from the duplicate check into the room and then waits:

| code | action |
|---|---|
| `handleGitHubWebhook`, `handleGitHubWebhookDlqRetry` up to the await of `publish` | `Webhook`, `Retry`: a `Duplicate`, `Refused`, or a `Publish` |
| `applyDelivery` when the cache was written, or given up on | `PublishReturns` |
| the handler's `enqueueDlq`, its `removeDlq` | `FailureReturns`, `RetryReturns` |
| other messages fill the room (`publishIntoRoom`) | `PushOut` |
| `snapshot`, then `restore` in a new relay | `Restart` |

The last rows but one come a few microtasks after the result is known, in which other
calls may go on. Deliveries go to the rooms of their repositories, so any envelope may be
the next to be pushed out.

Whether a delivery can be published is left open each time: `map` and `publish` are
parameters of the engine, and a restored queue may meet a relay that supports more
events. In one version of this relay the same body is refused again, so that there a
retry only succeeds if the delivery was remembered meanwhile. Abstracted: bodies, errors
and times; `retry_count` and `next_retry_at`, which nothing but the listing reads;
`listDlq`, which changes nothing. `applied`, `told`, `newer` and `later` record what
happened for the properties. A restart without a snapshot, as the entry points do it, is
the initial state again.

Behaviour a reader might not expect, and the model has: a delivery may be applied twice
while the first call still waits for the cache, if its room drops the envelope in that
time, since the id is remembered only afterwards; a delivery that was applied may stay
among the dead letters when a failing call of it ends late, until someone retries it; an
id that is remembered again keeps its old place and is forgotten no later.

### MemoryCacheStore and R2CacheStore

A store is a set of records with key, time and size. `MemoryCacheStore` has the policy
(`Expired`, `Fits`) and the four operations as single steps, as in the code; `Fits` says
without a loop what is left when the oldest go until the rest fits, and `Total` counts the
bytes of a set of records one by one. A page of a list is the set of keys whose `Place`, the
number of keys before them, is in it. `R2CacheStore`
takes each operation apart at its awaits and drives an instance of the memory store
along:

| code | action |
|---|---|
| `put` up to and with `bucket.put` | `Put`, `Write`, at which the memory store puts too |
| `applyPolicyAfterWrite`: the list, then each `bucket.delete` | `ListForPolicy`, `Delete` |
| `get` of an expired record; `remove` | `Get`, `RemoveRecord`, then `Delete` |
| the order of the deletions: the expired by key, then the oldest | `InTurn` |
| `list`, its deletions, `paginateMetadata` | `List`, `Delete`, `Page` |
| any call of the bucket throws | `Fail`; a write may have taken place |

A `get` of a record that is not expired changes nothing. The same tests hold both
stores to one contract (`tests/cache_store_contract_test.ts` 249-260), call after call;
`SameRecords`, a part of `QuietStoresAgree`, is this contract for calls that overlap. What keeps them apart is in
`behind` and `raced`: a put that fails on its way leaves the bucket above its limit
until the next put, and a record that is written out of turn may be deleted for what
another call listed under its key, or may be judged together with records the memory
store has dropped already. Puts in the order of their times, to different keys, are
safe however they overlap.

Abstracted: bodies and metadata, to key, size and time; kinds and rooms, to keys; the
bucket lists in one page (the code asks for 1000 objects at a time). The
body of an object comes with its metadata, so that `get` judges what it has read at
once. No entry point builds the R2 store yet; the code and its tests are what is
modelled.

Behaviour a reader might not expect, and the model has: the reader's cursor counts
entries, so that a record which goes away makes a reader pass over another one that
stayed; `loadIssueEventsFromCache` of `relay_cache_adapter.ts` pages this way.

### GitCacheFallback

The session is used through what it promises: the variables `outcome`, `forwarded` and
`announced` and the actions of `GitRelay`, which `GitServeSession` implements
(theorem `Refinement`). The daemon, whose repository has a `version`, is the other side.

| code | action |
|---|---|
| `handleGitRelayRequest` up to the read of the cache | `BeginRequest` |
| `safeReadGitCache`; without a session, the answer | `ReadCache` |
| the session's handler | `SessionStep`, after `Serve` where git answered |
| a 404 or 410, or another error | `FailOver` |
| `safeWriteGitCache` up to the put; the put and the answer | `BeginWrite`, `WriteCache` |
| the store drops a copy; registration; a new process | `Evict`, `Register`, `Restart` |

`Commit` and `Serve` are the world behind the relay. Abstracted: bodies, to the version
of the repository they tell of; keys, to the question asked; a name that `/` -> `__`
makes equal to another one. `newest`, `kept`, `relied` and `unsteady` record what happened.

Behaviour a reader might not expect, and the model has: pushes are cached, and answered
from the cache, like fetches; a 404 that the live daemon gave is masked by the copy; two
overlapping requests may store their answers in the other order, since the body is hashed
before the put (`unsteady`), so that a client gets something older than one before it.

### RoomSockets

| code | action |
|---|---|
| `handleWebSocket`; the listeners of `subscribeSocket` | `Connect`; `OpenSocket`, `ClientMessage`, `CloseEvent` |
| the client is gone and TCP does not say so | `Vanish` |
| `reapDeadConnections` from `fetch`, from the interval | `RequestReap`, `ReapInterval` |
| publish, heartbeat, leave, review with their broadcasts | `Publish`, `Heartbeat`, `Leave`, `Review` |
| a client's first poll, list and review query after `ready` | `Synchronize` |
| a new process | `Restart` |

Time is counted from each event and capped where it stops to matter (`Capped`). A request
reaps first if the last pass is a ping interval ago: handlers without an await before
their effect are guarded by `~Due`, and the pass that comes first is `RequestReap`. A
handler that awaited something may meet sockets that are due. The client's side is
`connected`, `pinged`, `slow` and `view`, what it was told since it synchronized.

Abstracted: payloads; signatures and nonces of reviews, which are in `RelayIdentity`;
several pull requests, which share nothing.

Behaviour a reader might not expect, and the model has: a participant that expires is
dropped without a broadcast, so that a follower may list more than the relay does; a Deno
socket that is still connecting when a pass comes leaves the room for good, although it
is told `ready` when it opens (`early`).

### WorkerRooms

| code | action |
|---|---|
| publish, callback, webhook through `handleWorkerRequest` | `RoutedPublish`, `Callback`, `Webhook` |
| `routeCacheExchangePushByEntryRoom`: the body is parsed and split | `BeginPush`, `Groups` |
| its loop over the objects, one `fetch` at a time | `Forward`; `ForwardFails`, `ForwardEnds` |
| `handleCacheExchangePush` in an object | `Takes`: the entries it keeps |
| the peer's next attempt; an object starts again | `Retry`, `RestartObject` |

`push[p]` is the push of a peer between its calls. An entry of `Ending` (one that cannot be
parsed or has no room, or whose room wants another token) makes the service answer 400 or
403 after it took any of the entries before it (`Broken`); one of `Rejected` (an invalid topic,
the relay's own origin, no hop left) or of an invalid room is counted and passed over, and
the push is answered 200. `acknowledged` are the messages a
caller that got 200 may count on: `Due` and the last argument of `Deliver` say for which
of them the rooms in the query and in the entry or the body agree. Abstracted: limits,
signatures and evictions of a room (`RelayRoom`), counts in the answers. The other routes
only pass a call on.

Behaviour a reader might not expect, and the model has: a webhook without `room` ends in
the object `main`, in the repository's room there, which no poll reads; a push with one
entry of an invalid room goes to `main` as a whole; an object that failed leaves the
objects before it with their part, which the peer's next attempt meets as duplicates.

## 3. Runs

| run | shows | bounds |
|---|---|---|
| `session` | all invariants, the refinement, and under fair timers that clients and polls are answered | one advertisement or fetch beside a push, two polls, one or two respond calls, two registrations, on Deno (listener, no storage) |
| `session_polling` | a pending request reaches a daemon that keeps polling, with timeouts never forced, hang-ups, and the storage of a Durable Object | as above |
| `identity` | which nonces and keys a relay may forget or replace | two calls at once, three keys, three nonces, room for two, two rotations that race, TTL equal to the clock skew, clock 0..2 |
| `identity_replay` | finding: a signed publish sent twice at once is accepted twice | |
| `room` | duplicates, evictions, polls, shared limits, inbox liveness | three ids, one of them in requests of two senders, each of which may be sent again; room for two, pages of one, five acceptances, restarts; two senders with limit 2, room limit 4, window 2, clock 0..4 |
| `exchange` | cursors pass nothing, copies die out, relays converge | chain of three relays, hop limit 3, pages of one entry, rooms of two messages, rings of three records, a message of each relay, one in a room the middle relay refuses, one restart of the middle relay |
| `projection` | order, followers, pullers and snapshots under retries, write-backs, evictions and restarts | two acceptances of three edits of one issue from two sources in any order, room for two messages, one retry, two failing calls or restarts, pages of one |
| `store` | the limit holds when calls are over, both stores keep the same records, paging misses no more than went away | two callers and a reader, three keys, two sizes of which two small ones or one large one fit, TTL two ticks, clock 0..2, three puts, removals or failing calls |
| `issue_sync` | a delivery is applied or kept, and not applied again too early | three calls at once, three deliveries, room for two in either memory |
| `git_cache` | a git client gets 200 with what the daemon said, and 404 only where no copy was kept | three requests of two questions, one of them a push, two versions, one fault |
| `sockets` | clients are told everything, those that answer pings stay, those that vanished make room | two sockets for one place, one member with two statuses, one reviewer, one message, all timeouts one tick, the configured idle timeout not above the ping interval, Deno's opening |
| `worker` | what a 200 stands for, and that a push gets through | two objects; messages for either, for an invalid room, without a room and without a hop left, pushed in three mixtures; two peers, two faults |

Why the bounds are enough to be interesting: two polls are the least for which
the queue of waiters has an order and a wakeup can go to the wrong one; two
respond calls race for one request; with two registrations there is an old and
a new token. Two calls are the least that interleave at an await. A room for
two of three ids has evictions, re-acceptance and a page boundary. A window of
two ticks lets sender and room windows start apart. Three relays in a chain are
the least where a message needs two hops and the hop limit can cut it off; a
room for two of three messages has them evict and re-accept each other. Of three
edits, two may be of one source with the older one last, or of two sources with
the preferred one older; two tasks are the least of which one can overtake the
other's cursor. Two failures are the least that make a task be given up
at one retry. With two retries (`MaxRetries` 2), the least for the race described above, the
properties of `projection` hold as well, in some 1.7 million states.

Three of the runs look at questions that do not depend on each other in one instance; their
next-state relation in the `MC` module leaves out the behaviours that mix them. In `room`
the clock moves on only where no message is accepted (`ClockOrMessages`): limits depend on
publishes that pass or are refused, messages and cursors not on the clock. In `projection` a
behaviour has a follower or a puller (`OneReader`), which share only what the cache holds. In
`exchange` three messages of one room compete for two places, or there are two, of one room or
of both, with a restart (`FewAtOnce`); `Converges` is about any two messages of the
three relays, which travel in pages of one while the others are published.

Three keys are the least where a put may evict one record and keep another. With
one more put, removal or failure (`MaxEvents` 4) the properties of `store` hold as
well, in some 7 million states.

Three deliveries are the least of which one can push another out of a memory of two,
and three calls let one delivery have a failing call, a publishing one and a retry
under way at once.

In `git_cache` a third request is what finds the copy of the first after the second
was served something newer. Two sockets for one place are the least for which one must
wait for the other; timeouts of one tick let every order of ping, answer, expiry and
reaping happen. Two objects and two faults let a push fail at either object, or at
one of them twice, with a restart between the attempts.

Symmetry is used in `identity`, over the calls, in `store`, over the callers, in
`issue_sync`, over calls and deliveries, and in `git_cache`, over requests, with no
liveness. Deadlock is not checked in `room`, `store` and `git_cache`: clock and calls
are bounded and everything may come to rest.

Fairness: `TimersFire` says that an armed timer fires, which the event loop
grants. `PollingSpec` assumes the daemon polls again when it can, and that poll
timeouts fire; it deliberately leaves out request timeouts. `Consuming`
assumes a consumer that goes on fetching and acknowledging and gets some answer
in the end. `Syncing` assumes that the timers of the sync workers go on
(`deno_main.ts` 312-343) and that a peer is not cut off for ever: pulls may fail
any number of times, but each peer's answer arrives time and again (strong
fairness of the push after it). `Following` assumes that the queue goes on
and that a follower asks again and again. `RoomSockets` assumes that time passes and the interval fires, which
the shipped servers always set up (`runtime_config.ts:335`); `WorkerRooms` that calls of
objects end and that a peer tries again, as the sync loop does (`deno_main.ts` 341-345),
with finitely many faults. Nothing is assumed of clients, respond calls, expiry or restarts.

Bounded counters: `MaxTokens` registrations, `MaxTime` of the clock,
`MaxAccepted` messages, `MaxCount` of the rate counters (in the code a refused
publish still counts), `MaxRestarts` of a relay. `MaxTrouble`
bounds failing calls of the cache and restarts together, `MaxAccepted` also the
envelopes a room hands to its projection, `MaxPulled` a puller's position, `MaxEvents` the puts,
removals and failing calls of a cache store together, `MaxVersion` the versions of the
repository behind the git cache, `MaxMessages` the messages of `RoomSockets`, `MaxFaults`
failing calls with evictions in `GitCacheFallback` and with restarts in `WorkerRooms`.

## 4. Findings

`memory_handler.ts:1356`, run `identity_replay`: the nonce is checked before the awaits of
hash and signature and remembered after them, so that one signed request sent twice at
once is accepted twice. The sentences this contradicts are in `PROJECT.json`.

Differences met on the way that a property excludes by name:

- `git_serve_session.ts:461`: a respond call that throws leaves its client without an
  answer and without a timeout (`README.md` 59-66; `stranded`, `EveryoneIsAnswered`).
- `memory_handler.ts:1514`: one entry of a room that needs a token ends a push, so that
  what stands behind it is not replicated (`TODO.md:103`; `Converges`).
- `relay_cache_adapter.ts:266`: a follower's call that takes the cursor in memory back under
  a repeated task may make followers lose an envelope (`sound`, `FollowersReadInOrder`,
  `EverythingFollowed`; see `IssueProjection` above).
- `relay_cache_adapter.ts:548`: a page of `pullIssues` is a stretch of the list of stored
  envelopes, which is sorted by id. When an envelope is stored under a smaller id than one the
  puller has, the list shifts: the page at the cursor the puller was given repeats an
  envelope, and the new one is passed over; `TODO.md:154` says that one can resume at a
  cursor without duplicates (`PullerStaysInStep`).
- `memory_handler.ts:1240`: a socket that is still connecting is reaped (`early`,
  `ViewsAreCurrent`).
- `memory_handler.ts:853`: after a restart a poll cursor beyond the end of the emptied
  room gets nothing until as many messages have come as before, and those are never
  polled; `docs/knowledge.md:31` says that clients just fetch again (`stale` of
  `SkippedAtMostDropped`).
- `memory_handler.ts:1795`: of two rotations at once the second replaces the key the
  first installed, which did not sign it; `README.md:151` says the current key signs
  (`RotationsAreAuthorised`).
- `cloudflare_worker.ts:466`: without `room` in the query, webhooks are published where
  no poll looks (`docs/host-bit-relay.md:213`), and so are entries pushed or called back
  under another room than their own (`Due`, `Deliver`).
- `git_cache_layer.ts:83`: overlapping requests may leave the older answer in the cache
  (`unsteady`, `SteadyNeverOlder`).

And those no property is about: `git_serve_session.ts:598` speaks of persisting after
cleanup, but only `register` persists, so a restart brings an expired session back
(`Restart` does); `docs/host-bit-relay.md:100` says a session TTL of 0 means no expiry,
the code takes the default of 24 h; `README.md:55` requires the session token on all
endpoints, `handleGitRequest` does not look at it; on the Worker a registration of a
git session looks its sender's key up in the object `__default__`
(`docs/usage-guide.md:146`), and a cache pull without `room` reads only `main`; a POST to
a named git session that is not found has used up its body when the random session is
tried (`docs/knowledge.md` 44-52); pushes are cached and answered from the cache
(`TODO.md:117`), and a cached advertisement may name objects no cached pack has
(`TODO.md:129`).

## 5. Proofs

`GitServeSession_proofs` holds for any sets of requests, polls and respond calls,
any number of registrations, with and without storage or listener. The only
assumption is `SessionAssumption` on the constants.

The inductive invariant is `SessionInv`: `TypeOK`, `WaitingIsTracked`,
`WaitersAreTracked`, `NoLostWakeup`, `AckMeansDelivered`, `EventsMatchVerdicts`,
and two parts no run states by itself. `SettlesMatchClients` ties the number of
resolutions to the client's state: without it nothing prevents a second
resolution of a request that is still pending. `ActiveIsTimed` says that an
active session has its TTL timer armed. `RespondersKnow`, invariant by a second
induction, says that a respond call handles a request the daemon has received;
the refinement needs it, since the abstract relay answers only forwarded
requests.

| theorem | statement |
|---|---|
| `TypeCorrect` | `Spec => []TypeOK` |
| `WaitingTracked` | `Spec => []WaitingIsTracked` |
| `WakeupsKept` | `Spec => []PollsAreTracked`, that is `WaitersAreTracked` and `NoLostWakeup` |
| `VerdictsKept` | `Spec => []VerdictsAgree`, that is `SettledAtMostOnce`, `AckMeansDelivered` and `EventsMatchVerdicts` |
| `Refinement` | `Spec => ImplementsRelay` |

`NextKeepsInv` has a step per action; the actions that change sequences of
waiters rest on lemmas about removing the head, appending and splicing
(`HeadLeaves`, `AppendedAtEnd`, `SplicedOut`). `NextRefines` maps each action to
one abstract action or to a stutter.

`RelayIdentity_proofs` holds for any keys, nonces, requests, calls and limits, with and
without storage, under `IdentityAssumption`.

| theorem | statement |
|---|---|
| `IdentityTyped` | `Spec => []TypeOK` |
| `ReplaysAreForgotten` | `Spec => []ReplayOnlyIfForgotten` |
| `AckedIsKept` | `Spec => AckedIdentityIsKept` |
| `KeysVouched` | `Spec => KeysAreVouchedFor` |

In `IdentityInv`, `AcceptedRemembered` says that an accepted request is remembered with its
time or a later one, expired or forgotten; where the TTL covers the skew, the nonce check
stops it unless it is forgotten. A call knows what was true when it began: `CallsKnown`
says how much of it still is (its clock is not ahead, its key was the sender's, what it
accepted stays accepted). `KeysKnown` and `DurableStored` relate the registry to the
storage. The lemmas on `At` number the places of a finite set, so that what pruning leaves
is a sequence in its old order with each nonce once; the map is of any length.

`Rooms_proofs` has both models of rooms, which share no state. Of `RelayRoom` it holds for any
senders, addresses, pollers, consumers and limits, under
`RoomAssumption`, of which finiteness of `Senders` is what `Shares` needs.

| theorem | statement |
|---|---|
| `RoomTyped` | `Spec => []TypeOK` |
| `NewestHeld` | `Spec => []RoomHoldsNewest` |
| `PollersKeepUp` | `Spec => []PollersFollow` |
| `SharesKeptApart` | `Spec => []SendersShareTheRoom` |

`CursorInv` is what makes a poll go forward: a cursor is its old value at the room's start
plus the number of messages received since, and nothing was received from behind it.
`CountersInv` says that a counter that counts was opened by a publish. `SharesInv`
strengthens `SendersShareTheRoom` from the bound to what was taken: the room's counter is
at most the shares its senders have of the current window, where `ShareOf` tells by a
sender's own counter how many that may be, depending on which window opened first.

Of `WorkerRooms` it holds for any rooms, messages, peers and number of faults, under
`RoomsAssumption`: the default room is a room, and each message is for a room or for
none.

| theorem | statement |
|---|---|
| `RoomsTyped` | `WorkerSpec => []WorkerTypeOK` |
| `AcknowledgedKept` | `WorkerSpec => []AcknowledgedIsPolled` |

`AcknowledgedIsPolled` says nothing of a push under way. The inductive invariant
`RoomsInv` adds `DueIsKept`: what the peer of such a push may count on is still to be
forwarded or is kept by the object of its room. `GroupsGoHome` says that each group of a
push goes to the object that is polled for what the peer may count on; single calls rest
on `DeliverKeepsInv`, beginnings and repetitions of a push on `StartKeepsInv`.

`CacheExchange_proofs` holds for any relays, peers, rooms, messages, page and ring sizes and
restarts, under `ExchangeAssumption`.

| theorem | statement |
|---|---|
| `ExchangeTyped` | `Spec => []TypeOK` |
| `NothingPassed` | `Spec => []CursorPassesNothing` |
| `FloodEnds` | `Spec => []FloodIsFinite` |

In `ExchangeInv`, `CursorInv` is the property with the bound it needs: a cursor is not ahead
of its peer's, so that a record added later lies beyond it. `FlightInv` says the same of the
cursor that comes with a page, but for what is on the page; `PageInv` and `RingInv`, that a
cursor names one record. `KnownInv` (what a room holds was accepted) is why a duplicate may
be skipped. `PageFacts` is the loop of `selectCacheExchangeEntries`: what is not beyond the
next cursor is on the page, not wanted, or was before the old one.

`FloodIsFinite` counts: a relay accepts no more than there are copies (`Copies`), each a
published message with a way to the relay. The cursor of a relay does not say which copies
it counted, so `FloodInv` says that there is a history `T` of every relay (`Told`) from which
the present state follows: `T[n]` lists different copies, as many as the cursor of `n`
(`History`); ring records and page entries stand for the copies at their cursors (`RingTold`,
`PageTold`); and each copy that did not begin at `n` came from a peer's copy whose record the
worker has passed since (`Came`, `Passed`). An entry that is accepted is not passed yet, so
that the copy it brings is new, even if its room forgot an earlier one; `NextCopy` is where
the hop limits of the sender and the receiver come to the same bound, and where the check
of the origin keeps ways finite. A pull that fails loses nothing from `Passed`, because an
answer of which an entry was pushed can fail no more. A restart or a forbidden room does
break the argument, as a page is then pushed again; hence `Undisturbed`.

`IssueProjection_proofs` holds for any envelopes, policy, retries, page size, room size and
number of acceptances and troubles, under `ProjectionAssumption`: finitely many envelopes,
told apart by positive ids.

| theorem | statement |
|---|---|
| `ProjectionTyped` | `Spec => []TypeOK` |
| `SnapshotsAreLatest` | `Spec => []SnapshotIsLatest` |
| `EventsReadInOrder` | `Spec => []FollowersReadInOrder` |
| `PullerInStep` | `Spec => [][PullerStaysInStep]_vars` |
| `ReadersKeepUp` | `Spec => ReadersFollow`, the two together |

The inductive invariant `ProjectionInv` is about the cursor's three places: the record in
the cache, the memory of the relay, and the task that runs. `QueueInv` and `EventInv` tie
events to the order of acceptance: the queue holds the last acceptances, and events have the
numbers of those before it or of the running one; what the room holds does not matter, so
that an envelope accepted anew is one more acceptance. `CursorInv`: the events of tasks
that are over are not beyond the record, those a repeated task left behind not beyond the
cursor it has or will take. `MemoryInv`: what memory and a follower's call know is not ahead
of what the task ends with, at a first attempt not ahead of the record; this is what the
race of `relay_cache_adapter.ts:266` breaks and why `sound` ends there. `FollowInv` says that
a follower's cursor is that of an event it has seen, and that a page leaves out nothing up to
its end. `SnapshotInv` has `SnapshotIsLatest` also between the snapshot's put and the event's.

`PullerInStep` is an action property and rests on `PullerInv`: a position is at most the
number of stored envelopes. `StretchSize` counts a stretch of the sorted list, from which
`PullSize` has where the next position is; `PullInStep` is a pull, `GrowthInStep` a put of an
envelope behind all the puller has, which moves none of them.

`IssueSyncEngine_proofs` holds for any deliveries, calls and limits, under `SyncAssumption`.

| theorem | statement |
|---|---|
| `SyncTyped` | `Spec => []TypeOK` |
| `NoneLost` | `Spec => []NothingLost` |
| `AppliedOnce` | `Spec => AppliedOncePerWindow` |

`AppliedInv`: what is remembered, published by a call or applied was accepted by a room.
`NewerInv` and `LaterInv`: a delivery's count is not behind the entries that stand after it
(`Follows`), so that one which is pushed out has reached the limit.

`Caches_proofs` has the two caches, which share no state. Of `GitCacheFallback` it holds for
any requests, questions, versions and faults, under `FallbackAssumption`.

| theorem | statement |
|---|---|
| `TypeCorrect` | `Spec => []TypeOK` |
| `FallbackSound` | `Spec => []FallbackIsSound` |
| `NeverOlder` | `Spec => SteadyNeverOlder` |

In `FallbackInv`, `ProgressInv` ties the stage of a request to its session outcome and the
daemon's reply; `CopiesWereServed`: copies, and what was read from them, are 200 answers of
the daemon to the same question; `KeptHasCopy`: a request that relies on a copy finds it or
holds it; `SteadyIsNewest`: a steady question has one request at a time, which has seen
nothing older than its clients were given.

Of `R2CacheStore` it holds for any callers, keys, sizes, policy (`Ttl` and `MaxBytes`, 0
included), page length and number of events, under `R2Assumption`.

| theorem | statement |
|---|---|
| `StoreTyped` | `StoreSpec => []StoreTypeOK` |
| `ReaderMissesFew` | `StoreSpec => []MissedAtMostRemoved` |
| `StoresAgree` | `StoreSpec => []QuietStoresAgree` |

The properties speak of the end of a reading and of moments when no call is under way; the
invariants say what holds before.

- `MissInv`: between two pages the reader has passed, unseen, at most as many entries of the
  present list as went away. While a call of it holds a list, entries that went away since
  do not shift that list and count beside the passed ones. `RemovalsShift` is the step from
  one list to the next: in front of a cursor there are at most as many more as entries are
  no longer listed. Entries that come can only push others back.
- `FitInv`: unless a put is about to list or one failed, what no put is still to delete is
  within the limit. It is why overlapping puts, each of which deletes for the list it saw,
  delete enough together.
- `AgreeInv`: unless something came out of turn, the fresh records of the store in memory are
  `Kept`, what fits of the bucket's fresh records, and each call under way deletes only
  records that do not fit, each after those older than it (`Goes`). Without the second part
  a failing call could leave a hole that changes what fits.

`FitsFacts` says that what fits is the newest part of the records and within the limit;
`FitsOfNewest`, `FitsWithNewest` and `FreshIsNewest`, that dropping the oldest, adding a newest
and expiry may come before or after it. They take the place of an argument over the loop
of `enforceMaxBytesLimit`. `InTurnFacts`, with `Ranked`, says that the deletions are a sequence
in which each record to delete stands once and in its order.

`RoomSockets_proofs` holds for any sockets, members, limits and intervals and finitely many
reviewers, under `SocketsAssumption`.

| theorem | statement |
|---|---|
| `SocketsTyped` | `Spec => []TypeOK` |
| `CurrentViews` | `Spec => []ViewsAreCurrent` |
| `PromptStay` | `Spec => []PromptClientsStay` |

`ConnectedAreInRoom`: a socket that is not closed and was not reaped early is in the room,
so that broadcasts reach it. `HeardInTime`: the relay heard from a client that answers its
pings within the last interval, or has just pinged it, which is below the idle timeout.

The proofs changed the models in form only: what a loop leaves is said with sets and
places (`At`, `Live`, `Pending`, `Reached`, `PlaceOf`, `Place`, `PageAt`, `InTurn`) where a
recursive operator of a library said it before, `Total` counts bytes where it summed, and
`FloodIsFinite` counts ways as sequences of relays where it added up walks hop by hop.
The two modules of rooms and the two of caches have names of their own for their
specifications, so that one module can extend both.

Only model-checked:

- liveness (`EveryoneIsAnswered`, `PendingReachesDaemon`, `InboxReachesB`, `Converges`,
  `EverythingFollowed`, `SlotsAreFreed`, `PushGetsThrough`), which needs fairness and
  `ENABLED`;
- the run `identity_replay`, which is a counterexample.

## 6. Plan

All modules planned are written, and each safety invariant and action property of a run is
a theorem:

1. `GitServeSession`, `GitRelay`, proofs - done.
2. `RelayIdentity`, proofs - done.
3. `RelayRoom`, `WorkerRooms`, proofs - done.
4. `CacheExchange`, proofs - done.
5. `IssueSyncEngine`, proofs - done.
6. `IssueProjection`, proofs - done.
7. `MemoryCacheStore`, `R2CacheStore`, proofs - done.
8. `GitCacheFallback`, proofs - done.
9. `RoomSockets`, proofs - done.

What a next version could add: the hazards of `PROJECT.json` that no property covers, and
the parts below.

## 7. Not modelled

- GitHub as relay target and admin API, MCP server: calls over the network, no state.
- Configuration, contracts, affinity: pure parsing, types and a scoring function.
- Observability: log lines and counters nothing depends on.
- Of the triggers: the dispatcher, which keeps no state and tries once, and the list of
  results, a poll with a filter.
- Of the Worker: the fallback from a named git session to a random one and the routes of
  the serve API; of the Deno server: start-up and shutdown.

Cryptography and HTTP are taken to work. The full `snapshot`/`restore` of
`memory_handler.ts` is used by no entry point and left out, but for the part of the issue
sync engine.
