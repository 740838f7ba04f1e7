# WhatsMulti: TLA+ models and proofs

WhatsMulti (`src/src`) runs many WhatsApp sessions in one Node process on top of the Baileys
driver. It has no threads. What makes it hard is everything that happens between two
`await`s: another call, a timer, a driver event, another instance taking the lock, a deadline.
These modules model those interleavings, TLC checks them on small instances, and TLAPS proves
the results that matter most for every instance. Paths below are relative to `src/src` unless
they start with `spec/`, `docs/` or `test/`.

Contents: 1 the system, 2 the modules, 3 the runs, 4 what the code does differently from its
documents, 5 the proofs, 6 what is not modelled, 7 the plan, 8 how to run it.

## 1. The system

| Component | Source | State it keeps | Operations | Talks to |
|---|---|---|---|---|
| Session | `session/session.ts` | machine state, socket and listener handles, reconnect timer, lock token and heartbeat timer, auth handle, send queue, counters | start, stop, logout, remove, reset, destroy, send, requestPairingCode | driver (calls, event batches), lock, storage, event bus |
| State machine, causes, reconnect policy | `session/state.ts`, `disconnect.ts`, `reconnect.ts`, `generated/*` | the state; the attempt counter | can, apply, tryApply; classify; plan, reset | session |
| Session manager | `session/manager.ts`, `registry.ts` | map of sessions, destroyed flag, adapters in use | create, ensure, load, start, stop, restart, logout, remove, destroy | sessions, storage, lock provider |
| Lock | `lock.ts` | per key: token, owner, expiry | acquire, renew, release, inspect | session; other instances (through the SQL, Redis and Mongo variants) |
| Send queue | `messaging/queue.ts`, `send.ts`, `utils/timeout.ts` | waiting jobs, slots in use, last reserved start, closed flag, idle waiters | push, drain, close | session, driver |
| Webhook delivery | `webhook/delivery.ts` | queue, pump flag, request in flight, closing flag, shutdown deadline | enqueue, idle, close | webhook plugin, receiver over HTTP |
| Webhook plugin | `webhook/index.ts` | events of the open window, its timer | setup, collect, flush, dispose | event bus, delivery |
| Bounded fan-out | `utils/concurrency.ts` | a cursor shared by the runners | mapLimit | manager's load and destroy |
| Event bus | `events/emitter.ts` | listeners, wrapper cache, batch listeners | on, once, off, process, emit, emitBatch | everything |
| Auth state, registry, storage | `auth/*`, `session/registry.ts`, `storage/*` | credentials, Signal keys, metadata, by name | load, saveCreds, set, clear, purge; write, remove, list | session, manager, adapters |
| Remote adapters | `adapters/{sql,redis,mongo}` | rows, keys, documents, in a server | storage and lock operations | databases |
| Client, plugins | `client.ts`, `plugin.ts` | plugin list, the promise of their setup, flags | use, init, destroy, and what it delegates | manager, bus, plugins |
| HTTP server | `server/*` | live subscribers, a buffer for each; the last QR and pairing code of each session | routes, event stream, close | client, bus |
| QR, jid, media, config, errors, logging, driver loading | `qr`, `messaging/jid.ts`, `messaging/media.ts`, `config.ts`, `errors.ts`, `logger.ts`, `compat/*` | none worth the name | pure conversions | |

**Interaction.** A caller reaches a session through the manager. `start` takes the lock, loads
the credentials, asks the driver for a socket and attaches one listener to it. From then on
the driver calls the session (QR code, open, close, credentials), a heartbeat renews the lock,
and a reconnect timer opens the next socket. `stop`, `logout`, `remove`, `destroy`, a lost
lock ("fence") and the QR limit take the session down; each does it in its own order. Sends
wait in a queue per session. Events go out on the bus, from which the webhook plugin feeds the
delivery queue.

**What makes each component correct, and what is hard about it.**

* *Lock.* One holder at any instant, also across processes that stall; a token that lost the
  key never gets it back. Hard: the millisecond of expiry, and late calls with old tokens.
* *Session.* One socket at most, never without the lock, never left behind; a session that was
  taken down stays down; one that is up hears its socket; a purge leaves nothing. Hard: the
  session is re-entered at each of its awaits, by callers, timers and the driver.
* *Pairing.* One phone request per QR code, and nobody is sent to scan a code that was used.
  Hard: the request's answer is awaited across QR codes, sockets and removals, and the server
  learns of all of them by events.
* *Manager.* A running session can be reached; `destroy` leaves nothing running; the metadata
  agrees with the map. Hard: `create` checks, awaits storage, then registers.
* *Send queue.* Order, gap and concurrency hold while jobs fail, time out, or wait out the gap
  across a stop; every caller and every drain gets an answer.
* *Delivery.* Every batch is settled once, in order, within the shutdown grace.
* *Fan-out.* No item skipped or taken twice when workers fail.
* *Remote locks.* The same as the lock, when a call takes time, its answer may be lost, and
  the clocks of two processes differ.
* *Data at rest.* What was confirmed is there after any failure or crash; a key rotation never
  leaves a session without keys; a purge is complete; a prefix finds its session's keys and no
  others. Hard: a call is several statements, and each of five backends takes different ones.
* *Events.* Each one reaches every listener, the webhook window and every open stream once and
  in order, also while the client shuts down, and a reader that falls behind is cut off. Hard:
  a window flushed by size, by its timer, by the application and by dispose; a loop that parks
  behind a callback; a wrapper cache shared by on, once and off.
* *Plugins.* Each one that was set up is disposed, after the sessions' last events, and one
  that fails does not keep the others up.

`PROJECT.json` lists under "hazards" each place in the code where this can go wrong, with the
properties that guard it.

## 2. The modules

```
SessionTable <- Session <- MCSession, SessionProofs
SessionTable <- Pairing <- MCPairing, PairingProofs
LockClients <- LeaseLock <- MCLeaseLock, LockProofs       <-  EXTENDS
LockClients <- RemoteLock <- MCRemoteLock, LockProofs     <=  implemented by
Lease <= LeaseLock
Manager <- MCManager, ManagerProofs
SendQueue <- MCSendQueue, SendQueueProofs
Outbox <= Delivery <- MCDelivery, DeliveryProofs
Keyspace <- AuthStore <- MCAuthStore, AuthStoreProofs
EventBus, Forwarder, Live <- Client <- MCClient, ClientProofs
```

**One action is one uninterrupted run of JavaScript.** It begins where a call, a timer, a
driver event or the end of an await enters the code and ends at the next await, whatever
number of functions that takes. The states of the model are the states other code can see.
The modules of one line meet those of another at a narrow contract: Session knows the lock as
what `Lease` promises, Manager knows a session as up or down, Client hands its batches to the
queue that Delivery models, AuthStore is what Session's and Manager's storage calls do.

**SessionTable** holds the generated transition table and disconnect classification as sets,
`tryApply` ("take the edge if there is one, else stay"), and the reconnect policy's decision.
All causes of the code are in it; runs use one cause of each kind of handling.

**Session** models one `Session` object with its environment. `lane[l]` is one continuation
that is waiting at an await: the operation it belongs to, the await (`pc`), and the locals it
will use after it. The API, timer, heartbeat and event lanes bound how many of each can wait
at once.

| In the model | In the code |
|---|---|
| `state` | `#machine` |
| `suppress`, `destroyed`, `queueClosed` | `#suppressReconnect`, `#destroyed`, whether `#queue` is closed |
| `sock`, `detach`, `attached` | `#socket`, the socket `#detach` belongs to, the sockets whose listener is still registered |
| `timer`, `timers` | `#timer`, the timeouts that are really armed (a forgotten handle still fires) |
| `held`, `beat` | `#held`, the renew timer |
| `auth`, `stored`, `kept` | `#auth` loaded, credentials in storage; history: the last purge threw |
| `wire` | what the driver has on the network, per socket |
| `holder`, `dead` | the lock provider: the token it honours, tokens whose lease has lapsed |

`Start`, `AcquireDecided`, `Acquired`, `AuthLoaded`, `Opened` and `OpenFails` are `start` and
`#reconnect` between the awaits of `#acquireLock`, `#ensureAuth` and `#openSocket`.
`Stop`, `Remove`, `Destroy`, then `Drained`, `Ended`, `Released`, `Purged` (or `PurgeFails`, which
may have deleted the credentials or not) are the closing calls, which share code; `Logout`,
`Unlinked`, `UnlinkFails` ask the phone first. `OnQr`, `OnOpen`, `OnClose`, `OnCreds` are the
handlers of a driver batch; a batch that carries both a credential update and a connection update
is two batches here. `Reconnect`, `Beat`, `RenewDecided`, `Renewed`, `Fenced`, `RenewThrows` are
the timers. `RivalTakes`, `Lapse` and `ClosedUnheard` are the world. The lock provider is reduced
to what `Lease` promises: one holder, fresh tokens (a token nobody remembers is reused for the next
grant), loss at any time.

`Admits` names overlaps of the environment. Without an overlap, the stretch of code it names
runs undisturbed. It is there because the code is *not* correct under all of them: section 4
says what each breaks. A property is thus claimed under a stated set of overlaps and no wider.
Manager, Pairing, AuthStore (`Overlapping`) and Client (`Overlaps`) have the same device.

**Pairing** is what Session leaves out: the QR counter again, `#sawQr`, `#pairingPending`, the
calls of `requestPairingCode` that await the driver, and `LiveState`'s two entries of this
session (`qr`, `pairing`) with the clock that lapses them. Socket, lock and timers are reduced to
"a socket or none": what opens, closes and removes a session happens in any order the transition
table allows. QR codes are numbered, and a pairing code has the number of the QR code it was
requested under. A call that the driver still owes an answer when its session is removed becomes
an `orphan`: it sets the flag of an object nobody has, but its event carries the same id. `spent`
is history: up to which code no phone can use any. Emitting an event and `LiveState` receiving
it is one step, as the bus is synchronous.

**Lease** is the promise of a `LockProvider` for a key: `Grant` to a fresh token when nobody
holds it, `Lose`. **LockClients** is what both providers' models say of the callers: the clock,
whose a token is, and what a holder remembers (`known`, `gaveUp`), used to say what it can
believe. **LeaseLock** is the in-process provider (`memoryLock`): lazily swept entries, and
callers that may present any token they were ever handed, at any time.

**RemoteLock** is the lock that processes share, in its three implementations. `call[l]` is a
call in flight, its `pc` the next statement of it that reaches the store: for SQL an acquire is
`Sweep`, `Put` (the INSERT) and, when that fails, `Look`; for MongoDB and Redis it is one `Put`.
A renew is `Extend`, then for the first two `ReadBack`; for Redis it is one script, and the new
expiry is computed by `Renewed` when the answer arrives. `Drop` ends a call with an error,
whether or not its statement ran. `skew` is what a process's clock is ahead; `Lapsed` and
`LiveAt` are the two sides of `expires_at`, at the caller's clock or the server's.

**Manager** is the map of one client, its metadata, several `Session` objects reduced to up,
down, starting or logged out, and its calls split at their awaits. Storage may fail at every
step, before or after it took effect: a purge or a removal that throws may have deleted the
metadata. `fan` is the `mapLimit` of a load: the ids left, the calls its runners have in flight, and
how many runners are left, since one whose worker throws ends while the others go on (`Take`,
`Settles`, `LoadEnds`). In `destroy`, `DestroyOne` is one worker of the same fan-out.

**SendQueue** is the queue of one session with the send that its jobs run. `phase` tells where
each job is: `waiting` in the list, `reserved` (a slot and a start time taken, sleeping out the
gap), `running` (the driver call, in `wire`), `settled` (before the worker's `finally`). A job
that times out leaves `running` while its driver call stays in `wire`. `accepted` and
`lastSent` are history.

**Outbox** is the promise of the forwarder: accepted batches are settled one by one from the
head, or all at once by a shutdown. **Delivery** is the queue with its pump (`pc`), its post,
its backoff sleep, abort and deadline. Outcomes of a post are `ok`, `reject` and `retry`; a
`retry` may or may not have reached the receiver. Delay lengths are left to the timer.

**Keyspace** is how data is named: `storageKey`, `parseStorageKey` and the percent-encoding, the
file adapter's names (encoded once more, digested past a length), the place each adapter gives a
key, and which keys a prefix selects. A name is a sequence of characters, so that a prefix that
is too short, an encoding that is not undone or two names that meet are visible. `Char` is the
alphabet: the characters, and words that no code takes apart and that count as one.

**AuthStore** is one session's data at rest in any of the five adapters. A call is a record of what
it still has to do: `op`, `phase`, and for each key of the phase the next step of it (`st`); `told`
says that the caller has its failure already while parts go on behind its back. How much one step
does is the adapter's: a MongoDB bulk and the parallel file writes go key by key in any order, SQL
writes go by chunks, a Redis purge deletes by chunks, the rest at once (`Batch`, `Chunked`). The
file adapter's write is `MakeDir`, `OpenTemp`, `Rename`; its clear is `Delete` in any order and
then `RemoveDir`, which fails on a directory that is not empty. `List` is `keys()` and the walk of
a clear: SCAN and a cursor owe only what is there throughout. `PartFails`, `Fail` and `Crash` may
come between any two steps. A `keys.set` is `SetKeys`, or `DropKeys` when it has nothing to write.
Values are versions; `acked`, `wiped` and `raced` are history: the last confirmed credentials,
whether keys were dropped on purpose (or a set began while an earlier one still deleted,
`Straying`), and what overlapped a purge. `naming` is what Keyspace computes for the adapter at
hand, kept in a variable because it never changes. Besides the session's keys the backend holds a
neighbour's and, in Redis alone, the lock's entry (`Holds`): the other locks have a table, a
collection or a map of their own.

**EventBus** is the emitter for one event name: the handlers in order, the cached wrapper of each
listener, the batch listeners. A listener may be registered again and again, up to `MaxHandlers`
registrations at a time. `asked` is history: what its owner asked for last, or `shared` from a
second registration on. **Forwarder** is the webhook plugin up to `enqueue`: window,
timer, batches. **Live** is the server's `LiveState` with the loop of `GET /events`, split at its
three awaits (a frame, the park, a ping). **Client** composes the three: plugins are set up by
the first operation and disposed by `destroy`, a session emits driver batches and its last event
in between, and every emission goes to the listeners, the window and the streams in one step.
Events are numbered as they are emitted; names that do not cross the wire have no number.

## 3. The runs

| Run | What it asks | Bounds, and why they suffice |
|---|---|---|
| LeaseLock | mutual exclusion, safety of live entries, refinement of `Lease` | 2 instances, 3 acquisitions, lease 2, clock to 6: a lease can lapse, be stolen, lapse again and be presented stale twice. At the bound of the clock calls go on, so nothing deadlocks. |
| RemoteLock | who can believe to hold the key, who can displace a live row | all 3 backends; 2 processes, 3 acquisitions, 2 calls in flight, lease 1, clocks up to 1 apart, clock to 3: a lease lapses while a renew of it, a release or another acquire is under way. |
| Session | all safety and liveness of one session; of the overlaps only a refused logout; a purge may fail | 1 API call, 1 heartbeat, 1 timer callback, 1 batch awaiting at once; 2 sockets (an old one on the wire and its successor), 1 timer, 2 tokens (ours and a rival's); QR limit 1 with the counter to 2, so the limit is passed; 1 reconnect, so the cap is reached; 4 causes, one for each way of handling. |
| Pairing | one request per QR code; what the server still serves; of the overlaps none | 3 requests (one pending, one after its code lapsed, one more), 3 QR codes with a limit of 2, codes that lapse after 1 tick, clock to 2: a code can lapse while its successor stands. |
| SendQueue | slots, order, gap, answers | 3 jobs over 2 slots and a list of 1: two jobs hold slots while one waits; gap 2 with timers up to 1 late; 2 connections. A fourth job would only add refusals by a full list. |
| Delivery | the outbox contract, order, waiters | 3 batches, list of 2 (overflow is reached), 2 attempts, grace 1, 2 closers or idlers. |
| Manager | map, objects and metadata agree; a load is complete | 2 ids, 3 calls (a load and its 2 runners), 3 objects: an id can be removed and created again. |
| AuthStore | nothing lost, truncated, left behind or mistaken | all 5 adapters; 2 calls under way; 3 Signal keys (a rotation that writes one, deletes one that fails and leaves a straggler on the third), one with a plain name and two that are encoded and, as files, digested (`MaxName` 6); a neighbour whose id extends ours, and the lock's key; chunks of 1, so that every multi-key call has a middle; 3 versions: two writes after the initial one. Calls and Signal keys are symmetric: `naming` is the only thing that knows a key's name, and it says of each the same (`WellNamed`). |
| Client | events from session to listener, window and stream; shutdown | 2 plugins, 1 listener, 1 stream with a buffer of 2, batches of up to 2 posted and 3 emitted, 4 events: one emission overfills window and buffer, and another follows. 2 registrations at a time: the listener can share its wrapper, with the same kind or the other, and lose it. One listener is enough, as another's entries only stand between its own; `ListenersAreReached` is for any number. |
| SessionStopDuringOpen, ManagerDuplicateCreate, AuthStoreSharedRedis | violations, see section 4 | the smallest overlap or setting that shows each; of SessionStopDuringOpen: 2 API calls, an undisturbed heartbeat left out, so that only the stop can take the lock away |

**Properties of the session.** `NoOrphanSocket`: every socket on the wire is the session's own
or is being ended. `SocketUnderLease`: none is there without a lease, but for the time until
the heartbeat notices a lapse. `ReleasedAfterSocket`: the lock goes after the socket.
`HeldIsGuarded`: a held token has a heartbeat. `DownMeansDown`: nothing listens to, or will
reopen, a session that was taken down. `NotStranded`: a session that says it is up can still be
moved by something, or its logout was refused. `PurgeIsFinal`: logged out and at rest, nothing of
the credentials is left, unless the purge threw. Liveness, in `NothingHangs`: a lapsed
lease is noticed (fail-stop), and `connecting` is not a place to stay.

**Of pairing.** `OneRequestPerQr`: at most one call is pending or answered under the current QR
code, and while a code can be requested, the flag is set exactly when there is one.
`ServedIsUnused`: what the server would still serve was not consumed by an open or a removal.

**Of the locks.** LeaseLock: `AtMostOneBeliever`, `LiveEntrySurvives`, `LeaseContract`. RemoteLock:
`AtMostOneHolder`, here with the margin the code leaves (section 4), and `LiveRowSurvives`.

**Of the data.** `AckedCredsSurvive`: credentials whose save was confirmed, or newer ones, are
there. `SomeKeySurvives`: a rotation never leaves none, unless an earlier one that failed still
deletes. `ChangesAreAsked`: no key of the
session, of its neighbour or of the lock changes unless a call under way asked for it.
`PurgeIsComplete`: a purge that reports success left nothing but what a write that overlapped it
put. `DiscoveredHaveData`: discovery finds the sessions with data, and no others.

**Of the events.** `NothingLost`: every event was handed to the delivery queue once and in order
or waits in the window, and nothing waits when the queue is closed. `StreamsAreFaithful`: what a
stream wrote and buffers is every event since it subscribed, and a subsequence once it fell
behind. `SubscribedAsAsked`: each listener that was registered once at a time is registered as its
owner last asked; one that was registered again before it was off stays until destroy, which is
what the code makes of it (section 4). `PluginsAreDisposed`. Liveness: `NothingIsStuck` (window,
stream, close, and the reader that fell behind).

**Of the rest.** SendQueue: `SlotsAreUsed`, `StoppedIsQuiet`, `SendsInOrder`,
`GapBetweenSends`, `EveryoneIsAnswered` (callers and drains). Delivery: `OutboxContract`,
`ReceivedInOrder`, `ClosedIsFinal`, `WorkSettles` (batches and waiters).
Manager: `NoStraySession`, `DestroyedIsDown`, `RegisteredIsStored`, `LoadIsComplete`.
Each is stated in words where it is defined. A module's `TypeOK` is a conjunct of one of its
invariants (Session's stands alone) and also carries the bounds the code promises: reconnect
cap, concurrency, queue length, attempts, runners.

Every property has a mutant: a definition marked "Mutant of X" beside the `X` it would
replace, which is the code with a plausible bug, and makes TLC report that property.

**Fairness.** The event loop runs every ready continuation and every due timer, and nothing
else is owed: callers need not call, receivers and drivers need not answer.

* Session: strong fairness of resuming a lane, of firing a due reconnect timer and of the
  heartbeat. Strong, because a stretch that `Admits` keeps undisturbed disables the others for
  its duration, over and over, where the real event loop would only delay them. Resuming a lane
  does assume that storage, lock and driver calls settle, successfully or not. The code has
  no timeout on those.
* SendQueue: time passes, due sleeps and deadlines end, a worker's `finally` runs. The driver
  owes nothing: a call that never returns is answered by the deadline. With `timeoutMs` 0
  there is no deadline and these liveness properties fail, which is why `HasDeadline` is TRUE.
* Delivery: weak fairness of the pump's next step. A post ends because it has its own timeout.
* Client: weak fairness of the window's timer and of each stream's loop. The latter includes the
  end of a write: a reader that neither reads nor goes away holds its own loop at the `await`.
  The heartbeat has no fairness: a property that needed it would hide a lost wake-up.

Manager, AuthStore and RemoteLock are checked for safety only. Deadlock checking is off where
everything may legitimately be over: a destroyed session, client or manager, all jobs answered,
all batches settled.

## 4. What the code does differently from its documents

Three disagreements have a run of their own, whose counterexample is the evidence:

* **A stop while the socket opens** (`SessionStopDuringOpen`). A `stop()`, by itself or as the first
  part of `remove()` or `destroy()`, is called while `start()` still awaits the lock, the
  credentials or the driver. It finds no socket to close and releases the lock; `#openSocket`
  then adopts the socket without looking at the machine again. The run has two API calls and no
  heartbeat, so that no fence can be the cause.
* **Two creates of one id** (`ManagerDuplicateCreate`). Both pass the check before either
  registers.
* **One Redis for storage and lock** (`AuthStoreSharedRedis`). The default lock prefix lies
  inside the storage namespace, so a held lock is discovered, and loaded, as a session "lock".

Others were met while modelling. They can be seen by admitting the overlap named, by adding
the definition named to a run, or by stating the sentence quoted:

* *A start during the backoff.* The armed timer is not cleared; two sockets, one handle
  (`session.ts:160`). Overlap `backoff` of Session.
* *A refused logout.* The listener is detached before the phone is asked; when it refuses, the
  state stays `open` and nobody listens (`session.ts:212`). The Session run admits it (overlap
  `unlink`): no other property suffers, and `NotStranded` excepts that one state (`Deaf`).
* *A stale renew.* The answer to a renew arrives after a stop: `#held` is set to a token that
  was released and its heartbeat armed (`session.ts:554`; compare
  `test/unit/session-fencing.test.ts:303`, "stops the heartbeat, so a stopped session cannot
  renew a lock it gave up"). Overlap `renew`.
* *A stop while a fence ends the socket.* `session.ts:190-191` says the lock is "Released
  after the socket is down, so nothing of ours is still on the wire when another instance is
  told it may start." The fence has dropped the socket already, so the stop finds none to wait
  for. Overlap `end`; two overlapping stops do the same (`calls`).
* *A credential write during a purge.* The write lands after the clear and leaves credentials of
  an unlinked device (`session.ts:617` against `429-431`). Overlap `save` of Session; in
  AuthStore it is what `raced` excepts.
* *Two saves of the credentials.* The driver does not wait for one batch's handler before it
  delivers the next; each save renames a file of its own over the credentials
  (`storage/file.ts:112`), and the older one may come last. Both are confirmed, so with
  `Overlapping = TRUE` `AckedCredsSurvive` fails for the file adapter.
* *A delete that fails in part.* The file adapter deletes with a `Promise.all`
  (`storage/file.ts:169`), which rejects on the first unlink that fails while the others go on.
  A later set may write a key again before such a straggler removes it, and drop the rest: no key
  is left. `SomeKeySurvives` therefore counts a set that begins behind a straggler (`Straying`) as
  one that drops all; without that it fails with the file adapter and three Signal keys.
* *A purge that fails.* `#purgeAuth` keeps `#auth` and whatever the clear had not deleted, and the
  session is `logged_out` already (`session.ts:426-432`): `logout()` and `remove()` reject, a
  disconnect emits `session.error` (671-672), and a later start restores the credentials. A clear
  that fails midway may have deleted the metadata before anything else, so that a session which
  is registered, and still has credentials, is not found by `load` (`auth-state.ts:168-171`).
  `PurgeIsFinal`, `PurgeIsComplete` and `RegisteredIsStored` except it.
* *A lease that lapsed before a start.* `#acquireLock` trusts a token it still holds
  (`session.ts:483`). Until the heartbeat notices, a socket runs without a lease: the allowance
  that `SocketUnderLease` makes for a held token covers this too.
* *A pairing request that fails late.* It clears the flag whatever has happened since
  (`session.ts:350`): after a fresh QR code and a newer request, a third is let in, though "only
  one request may be pending, because a second silently invalidates the first" (322-323).
  Overlap `failure` of Pairing breaks `OneRequestPerQr`.
* *A pairing code that comes late.* Answered after its session opened, or was removed, it is
  announced with a full expiry and cached (`session.ts:358`, `live.ts:105`), and served for as
  long (`live.ts:109-111` excludes just that). Overlap `answer` breaks `ServedIsUnused`. After a
  fresh QR code it is announced in the same way, though that "invalidates any pairing code bound
  to the previous one" (`session.ts:630`).
* *An open during a stop.* While a stop waits for the send queue, the machine takes no
  `connected`: nothing tells the server that the QR code was used. Overlap `open` breaks
  `ServedIsUnused`. More simply, the code of a session that was stopped or lost its socket is
  served until it lapses, though `live.ts:49` says "The QR a caller could still scan".
* *The QR counter survives a restart.* An open and `reset()` clear it, `start` does not
  (`session.ts:632-641`): a session that its limit closed closes again on the first code after a
  start. Nothing in the repository says whether that is meant; Session and Pairing count so.
* *No plan, still connecting.* With reconnects disabled, `restart_required` moves the machine
  to `connecting` before the policy is asked (`session.ts:664`), and the policy has no plan
  (`reconnect.ts:71`). With `ReconnectEnabled = FALSE`, `NotStranded` and `NothingHangs` fail
  (`spec/states.yaml:11`).
* *The expiry Redis returns.* `renew` counts it from the moment the answer arrives
  (`adapters/redis/index.ts:236`), the server from when it ran the script. A holder overrates its
  lease by the answer's delay: `NeverSplitBrain` of RemoteLock fails, and the margin of
  `AtMostOneHolder` is that delay. The heartbeat looks at this expiry only while its renews fail.
* *Clocks.* The SQL and MongoDB locks compare with the caller's clock, so a process that is ahead
  takes a lease its holder still trusts, by as much as the clocks differ. That is the margin of
  `AtMostOneHolder` for these two, and it is tight.
* *The send deadline is not a concurrency limit.* `queue.ts:4-6` bounds what is in flight; a
  send that timed out frees its slot while its driver call goes on (`timeout.ts:35`), so the
  driver may have more than `concurrency` calls. `wire` shows it.
* *Late timers shorten the gap.* The gap is reserved from planned starts, not actual ones
  (`queue.ts:141-142`; `spec/config.yaml:54` "enforced gap between sends"). A timer late by d
  shortens the next gap by d, hence `MaxLate` in `GapBetweenSends`.
* *A queue that outlives its connection.* A job accepted before a disconnect is sent on the
  next connection if the slot comes free there, though `session.ts:266` says the queue "does
  not buffer across a disconnect": only `stop` closes it (`661-684`).
* *A post aborted by the grace.* It goes into its backoff after the deadline, and nothing wakes
  it (`delivery.ts:381`, `434`). `NoSleepAfterGrace` of Delivery states it and does not hold.
* *mapLimit keeps starting workers after a failure*, though `concurrency.ts:13-14` says "no
  new ones start": only the failing runner stops (line 27). A load that was rejected goes on
  creating sessions (`Take`).
* *A destroy during a create.* `destroy` takes its snapshot (`manager.ts:232`), the create
  registers and starts afterwards (`138`). Overlap `destroy` of Manager.
* *A remote unlink* leaves a registered session without metadata (`session.ts:426`,
  `auth-state.ts:169` against `manager.ts:220-222`), which is why `RegisteredIsStored` excepts
  sessions a purge of whose data was begun.
* *A destroy during the plugins' setup.* `dispose` walks the plugins while one of them is still
  being set up, so it comes up after its dispose and stays (`plugin.ts:69-101`), though
  `client.ts:334` says destroy "disposes every plugin". Overlap `destroyInSetup` of Client breaks
  `PluginsAreDisposed`.
* *A setup that failed is kept.* `#ready ??=` caches the rejected promise (`client.ts:187`): every
  later operation rejects with the same error, and `use` is refused.
* *A reader that fell behind* is not cut off at once: the loop first writes out its buffer, and
  the events that arrive and fit meanwhile (`server/index.ts:326-352`). It therefore can see a
  hole before it is disconnected; `StreamsAreFaithful` promises it order, not completeness, and
  `NothingIsStuck` that it is disconnected, given that events pause: they are finitely many here.
* *One listener, twice.* `on` and `once` of a listener that is registered already share its cached
  wrapper (`emitter.ts:112-115`): the second call registers the first one's kind, and the first
  `off`, or the first shot of a `once`, forgets the wrapper that the other registration would need
  to be taken off (63-70, 118). `on` and then `once` both fire for ever; `once` twice leaves one
  that does; `on`, `on`, `off` leaves one that no call removes. `SubscribedAsAsked` says that such
  a listener is reached by every event until destroy.
* *A stream opened after `close()`.* `GET /events` still subscribes (`server/index.ts:323`), and
  the stream it opens hears of nothing but its heartbeat.

**Overlaps and the session's properties.** Putting one of these into `Admits` of the Session run
breaks the following, and no others of its safety properties:

| Overlap | Broken |
|---|---|
| calls | ReleasedAfterSocket, NotStranded, SocketUnderLease, DownMeansDown, NoOrphanSocket |
| open | SocketUnderLease, DownMeansDown, ReleasedAfterSocket, NoOrphanSocket, PurgeIsFinal, NotStranded |
| backoff | DownMeansDown, NoOrphanSocket, SocketUnderLease, ReleasedAfterSocket, NotStranded |
| renew | SocketUnderLease |
| end | ReleasedAfterSocket |
| save | PurgeIsFinal |
| unlink | none, with the exception `NotStranded` makes |

`HeldIsGuarded` survives all of them, and is proved to.

## 5. The proofs

Every theorem is for all values of the constants, under the `ASSUME`s of the module it is about:
numbers are numbers, an absent thing is none of the present ones, and the jobs of a queue and
the ids of a manager are finitely many. What is assumed beyond that stands as `ASSUME ... PROVE`
in the theorem, and is always an overlap of section 4 (or a setting) that does break the
property. Each invariant was checked as an invariant of the run before it was proved.

**LockProofs**, for any sets of clients and tokens, any TTL and any clock bound. Of LeaseLock:

* `MemoryTypeCorrect`: `MemoryTypeOK`, whose third conjunct says that the entry's token was handed out and
  not given up. It is inductive as it stands, because only `Acquire` and `Renew` install a
  token, and `Renew` only the one that is there already.
* `MutualExclusion`: `AtMostOneBeliever` is not inductive, since nothing in it ties what two
  holders believe to the one entry. `MemoryInv` adds `EntryIsKnown` (the entry's expiry is the one
  its holder was told) and `UnexpiredIsEntry` (whoever was told an expiry that has not passed,
  and gave nothing up, is the entry). Two believers are then both the entry, hence equal. The
  proof also gives `BeliefIsBacked`: the provider would renew whoever believes.
* `LapsedStaysLost`, `LiveEntryIsSafe`: action properties, by cases on `MemoryNext` under `MemoryInv`.
* `ImplementsContract`: `Spec => LeaseContract` with the live entry's token for `holder`. An
  acquire is a `Grant`; a matching release, and the tick on which the lease lapses, are `Lose`;
  everything else stutters.

Of RemoteLock, for the three backends, any number of processes and calls and any bound of the
clock error:

* `HoldOrDoNotRun`: `AtMostOneHolder`, with the margins of section 4. What LeaseLock needs of
  an entry is needed here of a row that is behind what its client was told, as answers are on
  their way, late or lost. `RemoteInv` says, per token, that the row is its own and lasts as long
  as the client was told, or that this time has passed on the clock of every process that could
  displace it (`ToldOK`, `Covered`); and, per call in flight, the same of the expiry its answer
  will carry (`CallOK`). `Limit` is where the backends differ: the store's clock for Redis, the
  most advanced caller's for the others. `OneCall` (a token is in one call at a time) is what
  lets a step look at its own call only.
* `NobodyTakesALiveRow`: `LiveRowSurvives`, by cases on `Next` under `RemoteInv`.

**SessionProofs**, for any lanes, sockets, timers, tokens and causes, and *every* value of
`Admits`:

* `TypeCorrect`: types, and that attempts never exceed the cap.
* `HeartbeatCovers`: `HeldIsGuarded`. Inductive given `TypeOK`. The cases that matter are the
  ones that clear the heartbeat: each either forgets the token in the same step or leaves a
  renew under way, and each end of a renew re-arms it or gives the token up. It needs the lane
  kinds to be disjoint (`LaneAssumption`), as a renew runs on a heartbeat's lane only.

Its second half is for every `Admits` without the overlaps named:

| Theorem | Property | Excluded |
|---|---|---|
| `NoneLeaked` | `NoOrphanSocket` | calls, open, backoff |
| `DownIsDown` | `DownMeansDown` | calls, open, backoff |
| `LockGivenUpLast` | `ReleasedAfterSocket` | calls, open, backoff, end |
| `SocketsUnderLease` | `SocketUnderLease` | calls, open, backoff, renew |
| `NobodyStranded` | `NotStranded`, with reconnects enabled | calls, open, backoff |
| `PurgedForGood` | `PurgeIsFinal` | open, save |

This is the table of section 4 read the other way: there TLC shows that each exclusion is needed,
here that no other one is, for any number of lanes and any combination of the rest. None of these
properties is inductive, because each says where a session *is* and nothing of what its waiting
continuations will do to it. For the first five, `Safe` says that, in five parts: for each kind of
lane, what its await means for the machine and the socket (`LanesOK`: while a socket is opened
there is none, no timer is armed and the machine is connecting; from the moment a closing call has
taken the socket away none comes); one closing or opening call at a time (`Alone`); whom we listen
to (`Listening`); what is armed (`TimerOK`); and `NoOrphanSocket` itself. On top of it, `LeaseInv`
ties the token held to the provider's and to the renews in flight, and `Moves` says that whatever
is not settled has a socket that is heard, an open, a timer or a logout. The purge needs none of
this: `PurgeInv` says that, logged out, either a purge is on its way or there is nothing left and
no write to bring it back (or the last purge threw), and `OpensConnecting` that no open gets in
between. The transition table is used through one lemma (`Machine`): each trigger has one target.

**PairingProofs**, for any requests, QR limit, timeout and bounds:

* `TypeCorrect`, whatever `Admits`.
* `OneRequest`: `OneRequestPerQr` when `failure` is not admitted. `OneInv` adds that codes are
  numbered below the current one and that, while a scan is awaited, calls which a removal left
  behind belong to earlier codes: those are the ones whose late answer sets the flag of an
  object nobody has.
* `ServedUnused`: `ServedIsUnused` when neither `answer` nor `open` is. It takes that a socket
  which has not opened belongs to a session the table lets open, or to one being stopped
  (`Awaited`), so that no opening goes unnoticed by the server.

**SendQueueProofs**, for any jobs, drains, concurrency, list length, delay and lateness:

* `EverySlotUsed`: `SlotsAreUsed`. `SlotInv` says that the list holds exactly the jobs that
  wait, each once, and that the counter counts the jobs in a slot; counting is by the library's
  facts about finite sets.
* `StopLeavesQuiet`: `StoppedIsQuiet`, since a closed queue starts nothing (`QuietInv`).
* `SendsAreSpaced`: `GapBetweenSends`. It is about actual starts, the code reserves planned
  ones: `GapInv` says that the reserved starts are a delay apart from each other and, less the
  lateness, from the last send.
* `SendsAreOrdered`: `SendsInOrder`, if timers are less late than the delay is long, or there is
  no delay (`Precise`). Otherwise two timers may both be due and fire in either order.
  `OrderInv`: the list is in the order of acceptance, after everything in a slot, and reserved
  starts are in that order too.

**DeliveryProofs**, for any batches, attempts, list length, grace and waiters:

* `ImplementsOutbox`: `OutboxContract`. `DeliveryInv` says that the queue is the end of the
  order of acceptance and holds what is pending (`Window`), what each attempt count means
  (`Schedule`), and that the pump runs exactly while something is queued (`PumpInv`). A run of
  the pump that gives up several batches, at a shutdown, is one step of the outbox.
* `ArrivesInOrder`: `ReceivedInOrder`, an action property.
* `ClosingIsFinal`: `ClosedIsFinal`. A closing queue accepts nothing, so a pump that was off
  when `close` resolved stays off (`CloseInv`).

**ManagerProofs**, for any objects and calls, finitely many ids and any width of the fan-out:

* `TypeCorrect` and `LoadsAreComplete` (`LoadIsComplete`), whatever `Admits`. `Typed` is more
  than types: each await has the object it will use (`CallShape`), the runners that are left are
  at least those creating, and what a load listed is still to do, being made or made, unless a
  worker failed (`FanOK`).
* `StoredFromTheStart`: `RegisteredIsStored` when `sameId` is not admitted. `ApartInv`: an id
  has one call at most and is not among those a load will take (`Apart`), an id being created is
  not registered (`NotYet`), and whatever a call will touch, or runs, is the object registered,
  or a destroyed manager has forgotten it for good (`Reached`).
* `NoneStrays`, `DestroyStopsAll`: `NoStraySession` and `DestroyedIsDown` when `destroy` is not
  admitted either. `QuietInv` adds that once destroy is called nothing else awaits, and what
  runs is in its snapshot.

**AuthStoreProofs**, for each adapter, any Signal keys, any number of calls and any size of the
chunks. Nothing is assumed of the names but what the program sees to: session ids differ and have
no `:` (`config.ts:94`), Signal keys have different names with their type in front
(`auth/keys.ts`), and the lock's entry in Redis is not one of the session's own keys. With the
default lock prefix the last is false of a session called `lock`, by section 4's third
disagreement, so that session is excluded.

* `RoundTrip`: decoding undoes the encoding, for any name and any set of replaced characters with
  `%` in it. The decoder is a recursive function and the encoder concatenates pieces, and the
  library's induction theorems cannot be used here; both are followed by the least element of a
  set of naturals (`Least`, `StepByStep`): every piece stands where the pieces before it end
  (`PiecesStand`), and where one begins the decoder finds its character and goes on behind it
  (`DecodePiece`).
* `NamesTold`: the session's prefix finds the session's keys and no others, its Signal keys are
  told from ours, and each key has a place to itself (`WellNamed`), in every adapter. Neither an
  id nor an encoded key has a `:`, so a full key is taken apart where it was put together
  (`SplitIs`); with `RoundTrip` that gives back id and key (`KeptIs`), and no two keys share a
  row, a file or a full key (`PlaceIs`).
* `DiscoveryIsTrue`: `DiscoveredHaveData`, provided that the namespace's prefix does not find the
  lock's entry in Redis. It finds it by default: `AuthStoreSharedRedis` is that setting.
* `TypeCorrect`: `Typed` says what each kind of call may put, drop and have left to do (`Shape`,
  `Left`), and thereby that nothing stored is ever cut off.
* `AskedFor`: `ChangesAreAsked`, by cases on what a step does with the data. These cases
  (`StepKinds`) forget how the adapters differ; every later proof is by them.
* `Purged`: `PurgeIsComplete`. `PurgeInv`: whatever is stored is among what the purge has still to
  do, or another call was under way that may put it.
* `CredsSurvive`: `AckedCredsSurvive` unless saves overlap (`Overlapping`, the setting of section
  4). `AckInv`: one save at most has a caller waiting, a save that is not through has a version no
  older than the confirmed one, and one that is through is stored, or a purge overlapped it.
* `KeysSurvive`: `SomeKeySurvives`, in every adapter. `KeyInv`: one set at a time has a caller
  waiting, what it has put is there, and before it deletes anything that is all it had to put; a
  set that fails in the file adapter and goes on deleting is `Straying`, so no later one owes a key.

**ClientProofs**, for any plugins, listeners and streams, any batch and buffer sizes and any
number of events. The event bus and the window are written with folds and `FlattenSeq`. Here too
the induction is by least elements (`Least`, `StepByStep`), which gives what a fold of `Fired`
computes handler by handler (`FoldFired`) and that cutting a window into chunks and joining them
again is the identity (`FlattenChunks`). `ClientInv` has four parts, each kept by every action:

* `LifeInv`, how setup, sessions, server and destroy exclude each other; with `DisposalInv`, that
  a plugin that is up is one dispose will come to, it gives `DestroyDisposesAll`
  (`PluginsAreDisposed`, when `destroyInSetup` is not admitted).
* `ForwarderInv`: what was posted, joined, followed by the window, is 1, 2, ..., `n`
  (`ForwarderLosesNothing`, for `NothingLost`).
* `BusInv`: outside an emission the bus has exactly one entry for each listener that asked once at
  a time, of the kind it asked for, and wrappers for no others; one that shared its wrapper has an
  entry, and two as long as the wrapper is cached, so that taking one off leaves one
  (`ListenersAreReached`, for `SubscribedAsAsked`). An emission is a fold over a copied list that
  removes its one-shot entries on the way: by induction over the list, what is still to come is
  still there.
* `StreamInv`: a stream's frames grow, and while it keeps up they are as many as the events since
  it subscribed, hence all of them (`StreamsSendInOrder`, for `StreamsAreFaithful`).

**Not proved.** Liveness (`NothingHangs`, `EveryoneIsAnswered`, `WorkSettles`, `NothingIsStuck`)
needs fairness and ENABLED, which are beyond the prover.

## 6. What is not modelled

* *Pure conversions*: jid, media, codec, envelope, signature, QR rendering, backoff arithmetic,
  configuration, errors, driver loading. They hold no state; a model would repeat them. The
  names of stored data are the exception, because properties depend on them (Keyspace).
* *Of Session*: `lock.enabled = false` (then there is no token at all), the events it emits
  but for QR and pairing codes (Client has an abstract source).
* *Of the manager and client*: storage overrides are one storage; `send`, `meta` and the rest
  that only delegates.
* *Of the adapters*: creating tables and indexes, `inspect`, connection set-up, and the escaping
  of LIKE, MATCH and regular expressions (the prefixes the program asks for contain no
  character that it would change).
* *Of late work*: a call that threw is over, except for the file adapter's unlinks. Node's `rm`, which
  a clear awaits, may go on unlinking after it has rejected; a statement sent to a lock's database
  may run after its call was given up (RemoteLock lets it run before, or not at all).
* *Of the bus*: the `session.error` a failing listener causes; `removeAllListeners` of one event,
  which nothing in the program calls.
* *Of the server*: routing, tokens, metrics.

## 7. The plan

Done, in this order: SessionTable, Lease, LeaseLock with its proofs, Session with its proofs,
SendQueue, Outbox and Delivery, Manager with its fan-out, RemoteLock, Keyspace and AuthStore,
EventBus, Forwarder, Live and Client with their proofs, Pairing.

Next: a session with `lock.enabled = false`, as a parameter of Session.

## 8. Running it

In this directory: `tlc -workers 2 -config Session.cfg MCSession` for a run (each `.cfg` is
named after its run; `PROJECT.json` gives the module), `tlapm LockProofs.tla` for a proof
module. The longest runs take three minutes on two workers.
