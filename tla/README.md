# A TLA+ verification of uns-kit

uns-kit connects services to a Unified Namespace over MQTT. A service process
(`UnsProxyProcess`) owns MQTT proxies; each proxy publishes output and consumes
input through a worker thread. What the runtime promises is about *custody*: an
admitted publication is delivered or visibly retained, an input is processed by
exactly one process although versions of the process replace each other live,
retained files survive an interrupted move, and a process that says it has
stopped cleanly has nothing left.

This directory has TLA+ modules for that core, TLC configurations that check
them on small instances, and TLAPS proofs. Paths below are relative to
`src/packages/uns-core/src/` unless they start with `packages/` or `docs/`.

## 1. Inventory of the system

| part | state it keeps | operations | hard behaviour | right when |
|---|---|---|---|---|
| Persistent output: `uns-mqtt/publish-queue.ts`, `publish-queue-store.ts` | RAM queue, SQLite rows, running delivery, retry timer, callers' promises | admit, deliver, retry, spill, drain, close, reopen | lost acknowledgements, storage that fails half-way, sudden death, admissions while a delivery is awaited | every admitted message is delivered at least once and in order, or is still held; nobody is told "drained" too early |
| RAM output: `uns-mqtt-proxy.ts` (main thread), `mqtt-worker.ts`, `ThrottledPublisher` of `throttled-queue.ts` | admissions awaiting the worker, tracked publications, capacity waiters and reservations, drain waiters, lifecycle; in the worker the queue and its in-flight sends | publish, flush, seal, stop | two threads exchanging messages, backpressure, worker death | the bound holds, no caller hangs, `flush()` and `stop()` mean what they say |
| MQTT transport: `mqtt-proxy.ts`, `subscription-readiness.ts` | the current client and its connection, filter revisions, pending acknowledgements, the attempt of an outbox | start, stop, subscribe, unsubscribe, pause, `publishConfirmed` | late, reordered and refused acknowledgements, an expired attempt that restarts a client somebody is stopping | ready means the broker holds the latest filters; one client at a time |
| Managed input: `ThrottledSubscriber`, `runtime/input-queue-boundary.ts` | queue, in-flight callback, recent fingerprints, prepared resume point | deliver, passivate, prepare, activate, drain | a cut through a stream seen by two processes from different starting points | no input handled twice or skipped |
| Live handover: `uns/handover-manager.ts`, `runtime/*handover-state.ts`, `handover-shutdown.ts` | peer and migration identity, prepared state and digest, timers, active flag | request, review, freeze, export, fin, import, activate, ack, exit | MQTT messages lost, repeated, reordered; any await may fail; either process may die | at most one owner; the successor has all the state; a clean exit means somebody took over |
| Ownership at start-up: `uns/handover-manager.ts`, `uns/status-monitor.ts` | start-up timer, instance mode, heartbeats and their retained copy | promote, force, wait, hand over by protocol 1 | timers against heartbeats, an activation that is awaited | two processes do not both own the input; a waiting one takes over from a silent one |
| Drain and shutdown: `runtime/mqtt-drain.ts`, `uns/uns-proxy-process.ts` | the promises of the current drain and shutdown, seals, stop results | `drainForMigration`, `shutdown`, signals, cooperative stop | time-outs whose work goes on, retries, partial failure | a receipt is true; a failed attempt loses nothing |
| Retained stores: `runtime/retained-store*` | files, a recorded move plan, the restore marker and staging, leases | adopt, return, verified copy, restore, own | interruption between any two changes of the disk, owners started meanwhile | nothing is lost, what is returned is current, an owner never has part of a store |
| API: `packages/uns-api/src` | routes, Swagger, announced registries, accepted requests, the lease of a registered route, cached operator keys | register, unregister, announce, drain, renew, verify | deadline, stop and late answer race; lists held back until the process owns its service | what is announced is served; no route is ready without a valid lease |
| gRPC gateway: `uns-grpc/uns-gateway-server.ts` | lazily made proxies, their active flags, streams | publish, subscribe, ready, API stream | concurrent first calls, a process that becomes active once | what it accepted is sent |
| Python package: `packages/uns-py/src/uns_kit` | asyncio publish queue, counters, workers | publish, flush, stop | tasks interleaving at awaits | as the RAM output |
| Process groups: `runtime/process-group-*.ts`, `configuration-group-*.ts` | policy file, reviewed fingerprints | review, swap the policy, inspect | two writers, crash between write and rename | the policy is one of the reviewed ones |
| Cron, database, configuration, logger, code generators, CLI | little or none | – | – | conversions and plumbing |
| Assistant workflow: `packages/uns-assistant-workflow/src` | tool budget, result cache | evaluate, run tools | – | reports follow from the recorded traces |

How they interact. The application calls `publishMqttMessage()` on a proxy and
gets its input by a callback (or an awaited handler for `managedInput`). The
proxy and its worker share nothing and exchange messages, in order in each
direction. The worker owns the transport, a `ThrottledSubscriber`, and either a
`ThrottledPublisher` or a `MqttPublishQueue`. `HandoverManager` drives the
subscribers of all proxies of a process and talks to the other version's manager
by MQTT messages; `UnsProxyProcess` drives drain and shutdown, called by
signals, the controller, or the application; API proxies take part in both as
lifecycle participants. `PROJECT.json` lists every component with its status,
and under `hazards` each place where this code can go wrong in ways a test would
hardly reach.

## 2. Modules

| module | models | state and actions in terms of the code |
|---|---|---|
| `PublishQueue` | `MqttPublishQueue`, its store, `publishConfirmed` | `memory`, `disk`, `seq` are the RAM array, the committed rows and the sequence counter; `processing`, `retryTimer`, `active`, `closed`, `blocked` are the fields of those names; `cur`, `fromMemory`, `attempt` the local variables of `run()` across its await; one action per method and per continuation of an await |
| `Outbox` | abstract FIFO outbox | admit, deliver at least once, retire, lose; `PublishQueue` maps to it by `PendingQueue`, what is pending on disk and in RAM in the order of `seq` |
| `MCPublishQueue` | TLC instance | messages are used in the order of their ids |
| `MqttOutput`, `MCMqttOutput` | publisher half of `UnsMqttProxy`, worker, `ThrottledPublisher` | `toWorker`/`toMain` are the two message channels; `pending`, `completions`, `waiters`, `reservations`, `granted` the fields of the proxy; an action is one task of one thread |
| `MqttTransport` | `MqttProxy` with `SubscriptionReadiness` | `client` are the mqtt.js clients `start()` creates one after the other, `current` the one the proxy refers to; `readiness`, `sequence` the revisions of filters; `toBroker`, `acks`, `session` the packets and the broker; `attempt`, `closing`, `pause` the users (the outbox, the worker's `closePublisher`, `pauseSubscriptions`) across their awaits |
| `InputBoundary` | `uniqueInputBoundary()` | `Boundary(tail, buffered)`, the number of buffered packets to drop, or `Refused` |
| `InputCutover` | one stream seen by an owner and a later subscriber | the boundary between them at every point |
| `Handover`, `MCHandover` | `HandoverManager` (protocol 2) with the subscribers of its proxies | `stage`, `review`, `peer`, `state` for the source, `target`, `expected`, `tstate` for the successor; `net` is the set of control messages, which stay in it: a message may be handled again or late |
| `Ownership` | `HandoverManager` without a reviewed state, `StatusMonitor` | `timer` and `delay` are `activeTimeout` and the delayed request, `beat` the interval of the heartbeats, `retained` the broker's copy with its expiry; `Tick` is five seconds |
| `Gateway` | the MQTT side of `UnsGatewayServer` | `proxyOf`, `flag` are its fields; `created`, `promotion`, `promoted` the proxies of the process and the timer that makes them active once |
| `MigrationDrain` | `drainForMigration()`, `shutdown()`, `drainMqttForMigration()` | an attempt is a slot with its `stage`; `drainPromise`, `shutdown` are the two promises, `drains` the option the second was made with; `where` follows a piece of work to what became of it |
| `MCProcess` | `MqttTransport`, `Ownership`, `MigrationDrain` in one run | `part` |
| `RetainedMove` | `applyRetainedStoreMove()`, `applyRetainedCopy()`, the job and the plans | a file is its inode and version at `legacy`, `stable`, `saved` or in a stage; `job` is where the loop over resources stands; all else is read from the disk |
| `StoreRestore` | `restoreRetained()`, `rootLease()`, `runtimeLease()` | `marker`, `scratch`, `stage`, `staged`, `partFile`, `store` are what is on the disk; `owner` is an instance between `available()`, the lock and its end |
| `RouteLease` | `RuntimeRouteRegistration` | times are what is left of them; `request` is the pending renewal, `granted` the Controller's side |
| `OperatorKeys` | `OperatorJwtVerifier` | `keys`, `fresh`, `cool`, `load`, `transport` are `keys`, `expires`, `retryAt`, `pending`, `transportActive` |
| `ApiRequests` | request admission and drain of `App`, the ownership gate | `accepted`, `requestFailed` are its fields |
| `ApiRoutes` | registration of endpoints, `UnsProxy`'s registries, the plugin's held-back lists | `routes`, `documented`, `announced`, `deferred` are the router, Swagger, the maps and `deferredMetadata`; `heard` is what the Controller has |
| `PyPublishQueue` | publish queue of the Python `UnsMqttProxy` | `enqueues`, `completions` are the two counters, `lockq` the tasks that want the condition's lock |
| `MCRuntime` | `InputCutover`, `Gateway` and the seven modules from `RetainedMove` to `PyPublishQueue` in one run | `part` |
| `SequenceLemmas`, `PublishQueueProofs`, `MqttOutputProofs`, `HandoverProofs`, `ProcessProofs`, `MigrationDrainProofs`, `StoreRestoreProofs`, `ApiProofs` | lemmas and theorems | section 4 |

`Handover` and `InputCutover` extend `InputBoundary`; `PublishQueue`
instantiates `Outbox`. `MigrationDrain` is above `PublishQueue` and `MqttOutput`:
it knows an output as the set of work it holds and uses what those modules
establish (`DrainMeansDelivered`, `DrainMeansPublished`, `NothingAfterFence`,
`CloseSettles`, `StopSettlesAll`), and what they do not: a send of a RAM output
that fails is settled for it (`SendFails`). `Handover` uses them in the same way for the
flush before the state is exported. `Gateway` uses what `Ownership` shows of a
process started with `force` and without peers: it becomes active once, when its
timer fires.

An action is a piece of code between two awaits (JavaScript and asyncio run it
without interruption), or several when nothing in between can be observed; the
continuation of an await is an action of its own, so that everything else may
happen in between. For the retained stores, which work synchronously, an action
is the code between two changes of the disk. Guards are the early returns and
conditions of the handler. Definitions marked `Fault:` are plausible mistakes in
the definition below them; no specification uses them, `PROJECT.json` says
which property each one breaks.

What is abstracted: message contents, topics and packet building (a message is a
model value); byte limits, free space and the failure of a SQLite call (one
nondeterministic refusal, bounded by `MaxStorageFaults`); times where their
lengths do not matter (a timer may fire whenever it is armed; `Ownership`,
`RouteLease` and `OperatorKeys` count time); hashes (an input is its
fingerprint, a file its inode and version, a state the record of what it
contains). The record bound of the outbox is exact.

## 3. What the runs check

Modules without common state are checked in one run: a variable `part` says which
of them takes the steps of a behaviour, and the others stay in one initial state,
so that the states of the parts add up. A property of a part is not weakened by
this: every behaviour of the part's own specification is one of the run.

- `outbox`: three messages with RAM for two and room for two in all. Nothing
  admitted is lost, a drain that resolves means delivered, only a sudden death
  loses anything, and the queue implements `Outbox` (order included). Under
  fairness every admitted message is delivered if the queue stays open, and
  `close()` ends. It uses buffered mode, in which any record may also go straight
  to disk, so that its behaviours include those of durable mode; the theorems hold
  in both.
- `output`: three publications, one of two parts, compete for room for two and two
  worker slots. The bound holds; callers are served in order; a `flush()` that
  resolves means that no send is outstanding, and no call that had handed over, or
  stood in line with, at least one part (section 5 on calls that had not, and on
  failed sends); nothing is admitted after the seal; every publish call ends unless the output was sealed;
  `stop()` settles everything.
- `handover`: one owner, one successor, two inputs (one with a managed handler,
  one without). At most one process consumes; inputs are handled once and in
  order; the exported state has all accepted work; a clean exit means the
  successor has taken over.
- `handover_live`: an owner that gave up its input is succeeded; a failed takeover
  ends passive.
- `process`. Transport: a filter that is ready is held by the broker in the
  latest form asked for, at most one client is connected, and a proxy whose
  connections stop breaking becomes connected with its subscriptions answered.
  Ownership: unless two processes were passive at the same time without a
  living peer to release to, or a forced one was being activated (`Contention`), one
  process owns the service and its input; a passive process does not promote itself over one that
  has been active for longer than a heartbeat interval; a waiting process takes
  over from a silent owner. Drain, with two proxies (RAM with managed input,
  persistent without), two overlapping attempts, a direct `shutdown()` that drains or
  not, and one failure: with a receipt everything the process accepted has been
  published, except sends of a RAM output that failed before (`drain_failed_send`) and
  RAM output that a `shutdown({drain:false})` of the application has dropped; output
  that waits to be sent is dropped, or left on disk, only by a shutdown that reports
  it or was told not to drain; repeating the drain works once the destination is
  back, as long as the closing stage was not reached.
- `runtime`. Retained moves: every version of a resource that was current or is
  unreviewed is still somewhere; what a return delivers is the current version;
  repeating an interrupted job finishes it. Restore: complete means whole, and an
  owner never has part of a store. Route lease: ready means granted. Operator
  keys: trust in a revoked key is bounded, and every verification ends although a
  transport never does. Requests: a drain that succeeded left no handler at work, of
  requests that were admitted through the ownership gate; an application without
  the gate counts none (`packages/uns-api/src/app.ts:115`), and its drain resolves at
  once.
  Routes: while the process owns its service the Controller ends up with the
  current list of every registry that is not empty, and every endpoint in it is
  served. Python queue: `flush()` that succeeds means that all earlier
  publications are settled. Gateway: proxies that exist when the process becomes
  active serve whoever uses them, also those a concurrent call replaced. Cut-over of
  one input: an accepted boundary never replays a processed input, and it is exact
  when the successor has seen the whole compared tail.

Disagreements between code and documentation (`findings` of `PROJECT.json`), each
shown by a run in which TLC finds the documented property violated:

- `cutover_skips`: an empty processed tail is accepted as boundary 0. It is meant
  for proxies without input, but a source that has subscribed and processed
  nothing yet releases its input without any overlap, and a packet published
  before the successor subscribed is handled by nobody. (With identical packets
  on both sides of the cut a unique match can also be the wrong occurrence.)
- `drain_repeat`: `shutdownPromise` is kept when it rejects, and proxies it has
  terminated never answer again: after a failure in the closing stage the stop
  cannot be repeated, which `docs/mqtt-migration-drain.md` promises.
- `drain_failed_send`: during an outage a RAM output gives up each send after five
  seconds (`mqtt-proxy.ts:306`); the publication is forgotten with an `error` event,
  which counts as settled. The flush of an attempt ends, and the drain returns a
  receipt, though `docs/mqtt-migration-drain.md` says that publisher failures still block.
- `transport_pause`: an expired publish attempt restarts the client, whose first
  connect subscribes again to topics whose pause was acknowledged.
- `restore_race`: an owner looks at the restore marker before it takes the lease;
  a restore that begins and stops in between leaves it running on an incomplete
  root, though the documentation says that an incomplete restore blocks startup.
- `gateway_late`: a proxy that the gateway creates after its process became active
  stays passive, and what is published through it is accepted and never sent; the
  Python example that republishes what it receives is in that situation.

### Bounds

Every bound is a CONSTANT. `outbox`: two records of capacity and three messages
are the least with which something is refused, something overflows to disk and
something is admitted behind it; one storage fault at any call and one sudden
death at any point cover every single-fault interleaving, also during a retry.
`output`: with room for two, three publications of which one has two parts are the
least in which the waiters' queue holds two; two parts make a call continue after its
first admission, and two slots let the loop of the worker sleep between two starts.
The last publication meets neither a stop nor a fault (`Bounded`); the first two,
of three parts, do. `handover`:
two inputs suffice for one to be frozen or activated while the other is not; more
packets per stream add only longer copies of these cuts, which the cut-over part
of `runtime` covers: tails of three and streams of seven cover windows that are shorter and
longer than the tail on either side, and five fingerprints let some packets repeat
and others not. Fingerprints are only compared with each other, so the first
packet is 1, the next new one 2 and so on (`FirstSeenInOrder`). No process crashes in
`handover`: the theorems hold with any number of crashes. `handover_live` has one. A
control message stays in `net`, so that under fair delivery a fin that was not lost
arrives in the end; the code repeats it 30 times.

`process`: three clients (the first, the one a time-out starts, one more), two
filters of which one is subscribed on connect, one lost connection and one refused
filter; two processes in every combination of the three modes, one crash, one lost
message and one failed activation (the guards of the handlers against messages of a
third process are in the model and refuse nothing here); in the drain an
attempt that expired and its retry are the only two that can interact, since an
attempt's work ends before its slot is reused, and one piece of work moves through
every place. `runtime`: two resources, one
required and one optional, with three changes, three interruptions and one change
by a binary started by hand; two stores of two files and two interrupted restores;
a lease of seven ticks renewed every three with a time-out of two, so that two
renewals fit a lease; two keys and two callers; three requests; four registrations
(two methods of a path, the same path in two registries, a catch-all) and three
calls; two publications, two workers, a queue of one, one task that flushes; two
publications that race for one output proxy of the gateway, a stream and a ready call
for its input proxy. The two publications of Python begin in a fixed order, and idle workers take messages
in a fixed order (`PyOrdered`): they are interchangeable.

`CHECK_DEADLOCK FALSE` is set where the modelled part does end: both processes of
a handover have exited or all inputs are used, the process has stopped, the stream,
the interruptions or the calls have reached their bound.

### Fairness

Weak fairness for continuations of awaits, message handlers and armed timers: the
event loop runs every ready task, and both channels of a worker are FIFO. Strong
fairness in `outbox` for the broker's receipt and its acknowledgement: a broker
that always fails is not assumed away elsewhere, but then nothing could be
delivered; each retry is a new attempt, so acceptance has to recur, not to last.
`MigrationDrain` is fair to each attempt as a whole (it makes progress, or its timer
fires), to closing, to delivery while the destination stays reachable, and to
whoever asks for the drain (`hosted`), who asks again after a blocked attempt.
`MqttTransport` is fair to the client
library as a whole (it connects and the broker answers while a connection is up).
`RetainedMove` is fair to the host, which repeats an interrupted job, and
`ApiRoutes` to the minute timer and the flush. In `OperatorKeys` nothing is asked
of the Controller: only timers and time are fair, and verification must end all
the same. No fairness is given to the environment: admissions, crashes, losses,
failures, activation, closing. Properties that need a stable environment say so
in their premises (`<>[]destination`, "left open", "not sealed").

## 4. What is proved

All theorems hold for every value of the constants that satisfies the named
assumption of the module.

`PublishQueueProofs` (from `PublishQueueAssumption`; both storage modes):

- `TypeCorrect`: `TypeOK` is invariant. Each step is shown to preserve it, with
  lemmas for the helpers (`LoopTypes`, `SpillFailsTypes`, `SettleTypes`, ...).
- `AdmissionsSurvive`: no admission is lost. `NoAdmissionLost` alone is not
  inductive: when `run()` resumes after its await it removes the record it had
  sent, so one must know that what it removes is at the broker. `IndInv` adds
  that: an attempt the broker has received is in `broker` (`ReachedIsReceived`); a
  record sent from RAM is still at the head of RAM (`HeadInFlight`), which holds
  because only the loop's own failure path or a close can move RAM records, and
  the close waits for a loop whose transport is stopped (`TransportStopped`); and
  RAM is empty in durable mode or after a close (`OnDiskOnly`).
- `OnlySuddenDeathLoses`: the action property that only a sudden death of an open
  buffered queue removes admitted work from custody.
- `NoLostWakeup`: an active healthy queue with pending work always has its loop
  running or scheduled or its retry timer armed. `EventualDelivery` is its
  model-checked consequence under fairness.
- `DrainDelivers`: an acknowledged drain means that the broker has received all
  that was admitted and not lost from RAM.
- `RefinesOutbox`: every behaviour of the queue is one of `Outbox`, in both modes;
  so the broker receives messages in the order of admission, each before it is
  removed, with repetitions of the last one only. `OrderInv` adds to `IndInv` what
  order needs: RAM is sorted by `seq` and shares no record with the disk
  (`MemoryHolds`); no number is above the counter, which a restart takes from the
  table (`NumbersHold`); a live attempt is for the first of all that is pending
  (`FirstInFlight`), although records are admitted and spilled during it; and what
  the broker has received last is that record, until it is acknowledged
  (`LastReceived`). `QueueIsListing` shows that the mapping, stated with ranks, is
  the sorted list of what is pending; `ListAppend`, `ListTail` and `ListPart` say what an
  admission, a retirement and a death do to that list.

`MqttOutputProofs` (from `MqttOutputAssumption`; any number of callers, parts,
slots, waiters, with and without backpressure):

- `FenceHolds`: nothing is admitted after the seal. It rests on `CallInv`: a call
  stands in the line of waiters once, has its part pending, or is between two
  parts, never two of these; and there are as many reservations as promises.
- `LimitHolds`: the configured bound is never exceeded. `MainInv` adds the count:
  what is pending and what has been promised to waiters (`granted`) fit the bound
  together, a waiter exists only while nothing is free (`CapacityHolds`); and what
  the worker holds in its channel, its queue and in flight, with the answers on
  their way, is pending, each once (`WorkHolds`), so that the worker's own limit
  never refuses a message.
- `DrainHolds`: a `flush()` resolves only when no send is outstanding and every call
  that had handed over, or stood in line with, at least one part has ended. That
  such a call cannot stand outside what the flush sees is `OpenHolds`: it waits, has
  its part pending, or has the part before it completed and not yet forgotten. A call
  that still builds its first packet does stand outside (section 5).
- `OrderKept`: messages are sent in the order of the calls. `Handed` is what is
  sent, queued and on the way to the worker as one sequence; a turn of the worker
  moves a message within it (`TurnKeepsHanded`), and the line of waiters continues
  it in the order of the calls (`OrderHolds`).

`HandoverProofs`, on `InputCutover` (from `InputCutoverAssumption`): `CutNeverReplays` and
`SharedTailCutsExactly`, for streams of any length, any tail size and whatever
packets repeat. The only invariant needed is that `processed` and `joined` lie in
the stream; the work is about `Boundary`. A marker of `n` packets is accepted if it
occurs once in the tail and once in the buffer. Seen in the stream, its occurrence
at the end of the tail either lies within the buffer, and then it is the only
one there, so that the cut is exact; or it does not fit between the subscription
and the source's position, and then every occurrence in the buffer ends later, so
that nothing is replayed, though something may be skipped (`cutover_skips`).

`HandoverProofs`, on `Handover` (from `HandoverAssumption`, `NoneIsNoState` and the
assumptions of `InputBoundary`; for any number of processes, inputs, packets, requests,
losses, failures and crashes, though TLC sees two processes and two inputs):

- `OneConsumer` and `CleanEndIsTaken`. The inductive invariant `Control` says what
  each side may rely on: an owner has no peer (`OwnerHolds`); inputs are shut
  one after the other and stay shut once the state is taken (`FreezeHolds`); a
  successor has the state of the source it expects, and of the inputs it has not
  activated none is open (`SuccessorHolds`); a source ends after its peer's
  acceptance (`ExitHolds`); a message in `net` was true when it was sent and is
  still, so that it may come late or twice (`NetHolds`); and at any moment one
  process has the inputs, its own or as the only one that may take them
  (`TokenHolds`). `SingleConsumer` follows from the last: who consumes has not shut.
- `StateComplete`: the calculation state of the owner accounts for every packet
  handled so far. `StatesHold` follows a packet from the input into the state of
  the owner, into the exported state and into that of the successor. `Queues`
  says that a queue is a gapless part of the stream that ends where the
  subscription stands.
- `EveryPacketOnce`: if the packets of a stream have distinct fingerprints
  (`DistinctPackets`, a hypothesis of this theorem only), each stream is handled
  in order, nothing twice and nothing skipped. `Streams` says that the tail and the exported cursor end with the
  last packet handled, and that an open input, or one that is prepared with its
  boundary, goes on with the next. The step that matters is the boundary: with
  distinct packets a marker that is found can only be the packets themselves, so
  that the boundary stands exactly behind the last one handled
  (`BoundaryAtEnd`). Without the hypothesis, and without the premise of
  `HandledOnceInOrder` that the tail is not empty, `cutover_skips` shows the
  opposite.

`ProcessProofs`, on `MqttTransport` (from its assumptions; any number of clients,
filters, lost connections and refusals):

- `TransportTypeCorrect`, and `OneClientAtATime` (with `ClientsHold`: only the
  current client is not ended, and none is made while the one before it ends).
- `ReadinessHolds`: a filter that is ready is held by the broker in the latest form
  asked for. `SyncHolds` relates, while the proxy knows of its connection, the
  packets to the broker, their answers and what readiness waits for: packets are
  numbered upwards, a filter's revision is the last packet that names it, and an
  acknowledged filter has no packet left on its way. `LinkHolds` says that between
  two connections nothing is on its way and what the next one will subscribe to
  contains all that the application wants.

`ProcessProofs`, on `Ownership` (from `OwnershipAssumption`; any number of processes in any
modes, of crashes, lost messages, failed activations and activations at a time):

- `OneOwner`: without `Contention` at most one process is active and at most one has its
  input open. `OwnershipInvariant` is what it rests on. `Presence` holds always: a process
  that is not up has no timer, no peer and no input, nothing is sent to it, and before it
  sends its request nobody knows of it. `Agreed` holds until processes contend: one
  process has the input or is about to (`OneHolds`); who is active has no activation,
  peer or timer left (`ActiveHolds`); a source that still drains releases to the only
  candidate, whose timer is cleared (`SourceReleases`); a candidate is activated once,
  by its timer (`CandidateWaits`); a request finds its owner, or its answer is given
  already, and a fin finds nobody else with the input (`GivenOnce`). None of these is
  inductive without the ages of timers and heartbeats: a candidate whose timer runs has
  heard every active process within its interval, or a heartbeat is on its way
  (`Fresh`), so that no timer fires while an owner lives. `contended` is a history
  variable; the proof carries `contended \/ (~Contention /\ Agreed)`.
- `PromotionIsHeard`, for two processes (`AtMostTwo`), and `PromotionIsHeardByAll`, for any
  number if no activation fails (`MaxFailures = 0`), both with contention and force.
  The second follows a pair: who is passive with its timer running hears each active
  process in time, has its heartbeat on the way, or that process has been active for less
  than an interval (`HeardOf`). A failed activation makes a process passive that did not
  listen while it was active. Of two, the first to become active has nothing pending that could
  make it passive (`First`); the other, while its timer runs, hears it in time or is active
  with no activation left that could fail (`Beside`); and once one is gone there is
  nobody to be promoted over. With three processes and a failure the property is false (section 5).

`MigrationDrainProofs` (from `MigrationDrainAssumption`): `ReceiptsAreTrue` and
`LossIsReported`, for any outputs, work and number of overlapping attempts, with
sends that fail and a `shutdown()` that was told not to drain at any moment. The
inductive `DrainInv` says for each stage what it has established: inputs closed,
accepted work ended, outputs empty and sealed. It stays true because background
work is never admitted again and no input is opened again; that is why an attempt
that goes on after its time-out, and a later one, cannot undo each other's work. An
output is empty when its work was published or has failed, or when a stop has dropped
it, which a flush does not see. Two facts say what that may cost: work left on disk
means that a persistent output is stopped, and that one answers no flush, so that no
attempt passes it (`StageHolds`); and what a draining stop leaves has set the error
that keeps `shutdown` from being "done" (`ClosingHolds`).

`StoreRestoreProofs` (from `StoreRestoreAssumption`): `RestoresWhole`. `RestoreInv`
says that a store on disk is whole or absent, that the staged copy of a restore
that has verified it holds every file until it is published, that the mark
"complete" means every store is published, and so is a store an owner works on.
On `RetainedMove`: `NothingIsLost`, for any resources, changes, interruptions and
hand-started binaries (`Kept`: each version that is owed is complete in one of the
three places; every step that removes a file does so where another place has it,
or by renaming it to one), and `ReturnsCurrent`, for returns without a binary
started by hand (`PlaceHolds`, by phase: while a job renames, the file that was
current when it began is at exactly one of the two places, and at the target once
the job is past it, so that a repeated job cannot deliver another; a copied file is
at its source until the copy is published).

`ApiProofs`: `LeaseIsHonoured` (with `AnswerIsCovered`: the answer on its way grants
no more than the Controller still holds, because the lease is counted from the
start of the renewal), `TrustIsBounded` (with `BodyIsRecent`: what a transport
brings was published since its fetch began), `DrainLeavesNothing` (with
`WorkIsTracked`: whoever works is accepted, or the drain will fail) and
`AnnouncementsAreServed` (whatever is in a registry or in Swagger has a route: the
registries forget a path with the first method that is unregistered, never later).
`FlushSettles`, on `PyPublishQueue` (from `PyAssumption`): the counter of completions
may be decremented for a message whose acceptance is not yet counted, so that it
does not count what is unsettled; `CompletionsCover` bounds it from below:
unsettled messages, workers about to count one and messages discarded but not
counted off are together at most `completions` plus the calls about to count their
acceptance, and these are in the other counter (`EnqueuesCounted`). It needs
that each unsettled message is at one place, in the queue or with a worker
(`QueueHolds`, `WorkersHold`), and that workers that are off hold nothing.

`SequenceLemmas` has the facts about sequences the proofs use.

Every invariant and every action property of the passing runs is proved. Only
model-checked: the liveness properties, those of `Gateway` among them, because TLAPS
does not reason about fairness and ENABLED; so would be anything that needs induction
over data or RECURSIVE operators (the models use none). `PromotionHeard` is proved
under the two premises above because it is false without them, `HandledOnceInOrder`
for distinct packets (`DistinctPackets`).

## 5. Not modelled, and what was seen on the way

By part:

- Handover: two successors of one version at the same time under protocol 2. One
  that has taken over may accept the other's repeated request, while the other
  still expects the first source and ignores the fin: both end passive
  (`handover-manager.ts:482` and `:517`). Three processes did not fit a run.
- Ownership: a run with more than two processes (the theorems have any number);
  messages slower than a tick of five seconds. `SingleOwner` says nothing once processes
  contended, and there are three ways to it: two start or wait without an owner; one is
  forced; or, with three processes, an owner accepts the request of one that has died
  meanwhile. It becomes inactive, but keeps its input until the end of its drain, sends
  no heartbeat, and a waiting process is activated by its timer while that input is
  still open (`Unowned`). With three processes `PromotionHeard` does not hold once an
  activation fails: a fin goes to every process of the name, so that one which waits
  with its own promotion under way becomes active by it, hears nothing while it is,
  and is passive again, its start-up timer still running, when that promotion fails;
  the timer then fires over the process the fin was meant for. A requester whose source dies or ignores it stays passive for good; two
  waiting processes refreshed by the same heartbeat promote together, as do two
  that start together; the timer's callback does not look at `active` again.
- RAM output: a failed publication (`uns-mqtt-proxy.ts:305`) settles its tracking
  like a successful one; the application is told by the `error` event only. The
  model treats both as "settled", so `DrainMeansPublished` says that nothing is
  outstanding, not that the broker has accepted it. A `flush()` does not wait for a
  `publishMqttMessage()` that was called before it and still builds its first packet:
  the call awaits that (`:693`) before it enters any of the sets the flush looks at
  (`:595`), so the flush may resolve at once and the message be handed over after it.
  `DrainMeansPublished` leaves such calls out. Queue files of throttled queues on disk,
  and the legacy resume by batch hash.
- Transport: the choice between hosts, event counters. Runtime subscriptions made
  by `subscribeAsync()` are lost when a time-out restarts the client.
- Drain: an attempt may join a `shutdown({drain:false})` that the application called
  first, since `shutdown()` keeps the options of the first call: it then gets its
  receipt after that shutdown has dropped RAM output (`ReceiptIsTrue` names it).
  Participants and API servers that never stop: `shutdown()` has no time limit of its
  own; the model lets them end, with or without an error.
- Retained stores: capture and verification of a backup (they only read), content
  of receipts. A crash inside `atomicJSON()` leaves a scratch file that every
  repetition of a restore refuses. A return by copy writes a resource again
  that the legacy side has deleted meanwhile.
- API: authorization of users (paths, tokens, roles), validation of parameters,
  data offers. A second method of a path is never announced though
  `packages/uns-api/README.md` says every endpoint is; `get()` overwrites the
  Swagger entry of a path, so that an earlier POST disappears there; the list of a
  registry that became empty is not sent; a registration that waits for the server
  goes on although its endpoint was unregistered meanwhile. `ControllerSettles`
  says what does hold. In `RouteLease` the Controller does not revoke early and the
  wall clock does not jump; in `OperatorKeys` timers are on time.
- Gateway: HTTP requests forwarded to streams, start and shutdown, the MQTT session
  that two proxies of one kind take from each other (they share a client id).
  `ready()` may answer twice; `RegisterApiGet` and `UnregisterApiGet` call the API
  proxy with an outdated list of arguments; a client that leaves while its proxy is
  made keeps its handler.
- Python: cancellation of a caller that waits for the lock; messages behind the
  sentinels of `stop()` stay in the queue. Before Python 3.12 `wait_for()` may hold
  the lock, which the model allows always.
- Process groups and the policy file: reviews are validation of data. The swap
  of the policy (`process-group-upgrade.ts:287`) is a protocol and is planned.
- The assistant workflow, the developer tools and the CLI are the larger half of
  the code by lines: sequential functions over recorded traces, templates and
  generated code, in which nothing interleaves, fails half-way or must happen
  eventually. A model of them would repeat the code, so they are left out, and the
  share of all lines that is modelled stays small for that reason.
- Everything else marked `not_modelled` in `PROJECT.json`, with its reason.

## 6. Plan

1. `PolicySwap` (`process-group-upgrade.ts:287`): three overlapping calls, each as
   an inode of its own, and a crash around the temporary file.
2. A third process in the run of `Ownership` and protocol 2 on top of it, once the state
   space allows it.
3. The tool runtime of the assistant workflow, if it becomes concurrent.

The number of runs and of properties is kept small on purpose (twelve and 40);
a new module's properties replace shallower ones instead of adding to them, and
one run answers one question. A type invariant that a theorem rests on is
proved with it; the others (`TypeOK`, `OwnershipTypeOK`, `MovesTypeOK`, ...) hold in
the same instances: add them to the `INVARIANTS` of the module's configuration.

## 7. Running

    tlc -workers 2 -config PublishQueue.cfg MCPublishQueue.tla
    tlapm PublishQueueProofs.tla

`PROJECT.json` pairs each `.cfg` with its module. The longest runs (`process`,
`handover_live`, `runtime`) take two to three minutes, the proofs of
`HandoverProofs` ten and all others together as long.
