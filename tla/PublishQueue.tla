---------------------------- MODULE PublishQueue ----------------------------
(***************************************************************************)
(* The optional MQTT output outbox of @uns-kit/core: MqttPublishQueue      *)
(* (uns-mqtt/publish-queue.ts) over its SQLite table of pending records    *)
(* (uns-mqtt/publish-queue-store.ts).                                      *)
(*                                                                         *)
(* A step is a maximal piece of the class that runs without yielding to    *)
(* the event loop.  Payload sizes are abstracted to record counts; where a *)
(* byte limit may decide (memoryBytes), the choice is nondeterministic.    *)
(* A storage call may fail (free-space reserve, physical budget, SQLite),  *)
(* at most MaxStorageFaults times in a behaviour.                          *)
(***************************************************************************)
EXTENDS Integers, Sequences, FiniteSets, Functions

CONSTANTS
    Msgs,              \* the envelopes the application publishes, one id each
    Callers,           \* callers of waitForIdle (pending flush requests)
    Durable,           \* config.mode = "durable" (otherwise "buffered")
    MaxRecords,        \* config.maxRecords
    MemoryRecords,     \* config.memoryRecords
    MaxStorageFaults,  \* bound: storage calls that fail
    MaxCrashes,        \* bound: sudden deaths of the worker
    NoRecord           \* cur while nothing was ever sent

Records == [seq : Nat \ {0}, id : Msgs]

ASSUME PublishQueueAssumption ==
    /\ Durable \in BOOLEAN
    /\ MaxRecords \in Nat \ {0}
    /\ MemoryRecords \in Nat
    /\ MaxStorageFaults \in Nat
    /\ MaxCrashes \in Nat
    /\ NoRecord \notin Records

VARIABLES
    up,          \* the worker process lives and holds the storage lease
    memory,      \* this.memory: admitted records kept in RAM only
    disk,        \* the rows of the table `pending`
    seq,         \* this.seq: the last sequence number given out
    active,      \* this.active
    closed,      \* this.closed
    closing,     \* close(): "no" | "waiting" for processing | "ready" to go on
    blocked,     \* this.blocked # undefined
    processing,  \* this.processing: "none" | "queued" | "sending" | "finishing"
    cur,         \* run(): the record being sent
    fromMemory,  \* run(): record === memory
    transport,   \* the caller keeps its MQTT transport running
    attempt,     \* send(cur): "refused" | "inflight" | "reached" the broker
    retryTimer,  \* this.retryTimer # undefined
    completions, \* this.completions: ids whose promise is unsettled
    waiter,      \* this.waiters, and how each waitForIdle call ended
    storageFaults, crashes,
    \* History: what was promised to the application and seen by the broker.
    admitted,    \* ids whose enqueueOrThrow returned, in that order
    broker,      \* ids as received; a replay of the last one adds nothing
    confirmed,   \* ids whose completion promise was resolved
    lost         \* ids that a sudden death removed from RAM

control == <<up, transport, active, closed, closing, blocked>>
loop == <<processing, cur, fromMemory, attempt, retryTimer>>
queue == <<memory, disk, seq>>
promises == <<completions, waiter>>
budget == <<storageFaults, crashes>>
history == <<admitted, broker, confirmed, lost>>

vars == <<control, loop, queue, promises, budget, history>>

Ids(R) == {r.id : r \in R}

\* pendingRecords of snapshot(): what is admitted and not yet completed.
Pending == Range(memory) \cup disk
PendingCount(mem, dsk) == Len(mem) + Cardinality(dsk)

-----------------------------------------------------------------------------
(* The store.                                                              *)

\* Fault: a restart numbers records from 1 again.
IsLastSeqRestarted(n, dsk) == n = 0

\* summary().lastSeq: COALESCE(MAX(seq), 0).
IsLastSeq(n, dsk) ==
    IF dsk = {} THEN n = 0
    ELSE \E d \in dsk : d.seq = n /\ \A e \in dsk : e.seq <= d.seq

\* head(): ORDER BY seq LIMIT 1.
IsHead(r, dsk) == r \in dsk /\ \A d \in dsk : r.seq <= d.seq

\* The checks put() makes in its transaction, and the table's two keys.
Fits(r, dsk) ==
    /\ Cardinality(dsk) < MaxRecords
    /\ \A d \in dsk : d.seq # r.seq /\ d.id # r.id

\* A storage call throws: by its own checks (~accepts) or by a fault.
StorageThrows(accepts) ==
    /\ accepts => storageFaults < MaxStorageFaults
    /\ storageFaults' = IF accepts THEN storageFaults + 1 ELSE storageFaults

\* while (memory.length) { put(memory[0]); memory.shift() } after k rounds.
SpilledDisk(k) == disk \cup {memory[i] : i \in 1..k}
SpillRuns(k) == \A i \in 1..k : Fits(memory[i], SpilledDisk(i - 1))

SpillAll ==
    /\ SpillRuns(Len(memory))
    /\ disk' = SpilledDisk(Len(memory))
    /\ memory' = <<>>
    /\ UNCHANGED storageFaults

\* The put of record k + 1 throws: a prefix is on disk, the rest still in RAM.
\* Fault: shift() before put().
SpillFailsShiftFirst ==
    \E k \in 0..(Len(memory) - 1) :
        /\ StorageThrows(TRUE)
        /\ disk' = SpilledDisk(k)
        /\ memory' = SubSeq(memory, k + 2, Len(memory))

SpillFails ==
    \E k \in 0..(Len(memory) - 1) :
        /\ SpillRuns(k)
        /\ StorageThrows(Fits(memory[k + 1], SpilledDisk(k)))
        /\ disk' = SpilledDisk(k)
        /\ memory' = SubSeq(memory, k + 1, Len(memory))

-----------------------------------------------------------------------------
(* Scheduling of the delivery loop.                                        *)

\* schedule(): the value of this.processing it leaves.
Scheduled(proc, act, timer) ==
    IF act /\ ~closed /\ ~blocked /\ proc = "none" /\ ~timer
    THEN "queued" ELSE proc

\* emit() and fail(): every waiting drain request ends in the same way.
Settle(outcome) ==
    waiter' = [w \in Callers |->
                 IF waiter[w] = "waiting" THEN outcome ELSE waiter[w]]

\* Worker messages are handled one per task; the microtasks that end a
\* processing promise or resume close() run before the next one.
BetweenTasks == up /\ closing # "ready" /\ processing # "finishing"

\* !memory || (disk && disk.seq < memory.seq) ? disk : memory
\* Fault: RAM is sent first, whatever has overflowed to disk.
PicksMemoryFirst(r, mem, dsk) == mem # <<>> /\ r = Head(mem)

PicksMemory(r, mem, dsk) ==
    mem # <<>> /\ r = Head(mem) /\ \A d \in dsk : r.seq <= d.seq

PicksDisk(r, mem, dsk) ==
    IsHead(r, dsk) /\ (mem # <<>> => r.seq < Head(mem).seq)

\* One turn of run()'s loop up to its `await this.send(record)`.
Loop(mem, dsk) ==
    \/ /\ active /\ ~closed /\ ~blocked
       /\ \E r \in Range(mem) \cup dsk :
            /\ PicksMemory(r, mem, dsk) \/ PicksDisk(r, mem, dsk)
            /\ fromMemory' = PicksMemory(r, mem, dsk)
            /\ cur' = r
       /\ attempt' = IF transport THEN "inflight" ELSE "refused"
       /\ processing' = "sending"
    \/ /\ ~active \/ closed \/ blocked \/ (mem = <<>> /\ dsk = {})
       /\ processing' = "finishing"
       /\ UNCHANGED <<cur, fromMemory, attempt>>

-----------------------------------------------------------------------------
(* Admission.                                                              *)

HasCapacity == PendingCount(memory, disk) < MaxRecords

\* Ids are random (UnsMqttProxy, randomUUID): each is admitted once.  A
\* continuation of a settled admission may admit the next record before the
\* delivery loop's promise has ended.
MayAdmit(m) ==
    /\ up /\ closing # "ready"
    /\ ~closed /\ ~blocked
    /\ m \notin Range(admitted)
    /\ HasCapacity

NewRecord(m) == [seq |-> seq + 1, id |-> m]

Admitted(m) ==
    /\ seq' = seq + 1
    /\ completions' = completions \cup {m}
    /\ admitted' = Append(admitted, m)
    /\ processing' = Scheduled(processing, active, retryTimer)
    /\ UNCHANGED <<control, budget, cur, fromMemory, attempt, retryTimer,
                   waiter, broker, confirmed, lost>>

MemoryAccepts == ~Durable /\ Len(memory) < MemoryRecords

EnqueueMemory(m) ==
    /\ MayAdmit(m)
    /\ MemoryAccepts
    /\ memory' = Append(memory, NewRecord(m))
    /\ UNCHANGED disk
    /\ Admitted(m)

\* In buffered mode memoryBytes may send any record to disk.
EnqueueDisk(m) ==
    /\ MayAdmit(m)
    /\ Fits(NewRecord(m), disk)
    /\ disk' = disk \cup {NewRecord(m)}
    /\ UNCHANGED memory
    /\ Admitted(m)

\* The put throws: the caller gets the error, only ++this.seq has happened.
EnqueueFails(m) ==
    /\ MayAdmit(m)
    /\ StorageThrows(Fits(NewRecord(m), disk))
    /\ seq' = seq + 1
    /\ UNCHANGED <<control, loop, promises, history, memory, disk, crashes>>

-----------------------------------------------------------------------------
(* Delivery.                                                               *)

Run ==
    /\ up /\ processing = "queued"
    /\ Loop(memory, disk)
    /\ UNCHANGED <<control, queue, promises, budget, history, retryTimer>>

\* External: the broker receives the publish that is in flight.
BrokerReceive ==
    /\ up /\ processing = "sending" /\ attempt = "inflight"
    /\ attempt' = "reached"
    /\ broker' = IF broker # <<>> /\ broker[Len(broker)] = cur.id
                 THEN broker ELSE Append(broker, cur.id)
    /\ UNCHANGED <<control, queue, promises, budget, processing, cur,
                   fromMemory, retryTimer, admitted, confirmed, lost>>

\* this.memory.shift(): of whatever is first by now, or of nothing.
CompleteMemory ==
    /\ fromMemory
    /\ memory' = IF memory = <<>> THEN <<>> ELSE Tail(memory)
    /\ UNCHANGED disk

\* DELETE ... must change one row; a closed store throws.
CompleteDisk ==
    /\ ~fromMemory /\ ~closed /\ cur \in disk
    /\ disk' = disk \ {cur}
    /\ UNCHANGED memory

\* The broker's acknowledgement arrives; the record is completed, its
\* promise resolved, and the loop goes on without yielding.
SendAck ==
    /\ up /\ processing = "sending" /\ attempt = "reached"
    /\ CompleteMemory \/ CompleteDisk
    /\ confirmed' = confirmed \cup ({cur.id} \cap completions)
    /\ completions' = completions \ {cur.id}
    /\ Loop(memory', disk')
    /\ UNCHANGED <<control, budget, retryTimer, seq, waiter, admitted, broker,
                   lost>>

\* fail(): the loop's promise ends with the queue blocked.
Fail ==
    /\ blocked' = TRUE
    /\ Settle("failed")
    /\ processing' = "finishing"

\* Acknowledged, but store.complete throws: the record stays on disk.
SendAckCompleteFails ==
    /\ up /\ processing = "sending" /\ attempt = "reached"
    /\ ~fromMemory
    /\ StorageThrows(~closed /\ cur \in disk)
    /\ Fail
    /\ UNCHANGED <<queue, history, up, transport, active, closed, closing,
                   cur, fromMemory, attempt, retryTimer, completions, crashes>>

\* Fault: the loop retries in place instead of returning.
SendFailInPlace ==
    /\ up /\ processing = "sending"
    /\ SpillAll
    /\ attempt' = IF transport THEN "inflight" ELSE "refused"
    /\ fromMemory' = FALSE
    /\ UNCHANGED <<control, promises, history, processing, cur, retryTimer,
                   seq, crashes>>

\* send() rejects (disconnected, timed out, or its acknowledgement was lost):
\* all RAM work goes to disk and the retry timer is armed.
SendFail ==
    /\ up /\ processing = "sending"
    /\ SpillAll
    /\ retryTimer' = (retryTimer \/ active)
    /\ processing' = "finishing"
    /\ UNCHANGED <<control, promises, history, cur, fromMemory, attempt, seq,
                   crashes>>

SendFailSpillFails ==
    /\ up /\ processing = "sending"
    /\ SpillFails
    /\ Fail
    /\ UNCHANGED <<history, up, transport, active, closed, closing, cur,
                   fromMemory, attempt, retryTimer, seq, completions, crashes>>

\* Fault: emit() does not look at the backlog.
DrainedAlways == ~closed

Drained == ~closed /\ Pending = {}

\* Fault: work admitted while the promise ended is not scheduled.
RescheduledNever == "none"

Rescheduled ==
    IF ~closed /\ Pending # {} THEN Scheduled("none", active, retryTimer)
    ELSE "none"

\* finally(): processing ends, drained waiters are resolved, and work that
\* was admitted meanwhile is scheduled.
Finally ==
    /\ up /\ processing = "finishing"
    /\ IF Drained THEN Settle("idle") ELSE UNCHANGED waiter
    /\ processing' = Rescheduled
    /\ closing' = IF closing = "waiting" THEN "ready" ELSE closing
    /\ UNCHANGED <<queue, budget, history, up, transport, active, closed,
                   blocked, cur, fromMemory, attempt, retryTimer, completions>>

RetryFires ==
    /\ BetweenTasks /\ retryTimer
    /\ retryTimer' = FALSE
    /\ processing' = Scheduled(processing, active, FALSE)
    /\ UNCHANGED <<control, queue, promises, budget, history, cur, fromMemory,
                   attempt>>

-----------------------------------------------------------------------------
(* Control.                                                                *)

BecomeActive ==
    /\ BetweenTasks
    /\ active' = TRUE
    /\ processing' = Scheduled(processing, TRUE, retryTimer)
    /\ UNCHANGED <<queue, promises, budget, history, up, transport, closed,
                   closing, blocked, cur, fromMemory, attempt, retryTimer>>

\* The trailing emit finds no waiter to resolve that Finally did not resolve.
BecomePassive ==
    /\ BetweenTasks
    /\ active' = FALSE
    /\ retryTimer' = FALSE
    /\ UNCHANGED <<queue, promises, budget, history, up, transport, closed,
                   closing, blocked, processing, cur, fromMemory, attempt>>

WaitForIdle(w) ==
    /\ BetweenTasks
    /\ waiter[w] # "waiting"
    /\ waiter' = [waiter EXCEPT ![w] =
                    IF blocked THEN "failed"
                    ELSE IF Pending = {} /\ processing = "none" THEN "idle"
                    ELSE "waiting"]
    /\ UNCHANGED <<control, loop, queue, budget, history, completions>>

WaiterTimesOut(w) ==
    /\ BetweenTasks
    /\ waiter[w] = "waiting"
    /\ waiter' = [waiter EXCEPT ![w] = "failed"]
    /\ UNCHANGED <<control, loop, queue, budget, history, completions>>

\* close() up to `await this.processing`.  "Caller must stop its MQTT
\* transport first": the worker does, and a publish in flight then settles.
Close ==
    /\ BetweenTasks
    /\ ~closed /\ closing = "no"
    /\ active' = FALSE
    /\ retryTimer' = FALSE
    /\ closing' = IF processing = "none" THEN "ready" ELSE "waiting"
    /\ transport' = FALSE
    /\ UNCHANGED <<queue, promises, budget, history, up, closed, blocked,
                   processing, cur, fromMemory, attempt>>

\* Fault: RAM is not spilled.
CloseCompletesUnspilled ==
    /\ up /\ closing = "ready" /\ processing # "queued"
    /\ closed' = TRUE
    /\ completions' = {}
    /\ Settle("failed")
    /\ closing' = "no"
    /\ UNCHANGED <<queue, loop, budget, history, up, transport, active, blocked>>

\* close() goes on once the promise it awaited has ended.  A loop that
\* Finally scheduled again has started by then.
CloseCompletes ==
    /\ up /\ closing = "ready" /\ processing # "queued"
    /\ SpillAll
    /\ closed' = TRUE
    /\ completions' = {}
    /\ Settle("failed")
    /\ closing' = "no"
    /\ UNCHANGED <<loop, history, up, transport, active, blocked, seq,
                   crashes>>

\* A put throws: close() rejects and the queue is left open.
CloseSpillFails ==
    /\ up /\ closing = "ready" /\ processing # "queued"
    /\ SpillFails
    /\ closing' = "no"
    /\ UNCHANGED <<loop, promises, history, up, transport, active, closed,
                   blocked, seq, crashes>>

-----------------------------------------------------------------------------
(* The life of the worker.                                                 *)

\* The process is gone, with everything that was only in its RAM.
Dies ==
    /\ up' = FALSE
    /\ memory' = <<>>
    /\ lost' = lost \cup Ids(Range(memory))
    /\ processing' = "none"
    /\ closing' = "no"
    /\ blocked' = FALSE
    /\ retryTimer' = FALSE
    /\ completions' = {}
    /\ Settle("failed")
    /\ UNCHANGED <<transport, active, closed, cur, fromMemory, attempt, disk,
                   seq, storageFaults, admitted, broker, confirmed>>

Crash ==
    /\ up /\ crashes < MaxCrashes
    /\ crashes' = crashes + 1
    /\ Dies

\* UnsMqttProxy terminates the worker once closePublisher has succeeded.
Terminate ==
    /\ up /\ closed
    /\ UNCHANGED crashes
    /\ Dies

\* The constructor: resume after what the table holds.
Open ==
    /\ ~up
    /\ Cardinality(disk) <= MaxRecords
    /\ up' = TRUE
    /\ closed' = FALSE
    /\ transport' = TRUE
    /\ seq' \in 0..seq /\ IsLastSeq(seq', disk)
    /\ active' \in BOOLEAN
    /\ processing' = IF active' THEN "queued" ELSE "none"
    /\ UNCHANGED <<promises, budget, history, closing, blocked, cur,
                   fromMemory, attempt, retryTimer, memory, disk>>

Init ==
    /\ up = FALSE
    /\ memory = <<>> /\ disk = {} /\ seq = 0
    /\ active = FALSE /\ closed = FALSE /\ closing = "no" /\ blocked = FALSE
    /\ processing = "none" /\ cur = NoRecord
    /\ fromMemory = FALSE /\ transport = TRUE /\ attempt = "refused"
    /\ retryTimer = FALSE /\ completions = {}
    /\ waiter = [w \in Callers |-> "none"]
    /\ storageFaults = 0 /\ crashes = 0
    /\ admitted = <<>> /\ broker = <<>> /\ confirmed = {} /\ lost = {}

Admission == \E m \in Msgs : EnqueueMemory(m) \/ EnqueueDisk(m) \/ EnqueueFails(m)
SendSettles == SendAck \/ SendAckCompleteFails \/ SendFail \/ SendFailSpillFails
CloseResumes == CloseCompletes \/ CloseSpillFails
Waiting == \E w \in Callers : WaitForIdle(w) \/ WaiterTimesOut(w)

Next ==
    \/ Admission
    \/ Run \/ BrokerReceive \/ SendSettles \/ Finally \/ RetryFires
    \/ BecomeActive \/ BecomePassive \/ Waiting
    \/ Close \/ CloseResumes
    \/ Crash \/ Terminate \/ Open

Spec == Init /\ [][Next]_vars

-----------------------------------------------------------------------------
(* Properties.                                                             *)

TypeOK ==
    /\ up \in BOOLEAN /\ active \in BOOLEAN /\ closed \in BOOLEAN
    /\ blocked \in BOOLEAN /\ fromMemory \in BOOLEAN /\ retryTimer \in BOOLEAN
    /\ transport \in BOOLEAN /\ attempt \in {"refused", "inflight", "reached"}
    /\ memory \in Seq(Records) /\ disk \subseteq Records /\ seq \in Nat
    /\ closing \in {"no", "waiting", "ready"}
    /\ processing \in {"none", "queued", "sending", "finishing"}
    /\ cur \in Records \cup {NoRecord}
    /\ processing = "sending" => cur \in Records
    /\ completions \subseteq Msgs
    /\ waiter \in [Callers -> {"none", "waiting", "idle", "failed"}]
    /\ storageFaults \in 0..MaxStorageFaults /\ crashes \in 0..MaxCrashes
    /\ admitted \in Seq(Msgs) /\ broker \in Seq(Msgs)
    /\ confirmed \subseteq Msgs /\ lost \subseteq Msgs

\* An admission that was promised is never dropped: until the broker has
\* received the message its record is on disk, or, in buffered mode only, in
\* RAM, from where nothing but a sudden death removes it (publish-queue.ts
\* enqueueOrThrow, run and close; the store's put, complete and reopen).
NoAdmissionLost ==
    \A m \in Range(admitted) :
        \/ m \in Range(broker) \cup Ids(disk)
        \/ ~Durable /\ m \in Ids(Range(memory)) \cup lost

\* Admitted work of an active queue is never left asleep: the delivery loop
\* is running or scheduled, or the retry timer is armed (schedule and the
\* finally of its promise).
WorkIsScheduled ==
    up /\ active /\ ~closed /\ ~blocked /\ Pending # {} =>
        processing # "none" \/ retryTimer

\* A drain is acknowledged only when the broker has received everything that
\* was admitted, this life or an earlier one, and was not lost from RAM.
DrainMeansDelivered ==
    [][\A w \in Callers :
         waiter[w] # "idle" /\ waiter'[w] = "idle" =>
            Range(admitted) \ lost \subseteq Range(broker)]_vars

\* Only a sudden death of a buffered queue that is still open loses work: an
\* orderly close has moved all of it to disk before the worker is terminated.
LossOnlyBySuddenDeath ==
    [][lost' # lost => ~Durable /\ ~closed /\ crashes' # crashes]_vars

-----------------------------------------------------------------------------
(* Liveness.  Microtasks and timers run; a publish settles, because         *)
(* publishConfirmed gives up after publishTimeoutMs; and the broker answers *)
(* infinitely many of infinitely many attempts.                             *)

Fairness ==
    /\ WF_vars(Run) /\ WF_vars(Finally) /\ WF_vars(RetryFires)
    /\ WF_vars(SendSettles) /\ WF_vars(CloseResumes)
    /\ SF_vars(BrokerReceive) /\ SF_vars(SendAck)

FairSpec == Spec /\ Fairness

\* If the queue in the end stays open, connected, active and unblocked, every
\* message admitted then or in an earlier life reaches the broker unless a sudden
\* death took it from RAM (there are finitely many messages).
EventualDelivery ==
    <>[](up /\ transport /\ active /\ ~closed /\ ~blocked) =>
        <>[](Range(admitted) \subseteq Range(broker) \cup lost)

\* close() always ends, with the queue closed or with an error that leaves it
\* open, whatever is in flight and however often it is reactivated meanwhile.
CloseSettles == closing # "no" ~> closing = "no"

-----------------------------------------------------------------------------
(* What the queue implements.                                              *)

\* The place of a pending record in the order of the sequence numbers.
Rank(r) == Cardinality({d \in Pending : d.seq <= r.seq})

\* The abstract queue: what is pending on disk and in RAM, in seq order.
PendingQueue ==
    [i \in 1..Cardinality(Pending) |-> (CHOOSE r \in Pending : Rank(r) = i).id]

Abstract == INSTANCE Outbox WITH queue <- PendingQueue, Volatile <- ~Durable

\* The queue over RAM, SQLite and the retry loop is a FIFO outbox with
\* at-least-once delivery; in durable mode it never loses a message.
ImplementsOutbox == Abstract!Spec

=============================================================================
