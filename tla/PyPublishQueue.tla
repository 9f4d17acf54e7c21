---------------------------- MODULE PyPublishQueue ----------------------------
(***************************************************************************)
(* The publish queue of the Python package (uns_mqtt_proxy.py): two        *)
(* counters under one asyncio.Condition, a queue and its worker tasks,     *)
(* flush() with and without a time-out, and both ways to stop.             *)
(*                                                                         *)
(* No section under the condition's lock awaits, so each is one step.  The *)
(* lock is first come, first served: a caller may have to wait for it      *)
(* between two of its sections (before Python 3.12 wait_for() holds it     *)
(* until its caller runs), and pays that with its place in lockq.  Not     *)
(* modelled: a caller cancelled while it waits for the lock.               *)
(***************************************************************************)
EXTENDS Naturals, FiniteSets, Sequences

CONSTANTS
    Calls,      \* calls of publish_message()
    Workers,    \* publish_concurrency
    Capacity,   \* max_pending_publishes, 0: unbounded
    Flushers,   \* other tasks that call flush()
    Stopper,    \* the task that calls stop()
    Sentinel,   \* None in the queue
    MaxStopCalls   \* bound

ASSUME PyAssumption ==
    /\ IsFiniteSet(Calls) /\ IsFiniteSet(Workers)
    /\ Sentinel \notin Calls

VARIABLES
    queue,
    enqueues,       \* _pending_enqueue_operations
    completions,    \* _pending_publish_completions
    lockq,          \* tasks that want the lock, in order
    publishing,     \* by call
    worker, item,   \* by worker: what it is doing, and with which call
    startedWorkers, stopRequested, workerFailed,
    flush,          \* by task: "no", "lock", "wait", "woken" or its outcome
    stopper,        \* the task in _stop_publish_workers()
    sentinels,      \* it still has to put
    discarded, stopCalls,
    settled         \* history: calls sent, failed or discarded

pyVars == <<queue, enqueues, completions, lockq, publishing, worker, item, startedWorkers,
            stopRequested, workerFailed, flush, stopper, sentinels, discarded, stopCalls,
            settled>>

queueVars == <<queue, item, startedWorkers, stopRequested, workerFailed>>
stopVars == <<stopper, sentinels, discarded, stopCalls>>

Waiting == Flushers \cup {Stopper}

PyTypeOK ==
    /\ queue \in Seq(Calls \cup {Sentinel})
    /\ enqueues \in Nat /\ completions \in Nat
    /\ lockq \in Seq(Calls \cup Workers \cup Waiting)
    /\ publishing \in [Calls -> {"new", "enter", "accept", "leave", "refused", "ok", "full"}]
    /\ worker \in [Workers -> {"off", "get", "sending", "completing", "failing", "cancelled"}]
    /\ item \in [Workers -> Calls \cup {Sentinel}]
    /\ startedWorkers \in BOOLEAN /\ stopRequested \in BOOLEAN /\ workerFailed \in BOOLEAN
    /\ flush \in [Waiting -> {"no", "lock", "wait", "woken", "ok", "error", "late"}]
    /\ stopper \in {"no", "flush", "put", "discard", "gather"}
    /\ sentinels \in 0..Cardinality(Workers) /\ discarded \in Nat
    /\ settled \subseteq Calls

PyInit ==
    /\ queue = <<>> /\ enqueues = 0 /\ completions = 0 /\ lockq = <<>>
    /\ publishing = [c \in Calls |-> "new"]
    /\ worker = [w \in Workers |-> "off"] /\ item = [w \in Workers |-> Sentinel]
    /\ startedWorkers = FALSE /\ stopRequested = FALSE /\ workerFailed = FALSE
    /\ flush = [f \in Waiting |-> "no"]
    /\ stopper = "no" /\ sentinels = 0 /\ discarded = 0 /\ stopCalls = 0
    /\ settled = {}

\* notify_all() at the end of a section.
Woken == [f \in Waiting |-> IF flush[f] = "wait" THEN "woken" ELSE flush[f]]

\* The section of task t, which has the lock.
Section(t) == lockq # <<>> /\ Head(lockq) = t
Unlock == lockq' = Tail(lockq)
UnlockAndRejoin(t) == lockq' = Append(Tail(lockq), t)

\* _ensure_publish_workers_started()
EnsureStarted ==
    /\ startedWorkers' = TRUE
    /\ worker' = IF startedWorkers THEN worker ELSE [w \in Workers |-> "get"]
    /\ stopRequested' = (startedWorkers /\ stopRequested)
    /\ workerFailed' = (startedWorkers /\ workerFailed)

-----------------------------------------------------------------------------
Connect ==
    /\ ~startedWorkers /\ EnsureStarted
    /\ UNCHANGED <<queue, item, stopVars, enqueues, completions, lockq, publishing, flush,
                   settled>>

\* publish_message(): _increment_pending_enqueues() waits for the lock.
Publish(c) ==
    /\ publishing[c] = "new"
    /\ publishing' = [publishing EXCEPT ![c] = "enter"]
    /\ lockq' = Append(lockq, c)
    /\ UNCHANGED <<queueVars, stopVars, enqueues, completions, worker, flush, settled>>

\* Fault: the operation is not tracked before its message has been accepted.
EnqueuesUntracked == enqueues

EnqueuesTracked == enqueues + 1

\* It is counted; then _enqueue_publish() up to _mark_publish_accepted().
Enter(c) ==
    LET full == Capacity > 0 /\ Len(queue) >= Capacity IN
    /\ Section(c) /\ publishing[c] = "enter"
    /\ UnlockAndRejoin(c)
    /\ enqueues' = EnqueuesTracked
    /\ EnsureStarted
    /\ queue' = IF full THEN queue ELSE Append(queue, c)
    /\ publishing' = [publishing EXCEPT ![c] = IF full THEN "refused" ELSE "accept"]
    /\ flush' = Woken
    /\ UNCHANGED <<stopVars, completions, item, settled>>

Accept(c) ==
    /\ Section(c) /\ publishing[c] = "accept"
    /\ UnlockAndRejoin(c)
    /\ completions' = completions + 1
    /\ publishing' = [publishing EXCEPT ![c] = "leave"]
    /\ flush' = Woken
    /\ UNCHANGED <<queueVars, stopVars, enqueues, worker, settled>>

\* _decrement_pending_enqueues(), in the finally of a refused call too.
Leave(c) ==
    /\ Section(c) /\ publishing[c] \in {"leave", "refused"}
    /\ Unlock
    /\ enqueues' = IF enqueues > 0 THEN enqueues - 1 ELSE 0
    /\ publishing' = [publishing EXCEPT ![c] = IF @ = "leave" THEN "ok" ELSE "full"]
    /\ flush' = Woken
    /\ UNCHANGED <<queueVars, stopVars, completions, worker, settled>>

-----------------------------------------------------------------------------
\* A sentinel ends the worker.
Take(w) ==
    /\ worker[w] = "get" /\ queue # <<>>
    /\ queue' = Tail(queue)
    /\ item' = [item EXCEPT ![w] = Head(queue)]
    /\ worker' = [worker EXCEPT ![w] = IF Head(queue) = Sentinel THEN "off" ELSE "sending"]
    /\ UNCHANGED <<stopVars, enqueues, completions, lockq, publishing, startedWorkers,
                   stopRequested, workerFailed, flush, settled>>

\* publish_raw() has come to an end; an "error" listener may raise.
Sent(w) ==
    /\ worker[w] = "sending"
    /\ \E next \in {"completing", "failing"} : worker' = [worker EXCEPT ![w] = next]
    /\ lockq' = Append(lockq, w)
    /\ settled' = settled \cup {item[w]}
    /\ UNCHANGED <<queueVars, stopVars, enqueues, completions, publishing, flush>>

\* _mark_publish_completed(), and _handle_publish_worker_done() of one that ends.
Completed(w) ==
    /\ Section(w) /\ worker[w] \in {"completing", "failing"}
    /\ Unlock
    /\ completions' = IF completions > 0 THEN completions - 1 ELSE 0
    /\ worker' = [worker EXCEPT ![w] = IF @ = "completing" THEN "get" ELSE "off"]
    /\ workerFailed' = (workerFailed \/ (worker[w] = "failing" /\ ~stopRequested))
    /\ flush' = Woken
    /\ UNCHANGED <<stopVars, queue, item, startedWorkers, stopRequested, enqueues,
                   publishing, settled>>

-----------------------------------------------------------------------------
CallFlush(f) ==
    /\ f \in Flushers /\ flush[f] \in {"no", "ok", "error", "late"}
    /\ flush' = [flush EXCEPT ![f] = "lock"] /\ lockq' = Append(lockq, f)
    /\ UNCHANGED <<queueVars, stopVars, enqueues, completions, publishing, worker, settled>>

\* drain_publishes(): the deadline may have passed when it has the lock again.
Checked ==
    IF enqueues = 0 /\ completions = 0 THEN {"ok"}
    ELSE IF workerFailed THEN {"error"}
    ELSE {"wait", "late"}

\* A stop() goes on at once: it requests the stop, or passes the exception on.
FlushChecks(f) ==
    /\ Section(f) /\ flush[f] = "lock"
    /\ Unlock
    /\ \E outcome \in Checked :
         /\ flush' = [flush EXCEPT ![f] = outcome]
         /\ IF f = Stopper /\ outcome = "ok"
            THEN /\ stopRequested' = TRUE /\ stopper' = "put"
                 /\ sentinels' = Cardinality(Workers)
            ELSE /\ stopper' = IF f = Stopper /\ outcome # "wait" THEN "no" ELSE stopper
                 /\ UNCHANGED <<stopRequested, sentinels>>
    /\ UNCHANGED <<queue, item, startedWorkers, workerFailed, discarded, stopCalls, enqueues,
                   completions, publishing, worker, settled>>

\* A waiter wakes, or its time-out fires, and it takes the lock again.
FlushWakes(f) ==
    /\ flush[f] = "woken"
    /\ flush' = [flush EXCEPT ![f] = "lock"] /\ lockq' = Append(lockq, f)
    /\ UNCHANGED <<queueVars, stopVars, enqueues, completions, publishing, worker, settled>>

FlushTimesOut(f) ==
    /\ flush[f] = "wait"
    /\ flush' = [flush EXCEPT ![f] = "late"]
    /\ stopper' = IF f = Stopper THEN "no" ELSE stopper
    /\ UNCHANGED <<queueVars, sentinels, discarded, stopCalls, lockq, enqueues, completions,
                   publishing, worker, settled>>

-----------------------------------------------------------------------------
\* stop(drain = True): without workers there is nothing to do.
StopDraining ==
    /\ stopper = "no" /\ startedWorkers /\ stopCalls < MaxStopCalls
    /\ stopCalls' = stopCalls + 1 /\ stopper' = "flush"
    /\ flush' = [flush EXCEPT ![Stopper] = "lock"] /\ lockq' = Append(lockq, Stopper)
    /\ UNCHANGED <<queueVars, sentinels, discarded, enqueues, completions, publishing, worker,
                   settled>>

\* put(None) waits for room.
PutSentinel ==
    /\ stopper = "put"
    /\ Capacity > 0 => Len(queue) < Capacity
    /\ queue' = Append(queue, Sentinel) /\ sentinels' = sentinels - 1
    /\ stopper' = IF sentinels = 1 THEN "gather" ELSE "put"
    /\ UNCHANGED <<item, startedWorkers, stopRequested, workerFailed, discarded, stopCalls,
                   lockq, enqueues, completions, publishing, worker, flush, settled>>

\* task.cancel(): a worker that publishes still counts its completion, one that
\* waits for the lock does not get it any more.
CancelWorkers ==
    /\ worker' = [w \in Workers |-> IF worker[w] = "sending" THEN "cancelled" ELSE "off"]
    /\ lockq' = SelectSeq(lockq, LAMBDA t : t \notin Workers)

Aborts(w) ==
    /\ worker[w] = "cancelled"
    /\ worker' = [worker EXCEPT ![w] = "failing"]
    /\ lockq' = Append(lockq, w)
    /\ settled' = settled \cup {item[w]}
    /\ UNCHANGED <<queueVars, stopVars, enqueues, completions, publishing, flush>>

\* stop(drain = False): _discard_queued_publishes(), up to the lock.
StopDiscarding ==
    LET messages == {i \in DOMAIN queue : queue[i] # Sentinel} IN
    /\ stopper = "no" /\ startedWorkers /\ stopCalls < MaxStopCalls
    /\ stopCalls' = stopCalls + 1
    /\ stopRequested' = TRUE
    /\ queue' = <<>> /\ discarded' = Cardinality(messages)
    /\ settled' = settled \cup {queue[i] : i \in messages}
    /\ IF messages = {}
       THEN stopper' = "gather" /\ CancelWorkers
       ELSE /\ stopper' = "discard" /\ lockq' = Append(lockq, Stopper)
            /\ worker' = worker
    /\ UNCHANGED <<item, startedWorkers, workerFailed, sentinels, enqueues, completions,
                   publishing, flush>>

Discarded ==
    /\ Section(Stopper) /\ stopper = "discard"
    /\ completions' = IF completions > discarded THEN completions - discarded ELSE 0
    /\ flush' = Woken
    /\ stopper' = "gather"
    /\ worker' = [w \in Workers |-> IF worker[w] = "sending" THEN "cancelled" ELSE "off"]
    /\ lockq' = SelectSeq(Tail(lockq), LAMBDA t : t \notin Workers)
    /\ UNCHANGED <<queue, item, startedWorkers, stopRequested, workerFailed, sentinels,
                   discarded, stopCalls, enqueues, publishing, settled>>

\* gather() returns when no worker is left; the next message starts others.
StopEnds ==
    /\ stopper = "gather" /\ \A w \in Workers : worker[w] = "off"
    /\ startedWorkers' = FALSE /\ stopper' = "no"
    /\ UNCHANGED <<queue, item, stopRequested, workerFailed, sentinels, discarded, stopCalls,
                   enqueues, completions, lockq, publishing, worker, flush, settled>>

PyNext ==
    \/ \E c \in Calls : Publish(c) \/ Enter(c) \/ Accept(c) \/ Leave(c)
    \/ \E w \in Workers : Take(w) \/ Sent(w) \/ Completed(w) \/ Aborts(w)
    \/ \E f \in Waiting : CallFlush(f) \/ FlushChecks(f) \/ FlushWakes(f) \/ FlushTimesOut(f)
    \/ Connect \/ StopDraining \/ PutSentinel \/ StopDiscarding \/ Discarded \/ StopEnds

PySpec == PyInit /\ [][PyNext]_pyVars

-----------------------------------------------------------------------------
\* A flush that returns means what it says: every message accepted before it, also
\* by a call that has not returned yet, has been sent, reported or discarded.
FlushMeansSettled ==
    [][\A f \in Waiting :
         flush[f] # "ok" /\ flush'[f] = "ok" =>
             \A c \in Calls : publishing[c] \in {"accept", "leave", "ok"} => c \in settled]_pyVars
=============================================================================
