------------------------------ MODULE MqttOutput ------------------------------
(***************************************************************************)
(* MQTT output without persistence: admission control in the main thread   *)
(* (UnsMqttProxy, uns-mqtt-proxy.ts), the worker that relays it            *)
(* (MqttWorker, mqtt-worker.ts) and its queue (ThrottledPublisher,         *)
(* throttled-queue.ts), with the two FIFO ports between them.              *)
(*                                                                         *)
(* A step is a piece of one thread's code that runs without yielding.  In  *)
(* the main thread, continuations of awaited promises (granted, resuming)  *)
(* run before the next message or timer.  A publication has one part per   *)
(* attribute; a message is a publication and the number of the part.       *)
(***************************************************************************)
EXTENDS Integers, Sequences, FiniteSets, Functions

CONSTANTS
    Pubs,           \* the application's publish calls
    Attrs,          \* bound: attributes of one publication
    MaxPending,     \* maxPendingPublishes
    Backpressure,   \* publishBackpressure is given
    MaxWaiting,     \* publishBackpressure.maxWaiting
    Concurrency,    \* publishConcurrency
    Delayed,        \* publishThrottlingDelay > 0
    Flushers,       \* callers of flush()
    Stopper,        \* the flush() of stop()
    MaxPostFaults,  \* bound: postMessage calls that throw
    WorkerMayFail   \* bound: whether the worker may die by itself

Callers == Flushers \cup {Stopper}
Msgs == Pubs \X (1..Attrs)

ASSUME MqttOutputAssumption ==
    /\ Attrs \in Nat \ {0} /\ MaxPending \in Nat \ {0}
    /\ MaxWaiting \in Nat \ {0} /\ Concurrency \in Nat \ {0}
    /\ Backpressure \in BOOLEAN /\ Delayed \in BOOLEAN
    /\ WorkerMayFail \in BOOLEAN
    /\ MaxPostFaults \in Nat
    /\ Stopper \notin Flushers

VARIABLES
    lifecycle,     \* lifecycleState
    stopStage,     \* performStop(): how far it has come
    stopDrains,    \* its options.drain
    sealed,        \* publishesSealed
    workerFailed,  \* workerFailure # null
    pending,       \* pendingEnqueues: posted, not yet answered
    completions,   \* pendingPublishCompletions: accepted, not yet published
    waiters,       \* capacityWaiters
    reservations,  \* capacityReservations
    granted,       \* resolved capacity waiters that have not continued yet
    resuming,      \* publishMqttMessage calls about to enqueue their next part
    drains,        \* drainWaiters, and how each flush() ended
    call, size, part,  \* the application's calls: outcome, parts, current part
    toWorker, toMain,  \* the ports
    workerUp,
    active,        \* ThrottledPublisher.active
    queue,         \* ThrottledPublisher.queue
    inFlight,      \* messages whose publishFunction has not settled
    throttling,    \* isProcessing: the loop sleeps for `delay`
    postFaults,
    called,        \* History: order in which messages asked for admission
    started        \* History: order in which publishFunction was called

mode == <<lifecycle, stopStage, stopDrains, sealed, workerFailed>>
admission == <<pending, completions, waiters, reservations, granted, drains>>
calls == <<call, size, part, resuming, called>>
worker == <<workerUp, active, queue, inFlight, throttling, started>>
ports == <<toWorker, toMain>>

vars == <<mode, admission, calls, worker, ports, postFaults>>

-----------------------------------------------------------------------------
(* The main thread.                                                        *)

BetweenTasks == granted = <<>> /\ resuming = {} /\ stopStage # "begun"

Count(pend, comp) == Cardinality(pend) + Cardinality(comp)

AdmissionClosed == sealed \/ lifecycle # "running" \/ workerFailed

SettleDrains(outcome) ==
    [c \in Callers |-> IF drains[c] = "waiting" THEN outcome ELSE drains[c]]

\* The first half of notifyDrainWaiters(): free capacity goes to one waiter.
Grants(pend, comp, wait, res) ==
    /\ ~AdmissionClosed
    /\ wait # <<>>
    /\ Count(pend, comp) + res < MaxPending

\* Fault: nobody is woken.
NotifyNobody(pend, comp, wait, res, gr) ==
    /\ waiters' = wait /\ reservations' = res /\ granted' = gr
    /\ UNCHANGED drains

\* Fault: drained although admissions wait for capacity.
IdleDespiteWaiters(pend, comp, wait, res) == Count(pend, comp) = 0

Idle(pend, comp, wait, res) ==
    Count(pend, comp) = 0 /\ wait = <<>> /\ res = 0

\* Fault: capacity goes to the newest waiter.
NotifyNewest(pend, comp, wait, res, gr) ==
    LET grants == Grants(pend, comp, wait, res) IN
    /\ waiters' = IF grants THEN SubSeq(wait, 1, Len(wait) - 1) ELSE wait
    /\ reservations' = IF grants THEN res + 1 ELSE res
    /\ granted' = IF grants THEN Append(gr, wait[Len(wait)]) ELSE gr
    /\ drains' = IF Idle(pend, comp, waiters', reservations')
                 THEN SettleDrains("done") ELSE drains

\* notifyDrainWaiters()
Notify(pend, comp, wait, res, gr) ==
    LET grants == Grants(pend, comp, wait, res) IN
    /\ waiters' = IF grants THEN Tail(wait) ELSE wait
    /\ reservations' = IF grants THEN res + 1 ELSE res
    /\ granted' = IF grants THEN Append(gr, Head(wait)) ELSE gr
    /\ drains' = IF workerFailed THEN SettleDrains("failed")
                 ELSE IF Idle(pend, comp, waiters', reservations')
                 THEN SettleDrains("done") ELSE drains

Refuse(p) == call' = [call EXCEPT ![p] = "failed"]

\* Fault: the gates are not looked at again after the wait for capacity.
MaySubmitUnchecked == Count(pending, completions) < MaxPending

MaySubmit == ~AdmissionClosed /\ Count(pending, completions) < MaxPending

\* The promise of enqueueMessageToWorkerQueue(), with res reservations left.
\* postMessage throws for options that cannot be cloned.
Submit(p, k, res, gr) ==
    \/ /\ ~MaySubmit
       /\ Refuse(p)
       /\ reservations' = res /\ granted' = gr
       /\ UNCHANGED <<pending, waiters, drains, toWorker, postFaults>>
    \/ /\ MaySubmit
       /\ call' = [call EXCEPT ![p] = "open"]
       /\ pending' = pending \cup {<<p, k>>}
       /\ toWorker' = Append(toWorker, <<p, k>>)
       /\ Notify(pending', completions, waiters, res, gr)
       /\ UNCHANGED postFaults
    \/ /\ MaySubmit
       /\ postFaults < MaxPostFaults
       /\ postFaults' = postFaults + 1
       /\ Refuse(p)
       /\ Notify(pending, completions, waiters, res, gr)
       /\ UNCHANGED <<pending, toWorker>>

\* Fault: capacity reserved for a granted waiter is given to a newcomer.
MustWaitUnreserved == waiters # <<>> \/ Count(pending, completions) >= MaxPending

MustWait ==
    waiters # <<>> \/ Count(pending, completions) + reservations >= MaxPending

\* enqueueMessageToWorkerQueue() up to its await.
Enqueue(p, k) ==
    /\ called' = Append(called, <<p, k>>)
    /\ UNCHANGED <<completions, toMain>>
    /\ \/ /\ Backpressure => ~AdmissionClosed /\ ~MustWait
          /\ Submit(p, k, reservations, granted)
       \/ /\ Backpressure /\ ~AdmissionClosed /\ MustWait
          /\ Len(waiters) < MaxWaiting
          /\ call' = [call EXCEPT ![p] = "open"]
          /\ Notify(pending, completions, Append(waiters, p), reservations, granted)
          /\ UNCHANGED <<pending, toWorker, postFaults>>
       \/ /\ Backpressure
          /\ AdmissionClosed \/ (MustWait /\ Len(waiters) >= MaxWaiting)
          /\ Refuse(p)
          /\ UNCHANGED <<pending, waiters, reservations, granted, drains,
                         toWorker, postFaults>>

PublishMessage(p) ==
    /\ call[p] = "idle"
    /\ size' = [size EXCEPT ![p] = 1]
    /\ part' = [part EXCEPT ![p] = 1]
    /\ Enqueue(p, 1)
    /\ UNCHANGED <<mode, worker, resuming>>

\* Building the packet of a part is asynchronous.
PublishMqttMessage(p, n) ==
    /\ call[p] = "idle"
    /\ size' = [size EXCEPT ![p] = n]
    /\ IF sealed THEN Refuse(p) /\ UNCHANGED resuming
       ELSE /\ call' = [call EXCEPT ![p] = "open"]
            /\ resuming' = resuming \cup {p}
    /\ UNCHANGED <<mode, admission, worker, ports, postFaults, part, called>>

EnqueueNextPart(p) ==
    /\ p \in resuming
    /\ resuming' = resuming \ {p}
    /\ part' = [part EXCEPT ![p] = part[p] + 1]
    /\ Enqueue(p, part[p] + 1)
    /\ UNCHANGED <<mode, worker, size>>

\* The rest of enqueueMessageToWorkerQueue(), once capacity was granted.
ContinueGranted ==
    /\ granted # <<>>
    /\ Submit(Head(granted), part[Head(granted)], reservations - 1, Tail(granted))
    /\ UNCHANGED <<mode, worker, completions, toMain, size, part, resuming, called>>

\* "enqueueAccepted": the call goes on with its next part, or is done.
HandleAnswer(m, accepted) ==
    /\ pending' = pending \ {m}
    /\ completions' = IF accepted THEN completions \cup {m} ELSE completions
    /\ call' = [call EXCEPT ![m[1]] =
                  IF ~accepted THEN "failed"
                  ELSE IF m[2] < size[m[1]] THEN "open" ELSE "done"]
    /\ resuming' = IF accepted /\ m[2] < size[m[1]]
                   THEN resuming \cup {m[1]} ELSE resuming
    /\ Notify(pending', completions', waiters, reservations, granted)

\* "publishResult", whatever its status.
HandleResult(m) ==
    /\ completions' = completions \ {m}
    /\ Notify(pending, completions', waiters, reservations, granted)
    /\ UNCHANGED <<pending, call, resuming>>

HandleMessage ==
    /\ BetweenTasks /\ toMain # <<>>
    /\ toMain' = Tail(toMain)
    /\ LET command == Head(toMain).command
           m == Head(toMain).msg
       IN \/ command = "publishResult" /\ HandleResult(m)
          \/ /\ command # "publishResult" /\ m \in pending
             /\ HandleAnswer(m, command = "accepted")
          \/ /\ command # "publishResult" /\ m \notin pending
             /\ UNCHANGED <<admission, call, resuming>>
    /\ UNCHANGED <<mode, worker, size, part, called, toWorker, postFaults>>

\* flush(), i.e. drainPublishes() of the RAM queue.
Flushed(c) ==
    [drains EXCEPT ![c] =
       IF workerFailed THEN "failed"
       ELSE IF Idle(pending, completions, waiters, reservations) THEN "done"
       ELSE "waiting"]

FlushCalled(c) ==
    /\ drains[c] # "waiting"
    /\ drains' = Flushed(c)
    /\ UNCHANGED <<mode, calls, worker, ports, postFaults, pending, completions,
                   waiters, reservations, granted>>

DrainTimesOut(c) ==
    /\ BetweenTasks /\ drains[c] = "waiting"
    /\ drains' = [drains EXCEPT ![c] = "failed"]
    /\ UNCHANGED <<mode, calls, worker, ports, postFaults, pending, completions,
                   waiters, reservations, granted>>

\* sealPublishes(): the fence of a completed migration drain.
SealPublishes ==
    /\ ~sealed
    /\ sealed' = TRUE
    /\ UNCHANGED <<admission, calls, worker, ports, postFaults, lifecycle,
                   stopStage, stopDrains, workerFailed>>

\* Fault: waiting admissions are forgotten instead of rejected.
RejectWaiting == {}

RejectedWaiters == Range(waiters)

\* rejectOutstandingPublishes()
RejectOutstanding ==
    /\ call' = [p \in Pubs |->
                  IF p \in RejectedWaiters \/ <<p, part[p]>> \in pending
                  THEN "failed" ELSE call[p]]
    /\ waiters' = <<>> /\ pending' = {} /\ completions' = {}
    /\ drains' = SettleDrains("failed")
    /\ UNCHANGED <<reservations, granted, size, part, resuming, called>>

\* failPendingPublishes(): "error" or "exit" of a worker nobody stopped.
FailureNoticed ==
    /\ BetweenTasks
    /\ ~workerUp /\ ~workerFailed /\ stopStage \notin {"terminating", "done"}
    /\ workerFailed' = TRUE
    /\ RejectOutstanding
    /\ UNCHANGED <<worker, ports, postFaults, lifecycle, stopStage, stopDrains,
                   sealed>>

Stop(drain) ==
    /\ stopStage = "no"
    /\ stopStage' = "begun"
    /\ lifecycle' = "stopping"
    /\ stopDrains' = drain
    /\ UNCHANGED <<admission, calls, worker, ports, postFaults, sealed, workerFailed>>

\* performStop() after super.stop(): flush, or go on to terminate().
StopBegins ==
    /\ stopStage = "begun"
    /\ drains' = IF stopDrains THEN Flushed(Stopper) ELSE drains
    /\ stopStage' = IF stopDrains THEN "draining" ELSE "terminating"
    /\ UNCHANGED <<calls, worker, ports, postFaults, pending, completions,
                   waiters, reservations, granted, lifecycle, stopDrains,
                   sealed, workerFailed>>

StopTerminates ==
    /\ stopStage = "draining" /\ drains[Stopper] # "waiting"
    /\ stopStage' = "terminating"
    /\ UNCHANGED <<admission, calls, worker, ports, postFaults, lifecycle,
                   stopDrains, sealed, workerFailed>>

\* worker.terminate() has returned.
StopEnds ==
    /\ BetweenTasks /\ stopStage = "terminating"
    /\ stopStage' = "done"
    /\ lifecycle' = "stopped"
    /\ workerUp' = FALSE
    /\ RejectOutstanding
    /\ UNCHANGED <<ports, postFaults, active, queue, inFlight, throttling,
                   started, stopDrains, sealed, workerFailed>>

-----------------------------------------------------------------------------
(* The worker thread.                                                      *)

Reply(command, m) == Append(toMain, [command |-> command, msg |-> m])

\* The loop of processQueue() from its top: shift and start publishing until
\* all slots are taken, or sleep for `delay` after the first.
Take(q, fl) ==
    LET room == Concurrency - Cardinality(fl)
        n == IF Delayed /\ q # <<>> /\ room > 0 THEN 1
             ELSE IF Len(q) < room THEN Len(q) ELSE room
    IN /\ queue' = SubSeq(q, n + 1, Len(q))
       /\ inFlight' = fl \cup {q[i] : i \in 1..n}
       /\ started' = started \o SubSeq(q, 1, n)
       /\ throttling' = (Delayed /\ n < Len(q) /\ n < room)

\* processQueue()
Process(q, fl, act) ==
    IF throttling \/ ~act
    THEN queue' = q /\ inFlight' = fl /\ UNCHANGED <<throttling, started>>
    ELSE Take(q, fl)

\* "enqueue": enqueueOrThrow() and the answer.
WorkerEnqueues ==
    /\ workerUp /\ toWorker # <<>>
    /\ toWorker' = Tail(toWorker)
    /\ IF Len(queue) + Cardinality(inFlight) >= MaxPending
       THEN /\ toMain' = Reply("refused", Head(toWorker))
            /\ UNCHANGED <<queue, inFlight, throttling, started>>
       ELSE /\ toMain' = Reply("accepted", Head(toWorker))
            /\ Process(Append(queue, Head(toWorker)), inFlight, active)
    /\ UNCHANGED <<mode, admission, calls, postFaults, workerUp, active>>

DelayElapses ==
    /\ workerUp /\ throttling
    /\ IF active THEN Take(queue, inFlight)
       ELSE throttling' = FALSE /\ UNCHANGED <<queue, inFlight, started>>
    /\ UNCHANGED <<mode, admission, calls, ports, postFaults, workerUp, active>>

\* publishFunction settles: with an error or not, main is told in the same way
\* and the slot is used again.
PublishSettles(m) ==
    /\ workerUp /\ m \in inFlight
    /\ toMain' = Reply("publishResult", m)
    /\ Process(queue, inFlight \ {m}, active)
    /\ UNCHANGED <<mode, admission, calls, postFaults, toWorker, workerUp, active>>

\* "setPublisherActive" and "setPublisherPassive".
SetActive ==
    /\ workerUp /\ ~active
    /\ active' = TRUE
    /\ Process(queue, inFlight, TRUE)
    /\ UNCHANGED <<mode, admission, calls, ports, postFaults, workerUp>>

SetPassive ==
    /\ workerUp /\ active
    /\ active' = FALSE
    /\ UNCHANGED <<mode, admission, calls, ports, postFaults, workerUp, queue,
                   inFlight, throttling, started>>

WorkerDies ==
    /\ WorkerMayFail /\ workerUp
    /\ workerUp' = FALSE
    /\ UNCHANGED <<mode, admission, calls, ports, postFaults, active, queue,
                   inFlight, throttling, started>>

-----------------------------------------------------------------------------

Init ==
    /\ lifecycle = "running" /\ stopStage = "no" /\ stopDrains = FALSE
    /\ sealed = FALSE /\ workerFailed = FALSE
    /\ pending = {} /\ completions = {} /\ waiters = <<>>
    /\ reservations = 0 /\ granted = <<>> /\ resuming = {}
    /\ drains = [c \in Callers |-> "none"]
    /\ call = [p \in Pubs |-> "idle"]
    /\ size = [p \in Pubs |-> 0] /\ part = [p \in Pubs |-> 0]
    /\ toWorker = <<>> /\ toMain = <<>>
    /\ workerUp = TRUE /\ active \in BOOLEAN
    /\ queue = <<>> /\ inFlight = {} /\ throttling = FALSE
    /\ postFaults = 0 /\ called = <<>> /\ started = <<>>

Publish == \E p \in Pubs :
    PublishMessage(p) \/ (\E n \in 1..Attrs : PublishMqttMessage(p, n))
Continue == ContinueGranted \/ \E p \in Pubs : EnqueueNextPart(p)
Flushing == \E c \in Flushers : FlushCalled(c)
TimingOut == \E c \in Callers : DrainTimesOut(c)
Stopping == (\E d \in BOOLEAN : Stop(d)) \/ StopBegins \/ StopTerminates \/ StopEnds
Settling == \E m \in inFlight : PublishSettles(m)

Next ==
    \/ Publish \/ Continue \/ HandleMessage
    \/ Flushing \/ TimingOut \/ SealPublishes \/ FailureNoticed \/ Stopping
    \/ WorkerEnqueues \/ DelayElapses \/ Settling
    \/ SetActive \/ SetPassive \/ WorkerDies

Spec == Init /\ [][Next]_vars

-----------------------------------------------------------------------------
(* Properties.                                                             *)

Replies(commands) == {r \in Range(toMain) : r.command \in commands}

TypeOK ==
    /\ lifecycle \in {"running", "stopping", "stopped"}
    /\ stopStage \in {"no", "begun", "draining", "terminating", "done"}
    /\ stopDrains \in BOOLEAN /\ sealed \in BOOLEAN /\ workerFailed \in BOOLEAN
    /\ pending \subseteq Msgs /\ completions \subseteq Msgs
    /\ waiters \in Seq(Pubs) /\ granted \in Seq(Pubs) /\ resuming \subseteq Pubs
    /\ reservations \in Nat
    /\ drains \in [Callers -> {"none", "waiting", "done", "failed"}]
    /\ call \in [Pubs -> {"idle", "open", "done", "failed"}]
    /\ size \in [Pubs -> 0..Attrs] /\ part \in [Pubs -> 0..Attrs]
    /\ toWorker \in Seq(Msgs)
    /\ toMain \in Seq([command : {"accepted", "refused", "publishResult"}, msg : Msgs])
    /\ workerUp \in BOOLEAN /\ active \in BOOLEAN /\ throttling \in BOOLEAN
    /\ queue \in Seq(Msgs) /\ inFlight \subseteq Msgs
    /\ postFaults \in 0..MaxPostFaults
    /\ called \in Seq(Msgs) /\ started \in Seq(Msgs)

\* The limit holds over both threads and the reservations between them: main
\* never tracks or promises more than maxPendingPublishes, so a waiter that was
\* granted capacity is not refused for lack of it and the worker, which counts
\* its own queue, never refuses what main has admitted.
PendingBounded ==
    /\ Count(pending, completions) + reservations <= MaxPending
    /\ reservations = Len(granted)
    /\ Replies({"refused"}) = {}

\* x asked for admission before y.
Before(x, y) ==
    \E a, b \in 1..Len(called) : a < b /\ called[a] = x /\ called[b] = y

Ordered(s) == \A i, j \in 1..Len(s) : i < j => Before(s[i], s[j])

\* Messages are handed to the transport in the order in which they asked for
\* admission: a newcomer never overtakes one that waits for capacity.
PublishedInCallOrder == Ordered(started)

\* Until the proxy is stopped, a flush succeeds only when every publish call that
\* has handed over, or stands in line with, at least one part has ended, all its
\* parts included, and the worker has no work left.  A publishMqttMessage() that is
\* still building its first packet is in none of the sets flush() looks at.
DrainMeansPublished ==
    [][\A c \in Callers :
         lifecycle # "stopped" /\ drains[c] # "done" /\ drains'[c] = "done" =>
            /\ \A p \in Pubs : call'[p] = "open" => call[p] = "idle" \/ part[p] = 0
            /\ toWorker' = <<>> /\ queue' = <<>> /\ inFlight' = {}]_vars

\* Once publishing is sealed, stopped or broken nothing is handed to the worker,
\* not even for a caller whose wait for capacity began before.
NothingAfterFence ==
    [][AdmissionClosed => Len(toWorker') <= Len(toWorker)]_vars

-----------------------------------------------------------------------------
(* Liveness.  Both event loops run, stop() has its drain timer, and every   *)
(* publish handed to the MQTT client settles.                               *)

Fairness ==
    /\ WF_vars(ContinueGranted) /\ \A p \in Pubs : WF_vars(EnqueueNextPart(p))
    /\ WF_vars(HandleMessage) /\ WF_vars(FailureNoticed)
    /\ WF_vars(StopBegins) /\ WF_vars(StopTerminates) /\ WF_vars(StopEnds)
    /\ WF_vars(DrainTimesOut(Stopper))
    /\ WF_vars(WorkerEnqueues) /\ WF_vars(DelayElapses) /\ WF_vars(Settling)

FairSpec == Spec /\ Fairness

\* Every publish call ends, waiting for capacity included, if the publisher is
\* in the end left active and admission is not sealed under the waiting caller.
CallsEnd ==
    <>[]active /\ []~sealed => <>[](\A p \in Pubs : call[p] # "open")

\* stop() ends and leaves no publish call and no flush unsettled.
StopSettlesAll ==
    lifecycle = "stopping" ~>
        /\ lifecycle = "stopped"
        /\ \A p \in Pubs : call[p] # "open"
        /\ \A c \in Flushers : drains[c] # "waiting"

=============================================================================
