------------------------------- MODULE Handover -------------------------------
(***************************************************************************)
(* State-preserving handover of MQTT ownership, protocol "correlated-v2":  *)
(* HandoverManager (uns/handover-manager.ts) of every process of one       *)
(* service, the subscriber queues it drives (ThrottledSubscriber,          *)
(* throttled-queue.ts, behind UnsMqttProxy and the worker) and the         *)
(* application's hooks.                                                    *)
(*                                                                         *)
(* First owns the service; every other process was started with a reviewed *)
(* handover id of its own (the process itself in this model).  A step is a *)
(* piece of code between two awaits.  Control messages are published on    *)
(* topics all processes hear: they may be lost, repeated and reordered.    *)
(* A packet of an input stream is its position in the stream.              *)
(***************************************************************************)
EXTENDS InputBoundary

CONSTANTS
    Procs, First,   \* the processes; the one that starts as owner
    Proxies,        \* UnsMqttProxy instances of a process
    None,
    Fingerprint,    \* [1..MaxInputs -> fingerprints], the packets of a stream
    MaxInputs,      \* bound: packets published per stream
    Before,         \* packets First has processed of each stream at the start
    TailLength,     \* lastProcessedItems keeps this many (10 in the code)
    PreviewLength,  \* an offer shows this many (100 in the code)
    Managed,        \* the proxies with managedInput: a packet is in flight until
                    \* its handler has ended
    MaxRequests,    \* request and its retries (16 in the code)
    MaxFins,        \* finRetry (30 in the code)
    MaxLosses,      \* bound: control messages lost
    MaxFailures,    \* bound: hooks, handlers, flushes, publishes that fail
    MaxCrashes      \* bound: processes that die

ASSUME HandoverAssumption ==
    /\ First \in Procs /\ None \notin Procs /\ Proxies # {}
    /\ MaxInputs \in Nat /\ Before \in 0..MaxInputs /\ DOMAIN Fingerprint = 1..MaxInputs
    /\ TailLength \in Nat \ {0} /\ PreviewLength \in Nat
    /\ Managed \subseteq Proxies
    /\ MaxRequests \in Nat /\ MaxFins \in Nat
    /\ MaxLosses \in Nat /\ MaxFailures \in Nat /\ MaxCrashes \in Nat

VARIABLES
    \* the input streams and the workers' subscriber queues
    published,   \* [Proxies -> Nat]
    next,        \* position of the next packet to deliver; 0: not subscribed
    queue,       \* ThrottledSubscriber.queue
    subActive,   \* ThrottledSubscriber.active
    inFlight,    \* the packet whose handler has not ended, or 0
    tail,        \* lastProcessedItems
    inputFailed, \* inputFailed, managedInputFailure
    resume,      \* preparedResume, or Refused
    toPassive,   \* setSubscriberPassive posted to these workers
    \* the application
    accepted,    \* inputs whose asynchronous work has not finished
    applied,     \* inputs the calculation state (lastValues...) accounts for
    handled,     \* History: the packets of each stream handed to an application
    \* HandoverManager as owner and source
    active,
    review,      \* the request under review (sourceReviewInFlight), or None
    peer,        \* sourcePeerId (and acceptedHandoverId), or None
    stage,       \* prepareSourceHandover()
    state,       \* preparedState (and stateDigest), or None
    fins,        \* how often finRetry has told anew, MaxFins when it is cleared
    exit,        \* finishSourceHandover() and the end of the process
    \* HandoverManager as successor
    expected,    \* expectedSourceId, None until requestingHandover
    requests,    \* how often the request was sent, MaxRequests when cleared
    target,      \* targetPreparation, targetStateApplied
    tstate,      \* the state under preparation or accepted (acceptedStateDigest)
    left,        \* proxies left in the loop of the present stage
    \* the control topics and the faults so far
    net, losses, failures, crashes

streams == <<published, handled>>
subscriber == <<queue, subActive, inFlight, tail, inputFailed, resume>>
application == <<accepted, applied>>
source == <<active, review, peer, stage, state, fins, exit>>
successor == <<expected, requests, target, tstate>>
faults == <<losses, failures, crashes>>

vars == <<streams, next, subscriber, toPassive, application, source, successor,
          left, net, faults>>

Alive(p) == exit[p] \in {"no", "finishing"}

Fails == failures < MaxFailures /\ failures' = failures + 1

\* The proxies of a process are worked through in a fixed order.
FirstOf(S) == CHOOSE x \in S : TRUE

Prints(positions) == [i \in DOMAIN positions |-> Fingerprint[positions[i]]]

-----------------------------------------------------------------------------
(* Input: the broker, the subscriber queue and the application.            *)

PublishInput(x) ==
    /\ published[x] < MaxInputs
    /\ published' = [published EXCEPT ![x] = @ + 1]
    /\ UNCHANGED <<handled, next, subscriber, toPassive, application, source,
                   successor, left, net, faults>>

Subscribe(p, x) ==
    /\ Alive(p) /\ next[p][x] = 0
    /\ next' = [next EXCEPT ![p][x] = published[x] + 1]
    /\ UNCHANGED <<streams, subscriber, toPassive, application, source,
                   successor, left, net, faults>>

\* enqueue()
Deliver(p, x) ==
    /\ Alive(p) /\ next[p][x] \in 1..published[x]
    /\ queue' = [queue EXCEPT ![p][x] = Append(@, next[p][x])]
    /\ next' = [next EXCEPT ![p][x] = @ + 1]
    /\ UNCHANGED <<streams, subActive, inFlight, tail, inputFailed, resume,
                   toPassive, application, source, successor, left, net, faults>>

\* The handler of an unmanaged input returns at once; its work goes on.
StartInput(p, x) ==
    /\ Alive(p) /\ subActive[p][x] /\ inFlight[p][x] = 0 /\ queue[p][x] # <<>>
    /\ queue' = [queue EXCEPT ![p][x] = Tail(@)]
    /\ LET i == Head(queue[p][x]) IN
       /\ handled' = [handled EXCEPT ![x] = Append(@, i)]
       /\ IF x \in Managed
          THEN inFlight' = [inFlight EXCEPT ![p][x] = i] /\ UNCHANGED <<tail, accepted>>
          ELSE /\ tail' = [tail EXCEPT ![p][x] = LastItems(Append(@, i), TailLength)]
               /\ accepted' = [accepted EXCEPT ![p] = @ \cup {<<x, i>>}]
               /\ UNCHANGED inFlight
    /\ UNCHANGED <<published, next, subActive, inputFailed, resume, toPassive,
                   applied, source, successor, left, net, faults>>

FinishInput(p, x) ==
    /\ Alive(p) /\ inFlight[p][x] # 0
    /\ inFlight' = [inFlight EXCEPT ![p][x] = 0]
    /\ tail' = [tail EXCEPT ![p][x] = LastItems(Append(@, inFlight[p][x]), TailLength)]
    /\ applied' = [applied EXCEPT ![p] = @ \cup {<<x, inFlight[p][x]>>}]
    /\ UNCHANGED <<streams, next, queue, subActive, inputFailed, resume, toPassive,
                   accepted, source, successor, left, net, faults>>

\* processItem() of a managed input: the packet is retained for review.
InputFails(p, x) ==
    /\ Alive(p) /\ inFlight[p][x] # 0 /\ Fails
    /\ inFlight' = [inFlight EXCEPT ![p][x] = 0]
    /\ queue' = [queue EXCEPT ![p][x] = <<inFlight[p][x]>> \o @]
    /\ subActive' = [subActive EXCEPT ![p][x] = FALSE]
    /\ inputFailed' = [inputFailed EXCEPT ![p][x] = TRUE]
    /\ UNCHANGED <<streams, next, tail, resume, toPassive, application, source,
                   successor, left, net, losses, crashes>>

\* Asynchronous work for an accepted input ends.
WorkEnds(p) ==
    /\ Alive(p)
    /\ \E w \in accepted[p] :
         /\ accepted' = [accepted EXCEPT ![p] = @ \ {w}]
         /\ applied' = [applied EXCEPT ![p] = @ \cup {w}]
    /\ UNCHANGED <<streams, next, subscriber, toPassive, source, successor, left,
                   net, faults>>

\* becomePassive(): the worker stops taking packets.
WorkerPassive(p, x) ==
    /\ Alive(p) /\ x \in toPassive[p]
    /\ toPassive' = [toPassive EXCEPT ![p] = @ \ {x}]
    /\ subActive' = [subActive EXCEPT ![p][x] = FALSE]
    /\ UNCHANGED <<streams, next, queue, inFlight, tail, inputFailed, resume,
                   application, source, successor, left, net, faults>>

-----------------------------------------------------------------------------
(* The successor asks.                                                     *)

\* A fresh "active" heartbeat of another process.
SeesHeartbeat(t, s) ==
    /\ Alive(t) /\ t # First /\ ~active[t] /\ expected[t] = None /\ peer[t] = None
    /\ s # t /\ Alive(s) /\ active[s]
    /\ expected' = [expected EXCEPT ![t] = s]
    /\ UNCHANGED <<streams, next, subscriber, toPassive, application, source,
                   requests, target, tstate, left, net, faults>>

\* getInputPreview() of every proxy; its subscriptions must be ready.
Previews(t) == [x \in Proxies |-> Prints(LastItems(queue[t][x], PreviewLength))]

SendRequest(t) ==
    /\ Alive(t) /\ expected[t] # None /\ target[t] = "none"
    /\ requests[t] < MaxRequests
    /\ \A x \in Proxies : next[t][x] # 0 /\ ~subActive[t][x]
    /\ requests' = [requests EXCEPT ![t] = @ + 1]
    /\ net' = net \cup {[type |-> "request", from |-> t, preview |-> Previews(t)]}
    /\ UNCHANGED <<streams, next, subscriber, toPassive, application, source,
                   expected, target, tstate, left, faults>>

-----------------------------------------------------------------------------
(* The owner reviews, freezes and hands over.                              *)

Fin(s) == [type |-> "fin", from |-> s, id |-> peer[s], state |-> state[s]]

\* canResumeInput()
CanResume(s, x, preview) ==
    /\ subActive[s][x] /\ ~inputFailed[s][x]
    /\ Boundary(Prints(tail[s][x]), preview) # Refused

HandleRequest(s, m) ==
    /\ Alive(s) /\ m.type = "request" /\ m.from # s
    /\ \/ /\ peer[s] = m.from /\ state[s] # None
          /\ net' = net \cup {Fin(s)}
          /\ UNCHANGED <<review, left>>
       \/ /\ peer[s] = None /\ active[s] /\ review[s] = None
          /\ review' = [review EXCEPT ![s] = m]
          /\ left' = [left EXCEPT ![s] = Proxies]
          /\ UNCHANGED net
    /\ UNCHANGED <<streams, next, subscriber, toPassive, application, active,
                   peer, stage, state, fins, exit, successor, faults>>

\* A worker's verdict; the last good one starts prepareSourceHandover().
ReviewReplies(s) ==
    /\ Alive(s) /\ review[s] # None
    /\ LET x == FirstOf(left[s])
           good == CanResume(s, x, review[s].preview[x])
           taken == good /\ left[s] = {x} /\ peer[s] = None /\ active[s]
       IN /\ left' = [left EXCEPT ![s] =
                        IF taken THEN Proxies ELSE IF good THEN @ \ {x} ELSE {}]
          /\ review' = [review EXCEPT ![s] =
                          IF good /\ left[s] # {x} THEN @ ELSE None]
          /\ peer' = [peer EXCEPT ![s] = IF taken THEN review[s].from ELSE @]
          /\ active' = [active EXCEPT ![s] = @ /\ ~taken]
          /\ stage' = [stage EXCEPT ![s] = IF taken THEN "freezing" ELSE @]
          /\ toPassive' = [toPassive EXCEPT ![s] =
                             IF taken THEN {FirstOf(Proxies)} ELSE @]
    /\ UNCHANGED <<streams, next, subscriber, application, state, fins, exit,
                   successor, net, faults>>

\* Fault: a packet in flight is not awaited.
QuietButInFlight(s, x) == x \notin toPassive[s]

\* becomePassive() has returned in the worker.
Quiet(s, x) == x \notin toPassive[s] /\ inFlight[s][x] = 0

\* setSubscriberPassiveAndDrainQueue() of one proxy is over.
ProxyFrozen(s) ==
    /\ Alive(s) /\ stage[s] = "freezing"
    /\ LET x == FirstOf(left[s])
           rest == left[s] \ {x}
       IN /\ Quiet(s, x)
          /\ IF inputFailed[s][x]
             THEN /\ stage' = [stage EXCEPT ![s] = "failed"]
                  /\ UNCHANGED <<left, toPassive>>
             ELSE /\ left' = [left EXCEPT ![s] = rest]
                  /\ stage' = [stage EXCEPT ![s] =
                                 IF rest = {} THEN "draining" ELSE @]
                  /\ toPassive' = [toPassive EXCEPT ![s] =
                                     IF rest = {} THEN @ ELSE {FirstOf(rest)}]
    /\ UNCHANGED <<streams, next, subscriber, application, active, review, peer,
                   state, fins, exit, successor, net, faults>>

\* Fault: the application's accepted work is not awaited.
DrainedEarly(s) == TRUE

\* shutdownHooks.drain()
Drained(s) == accepted[s] = {}

\* The rest of prepareSourceHandover(): drain, export, first FIN.  When its
\* publish fails the state stays prepared, but no retry is armed.
ExportState(s, sent) ==
    /\ Alive(s) /\ stage[s] = "draining" /\ Drained(s)
    /\ state' = [state EXCEPT ![s] =
                   [from |-> s, cursor |-> tail[s], base |-> applied[s]]]
    /\ IF sent
       THEN /\ stage' = [stage EXCEPT ![s] = "prepared"]
            /\ fins' = [fins EXCEPT ![s] = 0]
            /\ net' = net \cup {[type |-> "fin", from |-> s, id |-> peer[s],
                                 state |-> state'[s]]}
            /\ UNCHANGED failures
       ELSE /\ Fails
            /\ stage' = [stage EXCEPT ![s] = "failed"]
            /\ UNCHANGED <<fins, net>>
    /\ UNCHANGED <<streams, next, subscriber, toPassive, application, active,
                   review, peer, exit, successor, left, losses, crashes>>

\* A hook or a flush throws: the source stays passive, for review.
PreparationFails(s) ==
    /\ Alive(s) /\ stage[s] \in {"freezing", "draining"} /\ Fails
    /\ stage' = [stage EXCEPT ![s] = "failed"]
    /\ UNCHANGED <<streams, next, subscriber, toPassive, application, active,
                   review, peer, state, fins, exit, successor, left, net, losses,
                   crashes>>

\* Fault: the first FIN is the only one.
FinRetriesNever(s) == FALSE /\ UNCHANGED vars

\* A retry tells nothing new while the FIN before it can still be heard.
FinRetries(s) ==
    /\ exit[s] = "no" /\ stage[s] = "prepared" /\ fins[s] < MaxFins
    /\ Fin(s) \notin net
    /\ fins' = [fins EXCEPT ![s] = @ + 1]
    /\ net' = net \cup {Fin(s)}
    /\ UNCHANGED <<streams, next, subscriber, toPassive, application, active,
                   review, peer, stage, state, exit, successor, left, faults>>

Acknowledges(s, m) == m.from = peer[s] /\ state[s] # None /\ m.state = state[s]

HandleAck(s, m) ==
    /\ exit[s] = "no" /\ m.type = "ack" /\ stage[s] # "no"
    /\ Acknowledges(s, m)
    /\ fins' = [fins EXCEPT ![s] = MaxFins]
    /\ exit' = [exit EXCEPT ![s] = "finishing"]
    /\ UNCHANGED <<streams, next, subscriber, toPassive, application, active,
                   review, peer, stage, state, successor, left, net, faults>>

\* finishSourceHandover(): drain and stops; a rejected preparation, a failure or
\* the timeout end the process without a receipt.
FinishSource(s, clean) ==
    /\ exit[s] = "finishing"
    /\ IF stage[s] = "failed" THEN ~clean /\ UNCHANGED failures
       ELSE IF clean THEN Drained(s) /\ UNCHANGED failures
       ELSE Fails
    /\ exit' = [exit EXCEPT ![s] = IF clean THEN "clean" ELSE "incomplete"]
    /\ UNCHANGED <<streams, next, subscriber, toPassive, application, active,
                   review, peer, stage, state, fins, successor, left, net, losses,
                   crashes>>

-----------------------------------------------------------------------------
(* The successor takes over.                                               *)

FinIsFor(t, m) ==
    /\ peer[t] = None /\ expected[t] # None
    /\ m.id = t /\ m.from = expected[t]

Ack(t) == [type |-> "ack", from |-> t, state |-> tstate[t]]

\* Fault: a duplicate FIN is acknowledged before the takeover.
MayAckEarly(t) == target[t] # "none"

MayAck(t) == target[t] = "accepted"

\* A FIN starts one preparation; a duplicate after it only replays the receipt.
HandleFin(t, m) ==
    /\ Alive(t) /\ m.type = "fin" /\ FinIsFor(t, m)
    /\ target[t] = "accepted" => m.state = tstate[t]
    /\ requests' = [requests EXCEPT ![t] = MaxRequests]
    /\ IF target[t] = "none"
       THEN /\ target' = [target EXCEPT ![t] = "preparing"]
            /\ tstate' = [tstate EXCEPT ![t] = m.state]
            /\ left' = [left EXCEPT ![t] = Proxies]
       ELSE UNCHANGED <<target, tstate, left>>
    /\ net' = IF MayAck(t) THEN net \cup {Ack(t)} ELSE net
    /\ UNCHANGED <<streams, next, subscriber, toPassive, application, source,
                   expected, faults>>

\* prepareHandoverResume() of one proxy, read-only: a refusal waits for the
\* next FIN.
PrepareProxy(t) ==
    /\ Alive(t) /\ target[t] = "preparing"
    /\ LET x == FirstOf(left[t])
           skip == Boundary(Prints(tstate[t].cursor[x]), Prints(queue[t][x]))
           rest == left[t] \ {x}
       IN /\ resume' = [resume EXCEPT ![t][x] = skip]
          /\ left' = [left EXCEPT ![t] = IF skip = Refused THEN {} ELSE rest]
          /\ target' = [target EXCEPT ![t] =
                          IF skip = Refused THEN "none"
                          ELSE IF rest = {} THEN "applying" ELSE @]
    /\ UNCHANGED <<streams, next, queue, subActive, inFlight, tail, inputFailed,
                   toPassive, application, source, expected, requests, tstate,
                   net, faults>>

\* The import of calculation and application state, then onActivate(): the
\* effect of a failure is unknown, so nothing is tried again.
ImportState(t) ==
    /\ Alive(t) /\ target[t] = "applying"
    /\ applied' = [applied EXCEPT ![t] = tstate[t].base]
    /\ target' = [target EXCEPT ![t] = "activating"]
    /\ left' = [left EXCEPT ![t] = Proxies]
    /\ UNCHANGED <<streams, next, subscriber, toPassive, accepted, source,
                   expected, requests, tstate, net, faults>>

ImportFails(t) ==
    /\ Alive(t) /\ target[t] = "applying" /\ Fails
    /\ target' = [target EXCEPT ![t] = "failed"]
    /\ \/ UNCHANGED toPassive
       \/ toPassive' = [toPassive EXCEPT ![t] = Proxies]
    /\ UNCHANGED <<streams, next, subscriber, application, source, expected,
                   requests, tstate, left, net, losses, crashes>>

\* Fault: the shared packets are not skipped.
ResumedFromStart(t, x) ==
    /\ UNCHANGED queue
    /\ resume' = [resume EXCEPT ![t][x] = Refused]
    /\ subActive' = [subActive EXCEPT ![t][x] = TRUE]

\* activatePreparedResume() in the worker
Resumed(t, x) ==
    /\ queue' = [queue EXCEPT ![t][x] =
                   SubSeq(@, resume[t][x] + 1, Len(@))]
    /\ resume' = [resume EXCEPT ![t][x] = Refused]
    /\ subActive' = [subActive EXCEPT ![t][x] = TRUE]

\* activateHandoverResume() of one proxy; with the last the successor owns.
ActivateProxy(t) ==
    /\ Alive(t) /\ target[t] = "activating"
    /\ LET x == FirstOf(left[t])
           last == left[t] = {x}
       IN /\ ~subActive[t][x] /\ resume[t][x] # Refused
          /\ Resumed(t, x)
          /\ left' = [left EXCEPT ![t] = @ \ {x}]
          /\ target' = [target EXCEPT ![t] = IF last THEN "accepted" ELSE @]
          /\ active' = [active EXCEPT ![t] = @ \/ last]
          /\ net' = IF last THEN net \cup {Ack(t)} ELSE net
    /\ UNCHANGED <<streams, next, inFlight, tail, inputFailed, toPassive,
                   application, review, peer, stage, state, fins, exit, expected,
                   requests, tstate, faults>>

\* Fault: a failed activation leaves the inputs as they are.
ActivationFailsOpen(t) ==
    /\ Alive(t) /\ target[t] = "activating" /\ Fails
    /\ target' = [target EXCEPT ![t] = "failed"]
    /\ \/ Resumed(t, FirstOf(left[t]))
       \/ UNCHANGED <<queue, resume, subActive>>
    /\ UNCHANGED <<streams, next, toPassive, inFlight, tail, inputFailed,
                   application, source, expected, requests, tstate, left, net,
                   losses, crashes>>

\* The control fails or times out, before or after its effect: every input is
\* made passive again (deactivateApplication).
ActivationFails(t) ==
    /\ Alive(t) /\ target[t] = "activating" /\ Fails
    /\ target' = [target EXCEPT ![t] = "failed"]
    /\ toPassive' = [toPassive EXCEPT ![t] = Proxies]
    /\ \/ Resumed(t, FirstOf(left[t]))
       \/ UNCHANGED <<queue, resume, subActive>>
    /\ UNCHANGED <<streams, next, inFlight, tail, inputFailed, application, source,
                   expected, requests, tstate, left, net, losses, crashes>>

-----------------------------------------------------------------------------

Lose(m) ==
    /\ losses < MaxLosses /\ losses' = losses + 1
    /\ net' = net \ {m}
    /\ UNCHANGED <<streams, next, subscriber, toPassive, application, source,
                   successor, left, failures, crashes>>

Crash(p) ==
    /\ Alive(p) /\ crashes < MaxCrashes /\ crashes' = crashes + 1
    /\ exit' = [exit EXCEPT ![p] = "crashed"]
    /\ UNCHANGED <<streams, next, subscriber, toPassive, application, active,
                   review, peer, stage, state, fins, successor, left, net, losses,
                   failures>>

PerProxy(v) == [p \in Procs |-> [x \in Proxies |-> v]]

Init ==
    /\ published = [x \in Proxies |-> Before]
    /\ handled = [x \in Proxies |-> [i \in 1..Before |-> i]]
    /\ next = [p \in Procs |-> [x \in Proxies |-> IF p = First THEN Before + 1 ELSE 0]]
    /\ queue = PerProxy(<<>>) /\ inFlight = PerProxy(0)
    /\ tail = [p \in Procs |-> [x \in Proxies |->
                 IF p = First THEN LastItems(handled[x], TailLength) ELSE <<>>]]
    /\ subActive = [p \in Procs |-> [x \in Proxies |-> p = First]]
    /\ inputFailed = PerProxy(FALSE) /\ resume = PerProxy(Refused)
    /\ toPassive = [p \in Procs |-> {}]
    /\ accepted = [p \in Procs |-> {}]
    /\ applied = [p \in Procs |-> IF p = First THEN Proxies \X (1..Before) ELSE {}]
    /\ active = [p \in Procs |-> p = First]
    /\ review = [p \in Procs |-> None] /\ peer = [p \in Procs |-> None]
    /\ stage = [p \in Procs |-> "no"] /\ state = [p \in Procs |-> None]
    /\ fins = [p \in Procs |-> 0] /\ exit = [p \in Procs |-> "no"]
    /\ expected = [p \in Procs |-> None] /\ requests = [p \in Procs |-> 0]
    /\ target = [p \in Procs |-> "none"] /\ tstate = [p \in Procs |-> None]
    /\ left = [p \in Procs |-> {}]
    /\ net = {} /\ losses = 0 /\ failures = 0 /\ crashes = 0

Input == \E x \in Proxies :
    \/ PublishInput(x)
    \/ \E p \in Procs : \/ Subscribe(p, x) \/ Deliver(p, x) \/ StartInput(p, x)
                        \/ FinishInput(p, x) \/ InputFails(p, x)
                        \/ WorkerPassive(p, x)
Work == \E p \in Procs : WorkEnds(p)
Ask == \E t \in Procs : SendRequest(t) \/ \E s \in Procs : SeesHeartbeat(t, s)
Release == \E s \in Procs :
    \/ ReviewReplies(s) \/ ProxyFrozen(s) \/ PreparationFails(s) \/ FinRetries(s)
    \/ \E ok \in BOOLEAN : ExportState(s, ok) \/ FinishSource(s, ok)
TakeOver == \E t \in Procs :
    \/ PrepareProxy(t) \/ ImportState(t) \/ ImportFails(t)
    \/ ActivateProxy(t) \/ ActivationFails(t)
Message == \E m \in net :
    \/ Lose(m)
    \/ \E p \in Procs : HandleRequest(p, m) \/ HandleFin(p, m) \/ HandleAck(p, m)
Crashes == \E p \in Procs : Crash(p)

Next == Input \/ Work \/ Ask \/ Release \/ TakeOver \/ Message \/ Crashes

Spec == Init /\ [][Next]_vars

-----------------------------------------------------------------------------
(* Properties.                                                             *)

States == [from : Procs, cursor : [Proxies -> Seq(1..MaxInputs)],
           base : SUBSET (Proxies \X (1..MaxInputs))]

ASSUME NoneIsNoState == None \notin States

TypeOK ==
    /\ published \in [Proxies -> 0..MaxInputs]
    /\ handled \in [Proxies -> Seq(1..MaxInputs)]
    /\ next \in [Procs -> [Proxies -> 0..MaxInputs + 1]]
    /\ queue \in [Procs -> [Proxies -> Seq(1..MaxInputs)]]
    /\ subActive \in [Procs -> [Proxies -> BOOLEAN]]
    /\ inFlight \in [Procs -> [Proxies -> 0..MaxInputs]]
    /\ tail \in [Procs -> [Proxies -> Seq(1..MaxInputs)]]
    /\ inputFailed \in [Procs -> [Proxies -> BOOLEAN]]
    /\ resume \in [Procs -> [Proxies -> {Refused} \cup 0..MaxInputs]]
    /\ toPassive \in [Procs -> SUBSET Proxies] /\ left \in [Procs -> SUBSET Proxies]
    /\ accepted \in [Procs -> SUBSET (Proxies \X (1..MaxInputs))]
    /\ applied \in [Procs -> SUBSET (Proxies \X (1..MaxInputs))]
    /\ active \in [Procs -> BOOLEAN] /\ peer \in [Procs -> Procs \cup {None}]
    /\ \A p \in Procs : review[p] # None => review[p] \in net \/ losses > 0
    /\ stage \in [Procs -> {"no", "freezing", "draining", "prepared", "failed"}]
    /\ state \in [Procs -> States \cup {None}]
    /\ tstate \in [Procs -> States \cup {None}]
    /\ fins \in [Procs -> 0..MaxFins] /\ requests \in [Procs -> 0..MaxRequests]
    /\ exit \in [Procs -> {"no", "finishing", "clean", "incomplete", "crashed"}]
    /\ expected \in [Procs -> Procs \cup {None}]
    /\ target \in [Procs -> {"none", "preparing", "applying", "activating",
                             "accepted", "failed"}]
    /\ losses \in 0..MaxLosses /\ failures \in 0..MaxFailures
    /\ crashes \in 0..MaxCrashes

Consumes(p) ==
    Alive(p) /\ \E x \in Proxies : subActive[p][x] \/ inFlight[p][x] # 0

\* At no moment do two processes take input: whatever is lost, repeated, late or
\* failing, a successor opens its inputs only after the owner's are shut and its
\* last packet is through.
SingleConsumer == \A p, q \in Procs : Consumes(p) /\ Consumes(q) => p = q

HandledInOrder(x) == handled[x] = [i \in DOMAIN handled[x] |-> i]

\* Across any number of handovers each stream is handled in order, every packet
\* once and none skipped, if the packets have distinct fingerprints and no owner
\* was asked to release a stream before it had processed a packet of it.
HandledOnceInOrder ==
    \A x \in Proxies :
        (\A s \in Procs : state[s] # None => state[s].cursor[x] # <<>>) => HandledInOrder(x)

\* The calculation state of the owner accounts for every packet any owner has
\* handled: the baseline it imported was taken after the last of them.
StateIsComplete ==
    \A p \in Procs : active[p] /\ Alive(p) =>
        \A x \in Proxies : \A i \in Range(handled[x]) :
            \/ <<x, i>> \in applied[p] \cup accepted[p]
            \/ i = inFlight[p][x]
            \/ inputFailed[p][x] /\ i = Head(queue[p][x])

\* A source reports a clean end only when the peer it chose took over exactly
\* the state it sent, and none of its own work is left.
CleanEndMeansTaken ==
    \A s \in Procs : exit[s] = "clean" =>
        /\ target[peer[s]] = "accepted" /\ tstate[peer[s]] = state[s]
        /\ accepted[s] = {}

-----------------------------------------------------------------------------
(* Liveness: the processes and the broker go on, fewer messages are lost     *)
(* than retried, and every packet of a subscribed stream is delivered.       *)

Fairness ==
    /\ \A p \in Procs, x \in Proxies :
         WF_vars(Deliver(p, x)) /\ WF_vars(FinishInput(p, x)) /\ WF_vars(WorkerPassive(p, x))
    /\ \A p \in Procs :
         /\ WF_vars(WorkEnds(p)) /\ WF_vars(ReviewReplies(p)) /\ WF_vars(ProxyFrozen(p))
         /\ WF_vars(ExportState(p, TRUE)) /\ WF_vars(FinRetries(p))
         /\ WF_vars(FinishSource(p, TRUE))
         /\ WF_vars(PrepareProxy(p)) /\ WF_vars(ImportState(p)) /\ WF_vars(ActivateProxy(p))
         /\ WF_vars(\E m \in net : HandleFin(p, m)) /\ WF_vars(\E m \in net : HandleAck(p, m))

FairSpec == Spec /\ Fairness

\* Unless something fails, an owner that released its inputs is succeeded and
\* ends cleanly (it had processed a packet of each stream: Before > 0).
ReleaseIsSucceeded ==
    \A s \in Procs :
        stage[s] # "no" ~>
            \/ exit[s] = "clean" /\ target[peer[s]] = "accepted"
            \/ failures > 0 \/ crashes > 0

\* A takeover that failed ends with every input of the successor passive.
FailureEndsPassive ==
    \A t \in Procs :
        target[t] = "failed" ~>
            \/ [](\A x \in Proxies : ~subActive[t][x])
            \/ ~Alive(t)

=============================================================================
