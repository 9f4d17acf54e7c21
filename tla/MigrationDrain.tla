---------------------------- MODULE MigrationDrain ----------------------------
(***************************************************************************)
(* The end of a service process: UnsProxyProcess.drainForMigration() and   *)
(* shutdown() (uns/uns-proxy-process.ts) over drainMqttForMigration()      *)
(* (runtime/mqtt-drain.ts), called by signals, the controller's            *)
(* cooperative stop and the migration host.                                *)
(*                                                                         *)
(* A call made while migrationDrainPromise is set shares its attempt and   *)
(* changes nothing.  The work of an attempt that timed out goes on and may *)
(* overlap the next one: an attempt has one of the slots Attempts until    *)
(* its work has ended.  Output is a set of work items; each is with the    *)
(* application, in an output proxy, or at an end.                          *)
(***************************************************************************)
EXTENDS Naturals, FiniteSets

CONSTANTS
    Outputs,       \* unsMqttProxies
    Persistent,    \* those with a publishQueue
    Managed,       \* those with managedInput
    Work,          \* bound: inputs and background jobs accepted
    Attempts,      \* bound: attempts whose work overlaps
    NoAttempt,
    AppShutdown,   \* the application may call shutdown() itself
    MaxFaults      \* bound: hooks, controls and stops that fail, early timers

Fates == {"none", "app", "published", "failed", "refused", "lost", "disk"}

ASSUME MigrationDrainAssumption ==
    /\ Persistent \subseteq Outputs /\ Managed \subseteq Outputs /\ Outputs # {} /\ Outputs \cap Fates = {}
    /\ NoAttempt \notin Attempts
    /\ AppShutdown \in BOOLEAN /\ MaxFaults \in Nat

VARIABLES
    where,       \* the state of each work item, or the output that holds it
    background,  \* the application admits background work (until onRelease)
    inputOpen,   \* the subscriber of a proxy takes input
    sealed,      \* publishesSealed
    stop,        \* stop() of a proxy: "no" | "running" | "rejected" | "stopped"
    destination, \* the broker the outputs publish to is reachable
    hosted,      \* somebody asks for a drain until there is a receipt
    drainPromise,     \* migrationDrainPromise: its attempt, or NoAttempt
    stage,       \* the work of an attempt, "idle" when it has ended
    todo,        \* proxies the present stage still waits for
    expired,     \* expired: the timer has rejected the attempt
    shutdown,    \* shutdownPromise and how far performShutdown() has come
    drains,      \* options.drain of the call that made shutdownPromise
    errors,      \* shutdownErrors # []
    receipt,     \* an attempt has returned its receipt
    failures

attemptVars == <<drainPromise, stage, todo, expired>>
closingVars == <<shutdown, drains, errors, stop>>
environment == <<destination, hosted>>
drainVars == <<where, background, inputOpen, sealed, environment, attemptVars,
               closingVars, receipt, failures>>

Fails == failures < MaxFaults /\ failures' = failures + 1

Held(o) == {w \in Work : where[w] = o}

Alive(o) == stop[o] # "stopped"

-----------------------------------------------------------------------------
(* The application and its outputs.                                        *)

Accept(w) ==
    /\ where[w] = "none"
    /\ background \/ \E o \in Outputs : inputOpen[o] /\ Alive(o)
    /\ where' = [where EXCEPT ![w] = "app"]
    /\ UNCHANGED <<background, inputOpen, sealed, environment, attemptVars, closingVars,
                   receipt, failures>>

\* Accepted work ends with a publication, which its output may refuse.
HandOver(w, o) ==
    /\ where[w] = "app"
    /\ where' = [where EXCEPT ![w] =
                   IF sealed[o] \/ stop[o] # "no" THEN "refused" ELSE o]
    /\ UNCHANGED <<background, inputOpen, sealed, environment, attemptVars, closingVars,
                   receipt, failures>>

Delivered(w) ==
    /\ destination
    /\ where[w] \in Outputs /\ Alive(where[w])
    /\ where' = [where EXCEPT ![w] = "published"]
    /\ UNCHANGED <<background, inputOpen, sealed, environment, attemptVars, closingVars,
                   receipt, failures>>

\* The worker of a RAM output gives up a send after five seconds without a
\* connection.  Its publication is forgotten, with an error event.
SendFails(w) ==
    /\ ~destination
    /\ where[w] \in Outputs \ Persistent /\ Alive(where[w])
    /\ where' = [where EXCEPT ![w] = "failed"]
    /\ UNCHANGED <<background, inputOpen, sealed, environment, attemptVars, closingVars,
                   receipt, failures>>

DestinationChanges ==
    /\ destination' = ~destination
    /\ UNCHANGED <<hosted, where, background, inputOpen, sealed, attemptVars, closingVars,
                   receipt, failures>>

-----------------------------------------------------------------------------
(* One attempt of drainForMigration().                                     *)

DrainCalled(a) ==
    /\ hosted /\ ~receipt /\ drainPromise = NoAttempt /\ stage[a] = "idle"
    /\ drainPromise' = a
    /\ stage' = [stage EXCEPT ![a] = "quiescing"]
    /\ todo' = [todo EXCEPT ![a] = Outputs]
    /\ expired' = [expired EXCEPT ![a] = FALSE]
    /\ background' = FALSE
    /\ UNCHANGED <<where, inputOpen, sealed, environment, closingVars, receipt, failures>>

\* A RAM output counts what it has not heard of: sends that failed are none, nor
\* is what a stop has dropped.  A queue whose worker is gone does not answer.
FlushEnds(o) == Held(o) = {} /\ (o \in Persistent => Alive(o))

\* The worker pauses the subscriptions or makes its subscriber passive.
CloseInput(a, o) ==
    /\ stage[a] = "quiescing" /\ o \in todo[a]
    /\ Alive(o) /\ inputOpen[o]
    /\ inputOpen' = [inputOpen EXCEPT ![o] = FALSE]
    /\ UNCHANGED <<where, background, sealed, environment, attemptVars, closingVars,
                   receipt, failures>>

\* drainInputForStop() of a proxy returns; a terminated worker never answers.
InputDrained(o) == ~inputOpen[o] /\ Alive(o) /\ (o \in Managed \/ FlushEnds(o))

Quiesce(a, o) ==
    /\ stage[a] = "quiescing" /\ o \in todo[a] /\ InputDrained(o)
    /\ todo' = [todo EXCEPT ![a] = @ \ {o}]
    /\ stage' = [stage EXCEPT ![a] = IF todo[a] = {o} THEN "finishing" ELSE @]
    /\ UNCHANGED <<where, background, inputOpen, sealed, environment, drainPromise,
                   expired, closingVars, receipt, failures>>

\* Fault: the application's accepted work is not awaited.
AcceptedFinishedEarly == TRUE

\* handoverShutdown.drain(): the application's hook reports a refused publication.
AcceptedFinished == \A w \in Work : where[w] \notin {"app", "refused"}

Finish(a) ==
    /\ stage[a] = "finishing" /\ AcceptedFinished
    /\ stage' = [stage EXCEPT ![a] = "flushing"]
    /\ todo' = [todo EXCEPT ![a] = Outputs]
    /\ UNCHANGED <<where, background, inputOpen, sealed, environment, drainPromise,
                   expired, closingVars, receipt, failures>>

\* One of several flushes ends; the last one is part of Seal or SealRefused.
Flush(a, o) ==
    /\ stage[a] = "flushing" /\ o \in todo[a] /\ todo[a] # {o} /\ FlushEnds(o)
    /\ todo' = [todo EXCEPT ![a] = @ \ {o}]
    /\ UNCHANGED <<where, background, inputOpen, sealed, environment, drainPromise,
                   stage, expired, closingVars, receipt, failures>>

Flushed(a) == stage[a] = "flushing" /\ \A o \in todo[a] : todo[a] = {o} /\ FlushEnds(o)

\* Fault: a failed attempt stays the one that every call returns.
RejectKeepsPromise(a) ==
    /\ stage' = [stage EXCEPT ![a] = "idle"]
    /\ todo' = [todo EXCEPT ![a] = {}]
    /\ expired' = [expired EXCEPT ![a] = FALSE]
    /\ UNCHANGED <<where, background, inputOpen, sealed, environment, closingVars, receipt,
                   drainPromise>>

\* The work of attempt a throws; its caller is told unless the timer has done so.
Reject(a) ==
    /\ stage' = [stage EXCEPT ![a] = "idle"]
    /\ todo' = [todo EXCEPT ![a] = {}]
    /\ expired' = [expired EXCEPT ![a] = FALSE]
    /\ drainPromise' = IF drainPromise = a THEN NoAttempt ELSE drainPromise
    /\ UNCHANGED <<where, background, inputOpen, sealed, environment, closingVars, receipt>>

\* The application reports refused work, a stop has rejected the flush that a
\* quiescing proxy waited for, or another step throws.
WorkFails(a) ==
    /\ stage[a] \in {"quiescing", "finishing", "flushing"}
    /\ \/ Fails
       \/ /\ \/ stage[a] = "finishing" /\ \E w \in Work : where[w] = "refused"
             \/ /\ stage[a] = "quiescing"
                /\ \E o \in todo[a] \ (Managed \cup Persistent) : ~inputOpen[o] /\ ~Alive(o)
          /\ UNCHANGED failures
    /\ Reject(a)

MaySeal(a) == ~expired[a] /\ \A o \in Persistent : Held(o) = {}

\* The final checks, all fences, and shutdown(), without an await in between.
Seal(a) ==
    /\ Flushed(a) /\ MaySeal(a)
    /\ sealed' = [o \in Outputs |-> TRUE]
    /\ stage' = [stage EXCEPT ![a] = "closing"]
    /\ todo' = [todo EXCEPT ![a] = {}]
    /\ shutdown' = IF shutdown = "no" THEN "participants" ELSE shutdown
    /\ UNCHANGED <<where, background, inputOpen, environment, drainPromise, expired,
                   drains, errors, stop, receipt, failures>>

SealRefused(a) ==
    /\ Flushed(a) /\ ~MaySeal(a)
    /\ Reject(a)
    /\ UNCHANGED failures

\* What attempt a awaits has not come, so its timer fires rather than late.
Blocked(a) ==
    \/ stage[a] = "quiescing" /\ \A o \in todo[a] : ~InputDrained(o) /\ ~(inputOpen[o] /\ Alive(o))
    \/ stage[a] = "finishing" /\ ~AcceptedFinished
    \/ stage[a] = "flushing" /\ \A o \in todo[a] : ~FlushEnds(o)

\* The attempt is rejected; its work goes on.
Timer(a) ==
    /\ stage[a] \in {"quiescing", "finishing", "flushing"} /\ ~expired[a]
    /\ IF Blocked(a) THEN UNCHANGED failures ELSE Fails
    /\ expired' = [expired EXCEPT ![a] = TRUE]
    /\ drainPromise' = NoAttempt
    /\ UNCHANGED <<where, background, inputOpen, sealed, environment, stage, todo,
                   closingVars, receipt>>

\* What an expired attempt still awaits fails, or never comes: its work is over.
LateWorkFails(a) ==
    /\ expired[a] /\ Blocked(a)
    /\ Reject(a)
    /\ UNCHANGED failures

\* The awaited shutdown() has settled.
Return(a) ==
    /\ stage[a] = "closing" /\ shutdown \in {"done", "failed"}
    /\ stage' = [stage EXCEPT ![a] = "idle"]
    /\ receipt' = (shutdown = "done")
    /\ drainPromise' = IF receipt' THEN drainPromise ELSE NoAttempt
    /\ UNCHANGED <<where, background, inputOpen, sealed, environment, todo, expired,
                   closingVars, failures>>

-----------------------------------------------------------------------------
(* shutdown(), by an attempt or by the application: one promise for ever,  *)
(* with the options of the call that came first.  An attempt asks to drain. *)

ShutdownCalled ==
    /\ AppShutdown /\ shutdown = "no"
    /\ shutdown' = "participants"
    /\ drains' \in BOOLEAN
    /\ UNCHANGED <<where, background, inputOpen, sealed, environment, attemptVars,
                   errors, stop, receipt, failures>>

\* Lifecycle participants and API proxies; errors are collected.  Then all
\* proxies stop at once: publications are refused from here on.
ParticipantsEnd ==
    /\ shutdown = "participants"
    /\ shutdown' = "outputs"
    /\ \/ UNCHANGED <<errors, failures>>
       \/ errors' = TRUE /\ Fails
    /\ stop' = [o \in Outputs |-> "running"]
    /\ UNCHANGED <<where, background, inputOpen, sealed, environment, attemptVars, receipt,
                   drains>>

\* terminate(): RAM output is dropped; a publish queue is closed before and
\* keeps its records on disk.
Abandon(o) ==
    where' = [w \in Work |-> IF where[w] # o THEN where[w]
                             ELSE IF o \in Persistent THEN "disk" ELSE "lost"]

\* rejectOutstandingPublishes(): the attempts that wait for RAM output o fail.
RejectWaiting(o) ==
    LET waiting == {a \in Attempts : /\ stage[a] = "flushing" /\ o \in todo[a]
                                     /\ o \notin Persistent /\ Held(o) # {}}
    IN /\ stage' = [a \in Attempts |-> IF a \in waiting THEN "idle" ELSE stage[a]]
       /\ todo' = [a \in Attempts |-> IF a \in waiting THEN {} ELSE todo[a]]
       /\ expired' = [a \in Attempts |-> expired[a] /\ a \notin waiting]
       /\ drainPromise' = IF drainPromise \in waiting THEN NoAttempt ELSE drainPromise

\* Fault: the flush error is not thrown.
StopForgetsError(o) ==
    /\ stop[o] = "running"
    /\ stop' = [stop EXCEPT ![o] = "stopped"]
    /\ Abandon(o) /\ RejectWaiting(o)
    /\ UNCHANGED <<background, inputOpen, sealed, environment, receipt, shutdown, drains,
                   failures, errors>>

\* performStop(): a flush, unless it is told not to; terminate(), whatever the
\* flush has come to.  Only a flush, or terminate(), has an error to report.
StopEnds(o) ==
    /\ stop[o] = "running"
    /\ stop' = [stop EXCEPT ![o] = "stopped"]
    /\ Abandon(o) /\ RejectWaiting(o)
    /\ \/ (Held(o) = {} \/ ~drains) /\ UNCHANGED <<failures, errors>>
       \/ drains /\ Held(o) # {} /\ ~destination /\ errors' = TRUE /\ UNCHANGED failures
       \/ Fails /\ errors' = TRUE
    /\ UNCHANGED <<background, inputOpen, sealed, environment, receipt, shutdown, drains>>

\* closePublisher is rejected: the worker is kept for another stop().
CloseRejected(o) ==
    /\ stop[o] = "running" /\ o \in Persistent /\ Fails
    /\ stop' = [stop EXCEPT ![o] = "rejected"]
    /\ errors' = TRUE
    /\ UNCHANGED <<where, background, inputOpen, sealed, environment, attemptVars,
                   receipt, shutdown, drains>>

\* All proxies have settled; the process's own MQTT client is stopped last.
ShutdownEnds ==
    /\ shutdown = "outputs" /\ \A o \in Outputs : stop[o] # "running"
    /\ \/ errors /\ shutdown' = "failed" /\ UNCHANGED <<errors, failures>>
       \/ ~errors /\ shutdown' = "done" /\ UNCHANGED <<errors, failures>>
       \/ ~errors /\ shutdown' = "failed" /\ errors' = TRUE /\ Fails
    /\ UNCHANGED <<where, background, inputOpen, sealed, environment, attemptVars,
                   receipt, drains, stop>>

-----------------------------------------------------------------------------

DrainInit ==
    /\ where = [w \in Work |-> "none"]
    /\ background = TRUE
    /\ inputOpen = [o \in Outputs |-> TRUE]
    /\ sealed = [o \in Outputs |-> FALSE]
    /\ stop = [o \in Outputs |-> "no"]
    /\ destination = TRUE /\ hosted \in BOOLEAN
    /\ drainPromise = NoAttempt
    /\ stage = [a \in Attempts |-> "idle"]
    /\ todo = [a \in Attempts |-> {}]
    /\ expired = [a \in Attempts |-> FALSE]
    /\ shutdown = "no" /\ drains = TRUE /\ errors = FALSE
    /\ receipt = FALSE /\ failures = 0

Application ==
    \/ \E w \in Work : Accept(w) \/ Delivered(w) \/ SendFails(w)
                       \/ \E o \in Outputs : HandOver(w, o)
    \/ DestinationChanges

\* What attempt a does next once what it awaits has come.
Progress(a) ==
    \/ Finish(a) \/ Seal(a) \/ SealRefused(a) \/ Return(a)
    \/ \E o \in Outputs : CloseInput(a, o) \/ Quiesce(a, o) \/ Flush(a, o)

Attempt(a) == DrainCalled(a) \/ Progress(a) \/ WorkFails(a) \/ Timer(a) \/ LateWorkFails(a)

Closing ==
    \/ ShutdownCalled \/ ParticipantsEnd \/ ShutdownEnds
    \/ \E o \in Outputs : StopEnds(o) \/ CloseRejected(o)

DrainNext == Application \/ (\E a \in Attempts : Attempt(a)) \/ Closing

DrainSpec == DrainInit /\ [][DrainNext]_drainVars

-----------------------------------------------------------------------------
(* Properties.                                                             *)

\* A receipt is true: all work the process ever accepted has been published, but
\* for sends of a RAM output that failed, with an error event, before; what a
\* shutdown() of the application that was told not to drain has dropped from RAM
\* is the other exception.  And no input, background job or publication is
\* admitted after it, whatever attempts and closings ran into each other before
\* (mqtt-drain.ts: quiesce before flush).
ReceiptIsTrue ==
    receipt =>
        /\ \A w \in Work : \/ where[w] \in {"none", "published", "failed"}
                           \/ where[w] = "lost" /\ ~drains
        /\ ~background
        /\ \A o \in Outputs : sealed[o] /\ ~inputOpen[o] /\ stop[o] = "stopped"

\* A shutdown that drains, as every attempt asks for, drops output that is waiting
\* to be sent, or leaves it on disk, only with an error, and then gives no receipt.
NoSilentLoss ==
    drains /\ (\E w \in Work : where[w] \in {"lost", "disk"}) =>
        errors /\ shutdown # "done" /\ ~receipt

-----------------------------------------------------------------------------
(* Liveness.  Timers fire, and what has come is taken: work, an attempt and *)
(* closing have finitely many steps each, so that each gets to its end.     *)

DrainFairness ==
    /\ \A w \in Work : WF_drainVars(Delivered(w) \/ \E o \in Outputs : HandOver(w, o))
    /\ WF_drainVars(\E a \in Attempts : DrainCalled(a))
    /\ \A a \in Attempts : WF_drainVars(Progress(a) \/ Timer(a) \/ LateWorkFails(a))
    /\ WF_drainVars(ParticipantsEnd \/ ShutdownEnds \/ \E o \in Outputs : StopEnds(o))

DrainFairSpec == DrainSpec /\ DrainFairness

\* If the destination recovers for good, repeating the drain ends with a receipt,
\* unless the runtime was closed otherwise or closing it has failed.
RetrySucceeds ==
    (/\ hosted /\ <>[]destination
     /\ [](shutdown = "no" \/ receipt \/ \E a \in Attempts : stage[a] = "closing"))
    => <>receipt

\* What mqtt-migration-drain.md says of every blocked stop: after the destination
\* has recovered, the same stop can be repeated.
StopCanBeRepeated == hosted /\ <>[]destination => <>receipt

\* What mqtt-migration-drain.md says of failures of the publisher: they block clean
\* migration.  There is no receipt after the failure of a publication that an
\* output held while an attempt was flushing it.
FailedSendBlocksDrain ==
    \A w \in Work :
        [](where[w] \in Outputs /\ (\E a \in Attempts : stage[a] = "flushing")
           => [](where[w] = "failed" => ~receipt))

=============================================================================
