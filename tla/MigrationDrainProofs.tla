-------------------------- MODULE MigrationDrainProofs -------------------------
(***************************************************************************)
(* What a drain reports is true, for every set of outputs, of work and of  *)
(* attempts whose work overlaps.  The inductive invariant follows an       *)
(* attempt: what a stage has established (inputs closed, accepted work     *)
(* ended, outputs empty) stays true, because the background work is never  *)
(* admitted again and no input is opened again, whatever other attempts    *)
(* and the closing of the process do meanwhile.  Work of a RAM output may  *)
(* fail, and be dropped by a shutdown that was told not to drain: a flush  *)
(* does not see either.                                                    *)
(***************************************************************************)
EXTENDS MigrationDrain, TLAPS

Stages == {"idle", "quiescing", "finishing", "flushing", "closing"}

DrainTypeOK ==
    /\ where \in [Work -> Fates \cup Outputs]
    /\ background \in BOOLEAN /\ drains \in BOOLEAN /\ errors \in BOOLEAN /\ receipt \in BOOLEAN
    /\ inputOpen \in [Outputs -> BOOLEAN] /\ sealed \in [Outputs -> BOOLEAN]
    /\ stop \in [Outputs -> {"no", "running", "rejected", "stopped"}]
    /\ stage \in [Attempts -> Stages]
    /\ todo \in [Attempts -> SUBSET Outputs]
    /\ shutdown \in {"no", "participants", "outputs", "done", "failed"}

InputsClosed == ~background /\ \A o \in Outputs : ~inputOpen[o]

WorkEnded == \A w \in Work : where[w] \notin {"app", "refused"}

OutputsEmpty == \A w \in Work : where[w] \notin Outputs

OnDisk == \E w \in Work : where[w] = "disk"

Left == \E w \in Work : where[w] \in {"lost", "disk"}

\* What the stage of an attempt has established.
StageHolds(a) ==
    /\ stage[a] = "quiescing" =>
         ~background /\ \A o \in Outputs \ todo[a] : ~inputOpen[o]
    /\ stage[a] \in {"finishing", "flushing", "closing"} => InputsClosed
    /\ stage[a] \in {"flushing", "closing"} => WorkEnded
    /\ stage[a] = "flushing" =>
         /\ \A o \in Outputs \ todo[a] : Held(o) = {}
         /\ OnDisk => \E o \in todo[a] \cap Persistent : stop[o] = "stopped"
    /\ stage[a] = "closing" => OutputsEmpty /\ ~OnDisk /\ \A o \in Outputs : sealed[o]

\* shutdown() reports what its outputs have come to, unless told not to drain.
ClosingHolds ==
    /\ shutdown \in {"no", "participants"} => \A o \in Outputs : stop[o] = "no"
    /\ shutdown = "outputs" => \A o \in Outputs : stop[o] # "no"
    /\ shutdown \in {"done", "failed"} =>
         \A o \in Outputs : stop[o] \in {"rejected", "stopped"}
    /\ \A o \in Outputs : stop[o] = "rejected" => errors
    /\ OnDisk => \E o \in Persistent : stop[o] = "stopped"
    /\ shutdown = "no" => drains
    /\ drains /\ Left => errors
    /\ shutdown = "done" => ~errors

ReceiptHolds ==
    receipt => /\ shutdown = "done"
               /\ InputsClosed /\ WorkEnded /\ OutputsEmpty /\ ~OnDisk
               /\ \A o \in Outputs : sealed[o]

DrainInv ==
    DrainTypeOK /\ (\A a \in Attempts : StageHolds(a)) /\ ClosingHolds /\ ReceiptHolds

LEMMA InitDrain == DrainInit => DrainInv
<1> SUFFICES ASSUME DrainInit PROVE DrainInv
  OBVIOUS
<1>1. DrainTypeOK
  BY DEF DrainInit, DrainTypeOK, Fates, Stages
<1>2. ~OnDisk /\ ~Left
  BY DEF DrainInit, OnDisk, Left
<1>3. (\A a \in Attempts : StageHolds(a)) /\ ClosingHolds /\ ReceiptHolds
  BY <1>2 DEF DrainInit, StageHolds, ClosingHolds, ReceiptHolds
<1>4. QED
  BY <1>1, <1>3 DEF DrainInv

\* The application: closed inputs and ended work leave it nothing to do but to
\* deliver, or to fail to.
LEMMA ApplicationStep == DrainInv /\ Application => DrainInv'
<1> SUFFICES ASSUME DrainInv, Application PROVE DrainInv'
  OBVIOUS
<1> USE MigrationDrainAssumption DEF DrainInv, attemptVars, closingVars
<1>1. /\ UNCHANGED <<background, inputOpen, sealed, stop, stage, todo, drainPromise, shutdown,
                     drains, errors, receipt>>
      /\ \/ where' = where
         \/ \E w \in Work :
              \/ /\ where[w] = "none" /\ ~InputsClosed
                 /\ where' = [where EXCEPT ![w] = "app"]
              \/ /\ where[w] = "app"
                 /\ \E v \in Outputs \cup {"refused"} : where' = [where EXCEPT ![w] = v]
              \/ /\ where[w] \in Outputs
                 /\ \E v \in {"published", "failed"} : where' = [where EXCEPT ![w] = v]
  <2>1. ASSUME NEW w \in Work, Accept(w) PROVE <1>1!:
    BY <2>1 DEF Accept, InputsClosed
  <2>2. ASSUME NEW w \in Work, Delivered(w) PROVE <1>1!:
    BY <2>2 DEF Delivered
  <2>3. ASSUME NEW w \in Work, SendFails(w) PROVE <1>1!:
    BY <2>3 DEF SendFails
  <2>4. ASSUME NEW w \in Work, NEW o \in Outputs, HandOver(w, o) PROVE <1>1!:
    BY <2>4 DEF HandOver
  <2>5. CASE DestinationChanges
    BY <2>5 DEF DestinationChanges
  <2>6. QED
    BY <2>1, <2>2, <2>3, <2>4, <2>5 DEF Application
<1>2. /\ OnDisk' => OnDisk
      /\ Left' => Left
      /\ InputsClosed' = InputsClosed
      /\ InputsClosed /\ WorkEnded => WorkEnded'
      /\ InputsClosed /\ WorkEnded => \A o \in Outputs : Held(o) = {} => (Held(o) = {})'
      /\ InputsClosed /\ WorkEnded /\ OutputsEmpty => OutputsEmpty'
  BY <1>1 DEF DrainTypeOK, OnDisk, Left, InputsClosed, WorkEnded, Held, OutputsEmpty, Fates
<1>3. DrainTypeOK'
  BY <1>1 DEF DrainTypeOK, Fates
<1>4. ASSUME NEW a \in Attempts PROVE StageHolds(a)'
  BY <1>1, <1>2 DEF StageHolds, DrainTypeOK
<1>5. ClosingHolds'
  BY <1>1, <1>2 DEF ClosingHolds
<1>6. ReceiptHolds'
  BY <1>1, <1>2 DEF ReceiptHolds
<1>7. QED
  BY <1>3, <1>4, <1>5, <1>6

\* The work of an attempt is over.
LEMMA RejectStep ==
    ASSUME DrainInv, NEW a \in Attempts, Reject(a)
    PROVE  DrainInv'
<1> USE DEF DrainInv, DrainTypeOK, closingVars
<1>1. /\ stage' = [stage EXCEPT ![a] = "idle"] /\ todo' = [todo EXCEPT ![a] = {}]
      /\ UNCHANGED <<where, background, inputOpen, sealed, shutdown, drains, errors, stop,
                     receipt>>
  BY DEF Reject
<1>2. DrainTypeOK'
  BY <1>1 DEF Stages
<1>3. ASSUME NEW b \in Attempts PROVE StageHolds(b)'
  BY <1>1 DEF StageHolds, InputsClosed, WorkEnded, Held, OnDisk, OutputsEmpty
<1>4. ClosingHolds' /\ ReceiptHolds'
  BY <1>1 DEF ClosingHolds, ReceiptHolds, InputsClosed, WorkEnded, OnDisk, Left, OutputsEmpty
<1>5. QED
  BY <1>2, <1>3, <1>4

\* An attempt enters a stage only with what the stage before has established.
LEMMA AttemptStep ==
    ASSUME DrainInv, NEW a \in Attempts, Attempt(a)
    PROVE  DrainInv'
<1> USE DEF DrainInv, attemptVars, closingVars
<1>1. CASE DrainCalled(a)
  <2>1. DrainTypeOK'
    BY <1>1 DEF DrainCalled, DrainTypeOK, Stages
  <2>2. ASSUME NEW b \in Attempts PROVE StageHolds(b)'
    BY <1>1 DEF DrainCalled, DrainTypeOK, StageHolds, InputsClosed, WorkEnded, Held, OnDisk,
                OutputsEmpty
  <2>3. ClosingHolds' /\ ReceiptHolds'
    BY <1>1 DEF DrainCalled, ClosingHolds, ReceiptHolds, OnDisk, Left
  <2>4. QED BY <2>1, <2>2, <2>3
<1>2. CASE Finish(a)
  <2>1. DrainTypeOK'
    BY <1>2 DEF Finish, DrainTypeOK, Stages
  <2>2. InputsClosed /\ WorkEnded
    BY <1>2 DEF Finish, AcceptedFinished, StageHolds, WorkEnded
  <2>3. ASSUME NEW b \in Attempts PROVE StageHolds(b)'
    <3>1. CASE b = a
      <4>1. /\ stage'[a] = "flushing" /\ todo'[a] = Outputs
            /\ UNCHANGED <<where, background, inputOpen, stop>>
        BY <1>2 DEF Finish, DrainTypeOK
      <4>2. OnDisk' => \E o \in todo'[a] \cap Persistent : stop'[o] = "stopped"
        BY <4>1, MigrationDrainAssumption DEF ClosingHolds, OnDisk
      <4>3. QED
        BY <2>2, <3>1, <4>1, <4>2 DEF StageHolds, InputsClosed, WorkEnded, Held
    <3>2. CASE b # a
      BY <1>2, <3>2 DEF Finish, DrainTypeOK, StageHolds, InputsClosed, WorkEnded, Held,
                        OnDisk, OutputsEmpty
    <3>3. QED BY <3>1, <3>2
  <2>4. ClosingHolds' /\ ReceiptHolds'
    BY <1>2 DEF Finish, ClosingHolds, ReceiptHolds, InputsClosed, WorkEnded, OutputsEmpty,
                OnDisk, Left
  <2>5. QED BY <2>1, <2>3, <2>4
<1>3. CASE Seal(a)
  <2>1. /\ stage' = [stage EXCEPT ![a] = "closing"] /\ todo' = [todo EXCEPT ![a] = {}]
        /\ sealed' = [o \in Outputs |-> TRUE]
        /\ shutdown' = IF shutdown = "no" THEN "participants" ELSE shutdown
        /\ UNCHANGED <<where, background, inputOpen, stop, drains, errors, receipt>>
    BY <1>3 DEF Seal
  <2>2. stage[a] = "flushing" /\ \A o \in todo[a] : todo[a] = {o} /\ FlushEnds(o)
    BY <1>3 DEF Seal, Flushed
  <2>3. InputsClosed /\ WorkEnded
    BY <2>2 DEF StageHolds
  <2>4. OutputsEmpty
    BY <2>2 DEF StageHolds, OutputsEmpty, FlushEnds, Held
  <2>5. ~OnDisk
    BY <2>2 DEF StageHolds, FlushEnds, Alive
  <2>6. DrainTypeOK'
    BY <2>1 DEF DrainTypeOK, Stages
  <2>7. ASSUME NEW b \in Attempts PROVE StageHolds(b)'
    BY <2>1, <2>3, <2>4, <2>5
       DEF DrainTypeOK, StageHolds, InputsClosed, WorkEnded, Held, OnDisk, OutputsEmpty
  <2>8. ClosingHolds' /\ ReceiptHolds'
    BY <2>1 DEF DrainTypeOK, ClosingHolds, ReceiptHolds, InputsClosed, WorkEnded,
                OutputsEmpty, OnDisk, Left
  <2>9. QED BY <2>6, <2>7, <2>8
<1>4. CASE SealRefused(a)
  BY <1>4, RejectStep DEF SealRefused
<1>5. CASE Return(a)
  <2>1. /\ stage[a] = "closing" /\ stage' = [stage EXCEPT ![a] = "idle"]
        /\ receipt' = (shutdown = "done")
        /\ UNCHANGED <<where, background, inputOpen, sealed, todo, shutdown, drains, errors,
                       stop>>
    BY <1>5 DEF Return
  <2>2. DrainTypeOK'
    BY <2>1 DEF DrainTypeOK, Stages
  <2>3. ASSUME NEW b \in Attempts PROVE StageHolds(b)'
    BY <2>1 DEF DrainTypeOK, StageHolds, InputsClosed, WorkEnded, Held, OnDisk, OutputsEmpty
  <2>4. ClosingHolds'
    BY <2>1 DEF ClosingHolds, OnDisk, Left
  <2>5. ReceiptHolds'
    BY <2>1 DEF ReceiptHolds, StageHolds, InputsClosed, WorkEnded, OutputsEmpty, OnDisk
  <2>6. QED BY <2>2, <2>3, <2>4, <2>5
<1>6. ASSUME NEW o \in Outputs, CloseInput(a, o) PROVE DrainInv'
  <2>1. DrainTypeOK'
    BY <1>6 DEF CloseInput, DrainTypeOK
  <2>2. ASSUME NEW b \in Attempts PROVE StageHolds(b)'
    BY <1>6 DEF CloseInput, DrainTypeOK, StageHolds, InputsClosed, WorkEnded, Held, OnDisk,
                OutputsEmpty
  <2>3. ClosingHolds' /\ ReceiptHolds'
    BY <1>6 DEF CloseInput, DrainTypeOK, ClosingHolds, ReceiptHolds, InputsClosed,
                WorkEnded, OutputsEmpty, OnDisk, Left
  <2>4. QED BY <2>1, <2>2, <2>3
<1>7. ASSUME NEW o \in Outputs, Quiesce(a, o) PROVE DrainInv'
  <2>1. DrainTypeOK'
    BY <1>7 DEF Quiesce, DrainTypeOK, Stages
  <2>2. ~inputOpen[o]
    BY <1>7 DEF Quiesce, InputDrained
  <2>3. ASSUME NEW b \in Attempts PROVE StageHolds(b)'
    BY <1>7, <2>2 DEF Quiesce, DrainTypeOK, StageHolds, InputsClosed, WorkEnded, Held,
                      OnDisk, OutputsEmpty
  <2>4. ClosingHolds' /\ ReceiptHolds'
    BY <1>7 DEF Quiesce, ClosingHolds, ReceiptHolds, InputsClosed, WorkEnded, OutputsEmpty,
                OnDisk, Left
  <2>5. QED BY <2>1, <2>3, <2>4
<1>8. ASSUME NEW o \in Outputs, Flush(a, o) PROVE DrainInv'
  <2>1. /\ stage[a] = "flushing" /\ todo' = [todo EXCEPT ![a] = @ \ {o}]
        /\ Held(o) = {} /\ (o \in Persistent => stop[o] # "stopped")
        /\ UNCHANGED <<where, background, inputOpen, sealed, stage, shutdown, drains, errors,
                       stop, receipt>>
    BY <1>8 DEF Flush, FlushEnds, Alive
  <2>2. DrainTypeOK'
    BY <2>1 DEF DrainTypeOK
  <2>3. ASSUME NEW b \in Attempts PROVE StageHolds(b)'
    BY <2>1 DEF DrainTypeOK, StageHolds, InputsClosed, WorkEnded, Held, OnDisk, OutputsEmpty
  <2>4. ClosingHolds' /\ ReceiptHolds'
    BY <2>1 DEF ClosingHolds, ReceiptHolds, InputsClosed, WorkEnded, OutputsEmpty, OnDisk,
                Left
  <2>5. QED BY <2>2, <2>3, <2>4
<1>9. CASE WorkFails(a)
  BY <1>9, RejectStep DEF WorkFails
<1>10. CASE Timer(a)
  <2>1. UNCHANGED <<where, background, inputOpen, sealed, stage, todo, shutdown, drains,
                    errors, stop, receipt>>
    BY <1>10 DEF Timer
  <2>2. QED
    BY <2>1 DEF DrainTypeOK, StageHolds, ClosingHolds, ReceiptHolds, InputsClosed,
                WorkEnded, OutputsEmpty, Held, OnDisk, Left
<1>11. CASE LateWorkFails(a)
  BY <1>11, RejectStep DEF LateWorkFails
<1>12. QED
  BY <1>1, <1>2, <1>3, <1>4, <1>5, <1>6, <1>7, <1>8, <1>9, <1>10, <1>11
     DEF Attempt, Progress

\* A draining stop that leaves anything behind reports an error.
LEMMA StopReports ==
    ASSUME NEW o \in Outputs, StopEnds(o)
    PROVE  (errors' = errors /\ (Held(o) = {} \/ ~drains)) \/ errors' = TRUE
<1>1. \/ (Held(o) = {} \/ ~drains) /\ UNCHANGED <<failures, errors>>
      \/ drains /\ Held(o) # {} /\ ~destination /\ errors' = TRUE /\ UNCHANGED failures
      \/ Fails /\ errors' = TRUE
  BY Zenon DEF StopEnds
<1>2. CASE (Held(o) = {} \/ ~drains) /\ UNCHANGED <<failures, errors>>
  <2>1. errors' = errors
    BY <1>2
  <2>2. QED
    BY <1>2, <2>1, Zenon
<1>3. CASE drains /\ Held(o) # {} /\ ~destination /\ errors' = TRUE /\ UNCHANGED failures
  BY <1>3, Zenon
<1>4. CASE Fails /\ errors' = TRUE
  BY <1>4, Zenon
<1>5. QED
  BY <1>1, <1>2, <1>3, <1>4, Zenon

\* What the stop of an output changes of the work and of the attempts.
LEMMA StopLeaves ==
    ASSUME DrainTypeOK, NEW o \in Outputs, StopEnds(o)
    PROVE  /\ where' \in [Work -> Fates \cup Outputs]
           /\ \A w \in Work : \/ where'[w] = where[w] /\ where[w] # o
                              \/ /\ where[w] = o
                                 /\ where'[w] = IF o \in Persistent THEN "disk" ELSE "lost"
           /\ stage' \in [Attempts -> Stages] /\ todo' \in [Attempts -> SUBSET Outputs]
           /\ \A a \in Attempts : \/ stage'[a] = "idle"
                                  \/ stage'[a] = stage[a] /\ todo'[a] = todo[a]
<1>1. Abandon(o) /\ RejectWaiting(o)
  BY DEF StopEnds
<1>2. where' = [w \in Work |-> IF where[w] # o THEN where[w]
                               ELSE IF o \in Persistent THEN "disk" ELSE "lost"]
  BY <1>1 DEF Abandon
<1>3. where' \in [Work -> Fates \cup Outputs]
  BY <1>2 DEF DrainTypeOK, Fates
<1>4. PICK waiting \in SUBSET Attempts :
        /\ stage' = [a \in Attempts |-> IF a \in waiting THEN "idle" ELSE stage[a]]
        /\ todo' = [a \in Attempts |-> IF a \in waiting THEN {} ELSE todo[a]]
  BY <1>1 DEF RejectWaiting
<1>5. stage' \in [Attempts -> Stages] /\ todo' \in [Attempts -> SUBSET Outputs]
  BY <1>4 DEF DrainTypeOK, Stages
<1>6. QED
  BY <1>2, <1>3, <1>4, <1>5

\* Closing drops work with an error, unless it is told not to drain.
LEMMA ClosingStep == DrainInv /\ Closing => DrainInv'
<1> SUFFICES ASSUME DrainInv, Closing PROVE DrainInv'
  OBVIOUS
<1> USE MigrationDrainAssumption DEF DrainInv, attemptVars
<1>1. CASE ShutdownCalled
  <2>1. /\ shutdown = "no" /\ shutdown' = "participants" /\ drains' \in BOOLEAN /\ ~receipt
        /\ UNCHANGED <<where, background, inputOpen, sealed, stage, todo, errors, stop, receipt>>
    BY <1>1 DEF ShutdownCalled, ReceiptHolds
  <2>2. DrainTypeOK' /\ ReceiptHolds'
    BY <2>1 DEF DrainTypeOK, ReceiptHolds
  <2>3. ASSUME NEW a \in Attempts PROVE StageHolds(a)'
    BY <2>1 DEF StageHolds, InputsClosed, WorkEnded, OutputsEmpty, Held, OnDisk
  <2>4. ClosingHolds'
    BY <2>1 DEF ClosingHolds, OnDisk, Left
  <2>5. QED BY <2>2, <2>3, <2>4
<1>2. CASE ParticipantsEnd
  <2>1. errors' \in BOOLEAN /\ (errors => errors')
    BY <1>2 DEF ParticipantsEnd, DrainTypeOK
  <2>2. /\ shutdown = "participants" /\ shutdown' = "outputs" /\ ~receipt
        /\ stop' = [o \in Outputs |-> "running"] /\ \A o \in Outputs : stop[o] = "no"
        /\ UNCHANGED <<where, background, inputOpen, sealed, stage, todo, receipt, drains>>
    BY <1>2 DEF ParticipantsEnd, ReceiptHolds, ClosingHolds
  <2>3. ~OnDisk
    BY <2>2 DEF ClosingHolds
  <2>4. DrainTypeOK' /\ ReceiptHolds'
    BY <2>1, <2>2 DEF DrainTypeOK, ReceiptHolds
  <2>5. ASSUME NEW a \in Attempts PROVE StageHolds(a)'
    BY <2>2, <2>3 DEF StageHolds, InputsClosed, WorkEnded, OutputsEmpty, Held, OnDisk
  <2>6. ClosingHolds'
    BY <2>1, <2>2, <2>3 DEF ClosingHolds, OnDisk, Left
  <2>7. QED BY <2>4, <2>5, <2>6
<1>3. CASE ShutdownEnds
  <2>1. \/ errors' = errors /\ errors = TRUE /\ shutdown' = "failed"
        \/ errors' = errors /\ errors = FALSE /\ shutdown' = "done"
        \/ errors' = TRUE /\ shutdown' = "failed"
    <3>1. errors = TRUE \/ errors = FALSE
      BY DEF DrainTypeOK
    <3>2. QED
      BY ONLY <1>3, <3>1, Zenon DEF ShutdownEnds
  <2>2. /\ shutdown = "outputs" /\ ~receipt /\ \A o \in Outputs : stop[o] # "running"
        /\ UNCHANGED <<where, background, inputOpen, sealed, stage, todo, receipt, drains, stop>>
    BY <1>3 DEF ShutdownEnds, ReceiptHolds
  <2>3. \A o \in Outputs : stop[o] \in {"rejected", "stopped"}
    BY <2>2 DEF DrainTypeOK, ClosingHolds
  <2>4. DrainTypeOK' /\ ReceiptHolds'
    BY <2>1, <2>2 DEF DrainTypeOK, ReceiptHolds
  <2>5. ASSUME NEW a \in Attempts PROVE StageHolds(a)'
    BY <2>2 DEF StageHolds, InputsClosed, WorkEnded, OutputsEmpty, Held, OnDisk
  <2>6. ClosingHolds'
    BY <2>1, <2>2, <2>3 DEF ClosingHolds, OnDisk, Left
  <2>7. QED BY <2>4, <2>5, <2>6
<1>4. ASSUME NEW o \in Outputs, StopEnds(o) PROVE DrainInv'
  <2>1. \/ errors' = errors /\ (Held(o) = {} \/ ~drains)
        \/ errors' = TRUE
    BY <1>4, StopReports, Zenon
  <2>2. /\ stop[o] = "running" /\ stop' = [stop EXCEPT ![o] = "stopped"]
        /\ UNCHANGED <<background, inputOpen, sealed, receipt, shutdown, drains>>
    BY <1>4 DEF StopEnds
  <2>3. /\ where' \in [Work -> Fates \cup Outputs]
        /\ \A w \in Work : \/ where'[w] = where[w] /\ where[w] # o
                           \/ /\ where[w] = o
                              /\ where'[w] = IF o \in Persistent THEN "disk" ELSE "lost"
        /\ stage' \in [Attempts -> Stages] /\ todo' \in [Attempts -> SUBSET Outputs]
        /\ \A a \in Attempts : \/ stage'[a] = "idle"
                               \/ stage'[a] = stage[a] /\ todo'[a] = todo[a]
    BY <1>4, StopLeaves
  <2>4. /\ shutdown = "outputs" /\ ~receipt
        /\ stop' \in [Outputs -> {"no", "running", "rejected", "stopped"}]
        /\ stop'[o] = "stopped" /\ \A p \in Outputs \ {o} : stop'[p] = stop[p]
    BY <2>2 DEF DrainTypeOK, ClosingHolds, ReceiptHolds
  <2>5. errors' \in BOOLEAN /\ (errors => errors')
    BY <2>1 DEF DrainTypeOK
  <2>6. DrainTypeOK'
    BY <2>2, <2>3, <2>4, <2>5 DEF DrainTypeOK
  <2>7. ASSUME NEW a \in Attempts PROVE StageHolds(a)'
    <3>1. CASE stage'[a] = "idle"
      BY <3>1 DEF StageHolds
    <3>2. CASE stage'[a] = stage[a] /\ todo'[a] = todo[a]
      <4>1. stage[a] = "flushing" => \A p \in Outputs \ todo[a] : (Held(p) = {})'
        BY <2>3, MigrationDrainAssumption DEF StageHolds, Held, Fates
      <4>2. ASSUME stage[a] = "flushing", OnDisk'
            PROVE  \E p \in todo'[a] \cap Persistent : stop'[p] = "stopped"
        <5>1. PICK w \in Work : where'[w] = "disk"
          BY <4>2 DEF OnDisk
        <5>2. CASE where[w] = o
          BY <2>3, <2>4, <3>2, <4>2, <5>1, <5>2 DEF StageHolds, Held
        <5>3. CASE where[w] = "disk"
          BY <2>4, <3>2, <4>2, <5>3 DEF StageHolds, OnDisk
        <5>4. QED
          BY <2>3, <5>1, <5>2, <5>3
      <4>3. WorkEnded => WorkEnded'
        BY <2>3 DEF WorkEnded
      <4>4. OutputsEmpty => OutputsEmpty' /\ OnDisk' = OnDisk
        BY <2>3 DEF OutputsEmpty, OnDisk
      <4>5. QED
        BY <2>2, <3>2, <4>1, <4>2, <4>3, <4>4 DEF StageHolds, InputsClosed
    <3>3. QED
      BY <2>3, <3>1, <3>2
  <2>8. ClosingHolds'
    <3>1. OnDisk' => \E p \in Persistent : stop'[p] = "stopped"
      BY <2>3, <2>4 DEF ClosingHolds, OnDisk
    <3>2. drains' /\ Left' => errors'
      BY <2>1, <2>2, <2>3 DEF ClosingHolds, Left, Held
    <3>3. QED
      BY <2>2, <2>4, <2>5, <3>1, <3>2 DEF ClosingHolds
  <2>9. ReceiptHolds'
    BY <2>2, <2>4 DEF ReceiptHolds
  <2>10. QED BY <2>6, <2>7, <2>8, <2>9
<1>5. ASSUME NEW o \in Outputs, CloseRejected(o) PROVE DrainInv'
  <2>1. /\ stop[o] = "running" /\ stop' = [stop EXCEPT ![o] = "rejected"]
        /\ errors' = TRUE
        /\ UNCHANGED <<where, background, inputOpen, sealed, stage, todo, receipt, shutdown,
                       drains>>
    BY <1>5 DEF CloseRejected
  <2>2. DrainTypeOK'
    BY <2>1 DEF DrainTypeOK
  <2>3. shutdown = "outputs" /\ ~receipt
    BY <2>1 DEF DrainTypeOK, ClosingHolds, ReceiptHolds
  <2>4. \A p \in Outputs : stop[p] = "stopped" => stop'[p] = "stopped"
    BY <2>1 DEF DrainTypeOK
  <2>5. ASSUME NEW a \in Attempts PROVE StageHolds(a)'
    BY <2>1, <2>4 DEF DrainTypeOK, StageHolds, InputsClosed, WorkEnded, OutputsEmpty, Held, OnDisk
  <2>6. ClosingHolds' /\ ReceiptHolds'
    BY <2>1, <2>3, <2>4 DEF DrainTypeOK, ClosingHolds, ReceiptHolds, OnDisk, Left
  <2>7. QED BY <2>2, <2>5, <2>6
<1>6. QED
  BY <1>1, <1>2, <1>3, <1>4, <1>5 DEF Closing

LEMMA StutterStep == DrainInv /\ UNCHANGED drainVars => DrainInv'
BY DEF drainVars, attemptVars, closingVars, environment, DrainInv, DrainTypeOK, StageHolds,
       ClosingHolds, ReceiptHolds, InputsClosed, WorkEnded, OutputsEmpty, Held, OnDisk, Left

\* DrainInv holds in every state the process can be in.
THEOREM DrainInvariant == DrainSpec => []DrainInv
<1>1. DrainInv /\ [DrainNext]_drainVars => DrainInv'
  BY ApplicationStep, AttemptStep, ClosingStep, StutterStep DEF DrainNext
<1>2. QED
  BY <1>1, InitDrain, PTL DEF DrainSpec

\* A receipt is true: what the process accepted has been published, but for sends
\* of a RAM output that failed before, and for RAM output that a shutdown of the
\* application that was told not to drain has dropped.  Nothing can be accepted any
\* more, and every output is sealed and stopped.
THEOREM ReceiptsAreTrue == DrainSpec => []ReceiptIsTrue
<1>1. DrainInv => ReceiptIsTrue
  BY DEF DrainInv, DrainTypeOK, ClosingHolds, ReceiptHolds, InputsClosed, WorkEnded,
         OutputsEmpty, OnDisk, Left, ReceiptIsTrue, Fates
<1>2. QED
  BY <1>1, DrainInvariant, PTL

\* Output that a draining shutdown dropped, or left on disk, while it waited to be
\* sent, is reported as an error of the shutdown, and no attempt has a receipt.
THEOREM LossIsReported == DrainSpec => []NoSilentLoss
<1>1. DrainInv => NoSilentLoss
  BY DEF DrainInv, ClosingHolds, ReceiptHolds, NoSilentLoss, Left
<1>2. QED
  BY <1>1, DrainInvariant, PTL
=============================================================================
