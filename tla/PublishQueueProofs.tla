------------------------- MODULE PublishQueueProofs -------------------------
(* Theorems about PublishQueue for every value of its constants. *)
EXTENDS PublishQueue, SequenceLemmas

\* The groups of variables that UNCHANGED names are always expanded.
USE DEF control, loop, queue, promises, budget, history

-----------------------------------------------------------------------------
(* The helpers of the model.                                               *)

\* A spill moves a prefix of RAM to disk and keeps the rest: no record of
\* either place is dropped, and an empty RAM stays empty.
LEMMA SpillKeepsRecords ==
    ASSUME memory \in Seq(Records), disk \subseteq Records,
           SpillAll \/ SpillFails
    PROVE  /\ memory' \in Seq(Records) /\ disk' \subseteq Records
           /\ disk \subseteq disk'
           /\ Range(memory') \cup disk' = Range(memory) \cup disk
           /\ memory = <<>> => memory' = <<>>
<1> DEFINE moved(k) == {memory[i] : i \in 1..k}
<1>1. CASE SpillAll
  <2>1. Range(memory) = moved(Len(memory)) /\ Range(memory) \subseteq Records
    BY RangeEquality, RangeOfSeq
  <2>2. memory' = <<>> /\ disk' = disk \cup moved(Len(memory))
    BY <1>1 DEF SpillAll, SpilledDisk
  <2>3. Range(<<>>) = {}
    BY DEF Range
  <2> QED
    BY <2>1, <2>2, <2>3
<1>2. CASE SpillFails
  <2>1. PICK k \in 0..(Len(memory) - 1) :
          /\ disk' = disk \cup moved(k)
          /\ memory' = SubSeq(memory, k + 1, Len(memory))
    BY <1>2 DEF SpillFails, SpilledDisk
  <2>2. Len(memory) \in Nat /\ k \in 0..Len(memory) /\ Len(memory) # 0
    BY <2>1
  <2>3. /\ memory' \in Seq(Records) /\ moved(k) \subseteq Range(memory)
        /\ Range(memory) = moved(k) \cup Range(memory')
    BY <2>1, <2>2, RangeOfSplit
  <2>4. Range(memory) \subseteq Records
    BY RangeOfSeq
  <2> QED
    BY <2>1, <2>2, <2>3, <2>4
<1> QED
  BY <1>1, <1>2

\* What the loop's next turn starts is a record of RAM's head or of the disk.
LEMMA LoopTypes ==
    ASSUME TypeOK, NEW mem \in Seq(Records), NEW dsk \in SUBSET Records,
           Loop(mem, dsk)
    PROVE  /\ processing' \in {"sending", "finishing"}
           /\ cur' \in Records \cup {NoRecord} /\ fromMemory' \in BOOLEAN
           /\ processing' = "sending" => cur' \in Records
           /\ attempt' \in {"refused", "inflight", "reached"}
<1>1. Range(mem) \subseteq Records
  BY RangeOfSeq
<1> QED
  BY <1>1 DEF Loop, PicksMemory, PicksDisk, IsHead, TypeOK

LEMMA SpillFailsTypes ==
    ASSUME TypeOK, SpillFails
    PROVE  storageFaults' \in 0..MaxStorageFaults
BY PublishQueueAssumption DEF SpillFails, StorageThrows, TypeOK

LEMMA SettleTypes ==
    ASSUME TypeOK, NEW o \in {"none", "waiting", "idle", "failed"}, Settle(o)
    PROVE  waiter' \in [Callers -> {"none", "waiting", "idle", "failed"}]
BY DEF Settle, TypeOK

LEMMA DiesTypes ==
    ASSUME TypeOK, Dies, crashes' \in 0..MaxCrashes
    PROVE  TypeOK'
<1>1. Ids(Range(memory)) \subseteq Msgs
  <2>1. Range(memory) \in SUBSET Records
    BY RangeOfSeq DEF TypeOK
  <2> QED
    BY <2>1 DEF Ids, Records
<1>2. <<>> \in Seq(Records)
  BY EmptySeq
<1> QED
  BY <1>1, <1>2, SettleTypes DEF Dies, TypeOK

-----------------------------------------------------------------------------
(* Type correctness.                                                       *)

LEMMA TypeInit == Init => TypeOK
<1> SUFFICES ASSUME Init PROVE TypeOK
  OBVIOUS
<1>1. 0 \in 0..MaxStorageFaults /\ 0 \in 0..MaxCrashes
  BY PublishQueueAssumption
<1>2. <<>> \in Seq(Records) /\ <<>> \in Seq(Msgs)
  BY EmptySeq
<1> QED
  BY <1>1, <1>2 DEF Init, TypeOK

LEMMA TypeStep == TypeOK /\ [Next]_vars => TypeOK'
<1> SUFFICES ASSUME TypeOK, [Next]_vars PROVE TypeOK'
  OBVIOUS
<1>1. ASSUME NEW m \in Msgs, EnqueueMemory(m) PROVE TypeOK'
  <2>1. NewRecord(m) \in Records
    BY DEF TypeOK, Records, NewRecord
  <2>2. memory' \in Seq(Records)
    BY <1>1, <2>1, RangeOfAppend DEF EnqueueMemory, TypeOK
  <2>3. admitted' \in Seq(Msgs)
    BY <1>1, RangeOfAppend DEF EnqueueMemory, Admitted, TypeOK
  <2> QED
    BY <1>1, <2>2, <2>3 DEF EnqueueMemory, Admitted, Scheduled, TypeOK
<1>2. ASSUME NEW m \in Msgs, EnqueueDisk(m) PROVE TypeOK'
  <2>1. NewRecord(m) \in Records
    BY DEF TypeOK, Records, NewRecord
  <2>2. admitted' \in Seq(Msgs)
    BY <1>2, RangeOfAppend DEF EnqueueDisk, Admitted, TypeOK
  <2> QED
    BY <1>2, <2>1, <2>2 DEF EnqueueDisk, Admitted, Scheduled, TypeOK
<1>3. ASSUME NEW m \in Msgs, EnqueueFails(m) PROVE TypeOK'
  BY <1>3, PublishQueueAssumption DEF EnqueueFails, StorageThrows, TypeOK
<1>4. CASE Run
  BY <1>4, LoopTypes DEF Run, TypeOK
<1>5. CASE BrokerReceive
  <2>1. cur \in Records /\ broker \in Seq(Msgs)
    BY <1>5 DEF BrokerReceive, TypeOK
  <2>2. cur.id \in Msgs
    BY <2>1 DEF Records
  <2>3. Append(broker, cur.id) \in Seq(Msgs)
    BY <2>1, <2>2, RangeOfAppend
  <2>4. broker' \in Seq(Msgs)
    BY <1>5, <2>1, <2>3 DEF BrokerReceive
  <2> QED
    BY <1>5, <2>4 DEF BrokerReceive, TypeOK
<1>6. CASE SendAck
  <2>1. cur.id \in Msgs
    BY <1>6 DEF SendAck, TypeOK, Records
  <2>2. memory' \in Seq(Records) /\ disk' \in SUBSET Records
    <3>1. memory \in Seq(Records) /\ disk \in SUBSET Records
      BY DEF TypeOK
    <3>2. /\ memory' \in {memory, Tail(memory)} /\ (memory = <<>> => memory' = memory)
          /\ disk' \in {disk, disk \ {cur}}
      BY <1>6 DEF SendAck, CompleteMemory, CompleteDisk
    <3>3. memory # <<>> => Tail(memory) \in Seq(Records)
      BY <3>1, RangeOfTail
    <3> QED
      BY <3>1, <3>2, <3>3
  <2>3. Loop(memory', disk')
    BY <1>6 DEF SendAck
  <2>4. PICK mem \in Seq(Records), dsk \in SUBSET Records : mem = memory' /\ dsk = disk'
    BY <2>2
  <2>5. /\ processing' \in {"sending", "finishing"}
        /\ cur' \in Records \cup {NoRecord} /\ fromMemory' \in BOOLEAN
        /\ processing' = "sending" => cur' \in Records
        /\ attempt' \in {"refused", "inflight", "reached"}
    BY <2>3, <2>4, LoopTypes
  <2>6. confirmed' \subseteq Msgs /\ completions' \subseteq Msgs
    BY <1>6, <2>1 DEF SendAck, TypeOK
  <2>7. UNCHANGED <<control, budget, retryTimer, seq, waiter, admitted, broker, lost>>
    BY <1>6 DEF SendAck
  <2> QED
    BY <2>2, <2>5, <2>6, <2>7 DEF TypeOK
<1>7. CASE SendAckCompleteFails
  BY <1>7, PublishQueueAssumption, SettleTypes
     DEF SendAckCompleteFails, Fail, StorageThrows, TypeOK
<1>8. CASE SendFail
  BY <1>8, SpillKeepsRecords DEF SendFail, SpillAll, TypeOK
<1>9. CASE SendFailSpillFails
  BY <1>9, SpillKeepsRecords, SpillFailsTypes, SettleTypes
     DEF SendFailSpillFails, Fail, TypeOK
<1>10. CASE Finally
  BY <1>10, SettleTypes DEF Finally, Rescheduled, Scheduled, TypeOK
<1>11. CASE RetryFires
  <2>1. processing' \in {processing, "queued"}
    BY <1>11 DEF RetryFires, Scheduled
  <2>2. retryTimer' \in BOOLEAN
    BY <1>11 DEF RetryFires
  <2>3. /\ processing' \in {"none", "queued", "sending", "finishing"}
        /\ processing' = "sending" => processing = "sending"
    BY <2>1 DEF TypeOK
  <2>4. UNCHANGED <<control, queue, promises, budget, history, cur, fromMemory, attempt>>
    BY <1>11 DEF RetryFires
  <2> QED
    BY <2>2, <2>3, <2>4 DEF TypeOK
<1>12. CASE BecomeActive
  <2>1. processing' \in {processing, "queued"} /\ active' \in BOOLEAN
    BY <1>12 DEF BecomeActive, Scheduled
  <2>2. /\ processing' \in {"none", "queued", "sending", "finishing"}
        /\ processing' = "sending" => processing = "sending"
    BY <2>1 DEF TypeOK
  <2>3. UNCHANGED <<queue, promises, budget, history, up, transport, closed, closing, blocked,
                    cur, fromMemory, attempt, retryTimer>>
    BY <1>12 DEF BecomeActive
  <2> QED
    BY <2>1, <2>2, <2>3 DEF TypeOK
<1>13. CASE BecomePassive
  <2>1. active' \in BOOLEAN /\ retryTimer' \in BOOLEAN
    BY <1>13 DEF BecomePassive
  <2>2. UNCHANGED <<queue, promises, budget, history, up, transport, closed,
                    closing, blocked, processing, cur, fromMemory, attempt>>
    BY <1>13 DEF BecomePassive
  <2> QED
    BY <2>1, <2>2 DEF TypeOK
<1>14. ASSUME NEW w \in Callers, WaitForIdle(w) PROVE TypeOK'
  BY <1>14 DEF WaitForIdle, TypeOK
<1>15. ASSUME NEW w \in Callers, WaiterTimesOut(w) PROVE TypeOK'
  BY <1>15 DEF WaiterTimesOut, TypeOK
<1>16. CASE Close
  BY <1>16 DEF Close, TypeOK
<1>17. CASE CloseCompletes
  BY <1>17, SpillKeepsRecords, SettleTypes DEF CloseCompletes, SpillAll, TypeOK
<1>18. CASE CloseSpillFails
  BY <1>18, SpillKeepsRecords, SpillFailsTypes DEF CloseSpillFails, TypeOK
<1>19. CASE Crash
  BY <1>19, DiesTypes, PublishQueueAssumption DEF Crash, TypeOK
<1>20. CASE Terminate
  BY <1>20, DiesTypes DEF Terminate, TypeOK
<1>21. CASE Open
  <2>1. processing' \in {"none", "queued"} /\ active' \in BOOLEAN
    BY <1>21 DEF Open
  <2>2. seq' \in Nat
    BY <1>21 DEF Open, TypeOK
  <2> QED
    BY <1>21, <2>1, <2>2 DEF Open, TypeOK
<1>22. CASE UNCHANGED vars
  BY <1>22 DEF vars, TypeOK
<1> QED
  BY <1>1, <1>2, <1>3, <1>4, <1>5, <1>6, <1>7, <1>8, <1>9, <1>10, <1>11,
     <1>12, <1>13, <1>14, <1>15, <1>16, <1>17, <1>18, <1>19, <1>20, <1>21,
     <1>22 DEF Next, Admission, SendSettles, Waiting, CloseResumes

\* Type correctness of the outbox.
THEOREM TypeCorrect == Spec => []TypeOK
BY TypeInit, TypeStep, PTL DEF Spec

-----------------------------------------------------------------------------
(* No admission is lost.  NoAdmissionLost alone is not inductive: a record  *)
(* leaves RAM or disk on an acknowledgement, so the induction needs that an *)
(* acknowledged record was received, and that what memory.shift() removes   *)
(* then is that record.  The latter fails for a loop that starts while      *)
(* close() spills, unless the transport was stopped first.                  *)

\* Durable and closed queues have nothing in RAM.
OnDiskOnly == Durable \/ closed => memory = <<>>

\* close() runs with the transport stopped, and no send begun since is live.
TransportStopped ==
    /\ closing # "no" => up /\ ~transport
    /\ closing = "ready" /\ processing = "sending" => attempt = "refused"

\* An attempt that reached the broker put its record there.
ReachedIsReceived ==
    processing = "sending" /\ attempt = "reached" => cur.id \in Range(broker)

\* A live attempt from RAM is for the record that memory.shift() removes.
HeadInFlight ==
    processing = "sending" /\ fromMemory /\ attempt # "refused" =>
        memory # <<>> /\ Head(memory) = cur

IndInv ==
    /\ TypeOK /\ OnDiskOnly /\ TransportStopped /\ ReachedIsReceived
    /\ HeadInFlight /\ NoAdmissionLost

LEMMA IndInit == Init => IndInv
<1> SUFFICES ASSUME Init PROVE IndInv
  OBVIOUS
<1>1. Range(admitted) = {}
  BY DEF Init, Range
<1> QED
  BY <1>1, TypeInit
     DEF Init, IndInv, OnDiskOnly, TransportStopped, ReachedIsReceived,
         HeadInFlight, NoAdmissionLost

\* Starting the next send keeps the facts about the record in flight.
LEMMA LoopInFlight ==
    ASSUME TypeOK, NEW mem \in Seq(Records), NEW dsk \in SUBSET Records,
           Loop(mem, dsk)
    PROVE  /\ processing' = "sending" => attempt' # "reached"
           /\ processing' = "sending" /\ ~transport => attempt' = "refused"
           /\ processing' = "sending" /\ fromMemory' =>
                 mem # <<>> /\ Head(mem) = cur'
BY DEF Loop, PicksMemory

\* The part of the invariant that is about RAM and the record in flight.
InFlightInv ==
    OnDiskOnly /\ TransportStopped /\ ReachedIsReceived /\ HeadInFlight

LEMMA InFlightStep ==
    TypeOK /\ InFlightInv /\ [Next]_vars => InFlightInv'
<1> SUFFICES ASSUME TypeOK, InFlightInv, [Next]_vars PROVE InFlightInv'
  OBVIOUS
<1> USE DEF InFlightInv, OnDiskOnly, TransportStopped, ReachedIsReceived,
            HeadInFlight
<1>1. ASSUME NEW m \in Msgs, EnqueueMemory(m) PROVE InFlightInv'
  <2>1. NewRecord(m) \in Records /\ memory \in Seq(Records)
    BY DEF TypeOK, Records, NewRecord
  <2>2. memory' # <<>> /\ (memory # <<>> => Head(memory') = Head(memory))
    BY <1>1, <2>1, AppendProperties, HeadTailAppend DEF EnqueueMemory
  <2> QED
    BY <1>1, <2>2 DEF EnqueueMemory, MayAdmit, MemoryAccepts, Admitted,
              Scheduled
<1>2. ASSUME NEW m \in Msgs, EnqueueDisk(m) PROVE InFlightInv'
  BY <1>2 DEF EnqueueDisk, MayAdmit, Admitted, Scheduled
<1>3. ASSUME NEW m \in Msgs, EnqueueFails(m) PROVE InFlightInv'
  BY <1>3 DEF EnqueueFails
<1>4. CASE Run
  BY <1>4, LoopInFlight DEF Run, TypeOK
<1>5. CASE BrokerReceive
  <2>1. cur.id \in Msgs /\ broker \in Seq(Msgs)
    BY <1>5 DEF BrokerReceive, TypeOK, Records
  <2>2. cur.id \in Range(Append(broker, cur.id))
    BY <2>1, RangeOfAppend
  <2>3. broker # <<>> => broker[Len(broker)] \in Range(broker)
    BY <2>1, EmptySeq DEF Range
  <2>4. cur.id \in Range(broker')
    BY <1>5, <2>2, <2>3 DEF BrokerReceive
  <2> QED
    BY <1>5, <2>4 DEF BrokerReceive
<1>6. CASE SendAck
  <2>1. memory' \in Seq(Records) /\ disk' \in SUBSET Records
    BY <1>6, RangeOfTail DEF SendAck, CompleteMemory, CompleteDisk, TypeOK
  <2>2. Loop(memory', disk') /\ closing # "ready"
    BY <1>6 DEF SendAck
  <2>3. memory = <<>> => memory' = <<>>
    BY <1>6 DEF SendAck, CompleteMemory, CompleteDisk
  <2> QED
    BY <1>6, <2>1, <2>2, <2>3, LoopInFlight DEF SendAck
<1>7. CASE SendAckCompleteFails
  BY <1>7 DEF SendAckCompleteFails, Fail
<1>8. CASE SendFail
  BY <1>8 DEF SendFail, SpillAll
<1>9. CASE SendFailSpillFails
  BY <1>9, SpillKeepsRecords DEF SendFailSpillFails, Fail, TypeOK
<1>10. CASE Finally
  BY <1>10 DEF Finally, Rescheduled, Scheduled
<1>11. CASE RetryFires
  BY <1>11 DEF RetryFires, Scheduled
<1>12. CASE BecomeActive
  BY <1>12 DEF BecomeActive, Scheduled
<1>13. CASE BecomePassive
  BY <1>13 DEF BecomePassive
<1>14. ASSUME NEW w \in Callers, WaitForIdle(w) PROVE InFlightInv'
  BY <1>14 DEF WaitForIdle
<1>15. ASSUME NEW w \in Callers, WaiterTimesOut(w) PROVE InFlightInv'
  BY <1>15 DEF WaiterTimesOut
<1>16. CASE Close
  BY <1>16 DEF Close, BetweenTasks
<1>17. CASE CloseCompletes
  BY <1>17 DEF CloseCompletes, SpillAll
<1>18. CASE CloseSpillFails
  BY <1>18, SpillKeepsRecords DEF CloseSpillFails, TypeOK
<1>19. CASE Dies
  BY <1>19 DEF Dies
<1>20. CASE Open
  BY <1>20 DEF Open
<1>21. CASE UNCHANGED vars
  BY <1>21 DEF vars
<1> QED
  BY <1>1, <1>2, <1>3, <1>4, <1>5, <1>6, <1>7, <1>8, <1>9, <1>10, <1>11,
     <1>12, <1>13, <1>14, <1>15, <1>16, <1>17, <1>18, <1>19, <1>20, <1>21
  DEF Next, Admission, SendSettles, Waiting, CloseResumes, Crash, Terminate

\* Where an admitted message may be; NoAdmissionLost says that it is there.
Accounted ==
    Range(broker) \cup Ids(disk)
      \cup (IF Durable THEN {} ELSE Ids(Range(memory)) \cup lost)

LEMMA AccountedFor == NoAdmissionLost <=> Range(admitted) \subseteq Accounted
BY DEF NoAdmissionLost, Accounted

LEMMA NoLossStep ==
    TypeOK /\ InFlightInv /\ NoAdmissionLost /\ [Next]_vars => NoAdmissionLost'
<1> SUFFICES ASSUME TypeOK, InFlightInv, Range(admitted) \subseteq Accounted,
                    [Next]_vars
             PROVE  Range(admitted') \subseteq Accounted'
  BY AccountedFor DEF NoAdmissionLost, Accounted
<1> USE DEF Accounted
<1>1. ASSUME NEW m \in Msgs, EnqueueMemory(m)
      PROVE  Range(admitted') \subseteq Accounted'
  <2> DEFINE r == NewRecord(m)
  <2>1. r \in Records /\ r.id = m
    BY DEF TypeOK, Records, NewRecord
  <2>2. Range(memory') = Range(memory) \cup {r}
    BY <1>1, <2>1, RangeOfAppend DEF EnqueueMemory, TypeOK
  <2>3. Range(admitted') = Range(admitted) \cup {m}
    BY <1>1, RangeOfAppend DEF EnqueueMemory, Admitted, TypeOK
  <2>4. ~Durable /\ Ids(Range(memory')) = Ids(Range(memory)) \cup {m}
    BY <1>1, <2>1, <2>2 DEF EnqueueMemory, MemoryAccepts, Ids
  <2> QED
    BY <1>1, <2>3, <2>4 DEF EnqueueMemory, Admitted
<1>2. ASSUME NEW m \in Msgs, EnqueueDisk(m)
      PROVE  Range(admitted') \subseteq Accounted'
  <2>1. Range(admitted') = Range(admitted) \cup {m}
    BY <1>2, RangeOfAppend DEF EnqueueDisk, Admitted, TypeOK
  <2>2. Ids(disk') = Ids(disk) \cup {m}
    BY <1>2 DEF EnqueueDisk, Ids, NewRecord
  <2> QED
    BY <1>2, <2>1, <2>2 DEF EnqueueDisk, Admitted
<1>3. CASE BrokerReceive
  <2>1. cur.id \in Msgs /\ broker \in Seq(Msgs)
    BY <1>3 DEF BrokerReceive, TypeOK, Records
  <2>2. Range(broker) \subseteq Range(broker')
    BY <1>3, <2>1, RangeOfAppend DEF BrokerReceive
  <2> QED
    BY <1>3, <2>2 DEF BrokerReceive
<1>4. CASE SendAck
  <2>1. cur.id \in Range(broker)
    BY <1>4 DEF SendAck, InFlightInv, ReachedIsReceived
  <2>2. CASE CompleteMemory
    <3>1. memory # <<>> /\ Head(memory) = cur /\ memory \in Seq(Records)
      BY <1>4, <2>2
         DEF SendAck, CompleteMemory, InFlightInv, HeadInFlight, TypeOK
    <3>2. Range(memory) = {cur} \cup Range(memory')
      BY <2>2, <3>1, RangeOfTail DEF CompleteMemory
    <3>3. Ids(Range(memory)) = {cur.id} \cup Ids(Range(memory'))
      BY <3>2 DEF Ids
    <3> QED
      BY <1>4, <2>1, <2>2, <3>3 DEF SendAck, CompleteMemory
  <2>3. CASE CompleteDisk
    <3>1. Ids(disk) = {cur.id} \cup Ids(disk')
      BY <2>3 DEF CompleteDisk, Ids
    <3> QED
      BY <1>4, <2>1, <2>3, <3>1 DEF SendAck, CompleteDisk
  <2> QED
    BY <1>4, <2>2, <2>3 DEF SendAck
<1>5. ASSUME SpillAll \/ SpillFails, UNCHANGED <<admitted, broker, lost>>
      PROVE  Range(admitted') \subseteq Accounted'
  <2>1. /\ disk \subseteq disk'
        /\ Range(memory') \cup disk' = Range(memory) \cup disk
        /\ memory = <<>> => memory' = <<>>
    BY <1>5, SpillKeepsRecords DEF TypeOK
  <2>2. Ids(disk) \subseteq Ids(disk')
    BY <2>1 DEF Ids
  <2>3. Ids(Range(memory)) \subseteq Ids(Range(memory')) \cup Ids(disk')
    BY <2>1 DEF Ids
  <2> QED
    BY <1>5, <2>2, <2>3
<1>6. CASE Dies
  <2>1. Durable => memory = <<>>
    BY DEF InFlightInv, OnDiskOnly
  <2> QED
    BY <1>6 DEF Dies
<1>7. ASSUME UNCHANGED <<admitted, broker, disk, memory, lost>>
      PROVE  Range(admitted') \subseteq Accounted'
  BY <1>7
<1>8. CASE UNCHANGED vars
  BY <1>7, <1>8 DEF vars
<1>9. CASE SendFail \/ SendFailSpillFails \/ CloseResumes
  BY <1>5, <1>9
     DEF SendFail, SendFailSpillFails, Fail, CloseResumes, CloseCompletes,
         CloseSpillFails
<1>10. CASE Run \/ SendAckCompleteFails \/ Finally \/ RetryFires
  BY <1>7, <1>10 DEF Run, SendAckCompleteFails, Finally, RetryFires
<1>11. CASE BecomeActive \/ BecomePassive \/ Waiting \/ Close \/ Open
  BY <1>7, <1>11
     DEF BecomeActive, BecomePassive, Waiting, WaitForIdle, WaiterTimesOut,
         Close, Open
<1>12. ASSUME NEW m \in Msgs, EnqueueFails(m)
       PROVE  Range(admitted') \subseteq Accounted'
  BY <1>7, <1>12 DEF EnqueueFails
<1> QED
  BY <1>1, <1>2, <1>3, <1>4, <1>6, <1>8, <1>9, <1>10, <1>11, <1>12
     DEF Next, Admission, SendSettles, Crash, Terminate

LEMMA IndInvariant == Spec => []IndInv
<1>1. IndInv /\ [Next]_vars => IndInv'
  BY TypeStep, InFlightStep, NoLossStep DEF IndInv, InFlightInv
<1> QED
  BY <1>1, IndInit, PTL DEF Spec

\* No admitted message is dropped before the broker has it, except RAM of a
\* buffered queue at a sudden death.
THEOREM AdmissionsSurvive == Spec => []NoAdmissionLost
<1>1. IndInv => NoAdmissionLost
  BY DEF IndInv
<1> QED
  BY <1>1, IndInvariant, PTL

\* Nothing but a sudden death of an open buffered queue takes work away.
THEOREM OnlySuddenDeathLoses == Spec => LossOnlyBySuddenDeath
<1>1. IndInv /\ [Next]_vars =>
        [lost' # lost => ~Durable /\ ~closed /\ crashes' # crashes]_vars
  <2> SUFFICES ASSUME IndInv, Next, lost' # lost
               PROVE  ~Durable /\ ~closed /\ crashes' # crashes
    BY DEF vars
  <2>1. Crash \/ Terminate
    BY DEF Next, Admission, EnqueueMemory, EnqueueDisk, EnqueueFails, Admitted,
           Run, BrokerReceive, SendSettles, SendAck, SendAckCompleteFails,
           SendFail, SendFailSpillFails, Finally, RetryFires, BecomeActive,
           BecomePassive, Waiting, WaitForIdle, WaiterTimesOut, Close,
           CloseResumes, CloseCompletes, CloseSpillFails, Open
  <2>2. lost' = lost \cup Ids(Range(memory))
    BY <2>1 DEF Crash, Terminate, Dies
  <2>3. memory # <<>>
    <3> SUFFICES ASSUME memory = <<>> PROVE FALSE
      OBVIOUS
    <3>1. Ids(Range(memory)) = {}
      BY DEF Ids, Range
    <3> QED
      BY <2>2, <3>1
  <2>4. ~Durable /\ ~closed
    BY <2>3 DEF IndInv, OnDiskOnly
  <2>5. crashes' = crashes + 1 /\ crashes \in Nat
    BY <2>1, <2>4, PublishQueueAssumption DEF Crash, Terminate, IndInv, TypeOK
  <2> QED
    BY <2>4, <2>5
<1> QED
  BY <1>1, IndInvariant, PTL DEF Spec, LossOnlyBySuddenDeath

-----------------------------------------------------------------------------
(* No lost wake-up.                                                        *)

LEMMA WakeupStep ==
    TypeOK /\ WorkIsScheduled /\ [Next]_vars => WorkIsScheduled'
<1> SUFFICES ASSUME TypeOK, WorkIsScheduled, [Next]_vars
             PROVE  WorkIsScheduled'
  OBVIOUS
<1> USE DEF WorkIsScheduled
<1>1. ASSUME NEW m \in Msgs, EnqueueMemory(m) \/ EnqueueDisk(m)
      PROVE  WorkIsScheduled'
  BY <1>1 DEF EnqueueMemory, EnqueueDisk, Admitted, Scheduled
<1>12. ASSUME NEW m \in Msgs, EnqueueFails(m) PROVE WorkIsScheduled'
  BY <1>12 DEF EnqueueFails, Pending
<1>2. CASE Run \/ BrokerReceive \/ SendAck \/ SendAckCompleteFails
  BY <1>2 DEF Run, BrokerReceive, SendAck, SendAckCompleteFails, Fail, Loop,
              Pending
<1>3. CASE SendFail \/ SendFailSpillFails
  BY <1>3 DEF SendFail, SendFailSpillFails, Fail
<1>4. CASE Finally
  BY <1>4 DEF Finally, Rescheduled, Scheduled, Pending
<1>5. CASE RetryFires
  BY <1>5 DEF RetryFires, Scheduled, Pending
<1>6. CASE BecomeActive \/ BecomePassive
  BY <1>6 DEF BecomeActive, BecomePassive, Scheduled, Pending
<1>7. CASE Waiting
  <2>1. UNCHANGED <<up, memory, disk, active, closed, blocked, processing,
                    retryTimer>>
    BY <1>7 DEF Waiting, WaitForIdle, WaiterTimesOut
  <2> QED
    BY <2>1 DEF Pending
<1>8. CASE Close \/ CloseCompletes
  BY <1>8 DEF Close, CloseCompletes
<1>9. CASE CloseSpillFails
  <2>1. Pending' = Pending
    BY <1>9, SpillKeepsRecords DEF CloseSpillFails, Pending, TypeOK
  <2> QED
    BY <1>9, <2>1 DEF CloseSpillFails
<1>10. CASE Crash \/ Terminate \/ Open
  BY <1>10 DEF Crash, Terminate, Dies, Open
<1>11. CASE UNCHANGED vars
  BY <1>11 DEF vars, Pending
<1> QED
  BY <1>1, <1>2, <1>3, <1>4, <1>5, <1>6, <1>7, <1>8, <1>9, <1>10, <1>11,
     <1>12 DEF Next, Admission, SendSettles, CloseResumes

\* Admitted work of an active, healthy queue is always being sent, scheduled,
\* or waiting for its retry timer.
THEOREM NoLostWakeup == Spec => []WorkIsScheduled
<1>1. Init => WorkIsScheduled
  BY DEF Init, WorkIsScheduled
<1> QED
  BY <1>1, WakeupStep, TypeCorrect, PTL DEF Spec
-----------------------------------------------------------------------------
(* The queue implements Outbox.                                            *)

Increasing(s) == \A i, j \in 1..Len(s) : i < j => s[i].seq < s[j].seq

\* s lists the records of R in the order of their sequence numbers.
Lists(s, R) == s \in Seq(Records) /\ Increasing(s) /\ Range(s) = R

Listing(s) == [i \in 1..Len(s) |-> s[i].id]

LEMMA RecordFields ==
    ASSUME NEW s \in Seq(Records)
    PROVE  \A i \in 1..Len(s) : s[i] \in Records /\ s[i].seq \in Nat /\ s[i].id \in Msgs
<1>1. ASSUME NEW r \in Records PROVE r.seq \in Nat /\ r.id \in Msgs
  BY DEF Records
<1> QED
  BY <1>1

LEMMA IncreasingInjective ==
    ASSUME NEW s \in Seq(Records), Increasing(s)
    PROVE  IsInjective(s)
<1>1. \A i \in 1..Len(s) : s[i] \in Records
  OBVIOUS
<1>2. ASSUME NEW i \in 1..Len(s), NEW j \in 1..Len(s), s[i] = s[j] PROVE i = j
  <2>1. s[i].seq \in Nat /\ s[j].seq \in Nat
    BY RecordFields
  <2>2. ~(i < j) /\ ~(j < i)
    BY <1>2, <2>1 DEF Increasing
  <2> QED
    BY <2>2
<1> QED
  BY <1>2 DEF IsInjective

\* The rank of a pending record is its place in the list of all of them.
LEMMA RankIsPlace ==
    ASSUME NEW s, Lists(s, Pending)
    PROVE  Cardinality(Pending) = Len(s) /\ \A i \in 1..Len(s) : Rank(s[i]) = i
<1>1. s \in Seq(Records) /\ Increasing(s) /\ Range(s) = Pending /\ IsInjective(s)
  BY IncreasingInjective DEF Lists
<1>2. Cardinality(Pending) = Len(s)
  BY <1>1, InjectiveLength
<1>3. ASSUME NEW i \in 1..Len(s) PROVE Rank(s[i]) = i
  <2>1. PICK t : t = SubSeq(s, 1, i)
    OBVIOUS
  <2>2. Len(s) \in Nat /\ i \in Nat /\ 1 <= i /\ i <= Len(s)
    BY <1>1, LenProperties
  <2>3. \A j \in 1..i : s[j] \in Records
    BY <1>1, <2>2
  <2>4. /\ t \in Seq(Records) /\ Len(t) = i /\ \A j \in 1..i : t[j] = s[j]
    BY <2>1, <2>2, <2>3, SubSeqProperties
  <2>5. IsInjective(t)
    <3>1. DOMAIN t = 1..i /\ DOMAIN s = 1..Len(s) /\ 1..i \subseteq 1..Len(s)
      BY <1>1, <2>2, <2>4
    <3> QED
      BY <1>1, <2>4, <3>1 DEF IsInjective
  <2>6. Range(t) = {d \in Pending : d.seq <= s[i].seq}
    <3>1. Range(t) = {s[j] : j \in 1..i}
      BY <2>4, RangeEquality
    <3>2. Pending = {s[j] : j \in 1..Len(s)}
      BY <1>1, RangeEquality
    <3>3. ASSUME NEW j \in 1..Len(s) PROVE s[j].seq <= s[i].seq <=> j <= i
      <4>1. s[j].seq \in Nat /\ s[i].seq \in Nat
        BY <1>1, RecordFields
      <4>2. (j < i => s[j].seq < s[i].seq) /\ (i < j => s[i].seq < s[j].seq)
        BY <1>1 DEF Increasing
      <4>3. j < i \/ i < j \/ i = j
        BY <2>2
      <4> QED
        BY <2>2, <4>1, <4>2, <4>3
    <3>4. \A j \in 1..i : j \in 1..Len(s) /\ j <= i
      BY <2>2
    <3>5. \A j \in 1..Len(s) : j <= i => j \in 1..i
      BY <2>2
    <3> QED
      BY <3>1, <3>2, <3>3, <3>4, <3>5
  <2> QED
    BY <2>4, <2>5, <2>6, InjectiveLength DEF Rank
<1> QED
  BY <1>2, <1>3

\* The refinement mapping is the listing of the pending records.
QueueListed == \A s \in Seq(Records) : Lists(s, Pending) => PendingQueue = Listing(s)

LEMMA QueueIsListing == QueueListed
<1> SUFFICES ASSUME NEW s \in Seq(Records), Lists(s, Pending) PROVE PendingQueue = Listing(s)
  BY DEF QueueListed
<1>1. /\ Cardinality(Pending) = Len(s) /\ \A i \in 1..Len(s) : Rank(s[i]) = i
  BY RankIsPlace
<1>2. Pending = {s[i] : i \in 1..Len(s)}
  BY RangeEquality DEF Lists
<1>3. ASSUME NEW i \in 1..Len(s) PROVE (CHOOSE r \in Pending : Rank(r) = i) = s[i]
  <2>1. s[i] \in Pending /\ Rank(s[i]) = i
    BY <1>1, <1>2
  <2>2. ASSUME NEW r \in Pending, Rank(r) = i PROVE r = s[i]
    <3>1. PICK j \in 1..Len(s) : r = s[j]
      BY <1>2
    <3> QED
      BY <1>1, <2>2, <3>1
  <2> QED
    BY <2>1, <2>2
<1>4. PendingQueue = [i \in 1..Len(s) |-> (CHOOSE r \in Pending : Rank(r) = i).id]
  BY <1>1 DEF PendingQueue
<1>5. \A i \in 1..Len(s) : (CHOOSE r \in Pending : Rank(r) = i).id = s[i].id
  BY <1>3
<1>6. [i \in 1..Len(s) |-> (CHOOSE r \in Pending : Rank(r) = i).id] = [i \in 1..Len(s) |-> s[i].id]
  BY <1>5, Zenon
<1> QED
  BY <1>4, <1>6 DEF Listing

\* A record with a new highest number comes last.
LEMMA ListAppend ==
    ASSUME NEW s, NEW R, Lists(s, R), NEW r \in Records, \A d \in R : d.seq < r.seq
    PROVE  Lists(Append(s, r), R \cup {r})
           /\ Listing(Append(s, r)) = Append(Listing(s), r.id)
<1>1. s \in Seq(Records) /\ Increasing(s) /\ Range(s) = R
  BY DEF Lists
<1>2. PICK t : t = Append(s, r)
  OBVIOUS
<1>3. /\ t \in Seq(Records) /\ Len(t) = Len(s) + 1 /\ t[Len(s) + 1] = r /\ Len(s) \in Nat
      /\ \A i \in 1..Len(s) : t[i] = s[i]
  BY <1>1, <1>2, AppendProperties
<1>4. Range(t) = R \cup {r}
  BY <1>1, <1>2, RangeOfAppend
<1>5. Increasing(t)
  <2> SUFFICES ASSUME NEW i \in 1..(Len(s) + 1), NEW j \in 1..(Len(s) + 1), i < j
               PROVE  t[i].seq < t[j].seq
    BY <1>3 DEF Increasing
  <2>1. i \in 1..Len(s) /\ (j \in 1..Len(s) \/ j = Len(s) + 1)
    BY <1>3
  <2>2. s[i] \in R
    BY <1>1, <2>1 DEF Range
  <2> QED
    BY <1>1, <1>3, <2>1, <2>2 DEF Increasing
<1>6. Listing(t) = Append(Listing(s), r.id)
  <2>1. \A i \in 1..Len(s) : s[i].id \in Msgs
    BY <1>1, RecordFields
  <2>2. r.id \in Msgs
    BY DEF Records
  <2>3. PICK l \in Seq(Msgs) : l = Listing(s)
    <3>1. PICK l : l = [i \in 1..Len(s) |-> s[i].id]
      OBVIOUS
    <3>2. l \in [1..Len(s) -> Msgs]
      BY <2>1, <3>1
    <3> QED
      BY <1>3, <3>1, <3>2 DEF Listing
  <2>4. Len(l) = Len(s) /\ \A i \in 1..Len(s) : l[i] = s[i].id
    BY <1>3, <2>3 DEF Listing
  <2>5. PICK k : k = Append(l, r.id)
    OBVIOUS
  <2>6. /\ k \in Seq(Msgs) /\ Len(k) = Len(s) + 1 /\ k[Len(s) + 1] = r.id
        /\ \A i \in 1..Len(s) : k[i] = s[i].id
    BY <2>2, <2>4, <2>5, AppendProperties
  <2>7. ASSUME NEW i \in 1..(Len(s) + 1) PROVE k[i] = t[i].id
    <3>1. i \in 1..Len(s) \/ i = Len(s) + 1
      BY <1>3
    <3> QED
      BY <1>3, <2>6, <3>1
  <2>8. k = [i \in 1..(Len(s) + 1) |-> t[i].id]
    BY <2>6, <2>7
  <2> QED
    BY <1>3, <2>3, <2>5, <2>8 DEF Listing
<1> QED
  BY <1>2, <1>3, <1>4, <1>5, <1>6 DEF Lists

\* The record with the lowest number comes first.
LEMMA ListTail ==
    ASSUME NEW s, NEW R, Lists(s, R), NEW r \in R, \A d \in R : r.seq <= d.seq
    PROVE  /\ s # <<>> /\ Head(s) = r /\ Lists(Tail(s), R \ {r})
           /\ Listing(s) # <<>> /\ Head(Listing(s)) = r.id
           /\ Listing(Tail(s)) = Tail(Listing(s))
<1>1. s \in Seq(Records) /\ Increasing(s) /\ Range(s) = R /\ IsInjective(s)
  BY IncreasingInjective DEF Lists
<1>2. PICK k \in 1..Len(s) : r = s[k]
  BY <1>1 DEF Range
<1>3. Len(s) \in Nat /\ 1 \in 1..Len(s) /\ k \in Nat /\ s # <<>>
  BY <1>1, <1>2, EmptySeq
<1>4. k = 1
  <2>1. s[1] \in R /\ s[1].seq \in Nat /\ s[k].seq \in Nat
    <3>1. s[1] \in Range(s)
      BY <1>1, <1>3 DEF Range
    <3> QED
      BY <1>1, <1>2, <1>3, <3>1, RecordFields
  <2>2. r.seq <= s[1].seq
    BY <2>1
  <2>3. 1 < k => s[1].seq < s[k].seq
    BY <1>1, <1>3 DEF Increasing
  <2> QED
    BY <1>2, <1>3, <2>1, <2>2, <2>3
<1>5. Head(s) = r
  BY <1>1, <1>2, <1>3, <1>4
<1>6. PICK t : t = Tail(s)
  OBVIOUS
<1>7. /\ t \in Seq(Records) /\ Len(t) = Len(s) - 1 /\ \A i \in 1..(Len(s) - 1) : t[i] = s[i + 1]
  BY <1>1, <1>3, <1>6, HeadTailProperties
<1>8. Range(t) = R \ {r}
  BY <1>1, <1>3, <1>5, <1>6, RangeOfTail, InjectiveTail
<1>9. Increasing(t)
  <2> SUFFICES ASSUME NEW i \in 1..(Len(s) - 1), NEW j \in 1..(Len(s) - 1), i < j
               PROVE  t[i].seq < t[j].seq
    BY <1>7 DEF Increasing
  <2>1. i + 1 \in 1..Len(s) /\ j + 1 \in 1..Len(s) /\ i + 1 < j + 1
    BY <1>3
  <2> QED
    BY <1>1, <1>7, <2>1 DEF Increasing
<1>10. PICK l \in Seq(Msgs) : l = Listing(s)
  <2>1. \A i \in 1..Len(s) : s[i].id \in Msgs
    BY <1>1, RecordFields
  <2>2. PICK l : l = [i \in 1..Len(s) |-> s[i].id]
    OBVIOUS
  <2>3. l \in [1..Len(s) -> Msgs]
    BY <2>1, <2>2
  <2> QED
    BY <1>3, <2>2, <2>3 DEF Listing
<1>11. Len(l) = Len(s) /\ \A i \in 1..Len(s) : l[i] = s[i].id
  BY <1>3, <1>10 DEF Listing
<1>12. l # <<>> /\ Head(l) = r.id
  BY <1>3, <1>2, <1>4, <1>11, EmptySeq
<1>13. Listing(t) = Tail(l)
  <2>1. /\ Tail(l) \in Seq(Msgs) /\ Len(Tail(l)) = Len(s) - 1
        /\ \A i \in 1..(Len(s) - 1) : Tail(l)[i] = l[i + 1]
    BY <1>11, <1>12, HeadTailProperties
  <2>2. ASSUME NEW i \in 1..(Len(s) - 1) PROVE Tail(l)[i] = t[i].id
    <3>1. i + 1 \in 1..Len(s)
      BY <1>3
    <3> QED
      BY <1>7, <1>11, <2>1, <3>1
  <2>3. Tail(l) = [i \in 1..(Len(s) - 1) |-> t[i].id]
    <3>1. PICK u \in Seq(Msgs) : u = Tail(l)
      BY <2>1
    <3>2. Len(u) = Len(s) - 1
      BY <2>1, <3>1
    <3>3. DOMAIN u = 1..(Len(s) - 1) /\ u = [i \in DOMAIN u |-> u[i]]
      BY <3>2
    <3> QED
      BY <2>2, <3>1, <3>3
  <2> QED
    BY <1>7, <2>3 DEF Listing
<1> QED
  BY <1>3, <1>5, <1>6, <1>7, <1>8, <1>9, <1>10, <1>12, <1>13 DEF Lists

\* Fewer records keep their order.
LEMMA ListPart ==
    ASSUME NEW s, NEW R, Lists(s, R), NEW t, NEW T \in SUBSET R, Lists(t, T)
    PROVE  \E from \in [1..Len(t) -> 1..Len(s)] :
             /\ \A i, j \in 1..Len(t) : i < j => from[i] < from[j]
             /\ \A i \in 1..Len(t) : t[i] = s[from[i]]
<1>1. /\ s \in Seq(Records) /\ Increasing(s) /\ Range(s) = R
      /\ t \in Seq(Records) /\ Increasing(t) /\ Range(t) = T
  BY DEF Lists
<1>2. PICK from : from = [i \in 1..Len(t) |-> CHOOSE k \in 1..Len(s) : s[k] = t[i]]
  OBVIOUS
<1>3. ASSUME NEW i \in 1..Len(t) PROVE from[i] \in 1..Len(s) /\ s[from[i]] = t[i]
  <2>1. t[i] \in R
    BY <1>1 DEF Range
  <2>2. \E k \in 1..Len(s) : s[k] = t[i]
    BY <1>1, <2>1 DEF Range
  <2> QED
    BY <1>2, <2>2
<1>4. ASSUME NEW i \in 1..Len(t), NEW j \in 1..Len(t), i < j PROVE from[i] < from[j]
  <2>1. from[i] \in 1..Len(s) /\ from[j] \in 1..Len(s) /\ s[from[i]] = t[i] /\ s[from[j]] = t[j]
    BY <1>3
  <2>2. t[i].seq < t[j].seq /\ t[i].seq \in Nat /\ t[j].seq \in Nat
    BY <1>1, <1>4, RecordFields DEF Increasing
  <2>3. from[j] < from[i] => s[from[j]].seq < s[from[i]].seq
    BY <1>1, <2>1 DEF Increasing
  <2>4. ~(from[j] < from[i]) /\ from[j] # from[i]
    BY <2>1, <2>2, <2>3
  <2> QED
    BY <2>1, <2>4
<1>5. from \in [1..Len(t) -> 1..Len(s)]
  BY <1>2, <1>3
<1> QED
  BY <1>3, <1>4, <1>5

\* RAM holds later records than it has already passed on to disk.
MemoryHolds ==
    /\ ~up => memory = <<>>
    /\ Increasing(memory) /\ Range(memory) \cap disk = {}

NumbersHold == \A r \in Pending : r.seq <= seq

\* What is tried is the first of the pending records.
First(r, mem, dsk) ==
    /\ r \in Range(mem) \cup dsk
    /\ \A d \in Range(mem) \cup dsk : r.seq <= d.seq

FirstInFlight ==
    processing = "sending" /\ attempt # "refused" =>
        First(cur, memory, disk) /\ (~fromMemory => cur \in disk)

\* Nothing is received after the attempt that awaits its acknowledgement.
LastReceived ==
    processing = "sending" /\ attempt = "reached" =>
        broker # <<>> /\ broker[Len(broker)] = cur.id

\* However many of the pending records remain, they can be listed in order.
Sortable(R) == \A T \in SUBSET R : \E s : Lists(s, T)

OrderInv ==
    /\ IndInv /\ MemoryHolds /\ NumbersHold /\ FirstInFlight /\ LastReceived
    /\ Sortable(Pending)

LEMMA OrderInit == Init => OrderInv
<1> SUFFICES ASSUME Init PROVE OrderInv
  OBVIOUS
<1>1. memory = <<>> /\ disk = {} /\ processing = "none" /\ Len(<<>>) = 0 /\ Range(<<>>) = {}
  BY DEF Init, Range
<1>2. Pending = {}
  BY <1>1 DEF Pending
<1>3. Lists(<<>>, {})
  <2>1. <<>> \in Seq(Records)
    BY EmptySeq
  <2> QED
    BY <1>1, <2>1 DEF Lists, Increasing
<1>4. MemoryHolds
  BY <1>1 DEF MemoryHolds, Increasing
<1>5. NumbersHold /\ FirstInFlight /\ LastReceived
  BY <1>1, <1>2 DEF NumbersHold, FirstInFlight, LastReceived
<1>6. Sortable(Pending)
  BY <1>2, <1>3 DEF Sortable
<1> QED
  BY <1>4, <1>5, <1>6, IndInit DEF OrderInv

\* The head of RAM is its first record.
LEMMA HeadIsFirst ==
    ASSUME NEW mem \in Seq(Records), Increasing(mem), mem # <<>>
    PROVE  Head(mem) \in Range(mem) /\ \A d \in Range(mem) : Head(mem).seq <= d.seq
<1>1. Len(mem) \in Nat /\ 1 \in 1..Len(mem) /\ Head(mem) = mem[1]
  BY EmptySeq
<1>2. ASSUME NEW i \in 1..Len(mem) PROVE mem[1].seq <= mem[i].seq
  <2>1. mem[1].seq \in Nat /\ mem[i].seq \in Nat
    BY <1>1, RecordFields
  <2>2. i = 1 \/ 1 < i
    BY <1>1
  <2>3. 1 < i => mem[1].seq < mem[i].seq
    BY <1>1 DEF Increasing
  <2> QED
    BY <2>1, <2>2, <2>3
<1> QED
  BY <1>1, <1>2, RangeEquality

\* The loop picks the first of the pending records.
LEMMA LoopPicksFirst ==
    ASSUME NEW mem \in Seq(Records), NEW dsk \in SUBSET Records, Increasing(mem),
           Loop(mem, dsk), processing' = "sending"
    PROVE  First(cur', mem, dsk) /\ (~fromMemory' => cur' \in dsk)
<1>1. PICK r \in Range(mem) \cup dsk :
        /\ PicksMemory(r, mem, dsk) \/ PicksDisk(r, mem, dsk)
        /\ fromMemory' = PicksMemory(r, mem, dsk) /\ cur' = r
  BY DEF Loop
<1>2. \A d \in Range(mem) \cup dsk : d.seq \in Nat
  <2>1. Range(mem) \subseteq Records
    BY RangeOfSeq
  <2> QED
    BY <2>1 DEF Records
<1>3. mem # <<>> => Head(mem) \in Range(mem) /\ \A d \in Range(mem) : Head(mem).seq <= d.seq
  BY HeadIsFirst
<1>4. CASE PicksMemory(r, mem, dsk)
  BY <1>1, <1>3, <1>4 DEF PicksMemory, First
<1>5. CASE ~PicksMemory(r, mem, dsk)
  <2>1. r \in dsk /\ (\A d \in dsk : r.seq <= d.seq) /\ (mem # <<>> => r.seq < Head(mem).seq)
    BY <1>1, <1>5 DEF PicksDisk, IsHead
  <2>2. mem = <<>> => Range(mem) = {}
    BY DEF Range
  <2>3. ASSUME NEW d \in Range(mem) PROVE r.seq <= d.seq
    <3>1. mem # <<>> /\ Head(mem).seq \in Nat /\ r.seq \in Nat /\ d.seq \in Nat
      BY <1>1, <1>2, <1>3, <2>2
    <3> QED
      BY <1>3, <2>1, <3>1
  <2> QED
    BY <1>1, <2>1, <2>3 DEF First
<1> QED
  BY <1>4, <1>5

\* A spill moves the first records of RAM.
LEMMA SpillKeepsOrder ==
    ASSUME TypeOK, MemoryHolds, SpillAll \/ SpillFails, up' = up
    PROVE  MemoryHolds' /\ Pending' = Pending
<1>1. /\ memory' \in Seq(Records) /\ disk' \subseteq Records
      /\ Range(memory') \cup disk' = Range(memory) \cup disk
      /\ memory = <<>> => memory' = <<>>
  BY SpillKeepsRecords DEF TypeOK
<1>2. memory \in Seq(Records) /\ Increasing(memory) /\ IsInjective(memory)
  BY IncreasingInjective DEF TypeOK, MemoryHolds
<1>3. CASE SpillAll
  <2>1. memory' = <<>> /\ Range(<<>>) = {} /\ Len(<<>>) = 0
    BY <1>3 DEF SpillAll, Range
  <2> QED
    BY <1>1, <2>1 DEF MemoryHolds, Increasing, Pending
<1>4. CASE SpillFails
  <2>1. PICK k \in 0..(Len(memory) - 1) :
          /\ disk' = disk \cup {memory[i] : i \in 1..k}
          /\ memory' = SubSeq(memory, k + 1, Len(memory))
    BY <1>4 DEF SpillFails, SpilledDisk
  <2>2. Len(memory) \in Nat /\ k \in Nat /\ k < Len(memory) /\ k \in 0..Len(memory)
    BY <1>2, <2>1
  <2>3. {memory[i] : i \in 1..k} \cap Range(memory') = {}
        /\ Range(memory') \subseteq Range(memory)
    BY <1>2, <2>1, <2>2, InjectiveSplit, RangeOfSplit
  <2>4. Range(memory') \cap disk' = {}
    BY <2>1, <2>3 DEF MemoryHolds
  <2>5. Increasing(memory')
    <3>1. PICK t : t = SubSeq(memory, k + 1, Len(memory))
      OBVIOUS
    <3>2. \A i \in (k + 1)..Len(memory) : memory[i] \in Records
      BY <1>2, <2>2
    <3>3. /\ Len(t) = Len(memory) - k
          /\ \A i \in 1..(Len(memory) - k) : t[i] = memory[i + k]
      <4>1. /\ Len(t) = Len(memory) - (k + 1) + 1
            /\ \A i \in 1..(Len(memory) - (k + 1) + 1) : t[i] = memory[(k + 1) + i - 1]
        BY <2>2, <3>1, <3>2, SubSeqProperties
      <4>2. Len(memory) - (k + 1) + 1 = Len(memory) - k
        BY <2>2
      <4>3. \A i \in 1..(Len(memory) - k) : (k + 1) + i - 1 = i + k
        BY <2>2
      <4> QED
        BY <4>1, <4>2, <4>3
    <3>4. ASSUME NEW i \in 1..(Len(memory) - k), NEW j \in 1..(Len(memory) - k), i < j
          PROVE  t[i].seq < t[j].seq
      <4>1. i + k \in 1..Len(memory) /\ j + k \in 1..Len(memory) /\ i + k < j + k
        BY <2>2, <3>4
      <4> QED
        BY <1>2, <3>3, <4>1 DEF Increasing
    <3> QED
      BY <2>1, <3>1, <3>3, <3>4 DEF Increasing
  <2> QED
    BY <1>1, <2>4, <2>5 DEF MemoryHolds, Pending
<1> QED
  BY <1>3, <1>4

LEMMA SortablePart ==
    ASSUME NEW R, NEW T \in SUBSET R, Sortable(R)
    PROVE  Sortable(T)
BY DEF Sortable

LEMMA SortableAppend ==
    ASSUME NEW R, Sortable(R), NEW r \in Records, \A d \in R : d.seq < r.seq
    PROVE  Sortable(R \cup {r})
<1> SUFFICES ASSUME NEW T \in SUBSET (R \cup {r}) PROVE \E s : Lists(s, T)
  BY DEF Sortable
<1>1. PICK P : P = T \ {r}
  OBVIOUS
<1>2. P \in SUBSET R
  BY <1>1
<1>3. PICK s : Lists(s, P)
  BY <1>2 DEF Sortable
<1>4. CASE r \in T
  <2>1. Lists(Append(s, r), P \cup {r})
    BY <1>2, <1>3, ListAppend
  <2>2. T = P \cup {r}
    BY <1>1, <1>4
  <2> QED
    BY <2>1, <2>2
<1>5. CASE r \notin T
  BY <1>1, <1>3, <1>5
<1> QED
  BY <1>4, <1>5

OrderPart ==
    MemoryHolds /\ NumbersHold /\ FirstInFlight /\ LastReceived /\ Sortable(Pending)

\* An admission adds the record with the highest number.
LEMMA AdmissionAdds ==
    ASSUME IndInv, OrderPart, NEW m \in Msgs, EnqueueMemory(m) \/ EnqueueDisk(m)
    PROVE  /\ NewRecord(m) \in Records /\ NewRecord(m).id = m
           /\ \A d \in Pending : d.seq < NewRecord(m).seq
           /\ Pending' = Pending \cup {NewRecord(m)}
           /\ memory' \in {memory, Append(memory, NewRecord(m))}
           /\ memory' # memory => disk' = disk
<1>1. memory \in Seq(Records) /\ disk \subseteq Records /\ seq \in Nat
  BY DEF IndInv, TypeOK
<1>2. NewRecord(m) \in Records /\ NewRecord(m).id = m /\ NewRecord(m).seq = seq + 1
  BY <1>1 DEF NewRecord, Records
<1>3. Pending \subseteq Records
  BY <1>1, RangeOfSeq DEF Pending
<1>4. \A d \in Pending : d.seq < NewRecord(m).seq
  <2> TAKE d \in Pending
  <2>1. d.seq <= seq /\ d.seq \in Nat
    BY <1>3 DEF OrderPart, NumbersHold, Records
  <2> QED
    BY <1>1, <1>2, <2>1
<1>5. CASE EnqueueMemory(m)
  <2>1. memory' = Append(memory, NewRecord(m)) /\ disk' = disk
    BY <1>5 DEF EnqueueMemory
  <2>2. Range(memory') = Range(memory) \cup {NewRecord(m)}
    BY <1>1, <1>2, <2>1, RangeOfAppend
  <2> QED
    BY <1>2, <1>4, <2>1, <2>2 DEF Pending
<1>6. CASE EnqueueDisk(m)
  <2>1. memory' = memory /\ disk' = disk \cup {NewRecord(m)}
    BY <1>6 DEF EnqueueDisk
  <2> QED
    BY <1>2, <1>4, <2>1 DEF Pending
<1> QED
  BY <1>5, <1>6

LEMMA AdmissionKeepsOrder ==
    ASSUME IndInv, OrderPart, NEW m \in Msgs, EnqueueMemory(m) \/ EnqueueDisk(m)
    PROVE  OrderPart'
<1>1. PICK r \in Records : /\ r = NewRecord(m) /\ r.seq = seq + 1
                           /\ \A d \in Pending : d.seq < r.seq
                           /\ Pending' = Pending \cup {r}
                           /\ memory' \in {memory, Append(memory, r)}
                           /\ memory' # memory => disk' = disk
  <2>1. NewRecord(m).seq = seq + 1
    BY DEF NewRecord
  <2> QED
    BY <2>1, AdmissionAdds
<1>2. /\ memory \in Seq(Records) /\ disk \subseteq Records /\ seq \in Nat
      /\ Pending \subseteq Records
  BY RangeOfSeq DEF IndInv, TypeOK, Pending
<1>3. /\ up /\ up' = up /\ seq' = seq + 1
      /\ processing' = "sending" => processing = "sending"
      /\ UNCHANGED <<cur, fromMemory, attempt, broker>>
  BY DEF EnqueueMemory, EnqueueDisk, MayAdmit, Admitted, Scheduled
<1>4. r \notin Pending
  <2>1. r.seq \in Nat
    BY DEF Records
  <2> QED
    BY <1>1, <2>1
<1>5. /\ Range(memory') \cup disk' = (Range(memory) \cup disk) \cup {r}
      /\ r \notin Range(memory) \cup disk
  BY <1>1, <1>4 DEF Pending
<1>6. MemoryHolds'
  <2>1. CASE memory' = memory
    <3>1. disk' \subseteq disk \cup {r}
      BY <1>1 DEF EnqueueMemory, EnqueueDisk
    <3> QED
      BY <1>3, <1>5, <2>1, <3>1 DEF OrderPart, MemoryHolds
  <2>2. CASE memory' # memory
    <3>1. memory' = Append(memory, r) /\ disk' = disk
      BY <1>1, <2>2
    <3>2. Range(memory) \cap disk = {} /\ Increasing(memory) /\ Lists(memory, Range(memory))
      BY <1>2 DEF OrderPart, MemoryHolds, Lists
    <3>3. Lists(memory', Range(memory) \cup {r})
      <4>1. \A d \in Range(memory) : d.seq < r.seq
        BY <1>1 DEF Pending
      <4> QED
        BY <3>1, <3>2, <4>1, ListAppend
    <3>4. Increasing(memory') /\ Range(memory') = Range(memory) \cup {r}
      BY <3>3 DEF Lists
    <3> QED
      BY <1>3, <1>5, <3>1, <3>2, <3>4 DEF MemoryHolds
  <2> QED
    BY <2>1, <2>2
<1>7. NumbersHold'
  <2>1. ASSUME NEW d \in Pending' PROVE d.seq <= seq'
    <3>1. d \in Records /\ d.seq \in Nat /\ (d = r \/ d.seq <= seq)
      BY <1>1, <1>2 DEF OrderPart, NumbersHold, Records
    <3> QED
      BY <1>1, <1>2, <1>3, <3>1
  <2> QED
    BY <2>1 DEF NumbersHold
<1>8. FirstInFlight'
  <2> SUFFICES ASSUME processing' = "sending", attempt' # "refused"
               PROVE  First(cur, memory, disk)' /\ (~fromMemory' => cur' \in disk')
    BY DEF FirstInFlight
  <2>1. First(cur, memory, disk) /\ (~fromMemory => cur \in disk)
    BY <1>3 DEF OrderPart, FirstInFlight
  <2>2. cur \in Pending /\ \A d \in Pending : cur.seq <= d.seq
    BY <2>1 DEF First, Pending
  <2>3. cur.seq <= r.seq
    <3>1. cur.seq \in Nat /\ r.seq \in Nat /\ cur.seq < r.seq
      BY <1>1, <1>2, <2>2 DEF Records
    <3> QED
      BY <3>1
  <2>4. disk \subseteq disk'
    BY DEF EnqueueMemory, EnqueueDisk
  <2>5. \A d \in Range(memory') \cup disk' : cur.seq <= d.seq
    BY <1>5, <2>2, <2>3 DEF Pending
  <2>6. cur \in Range(memory') \cup disk'
    BY <1>5, <2>2 DEF Pending
  <2> QED
    BY <1>3, <2>1, <2>4, <2>5, <2>6 DEF First
<1>9. LastReceived'
  BY <1>3 DEF OrderPart, LastReceived
<1>10. Sortable(Pending')
  BY <1>1, SortableAppend DEF OrderPart
<1> QED
  BY <1>6, <1>7, <1>8, <1>9, <1>10 DEF OrderPart

\* Steps that leave the records where they are and start no send.
LEMMA OrderFrame ==
    ASSUME OrderPart, UNCHANGED <<memory, disk>>, seq' >= seq, seq \in Nat, seq' \in Nat,
           Pending \subseteq Records, up' = up,
           processing' = "sending" =>
              processing = "sending" /\ UNCHANGED <<cur, fromMemory, attempt, broker>>
    PROVE  OrderPart' /\ Pending' = Pending
<1>1. Pending' = Pending
  BY DEF Pending
<1>2. MemoryHolds'
  BY DEF OrderPart, MemoryHolds
<1>3. NumbersHold'
  <2>1. ASSUME NEW d \in Pending PROVE d.seq <= seq'
    <3>1. d.seq \in Nat /\ d.seq <= seq
      BY DEF OrderPart, NumbersHold, Records
    <3> QED
      BY <3>1
  <2> QED
    BY <1>1, <2>1 DEF NumbersHold
<1>4. FirstInFlight' /\ LastReceived'
  BY DEF OrderPart, FirstInFlight, LastReceived, First
<1>5. Sortable(Pending')
  BY <1>1 DEF OrderPart
<1> QED
  BY <1>1, <1>2, <1>3, <1>4, <1>5 DEF OrderPart

\* The acknowledged record leaves the pending ones, and was the first of them.
LEMMA AckRetiresFirst ==
    ASSUME IndInv, OrderPart, SendAck
    PROVE  /\ cur \in Pending /\ (\A d \in Pending : cur.seq <= d.seq)
           /\ Pending' = Pending \ {cur} /\ MemoryHolds'
           /\ memory' \in Seq(Records) /\ disk' \in SUBSET Records
<1>1. /\ memory \in Seq(Records) /\ disk \in SUBSET Records
      /\ Increasing(memory) /\ IsInjective(memory) /\ Range(memory) \cap disk = {}
  <2>1. memory \in Seq(Records) /\ disk \in SUBSET Records
    BY DEF IndInv, TypeOK
  <2> QED
    BY <2>1, IncreasingInjective DEF OrderPart, MemoryHolds
<1>2. up /\ up' = up /\ processing = "sending" /\ attempt = "reached"
  BY DEF SendAck
<1>3. cur \in Pending /\ (\A d \in Pending : cur.seq <= d.seq) /\ (~fromMemory => cur \in disk)
  BY <1>2 DEF OrderPart, FirstInFlight, First, Pending
<1>4. CASE CompleteMemory
  <2>1. memory # <<>> /\ Head(memory) = cur
    BY <1>2, <1>4 DEF CompleteMemory, IndInv, HeadInFlight
  <2>2. memory' = Tail(memory) /\ disk' = disk
    BY <1>4, <2>1 DEF CompleteMemory
  <2>3. Lists(memory, Range(memory))
    BY <1>1 DEF Lists
  <2>4. cur \in Range(memory) /\ \A d \in Range(memory) : cur.seq <= d.seq
    BY <1>1, <2>1, HeadIsFirst
  <2>5. Lists(memory', Range(memory) \ {cur})
    BY <2>2, <2>3, <2>4, ListTail
  <2>6. memory' \in Seq(Records) /\ Increasing(memory') /\ Range(memory') = Range(memory) \ {cur}
    BY <2>5 DEF Lists
  <2>7. MemoryHolds'
    BY <1>1, <1>2, <2>2, <2>6 DEF MemoryHolds
  <2>8. Pending' = Pending \ {cur}
    BY <1>1, <2>2, <2>4, <2>6 DEF Pending
  <2> QED
    BY <1>1, <1>3, <2>2, <2>6, <2>7, <2>8
<1>5. CASE CompleteDisk
  <2>1. memory' = memory /\ disk' = disk \ {cur} /\ cur \in disk
    BY <1>5 DEF CompleteDisk
  <2>2. Pending' = Pending \ {cur}
    BY <1>1, <2>1 DEF Pending
  <2>3. MemoryHolds'
    BY <1>1, <1>2, <2>1 DEF MemoryHolds
  <2> QED
    BY <1>1, <1>3, <2>1, <2>2, <2>3
<1> QED
  BY <1>4, <1>5 DEF SendAck

LEMMA AckKeepsOrder ==
    ASSUME IndInv, OrderPart, SendAck
    PROVE  OrderPart'
<1>1. /\ Pending' = Pending \ {cur} /\ MemoryHolds'
      /\ memory' \in Seq(Records) /\ disk' \in SUBSET Records
  BY AckRetiresFirst
<1>2. Loop(memory', disk') /\ seq' = seq
  BY DEF SendAck
<1>3. processing' = "sending" => attempt' # "reached"
  BY <1>2 DEF Loop
<1>4. Increasing(memory')
  BY <1>1 DEF MemoryHolds
<1>5. processing' = "sending" => First(cur', memory', disk') /\ (~fromMemory' => cur' \in disk')
  <2>1. PICK mem \in Seq(Records), dsk \in SUBSET Records : mem = memory' /\ dsk = disk'
    BY <1>1
  <2>2. Increasing(mem) /\ Loop(mem, dsk)
    BY <1>2, <1>4, <2>1
  <2>3. processing' = "sending" => First(cur', mem, dsk) /\ (~fromMemory' => cur' \in dsk)
    BY <2>2, LoopPicksFirst
  <2> QED
    BY <2>1, <2>3
<1>6. FirstInFlight'
  BY <1>5 DEF FirstInFlight, First
<1>7. LastReceived'
  BY <1>3 DEF LastReceived
<1>8. NumbersHold'
  BY <1>1, <1>2 DEF OrderPart, NumbersHold
<1>9. Sortable(Pending')
  BY <1>1, SortablePart DEF OrderPart
<1> QED
  BY <1>1, <1>6, <1>7, <1>8, <1>9 DEF OrderPart

LEMMA SpillKeepsOrderPart ==
    ASSUME IndInv, OrderPart, SpillAll \/ SpillFails, up' = up, seq' = seq,
           processing' = "sending" =>
              processing = "sending" /\ attempt = "refused" /\ UNCHANGED attempt
    PROVE  OrderPart' /\ Pending' = Pending
<1>1. MemoryHolds' /\ Pending' = Pending
  BY SpillKeepsOrder DEF IndInv, OrderPart
<1>2. NumbersHold'
  BY <1>1 DEF OrderPart, NumbersHold
<1>3. FirstInFlight' /\ LastReceived'
  BY DEF FirstInFlight, LastReceived
<1>4. Sortable(Pending')
  BY <1>1 DEF OrderPart
<1> QED
  BY <1>1, <1>2, <1>3, <1>4 DEF OrderPart

LEMMA DeathKeepsOrder ==
    ASSUME IndInv, OrderPart, Dies
    PROVE  OrderPart' /\ Pending' = disk /\ disk \subseteq Pending
<1>1. /\ memory' = <<>> /\ disk' = disk /\ seq' = seq /\ processing' = "none"
      /\ Range(<<>>) = {} /\ Len(<<>>) = 0
  BY DEF Dies, Range
<1>2. Pending' = disk /\ disk \subseteq Pending
  BY <1>1 DEF Pending
<1>3. MemoryHolds'
  BY <1>1 DEF MemoryHolds, Increasing
<1>4. NumbersHold' /\ FirstInFlight' /\ LastReceived'
  BY <1>1, <1>2 DEF OrderPart, NumbersHold, FirstInFlight, LastReceived
<1>5. Sortable(Pending')
  BY <1>2, SortablePart DEF OrderPart
<1> QED
  BY <1>2, <1>3, <1>4, <1>5 DEF OrderPart

LEMMA OpenKeepsOrder ==
    ASSUME IndInv, OrderPart, Open
    PROVE  OrderPart' /\ Pending' = Pending
<1>1. /\ UNCHANGED <<memory, disk>> /\ processing' # "sending" /\ IsLastSeq(seq', disk)
      /\ memory = <<>> /\ Range(<<>>) = {}
  BY DEF Open, OrderPart, MemoryHolds, Range
<1>2. Pending' = Pending /\ Pending = disk
  BY <1>1 DEF Pending
<1>3. MemoryHolds'
  BY <1>1 DEF OrderPart, MemoryHolds
<1>4. NumbersHold'
  BY <1>1, <1>2 DEF NumbersHold, IsLastSeq
<1>5. FirstInFlight' /\ LastReceived'
  BY <1>1 DEF FirstInFlight, LastReceived
<1>6. Sortable(Pending')
  BY <1>2 DEF OrderPart
<1> QED
  BY <1>2, <1>3, <1>4, <1>5, <1>6 DEF OrderPart

\* The steps that neither admit, receive, acknowledge nor kill.
Quiet ==
    \/ \E m \in Msgs : EnqueueFails(m)
    \/ Run \/ SendAckCompleteFails \/ SendFail \/ SendFailSpillFails
    \/ Finally \/ RetryFires \/ BecomeActive \/ BecomePassive \/ Waiting
    \/ Close \/ CloseResumes \/ Open \/ UNCHANGED vars

LEMMA QuietKeepsOrder ==
    ASSUME IndInv, OrderPart, Quiet
    PROVE  OrderPart' /\ Pending' = Pending /\ broker' = broker
<1>1. /\ memory \in Seq(Records) /\ disk \in SUBSET Records /\ seq \in Nat /\ seq >= seq
      /\ Pending \subseteq Records /\ Increasing(memory)
  <2>1. memory \in Seq(Records) /\ disk \in SUBSET Records /\ seq \in Nat
    BY DEF IndInv, TypeOK
  <2> QED
    BY <2>1, RangeOfSeq DEF Pending, OrderPart, MemoryHolds
<1>2. broker' = broker
  BY DEF Quiet, EnqueueFails, Run, SendAckCompleteFails, SendFail, SendFailSpillFails,
         Finally, RetryFires, BecomeActive, BecomePassive, Waiting, WaitForIdle,
         WaiterTimesOut, Close, CloseResumes, CloseCompletes, CloseSpillFails, Open, vars
<1>3. ASSUME NEW m \in Msgs, EnqueueFails(m) PROVE OrderPart' /\ Pending' = Pending
  <2>1. /\ seq' = seq + 1 /\ up' = up
        /\ UNCHANGED <<memory, disk, processing, cur, fromMemory, attempt, broker>>
    BY <1>3 DEF EnqueueFails
  <2>2. seq' >= seq /\ seq' \in Nat
    BY <1>1, <2>1
  <2> QED
    BY <1>1, <2>1, <2>2, OrderFrame
<1>4. CASE Run
  <2>1. up' = up /\ seq' = seq /\ UNCHANGED <<memory, disk>> /\ Loop(memory, disk)
    BY <1>4 DEF Run
  <2>2. Pending' = Pending
    BY <2>1 DEF Pending
  <2>3. MemoryHolds' /\ NumbersHold'
    BY <2>1, <2>2 DEF OrderPart, MemoryHolds, NumbersHold
  <2>4. processing' = "sending" => First(cur', memory, disk) /\ (~fromMemory' => cur' \in disk)
    BY <1>1, <2>1, LoopPicksFirst
  <2>5. FirstInFlight'
    BY <2>1, <2>4 DEF FirstInFlight, First
  <2>6. LastReceived'
    BY <2>1 DEF Loop, LastReceived
  <2>7. Sortable(Pending')
    BY <2>2 DEF OrderPart
  <2> QED
    BY <1>2, <2>2, <2>3, <2>5, <2>6, <2>7 DEF OrderPart
<1>5. CASE SendAckCompleteFails \/ Finally
  <2>1. up' = up /\ UNCHANGED <<memory, disk, seq>> /\ processing' # "sending"
    BY <1>5 DEF SendAckCompleteFails, Fail, Finally, Rescheduled, Scheduled
  <2> QED
    BY <1>1, <1>2, <2>1, OrderFrame
<1>6. CASE SendFail \/ SendFailSpillFails
  <2>1. (SpillAll \/ SpillFails) /\ up' = up /\ seq' = seq /\ processing' # "sending"
    BY <1>6 DEF SendFail, SendFailSpillFails, Fail
  <2> QED
    BY <1>2, <2>1, SpillKeepsOrderPart
<1>7. CASE RetryFires \/ BecomeActive
  <2>1. /\ up' = up /\ UNCHANGED <<memory, disk, seq, cur, fromMemory, attempt>>
        /\ processing' = "sending" => processing = "sending"
    BY <1>7 DEF RetryFires, BecomeActive, Scheduled
  <2>2. processing' = "sending" => processing' = processing
    BY <2>1
  <2> QED
    BY <1>1, <1>2, <2>1, <2>2, OrderFrame
<1>8. CASE BecomePassive \/ Waiting \/ Close \/ UNCHANGED vars
  <2>1. up' = up /\ UNCHANGED <<memory, disk, seq, processing, cur, fromMemory, attempt>>
    BY <1>8 DEF BecomePassive, Waiting, WaitForIdle, WaiterTimesOut, Close, vars
  <2> QED
    BY <1>1, <1>2, <2>1, OrderFrame
<1>9. CASE CloseResumes
  <2>1. /\ SpillAll \/ SpillFails
        /\ up' = up /\ seq' = seq /\ processing' = processing /\ attempt' = attempt
        /\ closing = "ready"
    BY <1>9 DEF CloseResumes, CloseCompletes, CloseSpillFails
  <2>2. processing = "sending" => attempt = "refused"
    BY <2>1 DEF IndInv, TransportStopped
  <2> QED
    BY <1>2, <2>1, <2>2, SpillKeepsOrderPart
<1>10. CASE Open
  BY <1>2, <1>10, OpenKeepsOrder
<1> QED
  BY <1>2, <1>3, <1>4, <1>5, <1>6, <1>7, <1>8, <1>9, <1>10 DEF Quiet

LEMMA ReceptionKeepsOrder ==
    ASSUME IndInv, OrderPart, BrokerReceive
    PROVE  /\ OrderPart' /\ Pending' = Pending
           /\ cur \in Pending /\ \A d \in Pending : cur.seq <= d.seq
<1>1. /\ up' = up /\ UNCHANGED <<memory, disk, seq, processing, cur, fromMemory>>
      /\ processing = "sending" /\ attempt = "inflight" /\ attempt' = "reached"
      /\ broker' = IF broker # <<>> /\ broker[Len(broker)] = cur.id
                   THEN broker ELSE Append(broker, cur.id)
  BY DEF BrokerReceive
<1>2. Pending' = Pending
  BY <1>1 DEF Pending
<1>3. First(cur, memory, disk) /\ (~fromMemory => cur \in disk)
  BY <1>1 DEF OrderPart, FirstInFlight
<1>4. FirstInFlight'
  BY <1>1, <1>3 DEF FirstInFlight, First
<1>5. LastReceived'
  <2>1. cur.id \in Msgs /\ broker \in Seq(Msgs)
    BY <1>1 DEF IndInv, TypeOK, Records
  <2>2. CASE broker # <<>> /\ broker[Len(broker)] = cur.id
    BY <1>1, <2>2 DEF LastReceived
  <2>3. CASE ~(broker # <<>> /\ broker[Len(broker)] = cur.id)
    <3>1. PICK b : b = Append(broker, cur.id)
      OBVIOUS
    <3>2. Len(b) = Len(broker) + 1 /\ b[Len(broker) + 1] = cur.id /\ Len(broker) \in Nat
          /\ b \in Seq(Msgs)
      BY <2>1, <3>1, AppendProperties
    <3>3. b # <<>> /\ b[Len(b)] = cur.id
      BY <3>2, EmptySeq
    <3> QED
      BY <1>1, <2>3, <3>1, <3>3 DEF LastReceived
  <2> QED
    BY <2>2, <2>3
<1>6. MemoryHolds' /\ NumbersHold' /\ Sortable(Pending')
  BY <1>1, <1>2 DEF OrderPart, MemoryHolds, NumbersHold
<1> QED
  BY <1>2, <1>3, <1>4, <1>5, <1>6 DEF OrderPart, First, Pending

\* The steps, sorted by what they do to the queue.
LEMMA StepCases ==
    ASSUME [Next]_vars
    PROVE  \/ \E m \in Msgs : EnqueueMemory(m) \/ EnqueueDisk(m)
           \/ BrokerReceive \/ SendAck \/ Quiet
           \/ Crash \/ Terminate
BY DEF Next, Admission, SendSettles, Quiet

LEMMA OrderStep == OrderInv /\ IndInv' /\ [Next]_vars => OrderInv'
<1> SUFFICES ASSUME OrderInv, IndInv', [Next]_vars PROVE OrderPart'
  BY DEF OrderInv, OrderPart
<1>1. IndInv /\ OrderPart
  BY DEF OrderInv, OrderPart
<1>2. ASSUME NEW m \in Msgs, EnqueueMemory(m) \/ EnqueueDisk(m) PROVE OrderPart'
  BY <1>1, <1>2, AdmissionKeepsOrder
<1>3. CASE BrokerReceive
  BY <1>1, <1>3, ReceptionKeepsOrder
<1>4. CASE SendAck
  BY <1>1, <1>4, AckKeepsOrder
<1>5. CASE Quiet
  BY <1>1, <1>5, QuietKeepsOrder
<1>6. CASE Crash \/ Terminate
  BY <1>1, <1>6, DeathKeepsOrder DEF Crash, Terminate
<1> QED
  BY <1>2, <1>3, <1>4, <1>5, <1>6, StepCases

LEMMA OrderInvariant == Spec => []OrderInv
BY OrderInit, OrderStep, IndInvariant, PTL DEF Spec

LEMMA QueueLater ==
    ASSUME NEW s, Lists(s, Pending')
    PROVE  PendingQueue' = Listing(s)
<1>1. QueueListed'
  BY QueueIsListing, PTL
<1>2. s \in Seq(Records)
  BY DEF Lists
<1> QED
  BY <1>1, <1>2 DEF QueueListed, Lists

LEMMA ListingLength ==
    ASSUME NEW s \in Seq(Records)
    PROVE  Len(Listing(s)) = Len(s) /\ \A i \in 1..Len(s) : Listing(s)[i] = s[i].id
<1>1. Len(s) \in Nat
  OBVIOUS
<1> QED
  BY <1>1 DEF Listing

LEMMA QueueAsList ==
    ASSUME OrderInv
    PROVE  \E s : Lists(s, Pending) /\ PendingQueue = Listing(s)
<1>1. PICK s : Lists(s, Pending)
  BY DEF OrderInv, Sortable
<1>2. s \in Seq(Records)
  BY <1>1 DEF Lists
<1> QED
  BY <1>1, <1>2, QueueIsListing DEF QueueListed

\* Each step of the queue is the outbox's step of its kind, or none.
LEMMA OutboxStep ==
    ASSUME OrderInv, [Next]_vars
    PROVE  [Abstract!Next]_<<PendingQueue, broker>>
<1>1. IndInv /\ OrderPart
  BY DEF OrderInv, OrderPart
<1>2. PICK s : Lists(s, Pending) /\ PendingQueue = Listing(s)
  BY QueueAsList
<1>3. s \in Seq(Records)
  BY <1>2 DEF Lists
<1>4. ASSUME Pending' = Pending PROVE PendingQueue' = PendingQueue
  BY <1>2, <1>4, QueueLater
<1>5. ASSUME NEW m \in Msgs, EnqueueMemory(m) \/ EnqueueDisk(m) PROVE Abstract!Admit(m)
  <2>1. PICK r \in Records : /\ r.id = m /\ Pending' = Pending \cup {r}
                             /\ \A d \in Pending : d.seq < r.seq
    BY <1>1, <1>5, AdmissionAdds
  <2>2. Lists(Append(s, r), Pending') /\ Listing(Append(s, r)) = Append(Listing(s), m)
    BY <1>2, <2>1, ListAppend
  <2>3. PendingQueue' = Append(PendingQueue, m)
    BY <1>2, <2>2, QueueLater
  <2>4. broker' = broker
    BY <1>5 DEF EnqueueMemory, EnqueueDisk, Admitted
  <2> QED
    BY <2>3, <2>4 DEF Abstract!Admit
<1>6. CASE BrokerReceive
  <2>1. cur \in Pending /\ (\A d \in Pending : cur.seq <= d.seq) /\ Pending' = Pending
    BY <1>1, <1>6, ReceptionKeepsOrder
  <2>2. PendingQueue # <<>> /\ Head(PendingQueue) = cur.id
    BY <1>2, <2>1, ListTail
  <2>3. broker' = IF broker # <<>> /\ broker[Len(broker)] = cur.id
                  THEN broker ELSE Append(broker, cur.id)
    BY <1>6 DEF BrokerReceive
  <2> QED
    BY <1>4, <2>1, <2>2, <2>3 DEF Abstract!Next, Abstract!Deliver, Abstract!Replayed
<1>7. CASE SendAck
  <2>1. cur \in Pending /\ (\A d \in Pending : cur.seq <= d.seq) /\ Pending' = Pending \ {cur}
    BY <1>1, <1>7, AckRetiresFirst
  <2>2. /\ PendingQueue # <<>> /\ Head(PendingQueue) = cur.id
        /\ Lists(Tail(s), Pending') /\ Listing(Tail(s)) = Tail(PendingQueue)
    BY <1>2, <2>1, ListTail
  <2>3. PendingQueue' = Tail(PendingQueue)
    BY <2>2, QueueLater
  <2>4. broker' = broker /\ processing = "sending" /\ attempt = "reached"
    BY <1>7 DEF SendAck
  <2>5. broker # <<>> /\ broker[Len(broker)] = cur.id
    BY <2>4 DEF OrderInv, LastReceived
  <2> QED
    BY <2>2, <2>3, <2>4, <2>5 DEF Abstract!Next, Abstract!Retire, Abstract!Replayed
<1>8. CASE Quiet
  BY <1>1, <1>4, <1>8, QuietKeepsOrder
<1>9. CASE Crash \/ Terminate
  <2>1. Pending' = disk /\ disk \in SUBSET Pending /\ broker' = broker
    BY <1>1, <1>9, DeathKeepsOrder DEF Crash, Terminate, Dies
  <2>2. CASE Durable
    <3>1. memory = <<>> /\ Range(<<>>) = {}
      BY <1>1, <2>2 DEF IndInv, OnDiskOnly, Range
    <3>2. Pending' = Pending
      BY <2>1, <3>1 DEF Pending
    <3> QED
      BY <1>4, <2>1, <3>2
  <2>3. CASE ~Durable
    <3>1. PICK t : Lists(t, disk)
      BY <2>1 DEF OrderInv, Sortable
    <3>2. t \in Seq(Records) /\ PendingQueue' = Listing(t)
      BY <2>1, <3>1, QueueLater DEF Lists
    <3>3. PICK from \in [1..Len(t) -> 1..Len(s)] :
            /\ \A i, j \in 1..Len(t) : i < j => from[i] < from[j]
            /\ \A i \in 1..Len(t) : t[i] = s[from[i]]
      <4>1. PICK T \in SUBSET Pending : T = disk
        BY <2>1
      <4>2. Lists(t, T)
        BY <3>1, <4>1
      <4> QED
        <5>1. Lists(s, Pending)
          BY <1>2
        <5> QED
          BY <4>2, <5>1, ListPart
    <3>4. PICK q : q = PendingQueue'
      OBVIOUS
    <3>5. /\ Len(PendingQueue) = Len(s) /\ Len(q) = Len(t)
          /\ \A i \in 1..Len(s) : PendingQueue[i] = s[i].id
          /\ \A i \in 1..Len(t) : q[i] = t[i].id
      BY <1>2, <1>3, <3>2, <3>4, ListingLength
    <3>6. q = [i \in 1..Len(t) |-> q[i]]
      <4>1. q = [i \in 1..Len(t) |-> t[i].id]
        BY <3>2, <3>4 DEF Listing
      <4> QED
        BY <4>1
    <3>7. ASSUME NEW i \in 1..Len(t) PROVE q[i] = PendingQueue[from[i]]
      BY <3>3, <3>5
    <3>8. q = [i \in 1..Len(q) |-> PendingQueue[from[i]]]
      BY <3>5, <3>6, <3>7, Zenon
    <3>9. Abstract!Lose
      BY <2>1, <2>3, <3>3, <3>4, <3>5, <3>8 DEF Abstract!Lose
    <3> QED
      BY <3>9 DEF Abstract!Next
  <2> QED
    BY <2>2, <2>3
<1> QED
  BY <1>5, <1>6, <1>7, <1>8, <1>9, StepCases DEF Abstract!Next

LEMMA OutboxInit == Init => Abstract!Init
<1> SUFFICES ASSUME Init PROVE PendingQueue = <<>> /\ broker = <<>>
  BY DEF Abstract!Init
<1>1. memory = <<>> /\ disk = {} /\ broker = <<>> /\ Range(<<>>) = {} /\ Len(<<>>) = 0
      /\ <<>> \in Seq(Records)
  BY DEF Init, Range
<1>2. Lists(<<>>, Pending)
  BY <1>1 DEF Pending, Lists, Increasing
<1>3. PendingQueue = Listing(<<>>)
  BY <1>1, <1>2, QueueIsListing DEF QueueListed
<1>4. Listing(<<>>) = <<>>
  BY <1>1 DEF Listing
<1> QED
  BY <1>1, <1>3, <1>4

\* The outbox over RAM, SQLite, retries and restarts is a queue that hands each
\* message to the broker before it retires it, in the order of admission.
THEOREM RefinesOutbox == Spec => ImplementsOutbox
<1>1. OrderInv /\ [Next]_vars => [Abstract!Next]_<<PendingQueue, broker>>
  BY OutboxStep
<1> QED
  BY <1>1, OutboxInit, OrderInvariant, PTL
     DEF Spec, ImplementsOutbox, Abstract!Spec, Abstract!vars

-----------------------------------------------------------------------------
(* Draining.                                                               *)

LEMMA PendingEmptyMeansDelivered ==
    ASSUME NoAdmissionLost, Pending = {}
    PROVE  Range(admitted) \ lost \subseteq Range(broker)
<1>1. Ids(disk) = {} /\ Ids(Range(memory)) = {}
  BY DEF Pending, Ids
<1> QED
  BY <1>1 DEF NoAdmissionLost

\* A drain is acknowledged when nothing is pending, and everything admitted is
\* then with the broker or was lost in a sudden death.
THEOREM DrainDelivers == Spec => DrainMeansDelivered
<1>1. IndInv /\ [Next]_vars =>
        [\A w \in Callers :
           waiter[w] # "idle" /\ waiter'[w] = "idle" =>
              Range(admitted) \ lost \subseteq Range(broker)]_vars
  <2> SUFFICES ASSUME IndInv, Next, NEW w \in Callers,
                      waiter[w] # "idle", waiter'[w] = "idle"
               PROVE  Range(admitted) \ lost \subseteq Range(broker)
    BY DEF vars
  <2>1. waiter \in [Callers -> {"none", "waiting", "idle", "failed"}]
    BY DEF IndInv, TypeOK
  <2>2. ASSUME Settle("failed") PROVE FALSE
    BY <2>1, <2>2 DEF Settle
  <2>3. Finally \/ \E v \in Callers : WaitForIdle(v)
    <3>1. ASSUME NEW v \in Callers, WaiterTimesOut(v) PROVE FALSE
      BY <2>1, <3>1 DEF WaiterTimesOut
    <3>2. ASSUME UNCHANGED waiter PROVE FALSE
      BY <3>2
    <3>3. ASSUME Admission \/ Run \/ BrokerReceive \/ SendAck \/ SendFail PROVE UNCHANGED waiter
      BY <3>3 DEF Admission, EnqueueMemory, EnqueueDisk, EnqueueFails, Admitted, Run,
                  BrokerReceive, SendAck, SendFail
    <3>4. ASSUME RetryFires \/ BecomeActive \/ BecomePassive \/ Close \/ CloseSpillFails \/ Open
          PROVE  UNCHANGED waiter
      BY <3>4 DEF RetryFires, BecomeActive, BecomePassive, Close, CloseSpillFails, Open
    <3>5. ASSUME SendAckCompleteFails \/ SendFailSpillFails \/ CloseCompletes \/ Crash \/ Terminate
          PROVE  Settle("failed")
      BY <3>5 DEF SendAckCompleteFails, SendFailSpillFails, Fail, CloseCompletes, Crash,
                  Terminate, Dies
    <3> QED
      BY <2>2, <3>1, <3>2, <3>3, <3>4, <3>5 DEF Next, SendSettles, Waiting, CloseResumes
  <2>4. CASE Finally
    <3>1. Drained
      BY <2>4 DEF Finally
    <3> QED
      BY <3>1, PendingEmptyMeansDelivered DEF Drained, IndInv
  <2>5. ASSUME NEW v \in Callers, WaitForIdle(v) PROVE Pending = {}
    BY <2>1, <2>5 DEF WaitForIdle
  <2> QED
    BY <2>3, <2>4, <2>5, PendingEmptyMeansDelivered DEF IndInv
<1> QED
  BY <1>1, IndInvariant, PTL DEF Spec, DrainMeansDelivered

=============================================================================
