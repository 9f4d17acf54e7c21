------------------------------- MODULE Outbox -------------------------------
(***************************************************************************)
(* What the MQTT output outbox promises its application, whatever its RAM, *)
(* disk, timers and restarts do: a FIFO queue whose head is handed to the  *)
(* broker at least once before it is removed.  A volatile outbox may lose  *)
(* admitted messages, a durable one never does.                            *)
(***************************************************************************)
EXTENDS Sequences, Naturals

CONSTANTS Msgs, Volatile

VARIABLES
    queue,   \* admitted messages that are not yet retired
    broker   \* messages as received; a replay of the last one adds nothing

vars == <<queue, broker>>

Replayed(m) ==
    IF broker # <<>> /\ broker[Len(broker)] = m THEN broker ELSE Append(broker, m)

Admit(m) ==
    /\ queue' = Append(queue, m)
    /\ UNCHANGED broker

Deliver ==
    /\ queue # <<>>
    /\ broker' = Replayed(Head(queue))
    /\ UNCHANGED queue

Retire ==
    /\ queue # <<>>
    /\ Replayed(Head(queue)) = broker
    /\ queue' = Tail(queue)
    /\ UNCHANGED broker

\* Some messages are gone, the others keep their order.
Lose ==
    /\ Volatile
    /\ \E from \in [1..Len(queue') -> 1..Len(queue)] :
         /\ \A i, j \in 1..Len(queue') : i < j => from[i] < from[j]
         /\ queue' = [i \in 1..Len(queue') |-> queue[from[i]]]
    /\ UNCHANGED broker

Init == queue = <<>> /\ broker = <<>>

Next ==
    \/ \E m \in Msgs : Admit(m)
    \/ Deliver \/ Retire \/ Lose

Spec == Init /\ [][Next]_vars

=============================================================================
