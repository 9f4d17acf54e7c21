---------------------------- MODULE MCMqttOutput ----------------------------
(* MqttOutput for TLC. *)
EXTENDS MqttOutput

\* Publications are interchangeable: they are called in the order of Pubs.  Only
\* the first may have several parts, one thread at most meets a fault, and the
\* last publication meets neither a stop nor a fault.
Bounded ==
    /\ \A p \in Pubs : call'[p] # "idle" =>
         /\ \A q \in 1..p : call'[q] # "idle"
         /\ p > 1 => size'[p] <= 1
         /\ p = Cardinality(Pubs) => workerUp' /\ postFaults' = 0 /\ lifecycle' = "running"
    /\ WorkerDies => postFaults = 0
    /\ postFaults' # postFaults => workerUp

MCSpec == Init /\ [][Next /\ Bounded]_vars /\ Fairness
=============================================================================
