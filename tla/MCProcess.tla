------------------------------- MODULE MCProcess -------------------------------
(***************************************************************************)
(* What a process does about its broker and about its peers, and how it    *)
(* ends, for TLC: the transport of one process, the ownership of a         *)
(* service, and drain and shutdown.  A behaviour takes the steps of one of *)
(* them.                                                                   *)
(***************************************************************************)
EXTENDS MqttTransport, Ownership, MigrationDrain

VARIABLE part

processVars == <<part, vars, ownershipVars, drainVars>>

MCInit ==
    /\ part \in {"transport", "ownership", "drain"}
    /\ Init /\ OwnershipInit /\ DrainInit
    /\ part # "ownership" => \A p \in Procs : mode[p] = "wait"
    /\ part # "drain" => ~hosted

MCNext ==
    /\ UNCHANGED part
    /\ \/ /\ part = "transport" /\ Next
          /\ UNCHANGED <<ownershipVars, drainVars>>
       \/ /\ part = "ownership" /\ OwnershipNext
          /\ UNCHANGED <<vars, drainVars>>
       \/ /\ part = "drain" /\ DrainNext
          /\ UNCHANGED <<vars, ownershipVars>>

\* While no process is up, nothing of Ownership has to happen, and no drain while
\* nobody asks for one.
MCSpec ==
    /\ MCInit /\ [][MCNext]_processVars
    /\ WF_processVars(/\ part = "transport" /\ Library
                      /\ UNCHANGED <<part, ownershipVars, drainVars>>)
    /\ OwnershipFairness /\ DrainFairness

\* StableMeansReady of the behaviours in which the transport runs: a proxy whose
\* connections stop breaking becomes connected, with all subscriptions answered.
TransportSettles == part = "transport" => StableMeansReady
=============================================================================
