------------------------------- MODULE MCRuntime -------------------------------
(***************************************************************************)
(* The protocols of the runtime, API and Python packages, and the cut of   *)
(* an input, for TLC.  They share no state: a behaviour takes the steps of *)
(* one of them, so that their states add up instead of multiplying.        *)
(***************************************************************************)
EXTENDS RetainedMove, StoreRestore, RouteLease, OperatorKeys, ApiRequests, ApiRoutes,
        Gateway, PyPublishQueue, InputCutover, FiniteSetsExt

CONSTANTS FirstCall, FirstWorker   \* of two that are interchangeable

At(method, path, registry) ==
    [endpoint |-> [method |-> method, path |-> path], registry |-> registry]

MCRegistrations == {At("GET", "x", "api"), At("POST", "x", "api"), At("POST", "x", "service"),
                    At("ANY", "#", "catchall")}

VARIABLE part

runtimeVars ==
    <<part, moveVars, restoreVars, leaseVars, keyVars, requestVars, routesVars, gatewayVars,
      pyVars, cutoverVars>>

MCInit ==
    /\ part \in {"moves", "restore", "lease", "keys", "requests", "routes", "gateway", "python",
                "cutover"}
    /\ MovesInit /\ RestoreInit /\ LeaseInit /\ KeysInit /\ RequestsInit /\ RoutesInit
    /\ GatewayInit /\ PyInit /\ CutoverInit
    /\ part # "moves" => transfer = "copy" /\ \A r \in Resources : legacy[r] # None
    /\ part # "restore" => used = {}
    /\ part # "keys" => published = Keys
    /\ part # "requests" => ~owned
    /\ part # "routes" => ownership = "no"

\* Calls begin, and idle workers take messages, in a fixed order.
PyOrdered ==
    /\ (\E c \in Calls : publishing'[c] # "new") => publishing'[FirstCall] # "new"
    /\ \A w \in Workers : worker[w] = "get" /\ worker'[w] = "sending" =>
         w = FirstWorker \/ worker[FirstWorker] # "get"

\* Fingerprints are only compared with each other: they are 1, 2 ... and appear
\* in this order.
FirstSeenInOrder ==
    \A i \in DOMAIN stream' : stream'[i] <= 1 + Max({0} \cup {stream'[j] : j \in 1..(i - 1)})

MCNext ==
    /\ UNCHANGED part
    /\ \/ /\ part = "moves" /\ MovesNext
          /\ UNCHANGED <<restoreVars, leaseVars, keyVars, requestVars, routesVars, gatewayVars, pyVars, cutoverVars>>
       \/ /\ part = "restore" /\ RestoreNext
          /\ UNCHANGED <<moveVars, leaseVars, keyVars, requestVars, routesVars, gatewayVars, pyVars, cutoverVars>>
       \/ /\ part = "lease" /\ LeaseNext
          /\ UNCHANGED <<moveVars, restoreVars, keyVars, requestVars, routesVars, gatewayVars, pyVars, cutoverVars>>
       \/ /\ part = "keys" /\ KeysNext
          /\ UNCHANGED <<moveVars, restoreVars, leaseVars, requestVars, routesVars, gatewayVars, pyVars, cutoverVars>>
       \/ /\ part = "requests" /\ RequestsNext
          /\ UNCHANGED <<moveVars, restoreVars, leaseVars, keyVars, routesVars, gatewayVars, pyVars, cutoverVars>>
       \/ /\ part = "routes" /\ RoutesNext
          /\ UNCHANGED <<moveVars, restoreVars, leaseVars, keyVars, requestVars, gatewayVars, pyVars, cutoverVars>>
       \/ /\ part = "python" /\ PyNext /\ PyOrdered
          /\ UNCHANGED <<moveVars, restoreVars, leaseVars, keyVars, requestVars, routesVars, gatewayVars, cutoverVars>>
       \/ /\ part = "gateway" /\ GatewayNext
          /\ UNCHANGED <<moveVars, restoreVars, leaseVars, keyVars, requestVars, routesVars, pyVars, cutoverVars>>
       \/ /\ part = "cutover" /\ CutoverNext /\ FirstSeenInOrder
          /\ UNCHANGED <<moveVars, restoreVars, leaseVars, keyVars, requestVars, routesVars, gatewayVars, pyVars>>

\* What is fair in one part is never enabled in the initial state of the others.
MCSpec == MCInit /\ [][MCNext]_runtimeVars /\ MovesFairness /\ KeysFairness
          /\ RoutesFairness /\ GatewayFairness
=============================================================================
