------------------------------ MODULE RouteLease ------------------------------
(***************************************************************************)
(* The lease of a managed launch on its route at the Controller (uns-api   *)
(* runtime-route-registration.ts, RuntimeRouteRegistration): one request   *)
(* at a time, bounded by a deadline even when the transport ignores the    *)
(* abort, renewed by a timer, given up by stop().                          *)
(*                                                                         *)
(* Times are what is left of them; TickLease is the clock, and a timer may *)
(* fire late.  The Controller (external) grants LEASE from the moment it   *)
(* handles a request.                                                      *)
(***************************************************************************)
EXTENDS Integers

CONSTANTS
    LEASE,      \* RUNTIME_ROUTE_REGISTRATION_LEASE_MS
    INTERVAL,   \* intervalMs
    TIMEOUT     \* timeoutMs

ASSUME LeaseAssumption ==
    /\ LEASE \in Nat \ {0} /\ INTERVAL \in Nat \ {0} /\ TIMEOUT \in Nat \ {0}

VARIABLES
    started,    \* the interval timer runs
    stopped,
    due,        \* until it fires
    left,       \* of expiresAt
    request,    \* the work of the pending renewal
    age,        \* since its startedAt, at most LEASE
    expired,    \* its deadline has passed, or stop() has cancelled it
    granted     \* what is left of the registration at the Controller

leaseVars == <<started, stopped, due, left, request, age, expired, granted>>

LeaseTypeOK ==
    /\ started \in BOOLEAN /\ stopped \in BOOLEAN /\ expired \in BOOLEAN
    /\ due \in 0..INTERVAL /\ left \in 0..LEASE
    /\ age \in 0..LEASE /\ granted \in 0..LEASE
    /\ request \in {"none", "credential", "sent", "granted", "refused"}

LeaseInit ==
    /\ started = FALSE /\ stopped = FALSE /\ due = 0 /\ left = 0
    /\ request = "none" /\ age = 0 /\ expired = FALSE /\ granted = 0

ready == ~stopped /\ left > 0

\* renew(): a pending renewal is returned as it is.
Renewed ==
    IF request = "none"
      THEN request' = "credential" /\ age' = 0 /\ expired' = FALSE
      ELSE UNCHANGED <<request, age, expired>>

StartLease ==
    /\ ~stopped /\ ~started /\ started' = TRUE /\ due' = INTERVAL
    /\ Renewed
    /\ UNCHANGED <<stopped, left, granted>>

TimerRenews ==
    /\ started /\ due = 0 /\ due' = INTERVAL
    /\ Renewed
    /\ UNCHANGED <<started, stopped, left, granted>>

\* readCredential(); nothing is sent once the renewal is given up.
CredentialRead ==
    /\ request = "credential"
    /\ request' \in {IF expired \/ stopped THEN "refused" ELSE "sent", "refused"}
    /\ UNCHANGED <<started, stopped, due, left, age, expired, granted>>

\* The Controller handles the request, even one whose sender has gone.
ControllerGrants ==
    /\ request = "sent" /\ request' = "granted" /\ granted' = LEASE
    /\ UNCHANGED <<started, stopped, due, left, age, expired>>

\* It refuses, the connection fails, or the answer is lost or no receipt.
RequestFails ==
    /\ request \in {"sent", "granted"} /\ request' = "refused"
    /\ UNCHANGED <<started, stopped, due, left, age, expired, granted>>

\* Fault: the lease is counted from the answer.
LeftFromAnswer == LEASE

\* expiresAt = startedAt + RUNTIME_ROUTE_REGISTRATION_LEASE_MS
LeftFromStart == LEASE - age

WorkSettles ==
    /\ request \in {"granted", "refused"} /\ request' = "none"
    /\ left' = IF expired \/ stopped THEN left
               ELSE IF request = "granted" THEN LeftFromStart ELSE 0
    /\ UNCHANGED <<started, stopped, due, age, expired, granted>>

\* The deadline answers the caller; the request stays pending until it settles.
Deadline ==
    /\ request # "none" /\ ~expired /\ age >= TIMEOUT
    /\ expired' = TRUE /\ left' = 0
    /\ UNCHANGED <<started, stopped, due, request, age, granted>>

StopLease ==
    /\ ~stopped /\ stopped' = TRUE /\ started' = FALSE /\ left' = 0
    /\ expired' = (request # "none")
    /\ UNCHANGED <<due, request, age, granted>>

Less(t) == IF t = 0 THEN 0 ELSE t - 1

TickLease ==
    /\ due' = Less(due) /\ left' = Less(left) /\ granted' = Less(granted)
    /\ age' = IF request = "none" THEN age ELSE IF age = LEASE THEN LEASE ELSE age + 1
    /\ UNCHANGED <<started, stopped, request, expired>>

LeaseNext ==
    \/ StartLease \/ TimerRenews \/ CredentialRead \/ ControllerGrants \/ RequestFails
    \/ WorkSettles \/ Deadline \/ StopLease \/ TickLease

LeaseSpec == LeaseInit /\ [][LeaseNext]_leaseVars

-----------------------------------------------------------------------------
\* However late an answer comes and whatever was renewed meanwhile, the launch
\* believes in its route no longer than the Controller honours it.
ReadyMeansGranted == ready => granted >= left

\* The answer that is on its way grants no more than the Controller holds.
AnswerIsCovered == request = "granted" => granted >= LEASE - age

LeaseInv == LeaseTypeOK /\ ReadyMeansGranted /\ AnswerIsCovered
=============================================================================
