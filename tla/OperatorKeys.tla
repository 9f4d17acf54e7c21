----------------------------- MODULE OperatorKeys -----------------------------
(***************************************************************************)
(* The cached public keys that verify operator tokens (uns-api             *)
(* operator-jwt.ts, OperatorJwtVerifier): one shared load with one retry,  *)
(* a deadline for each fetch, a cool-down after a failure, and a transport *)
(* that may ignore the abort and answer late.                              *)
(*                                                                         *)
(* Times are what is left of them.  Timers fire on time; an answer may be  *)
(* as old as the fetch that brings it.                                     *)
(***************************************************************************)
EXTENDS Integers

CONSTANTS
    Keys,           \* key ids
    Callers,        \* concurrent calls of verify()
    TTL,            \* CACHE_TTL_MS
    FETCH_TIMEOUT,  \* FETCH_TIMEOUT_MS
    COOLDOWN,       \* FAILURE_COOLDOWN_MS
    NoCall

ASSUME KeysAssumption ==
    /\ TTL \in Nat \ {0} /\ FETCH_TIMEOUT \in Nat \ {0} /\ COOLDOWN \in Nat \ {0}
    /\ NoCall \notin Keys

VARIABLES
    published,   \* the keys the Controller publishes
    gone,        \* how long a key has not been published, at most Horizon
    keys,        \* the snapshot
    fresh,       \* what is left of expires
    cool,        \* and of retryAt
    load,        \* pending: what the shared load is doing
    attempt,
    transport,   \* the one outstanding transport
    body,        \* what it brings
    fetchAge,    \* since the fetch began
    call         \* by caller: the key it waits for

keyVars == <<published, gone, keys, fresh, cool, load, attempt, transport, body,
             fetchAge, call>>

MaxAttempts == 2
Horizon == TTL + FETCH_TIMEOUT + 1

KeysTypeOK ==
    /\ published \subseteq Keys /\ keys \subseteq Keys /\ body \subseteq Keys
    /\ gone \in [Keys -> 0..Horizon]
    /\ fresh \in 0..TTL /\ cool \in 0..COOLDOWN /\ attempt \in 0..(MaxAttempts - 1)
    /\ load \in {"none", "fetching", "pausing"}
    /\ transport \in {"none", "sent", "served", "late"}
    /\ fetchAge \in 0..FETCH_TIMEOUT
    /\ call \in [Callers -> Keys \cup {NoCall}]

KeysInit ==
    /\ published \in SUBSET Keys
    /\ gone = [k \in Keys |-> IF k \in published THEN 0 ELSE Horizon]
    /\ keys = {} /\ fresh = 0 /\ cool = 0
    /\ load = "none" /\ attempt = 0 /\ transport = "none" /\ body = {} /\ fetchAge = 0
    /\ call = [c \in Callers |-> NoCall]

\* The Controller adds or revokes a key.
Rotate(k) ==
    /\ published' = IF k \in published THEN published \ {k} ELSE published \cup {k}
    /\ gone' = IF k \in published THEN gone ELSE [gone EXCEPT ![k] = 0]
    /\ UNCHANGED <<keys, fresh, cool, load, attempt, transport, body, fetchAge, call>>

Known(k) == fresh > 0 /\ k \in keys

-----------------------------------------------------------------------------
(* verify() and load().                                                    *)

\* load() fails: whoever waits is refused, and nobody retries for a while.
LoadFailed ==
    /\ load' = "none" /\ cool' = COOLDOWN
    /\ call' = [c \in Callers |-> NoCall]

\* fetchKeys(): not while a transport that ignored its abort is still there.
Fetch(n) ==
    IF transport = "none"
      THEN /\ load' = "fetching" /\ attempt' = n
           /\ transport' = "sent" /\ body' = {} /\ fetchAge' = 0
           /\ UNCHANGED cool
      ELSE /\ attempt' = n /\ UNCHANGED <<transport, body, fetchAge>>

VerifyWaits(c, k) ==
    /\ call[c] = NoCall /\ ~Known(k) /\ load # "none"
    /\ call' = [call EXCEPT ![c] = k]
    /\ UNCHANGED <<published, gone, keys, fresh, cool, load, attempt, transport, body,
                   fetchAge>>

VerifyLoads(c, k) ==
    /\ call[c] = NoCall /\ ~Known(k) /\ load = "none" /\ cool = 0
    /\ Fetch(0)
    /\ IF transport = "none" THEN call' = [call EXCEPT ![c] = k] ELSE LoadFailed
    /\ UNCHANGED <<published, gone, keys, fresh>>

Retry ==
    /\ load = "pausing"
    /\ Fetch(1)
    /\ IF transport = "none" THEN UNCHANGED call ELSE LoadFailed
    /\ UNCHANGED <<published, gone, keys, fresh>>

\* An attempt fails; the last one, or one that cannot be repeated, ends the load.
Failed(retryable) ==
    IF retryable /\ attempt + 1 < MaxAttempts
      THEN load' = "pausing" /\ UNCHANGED <<cool, call>>
      ELSE LoadFailed

-----------------------------------------------------------------------------
(* The transport.                                                          *)

Serve ==
    /\ transport = "sent" /\ transport' = "served" /\ body' = published
    /\ UNCHANGED <<published, gone, keys, fresh, cool, load, attempt, fetchAge, call>>

\* Fault: what a failed load leaves is trusted for another term.
RefusedKeeps == fresh' = TTL

Unrefreshed == UNCHANGED fresh

\* Refused, lost, too large or malformed.
TransportFails(retryable) ==
    /\ transport \in {"sent", "served"} /\ transport' = "none" /\ body' = {}
    /\ Failed(retryable) /\ Unrefreshed
    /\ UNCHANGED <<published, gone, keys, attempt, fetchAge>>

\* Everybody who waits goes on with the new keys in the same turn.
Install ==
    /\ transport = "served" /\ transport' = "none" /\ body' = {}
    /\ keys' = body /\ fresh' = TTL /\ cool' = 0
    /\ load' = "none" /\ call' = [c \in Callers |-> NoCall]
    /\ UNCHANGED <<published, gone, attempt, fetchAge>>

\* Fault: there is no deadline.
FetchNeverExpires == FALSE

FetchExpires == transport \in {"sent", "served"} /\ fetchAge = FETCH_TIMEOUT

\* The race is lost: what still comes is for nobody.  An abort usually ends it.
FetchDeadline ==
    /\ FetchExpires
    /\ transport' \in {"late", "none"} /\ body' = {}
    /\ Failed(TRUE) /\ Unrefreshed
    /\ UNCHANGED <<published, gone, keys, attempt, fetchAge>>

LateSettles ==
    /\ transport = "late" /\ transport' = "none"
    /\ UNCHANGED <<published, gone, keys, fresh, cool, load, attempt, body, fetchAge, call>>

Minus(t) == IF t = 0 THEN 0 ELSE t - 1

TickKeys ==
    /\ transport \in {"sent", "served"} => fetchAge < FETCH_TIMEOUT
    /\ fetchAge' = IF transport \in {"sent", "served"} THEN fetchAge + 1 ELSE fetchAge
    /\ fresh' = Minus(fresh) /\ cool' = Minus(cool)
    /\ gone' = [k \in Keys |-> IF k \in published \/ gone[k] = Horizon
                               THEN gone[k] ELSE gone[k] + 1]
    /\ UNCHANGED <<published, keys, load, attempt, transport, body, call>>

KeysNext ==
    \/ \E k \in Keys : Rotate(k) \/ \E c \in Callers : VerifyWaits(c, k) \/ VerifyLoads(c, k)
    \/ Retry \/ Serve \/ Install \/ FetchDeadline \/ LateSettles \/ TickKeys
    \/ \E retryable \in BOOLEAN : TransportFails(retryable)

KeysSpec == KeysInit /\ [][KeysNext]_keyVars

\* Timers fire and time passes; nothing is asked of the Controller.
KeysFairness == WF_keyVars(Retry) /\ WF_keyVars(FetchDeadline) /\ WF_keyVars(TickKeys)

-----------------------------------------------------------------------------
\* A key that is accepted was published at most TTL and a fetch ago: no failure,
\* retry, shared load or late answer prolongs the trust in a revoked one.
RevokedKeysExpire ==
    \A k \in Keys : Known(k) => gone[k] <= FETCH_TIMEOUT + TTL - fresh

\* What is on its way was published since the fetch began.
BodyIsRecent ==
    \A k \in body : transport = "served" /\ gone[k] <= fetchAge

PublishedIsNotGone == \A k \in published : gone[k] = 0

KeysInv == KeysTypeOK /\ RevokedKeysExpire /\ BodyIsRecent /\ PublishedIsNotGone

\* No call waits for ever, although a transport may never answer nor let go.
VerifyEnds == \A c \in Callers : call[c] # NoCall ~> call[c] = NoCall
=============================================================================
