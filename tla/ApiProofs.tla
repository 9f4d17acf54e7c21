------------------------------- MODULE ApiProofs -------------------------------
(***************************************************************************)
(* Theorems about the API runtime: the route lease, the cached operator    *)
(* keys, the drain of requests and the endpoints an API proxy shows; and   *)
(* about the publish queue of the Python package.  Each invariant is       *)
(* inductive together with what it says of answers, or messages, that are  *)
(* still on their way.                                                     *)
(***************************************************************************)
EXTENDS RouteLease, OperatorKeys, ApiRequests, ApiRoutes, PyPublishQueue, SequenceLemmas

(* RouteLease: the route lease, for every lease, interval and time-out. *)

\* Every renewal keeps the answer on its way covered by the grant.
LEMMA LeaseStep == LeaseInv /\ [LeaseNext]_leaseVars => LeaseInv'
<1> SUFFICES ASSUME LeaseInv, [LeaseNext]_leaseVars PROVE LeaseInv'
  OBVIOUS
<1> USE LeaseAssumption DEF LeaseInv, LeaseTypeOK, ReadyMeansGranted, AnswerIsCovered, ready
<1>1. CASE StartLease
  <2>1. CASE request = "none"
    <3>1. /\ due' = INTERVAL /\ request' = "credential" /\ age' = 0
          /\ UNCHANGED <<left, granted>>
      BY <1>1, <2>1 DEF StartLease, Renewed
    <3>2. started' \in BOOLEAN /\ expired' \in BOOLEAN /\ UNCHANGED stopped
      BY <1>1, <2>1 DEF StartLease, Renewed
    <3> QED
      BY <3>1, <3>2
  <2>2. CASE request # "none"
    BY <1>1, <2>2 DEF StartLease, Renewed
  <2> QED
    BY <2>1, <2>2
<1>2. CASE TimerRenews
  <2>1. CASE request = "none"
    <3>1. /\ due' = INTERVAL /\ request' = "credential" /\ age' = 0
          /\ UNCHANGED <<left, granted>>
      BY <1>2, <2>1 DEF TimerRenews, Renewed
    <3>2. started' \in BOOLEAN /\ expired' \in BOOLEAN /\ UNCHANGED stopped
      BY <1>2, <2>1 DEF TimerRenews, Renewed
    <3> QED
      BY <3>1, <3>2
  <2>2. CASE request # "none"
    BY <1>2, <2>2 DEF TimerRenews, Renewed
  <2> QED
    BY <2>1, <2>2
<1>3. CASE CredentialRead
  BY <1>3 DEF CredentialRead
<1>4. CASE ControllerGrants
  BY <1>4 DEF ControllerGrants
<1>5. CASE RequestFails
  BY <1>5 DEF RequestFails
<1>6. CASE WorkSettles
  BY <1>6 DEF WorkSettles, LeftFromStart
<1>7. CASE Deadline
  BY <1>7 DEF Deadline
<1>8. CASE StopLease
  <2>1. stopped' = TRUE /\ left' = 0 /\ UNCHANGED <<due, request, age, granted>>
    BY <1>8 DEF StopLease
  <2>2. expired' \in BOOLEAN /\ started' \in BOOLEAN
    BY <1>8, Zenon DEF StopLease
  <2> QED
    BY <2>1, <2>2
<1>9. CASE TickLease
  BY <1>9 DEF TickLease, Less
<1>10. CASE UNCHANGED leaseVars
  BY <1>10 DEF leaseVars
<1> QED
  BY <1>1, <1>2, <1>3, <1>4, <1>5, <1>6, <1>7, <1>8, <1>9, <1>10 DEF LeaseNext

\* ready never outlives the registration at the Controller: the lease is
\* counted from the moment the renewal began, so neither the credential, nor the
\* transport, nor a late timer can stretch it.
THEOREM LeaseIsHonoured == LeaseSpec => []ReadyMeansGranted
<1>1. LeaseInit => LeaseInv
  <2>1. LeaseInit => LeaseTypeOK
    <3>1. LeaseInit => started \in BOOLEAN /\ stopped \in BOOLEAN /\ expired \in BOOLEAN
      BY DEF LeaseInit
    <3>2. LeaseInit =>
            /\ due \in 0..INTERVAL /\ left \in 0..LEASE
            /\ age \in 0..LEASE /\ granted \in 0..LEASE
      BY LeaseAssumption DEF LeaseInit
    <3> QED
      BY <3>1, <3>2 DEF LeaseInit, LeaseTypeOK
  <2>2. LeaseInit => ReadyMeansGranted /\ AnswerIsCovered
    BY DEF LeaseInit, ReadyMeansGranted, AnswerIsCovered, ready
  <2> QED
    BY <2>1, <2>2 DEF LeaseInv
<1>2. LeaseInv => ReadyMeansGranted
  BY DEF LeaseInv
<1> QED
  BY <1>1, <1>2, LeaseStep, PTL DEF LeaseSpec

-----------------------------------------------------------------------------
(* OperatorKeys: the operator keys, for every set of keys and of callers. *)

\* What the proofs need of a step: the trust in the snapshot is only renewed by a
\* document that was asked for at most FETCH_TIMEOUT ago.
LEMMA KeysStep == KeysInv /\ [KeysNext]_keyVars => KeysInv'
<1> SUFFICES ASSUME KeysInv, [KeysNext]_keyVars PROVE KeysInv'
  OBVIOUS
<1> USE KeysAssumption
    DEF KeysInv, KeysTypeOK, RevokedKeysExpire, BodyIsRecent, PublishedIsNotGone, Known,
        MaxAttempts, Horizon
<1>1. ASSUME NEW k \in Keys, Rotate(k) PROVE KeysInv'
  <2>1. gone' \in [Keys -> 0..Horizon] /\ published' \subseteq Keys
    BY <1>1 DEF Rotate
  <2>2. \A x \in Keys : gone'[x] <= gone[x]
    BY <1>1 DEF Rotate
  <2>3. KeysTypeOK'
    BY <1>1, <2>1 DEF Rotate
  <2> QED
    BY <1>1, <2>2, <2>3 DEF Rotate
<1>2. ASSUME NEW c \in Callers, NEW k \in Keys, VerifyWaits(c, k) PROVE KeysInv'
  BY <1>2 DEF VerifyWaits
<1>3. ASSUME NEW c \in Callers, NEW k \in Keys, VerifyLoads(c, k) PROVE KeysInv'
  BY <1>3 DEF VerifyLoads, Fetch, LoadFailed
<1>4. CASE Retry
  BY <1>4 DEF Retry, Fetch, LoadFailed
<1>5. CASE Serve
  <2>1. KeysTypeOK' /\ RevokedKeysExpire' /\ PublishedIsNotGone'
    BY <1>5 DEF Serve
  <2>2. BodyIsRecent'
    BY <1>5 DEF Serve
  <2> QED
    BY <2>1, <2>2
<1>6. CASE Install
  BY <1>6 DEF Install
<1>7. CASE FetchDeadline
  BY <1>7 DEF FetchDeadline, Failed, LoadFailed, Unrefreshed
<1>8. CASE LateSettles
  BY <1>8 DEF LateSettles
<1>9. CASE TickKeys
  BY <1>9 DEF TickKeys, Minus
<1>10. ASSUME NEW retryable \in BOOLEAN, TransportFails(retryable) PROVE KeysInv'
  BY <1>10 DEF TransportFails, Failed, LoadFailed, Unrefreshed
<1>11. CASE UNCHANGED keyVars
  BY <1>11 DEF keyVars
<1> QED
  BY <1>1, <1>2, <1>3, <1>4, <1>5, <1>6, <1>7, <1>8, <1>9, <1>10, <1>11 DEF KeysNext

\* A revoked key is trusted for at most TTL and one fetch, whatever fails.
THEOREM TrustIsBounded == KeysSpec => []RevokedKeysExpire
<1>1. KeysInit => KeysInv
  <2>1. KeysInit => gone \in [Keys -> 0..Horizon] /\ PublishedIsNotGone
    <3>1. 0 \in 0..Horizon /\ Horizon \in 0..Horizon
      BY KeysAssumption DEF Horizon
    <3> QED
      BY <3>1 DEF KeysInit, PublishedIsNotGone
  <2>2. KeysInit => KeysTypeOK
    BY <2>1, KeysAssumption DEF KeysInit, KeysTypeOK, MaxAttempts
  <2>3. KeysInit => RevokedKeysExpire /\ BodyIsRecent
    BY DEF KeysInit, RevokedKeysExpire, BodyIsRecent, Known
  <2> QED
    BY <2>1, <2>2, <2>3 DEF KeysInv
<1>2. KeysInv => RevokedKeysExpire
  BY DEF KeysInv
<1> QED
  BY <1>1, <1>2, KeysStep, PTL DEF KeysSpec

-----------------------------------------------------------------------------
(* ApiRequests: the drain of requests, for every set of requests. *)

\* Every step of a request keeps it accepted while its handler works, or leaves
\* the mark that makes the drain fail.
LEMMA RequestsStep == RequestsInv /\ [RequestsNext]_requestVars => RequestsInv'
<1> SUFFICES ASSUME RequestsInv, [RequestsNext]_requestVars PROVE RequestsInv'
  OBVIOUS
<1> USE DEF RequestsInv, RequestsTypeOK, WorkIsTracked, DrainIsTrue
<1>1. ASSUME NEW r \in Requests, Admit(r) PROVE RequestsInv'
  BY <1>1 DEF Admit
<1>2. ASSUME NEW r \in Requests, Refuse(r) PROVE RequestsInv'
  BY <1>2 DEF Refuse
<1>3. ASSUME NEW r \in Requests, Declare(r) PROVE RequestsInv'
  BY <1>3 DEF Declare
<1>4. ASSUME NEW r \in Requests, ReadSettles(r) PROVE RequestsInv'
  BY <1>4 DEF ReadSettles, Ended
<1>5. ASSUME NEW r \in Requests, Finish(r) PROVE RequestsInv'
  BY <1>5 DEF Finish, CompleteIfSettled
<1>6. ASSUME NEW r \in Requests, Disconnect(r) PROVE RequestsInv'
  BY <1>6 DEF Disconnect, CompleteIfSettled
<1>7. ASSUME NEW r \in Requests, WorkEnds(r) PROVE RequestsInv'
  BY <1>7 DEF WorkEnds
<1>8. CASE Release
  BY <1>8 DEF Release
<1>9. CASE DrainEnds
  <2>1. /\ RequestsTypeOK' /\ accepted = {} /\ ~owned
        /\ UNCHANGED <<owned, accepted, response, readOnly, atWork, workSettled,
                       requestFailed>>
    BY <1>9 DEF DrainEnds
  <2>2. drain' = "done" => ~requestFailed
    BY <1>9 DEF DrainEnds
  <2> QED
    BY <2>1, <2>2
<1>10. CASE Activate
  BY <1>10 DEF Activate
<1>11. CASE UNCHANGED requestVars
  BY <1>11 DEF requestVars
<1> QED
  BY <1>1, <1>2, <1>3, <1>4, <1>5, <1>6, <1>7, <1>8, <1>9, <1>10, <1>11
     DEF RequestsNext

\* drainRequests() succeeds only when no handler works any more and every request
\* that may have changed something was answered in full.
THEOREM DrainLeavesNothing == RequestsSpec => []DrainIsTrue
<1>1. RequestsInit => RequestsInv
  BY DEF RequestsInit, RequestsInv, RequestsTypeOK, WorkIsTracked, DrainIsTrue
<1>2. RequestsInv => DrainIsTrue
  BY DEF RequestsInv
<1> QED
  BY <1>1, <1>2, RequestsStep, PTL DEF RequestsSpec

-----------------------------------------------------------------------------
(* ApiRoutes: the endpoints, for every set of registrations and any number of calls. *)

RoutesInv ==
    /\ waiting \subseteq Registrations
    /\ announced \in [Registries -> SUBSET Endpoints]
    /\ AnnouncedIsServed

\* The initial state: nothing is announced.
LEMMA InitRoutes == RoutesInit => RoutesInv
BY DEF RoutesInit, RoutesInv, AnnouncedIsServed

\* A registration adds the endpoint it announces to the router.
LEMMA RegisterRoutes ==
    ASSUME RoutesInv, NEW c \in Registrations, Register(c)
    PROVE  /\ announced' \in [Registries -> SUBSET Endpoints]
           /\ AnnouncedIsServed'
<1>1. c.registry \in Registries /\ c.endpoint \in Endpoints
  BY DEF Registries, Endpoints
<1>2. routes' = routes \cup {c.endpoint} /\ documented' = Document(c.endpoint)
  BY DEF Register
<1>3. documented' \subseteq documented \cup {c.endpoint}
  BY <1>2 DEF Document
<1>4. \/ announced' = announced
      \/ announced' = [announced EXCEPT ![c.registry] = @ \cup {c.endpoint}]
  BY DEF Register, RegisterEndpoint
<1>5. announced' \in [Registries -> SUBSET Endpoints]
  BY <1>1, <1>4 DEF RoutesInv
<1>6. \A r \in Registries : announced'[r] \subseteq announced[r] \cup {c.endpoint}
  BY <1>1, <1>4 DEF RoutesInv
<1>7. AnnouncedIsServed'
  BY <1>2, <1>3, <1>6 DEF RoutesInv, AnnouncedIsServed, Registries
<1>8. QED
  BY <1>5, <1>7

\* What unregister() leaves in a registry has another path, hence another layer.
LEMMA UnregisterRoutes ==
    ASSUME RoutesInv, NEW e \in Endpoints, Unregister(e)
    PROVE  RoutesInv'
<1>1. /\ routes' = routes \ {e} /\ documented' = documented \ {e}
      /\ announced' = [r \in Registries |-> {d \in announced[r] : d.path # e.path}]
      /\ waiting' = waiting
  BY DEF Unregister
<1>2. announced' \in [Registries -> SUBSET Endpoints]
  BY <1>1 DEF RoutesInv
<1>3. \A r \in Registries : announced'[r] \subseteq routes'
  BY <1>1 DEF RoutesInv, AnnouncedIsServed
<1>4. documented' \subseteq routes'
  BY <1>1 DEF RoutesInv, AnnouncedIsServed
<1>5. QED
  BY <1>1, <1>2, <1>3, <1>4 DEF RoutesInv, AnnouncedIsServed, Registries

\* Every step keeps it: those that only announce, listen or change the ownership
\* leave the endpoints alone.
LEMMA NextRoutes == RoutesInv /\ [RoutesNext]_routesVars => RoutesInv'
<1> SUFFICES ASSUME RoutesInv, [RoutesNext]_routesVars
             PROVE  RoutesInv'
  OBVIOUS
<1>1. ASSUME NEW c \in Registrations, CallRegister(c) PROVE RoutesInv'
  <2>1. CASE listening
    BY <1>1, <2>1, RegisterRoutes DEF CallRegister, RoutesInv
  <2>2. CASE ~listening
    BY <1>1, <2>2 DEF CallRegister, RoutesInv, AnnouncedIsServed
  <2>3. QED BY <2>1, <2>2
<1>2. ASSUME NEW c \in Registrations, Continue(c) PROVE RoutesInv'
  BY <1>2, RegisterRoutes DEF Continue, RoutesInv
<1>3. ASSUME NEW e \in Endpoints, Unregister(e) PROVE RoutesInv'
  BY <1>3, UnregisterRoutes
<1>4. CASE Listen
  BY <1>4 DEF Listen, RoutesInv, AnnouncedIsServed
<1>5. CASE UNCHANGED endpointVars
  BY <1>5 DEF endpointVars, RoutesInv, AnnouncedIsServed
<1>6. CASE UNCHANGED routesVars
  BY <1>5, <1>6 DEF routesVars
<1>7. CASE Announce \/ MetadataActivate \/ FlushEnds \/ MetadataRelease
  BY <1>5, <1>7 DEF Announce, MetadataActivate, FlushEnds, MetadataRelease
<1>8. ASSUME NEW r \in Registries, Flush(r) PROVE RoutesInv'
  BY <1>5, <1>8 DEF Flush
<1>9. QED
  BY <1>1, <1>2, <1>3, <1>4, <1>6, <1>7, <1>8 DEF RoutesNext

\* Every endpoint in a registry or in the Swagger document of the proxy has its
\* layer in the router, at every moment of every behaviour.
THEOREM AnnouncementsAreServed == RoutesSpec => []AnnouncedIsServed
<1>1. RoutesInv => AnnouncedIsServed
  BY DEF RoutesInv
<1>2. QED
  BY <1>1, InitRoutes, NextRoutes, PTL DEF RoutesSpec

-----------------------------------------------------------------------------
(* PyPublishQueue: a flush that returns, for any number of calls, workers  *)
(* and flushing tasks, bounded or not.                                     *)

Accepted == {c \in Calls : publishing[c] \in {"accept", "leave", "ok"}}

Unsettled == Accepted \ settled

\* Counted in enqueues; not yet counted in completions.
Entered == {c \in Calls : publishing[c] \in {"accept", "leave", "refused"}}
Uncounted == {c \in Calls : publishing[c] = "accept"}

\* Workers that hold a message, and those whose message is settled, not yet counted.
Underway == {w \in Workers : worker[w] \in {"sending", "cancelled"}}
Finishing == {w \in Workers : worker[w] \in {"completing", "failing"}}

ToDiscard == IF stopper = "discard" THEN discarded ELSE 0

QueueTypes ==
    /\ queue \in Seq(Calls \cup {Sentinel}) /\ discarded \in Nat
    /\ enqueues \in Nat /\ completions \in Nat
    /\ publishing \in [Calls -> {"new", "enter", "accept", "leave", "refused", "ok", "full"}]
    /\ worker \in [Workers -> {"off", "get", "sending", "completing", "failing", "cancelled"}]
    /\ item \in [Workers -> Calls \cup {Sentinel}]
    /\ flush \in [Waiting -> {"no", "lock", "wait", "woken", "ok", "error", "late"}]

WorkersOff == ~startedWorkers => \A w \in Workers : worker[w] = "off"

EnqueuesCounted == enqueues = Cardinality(Entered)

\* A message is unsettled at one place: in the queue or with a worker.
QueueHolds ==
    /\ settled \subseteq Accepted
    /\ \A i \in 1..Len(queue) : queue[i] # Sentinel => queue[i] \in Unsettled
    /\ \A i, j \in 1..Len(queue) : queue[i] = queue[j] /\ queue[i] # Sentinel => i = j

WorkersHold ==
    /\ \A w \in Underway : item[w] \in Unsettled /\ \A i \in 1..Len(queue) : queue[i] # item[w]
    /\ \A v, w \in Underway : item[v] = item[w] => v = w

\* A worker may complete a message before its acceptance is counted, and then
\* takes away the count of another: what is unsettled is covered by both.
CompletionsCover ==
    Cardinality(Unsettled) + Cardinality(Finishing) + ToDiscard
        <= completions + Cardinality(Uncounted)

PyInv ==
    /\ QueueTypes /\ WorkersOff /\ EnqueuesCounted /\ QueueHolds /\ WorkersHold
    /\ CompletionsCover

\* The counted sets are finite.
SetsFinite ==
    /\ IsFiniteSet(Unsettled) /\ Cardinality(Unsettled) \in Nat
    /\ IsFiniteSet(Entered) /\ Cardinality(Entered) \in Nat
    /\ IsFiniteSet(Uncounted) /\ Cardinality(Uncounted) \in Nat
    /\ IsFiniteSet(Finishing) /\ Cardinality(Finishing) \in Nat

LEMMA FiniteSets == SetsFinite
<1>1. IsFiniteSet(Calls) /\ IsFiniteSet(Workers)
  BY PyAssumption
<1>2. \A T \in SUBSET Calls : IsFiniteSet(T) /\ Cardinality(T) \in Nat
  BY <1>1, FS_Subset, FS_CardinalityType
<1>3. \A T \in SUBSET Workers : IsFiniteSet(T) /\ Cardinality(T) \in Nat
  BY <1>1, FS_Subset, FS_CardinalityType
<1>4. Unsettled \in SUBSET Calls /\ Entered \in SUBSET Calls /\ Uncounted \in SUBSET Calls
  BY DEF Unsettled, Accepted, Entered, Uncounted
<1>5. Finishing \in SUBSET Workers
  BY DEF Finishing
<1> QED
  BY <1>2, <1>3, <1>4, <1>5 DEF SetsFinite

LEMMA InitPy == PyInit => PyInv
<1> SUFFICES ASSUME PyInit PROVE PyInv
  OBVIOUS
<1>1. Accepted = {} /\ Unsettled = {} /\ Entered = {} /\ Uncounted = {}
  BY DEF PyInit, Accepted, Unsettled, Entered, Uncounted
<1>2. Underway = {} /\ Finishing = {}
  BY DEF PyInit, Underway, Finishing
<1>3. Cardinality({}) = 0 /\ Len(<<>>) = 0 /\ <<>> \in Seq(Calls \cup {Sentinel})
  BY FS_EmptySet, EmptySeq
<1>4. QueueTypes
  BY <1>3 DEF PyInit, QueueTypes
<1>5. WorkersOff /\ EnqueuesCounted
  BY <1>1, <1>3 DEF PyInit, WorkersOff, EnqueuesCounted
<1>6. QueueHolds /\ WorkersHold
  BY <1>1, <1>2, <1>3 DEF PyInit, QueueHolds, WorkersHold
<1>7. CompletionsCover
  <2>1. ToDiscard = 0 /\ completions = 0
    BY DEF PyInit, ToDiscard
  <2> QED
    BY <1>1, <1>2, <1>3, <2>1 DEF CompletionsCover
<1> QED
  BY <1>4, <1>5, <1>6, <1>7 DEF PyInv

\* Starting the workers begins no work: there was none while they were off.
LEMMA StartIsIdle ==
    ASSUME QueueTypes, WorkersOff, EnsureStarted
    PROVE  /\ Underway' = Underway /\ Finishing' = Finishing /\ WorkersOff'
           /\ worker' \in [Workers -> {"off", "get", "sending", "completing", "failing",
                                       "cancelled"}]
<1>1. startedWorkers' = TRUE
  BY DEF EnsureStarted
<1>2. CASE startedWorkers
  <2>1. worker' = worker
    BY <1>2 DEF EnsureStarted
  <2> QED
    BY <1>1, <2>1 DEF Underway, Finishing, WorkersOff, QueueTypes
<1>3. CASE ~startedWorkers
  <2>1. worker' = [w \in Workers |-> "get"] /\ \A w \in Workers : worker[w] = "off"
    BY <1>3 DEF EnsureStarted, WorkersOff
  <2>2. Underway = {} /\ Finishing = {} /\ Underway' = {} /\ Finishing' = {}
    BY <2>1 DEF Underway, Finishing
  <2> QED
    BY <1>1, <2>1, <2>2 DEF WorkersOff
<1> QED
  BY <1>2, <1>3

LEMMA WokenTypes ==
    ASSUME QueueTypes
    PROVE  Woken \in [Waiting -> {"no", "lock", "wait", "woken", "ok", "error", "late"}]
BY DEF Woken, QueueTypes

LEMMA PyTypesStep == QueueTypes /\ WorkersOff /\ [PyNext]_pyVars => QueueTypes' /\ WorkersOff'
<1> SUFFICES ASSUME QueueTypes, WorkersOff, [PyNext]_pyVars PROVE QueueTypes' /\ WorkersOff'
  OBVIOUS
<1> USE DEF QueueTypes, WorkersOff, queueVars, stopVars
<1>1. ASSUME NEW c \in Calls, Publish(c) PROVE QueueTypes' /\ WorkersOff'
  BY <1>1 DEF Publish
<1>2. ASSUME NEW c \in Calls, Enter(c) PROVE QueueTypes' /\ WorkersOff'
  <2>1. queue' \in Seq(Calls \cup {Sentinel})
    <3>1. queue' \in {queue, Append(queue, c)} /\ c \in Calls \cup {Sentinel}
      BY <1>2 DEF Enter
    <3> QED
      BY <3>1, RangeOfAppend
  <2>2. EnsureStarted /\ flush' = Woken /\ enqueues' = enqueues + 1
        /\ UNCHANGED <<discarded, completions, item>>
    BY <1>2 DEF Enter, EnqueuesTracked
  <2>3. publishing' \in [Calls -> {"new", "enter", "accept", "leave", "refused", "ok", "full"}]
    BY <1>2 DEF Enter
  <2>4. /\ WorkersOff'
        /\ worker' \in [Workers -> {"off", "get", "sending", "completing", "failing",
                                    "cancelled"}]
    BY <2>2, StartIsIdle
  <2>5. flush' \in [Waiting -> {"no", "lock", "wait", "woken", "ok", "error", "late"}]
    BY <2>2, WokenTypes
  <2> QED
    BY <2>1, <2>2, <2>3, <2>4, <2>5
<1>3. ASSUME NEW c \in Calls, Accept(c) PROVE QueueTypes' /\ WorkersOff'
  BY <1>3, WokenTypes DEF Accept
<1>4. ASSUME NEW c \in Calls, Leave(c) PROVE QueueTypes' /\ WorkersOff'
  BY <1>4, WokenTypes DEF Leave
<1>5. ASSUME NEW w \in Workers, Take(w) PROVE QueueTypes' /\ WorkersOff'
  <2>1. queue' \in Seq(Calls \cup {Sentinel}) /\ Head(queue) \in Calls \cup {Sentinel}
    BY <1>5, RangeOfTail DEF Take
  <2>2. startedWorkers
    BY <1>5 DEF Take
  <2> QED
    BY <1>5, <2>1, <2>2 DEF Take
<1>6. ASSUME NEW w \in Workers, Sent(w) \/ Aborts(w) PROVE QueueTypes' /\ WorkersOff'
  <2>1. startedWorkers
    BY <1>6 DEF Sent, Aborts
  <2> QED
    BY <1>6, <2>1 DEF Sent, Aborts
<1>7. ASSUME NEW w \in Workers, Completed(w) PROVE QueueTypes' /\ WorkersOff'
  <2>1. startedWorkers
    BY <1>7 DEF Completed
  <2>2. completions' \in Nat
    BY <1>7 DEF Completed
  <2> QED
    BY <1>7, <2>1, <2>2, WokenTypes DEF Completed
<1>8. ASSUME NEW f \in Waiting, CallFlush(f) \/ FlushWakes(f) \/ FlushTimesOut(f)
      PROVE  QueueTypes' /\ WorkersOff'
  BY <1>8 DEF CallFlush, FlushWakes, FlushTimesOut
<1>9. ASSUME NEW f \in Waiting, FlushChecks(f) PROVE QueueTypes' /\ WorkersOff'
  BY <1>9 DEF FlushChecks, Checked
<1>10. CASE Connect
  BY <1>10, StartIsIdle DEF Connect
<1>11. CASE StopDraining
  BY <1>11 DEF StopDraining
<1>12. CASE PutSentinel
  <2>1. queue' \in Seq(Calls \cup {Sentinel})
    BY <1>12, RangeOfAppend DEF PutSentinel
  <2> QED
    BY <1>12, <2>1 DEF PutSentinel
<1>13. CASE StopDiscarding
  <2>1. worker' \in {worker, [w \in Workers |-> IF worker[w] = "sending" THEN "cancelled" ELSE "off"]}
        /\ queue' = <<>> /\ startedWorkers
    BY <1>13 DEF StopDiscarding, CancelWorkers
  <2>2. discarded' \in Nat
    <3>1. PICK M : M = {i \in DOMAIN queue : queue[i] # Sentinel}
      OBVIOUS
    <3>2. M \in SUBSET (1..Len(queue)) /\ Len(queue) \in Nat /\ discarded' = Cardinality(M)
      BY <1>13, <3>1 DEF StopDiscarding
    <3>3. IsFiniteSet(1..Len(queue))
      BY <3>2, FS_Interval
    <3>4. IsFiniteSet(M)
      BY <3>2, <3>3, FS_Subset
    <3> QED
      BY <3>2, <3>4, FS_CardinalityType
  <2> QED
    BY <1>13, <2>1, <2>2, EmptySeq DEF StopDiscarding
<1>14. CASE Discarded
  <2>1. completions' \in Nat
    BY <1>14 DEF Discarded
  <2>2. worker' = [w \in Workers |-> IF worker[w] = "sending" THEN "cancelled" ELSE "off"]
    BY <1>14 DEF Discarded
  <2> QED
    BY <1>14, <2>1, <2>2, WokenTypes DEF Discarded
<1>15. CASE StopEnds
  BY <1>15 DEF StopEnds
<1>16. CASE UNCHANGED pyVars
  BY <1>16 DEF pyVars
<1> QED
  BY <1>1, <1>2, <1>3, <1>4, <1>5, <1>6, <1>7, <1>8, <1>9, <1>10, <1>11, <1>12, <1>13, <1>14,
     <1>15, <1>16 DEF PyNext

\* What a call's own steps do to the sets that are counted.
LEMMA CallStage ==
    ASSUME QueueTypes, NEW c \in Calls, NEW v \in {"enter", "accept", "leave", "refused", "ok", "full"},
           publishing' = [publishing EXCEPT ![c] = v], settled' = settled
    PROVE  /\ Entered' = IF v \in {"accept", "leave", "refused"} THEN Entered \cup {c}
                         ELSE Entered \ {c}
           /\ Uncounted' = IF v = "accept" THEN Uncounted \cup {c} ELSE Uncounted \ {c}
           /\ Accepted' = IF v \in {"accept", "leave", "ok"} THEN Accepted \cup {c}
                          ELSE Accepted \ {c}
<1>1. \A d \in Calls : publishing'[d] = IF d = c THEN v ELSE publishing[d]
  BY DEF QueueTypes
<1> QED
  BY <1>1 DEF Entered, Uncounted, Accepted

\* Nothing is taken, sent or accepted: what is held stays held.
LEMMA HoldFrame ==
    ASSUME QueueHolds, WorkersHold, UNCHANGED <<queue, item>>, Unsettled' = Unsettled,
           settled' \subseteq Accepted', Underway' \subseteq Underway
    PROVE  QueueHolds' /\ WorkersHold'
BY DEF QueueHolds, WorkersHold

LEMMA HoldStep ==
    QueueTypes /\ WorkersOff /\ QueueHolds /\ WorkersHold /\ [PyNext]_pyVars
        => QueueHolds' /\ WorkersHold'
<1> SUFFICES ASSUME QueueTypes, WorkersOff, QueueHolds, WorkersHold, [PyNext]_pyVars
             PROVE  QueueHolds' /\ WorkersHold'
  OBVIOUS
<1> USE DEF queueVars, stopVars
<1>1. /\ queue \in Seq(Calls \cup {Sentinel}) /\ Len(queue) \in Nat /\ settled \subseteq Accepted
      /\ worker \in [Workers -> {"off", "get", "sending", "completing", "failing", "cancelled"}]
      /\ item \in [Workers -> Calls \cup {Sentinel}]
  BY DEF QueueTypes, QueueHolds
<1>2. ASSUME NEW c \in Calls, Publish(c) \/ Accept(c) \/ Leave(c) PROVE QueueHolds' /\ WorkersHold'
  <2>1. UNCHANGED <<queue, item, settled, worker>>
    BY <1>2 DEF Publish, Accept, Leave
  <2>2. Accepted' = Accepted
    <3>1. CASE Publish(c)
      <4>1. publishing[c] = "new" /\ publishing' = [publishing EXCEPT ![c] = "enter"]
        BY <3>1 DEF Publish
      <4> QED
        BY <2>1, <4>1, CallStage DEF Accepted
    <3>2. CASE Accept(c)
      <4>1. publishing[c] = "accept" /\ publishing' = [publishing EXCEPT ![c] = "leave"]
        BY <3>2 DEF Accept
      <4> QED
        BY <2>1, <4>1, CallStage DEF Accepted
    <3>3. CASE Leave(c)
      <4>1. \/ publishing[c] = "leave" /\ publishing' = [publishing EXCEPT ![c] = "ok"]
            \/ publishing[c] = "refused" /\ publishing' = [publishing EXCEPT ![c] = "full"]
        BY <3>3 DEF Leave, QueueTypes
      <4>2. CASE publishing[c] = "leave" /\ publishing' = [publishing EXCEPT ![c] = "ok"]
        BY <2>1, <4>2, CallStage DEF Accepted
      <4>3. CASE publishing[c] = "refused" /\ publishing' = [publishing EXCEPT ![c] = "full"]
        BY <2>1, <4>3, CallStage DEF Accepted
      <4> QED
        BY <4>1, <4>2, <4>3
    <3> QED
      BY <1>2, <3>1, <3>2, <3>3
  <2>3. Unsettled' = Unsettled /\ Underway' = Underway /\ settled' \subseteq Accepted'
    BY <1>1, <2>1, <2>2 DEF Unsettled, Underway
  <2> QED
    BY <2>1, <2>3, HoldFrame
<1>3. ASSUME NEW c \in Calls, Enter(c) PROVE QueueHolds' /\ WorkersHold'
  <2>1. /\ publishing[c] = "enter" /\ UNCHANGED <<item, settled>> /\ EnsureStarted
        /\ \/ queue' = queue /\ publishing' = [publishing EXCEPT ![c] = "refused"]
           \/ queue' = Append(queue, c) /\ publishing' = [publishing EXCEPT ![c] = "accept"]
    BY <1>3 DEF Enter
  <2>2. Underway' = Underway
    BY <2>1, StartIsIdle
  <2>3. c \notin Accepted
    BY <2>1 DEF Accepted
  <2>4. CASE queue' = queue /\ publishing' = [publishing EXCEPT ![c] = "refused"]
    <3>1. Accepted' = Accepted
      <4>1. settled' = settled
        BY <2>1
      <4>2. Accepted' = Accepted \ {c}
        BY <2>4, <4>1, CallStage
      <4> QED
        BY <2>3, <4>2
    <3>2. Unsettled' = Unsettled /\ settled' \subseteq Accepted'
      BY <1>1, <2>1, <3>1 DEF Unsettled
    <3> QED
      BY <2>1, <2>2, <2>4, <3>2, HoldFrame
  <2>5. CASE queue' = Append(queue, c) /\ publishing' = [publishing EXCEPT ![c] = "accept"]
    <3>1. Accepted' = Accepted \cup {c}
      <4>1. settled' = settled
        BY <2>1
      <4> QED
        BY <2>5, <4>1, CallStage
    <3>2. Unsettled' = Unsettled \cup {c} /\ settled' \subseteq Accepted' /\ c \notin Unsettled
      BY <1>1, <2>1, <2>3, <3>1 DEF Unsettled
    <3>3. PICK q : q = Append(queue, c)
      OBVIOUS
    <3>4. /\ Len(q) = Len(queue) + 1 /\ q[Len(queue) + 1] = c
          /\ \A i \in 1..Len(queue) : q[i] = queue[i]
      BY <1>1, <3>3, AppendProperties
    <3>5. \A i \in 1..Len(queue) : queue[i] # c
      BY <3>2, PyAssumption DEF QueueHolds
    <3>6. \A i \in 1..Len(q) : i \in 1..Len(queue) \/ i = Len(queue) + 1
      BY <1>1, <3>4
    <3>7. QueueHolds'
      <4>1. ASSUME NEW i \in 1..Len(q), q[i] # Sentinel PROVE q[i] \in Unsettled \cup {c}
        BY <3>4, <3>6, <4>1 DEF QueueHolds
      <4>2. ASSUME NEW i \in 1..Len(q), NEW j \in 1..Len(q), q[i] = q[j], q[i] # Sentinel
            PROVE  i = j
        BY <3>4, <3>5, <3>6, <4>2 DEF QueueHolds
      <4> QED
        BY <2>5, <3>2, <3>3, <4>1, <4>2 DEF QueueHolds
    <3>8. WorkersHold'
      <4>1. ASSUME NEW w \in Underway, NEW i \in 1..Len(q) PROVE q[i] # item[w]
        BY <3>2, <3>4, <3>6 DEF WorkersHold
      <4> QED
        BY <2>1, <2>2, <2>5, <3>2, <3>3, <4>1 DEF WorkersHold
    <3> QED
      BY <3>7, <3>8
  <2> QED
    BY <2>1, <2>4, <2>5
<1>4. ASSUME NEW w \in Workers, Take(w) PROVE QueueHolds' /\ WorkersHold'
  <2>1. /\ worker[w] = "get" /\ queue # <<>> /\ queue' = Tail(queue)
        /\ item' = [item EXCEPT ![w] = Head(queue)] /\ UNCHANGED <<publishing, settled>>
        /\ worker' = [worker EXCEPT ![w] = IF Head(queue) = Sentinel THEN "off" ELSE "sending"]
    BY <1>4 DEF Take
  <2>2. PICK q : q = Tail(queue)
    OBVIOUS
  <2>3. /\ Len(q) = Len(queue) - 1 /\ Head(queue) = queue[1] /\ Len(queue) # 0
        /\ \A i \in 1..Len(q) : q[i] = queue[i + 1]
    BY <1>1, <2>1, <2>2, HeadTailProperties, EmptySeq
  <2>4. \A i \in 1..Len(q) : i + 1 \in 1..Len(queue) /\ i + 1 # 1
    BY <1>1, <2>3
  <2>5. 1 \in 1..Len(queue)
    BY <1>1, <2>3
  <2>6. Accepted' = Accepted /\ Unsettled' = Unsettled
    BY <2>1 DEF Accepted, Unsettled
  <2>7. QueueHolds'
    <3>1. ASSUME NEW i \in 1..Len(q), q[i] # Sentinel PROVE q[i] \in Unsettled
      BY <2>3, <2>4, <3>1 DEF QueueHolds
    <3>2. ASSUME NEW i \in 1..Len(q), NEW j \in 1..Len(q), q[i] = q[j], q[i] # Sentinel PROVE i = j
      <4>1. i + 1 = j + 1
        BY <2>3, <2>4, <3>2 DEF QueueHolds
      <4> QED
        BY <4>1
    <3> QED
      BY <1>1, <2>1, <2>2, <2>6, <3>1, <3>2 DEF QueueHolds
  <2>8. /\ w \notin Underway
        /\ Underway' = IF Head(queue) = Sentinel THEN Underway ELSE Underway \cup {w}
    <3>1. \A v \in Workers : worker'[v] = IF v = w THEN (IF Head(queue) = Sentinel THEN "off" ELSE "sending")
                                          ELSE worker[v]
      BY <1>1, <2>1
    <3> QED
      BY <2>1, <3>1 DEF Underway
  <2>9. /\ \A v \in Underway : item'[v] = item[v]
        /\ item'[w] = queue[1]
    BY <1>1, <2>1, <2>3, <2>8 DEF Underway
  <2>10. \A v \in Underway : item[v] \in Unsettled /\ \A i \in 1..Len(q) : q[i] # item[v]
    BY <2>3, <2>4 DEF WorkersHold
  <2>11. Head(queue) # Sentinel =>
           /\ queue[1] \in Unsettled /\ \A i \in 1..Len(q) : q[i] # queue[1]
           /\ \A v \in Underway : item[v] # queue[1]
    <3>1. ASSUME Head(queue) # Sentinel, NEW i \in 1..Len(q) PROVE q[i] # queue[1]
      BY <2>3, <2>4, <2>5, <3>1 DEF QueueHolds
    <3> QED
      BY <2>3, <2>5, <3>1 DEF QueueHolds, WorkersHold
  <2>12. WorkersHold'
    <3>1. ASSUME NEW v \in Underway' PROVE item'[v] \in Unsettled /\ \A i \in 1..Len(q) : q[i] # item'[v]
      BY <2>8, <2>9, <2>10, <2>11
    <3>2. ASSUME NEW u \in Underway', NEW v \in Underway', item'[u] = item'[v] PROVE u = v
      BY <2>8, <2>9, <2>11, <3>2 DEF WorkersHold
    <3> QED
      BY <2>1, <2>2, <2>6, <3>1, <3>2 DEF WorkersHold
  <2> QED
    BY <2>7, <2>12
<1>5. ASSUME NEW w \in Workers, Sent(w) \/ Aborts(w) PROVE QueueHolds' /\ WorkersHold'
  <2>1. /\ w \in Underway /\ UNCHANGED <<queue, item, publishing>> /\ settled' = settled \cup {item[w]}
        /\ \E next \in {"completing", "failing"} : worker' = [worker EXCEPT ![w] = next]
    BY <1>5 DEF Sent, Aborts, Underway
  <2>2. Underway' = Underway \ {w}
    BY <1>1, <2>1 DEF Underway
  <2>3. Accepted' = Accepted /\ Unsettled' = Unsettled \ {item[w]} /\ item[w] \in Unsettled
    BY <2>1 DEF Accepted, Unsettled, WorkersHold
  <2>4. settled' \subseteq Accepted'
    BY <1>1, <2>1, <2>3 DEF Unsettled
  <2>5. \A i \in 1..Len(queue) : queue[i] # item[w]
    BY <2>1 DEF WorkersHold
  <2>6. QueueHolds'
    BY <2>1, <2>3, <2>4, <2>5 DEF QueueHolds
  <2>7. WorkersHold'
    BY <2>1, <2>2, <2>3 DEF WorkersHold
  <2> QED
    BY <2>6, <2>7
<1>6. ASSUME NEW w \in Workers, Completed(w) PROVE QueueHolds' /\ WorkersHold'
  <2>1. /\ worker[w] \in {"completing", "failing"} /\ UNCHANGED <<queue, item, publishing, settled>>
        /\ \E next \in {"get", "off"} : worker' = [worker EXCEPT ![w] = next]
    BY <1>6 DEF Completed
  <2>2. Underway' = Underway
    BY <1>1, <2>1 DEF Underway
  <2>3. Unsettled' = Unsettled /\ settled' \subseteq Accepted'
    BY <1>1, <2>1 DEF Unsettled, Accepted
  <2> QED
    BY <2>1, <2>2, <2>3, HoldFrame
<1>7. ASSUME Connect \/ StopEnds \/ StopDraining \/ UNCHANGED pyVars PROVE QueueHolds' /\ WorkersHold'
  <2>1. UNCHANGED <<queue, item, publishing, settled>>
    BY <1>7 DEF Connect, StopEnds, StopDraining, pyVars
  <2>2. Underway' = Underway
    BY <1>7, StartIsIdle DEF Connect, StopEnds, StopDraining, pyVars, Underway
  <2>3. Unsettled' = Unsettled /\ settled' \subseteq Accepted'
    BY <1>1, <2>1 DEF Unsettled, Accepted
  <2> QED
    BY <2>1, <2>2, <2>3, HoldFrame
<1>8. ASSUME NEW f \in Waiting, CallFlush(f) \/ FlushWakes(f) \/ FlushTimesOut(f) \/ FlushChecks(f)
      PROVE  QueueHolds' /\ WorkersHold'
  <2>1. UNCHANGED <<queue, item, publishing, settled, worker>>
    BY <1>8 DEF CallFlush, FlushWakes, FlushTimesOut, FlushChecks
  <2>2. Unsettled' = Unsettled /\ settled' \subseteq Accepted' /\ Underway' = Underway
    BY <1>1, <2>1 DEF Unsettled, Accepted, Underway
  <2> QED
    BY <2>1, <2>2, HoldFrame
<1>9. CASE PutSentinel
  <2>1. UNCHANGED <<item, publishing, settled, worker>> /\ queue' = Append(queue, Sentinel)
    BY <1>9 DEF PutSentinel
  <2>2. /\ Unsettled' = Unsettled /\ Accepted' = Accepted /\ Underway' = Underway
        /\ Sentinel \notin Unsettled
    BY <2>1, PyAssumption DEF Unsettled, Accepted, Underway
  <2>3. PICK q : q = Append(queue, Sentinel)
    OBVIOUS
  <2>4. /\ Len(q) = Len(queue) + 1 /\ q[Len(queue) + 1] = Sentinel
        /\ \A i \in 1..Len(queue) : q[i] = queue[i]
    BY <1>1, <2>3, AppendProperties
  <2>5. \A i \in 1..Len(q) : i \in 1..Len(queue) \/ q[i] = Sentinel
    BY <1>1, <2>4
  <2>6. QueueHolds'
    <3>1. ASSUME NEW i \in 1..Len(q), q[i] # Sentinel PROVE q[i] \in Unsettled
      BY <2>4, <2>5, <3>1 DEF QueueHolds
    <3>2. ASSUME NEW i \in 1..Len(q), NEW j \in 1..Len(q), q[i] = q[j], q[i] # Sentinel PROVE i = j
      BY <2>4, <2>5, <3>2 DEF QueueHolds
    <3> QED
      BY <1>1, <2>1, <2>2, <2>3, <3>1, <3>2 DEF QueueHolds
  <2>7. WorkersHold'
    <3>1. ASSUME NEW w \in Underway, NEW i \in 1..Len(q) PROVE q[i] # item[w]
      BY <2>2, <2>4, <2>5 DEF WorkersHold
    <3> QED
      BY <2>1, <2>2, <2>3, <3>1 DEF WorkersHold
  <2> QED
    BY <2>6, <2>7
<1>10. CASE StopDiscarding
  <2>1. /\ queue' = <<>> /\ UNCHANGED <<item, publishing>>
        /\ settled' = settled \cup {queue[i] : i \in {i \in DOMAIN queue : queue[i] # Sentinel}}
        /\ worker' \in {worker, [w \in Workers |-> IF worker[w] = "sending" THEN "cancelled" ELSE "off"]}
    BY <1>10 DEF StopDiscarding, CancelWorkers
  <2>2. PICK M : M = {queue[i] : i \in {i \in DOMAIN queue : queue[i] # Sentinel}}
    OBVIOUS
  <2>3. Accepted' = Accepted /\ Unsettled' = Unsettled \ M /\ M \subseteq Unsettled
    <3>1. DOMAIN queue = 1..Len(queue)
      BY <1>1
    <3> QED
      BY <2>1, <2>2, <3>1 DEF Accepted, Unsettled, QueueHolds
  <2>4. Underway' \subseteq Underway
    BY <1>1, <2>1 DEF Underway
  <2>5. \A w \in Underway : item[w] \notin M
    BY <1>1, <2>2 DEF WorkersHold
  <2>6. settled' \subseteq Accepted'
    BY <1>1, <2>1, <2>2, <2>3 DEF Unsettled
  <2>7. Len(<<>>) = 0 /\ 1..0 = {}
    OBVIOUS
  <2>8. QueueHolds'
    BY <2>1, <2>6, <2>7 DEF QueueHolds
  <2>9. WorkersHold'
    BY <2>1, <2>3, <2>4, <2>5, <2>7 DEF WorkersHold
  <2> QED
    BY <2>8, <2>9
<1>11. CASE Discarded
  <2>1. /\ UNCHANGED <<queue, item, publishing, settled>>
        /\ worker' = [w \in Workers |-> IF worker[w] = "sending" THEN "cancelled" ELSE "off"]
    BY <1>11 DEF Discarded
  <2>2. Unsettled' = Unsettled /\ settled' \subseteq Accepted' /\ Underway' \subseteq Underway
    BY <1>1, <2>1 DEF Unsettled, Accepted, Underway
  <2> QED
    BY <2>1, <2>2, HoldFrame
<1> QED
  BY <1>2, <1>3, <1>4, <1>5, <1>6, <1>7, <1>8, <1>9, <1>10, <1>11 DEF PyNext

\* What is counted when a call enters and forgotten when it leaves.
LEMMA EnqueuesStep ==
    QueueTypes /\ EnqueuesCounted /\ [PyNext]_pyVars => EnqueuesCounted'
<1> SUFFICES ASSUME QueueTypes, EnqueuesCounted, [PyNext]_pyVars PROVE EnqueuesCounted'
  OBVIOUS
<1>1. IsFiniteSet(Entered) /\ Cardinality(Entered) \in Nat /\ enqueues = Cardinality(Entered)
  BY FiniteSets DEF SetsFinite, EnqueuesCounted
<1>2. ASSUME NEW c \in Calls, Publish(c) \/ Accept(c) PROVE EnqueuesCounted'
  <2>1. settled' = settled /\ enqueues' = enqueues
    BY <1>2 DEF Publish, Accept, queueVars, stopVars
  <2>2. CASE Publish(c)
    <3>1. publishing[c] = "new" /\ publishing' = [publishing EXCEPT ![c] = "enter"]
      BY <2>2 DEF Publish
    <3>2. Entered' = Entered \ {c} /\ c \notin Entered
      BY <2>1, <3>1, CallStage DEF Entered
    <3> QED
      BY <1>1, <2>1, <3>2 DEF EnqueuesCounted
  <2>3. CASE Accept(c)
    <3>1. publishing[c] = "accept" /\ publishing' = [publishing EXCEPT ![c] = "leave"]
      BY <2>3 DEF Accept
    <3>2. Entered' = Entered \cup {c} /\ c \in Entered
      BY <2>1, <3>1, CallStage DEF Entered
    <3> QED
      BY <1>1, <2>1, <3>2 DEF EnqueuesCounted
  <2> QED
    BY <1>2, <2>2, <2>3
<1>3. ASSUME NEW c \in Calls, Enter(c) PROVE EnqueuesCounted'
  <2>1. PICK v \in {"refused", "accept"} :
          /\ publishing[c] = "enter" /\ publishing' = [publishing EXCEPT ![c] = v]
          /\ settled' = settled /\ enqueues' = enqueues + 1
    BY <1>3 DEF Enter, EnqueuesTracked
  <2>2. Entered' = Entered \cup {c} /\ c \notin Entered
    BY <2>1, CallStage DEF Entered
  <2>3. PICK E : E = Entered'
    OBVIOUS
  <2>4. Cardinality(E) = Cardinality(Entered) + 1
    BY <1>1, <2>2, <2>3, FS_AddElement
  <2> QED
    BY <1>1, <2>1, <2>3, <2>4 DEF EnqueuesCounted
<1>4. ASSUME NEW c \in Calls, Leave(c) PROVE EnqueuesCounted'
  <2>1. PICK v \in {"ok", "full"} :
          /\ publishing[c] \in {"leave", "refused"} /\ publishing' = [publishing EXCEPT ![c] = v]
          /\ settled' = settled /\ enqueues' = IF enqueues > 0 THEN enqueues - 1 ELSE 0
    BY <1>4 DEF Leave, queueVars, stopVars
  <2>2. Entered' = Entered \ {c} /\ c \in Entered
    BY <2>1, CallStage DEF Entered
  <2>3. PICK E : E = Entered'
    OBVIOUS
  <2>4. Cardinality(E) = Cardinality(Entered) - 1 /\ Cardinality(E) \in Nat
    BY <1>1, <2>2, <2>3, FS_RemoveElement, FS_CardinalityType
  <2>5. enqueues > 0 /\ enqueues' = enqueues - 1
    BY <1>1, <2>1, <2>4
  <2> QED
    BY <1>1, <2>3, <2>4, <2>5 DEF EnqueuesCounted
<1>5. ASSUME UNCHANGED <<publishing, enqueues>> PROVE EnqueuesCounted'
  BY <1>5 DEF EnqueuesCounted, Entered
<1>6. ASSUME NEW w \in Workers, Take(w) \/ Sent(w) \/ Aborts(w) \/ Completed(w) PROVE EnqueuesCounted'
  BY <1>5, <1>6 DEF Take, Sent, Aborts, Completed
<1>7. ASSUME NEW f \in Waiting, CallFlush(f) \/ FlushWakes(f) \/ FlushTimesOut(f) \/ FlushChecks(f)
      PROVE  EnqueuesCounted'
  BY <1>5, <1>7 DEF CallFlush, FlushWakes, FlushTimesOut, FlushChecks
<1>8. CASE Connect \/ StopDraining \/ PutSentinel \/ StopDiscarding \/ Discarded \/ StopEnds
  BY <1>5, <1>8 DEF Connect, StopDraining, PutSentinel, StopDiscarding, Discarded, StopEnds
<1>9. CASE UNCHANGED pyVars
  BY <1>5, <1>9 DEF pyVars
<1> QED
  BY <1>2, <1>3, <1>4, <1>6, <1>7, <1>8, <1>9 DEF PyNext

\* As many messages are discarded as are in the queue.
LEMMA DiscardedCount ==
    ASSUME QueueTypes, QueueHolds, NEW M, NEW D,
           M = {i \in DOMAIN queue : queue[i] # Sentinel}, D = {queue[i] : i \in M}
    PROVE  IsFiniteSet(D) /\ Cardinality(D) = Cardinality(M) /\ D \subseteq Unsettled
<1>1. queue \in Seq(Calls \cup {Sentinel}) /\ Len(queue) \in Nat /\ DOMAIN queue = 1..Len(queue)
  BY DEF QueueTypes
<1>2. IsFiniteSet(1..Len(queue))
  BY <1>1, FS_Interval
<1>3. IsFiniteSet(M) /\ M \subseteq 1..Len(queue)
  BY <1>1, <1>2, FS_Subset
<1>4. PICK f : f = [i \in M |-> queue[i]]
  OBVIOUS
<1>5. f \in Bijection(M, D)
  <2>1. f \in [M -> D]
    BY <1>4
  <2>2. \A i, j \in M : f[i] = f[j] => i = j
    BY <1>3, <1>4 DEF QueueHolds
  <2>3. \A d \in D : \E i \in M : f[i] = d
    BY <1>4
  <2>4. IsInjective(f)
    BY <2>1, <2>2 DEF IsInjective
  <2> QED
    BY <2>1, <2>3, <2>4 DEF Bijection, Injection, Surjection
<1>6. D \subseteq Unsettled
  BY <1>3 DEF QueueHolds
<1> QED
  BY <1>3, <1>5, <1>6, FS_Bijection DEF ExistsBijection

\* A step of the sum: what each count may do and still be covered.
LEMMA CoverFrame ==
    ASSUME CompletionsCover, completions' = completions, Unsettled' = Unsettled,
           Uncounted' = Uncounted, Finishing' = Finishing, ToDiscard' = ToDiscard
    PROVE  CompletionsCover'
BY DEF CompletionsCover

LEMMA ToDiscardType == QueueTypes => ToDiscard \in Nat
BY DEF QueueTypes, ToDiscard

LEMMA CoverStep ==
    PyInv /\ QueueTypes' /\ [PyNext]_pyVars => CompletionsCover'
<1> SUFFICES ASSUME QueueTypes, WorkersOff, QueueHolds, WorkersHold, CompletionsCover,
                    QueueTypes', [PyNext]_pyVars
             PROVE  CompletionsCover'
  BY DEF PyInv
<1>1. /\ IsFiniteSet(Unsettled) /\ IsFiniteSet(Uncounted) /\ IsFiniteSet(Finishing)
      /\ Cardinality(Unsettled) \in Nat /\ Cardinality(Uncounted) \in Nat
      /\ Cardinality(Finishing) \in Nat
  BY FiniteSets DEF SetsFinite
<1>2. /\ completions \in Nat /\ ToDiscard \in Nat /\ discarded \in Nat
      /\ worker \in [Workers -> {"off", "get", "sending", "completing", "failing", "cancelled"}]
  BY ToDiscardType DEF QueueTypes
<1>3. Cardinality(Unsettled) + Cardinality(Finishing) + ToDiscard
        <= completions + Cardinality(Uncounted)
  BY DEF CompletionsCover
<1>4. PICK U, A, F : U = Unsettled' /\ A = Uncounted' /\ F = Finishing'
  OBVIOUS
<1>5. ASSUME Cardinality(U) + Cardinality(F) + ToDiscard' <= completions' + Cardinality(A)
      PROVE  CompletionsCover'
  BY <1>4, <1>5 DEF CompletionsCover
<1>6. ASSUME NEW c \in Calls, Publish(c) \/ Leave(c) PROVE CompletionsCover'
  <2>1. UNCHANGED <<completions, settled, worker, stopper, discarded>>
    BY <1>6 DEF Publish, Leave, queueVars, stopVars
  <2>2. PICK v \in {"enter", "ok", "full"} :
          /\ publishing' = [publishing EXCEPT ![c] = v]
          /\ \/ publishing[c] = "new" /\ v = "enter"
             \/ publishing[c] = "leave" /\ v = "ok"
             \/ publishing[c] = "refused" /\ v = "full"
    BY <1>6 DEF Publish, Leave
  <2>3. \A d \in Calls : publishing'[d] = IF d = c THEN v ELSE publishing[d]
    BY <2>2 DEF QueueTypes
  <2>4. Uncounted' = Uncounted /\ Accepted' = Accepted
    BY <2>2, <2>3 DEF Uncounted, Accepted
  <2>5. Unsettled' = Unsettled /\ Finishing' = Finishing /\ ToDiscard' = ToDiscard
    BY <2>1, <2>4 DEF Unsettled, Finishing, ToDiscard
  <2> QED
    BY <2>1, <2>4, <2>5, CoverFrame
<1>7. ASSUME NEW c \in Calls, Enter(c) PROVE CompletionsCover'
  <2>1. /\ UNCHANGED <<completions, settled, stopper, discarded>> /\ EnsureStarted
        /\ publishing[c] = "enter"
    BY <1>7 DEF Enter, stopVars
  <2>2. PICK v \in {"refused", "accept"} : publishing' = [publishing EXCEPT ![c] = v]
    BY <1>7 DEF Enter
  <2>3. \A d \in Calls : publishing'[d] = IF d = c THEN v ELSE publishing[d]
    BY <2>2 DEF QueueTypes
  <2>4. Finishing' = Finishing /\ ToDiscard' = ToDiscard
    BY <2>1, StartIsIdle DEF ToDiscard
  <2>5. c \notin Uncounted /\ c \notin Accepted /\ c \notin settled
    BY <2>1 DEF Uncounted, Accepted, QueueHolds
  <2>6. CASE v = "refused"
    <3>1. Uncounted' = Uncounted /\ Accepted' = Accepted
      BY <2>3, <2>5, <2>6 DEF Uncounted, Accepted
    <3>2. Unsettled' = Unsettled
      BY <2>1, <3>1 DEF Unsettled
    <3> QED
      BY <2>1, <2>4, <3>1, <3>2, CoverFrame
  <2>7. CASE v = "accept"
    <3>1. Uncounted' = Uncounted \cup {c} /\ Accepted' = Accepted \cup {c}
      BY <2>3, <2>7 DEF Uncounted, Accepted
    <3>2. Unsettled' = Unsettled \cup {c} /\ c \notin Unsettled
      BY <2>1, <2>5, <3>1 DEF Unsettled
    <3>3. Cardinality(A) = Cardinality(Uncounted) + 1 /\ Cardinality(U) = Cardinality(Unsettled) + 1
      BY <1>1, <1>4, <2>5, <3>1, <3>2, FS_AddElement
    <3>4. F = Finishing
      BY <1>4, <2>4
    <3> QED
      BY <1>1, <1>2, <1>3, <1>5, <2>1, <2>4, <3>3, <3>4
  <2> QED
    BY <2>6, <2>7
<1>8. ASSUME NEW c \in Calls, Accept(c) PROVE CompletionsCover'
  <2>1. /\ UNCHANGED <<settled, worker, stopper, discarded>> /\ completions' = completions + 1
        /\ publishing[c] = "accept" /\ publishing' = [publishing EXCEPT ![c] = "leave"]
    BY <1>8 DEF Accept, stopVars
  <2>2. \A d \in Calls : publishing'[d] = IF d = c THEN "leave" ELSE publishing[d]
    BY <2>1 DEF QueueTypes
  <2>3. Uncounted' = Uncounted \ {c} /\ c \in Uncounted /\ Accepted' = Accepted
    BY <2>1, <2>2 DEF Uncounted, Accepted
  <2>4. U = Unsettled /\ F = Finishing /\ ToDiscard' = ToDiscard
    BY <1>4, <2>1, <2>3 DEF Unsettled, Finishing, ToDiscard
  <2>5. Cardinality(A) = Cardinality(Uncounted) - 1
    BY <1>1, <1>4, <2>3, FS_RemoveElement
  <2> QED
    BY <1>1, <1>2, <1>3, <1>5, <2>1, <2>4, <2>5
<1>9. ASSUME NEW w \in Workers, Take(w) PROVE CompletionsCover'
  <2>1. /\ UNCHANGED <<completions, publishing, settled, stopper, discarded>> /\ worker[w] = "get"
        /\ \E v \in {"off", "sending"} : worker' = [worker EXCEPT ![w] = v]
    BY <1>9 DEF Take, stopVars
  <2>2. Finishing' = Finishing
    BY <1>2, <2>1 DEF Finishing
  <2>3. Unsettled' = Unsettled /\ Uncounted' = Uncounted /\ ToDiscard' = ToDiscard
    BY <2>1 DEF Unsettled, Accepted, Uncounted, ToDiscard
  <2> QED
    BY <2>1, <2>2, <2>3, CoverFrame
<1>10. ASSUME NEW w \in Workers, Sent(w) \/ Aborts(w) PROVE CompletionsCover'
  <2>1. /\ w \in Underway /\ UNCHANGED <<completions, publishing, stopper, discarded>>
        /\ settled' = settled \cup {item[w]}
        /\ \E next \in {"completing", "failing"} : worker' = [worker EXCEPT ![w] = next]
    BY <1>10 DEF Sent, Aborts, Underway, stopVars
  <2>2. Finishing' = Finishing \cup {w} /\ w \notin Finishing
    BY <1>2, <2>1 DEF Finishing, Underway
  <2>3. Unsettled' = Unsettled \ {item[w]} /\ item[w] \in Unsettled
    BY <2>1 DEF Unsettled, Accepted, WorkersHold
  <2>4. A = Uncounted /\ ToDiscard' = ToDiscard
    BY <1>4, <2>1 DEF Uncounted, ToDiscard
  <2>5. Cardinality(F) = Cardinality(Finishing) + 1 /\ Cardinality(U) = Cardinality(Unsettled) - 1
    BY <1>1, <1>4, <2>2, <2>3, FS_AddElement, FS_RemoveElement
  <2> QED
    BY <1>1, <1>2, <1>3, <1>5, <2>1, <2>4, <2>5
<1>11. ASSUME NEW w \in Workers, Completed(w) PROVE CompletionsCover'
  <2>1. /\ UNCHANGED <<publishing, settled, stopper, discarded>>
        /\ w \in Finishing
        /\ completions' = IF completions > 0 THEN completions - 1 ELSE 0
        /\ \E v \in {"get", "off"} : worker' = [worker EXCEPT ![w] = v]
    BY <1>11 DEF Completed, Finishing, stopVars
  <2>2. Finishing' = Finishing \ {w}
    BY <1>2, <2>1 DEF Finishing
  <2>3. Cardinality(F) = Cardinality(Finishing) - 1 /\ Cardinality(F) \in Nat
    BY <1>1, <1>4, <2>1, <2>2, FS_RemoveElement, FS_CardinalityType
  <2>4. U = Unsettled /\ A = Uncounted /\ ToDiscard' = ToDiscard
    BY <1>4, <2>1 DEF Unsettled, Accepted, Uncounted, ToDiscard
  <2>5. completions' >= completions - 1 /\ completions' \in Nat
    BY <1>2, <2>1
  <2> QED
    BY <1>1, <1>2, <1>3, <1>5, <2>3, <2>4, <2>5
<1>12. CASE Connect \/ StopDraining \/ PutSentinel \/ StopEnds \/ UNCHANGED pyVars
  <2>1. UNCHANGED <<completions, publishing, settled>>
    BY <1>12 DEF Connect, StopDraining, PutSentinel, StopEnds, pyVars
  <2>2. Finishing' = Finishing
    BY <1>12, StartIsIdle
       DEF Connect, StopDraining, PutSentinel, StopEnds, pyVars, Finishing
  <2>3. ToDiscard' = ToDiscard
    BY <1>12 DEF Connect, StopDraining, PutSentinel, StopEnds, pyVars, stopVars, ToDiscard
  <2>4. Unsettled' = Unsettled /\ Uncounted' = Uncounted
    BY <2>1 DEF Unsettled, Accepted, Uncounted
  <2> QED
    BY <2>1, <2>2, <2>3, <2>4, CoverFrame
<1>13. ASSUME NEW f \in Waiting, CallFlush(f) \/ FlushWakes(f) \/ FlushTimesOut(f) \/ FlushChecks(f)
       PROVE  CompletionsCover'
  <2>1. UNCHANGED <<completions, publishing, settled, worker, discarded>>
    BY <1>13 DEF CallFlush, FlushWakes, FlushTimesOut, FlushChecks, stopVars
  <2>2. U = Unsettled /\ A = Uncounted /\ F = Finishing
    BY <1>4, <2>1 DEF Unsettled, Accepted, Uncounted, Finishing
  <2>3. stopper' = "discard" => stopper = "discard"
    BY <1>13 DEF CallFlush, FlushWakes, FlushTimesOut, FlushChecks, stopVars
  <2>4. ToDiscard' <= ToDiscard /\ ToDiscard' \in Nat
    BY <1>2, <2>1, <2>3 DEF ToDiscard
  <2> QED
    BY <1>1, <1>2, <1>3, <1>5, <2>1, <2>2, <2>4
<1>14. CASE StopDiscarding
  <2>1. PICK M, D : M = {i \in DOMAIN queue : queue[i] # Sentinel} /\ D = {queue[i] : i \in M}
    OBVIOUS
  <2>2. /\ stopper = "no" /\ UNCHANGED <<completions, publishing>>
        /\ discarded' = Cardinality(M) /\ settled' = settled \cup D
        /\ \/ M = {} /\ stopper' = "gather" /\ CancelWorkers
           \/ M # {} /\ stopper' = "discard" /\ worker' = worker
    BY <1>14, <2>1 DEF StopDiscarding
  <2>3. IsFiniteSet(D) /\ Cardinality(D) = Cardinality(M) /\ D \subseteq Unsettled
    BY <2>1, DiscardedCount
  <2>4. U = Unsettled \ D /\ A = Uncounted /\ Unsettled \cap D = D
    BY <1>4, <2>2, <2>3 DEF Unsettled, Accepted, Uncounted
  <2>5. Cardinality(U) = Cardinality(Unsettled) - Cardinality(D) /\ Cardinality(D) \in Nat
        /\ Cardinality(U) \in Nat
    <3>1. /\ IsFiniteSet(Unsettled \ D)
          /\ Cardinality(Unsettled \ D) = Cardinality(Unsettled) - Cardinality(Unsettled \cap D)
      BY <1>1, FS_Difference
    <3>2. Cardinality(Unsettled \ D) \in Nat /\ Cardinality(D) \in Nat
      BY <2>3, <3>1, FS_CardinalityType
    <3> QED
      BY <2>4, <3>1, <3>2
  <2>6. ToDiscard = 0
    BY <2>2 DEF ToDiscard
  <2>7. CASE M = {} /\ stopper' = "gather" /\ CancelWorkers
    <3>1. worker' = [w \in Workers |-> IF worker[w] = "sending" THEN "cancelled" ELSE "off"]
      BY <2>7 DEF CancelWorkers
    <3>2. F = {}
      BY <1>4, <3>1 DEF Finishing
    <3>3. Cardinality(F) = 0 /\ ToDiscard' = 0
      BY <2>7, <3>2, FS_EmptySet DEF ToDiscard
    <3> QED
      BY <1>1, <1>2, <1>3, <1>5, <2>2, <2>4, <2>5, <2>6, <3>3
  <2>8. CASE M # {} /\ stopper' = "discard" /\ worker' = worker
    <3>1. F = Finishing /\ ToDiscard' = Cardinality(D)
      BY <1>4, <2>2, <2>3, <2>8 DEF Finishing, ToDiscard
    <3> QED
      BY <1>1, <1>2, <1>3, <1>5, <2>2, <2>4, <2>5, <2>6, <3>1
  <2> QED
    BY <2>2, <2>7, <2>8
<1>15. CASE Discarded
  <2>1. /\ stopper = "discard" /\ stopper' = "gather" /\ UNCHANGED <<publishing, settled>>
        /\ completions' = IF completions > discarded THEN completions - discarded ELSE 0
        /\ worker' = [w \in Workers |-> IF worker[w] = "sending" THEN "cancelled" ELSE "off"]
    BY <1>15 DEF Discarded
  <2>2. F = {}
    BY <1>4, <2>1 DEF Finishing
  <2>3. Cardinality(F) = 0 /\ ToDiscard' = 0 /\ ToDiscard = discarded
    BY <2>1, <2>2, FS_EmptySet DEF ToDiscard
  <2>4. U = Unsettled /\ A = Uncounted
    BY <1>4, <2>1 DEF Unsettled, Accepted, Uncounted
  <2>5. completions' >= completions - discarded /\ completions' \in Nat
    BY <1>2, <2>1
  <2> QED
    BY <1>1, <1>2, <1>3, <1>5, <2>3, <2>4, <2>5
<1> QED
  BY <1>6, <1>7, <1>8, <1>9, <1>10, <1>11, <1>12, <1>13, <1>14, <1>15 DEF PyNext

LEMMA PyInvariant == PySpec => []PyInv
<1>1. PyInv /\ [PyNext]_pyVars => PyInv'
  BY PyTypesStep, HoldStep, EnqueuesStep, CoverStep DEF PyInv
<1> QED
  BY <1>1, InitPy, PTL DEF PySpec

\* With both counters at zero everything that was accepted is settled.
LEMMA ZeroMeansSettled ==
    ASSUME PyInv, enqueues = 0, completions = 0
    PROVE  Accepted \subseteq settled
<1>1. /\ IsFiniteSet(Unsettled) /\ IsFiniteSet(Entered) /\ Cardinality(Unsettled) \in Nat
      /\ Cardinality(Finishing) \in Nat /\ ToDiscard \in Nat
  BY FiniteSets, ToDiscardType DEF SetsFinite, PyInv
<1>2. Cardinality(Entered) = 0
  BY DEF PyInv, EnqueuesCounted
<1>3. Entered = {}
  BY <1>1, <1>2, FS_EmptySet
<1>4. Uncounted = {}
  BY <1>3 DEF Entered, Uncounted
<1>5. Cardinality(Uncounted) = 0
  BY <1>4, FS_EmptySet
<1>6. Cardinality(Unsettled) = 0
  BY <1>1, <1>5 DEF PyInv, CompletionsCover
<1>7. Unsettled = {}
  BY <1>1, <1>6, FS_EmptySet
<1> QED
  BY <1>7 DEF Unsettled

\* A flush that succeeds means that all accepted messages have been sent, failed
\* or discarded, whatever order completions and acceptances are counted in.
THEOREM FlushSettles == PySpec => FlushMeansSettled
<1>1. PyInv /\ [PyNext]_pyVars =>
        [\A f \in Waiting :
           flush[f] # "ok" /\ flush'[f] = "ok" =>
             \A c \in Calls : publishing[c] \in {"accept", "leave", "ok"} => c \in settled]_pyVars
  <2> SUFFICES ASSUME PyInv, PyNext, NEW f \in Waiting, flush[f] # "ok", flush'[f] = "ok"
               PROVE  Accepted \subseteq settled
    BY DEF Accepted, pyVars
  <2>1. flush \in [Waiting -> {"no", "lock", "wait", "woken", "ok", "error", "late"}]
    BY DEF PyInv, QueueTypes
  <2>2. flush' # flush /\ flush' # Woken
    BY <2>1 DEF Woken
  <2>3. ASSUME NEW g \in Waiting, FlushChecks(g) PROVE enqueues = 0 /\ completions = 0
    <3>1. PICK outcome \in Checked : flush' = [flush EXCEPT ![g] = outcome]
      BY <2>3 DEF FlushChecks
    <3>2. outcome = "ok"
      BY <2>1, <3>1
    <3> QED
      BY <3>2 DEF Checked
  <2>4. ASSUME NEW g \in Waiting, CallFlush(g) \/ FlushWakes(g) \/ FlushTimesOut(g) PROVE FALSE
    BY <2>1, <2>4 DEF CallFlush, FlushWakes, FlushTimesOut
  <2>5. ASSUME StopDraining PROVE FALSE
    BY <2>1, <2>5 DEF StopDraining, Waiting
  <2>6. ASSUME NEW c \in Calls, Publish(c) \/ Enter(c) \/ Accept(c) \/ Leave(c) PROVE FALSE
    BY <2>2, <2>6 DEF Publish, Enter, Accept, Leave
  <2>7. ASSUME NEW w \in Workers, Take(w) \/ Sent(w) \/ Completed(w) \/ Aborts(w) PROVE FALSE
    BY <2>2, <2>7 DEF Take, Sent, Completed, Aborts
  <2>8. ASSUME Connect \/ PutSentinel \/ StopDiscarding \/ Discarded \/ StopEnds PROVE FALSE
    BY <2>2, <2>8 DEF Connect, PutSentinel, StopDiscarding, Discarded, StopEnds
  <2>9. enqueues = 0 /\ completions = 0
    BY <2>3, <2>4, <2>5, <2>6, <2>7, <2>8 DEF PyNext
  <2> QED
    BY <2>9, ZeroMeansSettled
<1> QED
  BY <1>1, PyInvariant, PTL DEF PySpec, FlushMeansSettled

=============================================================================
