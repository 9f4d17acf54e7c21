----------------------------- MODULE ApiRequests ------------------------------
(***************************************************************************)
(* HTTP requests of an API proxy across a change of ownership (uns-api     *)
(* app.ts and uns-api-plugin.ts): admission by the ownership gate, reads   *)
(* that outlive their reader, drain before the release is reported.        *)
(*                                                                         *)
(* Handlers and clients are external.  A handler declares its work as a    *)
(* read or not; one that does not sends its answer when its work is done.  *)
(***************************************************************************)
EXTENDS FiniteSets

CONSTANT Requests

VARIABLES
    owned,          \* the gate of createApiProxy()
    accepted,       \* acceptedRequests
    response,       \* by request: "none", "refused", "open", "finished", "closed"
    readOnly,       \* requests declared as reads
    atWork,         \* handlers at work
    workSettled,    \* AcceptedRequest.workSettled
    requestFailed,
    drain           \* "no", "waiting", "done" or "failed"

requestVars == <<owned, accepted, response, readOnly, atWork, workSettled,
                 requestFailed, drain>>

RequestsTypeOK ==
    /\ owned \in BOOLEAN /\ requestFailed \in BOOLEAN
    /\ response \in [Requests -> {"none", "refused", "open", "finished", "closed"}]
    /\ drain \in {"no", "waiting", "done", "failed"}
    /\ \A s \in {accepted, readOnly, atWork, workSettled} : s \subseteq Requests

RequestsInit ==
    /\ owned \in BOOLEAN
    /\ response = [r \in Requests |-> "none"]
    /\ accepted = {} /\ readOnly = {} /\ atWork = {} /\ workSettled = {}
    /\ requestFailed = FALSE /\ drain = "no"

Admit(r) ==
    /\ response[r] = "none" /\ owned
    /\ response' = [response EXCEPT ![r] = "open"]
    /\ accepted' = accepted \cup {r} /\ workSettled' = workSettled \cup {r}
    /\ atWork' = atWork \cup {r}
    /\ UNCHANGED <<owned, readOnly, requestFailed, drain>>

\* 503 RUNTIME_PASSIVE
Refuse(r) ==
    /\ response[r] = "none" /\ ~owned
    /\ response' = [response EXCEPT ![r] = "refused"]
    /\ UNCHANGED <<owned, accepted, readOnly, atWork, workSettled, requestFailed, drain>>

\* runReadOnlyRequest(): once, and before the response ends.
Declare(r) ==
    /\ response[r] = "open" /\ r \in atWork /\ r \notin readOnly
    /\ readOnly' = readOnly \cup {r} /\ workSettled' = workSettled \ {r}
    /\ UNCHANGED <<owned, accepted, response, atWork, requestFailed, drain>>

Ended(r) == response[r] \in {"finished", "closed"}

ReadSettles(r) ==
    /\ r \in atWork /\ r \in readOnly
    /\ atWork' = atWork \ {r} /\ workSettled' = workSettled \cup {r}
    /\ accepted' = IF Ended(r) THEN accepted \ {r} ELSE accepted
    /\ UNCHANGED <<owned, response, readOnly, requestFailed, drain>>

\* Fault: the end of the transport is taken for the end of the work.
CompleteAtEnd(r) == accepted \ {r}

CompleteIfSettled(r) == IF r \in workSettled THEN accepted \ {r} ELSE accepted

\* endTransport() for "finish": an early answer of a read, or the end of the work.
Finish(r) ==
    /\ response[r] = "open"
    /\ response' = [response EXCEPT ![r] = "finished"]
    /\ accepted' = CompleteIfSettled(r)
    /\ atWork' = IF r \in readOnly THEN atWork ELSE atWork \ {r}
    /\ UNCHANGED <<owned, readOnly, workSettled, requestFailed, drain>>

\* endTransport() for "close": the reader has gone and the handler goes on.
Disconnect(r) ==
    /\ response[r] = "open"
    /\ response' = [response EXCEPT ![r] = "closed"]
    /\ accepted' = CompleteIfSettled(r)
    /\ requestFailed' = (requestFailed \/ r \notin readOnly)
    /\ UNCHANGED <<owned, readOnly, atWork, workSettled, drain>>

\* An undeclared handler whose reader has gone comes to its end unseen.
WorkEnds(r) ==
    /\ r \in atWork \ readOnly /\ response[r] = "closed"
    /\ atWork' = atWork \ {r}
    /\ UNCHANGED <<owned, accepted, response, readOnly, workSettled, requestFailed, drain>>

-----------------------------------------------------------------------------
\* onRelease() and drain(), in this order, by a hand-over or by a shutdown.
Release ==
    /\ drain # "waiting"
    /\ owned' = FALSE /\ drain' = "waiting"
    /\ UNCHANGED <<accepted, response, readOnly, atWork, workSettled, requestFailed>>

\* drainRequests(): the gate is closed, so nothing joins what it waits for.
DrainEnds ==
    /\ drain = "waiting" /\ accepted = {}
    /\ drain' = IF requestFailed THEN "failed" ELSE "done"
    /\ UNCHANGED <<owned, accepted, response, readOnly, atWork, workSettled,
                   requestFailed>>

\* onActivate(): a standby, or an owner that has given the ownership back.
Activate ==
    /\ ~owned /\ drain # "waiting"
    /\ owned' = TRUE /\ drain' = "no"
    /\ UNCHANGED <<accepted, response, readOnly, atWork, workSettled, requestFailed>>

RequestsNext ==
    \/ \E r \in Requests :
         Admit(r) \/ Refuse(r) \/ Declare(r) \/ ReadSettles(r) \/ Finish(r)
         \/ Disconnect(r) \/ WorkEnds(r)
    \/ Release \/ DrainEnds \/ Activate

RequestsSpec == RequestsInit /\ [][RequestsNext]_requestVars

-----------------------------------------------------------------------------
\* A drain that has succeeded leaves no handler at work, and every request that
\* might have changed something was answered in full.
DrainIsTrue ==
    drain = "done" =>
        /\ atWork = {}
        /\ \A r \in Requests \ readOnly : response[r] # "closed"

\* Who works is accepted, or the drain has been told that it cannot succeed.
WorkIsTracked ==
    /\ \A r \in atWork : r \in accepted \/ requestFailed
    /\ \A r \in Requests \ readOnly : response[r] = "closed" => requestFailed
    /\ \A r \in Requests : response[r] \in {"none", "refused"} => r \notin atWork \cup readOnly
    /\ \A r \in Requests : r \in workSettled /\ r \in readOnly => r \notin atWork
    /\ \A r \in Requests : response[r] = "open" => r \in accepted
    /\ drain \in {"waiting", "done"} => ~owned
    /\ drain = "done" => accepted = {} /\ ~requestFailed

RequestsInv == RequestsTypeOK /\ WorkIsTracked /\ DrainIsTrue
=============================================================================
