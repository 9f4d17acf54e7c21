-------------------------------- MODULE Gateway --------------------------------
(***************************************************************************)
(* The gRPC gateway (uns-gateway-server.ts): its MQTT proxies are created  *)
(* by the first call that needs them, while the process makes active, once, *)
(* the proxies it has when ACTIVE_TIMEOUT ends (instance mode "force", no  *)
(* other process of that name).  A proxy is known by the call that created *)
(* it.  Left out: the HTTP side, and the broker's session, which two       *)
(* proxies of one kind take from each other because they share a client id. *)
(***************************************************************************)
CONSTANTS
    Publishes, Subscribes, Readies,   \* the client's calls; Ready waits for the input
    NoProxy

GatewayCalls == Publishes \cup Subscribes \cup Readies
Kinds == {"output", "input"}
Needs(c) == IF c \in Publishes THEN "output" ELSE "input"

VARIABLES
    calls,      \* of each call: new, ensure (waits in ensureMqtt...), and its outcome
    created,    \* the proxies of the process, by creating call
    proxyOf,    \* mqttOutput, mqttInput: the proxy the gateway uses
    promotion,  \* of the process: none, timer, done
    promoted,   \* proxies that were made active
    flag,       \* outPublisherActive, inSubscriberActive
    queuedAt,   \* of each Publish: the proxy in whose queue its message is
    delivered,  \* publications that have left
    listens,    \* of each Subscribe: the proxy its handler listens to
    reached,    \* subscriptions that got the broker's message
    early       \* History: the proxies created before the process became active

proxyVars == <<created, proxyOf, promotion, promoted, early>>
gatewayVars == <<calls, proxyVars, flag, queuedAt, delivered, listens, reached>>

GatewayInit ==
    /\ calls = [c \in GatewayCalls |-> "new"]
    /\ created = {} /\ promoted = {} /\ delivered = {} /\ reached = {} /\ early = {}
    /\ proxyOf = [k \in Kinds |-> NoProxy]
    /\ promotion = "none"
    /\ flag = [k \in Kinds |-> FALSE]
    /\ queuedAt = [c \in Publishes |-> NoProxy]
    /\ listens = [c \in Subscribes |-> NoProxy]

\* What a call does once there is a proxy for it.  publishMqttMessage() accepts
\* a message into the queue of a passive proxy too.
CallUses(c, proxies) ==
    /\ calls' = [calls EXCEPT ![c] = IF c \in Readies THEN "polls" ELSE "ok"]
    /\ queuedAt' =
         IF c \in Publishes THEN [queuedAt EXCEPT ![c] = proxies["output"]] ELSE queuedAt
    /\ listens' =
         IF c \in Subscribes THEN [listens EXCEPT ![c] = proxies["input"]] ELSE listens

CallBegins(c) ==
    /\ calls[c] = "new"
    /\ IF proxyOf[Needs(c)] = NoProxy
         THEN calls' = [calls EXCEPT ![c] = "ensure"] /\ UNCHANGED <<queuedAt, listens>>
         ELSE CallUses(c, proxyOf)
    /\ UNCHANGED <<proxyVars, flag, delivered, reached>>

\* The waits of ensureMqttOutput()/ensureMqttInput() are over.  Nothing looks
\* again whether another call has created the proxy meanwhile.  The first proxy
\* of the process starts the timer of its HandoverManager.
ProxyCreated(c) ==
    /\ calls[c] = "ensure"
    /\ created' = created \cup {c}
    /\ proxyOf' = [proxyOf EXCEPT ![Needs(c)] = c]
    /\ promotion' = IF promotion = "none" THEN "timer" ELSE promotion
    /\ early' = IF promotion = "done" THEN early ELSE early \cup {c}
    /\ CallUses(c, proxyOf')
    /\ UNCHANGED <<promoted, flag, delivered, reached>>

\* Fault: only the proxies the gateway still refers to are made active.
PromoteReferred ==
    /\ promotion = "timer"
    /\ promotion' = "done"
    /\ promoted' = {proxyOf[k] : k \in Kinds} \ {NoProxy}
    /\ UNCHANGED <<calls, created, proxyOf, flag, queuedAt, delivered, listens, reached, early>>

\* ACTIVE_TIMEOUT: every proxy the process has now becomes active.
Promote ==
    /\ promotion = "timer"
    /\ promotion' = "done"
    /\ promoted' = created
    /\ UNCHANGED <<calls, created, proxyOf, flag, queuedAt, delivered, listens, reached, early>>

\* The periodic status of a proxy, heard by the listener attached to it.
ProxyStatus(p) ==
    /\ p \in created
    /\ flag' = [flag EXCEPT ![Needs(p)] = p \in promoted]
    /\ UNCHANGED <<calls, proxyVars, queuedAt, delivered, listens, reached>>

\* An active proxy sends what is in its queue.
QueueSent(c) ==
    /\ queuedAt[c] \in promoted
    /\ delivered' = delivered \cup {c}
    /\ UNCHANGED <<calls, proxyVars, flag, queuedAt, listens, reached>>

\* The broker has a message for the topics: an active input proxy emits it.
StreamHears(c) ==
    /\ listens[c] \in promoted
    /\ reached' = reached \cup {c}
    /\ UNCHANGED <<calls, proxyVars, flag, queuedAt, delivered, listens>>

\* ready(): the flag of the kind it waits for, or its time-out.
ReadyPolls(c) ==
    /\ calls[c] = "polls"
    /\ \/ flag["input"] /\ calls' = [calls EXCEPT ![c] = "ok"]
       \/ ~flag["input"] /\ calls' = [calls EXCEPT ![c] = "late"]
    /\ UNCHANGED <<proxyVars, flag, queuedAt, delivered, listens, reached>>

\* The client leaves its stream: the handler is taken off the current input.
StreamLeaves(c) ==
    /\ listens[c] # NoProxy
    /\ calls[c] = "ok"
    /\ calls' = [calls EXCEPT ![c] = "left"]
    /\ listens' = [listens EXCEPT ![c] = IF @ = proxyOf["input"] THEN NoProxy ELSE @]
    /\ UNCHANGED <<proxyVars, flag, queuedAt, delivered, reached>>

GatewayNext ==
    \/ \E c \in GatewayCalls : CallBegins(c) \/ ProxyCreated(c)
    \/ Promote
    \/ \E p \in created : ProxyStatus(p)
    \/ \E c \in Publishes : QueueSent(c)
    \/ \E c \in Subscribes : StreamHears(c) \/ StreamLeaves(c)
    \/ \E c \in Readies : ReadyPolls(c)

\* Timers fire, statuses are sent, active queues are worked off.
GatewayFairness ==
    /\ WF_gatewayVars(Promote)
    /\ \A c \in GatewayCalls : WF_gatewayVars(ProxyCreated(c)) /\ WF_gatewayVars(ProxyStatus(c))
    /\ \A c \in Publishes : WF_gatewayVars(QueueSent(c))
    /\ \A c \in Subscribes : WF_gatewayVars(StreamHears(c))
    /\ \A c \in Readies : WF_gatewayVars(ReadyPolls(c))

GatewaySpec == GatewayInit /\ [][GatewayNext]_gatewayVars /\ GatewayFairness

-----------------------------------------------------------------------------

\* A process that becomes active opens every proxy it has, also one that a
\* concurrent call has replaced: what is published through it leaves, and a
\* stream that listens to it hears the broker.
EarlyProxiesServe ==
    <>[](/\ \A c \in Publishes : queuedAt[c] \in early => c \in delivered
         /\ \A c \in Subscribes : listens[c] \in early => c \in reached \/ calls[c] = "left")

\* What the Python examples rely on (data_transformer.py: a message received
\* from the gateway is transformed and republished): an accepted publication
\* is sent in the end.
PublishedIsSent == \A c \in Publishes : calls[c] = "ok" ~> c \in delivered
=============================================================================
