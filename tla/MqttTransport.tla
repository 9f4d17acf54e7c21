----------------------------- MODULE MqttTransport -----------------------------
(***************************************************************************)
(* One MqttProxy (uns-mqtt/mqtt-proxy.ts) with its SubscriptionReadiness,  *)
(* the mqtt.js clients it creates one after the other, and the broker's    *)
(* session of the connection that is up.  Its users are the MQTT worker    *)
(* (closePublisher, drainSubscriberInput, subscribeAsync) and the outbox,  *)
(* whose expired publishConfirmed() retires the client and starts another. *)
(*                                                                         *)
(* The client library and the broker are external: packets reach the       *)
(* broker in order, acknowledgements return in any order, both die with    *)
(* their connection (clean sessions).  The number of a packet stands for   *)
(* its messageId and for the revision sent() gives each of its filters.    *)
(***************************************************************************)
EXTENDS Naturals, Sequences, FiniteSets

CONSTANTS
    Filters,
    Topics,        \* mqttSubToTopics
    Resubscribe,   \* mqttParameters.resubscribe # false
    MaxClients,    \* bound: clients created by start()
    MaxDrops,      \* bound: connections that are lost
    MaxRejects,    \* bound: filters the broker refuses
    MaxPackets     \* bound: packets sent for calls of the application

ASSUME MqttTransportAssumption ==
    /\ Topics \subseteq Filters /\ Topics # {} /\ Resubscribe \in BOOLEAN
    /\ MaxClients \in Nat \ {0}
    /\ MaxDrops \in Nat /\ MaxRejects \in Nat /\ MaxPackets \in Nat

Clients == 1..MaxClients

VARIABLES
    client,     \* state of each mqtt.js client, and the filters it resubscribes
    current,    \* mqttClient
    armed,      \* startupResolve and startupReject are set
    settled,    \* startupSettled
    isConnected,
    readiness,  \* connected, filters and pending of SubscriptionReadiness
    sequence,   \* packets sent
    toBroker,   \* packets on their way to the broker, oldest first
    acks,       \* acknowledgements on their way back
    session,    \* filters the broker delivers on the connection that is up
    attempt,    \* the outbox's publishConfirmed(): "idle" | "sending" | "stopping"
    closing,    \* closePublisher: "no" | "stopping" | "closed"
    pause,      \* pauseSubscriptions(): "no" | "sent" | "failed" | "paused"
    wanted,     \* history: what the application is subscribed to
    drops, rejects

link == <<toBroker, acks, session>>
proxy == <<current, armed, settled, isConnected>>
vars == <<client, proxy, readiness, sequence, link, attempt, closing, pause,
          wanted, drops, rejects>>

Absent == [rev |-> 0, acknowledged |-> FALSE]

Up == client[current].st = "up"

TypeOK ==
    /\ client \in [Clients -> [st: {"none", "connecting", "up", "lost", "ending", "ended"},
                               first: BOOLEAN, resub: SUBSET Filters]]
    /\ current \in Clients
    /\ armed \in BOOLEAN /\ settled \in BOOLEAN /\ isConnected \in BOOLEAN
    /\ readiness.connected \in BOOLEAN
    /\ readiness.filters \in [Filters -> [rev: Nat, acknowledged: BOOLEAN]]
    /\ \A p \in readiness.pending : p.id \in 1..sequence /\ p.filters \subseteq Filters
    /\ session \subseteq Filters /\ wanted \subseteq Filters
    /\ attempt \in {"idle", "sending", "stopping"}
    /\ closing \in {"no", "stopping", "closed"}
    /\ pause \in {"no", "sent", "failed", "paused"}

-----------------------------------------------------------------------------
(* SubscriptionReadiness.                                                  *)

\* An UNSUBSCRIBE, of the application or of pauseSubscriptions().
Removes(p) == p.cmd # "subscribe"

NoFilters == [f \in Filters |-> Absent]

\* Fault: a lost connection leaves its unanswered packets pending.
DisconnectedKeepsPending(r) == [r EXCEPT !.connected = FALSE, !.filters = NoFilters]

\* connection(false)
Disconnected(r) == [connected |-> FALSE, filters |-> NoFilters, pending |-> {}]

sent(r, p) ==
    [r EXCEPT !.filters = [f \in Filters |->
                 IF f \in p.filters THEN [rev |-> p.id, acknowledged |-> FALSE] ELSE @[f]],
              !.pending = @ \cup {p}]

\* Fault: an acknowledgement is applied to filters replaced since.
GovernsAll(r, p) == p.filters

\* The filters of p that no later packet has replaced.
Governs(r, p) == {f \in p.filters : r.filters[f].rev = p.id}

received(r, p, granted) ==
    [r EXCEPT !.filters = [f \in Filters |->
                 IF f \notin Governs(r, p) THEN @[f]
                 ELSE IF Removes(p) /\ f \in granted THEN Absent
                 ELSE [rev |-> p.id, acknowledged |-> f \in granted /\ ~Removes(p)]],
              !.pending = @ \ {p}]

handoverReady ==
    /\ readiness.connected
    /\ readiness.pending = {}
    /\ \A f \in Filters :
         readiness.filters[f].rev # 0 => readiness.filters[f].acknowledged

\* The last packet sent for a filter decides what the broker holds.
Known == {f \in Filters : readiness.filters[f].rev # 0}

-----------------------------------------------------------------------------
Init ==
    /\ client = [c \in Clients |-> [st |-> IF c = 1 THEN "connecting" ELSE "none",
                                    first |-> TRUE, resub |-> {}]]
    /\ current = 1 /\ armed = TRUE /\ settled = FALSE /\ isConnected = FALSE
    /\ readiness = [connected |-> FALSE, filters |-> NoFilters, pending |-> {}]
    /\ sequence = 0
    /\ toBroker = <<>> /\ acks = {} /\ session = {}
    /\ attempt = "idle" /\ closing = "no" /\ pause = "no"
    /\ wanted = Topics
    /\ drops = 0 /\ rejects = 0

Packet(cmd, fs) == [id |-> sequence + 1, cmd |-> cmd, filters |-> fs]

\* The connection is gone: its packets, acknowledgements and session with it.
LinkDown == toBroker' = <<>> /\ acks' = {} /\ session' = {}

\* An UNSUBSCRIBE without its acknowledgement fails with the connection.
PauseFails == pause' = IF pause = "sent" THEN "failed" ELSE pause

\* What a "connect" event makes the client or handleMqttConnect() subscribe to.
ToSubscribe(c) ==
    IF ~client[c].first /\ Resubscribe THEN client[c].resub
    ELSE IF armed THEN Topics ELSE {}

\* The "connect" event: mqtt.js resubscribes, then handleMqttConnect() runs.
Connect(c) ==
    LET fs == ToSubscribe(c)
        p == Packet("subscribe", fs)
        r == [readiness EXCEPT !.connected = @ \/ armed]
    IN
    /\ client[c].st = "connecting"
    /\ client' = [client EXCEPT ![c] = [st |-> "up", first |-> FALSE,
                    resub |-> IF Resubscribe THEN @.resub \cup fs ELSE {}]]
    /\ settled' = (settled \/ armed)
    /\ isConnected' = (isConnected \/ armed)
    /\ IF fs = {} THEN readiness' = r /\ UNCHANGED <<sequence, toBroker>>
       ELSE /\ readiness' = sent(r, p)
            /\ sequence' = sequence + 1
            /\ toBroker' = <<p>>
    /\ wanted' = IF Resubscribe THEN wanted ELSE Topics
    /\ UNCHANGED <<current, armed, acks, session, attempt, closing, pause, drops, rejects>>

\* The connection breaks; the proxy learns of it with the next event.
Drop(c) ==
    /\ client[c].st = "up" /\ drops < MaxDrops
    /\ drops' = drops + 1
    /\ client' = [client EXCEPT ![c].st = "lost"]
    /\ LinkDown
    /\ UNCHANGED <<proxy, readiness, sequence, attempt, closing, pause, wanted, rejects>>

\* The events "error", "close", "offline" and "disconnect"; the client retries.
ConnectionLost(c) ==
    /\ client[c].st = "lost"
    /\ client' = [client EXCEPT ![c].st = "connecting"]
    /\ isConnected' = FALSE
    /\ readiness' = Disconnected(readiness)
    /\ PauseFails
    /\ UNCHANGED <<current, armed, settled, sequence, link, attempt, closing,
                   wanted, drops, rejects>>

-----------------------------------------------------------------------------
(* Subscriptions.                                                          *)

Send(p) ==
    /\ readiness' = sent(readiness, p)
    /\ sequence' = sequence + 1
    /\ toBroker' = Append(toBroker, p)

\* subscribeAsync(): the library skips a filter it will resubscribe anyway.
SubscribeAsync(f) ==
    /\ Up /\ closing = "no" /\ pause = "no"
    /\ sequence < MaxPackets
    /\ f \notin client[current].resub
    /\ Send(Packet("subscribe", {f}))
    /\ client' = [client EXCEPT ![current].resub = IF Resubscribe THEN @ \cup {f} ELSE @]
    /\ wanted' = wanted \cup {f}
    /\ UNCHANGED <<proxy, acks, session, attempt, closing, pause, drops, rejects>>

Unsubscribe(cmd, fs) ==
    /\ Up /\ closing = "no" /\ pause = "no"
    /\ sequence < MaxPackets
    /\ Send(Packet(cmd, fs))
    /\ client' = [client EXCEPT ![current].resub = @ \ fs]
    /\ wanted' = wanted \ fs
    /\ UNCHANGED <<proxy, acks, session, attempt, closing, drops, rejects>>

UnsubscribeAsync(f) == Unsubscribe("unsubscribe", {f}) /\ UNCHANGED pause

pauseSubscriptions == Unsubscribe("pause", Topics) /\ pause' = "sent"

\* The broker serves the oldest packet; it may refuse filters.
BrokerServes ==
    /\ toBroker # <<>>
    /\ \E granted \in SUBSET Head(toBroker).filters :
      LET p == Head(toBroker) IN
      /\ granted = p.filters \/ rejects < MaxRejects
      /\ rejects' = IF granted = p.filters THEN rejects ELSE rejects + 1
      /\ session' = IF Removes(p) THEN session \ granted
                    ELSE (session \ p.filters) \cup granted
      /\ acks' = acks \cup {[packet |-> p, granted |-> granted]}
      /\ toBroker' = Tail(toBroker)
      /\ UNCHANGED <<client, proxy, readiness, sequence, attempt, closing, pause, wanted, drops>>

\* A SUBACK or UNSUBACK: the library forgets refused filters, pause settles.
ReceiveAck(a) ==
    LET p == a.packet IN
    /\ acks' = acks \ {a}
    /\ readiness' = IF p \in readiness.pending
                    THEN received(readiness, p, a.granted) ELSE readiness
    /\ client' = IF Removes(p) THEN client
                 ELSE [client EXCEPT ![current].resub = @ \ (p.filters \ a.granted)]
    /\ wanted' = IF Removes(p) THEN wanted ELSE wanted \ (p.filters \ a.granted)
    /\ pause' = IF p.cmd # "pause" THEN pause
                ELSE IF a.granted = p.filters THEN "paused" ELSE "failed"
    /\ UNCHANGED <<proxy, sequence, toBroker, session, attempt, closing, drops, rejects>>

-----------------------------------------------------------------------------
(* stop() and the outbox's attempts.                                       *)

\* resetState() in the callback of end()
ResetState ==
    /\ isConnected' = FALSE
    /\ readiness' = Disconnected(readiness)

\* start(): a new client
Start(cs) ==
    /\ current < MaxClients
    /\ current' = current + 1
    /\ client' = [cs EXCEPT ![current + 1].st = "connecting"]
    /\ armed' = TRUE /\ settled' = FALSE

Ending == client[current].st \in {"ending", "ended"}

\* end(): forced, the connection is destroyed and its close comes later.
End ==
    /\ ~Ending
    /\ client' = [client EXCEPT ![current].st = "ending"]
    /\ LinkDown
    /\ UNCHANGED <<proxy, readiness>>

PublishBegins ==
    /\ attempt = "idle" /\ closing # "closed"
    /\ attempt' = "sending"
    /\ UNCHANGED <<client, proxy, readiness, sequence, link, closing, pause, wanted,
                   drops, rejects>>

\* Acknowledged, or failed because the client stayed disconnected.
PublishSettles ==
    /\ attempt = "sending"
    /\ attempt' = "idle"
    /\ UNCHANGED <<client, proxy, readiness, sequence, link, closing, pause, wanted,
                   drops, rejects>>

\* Fault: the time-out starts a client without ending the one it has.
PublishRestarts ==
    /\ attempt = "sending"
    /\ ResetState
    /\ Start(client)
    /\ attempt' = "idle"
    /\ wanted' = Topics
    /\ UNCHANGED <<link, pause, sequence, closing, drops, rejects>>

\* The time-out of publishConfirmed(): stop(), and start() once it has ended.
PublishTimesOut ==
    /\ attempt = "sending" /\ current < MaxClients
    /\ \/ /\ End
          /\ attempt' = "stopping"
          /\ PauseFails
          /\ UNCHANGED wanted
       \/ /\ Ending   \* the library calls back at once
          /\ ResetState
          /\ Start(client)
          /\ attempt' = "idle"
          /\ wanted' = Topics
          /\ UNCHANGED <<link, pause>>
    /\ UNCHANGED <<sequence, closing, drops, rejects>>

\* closePublisher's stop({force: true})
Close ==
    /\ closing = "no"
    /\ \/ /\ End
          /\ closing' = "stopping"
          /\ PauseFails
       \/ /\ Ending
          /\ ResetState
          /\ armed' = FALSE /\ settled' = FALSE
          /\ closing' = "closed"
          /\ UNCHANGED <<client, current, link, pause>>
    /\ UNCHANGED <<sequence, attempt, wanted, drops, rejects>>

\* The events "close" and "end" of a client, then the callback of its first end().
Ended(c) ==
    LET cs == [client EXCEPT ![c].st = "ended"] IN
    /\ client[c].st = "ending"
    /\ ResetState
    /\ \/ /\ attempt = "stopping"
          /\ Start(cs)
          /\ attempt' = "idle"
          /\ wanted' = Topics
          /\ UNCHANGED closing
       \/ /\ attempt # "stopping"
          /\ closing' = IF closing = "stopping" THEN "closed" ELSE closing
          /\ client' = cs
          /\ armed' = FALSE /\ settled' = FALSE
          /\ UNCHANGED <<current, attempt, wanted>>
    /\ UNCHANGED <<sequence, link, pause, drops, rejects>>

Library == \/ \E c \in Clients : Connect(c) \/ ConnectionLost(c) \/ Ended(c)
           \/ BrokerServes
           \/ \E a \in acks : ReceiveAck(a)

Next ==
    \/ Library
    \/ \E c \in Clients : Drop(c)
    \/ \E f \in Filters : SubscribeAsync(f) \/ UnsubscribeAsync(f)
    \/ pauseSubscriptions
    \/ PublishBegins \/ PublishSettles \/ PublishTimesOut
    \/ Close

Spec == Init /\ [][Next]_vars

FairSpec == Spec /\ WF_vars(Library)

-----------------------------------------------------------------------------
(* Properties.                                                             *)

\* A handover review, and the readiness the process reports, rest on
\* handoverReady(): when it holds, the broker holds exactly the filters the
\* proxy knows of, and every filter the application is subscribed to, whatever
\* acknowledgements are late, refused or lost with a connection.
ReadyMeansHeld ==
    handoverReady /\ Up => session = Known /\ wanted \subseteq session

\* All clients of a proxy share one clientId: two that connect at once would take
\* the broker's session from each other.  stop() and start() never leave two.
OneClient ==
    Cardinality({c \in Clients : client[c].st \in {"connecting", "up", "lost"}}) <= 1

\* Unless its publisher is being closed, a proxy whose connections stop breaking
\* becomes connected, with all its subscriptions answered, and stays so.
StableMeansReady ==
    <>[](closing # "no" \/ (isConnected /\ readiness.connected /\ readiness.pending = {}))

\* The comment of pauseSubscriptions(): it stops "broker admission before
\* draining already received application input".
PauseHolds == pause = "paused" => session \cap Topics = {}

=============================================================================
