----------------------------- MODULE ProcessProofs -----------------------------
(***************************************************************************)
(* Theorems about what a process does about its broker and about its       *)
(* peers, for every set of filters and of processes and every bound: it    *)
(* has one client at a time, what it reports as ready is what the broker   *)
(* holds, and the processes of a service have one owner among them.        *)
(***************************************************************************)
EXTENDS MqttTransport, Ownership, SequenceLemmas

USE DEF link, proxy

-----------------------------------------------------------------------------
(* Types.                                                                  *)

Packets == [id : Nat \ {0}, cmd : {"subscribe", "unsubscribe", "pause"},
            filters : SUBSET Filters]
Answers == [packet : Packets, granted : SUBSET Filters]
Readinesses == [connected : BOOLEAN, filters : [Filters -> [rev : Nat, acknowledged : BOOLEAN]],
                pending : SUBSET Packets]
ClientStates == [st : {"none", "connecting", "up", "lost", "ending", "ended"},
                 first : BOOLEAN, resub : SUBSET Filters]

TransportTypes ==
    /\ client \in [Clients -> ClientStates] /\ current \in Clients
    /\ armed \in BOOLEAN /\ settled \in BOOLEAN /\ isConnected \in BOOLEAN
    /\ readiness \in Readinesses /\ \A p \in readiness.pending : p.id \in 1..sequence
    /\ sequence \in Nat /\ toBroker \in Seq(Packets) /\ acks \subseteq Answers
    /\ session \subseteq Filters /\ wanted \subseteq Filters
    /\ attempt \in {"idle", "sending", "stopping"}
    /\ closing \in {"no", "stopping", "closed"}
    /\ pause \in {"no", "sent", "failed", "paused"}

LEMMA DisconnectedType ==
    ASSUME NEW r
    PROVE  /\ Disconnected(r) \in Readinesses /\ ~Disconnected(r).connected
           /\ Disconnected(r).filters = NoFilters /\ Disconnected(r).pending = {}
           /\ \A f \in Filters : NoFilters[f] = [rev |-> 0, acknowledged |-> FALSE]
BY DEF Disconnected, Readinesses, NoFilters, Absent

\* What sent() changes.
LEMMA SentEffect ==
    ASSUME NEW r \in Readinesses, NEW p \in Packets
    PROVE  /\ sent(r, p) \in Readinesses
           /\ sent(r, p).connected = r.connected
           /\ sent(r, p).pending = r.pending \cup {p}
           /\ \A f \in Filters : sent(r, p).filters[f] =
                IF f \in p.filters THEN [rev |-> p.id, acknowledged |-> FALSE]
                ELSE r.filters[f]
BY DEF sent, Readinesses, Packets

\* What received() changes.
LEMMA ReceivedEffect ==
    ASSUME NEW r \in Readinesses, NEW p \in Packets, NEW granted \in SUBSET Filters
    PROVE  /\ received(r, p, granted) \in Readinesses
           /\ received(r, p, granted).connected = r.connected
           /\ received(r, p, granted).pending = r.pending \ {p}
           /\ \A f \in Filters : received(r, p, granted).filters[f] =
                IF f \notin Governs(r, p) THEN r.filters[f]
                ELSE IF Removes(p) /\ f \in granted THEN Absent
                ELSE [rev |-> p.id, acknowledged |-> f \in granted /\ ~Removes(p)]
BY DEF received, Readinesses, Packets, Governs, Absent

LEMMA TransportConstants ==
    /\ Topics \subseteq Filters /\ MaxClients \in Nat \ {0} /\ 1 \in Clients
    /\ \A c \in Clients : c \in Nat /\ (c < MaxClients => c + 1 \in Clients)
BY MqttTransportAssumption DEF Clients

LEMMA TypesInit == Init => TransportTypes
<1> SUFFICES ASSUME Init PROVE TransportTypes
  OBVIOUS
<1>1. client \in [Clients -> ClientStates]
  BY DEF Init, ClientStates
<1>2. readiness \in Readinesses /\ readiness.pending = {}
  BY DEF Init, Readinesses, NoFilters, Absent
<1>3. <<>> \in Seq(Packets)
  BY EmptySeq
<1> QED
  BY <1>1, <1>2, <1>3, TransportConstants DEF Init, TransportTypes

\* A new packet.
LEMMA PacketType ==
    ASSUME TransportTypes, NEW cmd \in {"subscribe", "unsubscribe", "pause"},
           NEW fs \in SUBSET Filters
    PROVE  /\ Packet(cmd, fs) \in Packets /\ Packet(cmd, fs).id = sequence + 1
           /\ Packet(cmd, fs).cmd = cmd /\ Packet(cmd, fs).filters = fs
BY DEF TransportTypes, Packet, Packets

LEMMA TypesStart ==
    ASSUME TransportTypes, NEW cs \in [Clients -> ClientStates], Start(cs)
    PROVE  /\ client' \in [Clients -> ClientStates] /\ current' \in Clients
           /\ armed' \in BOOLEAN /\ settled' \in BOOLEAN
BY TransportConstants DEF TransportTypes, Start, ClientStates

LEMMA TypesStep == TransportTypes /\ [Next]_vars => TransportTypes'
<1> SUFFICES ASSUME TransportTypes, [Next]_vars PROVE TransportTypes'
  OBVIOUS
<1> USE DEF TransportTypes
<1>1. ASSUME NEW c \in Clients, Connect(c) PROVE TransportTypes'
  <2> DEFINE fs == ToSubscribe(c)
             p == Packet("subscribe", fs)
             r == [readiness EXCEPT !.connected = @ \/ armed]
  <2>1. fs \in SUBSET Filters
    BY TransportConstants DEF ToSubscribe, ClientStates
  <2>2. r \in Readinesses /\ r.pending = readiness.pending
    BY DEF Readinesses
  <2>3. p \in Packets /\ p.id = sequence + 1
    BY <2>1, PacketType
  <2>4. client' \in [Clients -> ClientStates] /\ settled' \in BOOLEAN /\ isConnected' \in BOOLEAN
        /\ wanted' \subseteq Filters
    BY <1>1, <2>1, TransportConstants DEF Connect, ClientStates
  <2> HIDE DEF p, r, fs
  <2>5. \/ readiness' = r /\ UNCHANGED <<sequence, toBroker>>
        \/ readiness' = sent(r, p) /\ sequence' = sequence + 1 /\ toBroker' = <<p>>
    BY <1>1 DEF Connect, p, r, fs
  <2>6. /\ readiness' \in Readinesses /\ \A q \in readiness'.pending : q.id \in 1..sequence'
        /\ sequence' \in Nat /\ toBroker' \in Seq(Packets)
    <3>1. CASE readiness' = r /\ UNCHANGED <<sequence, toBroker>>
      BY <2>2, <3>1
    <3>2. CASE readiness' = sent(r, p) /\ sequence' = sequence + 1 /\ toBroker' = <<p>>
      <4>1. readiness' \in Readinesses /\ readiness'.pending = readiness.pending \cup {p}
        BY <2>2, <2>3, <3>2, SentEffect
      <4>2. <<p>> \in Seq(Packets)
        BY <2>3, EmptySeq, AppendProperties
      <4> QED
        BY <2>3, <3>2, <4>1, <4>2
    <3> QED
      BY <2>5, <3>1, <3>2
  <2> QED
    BY <1>1, <2>4, <2>6 DEF Connect
<1>2. ASSUME NEW c \in Clients, Drop(c) \/ ConnectionLost(c) PROVE TransportTypes'
  <2>1. client' \in [Clients -> ClientStates]
    BY <1>2 DEF Drop, ConnectionLost, ClientStates
  <2>2. CASE Drop(c)
    BY <2>1, <2>2, EmptySeq DEF Drop, LinkDown
  <2>3. CASE ConnectionLost(c)
    BY <2>1, <2>3, DisconnectedType DEF ConnectionLost, PauseFails
  <2> QED
    BY <1>2, <2>2, <2>3
\* A packet of the application.
<1>3. ASSUME NEW cmd \in {"subscribe", "unsubscribe", "pause"}, NEW fs \in SUBSET Filters,
             Send(Packet(cmd, fs)), client' \in [Clients -> ClientStates],
             UNCHANGED <<proxy, acks, session, attempt, closing>>,
             wanted' \subseteq Filters, pause' \in {"no", "sent", "failed", "paused"}
      PROVE  TransportTypes'
  <2>1. PICK p : p = Packet(cmd, fs)
    OBVIOUS
  <2>2. p \in Packets /\ p.id = sequence + 1
    BY <2>1, PacketType
  <2>3. readiness' = sent(readiness, p) /\ sequence' = sequence + 1
        /\ toBroker' = Append(toBroker, p)
    BY <1>3, <2>1 DEF Send
  <2>4. readiness' \in Readinesses /\ readiness'.pending = readiness.pending \cup {p}
    BY <2>2, <2>3, SentEffect
  <2>5. toBroker' \in Seq(Packets)
    BY <2>2, <2>3, AppendProperties
  <2>6. sequence' \in Nat /\ \A q \in readiness'.pending : q.id \in 1..sequence'
    BY <2>2, <2>3, <2>4
  <2> QED
    BY <1>3, <2>4, <2>5, <2>6
<1>4. ASSUME NEW f \in Filters, SubscribeAsync(f) PROVE TransportTypes'
  <2>1. client' \in [Clients -> ClientStates]
    BY <1>4 DEF SubscribeAsync, ClientStates
  <2>2. {f} \in SUBSET Filters /\ wanted' \subseteq Filters
        /\ Send(Packet("subscribe", {f}))
        /\ UNCHANGED <<proxy, acks, session, attempt, closing, pause>>
    BY <1>4 DEF SubscribeAsync
  <2> QED
    BY <1>3, <2>1, <2>2
<1>5. ASSUME NEW cmd \in {"unsubscribe", "pause"}, NEW fs \in SUBSET Filters,
             Unsubscribe(cmd, fs), pause' \in {"no", "sent", "failed", "paused"}
      PROVE  TransportTypes'
  <2>1. client' \in [Clients -> ClientStates]
    BY <1>5 DEF Unsubscribe, ClientStates
  <2> QED
    BY <1>3, <1>5, <2>1 DEF Unsubscribe
<1>6. CASE BrokerServes
  <2>1. Head(toBroker) \in Packets /\ Tail(toBroker) \in Seq(Packets)
    BY <1>6, RangeOfTail DEF BrokerServes
  <2>2. PICK granted \in SUBSET Head(toBroker).filters :
          /\ session' = IF Removes(Head(toBroker)) THEN session \ granted
                        ELSE (session \ Head(toBroker).filters) \cup granted
          /\ acks' = acks \cup {[packet |-> Head(toBroker), granted |-> granted]}
    BY <1>6 DEF BrokerServes
  <2>3. session' \subseteq Filters /\ acks' \subseteq Answers
    BY <2>1, <2>2 DEF Packets, Answers
  <2>4. toBroker' = Tail(toBroker)
        /\ UNCHANGED <<client, proxy, readiness, sequence, attempt, closing, pause, wanted>>
    BY <1>6 DEF BrokerServes
  <2> QED
    BY <2>1, <2>3, <2>4
<1>7. ASSUME NEW a \in acks, ReceiveAck(a) PROVE TransportTypes'
  <2>1. a.packet \in Packets /\ a.granted \in SUBSET Filters
    BY DEF Answers
  <2>2. client' \in [Clients -> ClientStates]
    BY <1>7 DEF ReceiveAck, ClientStates
  <2>3. readiness' \in Readinesses /\ readiness'.pending \subseteq readiness.pending
    <3>1. readiness' = received(readiness, a.packet, a.granted) \/ readiness' = readiness
      BY <1>7 DEF ReceiveAck
    <3> QED
      BY <2>1, <3>1, ReceivedEffect
  <2>4. wanted' \subseteq Filters /\ pause' \in {"no", "sent", "failed", "paused"}
    BY <1>7 DEF ReceiveAck
  <2>5. acks' \subseteq Answers
    BY <1>7 DEF ReceiveAck
  <2> QED
    BY <1>7, <2>2, <2>3, <2>4, <2>5 DEF ReceiveAck
<1>8. CASE PublishBegins \/ PublishSettles
  BY <1>8 DEF PublishBegins, PublishSettles
<1>9. ASSUME End PROVE client' \in [Clients -> ClientStates] /\ UNCHANGED <<proxy, readiness>>
                       /\ toBroker' = <<>> /\ acks' = {} /\ session' = {}
  BY <1>9 DEF End, LinkDown, ClientStates
<1>10. ASSUME ResetState PROVE isConnected' = FALSE /\ readiness' \in Readinesses
                               /\ readiness'.pending = {}
  BY <1>10, DisconnectedType DEF ResetState
<1>11. CASE PublishTimesOut
  <2>1. CASE End /\ attempt' = "stopping" /\ PauseFails /\ UNCHANGED wanted
    BY <1>9, <1>11, <2>1, EmptySeq DEF PublishTimesOut, PauseFails
  <2>2. CASE ResetState /\ Start(client) /\ attempt' = "idle" /\ wanted' = Topics
             /\ UNCHANGED <<link, pause>>
    BY <1>10, <1>11, <2>2, TypesStart, TransportConstants DEF PublishTimesOut
  <2> QED
    BY <1>11, <2>1, <2>2 DEF PublishTimesOut
<1>12. CASE Close
  <2>1. CASE End /\ closing' = "stopping" /\ PauseFails
    BY <1>9, <1>12, <2>1, EmptySeq DEF Close, PauseFails
  <2>2. CASE ResetState /\ armed' = FALSE /\ settled' = FALSE /\ closing' = "closed"
             /\ UNCHANGED <<client, current, link, pause>>
    BY <1>10, <1>12, <2>2 DEF Close
  <2> QED
    BY <1>12, <2>1, <2>2 DEF Close
<1>13. ASSUME NEW c \in Clients, Ended(c) PROVE TransportTypes'
  <2>1. PICK cs : cs = [client EXCEPT ![c].st = "ended"]
    OBVIOUS
  <2>2. cs \in [Clients -> ClientStates]
    BY <2>1 DEF ClientStates
  <2>3. CASE Start(cs) /\ attempt' = "idle" /\ wanted' = Topics /\ UNCHANGED closing
    BY <1>10, <1>13, <2>2, <2>3, TypesStart, TransportConstants DEF Ended
  <2>4. CASE /\ closing' = IF closing = "stopping" THEN "closed" ELSE closing
             /\ client' = cs /\ armed' = FALSE /\ settled' = FALSE
             /\ UNCHANGED <<current, attempt, wanted>>
    BY <1>10, <1>13, <2>2, <2>4 DEF Ended
  <2> QED
    BY <1>13, <2>1, <2>3, <2>4 DEF Ended
<1>14. CASE UNCHANGED vars
  BY <1>14 DEF vars
<1>15. \A f \in Filters : {f} \in SUBSET Filters
  OBVIOUS
<1>16. CASE pauseSubscriptions \/ \E f \in Filters : UnsubscribeAsync(f)
  BY <1>5, <1>15, <1>16, TransportConstants DEF pauseSubscriptions, UnsubscribeAsync
<1> QED
  BY <1>1, <1>2, <1>4, <1>6, <1>7, <1>8, <1>11, <1>12, <1>13, <1>14, <1>16
  DEF Next, Library

\* Every variable keeps its type; the packets that wait for an answer were sent.
THEOREM TransportTypeCorrect == Spec => []TypeOK
<1>1. TransportTypes => TypeOK
  BY DEF TransportTypes, TypeOK, Readinesses, ClientStates, Packets
<1> QED
  BY <1>1, TypesInit, TypesStep, PTL DEF Spec

-----------------------------------------------------------------------------
(* One client.                                                             *)

\* Only the current client has a connection, or tries to; those before it have
\* been ended, those after it are not created.
ClientsHold ==
    /\ client[current].st # "none"
    /\ \A c \in Clients :
         /\ c < current => client[c].st \in {"ending", "ended"}
         /\ c > current => client[c] = [st |-> "none", first |-> TRUE, resub |-> {}]
    /\ attempt = "stopping" => Ending

\* The client that connects, is up or is lost is the current one.
LEMMA CurrentOnly ==
    ASSUME TransportTypes, ClientsHold, NEW c \in Clients,
           client[c].st \in {"connecting", "up", "lost"}
    PROVE  c = current
<1>1. c \in Nat /\ current \in Nat
  BY TransportConstants DEF TransportTypes
<1>2. ~(c < current) /\ ~(c > current)
  BY DEF ClientsHold
<1> QED
  BY <1>1, <1>2

LEMMA ClientsInit == Init => ClientsHold
<1> SUFFICES ASSUME Init PROVE ClientsHold
  OBVIOUS
<1>1. 1 \in Clients /\ \A c \in Clients : ~(c < 1) /\ (c > 1 => c # 1)
  BY TransportConstants DEF Clients
<1> QED
  BY <1>1 DEF Init, ClientsHold

\* A new client is started when the current one has been ended.
LEMMA ClientsStart ==
    ASSUME TransportTypes, ClientsHold, NEW cs \in [Clients -> ClientStates],
           cs[current].st \in {"ending", "ended"},
           \A c \in Clients : c < current => cs[c].st \in {"ending", "ended"},
           \A c \in Clients : c > current => cs[c] = client[c],
           Start(cs), attempt' = "idle"
    PROVE  ClientsHold' /\ client'[current'].first /\ client'[current'].st = "connecting"
<1>1. /\ current \in Nat /\ current' \in Nat /\ current' \in Clients
      /\ current' = current + 1
      /\ \A c \in Clients : c \in Nat
      /\ client' = [cs EXCEPT ![current'].st = "connecting"]
  BY TransportConstants DEF TransportTypes, Start
<1>2. current' > current
  BY <1>1
<1>3. client'[current'] = [st |-> "connecting", first |-> TRUE, resub |-> {}]
  <2>1. cs[current'] = [st |-> "none", first |-> TRUE, resub |-> {}]
    BY <1>1, <1>2 DEF ClientsHold
  <2>2. PICK n \in Clients : n = current'
    BY <1>1
  <2>3. client'[n] = [cs[n] EXCEPT !.st = "connecting"]
    BY <1>1, <2>2
  <2>4. client'[n] = [[st |-> "none", first |-> TRUE, resub |-> {}] EXCEPT !.st = "connecting"]
    BY <2>1, <2>2, <2>3
  <2>5. client'[n] = [st |-> "connecting", first |-> TRUE, resub |-> {}]
    BY <2>4
  <2> QED
    BY <2>2, <2>5
<1>4. \A c \in Clients : c # current' => client'[c] = cs[c]
  BY <1>1
<1>5. ASSUME NEW c \in Clients, c < current' PROVE client'[c].st \in {"ending", "ended"}
  <2>1. c = current \/ c < current
    BY <1>1, <1>5
  <2>2. c # current'
    BY <1>1, <1>5
  <2> QED
    BY <1>4, <2>1, <2>2
<1>6. ASSUME NEW c \in Clients, c > current'
      PROVE  client'[c] = [st |-> "none", first |-> TRUE, resub |-> {}]
  <2>1. c > current /\ c # current'
    BY <1>1, <1>6
  <2> QED
    BY <1>4, <2>1 DEF ClientsHold
<1> QED
  BY <1>3, <1>5, <1>6 DEF ClientsHold

LEMMA ClientsStep == TransportTypes /\ ClientsHold /\ [Next]_vars => ClientsHold'
<1> SUFFICES ASSUME TransportTypes, ClientsHold, [Next]_vars PROVE ClientsHold'
  OBVIOUS
<1>1. /\ client \in [Clients -> ClientStates] /\ current \in Clients /\ current \in Nat
      /\ \A c \in Clients : c \in Nat
  BY TransportConstants DEF TransportTypes
\* One client changes its state.
<1>2. ASSUME NEW c \in Clients, c <= current, UNCHANGED current,
             \A d \in Clients \ {c} : client'[d] = client[d], client'[c].st # "none",
             client[c].st \in {"ending", "ended"} => client'[c].st \in {"ending", "ended"},
             attempt' = "stopping" => client'[current].st \in {"ending", "ended"}
      PROVE  ClientsHold'
  <2>1. ASSUME NEW d \in Clients
        PROVE  /\ d < current => client'[d].st \in {"ending", "ended"}
               /\ d > current => client'[d] = [st |-> "none", first |-> TRUE, resub |-> {}]
    <3>1. CASE d = c
      BY <1>1, <1>2, <3>1 DEF ClientsHold
    <3>2. CASE d # c
      BY <1>2, <3>2 DEF ClientsHold
    <3> QED
      BY <3>1, <3>2
  <2>2. client'[current].st # "none"
    BY <1>1, <1>2 DEF ClientsHold
  <2> QED
    BY <1>2, <2>1, <2>2 DEF ClientsHold, Ending
<1>3. ASSUME NEW c \in Clients, Connect(c) \/ Drop(c) \/ ConnectionLost(c)
      PROVE  ClientsHold'
  <2>1. c = current /\ client[c].st \notin {"ending", "ended"}
    BY <1>3, CurrentOnly DEF Connect, Drop, ConnectionLost
  <2>2. UNCHANGED <<current, attempt>> /\ attempt # "stopping"
    BY <1>3, <2>1 DEF Connect, Drop, ConnectionLost, ClientsHold, Ending
  <2>3. \A d \in Clients \ {c} : client'[d] = client[d]
    BY <1>1, <1>3 DEF Connect, Drop, ConnectionLost
  <2>4. client'[c].st # "none"
    BY <1>1, <1>3 DEF Connect, Drop, ConnectionLost, ClientStates
  <2> QED
    BY <1>1, <1>2, <2>1, <2>2, <2>3, <2>4
<1>4. ASSUME \A d \in Clients \ {current} : client'[d] = client[d],
             client'[current].st = client[current].st, UNCHANGED <<current, attempt>>
      PROVE  ClientsHold'
  <2>1. attempt' = "stopping" => client'[current].st \in {"ending", "ended"}
    BY <1>4 DEF ClientsHold, Ending
  <2>2. current \in Clients /\ current <= current /\ client'[current].st # "none"
    BY <1>1, <1>4 DEF ClientsHold
  <2> QED
    BY <1>2, <1>4, <2>1, <2>2
<1>5. ASSUME NEW f \in Filters, SubscribeAsync(f) PROVE ClientsHold'
  BY <1>1, <1>4, <1>5 DEF SubscribeAsync, ClientStates
<1>6. ASSUME NEW cmd, NEW fs, Unsubscribe(cmd, fs) PROVE ClientsHold'
  BY <1>1, <1>4, <1>6 DEF Unsubscribe, ClientStates
<1>7. CASE pauseSubscriptions \/ \E f \in Filters : UnsubscribeAsync(f)
  BY <1>6, <1>7 DEF pauseSubscriptions, UnsubscribeAsync
<1>8. CASE BrokerServes
  <2>1. UNCHANGED <<client, current, attempt>>
    BY <1>8 DEF BrokerServes
  <2> QED
    BY <1>4, <2>1
<1>9. ASSUME NEW a \in acks, ReceiveAck(a) PROVE ClientsHold'
  BY <1>1, <1>4, <1>9 DEF ReceiveAck, ClientStates
<1>10. ASSUME PublishBegins \/ PublishSettles PROVE ClientsHold'
  <2>1. UNCHANGED <<client, current>> /\ attempt' # "stopping"
    BY <1>10 DEF PublishBegins, PublishSettles
  <2> QED
    BY <2>1 DEF ClientsHold
<1>11. ASSUME End PROVE ClientsHold'
  <2>1. /\ client' = [client EXCEPT ![current].st = "ending"] /\ UNCHANGED current
    BY <1>11 DEF End
  <2> QED
    BY <1>1, <1>2, <2>1 DEF ClientStates
<1>12. CASE PublishTimesOut
  <2>1. ASSUME Ending, Start(client), attempt' = "idle" PROVE ClientsHold'
    <3>1. /\ client[current].st \in {"ending", "ended"}
          /\ \A c \in Clients : c < current => client[c].st \in {"ending", "ended"}
      BY <2>1 DEF Ending, ClientsHold
    <3> QED
      BY <1>1, <2>1, <3>1, ClientsStart
  <2> QED
    BY <1>11, <1>12, <2>1 DEF PublishTimesOut
<1>13. CASE Close
  <2>1. CASE UNCHANGED <<client, current, attempt>>
    BY <1>4, <2>1
  <2> QED
    BY <1>11, <1>13, <2>1 DEF Close
<1>14. ASSUME NEW c \in Clients, Ended(c) PROVE ClientsHold'
  <2>1. PICK cs : cs = [client EXCEPT ![c].st = "ended"]
    OBVIOUS
  <2>2. /\ cs \in [Clients -> ClientStates] /\ cs[c].st = "ended"
        /\ \A d \in Clients \ {c} : cs[d] = client[d]
    BY <1>1, <2>1 DEF ClientStates
  <2>3. client[c].st = "ending" /\ c <= current
    BY <1>1, <1>14 DEF Ended, ClientsHold
  <2>4. CASE attempt = "stopping" /\ Start(cs) /\ attempt' = "idle"
    <3>1. cs[current].st \in {"ending", "ended"}
      BY <1>1, <2>2, <2>4 DEF ClientsHold, Ending
    <3>2. \A d \in Clients : d < current => cs[d].st \in {"ending", "ended"}
      BY <2>2 DEF ClientsHold
    <3>3. \A d \in Clients : d > current => cs[d] = client[d]
      BY <1>1, <2>2, <2>3
    <3> QED
      BY <2>2, <2>4, <3>1, <3>2, <3>3, ClientsStart
  <2>5. CASE attempt # "stopping" /\ client' = cs /\ UNCHANGED <<current, attempt>>
    BY <1>2, <2>2, <2>3, <2>5
  <2> QED
    BY <1>14, <2>1, <2>4, <2>5 DEF Ended
<1>15. CASE UNCHANGED vars
  BY <1>15 DEF vars, ClientsHold, Ending
<1> QED
  BY <1>3, <1>5, <1>7, <1>8, <1>9, <1>10, <1>12, <1>13, <1>14, <1>15 DEF Next, Library

\* Stopping and starting, in whatever order the library calls back, never leave
\* two clients that could take the broker's session from each other.
THEOREM OneClientAtATime == Spec => []OneClient
<1>1. TransportTypes /\ ClientsHold => OneClient
  <2> SUFFICES ASSUME TransportTypes, ClientsHold PROVE OneClient
    OBVIOUS
  <2> DEFINE S == {c \in Clients : client[c].st \in {"connecting", "up", "lost"}}
  <2>1. S \subseteq {current}
    BY CurrentOnly
  <2>2. IsFiniteSet({current}) /\ Cardinality({current}) = 1
    BY FS_Singleton
  <2>3. Cardinality(S) <= 1
    BY <2>1, <2>2, FS_Subset
  <2> QED
    BY <2>3 DEF OneClient
<1> QED
  BY <1>1, TypesInit, TypesStep, ClientsInit, ClientsStep, PTL DEF Spec
-----------------------------------------------------------------------------
(* What is ready is held.                                                  *)

Revision(f) == readiness.filters[f].rev
Acknowledged(f) == readiness.filters[f].acknowledged

\* A packet on its way to the broker names f.
Waits(f) == \E p \in Range(toBroker) : f \in p.filters

\* Packets are numbered in the order in which they are sent.
Numbered(s) == \A i, j \in 1..Len(s) : i < j => s[i].id < s[j].id

\* What is pending is on its way, to the broker or back, and once.
PacketsHold ==
    /\ readiness.pending = Range(toBroker) \cup {a.packet : a \in acks}
    /\ Numbered(toBroker)
    /\ \A a \in acks :
         /\ a.granted \subseteq a.packet.filters
         /\ \A p \in Range(toBroker) : a.packet.id < p.id
    /\ \A a, b \in acks : a.packet.id = b.packet.id => a = b

\* The newest packet that names a filter governs it: it is on its way to the
\* broker, or its answer is, or its answer has told what the broker holds.
FilterHolds(f) ==
    /\ Revision(f) \in 0..sequence
    /\ Waits(f) =>
         /\ ~Acknowledged(f)
         /\ \E p \in Range(toBroker) :
              /\ f \in p.filters /\ p.id = Revision(f)
              /\ \A q \in Range(toBroker) : f \in q.filters => q.id <= p.id
    /\ ~Waits(f) =>
         /\ Revision(f) = 0 => f \notin session
         /\ Acknowledged(f) => f \in session
         /\ \A a \in acks : a.packet.id = Revision(f) /\ f \in a.granted =>
              (Removes(a.packet) <=> f \notin session)

\* What the application wants was asked for, and not given up since.
WantedHolds(f) ==
    f \in wanted =>
        /\ Revision(f) # 0
        /\ \A p \in readiness.pending : p.id = Revision(f) => ~Removes(p)

Synced == PacketsHold /\ \A f \in Filters : FilterHolds(f) /\ WantedHolds(f)

\* From its first to its last moment, a connection that the proxy knows of.
SyncHolds == Up /\ readiness.connected => Synced

\* Between two connections nothing is on its way, and what the next one will
\* subscribe to holds all that the application wants.
LinkHolds ==
    /\ ~Up => toBroker = <<>> /\ acks = {} /\ session = {}
    /\ client[current].st = "connecting" =>
         readiness.filters = NoFilters /\ readiness.pending = {}
    /\ ~armed => ~readiness.connected
    /\ armed => IF client[current].first THEN wanted = Topics
                ELSE Resubscribe => wanted \subseteq client[current].resub
    /\ client[current].first => ~Up

LEMMA NumberedAppend ==
    ASSUME NEW s \in Seq(Packets), Numbered(s), NEW e \in Packets,
           \A p \in Range(s) : p.id < e.id
    PROVE  Numbered(Append(s, e))
<1>1. /\ Len(s) \in Nat /\ Len(Append(s, e)) = Len(s) + 1
      /\ Append(s, e)[Len(s) + 1] = e
      /\ \A i \in 1..Len(s) : Append(s, e)[i] = s[i]
  BY AppendProperties
<1>2. \A i \in 1..Len(s) : s[i] \in Range(s)
  BY RangeEquality
<1>3. ASSUME NEW i \in 1..Len(Append(s, e)), NEW j \in 1..Len(Append(s, e)), i < j
      PROVE  Append(s, e)[i].id < Append(s, e)[j].id
  <2>1. i \in 1..Len(s)
    BY <1>1, <1>3
  <2>2. CASE j = Len(s) + 1
    BY <1>1, <1>2, <2>1, <2>2
  <2>3. CASE j \in 1..Len(s)
    BY <1>1, <1>3, <2>1, <2>3 DEF Numbered
  <2> QED
    BY <1>1, <2>2, <2>3
<1> QED
  BY <1>3 DEF Numbered

LEMMA NumberedTail ==
    ASSUME NEW s \in Seq(Packets), s # <<>>, Numbered(s)
    PROVE  Numbered(Tail(s)) /\ \A p \in Range(Tail(s)) : Head(s).id < p.id
<1>1. /\ Tail(s) \in Seq(Packets) /\ Len(s) \in Nat \ {0} /\ Len(Tail(s)) = Len(s) - 1
      /\ Head(s) = s[1] /\ \A i \in 1..Len(Tail(s)) : Tail(s)[i] = s[i + 1]
  BY HeadTailProperties, EmptySeq
<1>2. \A i \in 1..Len(Tail(s)) : i + 1 \in 1..Len(s) /\ 1 < i + 1 /\ 1 \in 1..Len(s)
  BY <1>1
<1>3. Numbered(Tail(s))
  BY <1>1, <1>2 DEF Numbered
<1>4. Range(Tail(s)) = {Tail(s)[i] : i \in 1..Len(Tail(s))}
  BY <1>1, RangeEquality
<1>5. \A i \in 1..Len(Tail(s)) : Head(s).id < Tail(s)[i].id
  BY <1>1, <1>2 DEF Numbered
<1> QED
  BY <1>3, <1>4, <1>5

\* A packet is sent: it is newer than all that are on their way.
LEMMA SyncSend ==
    ASSUME TransportTypes, PacketsHold, \A f \in Filters : FilterHolds(f),
           NEW cmd \in {"subscribe", "unsubscribe", "pause"}, NEW fs \in SUBSET Filters,
           NEW r \in Readinesses, r.filters = readiness.filters, r.pending = readiness.pending,
           readiness' = sent(r, Packet(cmd, fs)), sequence' = sequence + 1,
           toBroker' = Append(toBroker, Packet(cmd, fs)), UNCHANGED <<acks, session>>,
           wanted' \subseteq Filters,
           \A f \in wanted' : \/ f \in fs /\ cmd = "subscribe"
                              \/ f \in wanted \ fs /\ WantedHolds(f)
    PROVE  Synced'
<1>1. PICK p : p = Packet(cmd, fs)
  OBVIOUS
<1>2. p \in Packets /\ p.id = sequence + 1 /\ p.cmd = cmd /\ p.filters = fs
  BY <1>1, PacketType
<1>3. /\ sequence \in Nat /\ toBroker \in Seq(Packets) /\ readiness \in Readinesses
      /\ readiness.pending \subseteq Packets /\ \A q \in readiness.pending : q.id \in 1..sequence
  BY DEF TransportTypes, Readinesses
<1>4. /\ readiness'.pending = readiness.pending \cup {p}
      /\ \A f \in Filters : readiness'.filters[f] =
           IF f \in fs THEN [rev |-> p.id, acknowledged |-> FALSE] ELSE readiness.filters[f]
  BY <1>1, <1>2, SentEffect
<1>5. Range(toBroker') = Range(toBroker) \cup {p} /\ toBroker' = Append(toBroker, p)
  BY <1>1, <1>2, <1>3, RangeOfAppend
<1>6. /\ \A q \in Range(toBroker) : q \in readiness.pending
      /\ \A a \in acks : a.packet \in readiness.pending
  BY DEF PacketsHold
<1>7. /\ \A q \in Range(toBroker) : q \in Packets /\ q.id < p.id
      /\ \A a \in acks : a.packet \in Packets /\ a.packet.id < p.id
  BY <1>2, <1>3, <1>6
<1>8. PacketsHold'
  <2>1. Numbered(toBroker')
    BY <1>2, <1>3, <1>5, <1>7, NumberedAppend DEF PacketsHold
  <2>2. \A q \in Range(toBroker') : q \in Range(toBroker) \/ q = p
    BY <1>5
  <2>3. \A a \in acks : /\ a.granted \subseteq a.packet.filters
                        /\ \A q \in Range(toBroker') : a.packet.id < q.id
    BY <1>7, <2>2 DEF PacketsHold
  <2>4. readiness'.pending = Range(toBroker') \cup {a.packet : a \in acks}
    BY <1>4, <1>5 DEF PacketsHold
  <2>5. acks' = acks /\ Numbered(toBroker)' = Numbered(toBroker')
    BY DEF Numbered
  <2> QED
    BY <2>1, <2>3, <2>4, <2>5 DEF PacketsHold
<1>9. ASSUME NEW f \in Filters PROVE FilterHolds(f)'
  <2>1. CASE f \in fs
    <3>1. Revision(f)' = p.id /\ ~Acknowledged(f)'
      BY <1>4, <2>1 DEF Revision, Acknowledged
    <3>2. p \in Range(toBroker') /\ f \in p.filters
      BY <1>2, <1>5, <2>1
    <3>3. \A q \in Range(toBroker') : q.id <= p.id
      BY <1>2, <1>3, <1>5, <1>7 DEF Packets
    <3>4. p.id \in 0..sequence' /\ Waits(f)'
      BY <1>2, <1>3, <3>2 DEF Waits
    <3> QED
      BY <3>1, <3>2, <3>3, <3>4 DEF FilterHolds
  <2>2. CASE f \notin fs
    <3>1. Revision(f)' = Revision(f) /\ Acknowledged(f)' = Acknowledged(f)
      BY <1>4, <2>2 DEF Revision, Acknowledged
    <3>2. \A q \in Range(toBroker') : f \in q.filters => q \in Range(toBroker)
      BY <1>2, <1>5, <2>2
    <3>3. Range(toBroker) \subseteq Range(toBroker')
      BY <1>5
    <3>4. Waits(f)' = Waits(f)
      BY <3>2, <3>3 DEF Waits
    <3>5. Revision(f) \in 0..sequence => Revision(f)' \in 0..sequence'
      BY <1>3, <3>1
    <3> QED
      BY <3>1, <3>2, <3>3, <3>4, <3>5 DEF FilterHolds
  <2> QED
    BY <2>1, <2>2
<1>10. ASSUME NEW f \in Filters, f \in wanted' PROVE WantedHolds(f)'
  <2>1. CASE f \in fs /\ cmd = "subscribe"
    <3>1. Revision(f)' = p.id /\ p.id # 0
      BY <1>2, <1>3, <1>4, <2>1 DEF Revision
    <3>2. \A q \in readiness'.pending : q.id = p.id => q = p
      BY <1>2, <1>3, <1>4
    <3>3. ~Removes(p)
      BY <1>2, <2>1 DEF Removes
    <3>4. \A q \in readiness'.pending : q.id = Revision(f)' => ~Removes(q)
      BY <3>1, <3>2, <3>3
    <3> QED
      BY <3>1, <3>4 DEF WantedHolds
  <2>2. CASE f \in wanted \ fs /\ WantedHolds(f)
    <3>1. Revision(f)' = Revision(f) /\ Revision(f) \in 0..sequence
      BY <1>4, <2>2 DEF Revision, FilterHolds
    <3>2. \A q \in readiness'.pending : q.id = Revision(f) => q \in readiness.pending
      BY <1>2, <1>3, <1>4, <3>1
    <3>3. \A q \in readiness'.pending : q.id = Revision(f)' => ~Removes(q)
      BY <2>2, <3>1, <3>2 DEF WantedHolds
    <3> QED
      BY <2>2, <3>1, <3>3 DEF WantedHolds
  <2> QED
    BY <1>10, <2>1, <2>2
<1>11. \A f \in Filters : WantedHolds(f)'
  BY <1>10 DEF WantedHolds
<1> QED
  BY <1>8, <1>9, <1>11 DEF Synced

\* The broker serves the oldest packet: its answer is on its way back.
LEMMA SyncServe ==
    ASSUME TransportTypes, Synced, BrokerServes
    PROVE  Synced'
<1>1. PICK p : p = Head(toBroker)
  OBVIOUS
<1>2. PICK granted \in SUBSET p.filters :
        /\ session' = IF Removes(p) THEN session \ granted
                      ELSE (session \ p.filters) \cup granted
        /\ acks' = acks \cup {[packet |-> p, granted |-> granted]}
        /\ toBroker' = Tail(toBroker)
        /\ UNCHANGED <<readiness, sequence, wanted>>
  BY <1>1 DEF BrokerServes
<1>3. toBroker # <<>> /\ toBroker \in Seq(Packets) /\ Numbered(toBroker)
      /\ readiness.pending = Range(toBroker) \cup {a.packet : a \in acks}
  BY DEF BrokerServes, TransportTypes, Synced, PacketsHold
<1>4. /\ Range(toBroker) = {p} \cup Range(toBroker')
      /\ Numbered(toBroker') /\ \A q \in Range(toBroker') : p.id < q.id
  BY <1>1, <1>2, <1>3, RangeOfTail, NumberedTail
<1>5. PICK b : b = [packet |-> p, granted |-> granted]
  OBVIOUS
<1>6. b.packet = p /\ b.granted = granted /\ acks' = acks \cup {b}
  BY <1>2, <1>5
<1>7. /\ \A a \in acks : a.granted \subseteq a.packet.filters
      /\ \A a \in acks : \A q \in Range(toBroker) : a.packet.id < q.id
      /\ \A a, c \in acks : a.packet.id = c.packet.id => a = c
  BY DEF Synced, PacketsHold
<1>8. /\ \A q \in Range(toBroker) : q.id \in Nat \ {0}
      /\ p.id \in Nat \ {0} /\ \A a \in acks : a.packet.id < p.id /\ a.packet.id # p.id
      /\ \A a \in acks : a.packet.id \in Nat
  <2>1. \A q \in readiness.pending : q.id \in Nat \ {0}
    BY DEF TransportTypes, Readinesses, Packets
  <2> QED
    BY <1>3, <1>4, <1>7, <2>1
<1>9. PacketsHold'
  <2>1. readiness'.pending = Range(toBroker') \cup {a.packet : a \in acks'}
    BY <1>2, <1>3, <1>4, <1>6
  <2>2. \A a \in acks' : a.granted \subseteq a.packet.filters
    BY <1>6, <1>7
  <2>3. \A a \in acks' : \A q \in Range(toBroker') : a.packet.id < q.id
    BY <1>4, <1>6, <1>7
  <2>4. \A a, c \in acks' : a.packet.id = c.packet.id => a = c
    BY <1>6, <1>7, <1>8
  <2>5. Numbered(toBroker)'
    BY <1>4 DEF Numbered
  <2> QED
    BY <2>1, <2>2, <2>3, <2>4, <2>5 DEF PacketsHold
<1>10. ASSUME NEW f \in Filters PROVE FilterHolds(f)'
  <2>1. FilterHolds(f) /\ Revision(f)' = Revision(f) /\ Acknowledged(f)' = Acknowledged(f)
    BY <1>2 DEF Synced, Revision, Acknowledged
  <2>2. Revision(f)' \in 0..sequence'
    BY <1>2, <2>1 DEF FilterHolds
  <2>3. CASE Waits(f)'
    <3>1. PICK q \in Range(toBroker') : f \in q.filters
      BY <2>3 DEF Waits
    <3>2. Waits(f) /\ q \in Range(toBroker)
      BY <1>4, <3>1 DEF Waits
    <3>3. PICK w \in Range(toBroker) :
            /\ f \in w.filters /\ w.id = Revision(f)
            /\ \A v \in Range(toBroker) : f \in v.filters => v.id <= w.id
      BY <2>1, <3>2 DEF FilterHolds
    <3>4. q.id <= w.id /\ p.id < q.id
      BY <1>4, <3>1, <3>2, <3>3
    <3>5. w # p
      BY <1>8, <3>2, <3>4
    <3>6. w \in Range(toBroker') /\ Range(toBroker') \subseteq Range(toBroker)
      BY <1>4, <3>5
    <3>7. ~Acknowledged(f)
      BY <2>1, <3>2 DEF FilterHolds
    <3> QED
      BY <2>1, <2>2, <2>3, <3>3, <3>6, <3>7 DEF FilterHolds
  <2>4. CASE ~Waits(f)' /\ f \in p.filters
    <3>1. Waits(f)
      BY <1>4, <2>4 DEF Waits
    <3>2. \A q \in Range(toBroker) : f \in q.filters => q = p
      BY <1>4, <2>4 DEF Waits
    <3>3. Revision(f) = p.id /\ ~Acknowledged(f)
      BY <2>1, <3>1, <3>2 DEF FilterHolds
    <3>4. \A a \in acks' : a.packet.id = Revision(f) => a = b
      BY <1>6, <1>8, <3>3
    <3>5. f \in granted => (Removes(p) <=> f \notin session')
      BY <1>2
    <3>6. \A a \in acks' : a.packet.id = Revision(f) /\ f \in a.granted =>
             (Removes(a.packet) <=> f \notin session')
      BY <1>6, <3>4, <3>5
    <3>7. Revision(f) # 0
      BY <1>8, <3>3
    <3> QED
      BY <2>1, <2>2, <2>4, <3>3, <3>6, <3>7 DEF FilterHolds, Removes
  <2>5. CASE ~Waits(f)' /\ f \notin p.filters
    <3>1. ~Waits(f)
      BY <1>4, <2>5 DEF Waits
    <3>2. f \in session' <=> f \in session
      BY <1>2, <2>5
    <3>3. \A a \in acks' : f \in a.granted => a \in acks
      BY <1>2, <1>6, <2>5
    <3>4. \A a \in acks' : a.packet.id = Revision(f) /\ f \in a.granted =>
             (Removes(a.packet) <=> f \notin session')
      BY <2>1, <3>1, <3>2, <3>3 DEF FilterHolds
    <3>5. /\ Revision(f) = 0 => f \notin session'
          /\ Acknowledged(f) => f \in session'
      BY <2>1, <3>1, <3>2 DEF FilterHolds
    <3> QED
      BY <2>1, <2>2, <2>5, <3>4, <3>5 DEF FilterHolds, Removes
  <2> QED
    BY <2>3, <2>4, <2>5
<1>11. \A f \in Filters : WantedHolds(f)'
  BY <1>2 DEF Synced, WantedHolds, Revision, Removes
<1> QED
  BY <1>9, <1>10, <1>11 DEF Synced

\* An answer arrives: it decides the filters that no later packet names.
LEMMA SyncAck ==
    ASSUME TransportTypes, Synced, NEW a \in acks, ReceiveAck(a)
    PROVE  Synced'
<1>1. PICK p : p = a.packet
  OBVIOUS
<1>2. /\ p \in readiness.pending /\ p \in Packets /\ a.granted \in SUBSET Filters
      /\ readiness \in Readinesses /\ a.granted \subseteq p.filters
  BY <1>1 DEF Synced, PacketsHold, TransportTypes, Readinesses, Answers
<1>3. /\ readiness' = received(readiness, p, a.granted) /\ acks' = acks \ {a}
      /\ UNCHANGED <<toBroker, session, sequence>>
      /\ wanted' \subseteq wanted
  BY <1>1, <1>2 DEF ReceiveAck
<1>4. /\ readiness'.pending = readiness.pending \ {p}
      /\ \A f \in Filters : readiness'.filters[f] =
           IF f \notin Governs(readiness, p) THEN readiness.filters[f]
           ELSE IF Removes(p) /\ f \in a.granted THEN Absent
           ELSE [rev |-> p.id, acknowledged |-> f \in a.granted /\ ~Removes(p)]
  BY <1>2, <1>3, ReceivedEffect
<1>5. /\ readiness.pending = Range(toBroker) \cup {b.packet : b \in acks}
      /\ \A b \in acks : b.granted \subseteq b.packet.filters
      /\ \A b \in acks : \A q \in Range(toBroker) : b.packet.id < q.id
      /\ \A b, c \in acks : b.packet.id = c.packet.id => b = c
  BY DEF Synced, PacketsHold
<1>6. \A q \in readiness.pending : q.id \in Nat \ {0}
  BY DEF TransportTypes, Readinesses, Packets
<1>7. p \notin Range(toBroker) /\ \A b \in acks' : b.packet # p
  BY <1>1, <1>2, <1>3, <1>5, <1>6
<1>8. PacketsHold'
  <2>1. readiness'.pending = Range(toBroker) \cup {b.packet : b \in acks'}
    BY <1>1, <1>3, <1>4, <1>5, <1>7
  <2>2. /\ \A b \in acks' : b.granted \subseteq b.packet.filters
        /\ \A b \in acks' : \A q \in Range(toBroker) : b.packet.id < q.id
        /\ \A b, c \in acks' : b.packet.id = c.packet.id => b = c
    BY <1>3, <1>5
  <2>3. Numbered(toBroker)'
    BY <1>3 DEF Synced, PacketsHold, Numbered
  <2> QED
    BY <1>3, <2>1, <2>2, <2>3 DEF PacketsHold
<1>9. \A b \in acks' : b.packet.id \in Nat \ {0}
  BY <1>3, <1>5, <1>6
<1>10. ASSUME NEW f \in Filters PROVE FilterHolds(f)' /\ WantedHolds(f)'
  <2>1. FilterHolds(f) /\ WantedHolds(f) /\ Waits(f)' = Waits(f)
    BY <1>3 DEF Synced, Waits
  <2>2. CASE f \notin Governs(readiness, p)
    <3>1. Revision(f)' = Revision(f) /\ Acknowledged(f)' = Acknowledged(f)
      BY <1>4, <2>2 DEF Revision, Acknowledged
    <3>2. FilterHolds(f)'
      BY <1>3, <2>1, <3>1 DEF FilterHolds, Removes
    <3>3. WantedHolds(f)'
      BY <1>3, <1>4, <2>1, <3>1 DEF WantedHolds, Removes
    <3> QED
      BY <3>2, <3>3
  <2>3. CASE f \in Governs(readiness, p)
    <3>1. Revision(f) = p.id /\ f \in p.filters
      BY <2>3 DEF Governs, Revision
    <3>2. ~Waits(f)
      <4> SUFFICES ASSUME Waits(f) PROVE FALSE
        OBVIOUS
      <4>1. PICK q \in Range(toBroker) : q.id = p.id
        BY <2>1, <3>1 DEF FilterHolds
      <4> QED
        BY <1>1, <1>2, <1>5, <1>6, <4>1
    <3>3. f \in a.granted => (Removes(p) <=> f \notin session)
      BY <1>1, <2>1, <3>1, <3>2 DEF FilterHolds
    <3>4. CASE Removes(p) /\ f \in a.granted
      <4>1. Revision(f)' = 0 /\ ~Acknowledged(f)' /\ f \notin session'
        BY <1>3, <1>4, <2>3, <3>3, <3>4 DEF Revision, Acknowledged, Absent
      <4>2. 0 \in 0..sequence'
        BY <1>3 DEF TransportTypes
      <4>3. FilterHolds(f)'
        BY <1>9, <2>1, <3>2, <4>1, <4>2 DEF FilterHolds
      <4>4. f \notin wanted'
        BY <1>2, <1>3, <2>1, <3>1, <3>4 DEF WantedHolds
      <4> QED
        BY <4>3, <4>4 DEF WantedHolds
    <3>5. CASE ~(Removes(p) /\ f \in a.granted)
      <4>7. PICK b : b = (f \in a.granted /\ ~Removes(p))
        OBVIOUS
      <4>8. readiness'.filters[f] = [rev |-> p.id, acknowledged |-> b]
        BY <1>4, <2>3, <3>5, <4>7
      <4>9. Revision(f)' = p.id /\ Acknowledged(f)' = b
        BY <4>8 DEF Revision, Acknowledged
      <4>1. Revision(f)' = p.id /\ (Acknowledged(f)' => f \in a.granted /\ ~Removes(p))
        BY <4>7, <4>9
      <4>2. Acknowledged(f)' => f \in session'
        BY <1>3, <3>3, <4>1
      <4>3. Revision(f)' = Revision(f) /\ Revision(f) \in 0..sequence' /\ p.id # 0
        BY <1>2, <1>3, <1>6, <2>1, <3>1, <4>1 DEF FilterHolds
      <4>4. \A c \in acks' : c.packet.id = Revision(f)' /\ f \in c.granted =>
              (Removes(c.packet) <=> f \notin session')
        BY <1>3, <2>1, <3>2, <4>3 DEF FilterHolds
      <4>5. FilterHolds(f)'
        BY <2>1, <3>1, <3>2, <4>2, <4>3, <4>4 DEF FilterHolds, Removes
      <4>6. WantedHolds(f)'
        BY <1>3, <1>4, <2>1, <4>1, <4>3 DEF WantedHolds, Removes
      <4> QED
        BY <4>5, <4>6
    <3> QED
      BY <3>4, <3>5
  <2> QED
    BY <2>2, <2>3
<1> QED
  BY <1>8, <1>10 DEF Synced

LEMMA LinkInit == Init => LinkHolds /\ SyncHolds
<1> SUFFICES ASSUME Init PROVE LinkHolds /\ SyncHolds
  OBVIOUS
<1>1. client[current] = [st |-> "connecting", first |-> TRUE, resub |-> {}]
  BY TransportConstants DEF Init
<1>2. ~Up
  BY <1>1 DEF Up
<1> QED
  BY <1>1, <1>2 DEF Init, LinkHolds, SyncHolds

\* After start() the new client is about to connect, and nothing is known.
LEMMA LinkStart ==
    ASSUME TransportTypes, ClientsHold, LinkHolds, NEW cs \in [Clients -> ClientStates],
           cs[current].st \in {"ending", "ended"}, ~Up,
           \A c \in Clients : c < current => cs[c].st \in {"ending", "ended"},
           \A c \in Clients : c > current => cs[c] = client[c],
           Start(cs), ResetState, attempt' = "idle", wanted' = Topics, UNCHANGED link
    PROVE  LinkHolds' /\ ~Up'
<1>1. client'[current'].first /\ client'[current'].st = "connecting"
  BY ClientsStart
<1>2. readiness'.filters = NoFilters /\ readiness'.pending = {} /\ armed'
  BY DisconnectedType DEF ResetState, Start
<1> QED
  BY <1>1, <1>2 DEF LinkHolds, Up

LEMMA EndEffect ==
    ASSUME TransportTypes, End
    PROVE  /\ ~Up' /\ client'[current'].st = "ending"
           /\ client'[current'].first = client[current].first
           /\ client'[current'].resub = client[current].resub
           /\ toBroker' = <<>> /\ acks' = {} /\ session' = {}
           /\ UNCHANGED <<current, armed, readiness>>
BY DEF TransportTypes, End, LinkDown, Up, ClientStates

\* The callback of end() can start the next client: none is connected.
LEMMA CallbackClients ==
    ASSUME TransportTypes, ClientsHold, NEW c \in Clients, client[c].st = "ending",
           NEW cs \in [Clients -> ClientStates], cs[c].st = "ended",
           \A d \in Clients \ {c} : cs[d] = client[d]
    PROVE  /\ attempt = "stopping" => cs[current].st \in {"ending", "ended"} /\ ~Up
           /\ \A d \in Clients : d < current => cs[d].st \in {"ending", "ended"}
           /\ \A d \in Clients : d > current => cs[d] = client[d]
<1>1. /\ current \in Clients /\ current \in Nat /\ \A d \in Clients : d \in Nat
      /\ ~(c > current)
  BY TransportConstants DEF TransportTypes, ClientsHold
<1>2. attempt = "stopping" => cs[current].st \in {"ending", "ended"} /\ ~Up
  BY <1>1 DEF ClientsHold, Ending, Up
<1> QED
  BY <1>1, <1>2 DEF ClientsHold

LEMMA LinkStep ==
    TransportTypes /\ ClientsHold /\ LinkHolds /\ SyncHolds /\ [Next]_vars
      => LinkHolds' /\ SyncHolds'
<1> SUFFICES ASSUME TransportTypes, ClientsHold, LinkHolds, SyncHolds, [Next]_vars
             PROVE  LinkHolds' /\ SyncHolds'
  OBVIOUS
<1>1. /\ client \in [Clients -> ClientStates] /\ current \in Clients
      /\ readiness \in Readinesses /\ sequence \in Nat /\ wanted \subseteq Filters
  BY DEF TransportTypes
<1>2. ASSUME NEW c \in Clients, Connect(c) PROVE LinkHolds' /\ SyncHolds'
  <2>1. c = current /\ client[c].st = "connecting" /\ ~Up
    BY <1>2, CurrentOnly DEF Connect, Up
  <2>2. /\ toBroker = <<>> /\ acks = {} /\ session = {}
        /\ readiness.filters = NoFilters /\ readiness.pending = {}
    BY <2>1 DEF LinkHolds
  <2>3. PICK fs : fs = ToSubscribe(c)
    OBVIOUS
  <2>4. fs \in SUBSET Filters
    BY <1>1, <2>3, TransportConstants DEF ToSubscribe, ClientStates
  <2>5. PICK p : p = Packet("subscribe", fs)
    OBVIOUS
  <2>6. PICK r : r = [readiness EXCEPT !.connected = @ \/ armed]
    OBVIOUS
  <2>7. /\ r \in Readinesses /\ r.filters = readiness.filters /\ r.pending = readiness.pending
        /\ r.connected = (readiness.connected \/ armed)
    BY <1>1, <2>6 DEF Readinesses
  <2>8. p \in Packets /\ p.id = sequence + 1 /\ p.filters = fs
    BY <2>4, <2>5, PacketType
  <2>9. \/ fs = {} /\ readiness' = r /\ UNCHANGED <<sequence, toBroker>>
        \/ readiness' = sent(r, p) /\ sequence' = sequence + 1 /\ toBroker' = <<p>>
    BY <1>2, <2>3, <2>5, <2>6 DEF Connect
  <2>10. /\ client'[current].st = "up" /\ ~client'[current].first
         /\ Resubscribe => client'[current].resub = client[current].resub \cup fs
         /\ wanted' = (IF Resubscribe THEN wanted ELSE Topics)
         /\ UNCHANGED <<current, armed, acks, session>>
    BY <1>1, <1>2, <2>1, <2>3 DEF Connect, ClientStates
  <2>11. readiness'.connected = r.connected
    <3>1. sent(r, p).connected = r.connected
      BY <2>7, <2>8, SentEffect
    <3> QED
      BY <2>9, <3>1
  <2>12. ~armed' => ~readiness'.connected
    BY <2>7, <2>10, <2>11 DEF LinkHolds
  <2>13. armed => wanted' \subseteq fs
    BY <2>1, <2>3, <2>10 DEF LinkHolds, ToSubscribe
  <2>14. LinkHolds'
    BY <2>10, <2>12, <2>13 DEF LinkHolds, Up
  <2>15. ASSUME readiness'.connected PROVE Synced'
    <3>1. armed /\ wanted' \subseteq fs
      BY <2>10, <2>12, <2>13, <2>15
    <3>2. Range(<<>>) = {}
      BY EmptySeq DEF Range
    <3>3. PacketsHold
      BY <2>2, <3>2 DEF PacketsHold, Numbered
    <3>4. \A f \in Filters : Revision(f) = 0 /\ ~Acknowledged(f)
      BY <2>2 DEF Revision, Acknowledged, NoFilters, Absent
    <3>5. \A f \in Filters : FilterHolds(f)
      BY <1>1, <2>2, <3>2, <3>4 DEF FilterHolds, Waits
    <3>6. CASE fs = {} /\ readiness' = r /\ UNCHANGED <<sequence, toBroker>>
      <4>1. readiness'.pending = readiness.pending /\ readiness'.filters = readiness.filters
        BY <2>7, <3>6
      <4>2. PacketsHold'
        BY <2>2, <2>10, <3>2, <3>3, <3>6, <4>1 DEF PacketsHold, Numbered
      <4>3. ASSUME NEW f \in Filters PROVE FilterHolds(f)' /\ WantedHolds(f)'
        <5>1. Revision(f)' = 0 /\ ~Acknowledged(f)' /\ ~Waits(f)' /\ f \notin wanted'
          BY <2>2, <3>1, <3>2, <3>4, <3>6, <4>1 DEF Revision, Acknowledged, Waits
        <5>2. 0 \in 0..sequence' /\ acks' = {} /\ session' = {}
          BY <1>1, <2>2, <2>10, <3>6
        <5> QED
          BY <5>1, <5>2 DEF FilterHolds, WantedHolds
      <4> QED
        BY <4>2, <4>3 DEF Synced
    <3>7. CASE readiness' = sent(r, p) /\ sequence' = sequence + 1 /\ toBroker' = <<p>>
      <4>1. toBroker' = Append(toBroker, p)
        BY <2>2, <3>7
      <4>2. wanted' \subseteq Filters
        BY <2>4, <3>1
      <4> QED
        BY <2>4, <2>5, <2>7, <2>10, <3>1, <3>3, <3>5, <3>7, <4>1, <4>2, SyncSend
    <3> QED
      BY <2>9, <3>6, <3>7
  <2> QED
    BY <2>14, <2>15 DEF SyncHolds
<1>3. ASSUME NEW c \in Clients, Drop(c) PROVE LinkHolds' /\ SyncHolds'
  <2>1. c = current /\ Up
    BY <1>3, CurrentOnly DEF Drop, Up
  <2>2. /\ client'[current].st = "lost" /\ client'[current].first = client[current].first
        /\ client'[current].resub = client[current].resub
        /\ UNCHANGED <<current, armed, readiness, wanted>>
        /\ toBroker' = <<>> /\ acks' = {} /\ session' = {}
    BY <1>1, <1>3, <2>1 DEF Drop, LinkDown, ClientStates
  <2> QED
    BY <2>1, <2>2 DEF LinkHolds, SyncHolds, Up
<1>4. ASSUME NEW c \in Clients, ConnectionLost(c) PROVE LinkHolds' /\ SyncHolds'
  <2>1. c = current /\ ~Up
    BY <1>4, CurrentOnly DEF ConnectionLost, Up
  <2>2. /\ client'[current].st = "connecting" /\ client'[current].first = client[current].first
        /\ client'[current].resub = client[current].resub
        /\ UNCHANGED <<current, armed, wanted, toBroker, acks, session>>
    BY <1>1, <1>4, <2>1 DEF ConnectionLost, ClientStates
  <2>3. /\ ~readiness'.connected /\ readiness'.filters = NoFilters /\ readiness'.pending = {}
    BY <1>4, DisconnectedType DEF ConnectionLost
  <2> QED
    BY <2>1, <2>2, <2>3 DEF LinkHolds, SyncHolds, Up
<1>5. ASSUME NEW f \in Filters, SubscribeAsync(f) PROVE LinkHolds' /\ SyncHolds'
  <2>1. Up /\ Up' /\ ~client'[current].first /\ UNCHANGED <<current, armed, acks, session>>
    BY <1>1, <1>5 DEF SubscribeAsync, Up, LinkHolds, ClientStates
  <2>2. /\ {f} \in SUBSET Filters /\ wanted' = wanted \cup {f} /\ wanted' \subseteq Filters
        /\ readiness' = sent(readiness, Packet("subscribe", {f}))
        /\ sequence' = sequence + 1
        /\ toBroker' = Append(toBroker, Packet("subscribe", {f}))
    BY <1>1, <1>5 DEF SubscribeAsync, Send
  <2>3. Resubscribe => client'[current].resub = client[current].resub \cup {f}
    BY <1>1, <1>5 DEF SubscribeAsync, ClientStates
  <2>4. readiness'.connected = readiness.connected
    <3>1. PICK p : p = Packet("subscribe", {f})
      OBVIOUS
    <3>2. p \in Packets
      BY <2>2, <3>1, PacketType
    <3>3. sent(readiness, p).connected = readiness.connected
      BY <1>1, <3>2, SentEffect
    <3> QED
      BY <2>2, <3>1, <3>3
  <2>5. LinkHolds'
    <3>1. ~client[current].first /\ client'[current].st = "up"
      BY <2>1 DEF Up, LinkHolds
    <3> QED
      BY <2>1, <2>2, <2>3, <2>4, <3>1 DEF LinkHolds, Up
  <2>6. ASSUME readiness.connected PROVE Synced'
    <3>1. PacketsHold /\ \A g \in Filters : FilterHolds(g) /\ WantedHolds(g)
      BY <2>1, <2>6 DEF SyncHolds, Synced
    <3>2. \A g \in wanted' : g \in {f} \/ (g \in wanted \ {f} /\ WantedHolds(g))
      BY <2>2, <3>1
    <3> QED
      BY <1>1, <2>1, <2>2, <3>1, <3>2, SyncSend
  <2> QED
    BY <2>4, <2>5, <2>6 DEF SyncHolds
<1>6. ASSUME NEW cmd \in {"unsubscribe", "pause"}, NEW fs \in SUBSET Filters,
             Unsubscribe(cmd, fs)
      PROVE  LinkHolds' /\ SyncHolds'
  <2>1. Up /\ Up' /\ ~client'[current].first /\ UNCHANGED <<current, armed, acks, session>>
    BY <1>1, <1>6 DEF Unsubscribe, Up, LinkHolds, ClientStates
  <2>2. /\ wanted' = wanted \ fs /\ wanted' \subseteq Filters
        /\ readiness' = sent(readiness, Packet(cmd, fs))
        /\ sequence' = sequence + 1
        /\ toBroker' = Append(toBroker, Packet(cmd, fs))
    BY <1>1, <1>6 DEF Unsubscribe, Send
  <2>3. client'[current].resub = client[current].resub \ fs
    BY <1>1, <1>6 DEF Unsubscribe, ClientStates
  <2>4. readiness'.connected = readiness.connected
    <3>1. PICK p : p = Packet(cmd, fs)
      OBVIOUS
    <3>2. p \in Packets
      BY <2>2, <3>1, PacketType
    <3>3. sent(readiness, p).connected = readiness.connected
      BY <1>1, <3>2, SentEffect
    <3> QED
      BY <2>2, <3>1, <3>3
  <2>5. LinkHolds'
    <3>1. ~client[current].first /\ client'[current].st = "up"
      BY <2>1 DEF Up, LinkHolds
    <3> QED
      BY <2>1, <2>2, <2>3, <2>4, <3>1 DEF LinkHolds, Up
  <2>6. ASSUME readiness.connected PROVE Synced'
    <3>1. PacketsHold /\ \A g \in Filters : FilterHolds(g) /\ WantedHolds(g)
      BY <2>1, <2>6 DEF SyncHolds, Synced
    <3>2. \A g \in wanted' : g \in wanted \ fs /\ WantedHolds(g)
      BY <1>1, <2>2, <3>1
    <3> QED
      BY <1>1, <2>1, <2>2, <3>1, <3>2, SyncSend
  <2> QED
    BY <2>4, <2>5, <2>6 DEF SyncHolds
<1>7. CASE pauseSubscriptions \/ \E f \in Filters : UnsubscribeAsync(f)
  BY <1>6, <1>7, TransportConstants DEF pauseSubscriptions, UnsubscribeAsync
<1>8. CASE BrokerServes
  <2>1. UNCHANGED <<client, current, armed, readiness, wanted>> /\ toBroker # <<>>
    BY <1>8 DEF BrokerServes
  <2>2. Up
    BY <2>1 DEF LinkHolds
  <2>3. Up' /\ LinkHolds'
    BY <2>1, <2>2 DEF LinkHolds, Up
  <2> QED
    BY <1>8, <2>1, <2>2, <2>3, SyncServe DEF SyncHolds
<1>9. ASSUME NEW a \in acks, ReceiveAck(a) PROVE LinkHolds' /\ SyncHolds'
  <2>1. Up
    BY DEF LinkHolds
  <2>2. /\ UNCHANGED <<current, armed>> /\ client'[current].st = client[current].st
        /\ client'[current].first = client[current].first
    BY <1>1, <1>9 DEF ReceiveAck, ClientStates
  <2>3. readiness'.connected = readiness.connected
    <3>1. a.packet \in Packets /\ a.granted \in SUBSET Filters
      BY DEF TransportTypes, Answers
    <3>2. readiness' = received(readiness, a.packet, a.granted) \/ readiness' = readiness
      BY <1>9 DEF ReceiveAck
    <3> QED
      BY <1>1, <3>1, <3>2, ReceivedEffect
  <2>4. wanted \subseteq client[current].resub => wanted' \subseteq client'[current].resub
    BY <1>1, <1>9 DEF ReceiveAck, ClientStates
  <2>5. LinkHolds'
    <3>1. ~client[current].first
      BY <2>1 DEF LinkHolds
    <3> QED
      BY <2>1, <2>2, <2>3, <2>4, <3>1 DEF LinkHolds, Up
  <2> QED
    BY <1>9, <2>1, <2>3, <2>5, SyncAck DEF SyncHolds
<1>10. CASE PublishBegins \/ PublishSettles \/ UNCHANGED vars
  <2>1. UNCHANGED <<client, current, armed, readiness, sequence, toBroker, acks, session, wanted>>
    BY <1>10 DEF PublishBegins, PublishSettles, vars
  <2>2. UNCHANGED <<Up, Synced>>
    BY <2>1 DEF Up, Synced, PacketsHold, Numbered, FilterHolds, WantedHolds, Waits,
                Revision, Acknowledged, Removes
  <2> QED
    BY <2>1, <2>2 DEF LinkHolds, SyncHolds
<1>11. ASSUME End, UNCHANGED wanted PROVE LinkHolds' /\ SyncHolds'
  <2>1. LinkHolds'
    BY <1>11, EndEffect DEF LinkHolds
  <2> QED
    BY <1>11, <2>1, EndEffect DEF SyncHolds
<1>12. CASE PublishTimesOut
  <2>1. ASSUME Ending, ResetState, Start(client), attempt' = "idle", wanted' = Topics,
               UNCHANGED link
        PROVE  LinkHolds' /\ ~Up'
    <3>1. /\ client[current].st \in {"ending", "ended"} /\ ~Up
          /\ \A c \in Clients : c < current => client[c].st \in {"ending", "ended"}
      BY <2>1 DEF Ending, ClientsHold, Up
    <3> QED
      BY <1>1, <2>1, <3>1, LinkStart
  <2> QED
    BY <1>11, <1>12, <2>1 DEF PublishTimesOut, SyncHolds
<1>13. CASE Close
  <2>1. CASE End
    BY <1>11, <1>13, <2>1 DEF Close
  <2>2. CASE /\ Ending /\ ResetState /\ armed' = FALSE
             /\ UNCHANGED <<client, current, link, wanted>>
    <3>1. ~readiness'.connected /\ readiness'.filters = NoFilters /\ readiness'.pending = {}
      BY <2>2, DisconnectedType DEF ResetState
    <3> QED
      BY <2>2, <3>1 DEF LinkHolds, SyncHolds, Up
  <2> QED
    BY <1>13, <2>1, <2>2 DEF Close
<1>14. ASSUME NEW c \in Clients, Ended(c) PROVE LinkHolds' /\ SyncHolds'
  <2>1. PICK cs : cs = [client EXCEPT ![c].st = "ended"]
    OBVIOUS
  <2>2. client[c].st = "ending" /\ ResetState /\ UNCHANGED link
    BY <1>14 DEF Ended
  <2>7. /\ cs \in [Clients -> ClientStates] /\ cs[c].st = "ended"
        /\ cs[c].first = client[c].first /\ \A d \in Clients \ {c} : cs[d] = client[d]
    BY <1>1, <2>1 DEF ClientStates
  <2>3. /\ attempt = "stopping" => cs[current].st \in {"ending", "ended"} /\ ~Up
        /\ \A d \in Clients : d < current => cs[d].st \in {"ending", "ended"}
        /\ \A d \in Clients : d > current => cs[d] = client[d]
    BY <2>2, <2>7, CallbackClients
  <2>4. ~readiness'.connected /\ readiness'.filters = NoFilters /\ readiness'.pending = {}
    BY <2>2, DisconnectedType DEF ResetState
  <2>5. CASE attempt = "stopping" /\ Start(cs) /\ attempt' = "idle" /\ wanted' = Topics
    <3>1. LinkHolds' /\ ~Up'
      BY <2>2, <2>3, <2>5, <2>7, LinkStart
    <3> QED
      BY <3>1 DEF SyncHolds
  <2>6. CASE client' = cs /\ armed' = FALSE /\ UNCHANGED <<current, wanted>>
    <3>1. /\ client'[current].first = client[current].first
          /\ client'[current].st = "up" <=> client[current].st = "up"
      <4>1. CASE c = current
        BY <2>2, <2>6, <2>7, <4>1
      <4>2. CASE c # current
        BY <1>1, <2>6, <2>7, <4>2
      <4> QED
        BY <4>1, <4>2
    <3>2. LinkHolds'
      BY <2>2, <2>4, <2>6, <3>1 DEF LinkHolds, Up
    <3> QED
      BY <2>4, <3>2 DEF SyncHolds
  <2> QED
    BY <1>14, <2>1, <2>5, <2>6 DEF Ended
<1> QED
  BY <1>2, <1>3, <1>4, <1>5, <1>7, <1>8, <1>9, <1>10, <1>12, <1>13, <1>14 DEF Next, Library

\* When the proxy reports its subscriptions as ready, the broker holds what the
\* proxy knows of and what the application is subscribed to, whatever answers are
\* late, refused or lost with a connection, and however often it was restarted.
THEOREM ReadinessHolds == Spec => []ReadyMeansHeld
<1>1. TransportTypes /\ SyncHolds => ReadyMeansHeld
  <2> SUFFICES ASSUME TransportTypes, SyncHolds, handoverReady, Up
               PROVE  session = Known /\ wanted \subseteq session
    BY DEF ReadyMeansHeld
  <2>1. /\ PacketsHold /\ \A f \in Filters : FilterHolds(f) /\ WantedHolds(f)
        /\ readiness.pending = {} /\ session \subseteq Filters /\ wanted \subseteq Filters
    BY DEF SyncHolds, Synced, handoverReady, TransportTypes
  <2>2. \A f \in Filters : ~Waits(f)
    BY <2>1 DEF PacketsHold, Waits
  <2>3. \A f \in Filters : f \in session <=> f \in Known
    BY <2>1, <2>2 DEF FilterHolds, Known, Revision, Acknowledged, handoverReady
  <2>4. \A f \in wanted : f \in Known
    BY <2>1 DEF WantedHolds, Known, Revision
  <2> QED
    BY <2>1, <2>3, <2>4 DEF Known
<1>2. Init => TransportTypes /\ ClientsHold /\ LinkHolds /\ SyncHolds
  BY TypesInit, ClientsInit, LinkInit
<1>3. TransportTypes /\ ClientsHold /\ LinkHolds /\ SyncHolds /\ [Next]_vars
        => (TransportTypes /\ ClientsHold /\ LinkHolds /\ SyncHolds)'
  BY TypesStep, ClientsStep, LinkStep
<1> QED
  BY <1>1, <1>2, <1>3, PTL DEF Spec

-----------------------------------------------------------------------------
(* Ownership: what the processes of a service have at every moment.        *)

\* Up without ownership, and not giving it to anybody.
Candidate(p) == st[p] = "up" /\ ~active[p] /\ peer[p] = None

\* Takes input, or is about to.
Holds(p) == active[p] \/ input[p] = "open" \/ activating[p] > 0

Quiet(p) ==
    /\ \A m \in msgs : m.type = "request" => m.from # p
    /\ \A q \in Procs : peer[q] # p

\* What is not up has nothing left: it owns nothing, waits for nothing.
AbsentIdle == \A p \in Procs : st[p] # "up" =>
    /\ ~active[p] /\ activating[p] = 0 /\ timer[p] = Cleared /\ delay[p] = Idle
    /\ ~requesting[p] /\ peer[p] = None /\ input[p] = "closed"

\* What is on its way is addressed to another process that is up.
Addressed ==
    /\ \A b \in beats : st[b[2]] = "up"
    /\ \A m \in msgs : st[m.to] = "up" /\ m.from # m.to

\* Until it sends its request, nobody knows of a process.
Asked == \A p \in Procs :
    /\ delay[p] # Idle => requesting[p]
    /\ st[p] # "gone" /\ (~requesting[p] \/ delay[p] # Idle) => Quiet(p)

Presence == AbsentIdle /\ Addressed /\ Asked

OneHolds == \A p, q \in Procs : p # q => ~(Holds(p) /\ Holds(q))

ActiveHolds == \A p \in Procs : active[p] =>
    /\ activating[p] = 0 /\ peer[p] = None /\ input[p] = "open"
    /\ timer[p] \in {Fired, Cleared}

SourceReleases == \A p \in Procs : peer[p] # None =>
    /\ peer[p] # p /\ ~active[p] /\ activating[p] = 0 /\ timer[p] = Cleared
    /\ input[p] \in {"open", "stopped"}
    /\ input[p] = "open" /\ st[peer[p]] = "up" =>
         Candidate(peer[p]) /\ timer[peer[p]] = Cleared

CandidateWaits == \A p \in Procs :
    /\ activating[p] > 0 => Candidate(p) /\ activating[p] = 1 /\ timer[p] = Fired
    /\ Candidate(p) => (requesting[p] <=> timer[p] = Cleared) /\ input[p] # "stopped"
    /\ delay[p] # Idle => Candidate(p)

GivenOnce == \A m \in msgs :
    /\ m.type \in {"fin", "subscriber"} /\ Candidate(m.to) =>
         /\ timer[m.to] = Cleared /\ delay[m.to] = Idle
         /\ \A q \in Procs : Holds(q) => q = m.to
    /\ m.type = "request" /\ st[m.from] = "up" =>
         /\ timer[m.from] = Cleared
         /\ peer[m.to] # None \/ (active[m.to] /\ Candidate(m.from))

\* A heartbeat of q, any status, is on its way to p.
OnItsWay(q, p) == <<q, p, FALSE>> \in beats
Reached(p) == \E b \in beats : b[2] = p

\* Time since the last heartbeat that a candidate has heard of an active process.
Fresh == \A p \in Procs : Candidate(p) =>
    /\ Reached(p) => timer[p] \in 1..ActiveTimeout \cup {Cleared}
    /\ \A q \in Procs : active[q] =>
         \/ timer[p] = Cleared \/ OnItsWay(q, p)
         \/ /\ timer[p] <= ActiveTimeout
            /\ timer[p] >= ActiveTimeout - HeartbeatInterval + beat[q]

Agreed ==
    OneHolds /\ ActiveHolds /\ SourceReleases /\ CandidateWaits /\ GivenOnce /\ Fresh

OwnerHolds == contended \/ (~Contention /\ Agreed)

-----------------------------------------------------------------------------
(* Types of ownership.                                                     *)

LEMMA OwnershipConstants ==
  /\ HeartbeatInterval = 2 /\ ActiveTimeout = 5 /\ RequestDelay = 2 /\ StatusExpiry = 6
  /\ Fired = 6 /\ Cleared = 7 /\ Idle = 3 /\ None \notin Procs
BY OwnershipAssumption
DEF HeartbeatInterval, ActiveTimeout, RequestDelay, StatusExpiry, Fired, Cleared, Idle

LEMMA OwnershipTypesInit == OwnershipInit => OwnershipTypeOK
<1> SUFFICES ASSUME OwnershipInit PROVE OwnershipTypeOK
  OBVIOUS
<1>1. [from |-> None, ttl |-> 0] \in [from : Procs \cup {None}, ttl : 0..StatusExpiry]
  BY OwnershipConstants
<1>2. 0 \in 0..MaxActivations
  BY OwnershipAssumption
<1>3. /\ st \in [Procs -> {"off", "up", "gone"}] /\ mode \in [Procs -> Modes]
      /\ active \in [Procs -> BOOLEAN] /\ requesting \in [Procs -> BOOLEAN]
      /\ input \in [Procs -> {"closed", "open", "stopped"}] /\ contended \in BOOLEAN
      /\ peer \in [Procs -> Procs \cup {None}]
  BY DEF OwnershipInit
<1>4. /\ timer \in [Procs -> 0..Cleared] /\ delay \in [Procs -> 0..Idle]
      /\ activating \in [Procs -> 0..MaxActivations]
      /\ beat \in [Procs -> 0..HeartbeatInterval] /\ since \in [Procs -> 0..(HeartbeatInterval + 1)]
  BY <1>2, OwnershipConstants DEF OwnershipInit
<1>5. beats = {} /\ msgs = {} /\ retained = [from |-> None, ttl |-> 0]
  BY DEF OwnershipInit
<1> QED
  BY <1>1, <1>3, <1>4, <1>5 DEF OwnershipTypeOK

\* What a process publishes are messages to others that are up.
LEMMA PublishedTypes ==
  ASSUME NEW p \in Procs, NEW t \in {"request", "subscriber", "fin", "ack"}
  PROVE  Published(t, p) \subseteq
           [type : {"request", "subscriber", "fin", "ack"}, from : Procs, to : Procs]
BY DEF Published, UpProcs

LEMMA OwnershipTypesStep ==
  OwnershipTypeOK /\ [OwnershipNext]_ownershipVars => OwnershipTypeOK'
<1> SUFFICES ASSUME OwnershipTypeOK, [OwnershipNext]_ownershipVars PROVE OwnershipTypeOK'
  OBVIOUS
<1> USE OwnershipConstants, OwnershipAssumption DEF OwnershipTypeOK
<1>18. \A m \in msgs : m.to \in Procs /\ m.from \in Procs
  OBVIOUS
<1>19. \A b \in beats : b[1] \in Procs /\ b[2] \in Procs
  OBVIOUS
<1>20. contended' \in BOOLEAN
  <2>1. CASE Tick \/ UNCHANGED ownershipVars
    BY <2>1 DEF Tick, ownershipVars
  <2>2. CASE contended' = (contended \/ Contention')
    BY <2>2
  <2> QED
    BY <2>1, <2>2 DEF OwnershipNext, Noted
<1>1. ASSUME NEW p \in Procs, Noted(Begin(p)) PROVE OwnershipTypeOK'
  <2>1. retained.from # None => retained.from \in Procs
    OBVIOUS
  <2>2. retained.from # None => <<retained.from, p, TRUE>> \in Procs \X Procs \X BOOLEAN
    BY <2>1
  <2>3. beats' \subseteq beats \cup {<<retained.from, p, TRUE>>} /\ (retained.from = None => beats' = beats)
    BY <1>1 DEF Noted, Begin
  <2>4. beats' \subseteq Procs \X Procs \X BOOLEAN
    BY <2>2, <2>3
  <2>5. /\ st' \in [Procs -> {"off", "up", "gone"}] /\ timer' \in [Procs -> 0..Cleared]
        /\ UNCHANGED <<mode, active, activating, requesting, delay, peer, input, beat,
                       retained, msgs, since, faults>>
    BY <1>1 DEF Noted, Begin
  <2> QED
    BY <1>20, <2>4, <2>5
<1>2. ASSUME NEW p \in Procs, Noted(Heartbeat(p)) PROVE OwnershipTypeOK'
  <2>1. CASE active[p]
    <3>1. {<<p, q, FALSE>> : q \in UpProcs \ {p}} \subseteq Procs \X Procs \X BOOLEAN
      <4> SUFFICES ASSUME NEW b \in {<<p, q, FALSE>> : q \in UpProcs \ {p}}
                   PROVE  b \in Procs \X Procs \X BOOLEAN
        BY Zenon
      <4>1. PICK q \in UpProcs \ {p} : b = <<p, q, FALSE>>
        BY Zenon
      <4>2. q \in Procs
        BY DEF UpProcs
      <4> QED
        BY <4>1, <4>2
    <3>2. beats' \subseteq Procs \X Procs \X BOOLEAN
      BY <1>2, <2>1, <3>1 DEF Noted, Heartbeat
    <3>3. retained' \in [from : Procs \cup {None}, ttl : 0..StatusExpiry]
      BY <1>2, <2>1 DEF Noted, Heartbeat
    <3> QED
      BY <1>2, <1>20, <2>1, <3>2, <3>3 DEF Noted, Heartbeat
  <2>2. CASE ~active[p]
    BY <1>2, <2>2 DEF Noted, Heartbeat, UpProcs
  <2> QED
    BY <2>1, <2>2
<1>3. ASSUME NEW p \in Procs, Gone(p), UNCHANGED <<mode, retained>>, contended' \in BOOLEAN
      PROVE OwnershipTypeOK'
  BY <1>3 DEF Gone
<1>4. ASSUME NEW p \in Procs, Noted(TimerFires(p)) PROVE OwnershipTypeOK'
  BY <1>4 DEF Noted, TimerFires
<1>5. ASSUME NEW p \in Procs, Noted(Activated(p)) PROVE OwnershipTypeOK'
  BY <1>5 DEF Noted, Activated, Become
<1>6. ASSUME NEW p \in Procs, Noted(ActivationFails(p)) PROVE OwnershipTypeOK'
  BY <1>6 DEF Noted, ActivationFails
<1>7. ASSUME NEW p \in Procs, Noted(SendRequest(p)) PROVE OwnershipTypeOK'
  BY <1>7, PublishedTypes DEF Noted, SendRequest
<1>8. ASSUME NEW p \in Procs, Noted(Release(p)) PROVE OwnershipTypeOK'
  <2>1. PICK types \in {{"fin"}, {"subscriber", "fin"}} :
          msgs' = msgs \cup UNION {Published(t, p) : t \in types}
    BY <1>8 DEF Noted, Release
  <2>2. msgs' \subseteq [type : {"request", "subscriber", "fin", "ack"}, from : Procs, to : Procs]
    BY <2>1, PublishedTypes
  <2> QED
    BY <1>8, <2>2 DEF Noted, Release
<1>9. ASSUME NEW b \in beats, Noted(HearHeartbeat(b)) PROVE OwnershipTypeOK'
  <2> DEFINE p == b[2]
  <2>1. p \in Procs
    BY <1>19
  <2> QED
    <3>1. CASE timer' = Refreshed(p) /\ UNCHANGED <<requesting, delay, activating>>
      BY <1>9, <1>20, <2>1, <3>1 DEF Noted, HearHeartbeat, Refreshed
    <3>2. CASE /\ timer' = [timer EXCEPT ![p] = Cleared]
               /\ requesting' = [requesting EXCEPT ![p] = TRUE]
               /\ delay' = [delay EXCEPT ![p] = RequestDelay]
               /\ UNCHANGED activating
      BY <1>9, <1>20, <2>1, <3>2 DEF Noted, HearHeartbeat
    <3>3. CASE /\ activating[p] < MaxActivations
               /\ timer' = [timer EXCEPT ![p] = Cleared]
               /\ activating' = [activating EXCEPT ![p] = @ + 1]
               /\ UNCHANGED <<requesting, delay>>
      BY <1>9, <1>20, <2>1, <3>3 DEF Noted, HearHeartbeat
    <3>4. CASE UNCHANGED <<timer, requesting, delay, activating>>
      BY <1>9, <1>20, <3>4 DEF Noted, HearHeartbeat
    <3> QED
      BY <1>9, <3>1, <3>2, <3>3, <3>4 DEF Noted, HearHeartbeat
<1>10. ASSUME NEW m \in msgs, Noted(AcceptRequest(m)) PROVE OwnershipTypeOK'
  <2>1. m.to \in Procs /\ m.from \in Procs
    BY <1>18
  <2>2. CASE MayRelease(m.to)
    <3>1. /\ active' = [active EXCEPT ![m.to] = FALSE] /\ peer' = [peer EXCEPT ![m.to] = m.from]
          /\ timer' = [timer EXCEPT ![m.to] = Cleared] /\ msgs' = msgs \ {m}
          /\ UNCHANGED <<st, mode, activating, requesting, delay, input, beat, beats,
                         retained, since>>
      BY <1>10, <2>2 DEF Noted, AcceptRequest, Relinquished
    <3>2. /\ active' \in [Procs -> BOOLEAN] /\ peer' \in [Procs -> Procs \cup {None}]
          /\ timer' \in [Procs -> 0..Cleared]
      BY <2>1, <3>1
    <3> QED
      BY <1>20, <3>1, <3>2
  <2>3. CASE ~MayRelease(m.to)
    BY <1>10, <1>20, <2>3 DEF Noted, AcceptRequest
  <2> QED
    BY <2>2, <2>3
<1>11. ASSUME NEW m \in msgs, Noted(AcceptSubscriber(m)) PROVE OwnershipTypeOK'
  BY <1>11, <1>18 DEF Noted, AcceptSubscriber
<1>12. ASSUME NEW m \in msgs, Noted(AcceptFin(m)) PROVE OwnershipTypeOK'
  <2>1. m.to \in Procs
    BY <1>18
  <2>2. CASE Become(m.to) /\ msgs' = (msgs \ {m}) \cup Published("ack", m.to)
    <3>1. active' \in [Procs -> BOOLEAN] /\ input' \in [Procs -> {"closed", "open", "stopped"}]
      BY <2>1, <2>2 DEF Become
    <3>2. since' \in [Procs -> 0..(HeartbeatInterval + 1)]
      BY <2>1, <2>2 DEF Become
    <3>3. msgs' \subseteq [type : {"request", "subscriber", "fin", "ack"}, from : Procs, to : Procs]
      BY <2>1, <2>2, PublishedTypes
    <3> QED
      BY <1>12, <1>20, <3>1, <3>2, <3>3 DEF Noted, AcceptFin
  <2>3. CASE msgs' = msgs \ {m} /\ UNCHANGED <<active, input, since>>
    BY <1>12, <1>20, <2>3 DEF Noted, AcceptFin
  <2> QED
    BY <1>12, <2>2, <2>3 DEF Noted, AcceptFin
<1>13. ASSUME NEW m \in msgs, Noted(AcceptAck(m)) PROVE OwnershipTypeOK'
  BY <1>3, <1>13, <1>18 DEF Noted, AcceptAck
<1>14. ASSUME NEW m \in msgs, Noted(Lose(m)) PROVE OwnershipTypeOK'
  BY <1>14, <1>18 DEF Noted, Lose
<1>15. CASE Tick
  BY <1>15 DEF Tick, Down, UpProcs
<1>16. CASE UNCHANGED ownershipVars
  BY <1>16 DEF ownershipVars
<1>17. ASSUME NEW p \in Procs, Noted(Crash(p)) PROVE OwnershipTypeOK'
  BY <1>3, <1>17 DEF Noted, Crash
<1> QED
  BY <1>1, <1>2, <1>4, <1>5, <1>6, <1>7, <1>8, <1>9, <1>10, <1>11, <1>12, <1>13, <1>14, <1>15,
     <1>16, <1>17 DEF OwnershipNext, Deliver, Noted

-----------------------------------------------------------------------------
(* What is not up.                                                         *)

LEMMA PresenceInit == OwnershipInit => Presence
<1> SUFFICES ASSUME OwnershipInit PROVE Presence
  OBVIOUS
<1>1. AbsentIdle
  BY DEF OwnershipInit, AbsentIdle
<1>2. beats = {} /\ msgs = {} /\ peer = [p \in Procs |-> None] /\ delay = [p \in Procs |-> Idle]
  BY DEF OwnershipInit
<1> QED
  BY <1>1, <1>2, OwnershipConstants DEF Presence, Addressed, Asked, Quiet

\* A process goes: with it what it holds and what is on its way to it.
LEMMA PresenceGone ==
  ASSUME OwnershipTypeOK, Presence, NEW p \in Procs, Gone(p), p \in UpProcs
  PROVE  Presence'
<1> USE DEF OwnershipTypeOK
<1>1. \A r \in Procs : st'[r] = IF r = p THEN "gone" ELSE st[r]
  BY DEF Gone
<1>2. AbsentIdle'
  BY OwnershipConstants DEF Gone, Presence, AbsentIdle
<1>3. Addressed'
  <2>1. \A b \in beats' : b \in beats /\ b[2] # p /\ b[2] \in Procs
    BY DEF Gone
  <2>2. \A m \in msgs' : m \in msgs /\ m.to # p /\ m.to \in Procs
    BY DEF Gone
  <2> QED
    BY <1>1, <2>1, <2>2 DEF Presence, Addressed
<1>4. Asked'
  <2>4. \A r \in Procs : delay'[r] # Idle => requesting'[r]
    BY OwnershipConstants DEF Presence, Asked, Gone
  <2> SUFFICES ASSUME NEW r \in Procs, st'[r] # "gone", ~requesting'[r] \/ delay'[r] # Idle
               PROVE  Quiet(r)'
    BY <2>4 DEF Asked
  <2>1. r # p /\ st[r] # "gone" /\ (~requesting[r] \/ delay[r] # Idle)
    BY <1>1 DEF Gone
  <2>2. Quiet(r)
    BY <2>1 DEF Presence, Asked
  <2>3. \A q \in Procs : peer'[q] # r
    BY <2>2, OwnershipConstants DEF Quiet, Gone
  <2> QED
    BY <2>2, <2>3 DEF Quiet, Gone
<1> QED
  BY <1>2, <1>3, <1>4 DEF Presence

LEMMA PresenceStep ==
  OwnershipTypeOK /\ Presence /\ [OwnershipNext]_ownershipVars => Presence'
<1> SUFFICES ASSUME OwnershipTypeOK, Presence, [OwnershipNext]_ownershipVars PROVE Presence'
  OBVIOUS
<1> USE OwnershipConstants DEF OwnershipTypeOK
<1>1. ASSUME NEW p \in Procs, Begin(p) PROVE Presence'
  <2>1. /\ st[p] = "off" /\ st' = [st EXCEPT ![p] = "up"]
        /\ timer' = [timer EXCEPT ![p] = ActiveTimeout]
        /\ UNCHANGED <<active, activating, requesting, delay, peer, input, msgs>>
    BY <1>1 DEF Begin
  <2>2. AbsentIdle'
    BY <2>1 DEF Presence, AbsentIdle
  <2>3. \A b \in beats' : b \in beats \/ b[2] = p
    <3>1. beats' = beats \/ beats' = beats \cup {<<retained.from, p, TRUE>>}
      BY <1>1 DEF Begin
    <3>2. <<retained.from, p, TRUE>>[2] = p
      OBVIOUS
    <3> QED
      BY <3>1, <3>2
  <2>4. Addressed'
    BY <2>1, <2>3 DEF Presence, Addressed
  <2>5. Asked'
    BY <2>1 DEF Presence, Asked, Quiet
  <2> QED
    BY <2>2, <2>4, <2>5 DEF Presence
<1>2. ASSUME NEW p \in Procs, Heartbeat(p) PROVE Presence'
  <2>1. UNCHANGED <<st, active, activating, requesting, delay, timer, peer, input, msgs>>
    BY <1>2 DEF Heartbeat
  <2>2. \A b \in beats' : b \in beats \/ b[2] \in UpProcs
    <3>1. beats' = beats \/ beats' = beats \cup {<<p, q, FALSE>> : q \in UpProcs \ {p}}
      BY <1>2 DEF Heartbeat
    <3>2. ASSUME NEW b \in {<<p, q, FALSE>> : q \in UpProcs \ {p}} PROVE b[2] \in UpProcs
      <4>1. PICK q \in UpProcs \ {p} : b = <<p, q, FALSE>>
        BY Zenon
      <4> QED
        BY <4>1
    <3> QED
      BY <3>1, <3>2, Zenon
  <2> QED
    BY <2>1, <2>2 DEF Presence, AbsentIdle, Addressed, Asked, Quiet, UpProcs
<1>3. ASSUME NEW p \in Procs, Crash(p) PROVE Presence'
  BY <1>3, PresenceGone DEF Crash
<1>4. ASSUME NEW p \in Procs, TimerFires(p) PROVE Presence'
  BY <1>4 DEF TimerFires, UpProcs, Presence, AbsentIdle, Addressed, Asked, Quiet
<1>5. ASSUME NEW p \in Procs, Activated(p) PROVE Presence'
  BY <1>5 DEF Activated, Become, Presence, AbsentIdle, Addressed, Asked, Quiet
<1>6. ASSUME NEW p \in Procs, ActivationFails(p) PROVE Presence'
  BY <1>6 DEF ActivationFails, Presence, AbsentIdle, Addressed, Asked, Quiet
<1>7. ASSUME NEW p \in Procs, SendRequest(p) PROVE Presence'
  <2>1. /\ delay[p] = 0 /\ delay' = [delay EXCEPT ![p] = Idle] /\ st[p] = "up"
        /\ UNCHANGED <<st, active, timer, activating, requesting, peer, input, beats>>
    BY <1>7 DEF SendRequest, UpProcs
  <2>2. \A m \in msgs' : m \in msgs \/ (m.from = p /\ m.to \in UpProcs \ {p})
    BY <1>7 DEF SendRequest, Published
  <2>3. Addressed'
    BY <2>1, <2>2 DEF Presence, Addressed, UpProcs
  <2>4. requesting[p]
    BY <2>1 DEF Presence, Asked
  <2>5. Asked'
    BY <2>1, <2>2, <2>4 DEF Presence, Asked, Quiet
  <2> QED
    BY <2>1, <2>3, <2>5 DEF Presence, AbsentIdle
<1>8. ASSUME NEW p \in Procs, Release(p) PROVE Presence'
  <2>1. /\ st[p] = "up" /\ input' = [input EXCEPT ![p] = "stopped"]
        /\ UNCHANGED <<st, active, timer, activating, requesting, delay, peer, beats>>
    BY <1>8 DEF Release, UpProcs
  <2>2. \A m \in msgs' : m \in msgs \/ (m.from = p /\ m.to \in UpProcs \ {p} /\ m.type # "request")
    BY <1>8 DEF Release, Published
  <2>3. Addressed'
    BY <2>1, <2>2 DEF Presence, Addressed, UpProcs
  <2>4. Asked'
    BY <2>1, <2>2 DEF Presence, Asked, Quiet
  <2> QED
    BY <2>1, <2>3, <2>4 DEF Presence, AbsentIdle
<1>9. ASSUME NEW b \in beats, HearHeartbeat(b) PROVE Presence'
  <2> DEFINE p == b[2]
  <2>1. p \in Procs /\ st[p] = "up" /\ UNCHANGED <<st, active, peer, input, msgs>>
    BY <1>9 DEF Presence, Addressed, HearHeartbeat
  <2>2. Addressed'
    BY <1>9, <2>1 DEF Presence, Addressed, HearHeartbeat
  <2>3. AbsentIdle'
    BY <1>9, <2>1 DEF Presence, AbsentIdle, HearHeartbeat, Refreshed
  <2>4. Asked'
    BY <1>9, <2>1 DEF Presence, Asked, Quiet, HearHeartbeat, Listens
  <2> QED
    BY <2>2, <2>3, <2>4 DEF Presence
<1>10. ASSUME NEW m \in msgs, AcceptRequest(m) PROVE Presence'
  <2>1. m.to \in Procs /\ m.from \in Procs /\ st[m.to] = "up" /\ m.type = "request"
    BY <1>10 DEF Presence, Addressed, AcceptRequest
  <2>2. /\ msgs' = msgs \ {m}
        /\ UNCHANGED <<st, activating, requesting, delay, input, beats>>
    BY <1>10 DEF AcceptRequest
  <2>3. st[m.from] = "gone" \/ (requesting[m.from] /\ delay[m.from] = Idle)
    BY <2>1 DEF Presence, Asked, Quiet
  <2>4. Addressed'
    BY <2>2 DEF Presence, Addressed
  <2>5. AbsentIdle'
    BY <1>10, <2>1, <2>2 DEF Presence, AbsentIdle, AcceptRequest, Relinquished
  <2>6. \A q \in Procs : peer'[q] \in {peer[q], m.from}
    BY <1>10, <2>1 DEF AcceptRequest
  <2>7. Asked'
    BY <2>2, <2>3, <2>6 DEF Presence, Asked, Quiet
  <2> QED
    BY <2>4, <2>5, <2>7 DEF Presence
<1>11. ASSUME NEW m \in msgs, AcceptSubscriber(m) PROVE Presence'
  <2>1. m.to \in Procs /\ st[m.to] = "up"
    BY DEF Presence, Addressed
  <2> QED
    BY <1>11, <2>1 DEF AcceptSubscriber, Presence, AbsentIdle, Addressed, Asked, Quiet
<1>12. ASSUME NEW m \in msgs, AcceptFin(m) PROVE Presence'
  <2>1. m.to \in Procs /\ st[m.to] = "up"
    BY DEF Presence, Addressed
  <2>2. \A n \in msgs' : n \in msgs \/ (n.from = m.to /\ n.to \in UpProcs \ {m.to} /\ n.type = "ack")
    BY <1>12 DEF AcceptFin, Published
  <2>3. UNCHANGED <<st, timer, activating, requesting, delay, peer, beats>>
    BY <1>12 DEF AcceptFin
  <2>4. \A q \in Procs : q # m.to => active'[q] = active[q] /\ input'[q] = input[q]
    BY <1>12, <2>1 DEF AcceptFin, Become
  <2> QED
    BY <2>1, <2>2, <2>3, <2>4 DEF Presence, AbsentIdle, Addressed, Asked, Quiet, UpProcs
<1>13. ASSUME NEW m \in msgs, AcceptAck(m) PROVE Presence'
  <2>1. m.to \in Procs /\ m.to \in UpProcs
    BY DEF Presence, Addressed, UpProcs
  <2>2. CASE Gone(m.to)
    BY <2>1, <2>2, PresenceGone
  <2>3. CASE /\ msgs' = msgs \ {m}
             /\ UNCHANGED <<st, active, input, activating, timer, requesting, delay,
                            peer, beat, beats, since>>
    BY <2>3 DEF Presence, AbsentIdle, Addressed, Asked, Quiet
  <2> QED
    BY <1>13, <2>2, <2>3 DEF AcceptAck
<1>14. ASSUME NEW m \in msgs, Lose(m) PROVE Presence'
  BY <1>14 DEF Lose, Presence, AbsentIdle, Addressed, Asked, Quiet
<1>15. CASE Tick
  BY <1>15 DEF Tick, Down, Presence, AbsentIdle, Addressed, Asked, Quiet
<1>16. CASE UNCHANGED ownershipVars
  BY <1>16 DEF ownershipVars, Presence, AbsentIdle, Addressed, Asked, Quiet
<1> QED
  BY <1>1, <1>2, <1>3, <1>4, <1>5, <1>6, <1>7, <1>8, <1>9, <1>10, <1>11, <1>12, <1>13, <1>14,
     <1>15, <1>16 DEF OwnershipNext, Deliver, Noted

-----------------------------------------------------------------------------
(* One owner.                                                              *)

\* Without contention a candidate is alone: the others own, release to it, or
\* have released.
LEMMA OnlyCandidate ==
  ASSUME OwnershipTypeOK, ~Contention, NEW p \in Procs, NEW q \in Procs, p # q,
         Candidate(p), st[q] = "up", ~active[q]
  PROVE  /\ peer[q] # None
         /\ input[q] = "open" => peer[q] \in Procs /\ st[peer[q]] = "up"
BY DEF Contention, Unowned, Candidate, UpProcs, OwnershipTypeOK

LEMMA WayReaches == ASSUME NEW p, NEW q, OnItsWay(q, p) PROVE Reached(p)
<1>1. PICK b \in beats : b = <<q, p, FALSE>>
  BY DEF OnItsWay
<1>2. b[2] = p
  BY <1>1
<1> QED
  BY <1>2 DEF Reached

LEMMA OwnerBegin ==
  ASSUME OwnershipTypeOK, Presence, Agreed, ~Contention', OwnershipTypeOK',
         NEW p \in Procs, Begin(p)
  PROVE  Agreed'
<1> USE OwnershipConstants DEF OwnershipTypeOK, Agreed
<1>1. /\ st[p] = "off" /\ st' = [st EXCEPT ![p] = "up"]
      /\ timer' = [timer EXCEPT ![p] = ActiveTimeout]
      /\ UNCHANGED <<active, activating, requesting, delay, peer, input, msgs, beat>>
  BY DEF Begin
<1>2. /\ ~active[p] /\ activating[p] = 0 /\ delay[p] = Idle /\ ~requesting[p]
      /\ peer[p] = None /\ input[p] = "closed" /\ Quiet(p)
  BY <1>1 DEF Presence, AbsentIdle, Asked
<1>3. /\ Candidate(p)' /\ \A q \in Procs \ {p} : Candidate(q)' <=> Candidate(q)
  BY <1>1, <1>2 DEF Candidate
<1>4. \A q \in Procs \ {p} : ~Candidate(q)'
  <2> SUFFICES ASSUME NEW q \in Procs \ {p}, Candidate(q)' PROVE FALSE
    OBVIOUS
  <2> QED
    BY <1>3 DEF Contention, Unowned, Candidate, UpProcs
<1>5. OneHolds' /\ ActiveHolds'
  BY <1>1, <1>2 DEF OneHolds, ActiveHolds, Holds
<1>6. SourceReleases'
  BY <1>1, <1>2, <1>3 DEF SourceReleases, Quiet
<1>7. CandidateWaits'
  BY <1>1, <1>2, <1>3 DEF CandidateWaits
<1>8. GivenOnce'
  <2> SUFFICES ASSUME NEW m \in msgs
               PROVE  /\ m.type \in {"fin", "subscriber"} /\ Candidate(m.to)' =>
                           /\ timer'[m.to] = Cleared /\ delay'[m.to] = Idle
                           /\ \A q \in Procs : Holds(q)' => q = m.to
                      /\ m.type = "request" /\ st'[m.from] = "up" =>
                           /\ timer'[m.from] = Cleared
                           /\ peer'[m.to] # None \/ (active'[m.to] /\ Candidate(m.from)')
    BY <1>1 DEF GivenOnce
  <2>1. m.to \in Procs /\ m.from \in Procs /\ m.to # p
    BY <1>1 DEF Presence, Addressed
  <2>2. m.type = "request" => m.from # p
    BY <1>2 DEF Quiet
  <2> QED
    BY <1>1, <1>3, <2>1, <2>2 DEF GivenOnce, Holds
<1>9. Fresh'
  <2>1. timer'[p] = ActiveTimeout /\ \A q \in Procs : beat'[q] \in 0..HeartbeatInterval
    BY <1>1
  <2>2. timer'[p] \in 1..ActiveTimeout \cup {Cleared}
    BY <2>1
  <2>3. \A q \in Procs : timer'[p] >= ActiveTimeout - HeartbeatInterval + beat'[q]
    BY <2>1
  <2>4. timer'[p] <= ActiveTimeout
    BY <2>1
  <2>5. \A r \in Procs : Candidate(r)' => r = p
    BY <1>4
  <2> QED
    BY <2>2, <2>3, <2>4, <2>5 DEF Fresh
<1> QED
  BY <1>5, <1>6, <1>7, <1>8, <1>9

LEMMA OwnerHeartbeat ==
  ASSUME OwnershipTypeOK, Presence, Agreed, NEW p \in Procs, Heartbeat(p)
  PROVE  Agreed'
<1> USE OwnershipConstants DEF OwnershipTypeOK, Agreed
<1>1. /\ UNCHANGED <<st, active, timer, activating, requesting, delay, peer, input, msgs>>
      /\ beat' = [beat EXCEPT ![p] = HeartbeatInterval] /\ beat[p] = 0
  BY DEF Heartbeat
<1>2. /\ OneHolds' /\ ActiveHolds' /\ SourceReleases' /\ CandidateWaits' /\ GivenOnce'
  BY <1>1 DEF OneHolds, ActiveHolds, SourceReleases, CandidateWaits, GivenOnce, Holds, Candidate
<1>3. Fresh'
  <2>1. CASE ~active[p]
    <3>1. beats' = beats
      BY <2>1 DEF Heartbeat
    <3> QED
      BY <1>1, <2>1, <3>1 DEF Fresh, Candidate, OnItsWay, Reached
  <2>2. CASE active[p]
    <3>1. beats' = beats \cup {<<p, q, FALSE>> : q \in UpProcs \ {p}}
      BY <2>2 DEF Heartbeat
    <3>2. \A r \in Procs : Candidate(r) => r \in UpProcs \ {p}
      BY <2>2 DEF Candidate, UpProcs
    <3>3. \A r \in Procs : Candidate(r) => OnItsWay(p, r)'
      BY <3>1, <3>2 DEF OnItsWay
    <3>4. \A q, r \in Procs : OnItsWay(q, r) => OnItsWay(q, r)'
      BY <3>1 DEF OnItsWay
    <3>5. \A r \in Procs : Candidate(r) => timer[r] \in 1..ActiveTimeout \cup {Cleared}
      BY <1>1, <2>2, WayReaches DEF Fresh
    <3>6. \A q \in Procs \ {p} : beat'[q] = beat[q]
      BY <1>1
    <3>7. \A r \in Procs : Candidate(r)' <=> Candidate(r)
      BY <1>1 DEF Candidate
    <3> QED
      BY <1>1, <3>3, <3>4, <3>5, <3>6, <3>7 DEF Fresh
  <2> QED
    BY <2>1, <2>2
<1> QED
  BY <1>2, <1>3

\* A process that goes leaves the others as they are.
LEMMA OwnerGone ==
  ASSUME OwnershipTypeOK, Presence, Agreed, NEW p \in Procs, Gone(p)
  PROVE  Agreed'
<1> USE OwnershipConstants DEF OwnershipTypeOK, Agreed
<1>1. /\ st' = [st EXCEPT ![p] = "gone"] /\ active' = [active EXCEPT ![p] = FALSE]
      /\ input' = [input EXCEPT ![p] = "closed"] /\ activating' = [activating EXCEPT ![p] = 0]
      /\ timer' = [timer EXCEPT ![p] = Cleared] /\ delay' = [delay EXCEPT ![p] = Idle]
      /\ requesting' = [requesting EXCEPT ![p] = FALSE] /\ peer' = [peer EXCEPT ![p] = None]
      /\ beat' = [beat EXCEPT ![p] = HeartbeatInterval]
      /\ beats' = {b \in beats : b[2] # p} /\ msgs' = {m \in msgs : m.to # p}
  BY DEF Gone
<1>2. ~Candidate(p)' /\ \A q \in Procs \ {p} : Candidate(q)' <=> Candidate(q)
  BY <1>1 DEF Candidate
<1>3. ~Holds(p)' /\ \A q \in Procs \ {p} : Holds(q)' <=> Holds(q)
  BY <1>1 DEF Holds
<1>4. OneHolds' /\ ActiveHolds'
  BY <1>1, <1>3 DEF OneHolds, ActiveHolds
<1>5. SourceReleases'
  BY <1>1, <1>2 DEF SourceReleases
<1>6. CandidateWaits'
  BY <1>1, <1>2 DEF CandidateWaits
<1>7. GivenOnce'
  <2> SUFFICES ASSUME NEW m \in msgs'
               PROVE  /\ m.type \in {"fin", "subscriber"} /\ Candidate(m.to)' =>
                           /\ timer'[m.to] = Cleared /\ delay'[m.to] = Idle
                           /\ \A q \in Procs : Holds(q)' => q = m.to
                      /\ m.type = "request" /\ st'[m.from] = "up" =>
                           /\ timer'[m.from] = Cleared
                           /\ peer'[m.to] # None \/ (active'[m.to] /\ Candidate(m.from)')
    BY DEF GivenOnce
  <2>1. m \in msgs /\ m.to \in Procs \ {p} /\ m.from \in Procs
    BY <1>1
  <2> QED
    BY <1>1, <1>2, <1>3, <2>1 DEF GivenOnce
<1>8. Fresh'
  <2>1. \A r \in Procs : Candidate(r)' => r # p /\ Candidate(r) /\ timer'[r] = timer[r]
    BY <1>1, <1>2
  <2>2. \A q \in Procs : active'[q] => q # p /\ active[q] /\ beat'[q] = beat[q]
    BY <1>1
  <2>3. \A q \in Procs, r \in Procs \ {p} : OnItsWay(q, r) => OnItsWay(q, r)'
    <3> SUFFICES ASSUME NEW q \in Procs, NEW r \in Procs \ {p}, NEW b \in beats, b = <<q, r, FALSE>>
                 PROVE  b \in beats'
      BY DEF OnItsWay
    <3> QED
      BY <1>1
  <2>4. \A r \in Procs : Reached(r)' => Reached(r)
    BY <1>1 DEF Reached
  <2> QED
    BY <2>1, <2>2, <2>3, <2>4 DEF Fresh
<1> QED
  BY <1>4, <1>5, <1>6, <1>7, <1>8

LEMMA OwnerTimerFires ==
  ASSUME OwnershipTypeOK, Presence, ~Contention, Agreed, NEW p \in Procs, TimerFires(p)
  PROVE  Agreed'
<1> USE OwnershipConstants DEF OwnershipTypeOK, Agreed
<1>1. /\ st[p] = "up" /\ timer[p] = 0 /\ timer' = [timer EXCEPT ![p] = Fired]
      /\ activating' = [activating EXCEPT ![p] = @ + 1]
      /\ UNCHANGED <<st, active, requesting, delay, peer, input, beat, beats, msgs>>
  BY DEF TimerFires, UpProcs
<1>2. Candidate(p) /\ activating[p] = 0 /\ ~requesting[p]
  BY <1>1 DEF ActiveHolds, SourceReleases, CandidateWaits, Candidate
<1>3. \A q \in Procs \ {p} : ~Candidate(q)
  BY <1>2, OnlyCandidate DEF Candidate
<1>4. ~Reached(p) /\ \A q \in Procs : ~active[q]
  <2>1. ~Reached(p)
    BY <1>1, <1>2 DEF Fresh
  <2> QED
    BY <1>1, <1>2, <2>1, WayReaches DEF Fresh
<1>5. \A q \in Procs : peer[q] = p => input[q] # "open"
  BY <1>1, <1>2 DEF SourceReleases, Candidate
<1>6. ASSUME NEW q \in Procs \ {p} PROVE ~Holds(q)
  <2> SUFFICES ASSUME input[q] = "open" PROVE FALSE
    BY <1>3, <1>4 DEF Holds, CandidateWaits
  <2>1. st[q] = "up" /\ ~active[q]
    BY <1>4 DEF Presence, AbsentIdle
  <2>2. peer[q] # None /\ peer[q] \in Procs /\ st[peer[q]] = "up"
    BY <1>2, <2>1, OnlyCandidate
  <2>3. Candidate(peer[q])
    BY <2>2 DEF SourceReleases
  <2> QED
    BY <1>3, <1>5, <2>2, <2>3
<1>7. \A q \in Procs : Candidate(q)' <=> Candidate(q)
  BY <1>1 DEF Candidate
<1>8. OneHolds'
  BY <1>1, <1>6 DEF OneHolds, Holds
<1>9. ActiveHolds'
  BY <1>1, <1>4 DEF ActiveHolds
<1>10. SourceReleases'
  BY <1>1, <1>5, <1>7 DEF SourceReleases
<1>11. CandidateWaits'
  BY <1>1, <1>2, <1>7 DEF CandidateWaits
<1>12. GivenOnce'
  <2> SUFFICES ASSUME NEW m \in msgs
               PROVE  /\ m.type \in {"fin", "subscriber"} => ~Candidate(m.to)
                      /\ m.type = "request" /\ st[m.from] = "up" =>
                           /\ timer'[m.from] = Cleared
                           /\ peer[m.to] # None \/ (active[m.to] /\ Candidate(m.from))
    BY <1>1, <1>7 DEF GivenOnce
  <2>1. m.to \in Procs /\ m.from \in Procs
    OBVIOUS
  <2> QED
    BY <1>1, <1>3, <2>1 DEF GivenOnce
<1>13. Fresh'
  BY <1>1, <1>3, <1>4, <1>7 DEF Fresh, Reached
<1> QED
  BY <1>8, <1>9, <1>10, <1>11, <1>12, <1>13

LEMMA OwnerActivated ==
  ASSUME OwnershipTypeOK, Presence, ~Contention, Agreed, NEW p \in Procs, Activated(p)
  PROVE  Agreed'
<1> USE OwnershipConstants DEF OwnershipTypeOK, Agreed
<1>1. /\ activating[p] > 0 /\ activating' = [activating EXCEPT ![p] = @ - 1]
      /\ active' = [active EXCEPT ![p] = TRUE]
      /\ input' = [input EXCEPT ![p] = IF @ = "stopped" THEN @ ELSE "open"]
      /\ UNCHANGED <<st, timer, requesting, delay, peer, beat, beats, msgs>>
  BY DEF Activated, Become
<1>2. /\ Candidate(p) /\ activating[p] = 1 /\ timer[p] = Fired /\ ~requesting[p]
      /\ input[p] # "stopped" /\ delay[p] = Idle
  BY <1>1 DEF CandidateWaits, Presence, Asked
<1>3. \A q \in Procs \ {p} : ~Candidate(q) /\ ~Holds(q)
  BY <1>1, <1>2, OnlyCandidate DEF Candidate, OneHolds, Holds
<1>4. \A q \in Procs : ~Candidate(q)'
  BY <1>1, <1>3 DEF Candidate
<1>5. OneHolds' /\ ActiveHolds'
  BY <1>1, <1>2, <1>3 DEF OneHolds, Holds, ActiveHolds, Candidate
<1>6. SourceReleases'
  BY <1>1, <1>2, <1>3 DEF SourceReleases, Candidate, Holds
<1>7. CandidateWaits'
  BY <1>1, <1>2, <1>3, <1>4 DEF CandidateWaits
<1>8. GivenOnce'
  <2> SUFFICES ASSUME NEW m \in msgs, m.type = "request", st[m.from] = "up"
               PROVE  timer[m.from] = Cleared /\ peer[m.to] # None
    BY <1>1, <1>4 DEF GivenOnce
  <2>1. m.to \in Procs /\ m.from \in Procs
    OBVIOUS
  <2> QED
    BY <1>2, <1>3, <2>1 DEF GivenOnce
<1>9. Fresh'
  BY <1>4 DEF Fresh
<1> QED
  BY <1>5, <1>6, <1>7, <1>8, <1>9

LEMMA OwnerActivationFails ==
  ASSUME OwnershipTypeOK, Presence, ~Contention, Agreed, NEW p \in Procs, ActivationFails(p)
  PROVE  Agreed'
<1> USE OwnershipConstants DEF OwnershipTypeOK, Agreed
<1>1. /\ activating[p] > 0 /\ activating' = [activating EXCEPT ![p] = @ - 1]
      /\ active' = [active EXCEPT ![p] = FALSE]
      /\ input' = [input EXCEPT ![p] = IF @ = "stopped" THEN @ ELSE "closed"]
      /\ UNCHANGED <<st, timer, requesting, delay, peer, beat, beats, msgs>>
  BY DEF ActivationFails
<1>2. Candidate(p) /\ activating[p] = 1 /\ timer[p] = Fired /\ input[p] # "stopped"
  BY <1>1 DEF CandidateWaits
<1>3. active' = active
  BY <1>1, <1>2 DEF Candidate
<1>4. \A q \in Procs : (Candidate(q)' <=> Candidate(q)) /\ (Holds(q)' => Holds(q))
  BY <1>1, <1>3 DEF Candidate, Holds
<1>5. OneHolds'
  BY <1>4 DEF OneHolds
<1>6. ActiveHolds'
  BY <1>1, <1>2, <1>3 DEF ActiveHolds, Candidate
<1>7. SourceReleases'
  BY <1>1, <1>2, <1>3, <1>4 DEF SourceReleases, Candidate
<1>8. CandidateWaits'
  BY <1>1, <1>2, <1>4 DEF CandidateWaits
<1>9. GivenOnce'
  BY <1>1, <1>3, <1>4 DEF GivenOnce
<1>10. Fresh'
  BY <1>1, <1>3, <1>4 DEF Fresh, OnItsWay, Reached
<1> QED
  BY <1>5, <1>6, <1>7, <1>8, <1>9, <1>10

LEMMA OwnerSendRequest ==
  ASSUME OwnershipTypeOK, Presence, ~Contention, Agreed, NEW p \in Procs, SendRequest(p),
         OwnershipTypeOK'
  PROVE  Agreed'
<1> USE OwnershipConstants DEF OwnershipTypeOK, Agreed
<1>1. /\ delay[p] = 0 /\ delay' = [delay EXCEPT ![p] = Idle]
      /\ UNCHANGED <<st, active, timer, activating, requesting, peer, input, beat, beats>>
  BY DEF SendRequest
<1>2. Candidate(p) /\ timer[p] = Cleared
  BY <1>1 DEF CandidateWaits, Presence, Asked
<1>3. \A q \in Procs : (Candidate(q)' <=> Candidate(q)) /\ (Holds(q)' <=> Holds(q))
  BY <1>1 DEF Candidate, Holds
<1>4. OneHolds' /\ ActiveHolds' /\ SourceReleases' /\ CandidateWaits'
  BY <1>1, <1>3 DEF OneHolds, ActiveHolds, SourceReleases, CandidateWaits
<1>5. GivenOnce'
  <2>3. \A m \in msgs' : m.to \in Procs /\ m.from \in Procs
    OBVIOUS
  <2> SUFFICES ASSUME NEW m \in msgs'
               PROVE  /\ m.type \in {"fin", "subscriber"} /\ Candidate(m.to) =>
                           /\ timer[m.to] = Cleared /\ delay'[m.to] = Idle
                           /\ \A q \in Procs : Holds(q) => q = m.to
                      /\ m.type = "request" /\ st[m.from] = "up" =>
                           /\ timer[m.from] = Cleared
                           /\ peer[m.to] # None \/ (active[m.to] /\ Candidate(m.from))
    BY <1>1, <1>3, <2>3 DEF GivenOnce
  <2>1. CASE m \in msgs
    BY <1>1, <2>1 DEF GivenOnce
  <2>2. CASE m \in Published("request", p)
    <3>1. /\ m.type = "request" /\ m.from = p
          /\ m.to \in Procs /\ m.to # p /\ st[m.to] = "up"
      BY <2>2 DEF Published, UpProcs
    <3> QED
      BY <1>2, <3>1, OnlyCandidate
  <2> QED
    BY <2>1, <2>2 DEF SendRequest
<1>6. Fresh'
  BY <1>1, <1>3 DEF Fresh, OnItsWay, Reached
<1> QED
  BY <1>4, <1>5, <1>6

LEMMA OwnerRelease ==
  ASSUME OwnershipTypeOK, Presence, ~Contention, Agreed, NEW p \in Procs, Release(p),
         OwnershipTypeOK'
  PROVE  Agreed'
<1> USE OwnershipConstants DEF OwnershipTypeOK, Agreed
<1>1. /\ st[p] = "up" /\ peer[p] # None /\ input[p] # "stopped"
      /\ input' = [input EXCEPT ![p] = "stopped"]
      /\ UNCHANGED <<st, active, timer, activating, requesting, delay, peer, beat, beats>>
  BY DEF Release, UpProcs
<1>2. input[p] = "open" /\ ~active[p] /\ activating[p] = 0 /\ peer[p] \in Procs
  BY <1>1 DEF SourceReleases
<1>3. \A q \in Procs : (Candidate(q)' <=> Candidate(q)) /\ ~Holds(q)'
  BY <1>1, <1>2 DEF Candidate, OneHolds, Holds
<1>4. OneHolds' /\ ActiveHolds' /\ SourceReleases' /\ CandidateWaits'
  BY <1>1, <1>2, <1>3 DEF OneHolds, ActiveHolds, SourceReleases, CandidateWaits, Candidate
<1>5. ASSUME NEW q \in Procs, Candidate(q) PROVE timer[q] = Cleared /\ delay[q] = Idle
  <2>1. q # p
    BY <1>1, <1>5 DEF Candidate
  <2>2. st[peer[p]] = "up"
    BY <1>1, <1>2, <1>5, <2>1, OnlyCandidate
  <2>3. Candidate(peer[p]) /\ timer[peer[p]] = Cleared
    BY <1>1, <1>2, <2>2 DEF SourceReleases
  <2>4. peer[p] = q
    BY <1>2, <1>5, <2>3, OnlyCandidate DEF Candidate
  <2> QED
    BY <1>5, <2>3, <2>4 DEF Presence, Asked, Quiet, Candidate
<1>6. GivenOnce'
  <2>1. \A m \in msgs' : m.to \in Procs /\ m.from \in Procs
    OBVIOUS
  <2>2. \A q \in Procs : Candidate(q)' => timer'[q] = Cleared /\ delay'[q] = Idle
    BY <1>1, <1>3, <1>5
  <2> SUFFICES ASSUME NEW m \in msgs', m.type = "request", st[m.from] = "up"
               PROVE  m \in msgs
    BY <1>1, <1>3, <2>1, <2>2 DEF GivenOnce
  <2> QED
    BY DEF Release, Published
<1>7. Fresh'
  BY <1>1, <1>3 DEF Fresh, OnItsWay, Reached
<1> QED
  BY <1>4, <1>6, <1>7

LEMMA OwnerHearHeartbeat ==
  ASSUME OwnershipTypeOK, Presence, Agreed, ~Contention', NEW b \in beats, HearHeartbeat(b)
  PROVE  Agreed'
<1> USE OwnershipConstants DEF OwnershipTypeOK, Agreed
<1> DEFINE p == b[2]
<1>1. /\ p \in Procs /\ st[p] = "up" /\ Reached(p)
      /\ beats' = beats \ {b} /\ UNCHANGED <<st, mode, active, peer, input, beat, msgs>>
  BY DEF HearHeartbeat, Presence, Addressed, Reached
<1>2. \A q \in Procs : Candidate(q)' <=> Candidate(q)
  BY <1>1 DEF Candidate
<1>3. /\ \A q \in Procs : Reached(q)' => Reached(q)
      /\ \A q \in Procs, r \in Procs \ {p} : OnItsWay(q, r) => OnItsWay(q, r)'
  <2>1. \A q \in Procs : Reached(q)' => Reached(q)
    BY <1>1 DEF Reached
  <2>2. ASSUME NEW q \in Procs, NEW r \in Procs \ {p}, OnItsWay(q, r) PROVE OnItsWay(q, r)'
    <3>1. PICK n \in beats : n = <<q, r, FALSE>>
      BY <2>2 DEF OnItsWay
    <3>2. n[2] = r
      BY <3>1
    <3>3. n \in beats'
      BY <1>1, <3>2
    <3> QED
      BY <3>1, <3>3 DEF OnItsWay
  <2> QED
    BY <2>1, <2>2
<1>4. /\ Listens(p) => Candidate(p)
      /\ Listens(p) => timer[p] \in 1..ActiveTimeout /\ activating[p] = 0 /\ delay[p] = Idle
  <2>1. Listens(p) => Candidate(p) /\ ~requesting[p]
    BY <1>1 DEF Listens, Candidate
  <2> QED
    BY <1>1, <2>1 DEF Fresh, CandidateWaits, Presence, Asked
<1>5. CASE ~Listens(p) /\ UNCHANGED <<timer, requesting, delay, activating>>
  <2>1. Candidate(p) => timer[p] = Cleared
    BY <1>1, <1>5 DEF Listens, Candidate, CandidateWaits
  <2>2. \A q \in Procs : Holds(q)' <=> Holds(q)
    BY <1>1, <1>5 DEF Holds
  <2>3. OneHolds' /\ ActiveHolds' /\ SourceReleases' /\ CandidateWaits' /\ GivenOnce'
    BY <1>1, <1>2, <1>5, <2>2
    DEF OneHolds, ActiveHolds, SourceReleases, CandidateWaits, GivenOnce
  <2>4. Fresh'
    BY <1>1, <1>2, <1>3, <1>5, <2>1 DEF Fresh
  <2> QED
    BY <2>3, <2>4
<1>6. CASE Listens(p) /\ timer' = Refreshed(p) /\ UNCHANGED <<requesting, delay, activating>>
  <2>1. timer' = [timer EXCEPT ![p] = ActiveTimeout] /\ timer[p] # Cleared
    <3>1. timer[p] # Cleared
      BY <1>4, <1>6
    <3>2. timer' = [timer EXCEPT ![p] = IF timer[p] = Cleared THEN timer[p] ELSE ActiveTimeout]
      BY <1>6 DEF Refreshed
    <3> QED
      BY <3>1, <3>2
  <2>2. \A q \in Procs : Holds(q)' <=> Holds(q)
    BY <1>1, <1>6 DEF Holds
  <2>3. OneHolds' /\ ActiveHolds'
    BY <1>1, <1>4, <1>6, <2>1, <2>2 DEF OneHolds, ActiveHolds, Candidate
  <2>4. SourceReleases'
    BY <1>1, <1>2, <1>4, <1>6, <2>1 DEF SourceReleases, Candidate
  <2>5. CandidateWaits'
    BY <1>1, <1>2, <1>4, <1>6, <2>1 DEF CandidateWaits
  <2>6. GivenOnce'
    BY <1>1, <1>2, <1>4, <1>6, <2>1, <2>2 DEF GivenOnce
  <2>7. Fresh'
    <3>1. \A q \in Procs : beat'[q] \in 0..HeartbeatInterval
      BY <1>1
    <3>2. timer'[p] = ActiveTimeout
      BY <1>1, <2>1
    <3>3. \A r \in Procs : r # p => timer'[r] = timer[r]
      BY <2>1
    <3> SUFFICES ASSUME NEW r \in Procs, Candidate(r)'
                 PROVE  /\ Reached(r)' => timer'[r] \in 1..ActiveTimeout \cup {Cleared}
                        /\ \A q \in Procs : active'[q] =>
                             \/ timer'[r] = Cleared \/ OnItsWay(q, r)'
                             \/ /\ timer'[r] <= ActiveTimeout
                                /\ timer'[r] >= ActiveTimeout - HeartbeatInterval + beat'[q]
      BY DEF Fresh
    <3>4. CASE r = p
      BY <3>1, <3>2, <3>4
    <3>5. CASE r # p
      BY <1>1, <1>2, <1>3, <3>3, <3>5 DEF Fresh
    <3> QED
      BY <3>4, <3>5
  <2> QED
    BY <2>3, <2>4, <2>5, <2>6, <2>7
<1>7. CASE /\ Listens(p) /\ timer' = [timer EXCEPT ![p] = Cleared]
           /\ requesting' = [requesting EXCEPT ![p] = TRUE]
           /\ delay' = [delay EXCEPT ![p] = RequestDelay]
           /\ UNCHANGED activating
  <2>1. Candidate(p) /\ Quiet(p) /\ ~requesting[p]
    BY <1>1, <1>4, <1>7 DEF Listens, Presence, Asked
  <2>2. \A q \in Procs : Holds(q)' <=> Holds(q)
    BY <1>1, <1>7 DEF Holds
  <2>3. OneHolds' /\ ActiveHolds'
    BY <1>1, <1>7, <2>1, <2>2 DEF OneHolds, ActiveHolds, Candidate
  <2>4. SourceReleases'
    BY <1>1, <1>2, <1>7, <2>1 DEF SourceReleases, Candidate
  <2>5. CandidateWaits'
    BY <1>1, <1>2, <1>4, <1>7, <2>1 DEF CandidateWaits
  <2>6. GivenOnce'
    BY <1>1, <1>2, <1>4, <1>7, <2>1, <2>2 DEF GivenOnce
  <2>7. Fresh'
    BY <1>1, <1>2, <1>3, <1>7 DEF Fresh
  <2> QED
    BY <2>3, <2>4, <2>5, <2>6, <2>7
<1>8. CASE /\ mode[p] = "force" /\ timer' = [timer EXCEPT ![p] = Cleared]
           /\ activating' = [activating EXCEPT ![p] = @ + 1]
  <2>1. mode'[p] = "force" /\ activating'[p] > 0 /\ timer'[p] = Cleared /\ p \in UpProcs'
    BY <1>1, <1>8 DEF UpProcs
  <2> QED
    BY <2>1 DEF Contention
<1> QED
  BY <1>5, <1>6, <1>7, <1>8 DEF HearHeartbeat

\* A message that has no effect may as well be lost.
LEMMA OwnerMessageGone ==
  ASSUME Agreed, msgs' \subseteq msgs,
         UNCHANGED <<st, active, timer, activating, requesting, delay, peer, input, beat, beats>>
  PROVE  Agreed'
<1>1. \A q : (Candidate(q)' <=> Candidate(q)) /\ (Holds(q)' <=> Holds(q))
  BY DEF Candidate, Holds
<1>2. OneHolds' /\ ActiveHolds' /\ SourceReleases' /\ CandidateWaits'
  BY <1>1 DEF Agreed, OneHolds, ActiveHolds, SourceReleases, CandidateWaits
<1>3. GivenOnce'
  BY <1>1 DEF Agreed, GivenOnce
<1>4. \A q, r : (OnItsWay(q, r)' <=> OnItsWay(q, r)) /\ (Reached(q)' <=> Reached(q))
  BY DEF OnItsWay, Reached
<1>5. Fresh'
  BY <1>1, <1>4 DEF Agreed, Fresh
<1> QED
  BY <1>2, <1>3, <1>5 DEF Agreed

LEMMA OwnerAcceptRequest ==
  ASSUME OwnershipTypeOK, Presence, ~Contention, Agreed, NEW m \in msgs, AcceptRequest(m)
  PROVE  Agreed'
<1> USE OwnershipConstants DEF OwnershipTypeOK, Agreed
<1> DEFINE p == m.to
<1>1. p \in Procs /\ m.from \in Procs /\ m.from # p /\ st[p] = "up" /\ m.type = "request"
  BY DEF Presence, Addressed, AcceptRequest
<1>2. msgs' = msgs \ {m} /\ UNCHANGED <<st, activating, requesting, delay, input, beat, beats>>
  BY DEF AcceptRequest
<1>3. CASE ~MayRelease(p)
  BY <1>2, <1>3, OwnerMessageGone DEF AcceptRequest
<1>4. CASE MayRelease(p)
  <2>1. /\ active[p] /\ active' = [active EXCEPT ![p] = FALSE]
        /\ peer' = [peer EXCEPT ![p] = m.from] /\ timer' = [timer EXCEPT ![p] = Cleared]
    BY <1>4 DEF AcceptRequest, Relinquished, MayRelease
  <2>2. activating[p] = 0 /\ peer[p] = None /\ input[p] = "open" /\ Holds(p)
    BY <1>1, <2>1 DEF ActiveHolds, Holds
  <2>3. \A q \in Procs : q # p => ~Holds(q)
    BY <1>1, <2>2 DEF OneHolds
  <2>4. ~Candidate(p) /\ ~Candidate(p)'
    BY <1>1, <2>1 DEF Candidate
  <2>5. \A q \in Procs : Candidate(q)' <=> Candidate(q)
    BY <1>1, <1>2, <2>1, <2>4 DEF Candidate
  <2>6. OneHolds' /\ ActiveHolds'
    BY <1>1, <1>2, <2>1, <2>3 DEF OneHolds, ActiveHolds, Holds
  <2>7. st[m.from] = "up" => Candidate(m.from) /\ timer[m.from] = Cleared
    BY <1>1, <2>2 DEF GivenOnce
  <2>8. SourceReleases'
    <3>1. peer'[p] = m.from /\ ~active'[p] /\ timer'[p] = Cleared /\ \A q \in Procs : q # p => peer'[q] = peer[q]
      BY <1>1, <2>1
    <3>2. \A q \in Procs : q # p => active'[q] = active[q] /\ timer'[q] = timer[q]
      BY <1>1, <2>1
    <3>3. \A q \in Procs : q # p /\ peer[q] # None => input[q] = "stopped"
      BY <2>3 DEF SourceReleases, Holds
    <3> QED
      BY <1>1, <1>2, <2>2, <2>5, <2>7, <3>1, <3>2, <3>3 DEF SourceReleases
  <2>9. CandidateWaits'
    BY <1>1, <1>2, <2>1, <2>2, <2>4, <2>5 DEF CandidateWaits
  <2>10. GivenOnce'
    <3> SUFFICES ASSUME NEW n \in msgs
                 PROVE  /\ n.type \in {"fin", "subscriber"} => ~Candidate(n.to)
                        /\ n.type = "request" /\ st[n.from] = "up" =>
                             /\ timer'[n.from] = Cleared
                             /\ peer'[n.to] # None \/ (active'[n.to] /\ Candidate(n.from))
      BY <1>2, <2>5 DEF GivenOnce
    <3>1. n.to \in Procs /\ n.from \in Procs
      OBVIOUS
    <3> QED
      BY <1>1, <2>1, <2>2, <2>4, <3>1 DEF GivenOnce
  <2>11. Fresh'
    BY <1>1, <1>2, <2>1, <2>4, <2>5 DEF Fresh, OnItsWay, Reached
  <2> QED
    BY <2>6, <2>8, <2>9, <2>10, <2>11
<1> QED
  BY <1>3, <1>4

LEMMA OwnerAcceptSubscriber ==
  ASSUME OwnershipTypeOK, Presence, ~Contention, Agreed, NEW m \in msgs, AcceptSubscriber(m)
  PROVE  Agreed'
<1> USE OwnershipConstants DEF OwnershipTypeOK, Agreed
<1> DEFINE p == m.to
<1>1. p \in Procs /\ st[p] = "up" /\ m.type = "subscriber"
  BY DEF Presence, Addressed, AcceptSubscriber
<1>2. /\ msgs' = msgs \ {m} /\ input' = [input EXCEPT ![p] = IF peer[p] = None THEN "open" ELSE @]
      /\ UNCHANGED <<st, active, timer, activating, requesting, delay, peer, beat, beats>>
  BY DEF AcceptSubscriber
<1>3. CASE ~Candidate(p)
  <2>1. input' = input
    BY <1>1, <1>2, <1>3 DEF Candidate, ActiveHolds
  <2> QED
    BY <1>2, <2>1, OwnerMessageGone
<1>4. CASE Candidate(p)
  <2>1. \A q \in Procs : q # p => ~Holds(q)
    BY <1>1, <1>4 DEF GivenOnce
  <2>2. \A q \in Procs : (Candidate(q)' <=> Candidate(q)) /\ (q # p => ~Holds(q)')
    BY <1>1, <1>2, <2>1 DEF Candidate, Holds
  <2>3. OneHolds' /\ ActiveHolds'
    BY <1>1, <1>2, <1>4, <2>2 DEF OneHolds, ActiveHolds, Candidate
  <2>4. SourceReleases' /\ CandidateWaits'
    BY <1>1, <1>2, <1>4, <2>2 DEF SourceReleases, CandidateWaits, Candidate
  <2>5. GivenOnce'
    <3> SUFFICES ASSUME NEW n \in msgs
                 PROVE  /\ n.type \in {"fin", "subscriber"} /\ Candidate(n.to) =>
                             /\ timer[n.to] = Cleared /\ delay[n.to] = Idle
                             /\ \A q \in Procs : Holds(q)' => q = n.to
                        /\ n.type = "request" /\ st[n.from] = "up" =>
                             /\ timer[n.from] = Cleared
                             /\ peer[n.to] # None \/ (active[n.to] /\ Candidate(n.from))
      BY <1>2, <2>2 DEF GivenOnce
    <3>1. n.to \in Procs /\ n.from \in Procs
      OBVIOUS
    <3>2. Candidate(n.to) => n.to = p
      BY <1>1, <1>4, <3>1, OnlyCandidate DEF Candidate
    <3> QED
      BY <1>1, <2>2, <3>1, <3>2 DEF GivenOnce
  <2>6. Fresh'
    BY <1>2, <2>2 DEF Fresh, OnItsWay, Reached
  <2> QED
    BY <2>3, <2>4, <2>5, <2>6
<1> QED
  BY <1>3, <1>4

LEMMA OwnerAcceptFin ==
  ASSUME OwnershipTypeOK, Presence, ~Contention, Agreed, OwnershipTypeOK',
         NEW m \in msgs, AcceptFin(m)
  PROVE  Agreed'
<1> USE OwnershipConstants DEF OwnershipTypeOK, Agreed
<1> DEFINE p == m.to
<1>1. p \in Procs /\ st[p] = "up" /\ m.type = "fin"
  BY DEF Presence, Addressed, AcceptFin
<1>2. UNCHANGED <<st, timer, activating, requesting, delay, peer, beat, beats>>
  BY DEF AcceptFin
<1>3. CASE peer[p] # None
  BY <1>2, <1>3, OwnerMessageGone DEF AcceptFin
<1>4. CASE peer[p] = None
  <2>1. /\ active' = [active EXCEPT ![p] = TRUE]
        /\ input' = [input EXCEPT ![p] = IF @ = "stopped" THEN @ ELSE "open"]
        /\ \A n \in msgs' : n \in msgs \/ n.type = "ack"
    BY <1>4 DEF AcceptFin, Become, Published
  <2>2. /\ \A q \in Procs : q # p => ~Holds(q)
        /\ timer[p] \in {Fired, Cleared} /\ activating[p] = 0 /\ delay[p] = Idle
        /\ input[p] # "stopped"
    <3>1. CASE active[p]
      <4>1. Holds(p) /\ ~Candidate(p)
        BY <3>1 DEF Holds, Candidate
      <4> QED
        BY <1>1, <3>1, <4>1 DEF OneHolds, ActiveHolds, CandidateWaits
    <3>2. CASE ~active[p]
      <4>1. Candidate(p)
        BY <1>1, <1>4, <3>2 DEF Candidate
      <4> QED
        BY <1>1, <4>1 DEF GivenOnce, CandidateWaits
    <3> QED
      BY <3>1, <3>2
  <2>3. /\ \A q \in Procs : q # p => (Candidate(q)' <=> Candidate(q)) /\ ~Holds(q)'
        /\ ~Candidate(p)'
    BY <1>1, <1>2, <2>1, <2>2 DEF Candidate, Holds
  <2>4. OneHolds' /\ ActiveHolds'
    <3>1. active'[p] /\ input'[p] = "open" /\ \A q \in Procs : q # p => ~active'[q]
      BY <1>1, <2>1, <2>2, <2>3 DEF Holds
    <3> QED
      BY <1>1, <1>2, <1>4, <2>2, <2>3, <3>1 DEF OneHolds, ActiveHolds
  <2>5. SourceReleases'
    <3>1. \A q \in Procs : peer[q] # None => q # p /\ input[q] = "stopped"
      BY <1>4, <2>2 DEF SourceReleases, Holds
    <3> QED
      BY <1>1, <1>2, <2>1, <3>1 DEF SourceReleases
  <2>6. CandidateWaits'
    BY <1>1, <1>2, <2>1, <2>2, <2>3 DEF CandidateWaits, Holds
  <2>7. active[p] \/ \A q \in Procs : ~Candidate(q)'
    <3>1. CASE active[p]
      BY <3>1
    <3>2. CASE ~active[p]
      BY <1>1, <1>4, <2>3, <3>2, OnlyCandidate DEF Candidate
    <3> QED
      BY <3>1, <3>2
  <2>8. CASE active[p]
    <3>1. active' = active /\ input' = input
      BY <1>1, <2>1, <2>8 DEF ActiveHolds
    <3>2. \A q \in Procs : (Candidate(q)' <=> Candidate(q)) /\ (Holds(q)' <=> Holds(q))
      BY <1>2, <3>1 DEF Candidate, Holds
    <3>3. \A n \in msgs' : n.to \in Procs /\ n.from \in Procs
      OBVIOUS
    <3>4. GivenOnce'
      BY <1>2, <2>1, <3>1, <3>2, <3>3 DEF GivenOnce
    <3>5. Fresh'
      BY <1>2, <3>1, <3>2 DEF Fresh, OnItsWay, Reached
    <3> QED
      BY <2>4, <2>5, <2>6, <3>4, <3>5
  <2>9. CASE ~active[p]
    <3>1. \A q \in Procs : ~Candidate(q)'
      BY <2>7, <2>9
    <3>3. GivenOnce'
      <4> SUFFICES ASSUME NEW n \in msgs', n.type = "request", st'[n.from] = "up"
                   PROVE  timer'[n.from] = Cleared /\ peer'[n.to] # None
        <5>1. \A n \in msgs' : n.to \in Procs /\ n.from \in Procs
          OBVIOUS
        <5> QED
          BY <3>1, <5>1 DEF GivenOnce
      <4>1. n \in msgs /\ n.to \in Procs /\ n.from \in Procs /\ st[n.from] = "up"
        BY <1>2, <2>1
      <4>2. ~active[n.to]
        BY <2>2, <2>9, <4>1 DEF Holds
      <4> QED
        BY <1>2, <4>1, <4>2 DEF GivenOnce
    <3>4. Fresh'
      BY <3>1 DEF Fresh
    <3> QED
      BY <2>4, <2>5, <2>6, <3>3, <3>4
  <2> QED
    BY <2>8, <2>9
<1> QED
  BY <1>3, <1>4

LEMMA OwnerTick ==
  ASSUME OwnershipTypeOK, Presence, Agreed, Tick
  PROVE  Agreed'
<1> USE OwnershipConstants DEF OwnershipTypeOK, Agreed
<1>1. /\ beats = {} /\ beats' = {} /\ msgs' = {}
      /\ UNCHANGED <<st, active, activating, requesting, peer, input>>
      /\ \A p \in UpProcs : timer[p] # 0 /\ delay[p] # 0 /\ beat[p] # 0
  BY DEF Tick
<1>2. \A p \in Procs : timer'[p] = IF timer[p] \in 1..ActiveTimeout THEN timer[p] - 1 ELSE timer[p]
  BY DEF Tick, Down
<1>3. \A p \in Procs : delay'[p] # Idle => delay[p] # Idle
  BY DEF Tick, Down
<1>4. \A p \in UpProcs : beat'[p] = beat[p] - 1
  BY DEF Tick, UpProcs
<1>5. \A p \in Procs : (Candidate(p)' <=> Candidate(p)) /\ (Holds(p)' <=> Holds(p))
  BY <1>1 DEF Candidate, Holds
<1>6. \A p \in Procs : timer'[p] = Cleared <=> timer[p] = Cleared
  BY <1>2
<1>7. \A p \in Procs : timer[p] \in {Fired, Cleared} => timer'[p] = timer[p]
  BY <1>2
<1>8. OneHolds' /\ ActiveHolds' /\ SourceReleases' /\ GivenOnce'
  BY <1>1, <1>5, <1>6, <1>7 DEF OneHolds, ActiveHolds, SourceReleases, GivenOnce
<1>9. CandidateWaits'
  BY <1>1, <1>3, <1>5, <1>6, <1>7 DEF CandidateWaits
<1>10. Fresh'
  <2>1. \A p \in Procs : ~Reached(p)'
    BY <1>1 DEF Reached
  <2>2. \A p, q \in Procs : ~OnItsWay(q, p)
    BY <1>1 DEF OnItsWay
  <2>3. \A q \in Procs : active[q] => beat'[q] = beat[q] - 1
    BY <1>4 DEF Presence, AbsentIdle, UpProcs
  <2> QED
    BY <1>1, <1>2, <1>5, <2>1, <2>2, <2>3 DEF Fresh
<1> QED
  BY <1>8, <1>9, <1>10

\* The history of contention keeps what follows to states without contention.
LEMMA OwnerStep ==
  OwnershipTypeOK /\ OwnershipTypeOK' /\ Presence /\ OwnerHolds /\ [OwnershipNext]_ownershipVars
    => OwnerHolds'
<1> SUFFICES ASSUME OwnershipTypeOK, OwnershipTypeOK', Presence, OwnerHolds,
                    [OwnershipNext]_ownershipVars, ~contended'
             PROVE  ~Contention' /\ Agreed'
  BY DEF OwnerHolds
<1>1. CASE UNCHANGED ownershipVars
  <2>1. ~Contention /\ Agreed
    BY <1>1 DEF OwnerHolds, ownershipVars
  <2>2. Contention' <=> Contention
    <3>1. UpProcs' = UpProcs
      BY <1>1 DEF ownershipVars, UpProcs
    <3>2. \A p \in Procs : Unowned(p)' <=> Unowned(p)
      BY <1>1, <3>1 DEF ownershipVars, Unowned
    <3> QED
      BY <1>1, <3>1, <3>2 DEF ownershipVars, Contention
  <2>3. Agreed'
    BY <1>1, <2>1, OwnerMessageGone DEF ownershipVars
  <2> QED
    BY <2>1, <2>2, <2>3
<1>2. CASE Tick
  <2>1. ~Contention /\ Agreed
    BY <1>2 DEF OwnerHolds, Tick
  <2>2. \A p \in Procs : timer'[p] = Cleared => timer[p] = Cleared
    BY <1>2, OwnershipConstants DEF Tick, Down, OwnershipTypeOK
  <2>3. ~Contention'
    BY <1>2, <2>1, <2>2 DEF Tick, Contention, Unowned, UpProcs
  <2> QED
    BY <1>2, <2>1, <2>3, OwnerTick
<1>3. CASE contended' = (contended \/ Contention')
  <2>1. ~Contention /\ ~Contention' /\ Agreed
    BY <1>3 DEF OwnerHolds, OwnershipTypeOK
  <2>2. ASSUME NEW m \in msgs, Deliver(m) \/ Lose(m) PROVE Agreed'
    <3>1. CASE AcceptAck(m)
      <4>1. m.to \in Procs
        BY DEF OwnershipTypeOK
      <4> QED
        BY <2>1, <3>1, <4>1, OwnerGone, OwnerMessageGone DEF AcceptAck
    <3>2. CASE Lose(m)
      BY <2>1, <3>2, OwnerMessageGone DEF Lose
    <3> QED
      BY <2>1, <2>2, <3>1, <3>2, OwnerAcceptRequest, OwnerAcceptSubscriber, OwnerAcceptFin
      DEF Deliver
  <2>3. ASSUME NEW p \in Procs,
               Begin(p) \/ Heartbeat(p) \/ Crash(p) \/ TimerFires(p) \/ Activated(p)
                 \/ ActivationFails(p) \/ SendRequest(p) \/ Release(p)
        PROVE  Agreed'
    BY <2>1, <2>3, OwnerBegin, OwnerHeartbeat, OwnerGone, OwnerTimerFires, OwnerActivated,
       OwnerActivationFails, OwnerSendRequest, OwnerRelease DEF Crash
  <2>4. ASSUME NEW b \in beats, HearHeartbeat(b) PROVE Agreed'
    BY <2>1, <2>4, OwnerHearHeartbeat
  <2> QED
    BY <1>1, <1>2, <2>1, <2>2, <2>3, <2>4 DEF OwnershipNext, Noted
<1> QED
  BY <1>1, <1>2, <1>3 DEF OwnershipNext, Noted

LEMMA OwnerInit == OwnershipInit => OwnerHolds
<1> SUFFICES ASSUME OwnershipInit PROVE ~Contention /\ Agreed
  BY DEF OwnerHolds
<1>1. /\ st = [p \in Procs |-> "off"] /\ active = [p \in Procs |-> FALSE]
      /\ requesting = [p \in Procs |-> FALSE] /\ input = [p \in Procs |-> "closed"]
      /\ timer = [p \in Procs |-> Cleared] /\ delay = [p \in Procs |-> Idle]
      /\ activating = [p \in Procs |-> 0] /\ peer = [p \in Procs |-> None] /\ msgs = {}
  BY DEF OwnershipInit
<1>2. ~Contention /\ \A p \in Procs : ~Candidate(p) /\ ~Holds(p)
  BY <1>1 DEF Contention, Unowned, UpProcs, Candidate, Holds
<1> QED
  BY <1>1, <1>2 DEF Agreed, OneHolds, ActiveHolds, SourceReleases, CandidateWaits, GivenOnce, Fresh

\* Whatever processes there are, whichever of them start, fail, crash or lose
\* messages: what is not up owns nothing and is sent nothing, and as long as no
\* two processes contended the processes agree on who owns the service.
THEOREM OwnershipInvariant == OwnershipSpec => [](OwnershipTypeOK /\ Presence /\ OwnerHolds)
<1>1. OwnershipInit => OwnershipTypeOK /\ Presence /\ OwnerHolds
  BY OwnershipTypesInit, PresenceInit, OwnerInit
<1>2. OwnershipTypeOK /\ Presence /\ OwnerHolds /\ [OwnershipNext]_ownershipVars
        => (OwnershipTypeOK /\ Presence /\ OwnerHolds)'
  BY OwnershipTypesStep, PresenceStep, OwnerStep
<1> QED
  BY <1>1, <1>2, PTL DEF OwnershipSpec

\* Where no two processes contended and none was started by force, at most one of
\* them takes input: through start-ups, hand-overs of the first protocol,
\* time-outs, failed activations, crashes and lost messages (handover-manager.ts).
THEOREM OneOwner == OwnershipSpec => []SingleOwner
<1>1. OwnershipTypeOK /\ OwnerHolds => SingleOwner
  BY DEF OwnerHolds, Agreed, OneHolds, Holds, SingleOwner
<1> QED
  BY <1>1, OwnershipInvariant, PTL

-----------------------------------------------------------------------------
(* Two processes: also when they contend, when one is started by force and *)
(* when activations fail, the timer of one does not fire over the other.   *)

AtMostTwo == \A p, q, r \in Procs : p = q \/ q = r \/ p = r

Running(p) == timer[p] <= ActiveTimeout

\* Has not heard of anybody, and has had at most one promotion.
Untouched(p) ==
    \/ st[p] = "off"
    \/ /\ st[p] = "up" /\ ~active[p] /\ peer[p] = None /\ ~requesting[p]
       /\ timer[p] # Cleared /\ activating[p] <= 1
       /\ Running(p) => activating[p] = 0

\* The first that became active: nothing is pending that could make it passive.
First(x) ==
    /\ st[x] = "up" /\ active[x] /\ peer[x] = None /\ ~requesting[x]
    /\ timer[x] = Fired /\ activating[x] = 0

\* y hears x in time, or x has not been active for an interval.
Heard(x, y) ==
    \/ timer[y] >= ActiveTimeout - HeartbeatInterval + beat[x]
    \/ timer[y] > 0 /\ OnItsWay(x, y)
    \/ /\ activating[y] = 0 /\ since[x] <= HeartbeatInterval
       /\ since[x] + beat[x] <= HeartbeatInterval \/ OnItsWay(x, y)

Beside(x, y) ==
    \/ timer[y] = Cleared
    \/ /\ peer[y] = None /\ ~requesting[y] /\ activating[y] <= 1
       /\ Running(y) => IF active[y] THEN activating[y] = 0 ELSE Heard(x, y)

SomeGone == \E p \in Procs : st[p] = "gone"
Nobody == /\ \A p \in Procs : Untouched(p)
          /\ beats = {} /\ msgs = {} /\ retained.from = None
FirstBeside == \E x \in Procs : First(x) /\ \A y \in Procs \ {x} : Beside(x, y)
NoTimers == \A p \in Procs : st[p] = "up" /\ timer[p] = Cleared

\* Who sends a fin keeps the peer it has released to.
FinsReleased == \A m \in msgs :
    m.type = "fin" => st[m.from] = "gone" \/ peer[m.from] # None

TwoHold == FinsReleased /\ (SomeGone \/ Nobody \/ FirstBeside \/ NoTimers)

\* A heartbeat goes to everybody that is up, if its sender is active.
LEMMA HeartbeatEffect ==
  ASSUME NEW p \in Procs, Heartbeat(p)
  PROVE  /\ UNCHANGED <<st, active, timer, activating, requesting, peer, since>>
         /\ beat[p] = 0 /\ beat' = [beat EXCEPT ![p] = HeartbeatInterval]
         /\ beats \subseteq beats'
         /\ active[p] => beats' = beats \cup {<<p, q, FALSE>> : q \in UpProcs \ {p}}
<1>1. /\ UNCHANGED <<st, active, timer, activating, requesting, peer, since>>
      /\ beat[p] = 0 /\ beat' = [beat EXCEPT ![p] = HeartbeatInterval]
  BY DEF Heartbeat
<1>2. CASE active[p]
  <2>1. beats' = beats \cup {<<p, q, FALSE>> : q \in UpProcs \ {p}}
    BY <1>2, Zenon DEF Heartbeat
  <2>2. beats \subseteq beats'
    BY <2>1, Zenon
  <2> QED
    BY <1>1, <2>1, <2>2
<1>3. CASE ~active[p]
  <2>1. beats' = beats
    BY <1>3, Zenon DEF Heartbeat
  <2> QED
    BY <1>1, <1>3, <2>1
<1> QED
  BY <1>2, <1>3

LEMMA GoneStays ==
  ASSUME OwnershipTypeOK, [OwnershipNext]_ownershipVars, NEW p \in Procs, st[p] = "gone"
  PROVE  st'[p] = "gone"
<1>1. CASE UNCHANGED st
  BY <1>1
<1>2. ASSUME NEW q \in Procs, Begin(q) \/ Gone(q) PROVE st'[p] = "gone"
  BY <1>2 DEF Begin, Gone, OwnershipTypeOK
<1>3. ASSUME NEW m \in msgs, Deliver(m) PROVE UNCHANGED st \/ (Gone(m.to) /\ m.to \in Procs)
  <2>1. m.to \in Procs
    BY DEF OwnershipTypeOK
  <2> QED
    BY <1>3, <2>1
    DEF Deliver, AcceptRequest, AcceptSubscriber, AcceptFin, AcceptAck
<1>4. ASSUME NEW q \in Procs,
             Heartbeat(q) \/ TimerFires(q) \/ Activated(q) \/ ActivationFails(q)
               \/ SendRequest(q) \/ Release(q)
      PROVE  UNCHANGED st
  BY <1>4 DEF Heartbeat, TimerFires, Activated, ActivationFails, SendRequest, Release
<1>5. ASSUME NEW q \in Procs, Crash(q) PROVE Gone(q)
  BY <1>5 DEF Crash
<1>6. CASE Tick \/ UNCHANGED ownershipVars
  BY <1>6 DEF Tick, ownershipVars
<1>7. ASSUME NEW b \in beats, HearHeartbeat(b) PROVE UNCHANGED st
  BY <1>7 DEF HearHeartbeat
<1>8. ASSUME NEW m \in msgs, Lose(m) PROVE UNCHANGED st
  BY <1>8 DEF Lose
<1> QED
  BY <1>1, <1>2, <1>3, <1>4, <1>5, <1>6, <1>7, <1>8 DEF OwnershipNext, Noted

LEMMA FinsStep ==
  ASSUME OwnershipTypeOK, OwnershipTypeOK', FinsReleased, [OwnershipNext]_ownershipVars
  PROVE  FinsReleased'
<1> USE OwnershipConstants DEF OwnershipTypeOK
<1> SUFFICES ASSUME NEW m \in msgs', m.type = "fin", st'[m.from] # "gone"
             PROVE  peer'[m.from] # None
  BY DEF FinsReleased
<1> DEFINE p == m.from
<1>1. p \in Procs
  OBVIOUS
<1>2. st[p] # "gone"
  BY <1>1, GoneStays
<1>3. CASE Release(p)
  BY <1>1, <1>3 DEF Release
<1>4. CASE m \in msgs
  <2>1. peer[p] # None
    BY <1>2, <1>4 DEF FinsReleased
  <2>2. CASE UNCHANGED peer
    BY <2>1, <2>2
  <2>3. ASSUME NEW q \in Procs, Gone(q) PROVE peer'[p] # None
    BY <1>1, <2>1, <2>3 DEF Gone
  <2>4. ASSUME NEW n \in msgs, AcceptRequest(n) PROVE peer'[p] # None
    <3>1. n.to \in Procs /\ n.from \in Procs
      OBVIOUS
    <3> QED
      BY <1>1, <2>1, <2>4, <3>1 DEF AcceptRequest
  <2>5. ASSUME NEW n \in msgs, AcceptAck(n) PROVE peer'[p] # None
    <3>1. n.to \in Procs
      OBVIOUS
    <3> QED
      BY <2>2, <2>3, <2>5, <3>1 DEF AcceptAck
  <2>6. ASSUME NEW q \in Procs,
               Begin(q) \/ Heartbeat(q) \/ TimerFires(q) \/ Activated(q) \/ ActivationFails(q)
                 \/ SendRequest(q) \/ Release(q)
        PROVE  UNCHANGED peer
    BY <2>6 DEF Begin, Heartbeat, TimerFires, Activated, ActivationFails, SendRequest, Release
  <2>7. ASSUME NEW b \in beats, HearHeartbeat(b) PROVE UNCHANGED peer
    BY <2>7 DEF HearHeartbeat
  <2>8. ASSUME NEW n \in msgs, AcceptSubscriber(n) \/ AcceptFin(n) \/ Lose(n) PROVE UNCHANGED peer
    BY <2>8 DEF AcceptSubscriber, AcceptFin, Lose
  <2>9. CASE Tick \/ UNCHANGED ownershipVars
    BY <2>2, <2>9 DEF Tick, ownershipVars
  <2> QED
    BY <2>2, <2>3, <2>4, <2>5, <2>6, <2>7, <2>8, <2>9 DEF OwnershipNext, Noted, Deliver, Crash
<1>5. CASE m \notin msgs
  <2>1. ASSUME NEW q \in Procs, SendRequest(q) PROVE FALSE
    BY <1>5, <2>1 DEF SendRequest, Published
  <2>2. ASSUME NEW q \in Procs, Release(q) PROVE q = p
    BY <1>5, <2>2 DEF Release, Published
  <2>3. ASSUME NEW n \in msgs, AcceptFin(n) PROVE FALSE
    BY <1>5, <2>3 DEF AcceptFin, Published
  <2>4. ASSUME NEW n \in msgs, AcceptRequest(n) \/ AcceptSubscriber(n) \/ AcceptAck(n) \/ Lose(n)
        PROVE  FALSE
    BY <1>5, <2>4 DEF AcceptRequest, AcceptSubscriber, AcceptAck, Gone, Lose
  <2>5. ASSUME NEW q \in Procs,
               Begin(q) \/ Heartbeat(q) \/ TimerFires(q) \/ Activated(q) \/ ActivationFails(q)
                 \/ Crash(q)
        PROVE  FALSE
    BY <1>5, <2>5 DEF Begin, Heartbeat, TimerFires, Activated, ActivationFails, Crash, Gone
  <2>6. ASSUME NEW b \in beats, HearHeartbeat(b) PROVE FALSE
    BY <1>5, <2>6 DEF HearHeartbeat
  <2>7. ~Tick /\ ~UNCHANGED ownershipVars
    BY <1>5 DEF Tick, ownershipVars
  <2> QED
    BY <1>3, <2>1, <2>2, <2>3, <2>4, <2>5, <2>6, <2>7 DEF OwnershipNext, Noted, Deliver
<1> QED
  BY <1>4, <1>5

LEMMA NobodyStep ==
  ASSUME OwnershipTypeOK, Presence, OwnershipTypeOK', Nobody, [OwnershipNext]_ownershipVars
  PROVE  SomeGone' \/ Nobody' \/ FirstBeside'
<1> USE OwnershipConstants DEF OwnershipTypeOK, Nobody
<1>1. ASSUME NEW p \in Procs, Begin(p) PROVE Nobody'
  <2>1. /\ st[p] = "off" /\ st' = [st EXCEPT ![p] = "up"] /\ beats' = beats
        /\ timer' = [timer EXCEPT ![p] = ActiveTimeout]
        /\ UNCHANGED <<active, activating, requesting, peer, retained, msgs>>
    BY <1>1 DEF Begin
  <2> QED
    BY <2>1 DEF Presence, AbsentIdle, Untouched, Running
<1>2. ASSUME NEW p \in Procs, Heartbeat(p) PROVE Nobody'
  <2>1. ~active[p]
    BY DEF Untouched, Presence, AbsentIdle
  <2>2. /\ beats' = beats /\ retained' = [from |-> None, ttl |-> 0]
        /\ UNCHANGED <<st, active, timer, activating, requesting, peer, msgs>>
    BY <1>2, <2>1 DEF Heartbeat
  <2> QED
    BY <2>2 DEF Untouched, Running
<1>3. ASSUME NEW p \in Procs, Gone(p) PROVE SomeGone'
  BY <1>3 DEF Gone, SomeGone
<1>4. ASSUME NEW p \in Procs, TimerFires(p) PROVE Nobody'
  <2>1. /\ st[p] = "up" /\ timer[p] = 0 /\ timer' = [timer EXCEPT ![p] = Fired]
        /\ activating' = [activating EXCEPT ![p] = @ + 1]
        /\ UNCHANGED <<st, active, requesting, peer, beats, retained, msgs>>
    BY <1>4 DEF TimerFires, UpProcs
  <2>2. activating[p] = 0
    BY <2>1 DEF Untouched, Running
  <2> QED
    BY <2>1, <2>2 DEF Untouched, Running
<1>5. ASSUME NEW p \in Procs, Activated(p) PROVE FirstBeside'
  <2>1. /\ activating[p] > 0 /\ activating' = [activating EXCEPT ![p] = @ - 1]
        /\ active' = [active EXCEPT ![p] = TRUE]
        /\ since' = [since EXCEPT ![p] = IF active[p] THEN @ ELSE 0]
        /\ UNCHANGED <<st, timer, requesting, peer, beat>>
    BY <1>5 DEF Activated, Become
  <2>2. /\ st[p] = "up" /\ ~active[p] /\ peer[p] = None /\ ~requesting[p]
        /\ timer[p] = Fired /\ activating[p] = 1
    BY <2>1 DEF Presence, AbsentIdle, Untouched, Running
  <2>3. First(p)'
    BY <2>1, <2>2 DEF First
  <2>4. ASSUME NEW y \in Procs \ {p} PROVE Beside(p, y)'
    <3>1. CASE st[y] = "off"
      BY <2>1, <3>1 DEF Presence, AbsentIdle, Beside
    <3>2. CASE st[y] = "up"
      <4>1. /\ peer'[y] = None /\ ~requesting'[y] /\ activating'[y] <= 1 /\ ~active'[y]
            /\ Running(y)' => activating'[y] = 0
        BY <2>1, <3>2 DEF Untouched, Running
      <4>2. since'[p] = 0 /\ beat'[p] \in 0..HeartbeatInterval
        BY <2>1, <2>2
      <4>3. activating'[y] = 0 => Heard(p, y)'
        BY <4>2 DEF Heard
      <4> QED
        BY <4>1, <4>3 DEF Beside
    <3> QED
      BY <3>1, <3>2 DEF Untouched
  <2> QED
    BY <2>3, <2>4 DEF FirstBeside
<1>6. ASSUME NEW p \in Procs, ActivationFails(p) PROVE Nobody'
  <2>1. /\ activating[p] > 0 /\ activating' = [activating EXCEPT ![p] = @ - 1]
        /\ active' = [active EXCEPT ![p] = FALSE]
        /\ UNCHANGED <<st, timer, requesting, peer, beats, retained, msgs>>
    BY <1>6 DEF ActivationFails
  <2> QED
    BY <2>1 DEF Untouched, Running
<1>7. ASSUME NEW p \in Procs, SendRequest(p) \/ Release(p) PROVE FALSE
  <2>1. st[p] = "up" /\ (requesting[p] \/ peer[p] # None)
    BY <1>7 DEF SendRequest, Release, UpProcs, Presence, Asked
  <2> QED
    BY <2>1 DEF Untouched
<1>8. CASE Tick
  <2>1. /\ UNCHANGED <<st, active, activating, requesting, peer, beats, msgs>>
        /\ \A p \in Procs : timer'[p] = IF timer[p] \in 1..ActiveTimeout THEN timer[p] - 1 ELSE timer[p]
        /\ retained.from = None => retained'.from = None
    BY <1>8 DEF Tick, Down
  <2> QED
    BY <2>1 DEF Untouched, Running
<1>9. CASE UNCHANGED ownershipVars
  BY <1>9 DEF ownershipVars, Untouched, Running
<1>10. ASSUME NEW p \in Procs, Crash(p) PROVE Gone(p)
  BY <1>10 DEF Crash
<1> QED
  BY <1>1, <1>2, <1>3, <1>4, <1>5, <1>6, <1>7, <1>8, <1>9, <1>10 DEF OwnershipNext, Noted

LEMMA NoTimersStep ==
  ASSUME OwnershipTypeOK, NoTimers, [OwnershipNext]_ownershipVars
  PROVE  SomeGone' \/ NoTimers'
<1> USE OwnershipConstants DEF OwnershipTypeOK, NoTimers
<1>1. CASE UNCHANGED <<st, timer>>
  BY <1>1
<1>2. ASSUME NEW p \in Procs, Begin(p) \/ TimerFires(p) PROVE FALSE
  <2>1. st[p] = "up" /\ timer[p] # 0
    OBVIOUS
  <2> QED
    BY <1>2, <2>1 DEF Begin, TimerFires
<1>3. ASSUME NEW p \in Procs, Gone(p) PROVE SomeGone'
  BY <1>3 DEF Gone, SomeGone
<1>4. ASSUME NEW p \in Procs,
             Heartbeat(p) \/ Activated(p) \/ ActivationFails(p) \/ SendRequest(p) \/ Release(p)
      PROVE  UNCHANGED <<st, timer>>
  BY <1>4 DEF Heartbeat, Activated, ActivationFails, SendRequest, Release
<1>5. ASSUME NEW b \in beats, HearHeartbeat(b) PROVE NoTimers'
  <2>1. b[2] \in Procs
    OBVIOUS
  <2> QED
    BY <1>5, <2>1 DEF HearHeartbeat, Refreshed
<1>6. ASSUME NEW m \in msgs, AcceptRequest(m) PROVE NoTimers'
  BY <1>6 DEF AcceptRequest
<1>7. ASSUME NEW m \in msgs, AcceptSubscriber(m) \/ AcceptFin(m) \/ Lose(m)
      PROVE  UNCHANGED <<st, timer>>
  BY <1>7 DEF AcceptSubscriber, AcceptFin, Lose
<1>8. ASSUME NEW m \in msgs, AcceptAck(m) PROVE SomeGone' \/ NoTimers'
  <2>1. m.to \in Procs
    OBVIOUS
  <2> QED
    BY <1>3, <1>8, <2>1 DEF AcceptAck
<1>9. CASE Tick
  BY <1>9 DEF Tick, Down
<1>10. CASE UNCHANGED ownershipVars
  BY <1>10 DEF ownershipVars
<1>11. ASSUME NEW p \in Procs, Crash(p) PROVE Gone(p)
  BY <1>11 DEF Crash
<1> QED
  BY <1>1, <1>2, <1>3, <1>4, <1>5, <1>6, <1>7, <1>8, <1>9, <1>10, <1>11
  DEF OwnershipNext, Noted, Deliver

\* What leaves the first and its neighbour as they are.
LEMMA BesideKept ==
  ASSUME NEW x \in Procs, NEW y \in Procs, Beside(x, y), OnItsWay(x, y) => OnItsWay(x, y)',
         timer'[y] = timer[y], peer'[y] = peer[y], requesting'[y] = requesting[y],
         activating'[y] = activating[y], active'[y] = active[y],
         beat'[x] = beat[x], since'[x] = since[x]
  PROVE  Beside(x, y)'
BY DEF Beside, Heard, Running

LEMMA FirstKept ==
  ASSUME NEW x \in Procs, First(x), UNCHANGED <<st, active, peer, requesting, timer, activating>>
  PROVE  First(x)'
BY DEF First

LEMMA FirstStep ==
  ASSUME OwnershipTypeOK, OwnershipTypeOK', Presence, AtMostTwo, FinsReleased, ~SomeGone,
         NEW x \in Procs, First(x), \A y \in Procs \ {x} : Beside(x, y),
         [OwnershipNext]_ownershipVars
  PROVE  \/ SomeGone' \/ NoTimers'
         \/ First(x)' /\ \A y \in Procs \ {x} : Beside(x, y)'
<1> USE OwnershipConstants DEF OwnershipTypeOK
<1> DEFINE Kept == First(x)' /\ \A y \in Procs \ {x} : Beside(x, y)'
<1>1. ASSUME NEW p \in Procs, Begin(p) PROVE Kept
  <2>1. /\ st[p] = "off" /\ st' = [st EXCEPT ![p] = "up"]
        /\ timer' = [timer EXCEPT ![p] = ActiveTimeout] /\ beats \subseteq beats'
        /\ UNCHANGED <<active, activating, requesting, peer, beat, since>>
    BY <1>1 DEF Begin
  <2>2. p # x /\ First(x)'
    BY <2>1 DEF First
  <2>3. ASSUME NEW y \in Procs \ {x}, y # p PROVE Beside(x, y)'
    <3>1. /\ timer'[y] = timer[y] /\ activating'[y] = activating[y] /\ active'[y] = active[y]
          /\ UNCHANGED <<peer, requesting>> /\ beat'[x] = beat[x] /\ since'[x] = since[x]
      BY <2>1, <2>2, <2>3
    <3>2. OnItsWay(x, y) => OnItsWay(x, y)'
      BY <2>1 DEF OnItsWay
    <3> QED
      BY <3>1, <3>2, BesideKept
  <2>4. Beside(x, p)'
    <3>1. timer'[p] = ActiveTimeout /\ beat'[x] \in 0..HeartbeatInterval
      BY <2>1
    <3>2. Heard(x, p)'
      BY <3>1 DEF Heard
    <3>3. peer'[p] = None /\ ~requesting'[p] /\ activating'[p] = 0
      BY <2>1 DEF Presence, AbsentIdle
    <3> QED
      BY <3>2, <3>3 DEF Beside
  <2> QED
    BY <2>2, <2>3, <2>4
<1>2. ASSUME NEW p \in Procs, Heartbeat(p) PROVE Kept
  <2>1. /\ UNCHANGED <<st, active, timer, activating, requesting, peer, since>>
        /\ beat[p] = 0 /\ beat' = [beat EXCEPT ![p] = HeartbeatInterval] /\ beats \subseteq beats'
    BY <1>2, HeartbeatEffect
  <2>2. First(x)'
    BY <2>1, FirstKept
  <2>3. CASE p # x
    <3>1. ASSUME NEW y \in Procs \ {x} PROVE OnItsWay(x, y) => OnItsWay(x, y)'
      BY <2>1 DEF OnItsWay
    <3>2. beat'[x] = beat[x]
      BY <2>1, <2>3
    <3> QED
      BY <2>1, <2>2, <3>1, <3>2, BesideKept
  <2>4. CASE p = x
    <3>1. beats' = beats \cup {<<x, q, FALSE>> : q \in UpProcs \ {x}}
      BY <1>2, <2>4, HeartbeatEffect DEF First
    <3>2. ASSUME NEW y \in Procs \ {x}, st[y] = "up" PROVE OnItsWay(x, y)'
      <4>1. y \in UpProcs \ {x}
        BY <3>2 DEF UpProcs
      <4> QED
        BY <3>1, <4>1 DEF OnItsWay
    <3>3. ASSUME NEW y \in Procs \ {x} PROVE Beside(x, y)'
      <4>1. CASE st[y] # "up"
        BY <2>1, <4>1 DEF Presence, AbsentIdle, Beside
      <4>2. CASE st[y] = "up"
        <5>1. OnItsWay(x, y)'
          BY <3>2, <4>2
        <5>2. timer[y] \in Nat /\ beat[x] = 0
          BY <2>1, <2>4
        <5>3. Heard(x, y) => Heard(x, y)'
          BY <2>1, <5>1, <5>2 DEF Heard
        <5> QED
          BY <2>1, <5>3 DEF Beside, Running
      <4> QED
        BY <4>1, <4>2
    <3> QED
      BY <2>2, <3>3
  <2> QED
    BY <2>3, <2>4
<1>3. ASSUME NEW p \in Procs, Gone(p) PROVE SomeGone'
  BY <1>3 DEF Gone, SomeGone
<1>4. ASSUME NEW p \in Procs, TimerFires(p) PROVE Kept
  <2>1. /\ timer[p] = 0 /\ timer' = [timer EXCEPT ![p] = Fired]
        /\ activating' = [activating EXCEPT ![p] = @ + 1]
        /\ UNCHANGED <<st, active, requesting, peer, beat, beats, since>>
    BY <1>4 DEF TimerFires
  <2>2. p # x /\ First(x)'
    BY <2>1 DEF First
  <2>3. ASSUME NEW y \in Procs \ {x}, y # p PROVE Beside(x, y)'
    <3>1. /\ timer'[y] = timer[y] /\ activating'[y] = activating[y] /\ active'[y] = active[y]
          /\ UNCHANGED <<peer, requesting>> /\ beat'[x] = beat[x] /\ since'[x] = since[x]
      BY <2>1, <2>2, <2>3
    <3>2. OnItsWay(x, y) => OnItsWay(x, y)'
      BY <2>1 DEF OnItsWay
    <3> QED
      BY <3>1, <3>2, BesideKept
  <2>4. activating[p] = 0 /\ peer[p] = None /\ ~requesting[p]
    BY <2>1, <2>2 DEF Beside, Heard, Running
  <2>5. Beside(x, p)'
    BY <2>1, <2>4 DEF Beside, Running
  <2> QED
    BY <2>2, <2>3, <2>5
<1>5. ASSUME NEW p \in Procs, Activated(p) PROVE Kept
  <2>1. /\ activating[p] > 0 /\ activating' = [activating EXCEPT ![p] = @ - 1]
        /\ active' = [active EXCEPT ![p] = TRUE]
        /\ since' = [since EXCEPT ![p] = IF active[p] THEN @ ELSE 0]
        /\ UNCHANGED <<st, timer, requesting, peer, beat, beats>>
    BY <1>5 DEF Activated, Become
  <2>2. p # x /\ First(x)'
    BY <2>1 DEF First
  <2>3. ASSUME NEW y \in Procs \ {x}, y # p PROVE Beside(x, y)'
    <3>1. /\ timer'[y] = timer[y] /\ activating'[y] = activating[y] /\ active'[y] = active[y]
          /\ UNCHANGED <<peer, requesting>> /\ beat'[x] = beat[x] /\ since'[x] = since[x]
      BY <2>1, <2>2, <2>3
    <3>2. OnItsWay(x, y) => OnItsWay(x, y)'
      BY <2>1 DEF OnItsWay
    <3> QED
      BY <3>1, <3>2, BesideKept
  <2>4. Beside(x, p)'
    BY <2>1, <2>2 DEF Beside
  <2> QED
    BY <2>2, <2>3, <2>4
<1>6. ASSUME NEW p \in Procs, ActivationFails(p) PROVE Kept
  <2>1. /\ activating[p] > 0 /\ activating' = [activating EXCEPT ![p] = @ - 1]
        /\ active' = [active EXCEPT ![p] = FALSE]
        /\ UNCHANGED <<st, timer, requesting, peer, beat, beats, since>>
    BY <1>6 DEF ActivationFails
  <2>2. p # x /\ First(x)'
    BY <2>1 DEF First
  <2>3. ASSUME NEW y \in Procs \ {x}, y # p PROVE Beside(x, y)'
    <3>1. /\ timer'[y] = timer[y] /\ activating'[y] = activating[y] /\ active'[y] = active[y]
          /\ UNCHANGED <<peer, requesting>> /\ beat'[x] = beat[x] /\ since'[x] = since[x]
      BY <2>1, <2>2, <2>3
    <3>2. OnItsWay(x, y) => OnItsWay(x, y)'
      BY <2>1 DEF OnItsWay
    <3> QED
      BY <3>1, <3>2, BesideKept
  <2>4. Beside(x, p)'
    <3>1. activating'[p] = activating[p] - 1 /\ ~active'[p] /\ activating[p] \in Nat
      BY <2>1
    <3>2. Heard(x, p) => Heard(x, p)'
      BY <2>1, <3>1 DEF Heard, OnItsWay
    <3> QED
      BY <2>1, <2>2, <3>1, <3>2 DEF Beside, Running
  <2> QED
    BY <2>2, <2>3, <2>4
<1>7. ASSUME UNCHANGED <<st, active, timer, activating, requesting, peer, beat, beats, since>>
      PROVE  Kept
  BY <1>7, FirstKept, BesideKept DEF OnItsWay
<1>8. ASSUME NEW p \in Procs, SendRequest(p) \/ Release(p) PROVE Kept
  BY <1>7, <1>8 DEF SendRequest, Release
<1>9. ASSUME NEW b \in beats, HearHeartbeat(b) PROVE Kept
  <2> DEFINE p == b[2]
  <2>1. /\ p \in Procs /\ beats' = beats \ {b}
        /\ UNCHANGED <<st, active, peer, beat, since>>
    BY <1>9 DEF HearHeartbeat
  <2>2. p = x => UNCHANGED <<timer, requesting, activating>>
    BY <1>9 DEF HearHeartbeat, Listens, First
  <2>3. \A y \in Procs : y # p => /\ timer'[y] = timer[y] /\ requesting'[y] = requesting[y]
                                  /\ activating'[y] = activating[y]
    BY <1>9, <2>1 DEF HearHeartbeat, Refreshed
  <2>4. ASSUME NEW y \in Procs, y # p PROVE OnItsWay(x, y) => OnItsWay(x, y)'
    <3> SUFFICES ASSUME NEW n \in beats, n = <<x, y, FALSE>> PROVE n \in beats'
      BY DEF OnItsWay
    <3>1. n[2] = y
      OBVIOUS
    <3> QED
      BY <2>1, <2>4, <3>1
  <2>5. First(x)'
    BY <2>1, <2>2, <2>3 DEF First
  <2>6. \A y \in Procs \ {x} : y # p => Beside(x, y)'
    BY <2>1, <2>3, <2>4, BesideKept
  <2>7. ASSUME p # x PROVE Beside(x, p)'
    <3>1. CASE timer'[p] = Cleared
      BY <3>1 DEF Beside
    <3>2. CASE ~Listens(p) /\ UNCHANGED <<timer, requesting, activating>>
      BY <2>1, <2>7, <3>2 DEF Beside, Listens, Running
    <3>3. CASE /\ Listens(p) /\ timer[p] # Cleared /\ timer' = Refreshed(p)
               /\ UNCHANGED <<requesting, activating>>
      <4>1. timer'[p] = ActiveTimeout /\ beat'[x] \in 0..HeartbeatInterval
        BY <2>1, <3>3 DEF Refreshed
      <4>2. Heard(x, p)'
        BY <4>1 DEF Heard
      <4> QED
        BY <2>1, <2>7, <3>3, <4>2 DEF Beside, Listens
    <3>4. CASE timer' = Refreshed(p) /\ timer[p] = Cleared
      BY <2>1, <3>1, <3>4 DEF Refreshed
    <3>5. CASE timer' = [timer EXCEPT ![p] = Cleared]
      BY <2>1, <3>1, <3>5
    <3> QED
      BY <1>9, <3>2, <3>3, <3>4, <3>5 DEF HearHeartbeat
  <2> QED
    BY <2>5, <2>6, <2>7
<1>10. ASSUME NEW m \in msgs, AcceptRequest(m) PROVE Kept \/ NoTimers'
  <2> DEFINE p == m.to
  <2>1. /\ p \in Procs /\ m.from \in Procs /\ m.from # p /\ st[p] = "up" /\ m.type = "request"
        /\ UNCHANGED <<st, activating, requesting, beat, beats, since>>
    BY <1>10 DEF Presence, Addressed, AcceptRequest
  <2>2. CASE ~MayRelease(p)
    BY <1>7, <1>10, <2>1, <2>2 DEF AcceptRequest
  <2>3. CASE MayRelease(p)
    <3>1. /\ active' = [active EXCEPT ![p] = FALSE] /\ peer' = [peer EXCEPT ![p] = m.from]
          /\ timer' = [timer EXCEPT ![p] = Cleared]
      BY <1>10, <2>3 DEF AcceptRequest, Relinquished
    <3>2. CASE p # x
      <4>1. First(x)'
        BY <2>1, <3>1, <3>2 DEF First
      <4>2. Beside(x, p)'
        BY <2>1, <3>1 DEF Beside
      <4>3. \A y \in Procs \ {x} : y # p => Beside(x, y)'
        <5>1. ASSUME NEW y \in Procs \ {x}, y # p
              PROVE  /\ timer'[y] = timer[y] /\ peer'[y] = peer[y] /\ active'[y] = active[y]
                     /\ requesting'[y] = requesting[y] /\ activating'[y] = activating[y]
          BY <2>1, <3>1, <5>1
        <5>2. beat'[x] = beat[x] /\ since'[x] = since[x]
          BY <2>1
        <5>3. ASSUME NEW y \in Procs PROVE OnItsWay(x, y) => OnItsWay(x, y)'
          BY <2>1 DEF OnItsWay
        <5> QED
          BY <5>1, <5>2, <5>3, BesideKept
      <4> QED
        BY <4>1, <4>2, <4>3
    <3>3. CASE p = x
      <4>1. requesting[m.from] /\ st[m.from] = "up"
        BY <2>1 DEF SomeGone, Presence, AbsentIdle, Asked, Quiet
      <4>2. timer[m.from] = Cleared
        BY <2>1, <3>3, <4>1 DEF Beside
      <4>3. \A q \in Procs : q = x \/ q = m.from
        BY <2>1, <3>3 DEF AtMostTwo
      <4> QED
        BY <2>1, <3>1, <3>3, <4>1, <4>2, <4>3 DEF NoTimers
    <3> QED
      BY <3>2, <3>3
  <2> QED
    BY <2>2, <2>3
<1>11. ASSUME NEW m \in msgs, AcceptFin(m) PROVE Kept
  <2> DEFINE p == m.to
  <2>1. /\ p \in Procs /\ m.from \in Procs /\ m.from # p /\ m.type = "fin"
        /\ UNCHANGED <<st, timer, activating, requesting, peer, beat, beats>>
    BY <1>11 DEF Presence, Addressed, AcceptFin
  <2>2. CASE p # x
    <3>1. m.from = x
      BY <2>1, <2>2 DEF AtMostTwo
    <3> QED
      BY <2>1, <3>1 DEF FinsReleased, SomeGone, First
  <2>3. CASE p = x
    <3>1. UNCHANGED <<active, since>>
      BY <1>11, <2>3 DEF AcceptFin, Become, First
    <3> QED
      BY <1>7, <2>1, <3>1
  <2> QED
    BY <2>2, <2>3
<1>12. ASSUME NEW m \in msgs, AcceptAck(m) PROVE Kept \/ SomeGone'
  <2>1. m.to \in Procs
    OBVIOUS
  <2> QED
    BY <1>3, <1>7, <1>12, <2>1 DEF AcceptAck
<1>13. ASSUME NEW m \in msgs, AcceptSubscriber(m) \/ Lose(m) PROVE Kept
  BY <1>7, <1>13 DEF AcceptSubscriber, Lose
<1>14. CASE UNCHANGED ownershipVars
  BY <1>7, <1>14 DEF ownershipVars
<1>15. CASE Tick
  <2>1. /\ UNCHANGED <<st, active, activating, requesting, peer>> /\ beats = {}
        /\ \A p \in Procs : timer'[p] = IF timer[p] \in 1..ActiveTimeout THEN timer[p] - 1 ELSE timer[p]
        /\ \A p \in UpProcs : timer[p] # 0 /\ beat[p] # 0
    BY <1>15 DEF Tick, Down
  <2>2. /\ x \in UpProcs /\ beat[x] # 0 /\ beat'[x] = beat[x] - 1 /\ beat[x] \in 0..HeartbeatInterval
        /\ since'[x] = IF since[x] <= HeartbeatInterval THEN since[x] + 1 ELSE since[x]
    BY <1>15, <2>1 DEF Tick, First, UpProcs
  <2>3. First(x)'
    BY <2>1 DEF First
  <2>4. ASSUME NEW y \in Procs \ {x} PROVE Beside(x, y)'
    <3>1. CASE timer[y] = Cleared
      BY <2>1, <3>1 DEF Beside
    <3>2. CASE timer[y] # Cleared
      <4>1. st[y] = "up" /\ timer[y] # 0
        BY <2>1, <3>2 DEF Presence, AbsentIdle, UpProcs
      <4>2. Running(y)' <=> Running(y)
        BY <2>1 DEF Running
      <4>3. Running(y) /\ Heard(x, y) => Heard(x, y)'
        <5>1. ~OnItsWay(x, y)
          BY <2>1 DEF OnItsWay
        <5>2. Running(y) => timer'[y] = timer[y] - 1 /\ timer[y] \in 1..ActiveTimeout
          BY <2>1, <4>1 DEF Running
        <5>3. since[x] \in Nat /\ activating'[y] = activating[y]
          BY <2>1
        <5> QED
          BY <2>2, <5>1, <5>2, <5>3 DEF Heard
      <4> QED
        BY <2>1, <3>2, <4>2, <4>3 DEF Beside
    <3> QED
      BY <3>1, <3>2
  <2> QED
    BY <2>3, <2>4
<1>16. ASSUME NEW p \in Procs, Crash(p) PROVE Gone(p)
  BY <1>16 DEF Crash
<1> QED
  BY <1>1, <1>2, <1>3, <1>4, <1>5, <1>6, <1>8, <1>9, <1>10, <1>11, <1>12, <1>13, <1>14, <1>15,
     <1>16 DEF OwnershipNext, Noted, Deliver

LEMMA TwoStep ==
  ASSUME AtMostTwo, OwnershipTypeOK, OwnershipTypeOK', Presence, TwoHold,
         [OwnershipNext]_ownershipVars
  PROVE  TwoHold'
<1>1. FinsReleased'
  BY FinsStep DEF TwoHold
<1>2. SomeGone => SomeGone'
  BY GoneStays DEF SomeGone
<1>3. FirstBeside /\ ~SomeGone => SomeGone' \/ NoTimers' \/ FirstBeside'
  BY FirstStep DEF FirstBeside, TwoHold
<1> QED
  BY <1>1, <1>2, <1>3, NobodyStep, NoTimersStep DEF TwoHold

\* For two processes, whatever their modes, faults and bounds: a passive process
\* does not promote itself over one that has been active for an interval.
THEOREM PromotionIsHeard == ASSUME AtMostTwo PROVE OwnershipSpec => PromotionHeard
<1>1. OwnershipInit => TwoHold
  BY DEF OwnershipInit, TwoHold, FinsReleased, Nobody, Untouched
<1>2. OwnershipTypeOK /\ OwnershipTypeOK' /\ Presence /\ TwoHold /\ [OwnershipNext]_ownershipVars
        => TwoHold'
  BY TwoStep
<1>3. OwnershipTypeOK /\ Presence /\ TwoHold =>
        \A p \in Procs : ~active[p] /\ timer[p] = 0 =>
          \A q \in Procs \ {p} : active[q] => since[q] <= HeartbeatInterval
  <2> SUFFICES ASSUME OwnershipTypeOK, Presence, TwoHold, NEW p \in Procs, ~active[p], timer[p] = 0,
                      NEW q \in Procs \ {p}, active[q]
               PROVE  since[q] <= HeartbeatInterval
    OBVIOUS
  <2>1. st[p] = "up" /\ st[q] = "up" /\ \A r \in Procs : r = p \/ r = q
    BY OwnershipConstants DEF Presence, AbsentIdle, AtMostTwo
  <2>2. ~SomeGone /\ ~Nobody /\ ~NoTimers
    BY <2>1, OwnershipConstants DEF SomeGone, Nobody, Untouched, NoTimers
  <2>3. First(q) /\ Beside(q, p)
    BY <2>1, <2>2 DEF TwoHold, FirstBeside, First
  <2> QED
    BY <2>3, OwnershipConstants DEF Beside, Heard, Running, OwnershipTypeOK
<1>4. OwnershipTypeOK /\ Presence /\ TwoHold =>
        (\A p \in Procs : ~active[p] /\ timer[p] = 0 /\ timer'[p] = Fired =>
           \A q \in Procs \ {p} : active[q] => since[q] <= HeartbeatInterval)
  BY <1>3
<1> QED
  BY <1>1, <1>2, <1>4, OwnershipInvariant, PTL DEF OwnershipSpec, PromotionHeard

-----------------------------------------------------------------------------
(* Any number of processes none of whose activations fails: who is passive *)
(* with its timer running hears whoever is active.                         *)

FaultsCounted == faults \in [crash : Nat, loss : Nat, failure : Nat]

\* A process whose timer is not cleared is open to heartbeats when it is passive.
Open == \A p \in Procs : timer[p] # Cleared => peer[p] = None /\ ~requesting[p]

HeardOf(x, y) ==
    \/ timer[y] >= ActiveTimeout - HeartbeatInterval + beat[x]
    \/ timer[y] > 0 /\ OnItsWay(x, y)
    \/ /\ since[x] <= HeartbeatInterval
       /\ since[x] + beat[x] <= HeartbeatInterval \/ OnItsWay(x, y)

AllHear == \A x, y \in Procs :
    x # y /\ active[x] /\ ~active[y] /\ Running(y) => HeardOf(x, y)

LEMMA FaultsStep ==
  ASSUME FaultsCounted, [OwnershipNext]_ownershipVars
  PROVE  FaultsCounted'
<1>1. CASE UNCHANGED faults
  BY <1>1 DEF FaultsCounted
<1>2. ASSUME NEW p \in Procs, Crash(p) \/ ActivationFails(p) PROVE FaultsCounted'
  BY <1>2 DEF FaultsCounted, Crash, ActivationFails
<1>3. ASSUME NEW m \in msgs, Lose(m) PROVE FaultsCounted'
  BY <1>3 DEF FaultsCounted, Lose
<1>4. ASSUME NEW p \in Procs,
             Begin(p) \/ Heartbeat(p) \/ TimerFires(p) \/ Activated(p) \/ SendRequest(p)
               \/ Release(p)
      PROVE  UNCHANGED faults
  BY <1>4 DEF Begin, Heartbeat, TimerFires, Activated, SendRequest, Release
<1>5. ASSUME NEW m \in msgs, Deliver(m) PROVE UNCHANGED faults
  BY <1>5 DEF Deliver, AcceptRequest, AcceptSubscriber, AcceptFin, AcceptAck
<1>6. ASSUME NEW b \in beats, HearHeartbeat(b) PROVE UNCHANGED faults
  BY <1>6 DEF HearHeartbeat
<1>7. CASE Tick \/ UNCHANGED ownershipVars
  BY <1>1, <1>7 DEF Tick, ownershipVars
<1> QED
  BY <1>1, <1>2, <1>3, <1>4, <1>5, <1>6, <1>7 DEF OwnershipNext, Noted

LEMMA OpenStep ==
  ASSUME OwnershipTypeOK, Presence, Open, [OwnershipNext]_ownershipVars
  PROVE  Open'
<1> USE OwnershipConstants DEF OwnershipTypeOK, Open
<1>1. CASE UNCHANGED <<timer, peer, requesting>>
  BY <1>1
<1>2. ASSUME NEW p \in Procs, Begin(p) PROVE Open'
  BY <1>2 DEF Begin, Presence, AbsentIdle
<1>3. ASSUME NEW p \in Procs, TimerFires(p) PROVE Open'
  BY <1>3 DEF TimerFires
<1>4. ASSUME NEW p \in Procs, Gone(p) PROVE Open'
  BY <1>4 DEF Gone
<1>5. ASSUME NEW p \in Procs,
             Heartbeat(p) \/ Activated(p) \/ ActivationFails(p) \/ SendRequest(p) \/ Release(p)
      PROVE  UNCHANGED <<timer, peer, requesting>>
  BY <1>5 DEF Heartbeat, Activated, ActivationFails, SendRequest, Release
<1>6. ASSUME NEW b \in beats, HearHeartbeat(b) PROVE Open'
  <2>1. b[2] \in Procs
    OBVIOUS
  <2> QED
    BY <1>6, <2>1 DEF HearHeartbeat, Refreshed
<1>7. ASSUME NEW m \in msgs, AcceptRequest(m) PROVE Open'
  <2>1. m.to \in Procs
    OBVIOUS
  <2> QED
    BY <1>1, <1>7, <2>1 DEF AcceptRequest
<1>8. ASSUME NEW m \in msgs, AcceptAck(m) PROVE Open'
  <2>1. m.to \in Procs
    OBVIOUS
  <2> QED
    BY <1>1, <1>4, <1>8, <2>1 DEF AcceptAck
<1>9. ASSUME NEW m \in msgs, AcceptSubscriber(m) \/ AcceptFin(m) \/ Lose(m)
      PROVE  UNCHANGED <<timer, peer, requesting>>
  BY <1>9 DEF AcceptSubscriber, AcceptFin, Lose
<1>10. CASE Tick
  BY <1>10 DEF Tick, Down
<1>11. CASE UNCHANGED ownershipVars
  BY <1>1, <1>11 DEF ownershipVars
<1>12. ASSUME NEW p \in Procs, Crash(p) PROVE Gone(p)
  BY <1>12 DEF Crash
<1> QED
  BY <1>1, <1>2, <1>3, <1>4, <1>5, <1>6, <1>7, <1>8, <1>9, <1>10, <1>11, <1>12
  DEF OwnershipNext, Noted, Deliver

LEMMA HearStep ==
  ASSUME OwnershipTypeOK, OwnershipTypeOK', Presence, Presence', FaultsCounted, Open, AllHear,
         MaxFailures = 0, [OwnershipNext]_ownershipVars
  PROVE  AllHear'
<1> USE OwnershipConstants DEF OwnershipTypeOK
<1> SUFFICES ASSUME NEW x \in Procs, NEW y \in Procs, x # y, active'[x], ~active'[y], Running(y)'
             PROVE  HeardOf(x, y)'
  BY DEF AllHear
<1>1. st'[x] = "up" /\ st'[y] = "up" /\ beat'[x] \in 0..HeartbeatInterval
  BY DEF Presence, AbsentIdle, Running
<1>2. timer'[y] = ActiveTimeout => HeardOf(x, y)'
  BY <1>1 DEF HeardOf
\* Nothing changes between the two.
<1>3. ASSUME active[x], ~active[y], timer'[y] = timer[y], beat'[x] = beat[x],
             since'[x] = since[x], OnItsWay(x, y) => OnItsWay(x, y)'
      PROVE  HeardOf(x, y)'
  BY <1>3 DEF AllHear, HeardOf, Running
\* x becomes active.
<1>4. ASSUME since'[x] = 0 PROVE HeardOf(x, y)'
  BY <1>1, <1>4 DEF HeardOf
<1>5. CASE UNCHANGED <<active, timer, beat, since, beats>>
  BY <1>3, <1>5 DEF OnItsWay
<1>6. ASSUME NEW p \in Procs, Begin(p) PROVE HeardOf(x, y)'
  <2>1. /\ timer' = [timer EXCEPT ![p] = ActiveTimeout] /\ beats \subseteq beats'
        /\ UNCHANGED <<active, beat, since>>
    BY <1>6 DEF Begin
  <2>2. CASE p = y
    BY <1>2, <2>1, <2>2
  <2>3. CASE p # y
    BY <1>3, <2>1, <2>3 DEF OnItsWay
  <2> QED
    BY <2>2, <2>3
<1>7. ASSUME NEW p \in Procs, Heartbeat(p) PROVE HeardOf(x, y)'
  <2>1. /\ UNCHANGED <<st, active, timer, since>> /\ beats \subseteq beats'
        /\ beat[p] = 0 /\ beat' = [beat EXCEPT ![p] = HeartbeatInterval]
    BY <1>7, HeartbeatEffect
  <2>2. CASE p # x
    BY <1>3, <2>1, <2>2 DEF OnItsWay
  <2>3. CASE p = x
    <3>1. beats' = beats \cup {<<x, q, FALSE>> : q \in UpProcs \ {x}}
      BY <1>7, <2>1, <2>3, HeartbeatEffect
    <3>2. y \in UpProcs \ {x}
      BY <1>1, <2>1 DEF UpProcs
    <3>3. OnItsWay(x, y)'
      BY <3>1, <3>2 DEF OnItsWay
    <3>4. HeardOf(x, y) /\ beat[x] = 0
      BY <2>1, <2>3 DEF AllHear, Running
    <3>5. timer[y] \in Nat /\ since[x] \in Nat /\ timer'[y] = timer[y] /\ since'[x] = since[x]
      BY <2>1
    <3>6. timer[y] > 0 \/ since[x] <= HeartbeatInterval
      BY <3>4, <3>5 DEF HeardOf
    <3> QED
      BY <3>3, <3>5, <3>6 DEF HeardOf
  <2> QED
    BY <2>2, <2>3
<1>8. ASSUME NEW p \in Procs, Gone(p) PROVE HeardOf(x, y)'
  <2>1. p # x /\ p # y
    BY <1>1, <1>8 DEF Gone
  <2>2. /\ active[x] /\ ~active[y] /\ timer'[y] = timer[y] /\ beat'[x] = beat[x]
        /\ since'[x] = since[x] /\ beats' = {b \in beats : b[2] # p}
    BY <1>8, <2>1 DEF Gone
  <2>3. OnItsWay(x, y) => OnItsWay(x, y)'
    <3> SUFFICES ASSUME NEW n \in beats, n = <<x, y, FALSE>> PROVE n \in beats'
      BY DEF OnItsWay
    <3>1. n[2] = y
      OBVIOUS
    <3> QED
      BY <2>1, <2>2, <3>1
  <2> QED
    BY <1>3, <2>2, <2>3
<1>9. ASSUME NEW p \in Procs, TimerFires(p) PROVE HeardOf(x, y)'
  <2>1. timer' = [timer EXCEPT ![p] = Fired] /\ UNCHANGED <<active, beat, since, beats>>
    BY <1>9 DEF TimerFires
  <2>2. p # y
    BY <2>1 DEF Running
  <2> QED
    BY <1>3, <2>1, <2>2 DEF OnItsWay
<1>10. ASSUME NEW p \in Procs, Become(p), UNCHANGED <<timer, beat>>,
              beats' = beats
       PROVE  HeardOf(x, y)'
  <2>1. /\ active' = [active EXCEPT ![p] = TRUE]
        /\ since' = [since EXCEPT ![p] = IF active[p] THEN @ ELSE 0]
    BY <1>10 DEF Become
  <2>2. p # y /\ ~active[y]
    BY <2>1
  <2>3. CASE p = x /\ ~active[x]
    BY <1>4, <2>1, <2>3
  <2>4. CASE active[x]
    BY <1>3, <1>10, <2>1, <2>2, <2>4 DEF OnItsWay
  <2> QED
    BY <2>1, <2>3, <2>4
<1>11. ASSUME NEW p \in Procs, ActivationFails(p) PROVE FALSE
  BY <1>11 DEF ActivationFails, FaultsCounted
<1>12. ASSUME NEW p \in Procs, SendRequest(p) \/ Release(p) PROVE HeardOf(x, y)'
  BY <1>5, <1>12 DEF SendRequest, Release
<1>13. ASSUME NEW p \in Procs, Activated(p) PROVE HeardOf(x, y)'
  BY <1>10, <1>13 DEF Activated
<1>14. ASSUME NEW b \in beats, HearHeartbeat(b) PROVE HeardOf(x, y)'
  <2> DEFINE p == b[2]
  <2>1. p \in Procs /\ beats' = beats \ {b} /\ UNCHANGED <<active, beat, since, peer>>
    BY <1>14 DEF HearHeartbeat
  <2>2. CASE p # y
    <3>1. timer'[y] = timer[y]
      BY <1>14, <2>1, <2>2 DEF HearHeartbeat, Refreshed
    <3>2. OnItsWay(x, y) => OnItsWay(x, y)'
      <4> SUFFICES ASSUME NEW n \in beats, n = <<x, y, FALSE>> PROVE n \in beats'
        BY DEF OnItsWay
      <4>1. n[2] = y
        OBVIOUS
      <4> QED
        BY <2>1, <2>2, <4>1
    <3> QED
      BY <1>3, <2>1, <3>1, <3>2
  <2>3. CASE p = y
    <3>1. timer[y] # Cleared
      <4>1. timer[y] = Cleared => timer'[y] = Cleared
        BY <1>14, <2>1, <2>3 DEF HearHeartbeat, Refreshed
      <4> QED
        BY <4>1 DEF Running
    <3>2. Listens(p)
      BY <2>1, <2>3, <3>1 DEF Listens, Open
    <3>3. timer' = Refreshed(p) \/ timer' = [timer EXCEPT ![p] = Cleared]
      BY <1>14, <3>2 DEF HearHeartbeat
    <3>4. timer'[y] = ActiveTimeout \/ timer'[y] = Cleared
      BY <2>1, <2>3, <3>1, <3>3 DEF Refreshed
    <3> QED
      BY <1>2, <3>4 DEF Running
  <2> QED
    BY <2>2, <2>3
<1>15. ASSUME NEW m \in msgs, AcceptRequest(m) PROVE HeardOf(x, y)'
  <2>1. m.to \in Procs
    OBVIOUS
  <2>2. CASE MayRelease(m.to)
    <3>1. /\ active' = [active EXCEPT ![m.to] = FALSE] /\ timer' = [timer EXCEPT ![m.to] = Cleared]
          /\ UNCHANGED <<beat, since, beats>>
      BY <1>15, <2>2 DEF AcceptRequest, Relinquished
    <3>2. m.to # y /\ m.to # x
      BY <2>1, <3>1 DEF Running
    <3> QED
      BY <1>3, <2>1, <3>1, <3>2 DEF OnItsWay
  <2> QED
    BY <1>5, <1>15, <2>2 DEF AcceptRequest
<1>16. ASSUME NEW m \in msgs, AcceptFin(m) PROVE HeardOf(x, y)'
  <2>1. m.to \in Procs
    OBVIOUS
  <2> QED
    BY <1>5, <1>10, <1>16, <2>1 DEF AcceptFin
<1>17. ASSUME NEW m \in msgs, AcceptAck(m) PROVE HeardOf(x, y)'
  <2>1. m.to \in Procs
    OBVIOUS
  <2> QED
    BY <1>5, <1>8, <1>17, <2>1 DEF AcceptAck
<1>18. ASSUME NEW m \in msgs, AcceptSubscriber(m) \/ Lose(m) PROVE HeardOf(x, y)'
  BY <1>5, <1>18 DEF AcceptSubscriber, Lose
<1>19. CASE Tick
  <2>1. /\ UNCHANGED <<active, st>> /\ beats = {} /\ x \in UpProcs /\ y \in UpProcs
        /\ timer[y] # 0 /\ beat[x] # 0
        /\ timer'[y] = IF timer[y] \in 1..ActiveTimeout THEN timer[y] - 1 ELSE timer[y]
    BY <1>1, <1>19 DEF Tick, Down, UpProcs
  <2>2. /\ beat'[x] = beat[x] - 1 /\ beat[x] \in 0..HeartbeatInterval
        /\ since'[x] = IF since[x] <= HeartbeatInterval THEN since[x] + 1 ELSE since[x]
        /\ since[x] \in Nat
    BY <1>19, <2>1 DEF Tick
  <2>3. timer[y] \in 1..ActiveTimeout /\ ~OnItsWay(x, y)
    BY <2>1 DEF Running, OnItsWay
  <2>4. HeardOf(x, y)
    BY <2>1, <2>3 DEF AllHear, Running
  <2> QED
    BY <2>1, <2>2, <2>3, <2>4 DEF HeardOf
<1>20. CASE UNCHANGED ownershipVars
  BY <1>5, <1>20 DEF ownershipVars
<1>21. ASSUME NEW p \in Procs, Crash(p) PROVE Gone(p)
  BY <1>21 DEF Crash
<1> QED
  BY <1>6, <1>7, <1>8, <1>9, <1>11, <1>12, <1>13, <1>14, <1>15, <1>16, <1>17, <1>18, <1>19,
     <1>20, <1>21 DEF OwnershipNext, Noted, Deliver

\* For any number of processes, crashes and lost messages, as long as no activation
\* of the application fails: the time ACTIVE_TIMEOUT gives a process that has just
\* subscribed is enough to hear whoever has been active for an interval.
THEOREM PromotionIsHeardByAll == ASSUME MaxFailures = 0 PROVE OwnershipSpec => PromotionHeard
<1> DEFINE Hold == FaultsCounted /\ Open /\ AllHear
           Late == \A p \in Procs : ~active[p] /\ timer[p] = 0 =>
                     \A q \in Procs \ {p} : active[q] => since[q] <= HeartbeatInterval
<1>1. OwnershipInit => Hold
  BY DEF OwnershipInit, FaultsCounted, Open, AllHear
<1>2. OwnershipTypeOK /\ OwnershipTypeOK' /\ Presence /\ Presence' /\ Hold
        /\ [OwnershipNext]_ownershipVars => Hold'
  BY FaultsStep, OpenStep, HearStep
<1>3. OwnershipTypeOK /\ Presence /\ Hold => Late
  <2> SUFFICES ASSUME OwnershipTypeOK, Presence, Hold, NEW p \in Procs, ~active[p], timer[p] = 0,
                      NEW q \in Procs \ {p}, active[q]
               PROVE  since[q] <= HeartbeatInterval
    OBVIOUS
  <2>1. HeardOf(q, p) /\ beat[q] \in Nat
    BY OwnershipConstants DEF AllHear, Running, OwnershipTypeOK
  <2> QED
    BY <2>1, OwnershipConstants DEF HeardOf
<1>4. Late => (\A p \in Procs : ~active[p] /\ timer[p] = 0 /\ timer'[p] = Fired =>
                 \A q \in Procs \ {p} : active[q] => since[q] <= HeartbeatInterval)
  OBVIOUS
<1> HIDE DEF Hold, Late
<1> QED
  BY <1>1, <1>2, <1>3, <1>4, OwnershipInvariant, PTL DEF OwnershipSpec, PromotionHeard

=============================================================================
