--------------------------- MODULE MqttOutputProofs ---------------------------
(***************************************************************************)
(* Theorems about MqttOutput for every value of its constants.  The        *)
(* inductive invariant has four layers, each proved with those before it:  *)
(* what the calls are doing, how much is admitted, where the admitted      *)
(* messages are, and in which order.                                       *)
(***************************************************************************)
EXTENDS MqttOutput, SequenceLemmas

USE DEF mode, admission, calls, worker, ports

Waiting == Range(granted) \cup Range(waiters)

\* The message a call asks admission for, or waits for the answer to.
Message(p) == <<p, part[p]>>

\* A call waits for capacity, for an answer, or for its next packet.
CallsHold ==
    /\ IsInjective(waiters) /\ IsInjective(granted)
    /\ Range(granted) \cap Range(waiters) = {}
    /\ \A p \in resuming : p \notin Waiting /\ part[p] < size[p]
    /\ \A m \in pending : m[1] \notin Waiting \cup resuming /\ m[2] = part[m[1]]
    /\ \A p \in Waiting : part[p] # 0
    /\ \A p \in Pubs : call[p] = "idle" => part[p] = 0 /\ p \notin resuming

CallInv ==
    /\ TypeOK /\ CallsHold /\ reservations = Len(granted)
    /\ IsFiniteSet(pending) /\ IsFiniteSet(completions)
    /\ IsFiniteSet(inFlight) /\ Cardinality(inFlight) <= Concurrency

-----------------------------------------------------------------------------
(* What the calls are doing.                                               *)

\* The calls that wait for capacity, each in one place.
Lines ==
    /\ waiters \in Seq(Pubs) /\ granted \in Seq(Pubs)
    /\ reservations \in Nat /\ reservations = Len(granted)
    /\ drains \in [Callers -> {"none", "waiting", "done", "failed"}]
    /\ IsInjective(waiters) /\ IsInjective(granted)
    /\ Range(granted) \cap Range(waiters) = {}

\* notifyDrainWaiters() moves the oldest waiter at most.
LEMMA NotifyEffect ==
    ASSUME NEW pend, NEW comp, NEW wait \in Seq(Pubs), NEW res \in Nat,
           NEW gr \in Seq(Pubs), res = Len(gr), IsInjective(wait),
           IsInjective(gr), Range(gr) \cap Range(wait) = {},
           drains \in [Callers -> {"none", "waiting", "done", "failed"}],
           Notify(pend, comp, wait, res, gr)
    PROVE  /\ Lines' /\ Waiting' = Range(gr) \cup Range(wait)
           /\ \/ /\ ~Grants(pend, comp, wait, res)
                 /\ waiters' = wait /\ granted' = gr /\ reservations' = res
              \/ /\ Grants(pend, comp, wait, res) /\ wait # <<>>
                 /\ waiters' = Tail(wait) /\ granted' = Append(gr, Head(wait))
                 /\ reservations' = res + 1
<1>1. drains' \in [Callers -> {"none", "waiting", "done", "failed"}]
  BY DEF Notify, SettleDrains
<1>2. CASE ~Grants(pend, comp, wait, res)
  BY <1>1, <1>2 DEF Notify, Lines, Waiting
<1>3. CASE Grants(pend, comp, wait, res)
  <2>1. wait # <<>> /\ waiters' = Tail(wait) /\ granted' = Append(gr, Head(wait))
        /\ reservations' = res + 1
    BY <1>3 DEF Notify, Grants
  <2>2. waiters' \in Seq(Pubs) /\ Head(wait) \in Pubs
        /\ Range(wait) = {Head(wait)} \cup Range(waiters')
    BY <2>1, RangeOfTail
  <2>3. IsInjective(waiters') /\ Head(wait) \notin Range(waiters')
    BY <2>1, InjectiveTail
  <2>4. granted' \in Seq(Pubs) /\ Range(granted') = Range(gr) \cup {Head(wait)}
    BY <2>1, <2>2, RangeOfAppend
  <2>5. reservations' \in Nat /\ reservations' = Len(granted')
    BY <2>1, <2>2, AppendProperties
  <2>6. IsInjective(granted')
    BY <2>1, <2>2, InjectiveAppend
  <2> QED
    BY <1>1, <1>3, <2>1, <2>2, <2>3, <2>4, <2>5, <2>6 DEF Lines, Waiting
<1> QED
  BY <1>2, <1>3

LEMMA MessageTypes ==
    ASSUME NEW p \in Pubs, NEW k \in 1..Attrs
    PROVE  <<p, k>> \in Msgs /\ <<p, k>>[1] = p /\ <<p, k>>[2] = k
BY DEF Msgs

LEMMA SubmitEffect ==
    ASSUME CallInv, NEW p \in Pubs, NEW k \in 1..Attrs, NEW res \in Nat,
           NEW gr \in Seq(Pubs), res = Len(gr), IsInjective(gr),
           Range(gr) \cap Range(waiters) = {}, Submit(p, k, res, gr)
    PROVE  /\ Lines' /\ Waiting' = Range(gr) \cup Range(waiters)
           /\ postFaults' \in 0..MaxPostFaults /\ toWorker' \in Seq(Msgs)
           /\ \/ /\ call' = [call EXCEPT ![p] = "failed"]
                 /\ pending' = pending /\ toWorker' = toWorker
              \/ /\ MaySubmit /\ call' = [call EXCEPT ![p] = "open"]
                 /\ pending' = pending \cup {<<p, k>>}
                 /\ toWorker' = Append(toWorker, <<p, k>>)
<1>0. /\ waiters \in Seq(Pubs) /\ IsInjective(waiters)
      /\ drains \in [Callers -> {"none", "waiting", "done", "failed"}]
      /\ toWorker \in Seq(Msgs) /\ postFaults \in 0..MaxPostFaults
  BY DEF CallInv, CallsHold, TypeOK
<1>1. CASE ~MaySubmit /\ Refuse(p) /\ reservations' = res /\ granted' = gr
           /\ UNCHANGED <<pending, waiters, drains, toWorker, postFaults>>
  BY <1>0, <1>1 DEF Refuse, Lines, Waiting
<1>2. CASE /\ MaySubmit
           /\ call' = [call EXCEPT ![p] = "open"]
           /\ pending' = pending \cup {<<p, k>>}
           /\ toWorker' = Append(toWorker, <<p, k>>)
           /\ Notify(pending', completions, waiters, res, gr)
           /\ UNCHANGED postFaults
  <2>1. toWorker' \in Seq(Msgs)
    BY <1>0, <1>2, MessageTypes, RangeOfAppend
  <2>2. Notify(pending', completions, waiters, res, gr)
    BY <1>2
  <2>3. Lines' /\ Waiting' = Range(gr) \cup Range(waiters)
    BY <1>0, <2>2, NotifyEffect
  <2> QED
    BY <1>0, <1>2, <2>1, <2>3
<1>3. CASE /\ postFaults < MaxPostFaults
           /\ postFaults' = postFaults + 1
           /\ Refuse(p)
           /\ Notify(pending, completions, waiters, res, gr)
           /\ UNCHANGED <<pending, toWorker>>
  <2>1. Lines' /\ Waiting' = Range(gr) \cup Range(waiters)
    BY <1>0, <1>3, NotifyEffect
  <2>2. postFaults' \in 0..MaxPostFaults
    BY <1>0, <1>3, MqttOutputAssumption
  <2> QED
    BY <1>0, <1>3, <2>1, <2>2 DEF Refuse
<1> QED
  BY <1>1, <1>2, <1>3 DEF Submit

\* A call asks for admission: it is refused, posted, or waits.
LEMMA EnqueueEffect ==
    ASSUME CallInv, NEW p \in Pubs, NEW k \in 1..Attrs, p \notin Waiting, Enqueue(p, k)
    PROVE  /\ Lines' /\ postFaults' \in 0..MaxPostFaults /\ toWorker' \in Seq(Msgs)
           /\ called' \in Seq(Msgs) /\ called' = Append(called, <<p, k>>)
           /\ UNCHANGED <<completions, toMain>>
           /\ \/ /\ call' = [call EXCEPT ![p] = "failed"]
                 /\ pending' = pending /\ toWorker' = toWorker /\ Waiting' = Waiting
              \/ /\ MaySubmit /\ call' = [call EXCEPT ![p] = "open"]
                 /\ pending' = pending \cup {<<p, k>>} /\ Waiting' = Waiting
                 /\ toWorker' = Append(toWorker, <<p, k>>)
              \/ /\ call' = [call EXCEPT ![p] = "open"]
                 /\ pending' = pending /\ toWorker' = toWorker
                 /\ Waiting' = Waiting \cup {p}
<1>0. /\ waiters \in Seq(Pubs) /\ IsInjective(waiters)
      /\ granted \in Seq(Pubs) /\ IsInjective(granted)
      /\ reservations \in Nat /\ reservations = Len(granted)
      /\ Range(granted) \cap Range(waiters) = {}
      /\ drains \in [Callers -> {"none", "waiting", "done", "failed"}]
      /\ toWorker \in Seq(Msgs) /\ called \in Seq(Msgs)
      /\ postFaults \in 0..MaxPostFaults
  BY DEF CallInv, CallsHold, TypeOK
<1>1. called' \in Seq(Msgs) /\ called' = Append(called, <<p, k>>)
      /\ UNCHANGED <<completions, toMain>>
  BY <1>0, MessageTypes, RangeOfAppend DEF Enqueue
<1>2. CASE Submit(p, k, reservations, granted)
  BY <1>0, <1>1, <1>2, SubmitEffect DEF Waiting
<1>3. CASE /\ call' = [call EXCEPT ![p] = "open"]
           /\ Notify(pending, completions, Append(waiters, p), reservations, granted)
           /\ UNCHANGED <<pending, toWorker, postFaults>>
  <2> DEFINE wait == Append(waiters, p)
  <2>1. wait \in Seq(Pubs) /\ Range(wait) = Range(waiters) \cup {p}
    BY <1>0, RangeOfAppend
  <2>2. IsInjective(wait) /\ p \notin Range(granted)
    BY <1>0, InjectiveAppend DEF Waiting
  <2>3. Notify(pending, completions, wait, reservations, granted)
    BY <1>3
  <2> HIDE DEF wait
  <2>4. Range(granted) \cap Range(wait) = {}
    BY <1>0, <2>1, <2>2
  <2>5. Lines' /\ Waiting' = Range(granted) \cup Range(wait)
    BY <1>0, <2>1, <2>2, <2>3, <2>4, NotifyEffect
  <2> QED
    BY <1>0, <1>1, <1>3, <2>1, <2>5 DEF Waiting
<1>4. CASE Refuse(p) /\ UNCHANGED <<pending, waiters, reservations, granted, drains,
                                    toWorker, postFaults>>
  BY <1>0, <1>1, <1>4 DEF Refuse, Lines, Waiting
<1> QED
  BY <1>2, <1>3, <1>4 DEF Enqueue

\* processQueue() moves the head of the queue to its slots.
Moves(q, fl, k) ==
    /\ k \in 0..Len(q)
    /\ queue' = SubSeq(q, k + 1, Len(q))
    /\ inFlight' = fl \cup {q[i] : i \in 1..k}
    /\ started' = started \o SubSeq(q, 1, k)

LEMMA MovesTypes ==
    ASSUME NEW q \in Seq(Msgs), NEW fl \in SUBSET Msgs, started \in Seq(Msgs),
           NEW k, Moves(q, fl, k)
    PROVE  queue' \in Seq(Msgs) /\ inFlight' \subseteq Msgs /\ started' \in Seq(Msgs)
<1>1. k \in 0..Len(q) /\ Len(q) \in Nat /\ \A i \in 1..Len(q) : q[i] \in Msgs
  BY DEF Moves
<1>2. queue' \in Seq(Msgs) /\ {q[i] : i \in 1..k} \subseteq Range(q)
  BY <1>1, RangeOfSplit DEF Moves
<1>3. Range(q) \subseteq Msgs
  BY RangeOfSeq
<1>4. SubSeq(q, 1, k) \in Seq(Msgs)
  <2>1. \A i \in 1..k : q[i] \in Msgs
    BY <1>1
  <2> QED
    BY <1>1, <2>1, SubSeqProperties
<1>5. started' \in Seq(Msgs)
  BY <1>4, ConcatProperties DEF Moves
<1> QED
  BY <1>2, <1>3, <1>5 DEF Moves

LEMMA TakeEffect ==
    ASSUME NEW q \in Seq(Msgs), NEW fl \in SUBSET Msgs, IsFiniteSet(fl),
           Cardinality(fl) <= Concurrency, Take(q, fl)
    PROVE  /\ throttling' \in BOOLEAN
           /\ IsFiniteSet(inFlight') /\ Cardinality(inFlight') <= Concurrency
           /\ \E k \in 0..Len(q) : Moves(q, fl, k)
<1> DEFINE room == Concurrency - Cardinality(fl)
           n == IF Delayed /\ q # <<>> /\ room > 0 THEN 1
                ELSE IF Len(q) < room THEN Len(q) ELSE room
           f == [i \in 1..n |-> q[i]]
           T == {q[i] : i \in 1..n}
<1>1. Cardinality(fl) \in Nat /\ Concurrency \in Nat /\ room \in Nat /\ Len(q) \in Nat
  BY FS_CardinalityType, MqttOutputAssumption
<1>2. q # <<>> => Len(q) > 0
  BY EmptySeq
<1>3. n \in Nat /\ n <= Len(q) /\ n <= room
  BY <1>1, <1>2
<1>4. /\ queue' = SubSeq(q, n + 1, Len(q)) /\ inFlight' = fl \cup T
      /\ started' = started \o SubSeq(q, 1, n)
      /\ throttling' = (Delayed /\ n < Len(q) /\ n < room)
  BY DEF Take
<1>5. IsFiniteSet(1..n) /\ Cardinality(1..n) = n
  BY <1>3, FS_Interval
<1>6. f \in Surjection(1..n, T)
  BY DEF Surjection
<1> HIDE DEF n, room
<1>7. IsFiniteSet(T) /\ Cardinality(T) <= n
  BY <1>5, <1>6, FS_Surjection
<1> HIDE DEF T
<1>8. /\ IsFiniteSet(fl \cup T) /\ Cardinality(T) \in Nat
      /\ Cardinality(fl \cup T) = Cardinality(fl) + Cardinality(T) - Cardinality(fl \cap T)
  BY <1>7, FS_Union, FS_CardinalityType
<1>9. Cardinality(fl \cap T) \in Nat
  BY <1>7, FS_Intersection, FS_CardinalityType
<1>10. Cardinality(fl \cup T) <= Concurrency
  <2>1. n <= Concurrency - Cardinality(fl)
    BY <1>3 DEF room
  <2> QED
    BY <1>1, <1>3, <1>7, <1>8, <1>9, <2>1
<1>11. Moves(q, fl, n)
  BY <1>1, <1>3, <1>4 DEF Moves, T
<1> QED
  BY <1>3, <1>1, <1>4, <1>8, <1>10, <1>11

LEMMA ProcessEffect ==
    ASSUME NEW q \in Seq(Msgs), NEW fl \in SUBSET Msgs, IsFiniteSet(fl),
           Cardinality(fl) <= Concurrency, NEW act, throttling \in BOOLEAN,
           started \in Seq(Msgs), Process(q, fl, act)
    PROVE  /\ throttling' \in BOOLEAN
           /\ IsFiniteSet(inFlight') /\ Cardinality(inFlight') <= Concurrency
           /\ \E k \in 0..Len(q) : Moves(q, fl, k)
<1>1. CASE Take(q, fl)
  BY <1>1, TakeEffect
<1>2. CASE queue' = q /\ inFlight' = fl /\ UNCHANGED <<throttling, started>>
  <2>1. SubSeq(q, 0 + 1, Len(q)) = q
    BY SubSeqFull
  <2>2. SubSeq(q, 1, 0) = <<>> /\ started \o <<>> = started
    BY SubSeqEmpty, ConcatEmptySeq
  <2>3. 0 \in 0..Len(q) /\ {q[i] : i \in 1..0} = {}
    OBVIOUS
  <2>4. Moves(q, fl, 0)
    BY <1>2, <2>1, <2>2, <2>3 DEF Moves
  <2> QED
    BY <1>2, <2>3, <2>4
<1> QED
  BY <1>1, <1>2 DEF Process

LEMMA CallInit == Init => CallInv
<1> SUFFICES ASSUME Init PROVE CallInv
  OBVIOUS
<1>1. <<>> \in Seq(Pubs) /\ <<>> \in Seq(Msgs)
      /\ <<>> \in Seq([command : {"accepted", "refused", "publishResult"}, msg : Msgs])
      /\ Len(<<>>) = 0 /\ Range(<<>>) = {} /\ IsInjective(<<>>)
  BY EmptySeq DEF Range, IsInjective
<1>2. 0 \in 0..Attrs /\ 0 \in 0..MaxPostFaults /\ 0 <= Concurrency
  BY MqttOutputAssumption
<1>3. IsFiniteSet({}) /\ Cardinality({}) = 0
  BY FS_EmptySet
<1>4. TypeOK
  BY <1>1, <1>2 DEF Init, TypeOK
<1>5. CallsHold
  BY <1>1 DEF Init, CallsHold, Waiting
<1> QED
  BY <1>1, <1>2, <1>3, <1>4, <1>5 DEF Init, CallInv

\* Whoever asks for admission waits for nothing yet.
LEMMA EnqueueKeeps ==
    ASSUME CallInv, NEW p \in Pubs, NEW k \in 1..Attrs, p \notin Waiting,
           \A m \in pending : m[1] # p,
           part' = [part EXCEPT ![p] = k], resuming' = resuming \ {p},
           size' \in [Pubs -> 0..Attrs],
           \A q \in Pubs \ {p} : size'[q] = size[q],
           Enqueue(p, k), UNCHANGED <<mode, worker>>
    PROVE  CallInv'
<1>1. /\ Lines' /\ postFaults' \in 0..MaxPostFaults /\ toWorker' \in Seq(Msgs)
      /\ called' \in Seq(Msgs) /\ UNCHANGED <<completions, toMain>>
  BY EnqueueEffect
<1>2. \/ /\ call' = [call EXCEPT ![p] = "failed"]
         /\ pending' = pending /\ Waiting' = Waiting
      \/ /\ call' = [call EXCEPT ![p] = "open"]
         /\ pending' = pending \cup {<<p, k>>} /\ Waiting' = Waiting
      \/ /\ call' = [call EXCEPT ![p] = "open"]
         /\ pending' = pending /\ Waiting' = Waiting \cup {p}
  BY EnqueueEffect
<1>3. /\ call \in [Pubs -> {"idle", "open", "done", "failed"}]
      /\ part \in [Pubs -> 0..Attrs] /\ pending \subseteq Msgs
      /\ IsFiniteSet(pending)
  BY DEF CallInv, TypeOK
<1>4. part' \in [Pubs -> 0..Attrs]
  BY <1>3
<1>5. call' \in [Pubs -> {"idle", "open", "done", "failed"}]
      /\ call'[p] # "idle" /\ \A q \in Pubs \ {p} : call'[q] = call[q]
  BY <1>2, <1>3
<1>6. pending' \subseteq Msgs /\ IsFiniteSet(pending')
  <2>1. <<p, k>> \in Msgs
    BY MessageTypes
  <2>2. IsFiniteSet(pending \cup {<<p, k>>})
    BY <1>3, FS_AddElement
  <2> QED
    BY <1>2, <1>3, <2>1, <2>2
<1>7. TypeOK'
  BY <1>1, <1>4, <1>5, <1>6 DEF CallInv, TypeOK, Lines
<1>8. CallsHold'
  <2>1. part'[p] = k /\ \A q \in Pubs \ {p} : part'[q] = part[q]
    BY <1>3
  <2>2. ASSUME NEW q \in resuming' PROVE q \notin Waiting' /\ part'[q] < size'[q]
    BY <1>2, <2>1 DEF CallInv, CallsHold, TypeOK
  <2>3. ASSUME NEW m \in pending'
        PROVE  m[1] \notin Waiting' \cup resuming' /\ m[2] = part'[m[1]]
    <3>1. CASE m \in pending
      <4>1. m[1] \in Pubs /\ m[1] # p
        BY <1>3, <3>1 DEF Msgs
      <4> QED
        BY <1>2, <2>1, <3>1, <4>1 DEF CallInv, CallsHold
    <3>2. CASE m = <<p, k>> /\ Waiting' = Waiting
      BY <2>1, <3>2
    <3> QED
      BY <1>2, <2>3, <3>1, <3>2
  <2>4. ASSUME NEW q \in Waiting' PROVE part'[q] # 0
    <3>1. Waiting \subseteq Pubs
      BY RangeOfSeq DEF CallInv, TypeOK, Waiting
    <3> QED
      BY <1>2, <2>1, <2>4, <3>1 DEF CallInv, CallsHold
  <2>5. ASSUME NEW q \in Pubs, call'[q] = "idle"
        PROVE  part'[q] = 0 /\ q \notin resuming'
    BY <1>5, <2>1, <2>5 DEF CallInv, CallsHold
  <2> QED
    BY <1>1, <2>2, <2>3, <2>4, <2>5 DEF CallsHold, Lines
<1> QED
  BY <1>1, <1>6, <1>7, <1>8 DEF CallInv, Lines

LEMMA CallApplication == CallInv /\ (Publish \/ Continue) => CallInv'
<1> SUFFICES ASSUME CallInv, Publish \/ Continue PROVE CallInv'
  OBVIOUS
<1>1. \A m \in pending : m[1] \in Pubs /\ m[2] \in 1..Attrs
  BY DEF CallInv, TypeOK, Msgs
<1>2. ASSUME NEW p \in Pubs, PublishMessage(p) PROVE CallInv'
  <2>1. part[p] = 0 /\ p \notin resuming
    BY <1>2 DEF PublishMessage, CallInv, CallsHold
  <2>2. p \notin Waiting
    BY <2>1 DEF CallInv, CallsHold
  <2>3. \A m \in pending : m[1] # p
    BY <1>1, <2>1 DEF CallInv, CallsHold
  <2>4. 1 \in 1..Attrs /\ 1 \in 0..Attrs
    BY MqttOutputAssumption
  <2>5. size' \in [Pubs -> 0..Attrs] /\ \A q \in Pubs \ {p} : size'[q] = size[q]
    BY <1>2, <2>4 DEF PublishMessage, CallInv, TypeOK
  <2>6. part' = [part EXCEPT ![p] = 1] /\ resuming' = resuming \ {p}
        /\ Enqueue(p, 1) /\ UNCHANGED <<mode, worker>>
    BY <1>2, <2>1 DEF PublishMessage
  <2> QED
    BY <2>2, <2>3, <2>4, <2>5, <2>6, EnqueueKeeps
<1>3. ASSUME NEW p \in Pubs, NEW n \in 1..Attrs, PublishMqttMessage(p, n)
      PROVE  CallInv'
  <2>1. part[p] = 0 /\ p \notin resuming /\ p \notin Waiting
    BY <1>3 DEF PublishMqttMessage, CallInv, CallsHold
  <2>2. \A m \in pending : m[1] # p
    BY <1>1, <2>1 DEF CallInv, CallsHold
  <2>3. n \in 0..Attrs /\ n > 0
    BY MqttOutputAssumption
  <2>4. size' = [size EXCEPT ![p] = n] /\ resuming' \in {resuming, resuming \cup {p}}
        /\ call' \in {[call EXCEPT ![p] = "open"], [call EXCEPT ![p] = "failed"]}
        /\ UNCHANGED <<mode, admission, worker, ports, postFaults, part, called>>
    BY <1>3 DEF PublishMqttMessage, Refuse
  <2>5. TypeOK'
    <3>1. size' \in [Pubs -> 0..Attrs] /\ resuming' \subseteq Pubs
          /\ call' \in [Pubs -> {"idle", "open", "done", "failed"}]
      BY <2>3, <2>4 DEF CallInv, TypeOK
    <3> QED
      BY <2>4, <3>1 DEF CallInv, TypeOK
  <2>6. CallsHold'
    BY <2>1, <2>2, <2>3, <2>4 DEF CallInv, CallsHold, TypeOK, Waiting
  <2> QED
    BY <2>4, <2>5, <2>6 DEF CallInv
<1>4. ASSUME NEW p \in Pubs, EnqueueNextPart(p) PROVE CallInv'
  <2>1. p \in resuming /\ p \notin Waiting /\ part[p] < size[p]
    BY <1>4 DEF EnqueueNextPart, CallInv, CallsHold
  <2>2. part[p] \in 0..Attrs /\ size[p] \in 0..Attrs /\ size \in [Pubs -> 0..Attrs]
    BY DEF CallInv, TypeOK
  <2>3. part[p] + 1 \in 1..Attrs
    BY <2>1, <2>2, MqttOutputAssumption
  <2>4. \A m \in pending : m[1] # p
    BY <2>1 DEF CallInv, CallsHold
  <2> QED
    BY <1>4, <2>1, <2>2, <2>3, <2>4, EnqueueKeeps DEF EnqueueNextPart
<1>5. CASE ContinueGranted
  <2> DEFINE p == Head(granted)
  <2>1. /\ granted \in Seq(Pubs) /\ granted # <<>> /\ reservations = Len(granted)
        /\ IsInjective(granted)
        /\ part \in [Pubs -> 0..Attrs] /\ pending \subseteq Msgs /\ IsFiniteSet(pending)
        /\ call \in [Pubs -> {"idle", "open", "done", "failed"}]
        /\ Range(granted) \cap Range(waiters) = {}
    BY <1>5 DEF ContinueGranted, CallInv, TypeOK, CallsHold
  <2>2. Tail(granted) \in Seq(Pubs) /\ p \in Pubs
        /\ Range(granted) = {p} \cup Range(Tail(granted))
        /\ IsInjective(Tail(granted)) /\ p \notin Range(Tail(granted))
    BY <2>1, RangeOfTail, InjectiveTail
  <2>3. Len(Tail(granted)) = reservations - 1 /\ reservations - 1 \in Nat
    BY <2>1, HeadTailProperties, EmptySeq
  <2>4. p \in Waiting /\ part[p] \in 1..Attrs /\ p \notin resuming /\ call[p] # "idle"
    BY <2>1, <2>2 DEF Waiting, CallInv, CallsHold
  <2> HIDE DEF p
  <2>5. /\ Lines' /\ Waiting' = Range(Tail(granted)) \cup Range(waiters)
        /\ postFaults' \in 0..MaxPostFaults /\ toWorker' \in Seq(Msgs)
        /\ \/ call' = [call EXCEPT ![p] = "failed"] /\ pending' = pending
           \/ /\ call' = [call EXCEPT ![p] = "open"]
              /\ pending' = pending \cup {<<p, part[p]>>}
    <3>1. Submit(p, part[p], reservations - 1, Tail(granted))
      BY <1>5 DEF ContinueGranted, p
    <3>2. Range(Tail(granted)) \cap Range(waiters) = {}
      BY <2>1, <2>2
    <3> QED
      BY <2>2, <2>3, <2>4, <3>1, <3>2, SubmitEffect
  <2>6. UNCHANGED <<mode, worker, completions, toMain, size, part, resuming, called>>
    BY <1>5 DEF ContinueGranted
  <2>7. pending' \subseteq Msgs /\ IsFiniteSet(pending')
    <3>1. <<p, part[p]>> \in Msgs
      BY <2>2, <2>4, MessageTypes
    <3>2. IsFiniteSet(pending \cup {<<p, part[p]>>})
      BY <2>1, FS_AddElement
    <3> QED
      BY <2>1, <2>5, <3>1, <3>2
  <2>8. call' \in [Pubs -> {"idle", "open", "done", "failed"}]
    BY <2>1, <2>5
  <2>9. TypeOK'
    BY <2>5, <2>6, <2>7, <2>8 DEF CallInv, TypeOK, Lines
  <2>10. Waiting' \subseteq Waiting /\ p \notin Waiting'
    BY <2>1, <2>2, <2>5 DEF Waiting
  <2>11. CallsHold'
    BY <2>1, <2>2, <2>4, <2>5, <2>6, <2>10 DEF CallsHold, CallInv, Lines
  <2> QED
    BY <2>5, <2>6, <2>7, <2>9, <2>11 DEF CallInv, Lines
<1> QED
  BY <1>2, <1>3, <1>4, <1>5 DEF Publish, Continue

Records == [command : {"accepted", "refused", "publishResult"}, msg : Msgs]

LEMMA CallAnswer == CallInv /\ HandleMessage => CallInv'
<1> SUFFICES ASSUME CallInv, HandleMessage PROVE CallInv'
  OBVIOUS
<1> DEFINE command == Head(toMain).command
           m == Head(toMain).msg
<1>1. toMain' \in Seq(Records) /\ Head(toMain) \in Records
  <2>1. toMain \in Seq(Records) /\ toMain # <<>> /\ toMain' = Tail(toMain)
    BY DEF CallInv, TypeOK, Records, HandleMessage
  <2> QED
    BY <2>1, RangeOfTail
<1>2. m \in Msgs /\ m[1] \in Pubs /\ m[2] \in 1..Attrs /\ m = <<m[1], m[2]>>
  BY <1>1 DEF Records, Msgs
<1>3. UNCHANGED <<mode, worker, size, part, called, toWorker, postFaults>>
  BY DEF HandleMessage
<1>4. /\ waiters \in Seq(Pubs) /\ granted \in Seq(Pubs) /\ reservations \in Nat
      /\ reservations = Len(granted) /\ IsInjective(waiters) /\ IsInjective(granted)
      /\ Range(granted) \cap Range(waiters) = {}
      /\ drains \in [Callers -> {"none", "waiting", "done", "failed"}]
  BY DEF CallInv, CallsHold, TypeOK
<1>5. /\ IsFiniteSet(pending \ {m}) /\ IsFiniteSet(completions \ {m})
      /\ IsFiniteSet(completions \cup {m})
  BY FS_RemoveElement, FS_AddElement DEF CallInv
<1>6. HandleResult(m) \/ (m \in pending /\ HandleAnswer(m, command = "accepted"))
      \/ UNCHANGED <<admission, call, resuming>>
  BY DEF HandleMessage
<1> HIDE DEF m, command
<1>7. CASE HandleResult(m)
  <2>1. Lines' /\ Waiting' = Waiting
    <3>1. Notify(pending, completions', waiters, reservations, granted)
      BY <1>7 DEF HandleResult
    <3> QED
      BY <1>4, <3>1, NotifyEffect DEF Waiting
  <2>2. completions' = completions \ {m} /\ UNCHANGED <<pending, call, resuming>>
    BY <1>7 DEF HandleResult
  <2>3. TypeOK'
    BY <1>1, <1>3, <2>1, <2>2 DEF CallInv, TypeOK, Lines, Records
  <2>4. CallsHold'
    BY <1>3, <2>1, <2>2 DEF CallInv, CallsHold, Lines
  <2> QED
    BY <1>3, <1>5, <2>1, <2>2, <2>3, <2>4 DEF CallInv, Lines
<1>8. CASE m \in pending /\ HandleAnswer(m, command = "accepted")
  <2>1. /\ Lines' /\ Waiting' = Waiting
        /\ pending' = pending \ {m} /\ completions' \in {completions, completions \cup {m}}
        /\ resuming' \in {resuming, resuming \cup {m[1]}}
        /\ m[2] >= size[m[1]] => resuming' = resuming
        /\ \/ call' = [call EXCEPT ![m[1]] = "failed"]
           \/ call' = [call EXCEPT ![m[1]] = "open"]
           \/ call' = [call EXCEPT ![m[1]] = "done"]
    <3>1. Notify(pending', completions', waiters, reservations, granted)
      BY <1>8 DEF HandleAnswer
    <3>2. Lines' /\ Waiting' = Waiting
      BY <1>4, <3>1, NotifyEffect DEF Waiting
    <3>3. size[m[1]] \in 0..Attrs
      BY <1>2 DEF CallInv, TypeOK
    <3>4. pending' = pending \ {m} /\ completions' \in {completions, completions \cup {m}}
          /\ resuming' \in {resuming, resuming \cup {m[1]}}
      BY <1>8 DEF HandleAnswer
    <3>5. m[2] >= size[m[1]] => resuming' = resuming
      BY <1>2, <1>8, <3>3 DEF HandleAnswer
    <3>6. \/ call' = [call EXCEPT ![m[1]] = "failed"]
          \/ call' = [call EXCEPT ![m[1]] = "open"]
          \/ call' = [call EXCEPT ![m[1]] = "done"]
      BY <1>8, Zenon DEF HandleAnswer
    <3> QED
      BY <3>2, <3>4, <3>5, <3>6
  <2>2. m[1] \notin Waiting \cup resuming /\ m[2] = part[m[1]]
    BY <1>8 DEF CallInv, CallsHold
  <2>3. \A n \in pending' : n[1] # m[1]
    <3> SUFFICES ASSUME NEW n \in pending', n[1] = m[1] PROVE FALSE
      OBVIOUS
    <3>1. n \in pending /\ n # m
      BY <2>1
    <3>2. n \in Msgs /\ n[2] = part[n[1]]
      BY <3>1 DEF CallInv, TypeOK, CallsHold
    <3>3. n = <<n[1], n[2]>>
      BY <3>2 DEF Msgs
    <3> QED
      BY <1>2, <2>2, <3>1, <3>2, <3>3
  <2>4. /\ call' \in [Pubs -> {"idle", "open", "done", "failed"}]
        /\ call'[m[1]] # "idle" /\ \A q \in Pubs \ {m[1]} : call'[q] = call[q]
    BY <1>2, <2>1 DEF CallInv, TypeOK
  <2>5. TypeOK'
    <3>1. pending' \subseteq Msgs /\ completions' \subseteq Msgs /\ resuming' \subseteq Pubs
      BY <1>2, <2>1 DEF CallInv, TypeOK
    <3> QED
      BY <1>1, <1>3, <2>1, <2>4, <3>1 DEF CallInv, TypeOK, Lines, Records
  <2>6. part[m[1]] \in 0..Attrs /\ size[m[1]] \in 0..Attrs
    BY <1>2 DEF CallInv, TypeOK
  <2>7. \A p \in resuming' : p \notin Waiting' /\ part'[p] < size'[p]
    BY <1>3, <2>1, <2>2, <2>6 DEF CallInv, CallsHold
  <2>8. \A n \in pending' : n[1] \notin Waiting' \cup resuming' /\ n[2] = part'[n[1]]
    BY <1>3, <2>1, <2>3 DEF CallInv, CallsHold
  <2>9. CallsHold'
    BY <1>3, <2>1, <2>4, <2>7, <2>8 DEF CallInv, CallsHold, Lines
  <2> QED
    BY <1>3, <1>5, <2>1, <2>5, <2>9 DEF CallInv, Lines
<1>9. CASE UNCHANGED <<admission, call, resuming>>
  <2>1. TypeOK'
    BY <1>1, <1>3, <1>9 DEF CallInv, TypeOK, Records
  <2> QED
    BY <1>3, <1>9, <2>1 DEF CallInv, CallsHold, Waiting
<1> QED
  BY <1>6, <1>7, <1>8, <1>9

\* Rejecting leaves no call that waits.
LEMMA RejectKeeps ==
    ASSUME CallInv, BetweenTasks, RejectOutstanding,
           UNCHANGED <<ports, postFaults, active, queue, inFlight, throttling, started>>,
           lifecycle' \in {"running", "stopping", "stopped"},
           stopStage' \in {"no", "begun", "draining", "terminating", "done"},
           stopDrains' \in BOOLEAN, sealed' \in BOOLEAN, workerFailed' \in BOOLEAN,
           workerUp' \in BOOLEAN
    PROVE  CallInv'
<1>1. <<>> \in Seq(Pubs) /\ Range(<<>>) = {} /\ IsInjective(<<>>)
  BY EmptySeq DEF Range, IsInjective
<1>2. /\ call' \in [Pubs -> {"idle", "open", "done", "failed"}]
      /\ \A p \in Pubs : call'[p] = "idle" => call[p] = "idle"
  BY DEF RejectOutstanding, CallInv, TypeOK
<1>3. drains' \in [Callers -> {"none", "waiting", "done", "failed"}]
  BY DEF RejectOutstanding, SettleDrains, CallInv, TypeOK
<1>4. TypeOK'
  BY <1>1, <1>2, <1>3 DEF RejectOutstanding, CallInv, TypeOK
<1>5. granted' = <<>> /\ waiters' = <<>> /\ pending' = {} /\ completions' = {}
      /\ granted = <<>> /\ resuming' = {} /\ UNCHANGED <<reservations, part, size>>
  BY DEF RejectOutstanding, BetweenTasks
<1>6. CallsHold'
  BY <1>1, <1>2, <1>5 DEF CallsHold, Waiting, CallInv
<1> QED
  BY <1>4, <1>5, <1>6, FS_EmptySet DEF CallInv

LEMMA CallControl ==
    ASSUME CallInv, Flushing \/ TimingOut \/ SealPublishes \/ FailureNoticed \/ Stopping
    PROVE  CallInv'
<1>1. ASSUME UNCHANGED <<calls, worker, ports, postFaults, pending, completions,
                         waiters, reservations, granted>>,
             drains' \in [Callers -> {"none", "waiting", "done", "failed"}],
             lifecycle' \in {"running", "stopping", "stopped"},
             stopStage' \in {"no", "begun", "draining", "terminating", "done"},
             stopDrains' \in BOOLEAN, sealed' \in BOOLEAN, workerFailed' \in BOOLEAN
      PROVE  CallInv'
  BY <1>1 DEF CallInv, TypeOK, CallsHold, Waiting
<1>2. ASSUME NEW c \in Callers
      PROVE  Flushed(c) \in [Callers -> {"none", "waiting", "done", "failed"}]
  BY DEF Flushed, CallInv, TypeOK
<1>3. Flushers \subseteq Callers /\ Stopper \in Callers
  BY DEF Callers
<1> USE DEF CallInv, TypeOK
<1>4. CASE Flushing
  BY <1>1, <1>2, <1>3, <1>4 DEF Flushing, FlushCalled
<1>5. CASE TimingOut
  BY <1>1, <1>5 DEF TimingOut, DrainTimesOut
<1>6. CASE SealPublishes
  BY <1>1, <1>6 DEF SealPublishes
<1>7. CASE FailureNoticed
  BY <1>7, RejectKeeps DEF FailureNoticed
<1>8. ASSUME NEW d \in BOOLEAN, Stop(d) PROVE CallInv'
  BY <1>1, <1>8 DEF Stop
<1>9. CASE StopBegins
  BY <1>1, <1>2, <1>3, <1>9 DEF StopBegins
<1>10. CASE StopTerminates
  BY <1>1, <1>10 DEF StopTerminates
<1>11. CASE StopEnds
  BY <1>11, RejectKeeps DEF StopEnds
<1> QED
  BY <1>4, <1>5, <1>6, <1>7, <1>8, <1>9, <1>10, <1>11 DEF Stopping

LEMMA ReplyTypes ==
    ASSUME NEW c \in {"accepted", "refused", "publishResult"}, NEW m \in Msgs,
           toMain \in Seq(Records)
    PROVE  Reply(c, m) \in Seq(Records)
           /\ Range(Reply(c, m)) = Range(toMain) \cup {[command |-> c, msg |-> m]}
<1>1. [command |-> c, msg |-> m] \in Records
  BY DEF Records
<1> QED
  BY <1>1, RangeOfAppend DEF Reply

\* The worker's step: the queue it looks at, and what it has moved to its slots.
Turn(q, fl) == q \in Seq(Msgs) /\ fl \subseteq Msgs /\ \E k \in 0..Len(q) : Moves(q, fl, k)

LEMMA CallWorker ==
    ASSUME CallInv,
           WorkerEnqueues \/ DelayElapses \/ Settling \/ SetActive \/ SetPassive \/ WorkerDies
    PROVE  /\ CallInv'
           /\ UNCHANGED mode /\ UNCHANGED admission /\ UNCHANGED calls
           /\ \/ /\ workerUp /\ toWorker # <<>> /\ toWorker' = Tail(toWorker)
                 /\ Len(queue) + Cardinality(inFlight) >= MaxPending
                 /\ toMain' = Reply("refused", Head(toWorker))
                 /\ UNCHANGED <<queue, inFlight, started>>
              \/ /\ workerUp /\ toWorker # <<>> /\ toWorker' = Tail(toWorker)
                 /\ toMain' = Reply("accepted", Head(toWorker))
                 /\ Turn(Append(queue, Head(toWorker)), inFlight)
              \/ \E m \in inFlight :
                   /\ toMain' = Reply("publishResult", m)
                   /\ Turn(queue, inFlight \ {m}) /\ UNCHANGED toWorker
              \/ UNCHANGED ports /\ Turn(queue, inFlight)
              \/ UNCHANGED <<ports, queue, inFlight, started>>
           /\ workerUp' => workerUp
<1>1. /\ UNCHANGED mode /\ UNCHANGED admission /\ UNCHANGED calls
      /\ UNCHANGED postFaults
      /\ (workerUp' => workerUp) /\ workerUp' \in BOOLEAN
      /\ active' \in BOOLEAN
  BY DEF CallInv, TypeOK, WorkerEnqueues, DelayElapses, Settling, PublishSettles,
         SetActive, SetPassive, WorkerDies
<1>2. /\ queue \in Seq(Msgs) /\ inFlight \subseteq Msgs /\ started \in Seq(Msgs)
      /\ IsFiniteSet(inFlight) /\ Cardinality(inFlight) <= Concurrency
      /\ throttling \in BOOLEAN /\ toWorker \in Seq(Msgs) /\ toMain \in Seq(Records)
  BY DEF CallInv, TypeOK, Records
<1>3. ASSUME toWorker' \in Seq(Msgs), toMain' \in Seq(Records), queue' \in Seq(Msgs),
             inFlight' \subseteq Msgs, started' \in Seq(Msgs), throttling' \in BOOLEAN,
             IsFiniteSet(inFlight'), Cardinality(inFlight') <= Concurrency
      PROVE  CallInv'
  <2>1. TypeOK'
    <3>1. mode' = mode /\ admission' = admission /\ calls' = calls
          /\ UNCHANGED postFaults /\ active' \in BOOLEAN /\ workerUp' \in BOOLEAN
      BY <1>1
    <3>2. toMain' \in Seq([command : {"accepted", "refused", "publishResult"}, msg : Msgs])
      BY <1>3 DEF Records
    <3>3. toWorker' \in Seq(Msgs) /\ queue' \in Seq(Msgs) /\ inFlight' \subseteq Msgs
          /\ started' \in Seq(Msgs) /\ throttling' \in BOOLEAN
      BY <1>3
    <3>4. TypeOK
      BY DEF CallInv
    <3> QED
      BY <3>1, <3>2, <3>3, <3>4 DEF TypeOK
  <2> QED
    BY <1>1, <1>3, <2>1 DEF CallInv, CallsHold, Waiting
<1>4. ASSUME NEW q \in Seq(Msgs), NEW fl \in SUBSET inFlight, NEW act, Process(q, fl, act)
      PROVE  /\ Turn(q, fl)
             /\ queue' \in Seq(Msgs) /\ inFlight' \subseteq Msgs /\ started' \in Seq(Msgs)
             /\ throttling' \in BOOLEAN
             /\ IsFiniteSet(inFlight') /\ Cardinality(inFlight') <= Concurrency
  <2>1. IsFiniteSet(fl) /\ Cardinality(fl) <= Concurrency /\ fl \subseteq Msgs
    <3>1. IsFiniteSet(fl) /\ Cardinality(fl) <= Cardinality(inFlight)
      BY <1>2, FS_Subset
    <3> QED
      BY <1>2, <3>1, FS_CardinalityType, MqttOutputAssumption
  <2>2. /\ throttling' \in BOOLEAN /\ IsFiniteSet(inFlight')
        /\ Cardinality(inFlight') <= Concurrency
        /\ \E k \in 0..Len(q) : Moves(q, fl, k)
    BY <1>2, <1>4, <2>1, ProcessEffect
  <2>3. queue' \in Seq(Msgs) /\ inFlight' \subseteq Msgs /\ started' \in Seq(Msgs)
    BY <1>2, <2>1, <2>2, MovesTypes
  <2> QED
    BY <2>1, <2>2, <2>3 DEF Turn
<1>5. CASE WorkerEnqueues
  <2>1. Head(toWorker) \in Msgs /\ toWorker' = Tail(toWorker) /\ toWorker' \in Seq(Msgs)
        /\ workerUp /\ toWorker # <<>>
    BY <1>2, <1>5, RangeOfTail DEF WorkerEnqueues
  <2>2. CASE Len(queue) + Cardinality(inFlight) >= MaxPending
    <3>1. toMain' = Reply("refused", Head(toWorker))
          /\ UNCHANGED <<queue, inFlight, throttling, started>>
      BY <1>5, <2>2 DEF WorkerEnqueues
    <3>2. toMain' \in Seq(Records)
      BY <1>2, <2>1, <3>1, ReplyTypes
    <3>3. CallInv'
      BY <1>2, <1>3, <2>1, <3>1, <3>2
    <3> QED
      BY <1>1, <2>1, <2>2, <3>1, <3>3
  <2>3. CASE ~(Len(queue) + Cardinality(inFlight) >= MaxPending)
    <3>1. toMain' = Reply("accepted", Head(toWorker))
          /\ Process(Append(queue, Head(toWorker)), inFlight, active)
      BY <1>5, <2>3 DEF WorkerEnqueues
    <3>2. Append(queue, Head(toWorker)) \in Seq(Msgs) /\ toMain' \in Seq(Records)
      BY <1>2, <2>1, <3>1, RangeOfAppend, ReplyTypes
    <3>3. CallInv' /\ Turn(Append(queue, Head(toWorker)), inFlight)
      BY <1>3, <1>4, <2>1, <3>1, <3>2
    <3> QED
      BY <1>1, <2>1, <3>1, <3>3
  <2> QED
    BY <2>2, <2>3
<1>6. CASE Settling
  <2>1. PICK m \in inFlight : PublishSettles(m)
    BY <1>6 DEF Settling
  <2>2. toMain' = Reply("publishResult", m) /\ Process(queue, inFlight \ {m}, active)
        /\ UNCHANGED toWorker
    BY <2>1 DEF PublishSettles
  <2>3. toMain' \in Seq(Records)
    BY <1>2, <2>2, ReplyTypes
  <2>4. CallInv' /\ Turn(queue, inFlight \ {m})
    BY <1>2, <1>3, <1>4, <2>2, <2>3
  <2> QED
    BY <1>1, <2>2, <2>4
<1>7. CASE UNCHANGED ports /\ \E act \in BOOLEAN : Process(queue, inFlight, act)
  <2>1. CallInv' /\ Turn(queue, inFlight)
    BY <1>2, <1>3, <1>4, <1>7
  <2> QED
    BY <1>1, <1>7, <2>1
<1>8. CASE UNCHANGED <<ports, queue, inFlight, started>> /\ throttling' \in BOOLEAN
  <2>1. CallInv'
    BY <1>2, <1>3, <1>8
  <2> QED
    BY <1>1, <1>8, <2>1
<1>9. CASE UNCHANGED ports /\ Take(queue, inFlight)
  <2>1. /\ throttling' \in BOOLEAN /\ IsFiniteSet(inFlight')
        /\ Cardinality(inFlight') <= Concurrency
        /\ \E k \in 0..Len(queue) : Moves(queue, inFlight, k)
    BY <1>2, <1>9, TakeEffect
  <2>2. queue' \in Seq(Msgs) /\ inFlight' \subseteq Msgs /\ started' \in Seq(Msgs)
    BY <1>2, <2>1, MovesTypes
  <2>3. CallInv' /\ Turn(queue, inFlight)
    BY <1>2, <1>3, <1>9, <2>1, <2>2 DEF Turn
  <2> QED
    BY <1>1, <1>9, <2>3
<1>10. CASE DelayElapses
  BY <1>2, <1>8, <1>9, <1>10 DEF DelayElapses
<1>11. CASE SetActive
  BY <1>7, <1>11 DEF SetActive
<1>12. CASE SetPassive \/ WorkerDies
  BY <1>2, <1>8, <1>12 DEF SetPassive, WorkerDies
<1> QED
  BY <1>5, <1>6, <1>10, <1>11, <1>12

LEMMA CallStep == CallInv /\ [Next]_vars => CallInv'
<1>1. CallInv /\ UNCHANGED vars => CallInv'
  BY DEF vars, CallInv, TypeOK, CallsHold, Waiting
<1> QED
  BY <1>1, CallApplication, CallAnswer, CallControl, CallWorker DEF Next

THEOREM CallsInvariant == Spec => []CallInv
BY CallInit, CallStep, PTL DEF Spec

\* Every variable keeps its type, whatever the sets and bounds are.
THEOREM TypeCorrect == Spec => []TypeOK
<1>1. CallInv => TypeOK
  BY DEF CallInv
<1> QED
  BY <1>1, CallsInvariant, PTL

-----------------------------------------------------------------------------
(* Nothing after the fence.                                                *)

\* Sealed, stopped or broken, the main thread posts nothing to the worker.
THEOREM FenceHolds == Spec => NothingAfterFence
<1>1. CallInv /\ [Next]_vars => [AdmissionClosed => Len(toWorker') <= Len(toWorker)]_vars
  <2> SUFFICES ASSUME CallInv, Next, AdmissionClosed PROVE Len(toWorker') <= Len(toWorker)
    BY DEF vars
  <2>1. toWorker \in Seq(Msgs) /\ Len(toWorker) \in Nat
    BY DEF CallInv, TypeOK
  <2>2. ~MaySubmit
    BY DEF MaySubmit
  <2>3. CASE toWorker' = toWorker
    BY <2>1, <2>3
  <2>4. CASE WorkerEnqueues
    <3>1. toWorker # <<>> /\ toWorker' = Tail(toWorker)
      BY <2>4 DEF WorkerEnqueues
    <3> QED
      BY <2>1, <3>1, HeadTailProperties
  <2>5. ASSUME NEW p, NEW k, NEW res, NEW gr, Submit(p, k, res, gr)
        PROVE  toWorker' = toWorker
    BY <2>2, <2>5 DEF Submit
  <2>6. ASSUME NEW p, NEW k, Enqueue(p, k) PROVE toWorker' = toWorker
    BY <2>5, <2>6 DEF Enqueue
  <2>7. Publish \/ Continue => toWorker' = toWorker
    BY <2>5, <2>6 DEF Publish, Continue, PublishMessage, PublishMqttMessage,
       EnqueueNextPart, ContinueGranted
  <2>8. HandleMessage \/ Flushing \/ TimingOut \/ SealPublishes \/ FailureNoticed
        \/ Stopping \/ DelayElapses \/ Settling \/ SetActive \/ SetPassive \/ WorkerDies
        => toWorker' = toWorker
    BY DEF HandleMessage, Flushing, FlushCalled, TimingOut, DrainTimesOut,
       SealPublishes, FailureNoticed, Stopping, Stop, StopBegins, StopTerminates,
       StopEnds, DelayElapses, Settling, PublishSettles, SetActive, SetPassive, WorkerDies
  <2> QED
    BY <2>3, <2>4, <2>7, <2>8 DEF Next
<1> QED
  BY <1>1, CallsInvariant, PTL DEF Spec, NothingAfterFence

-----------------------------------------------------------------------------
(* How much is admitted.                                                   *)

\* As long as someone waits, all capacity is taken or promised; at most one
\* promise is open.
CapacityHolds ==
    /\ Len(granted) <= 1
    /\ ~Backpressure => granted = <<>> /\ waiters = <<>>
    /\ Count(pending, completions) + reservations <= MaxPending
    /\ ~AdmissionClosed /\ (waiters # <<>> \/ granted # <<>>) =>
         Count(pending, completions) + reservations = MaxPending

LEMMA CountType ==
    ASSUME NEW P, NEW C, IsFiniteSet(P), IsFiniteSet(C)
    PROVE  Count(P, C) \in Nat
BY FS_CardinalityType DEF Count

\* Capacity that has become free is promised at once.
LEMMA NotifyCapacity ==
    ASSUME NEW pend, NEW comp, IsFiniteSet(pend), IsFiniteSet(comp),
           NEW wait \in Seq(Pubs), NEW res \in Nat, NEW gr \in Seq(Pubs),
           res = Len(gr), res <= 1, IsInjective(wait), IsInjective(gr),
           Range(gr) \cap Range(wait) = {},
           drains \in [Callers -> {"none", "waiting", "done", "failed"}],
           Count(pend, comp) + res <= MaxPending,
           ~AdmissionClosed /\ wait # <<>> => Count(pend, comp) + res >= MaxPending - 1,
           ~AdmissionClosed /\ gr # <<>> => Count(pend, comp) + res = MaxPending,
           ~Backpressure => gr = <<>> /\ wait = <<>>,
           Notify(pend, comp, wait, res, gr), UNCHANGED mode,
           pending' = pend, completions' = comp
    PROVE  CapacityHolds'
<1>1. Count(pend, comp) \in Nat /\ MaxPending \in Nat
  BY CountType, MqttOutputAssumption
<1>2. \/ /\ ~Grants(pend, comp, wait, res)
         /\ waiters' = wait /\ granted' = gr /\ reservations' = res
      \/ /\ Grants(pend, comp, wait, res) /\ wait # <<>>
         /\ waiters' = Tail(wait) /\ granted' = Append(gr, Head(wait))
         /\ reservations' = res + 1
  BY NotifyEffect
<1>3. Count(pending', completions') = Count(pend, comp)
      /\ AdmissionClosed' = AdmissionClosed
  BY DEF AdmissionClosed
<1>4. CASE /\ ~Grants(pend, comp, wait, res)
           /\ waiters' = wait /\ granted' = gr /\ reservations' = res
  <2>1. AdmissionClosed \/ wait = <<>> \/ Count(pend, comp) + res >= MaxPending
    BY <1>1, <1>4 DEF Grants
  <2>2. ~AdmissionClosed /\ (wait # <<>> \/ gr # <<>>) => Count(pend, comp) + res = MaxPending
    BY <1>1, <2>1
  <2> QED
    BY <1>1, <1>3, <1>4, <2>2 DEF CapacityHolds, Count
<1>5. CASE /\ Grants(pend, comp, wait, res) /\ wait # <<>>
           /\ waiters' = Tail(wait) /\ granted' = Append(gr, Head(wait))
           /\ reservations' = res + 1
  <2>1. ~AdmissionClosed /\ Count(pend, comp) + res < MaxPending
    BY <1>5 DEF Grants
  <2>2. gr = <<>> /\ Count(pend, comp) + res + 1 = MaxPending /\ Backpressure
    BY <1>1, <1>5, <2>1, MqttOutputAssumption
  <2>3. Head(wait) \in Pubs
    BY <1>5, RangeOfTail
  <2>4. Len(granted') = 1
    BY <1>5, <2>2, <2>3, AppendProperties
  <2> QED
    BY <1>1, <1>3, <1>5, <2>2, <2>4 DEF CapacityHolds, Count
<1> QED
  BY <1>2, <1>4, <1>5

LEMMA CapacityInit == Init => CapacityHolds
<1> SUFFICES ASSUME Init PROVE CapacityHolds
  OBVIOUS
<1>1. Cardinality({}) = 0 /\ Len(<<>>) = 0
  BY FS_EmptySet, EmptySeq
<1> QED
  BY <1>1, MqttOutputAssumption DEF Init, CapacityHolds, Count

\* What one more message adds to the count, and one message less takes away.
LEMMA CountChanges ==
    ASSUME NEW P, NEW C, IsFiniteSet(P), IsFiniteSet(C), NEW m
    PROVE  /\ IsFiniteSet(P \cup {m}) /\ IsFiniteSet(P \ {m})
           /\ IsFiniteSet(C \cup {m}) /\ IsFiniteSet(C \ {m})
           /\ Count(P \cup {m}, C) \in {Count(P, C), Count(P, C) + 1}
           /\ Count(P, C \ {m}) \in {Count(P, C), Count(P, C) - 1}
           /\ m \in P => /\ Count(P \ {m}, C) = Count(P, C) - 1
                         /\ Count(P \ {m}, C \cup {m}) \in {Count(P, C), Count(P, C) - 1}
<1>1. Cardinality(P) \in Nat /\ Cardinality(C) \in Nat
  BY FS_CardinalityType
<1>2. /\ IsFiniteSet(P \cup {m}) /\ IsFiniteSet(C \cup {m})
      /\ Cardinality(P \cup {m}) = IF m \in P THEN Cardinality(P) ELSE Cardinality(P) + 1
      /\ Cardinality(C \cup {m}) = IF m \in C THEN Cardinality(C) ELSE Cardinality(C) + 1
  BY FS_AddElement
<1>3. /\ IsFiniteSet(P \ {m}) /\ IsFiniteSet(C \ {m})
      /\ Cardinality(P \ {m}) = IF m \in P THEN Cardinality(P) - 1 ELSE Cardinality(P)
      /\ Cardinality(C \ {m}) = IF m \in C THEN Cardinality(C) - 1 ELSE Cardinality(C)
  BY FS_RemoveElement
<1> QED
  BY <1>1, <1>2, <1>3 DEF Count

LEMMA CapacityApplication ==
    ASSUME CallInv, CapacityHolds, Publish \/ Continue
    PROVE  CapacityHolds'
<1>1. /\ IsFiniteSet(pending) /\ IsFiniteSet(completions)
      /\ waiters \in Seq(Pubs) /\ granted \in Seq(Pubs) /\ reservations \in Nat
      /\ reservations = Len(granted) /\ IsInjective(waiters) /\ IsInjective(granted)
      /\ Range(granted) \cap Range(waiters) = {}
      /\ drains \in [Callers -> {"none", "waiting", "done", "failed"}]
  BY DEF CallInv, CallsHold, TypeOK
<1>2. Count(pending, completions) \in Nat /\ MaxPending \in Nat
  BY <1>1, CountType, MqttOutputAssumption
<1>3. /\ reservations <= 1 /\ Count(pending, completions) + reservations <= MaxPending
      /\ ~Backpressure => granted = <<>> /\ waiters = <<>>
      /\ ~AdmissionClosed /\ (waiters # <<>> \/ granted # <<>>) =>
           Count(pending, completions) + reservations = MaxPending
  BY <1>1 DEF CapacityHolds
<1>4. granted = <<>> => reservations = 0
  BY <1>1, EmptySeq
\* Neither the counts nor the lines change.
<1>5. ASSUME UNCHANGED <<mode, pending, completions, waiters, reservations, granted>>
      PROVE  CapacityHolds'
  BY <1>5 DEF CapacityHolds, AdmissionClosed
\* A submission that finds nobody waiting.
<1>6. ASSUME NEW p, NEW k, Submit(p, k, reservations, granted),
             MaySubmit => waiters = <<>> /\ granted = <<>>,
             UNCHANGED <<mode, completions>>
      PROVE  CapacityHolds'
  <2>1. CASE UNCHANGED <<pending, waiters, reservations, granted>>
    BY <1>5, <1>6, <2>1
  <2>2. CASE MaySubmit /\ (pending' = pending \/ pending' = pending \cup {<<p, k>>})
             /\ Notify(pending', completions, waiters, reservations, granted)
    <3>1. waiters = <<>> /\ granted = <<>> /\ reservations = 0
      BY <1>4, <1>6, <2>2
    <3>2. Count(pending, completions) < MaxPending
      BY <2>2 DEF MaySubmit
    <3>3. IsFiniteSet(pending') /\ Count(pending', completions) + reservations <= MaxPending
      <4>1. /\ IsFiniteSet(pending \cup {<<p, k>>})
            /\ Count(pending \cup {<<p, k>>}, completions)
                 \in {Count(pending, completions), Count(pending, completions) + 1}
        BY <1>1, CountChanges
      <4>2. CASE pending' = pending
        BY <1>1, <1>2, <3>1, <3>2, <4>2
      <4>3. CASE pending' = pending \cup {<<p, k>>}
        BY <1>2, <3>1, <3>2, <4>1, <4>3
      <4> QED
        BY <2>2, <4>2, <4>3
    <3>4. Notify(pending', completions, waiters, reservations, granted)
          /\ UNCHANGED mode /\ completions' = completions
      BY <1>6, <2>2
    <3> QED
      BY <1>1, <1>3, <3>1, <3>3, <3>4, NotifyCapacity
  <2> QED
    BY <1>6, <2>1, <2>2 DEF Submit
<1>7. ASSUME NEW p \in Pubs, NEW k \in 1..Attrs, p \notin Waiting, Enqueue(p, k),
             UNCHANGED mode
      PROVE  CapacityHolds'
  <2>1. CASE Submit(p, k, reservations, granted)
             /\ (Backpressure => ~AdmissionClosed /\ ~MustWait)
    <3>1. MaySubmit => waiters = <<>> /\ granted = <<>>
      BY <1>2, <1>3, <2>1 DEF MustWait
    <3>2. UNCHANGED completions
      BY <1>7 DEF Enqueue
    <3> QED
      BY <1>6, <1>7, <2>1, <3>1, <3>2
  <2>2. CASE /\ Backpressure /\ ~AdmissionClosed /\ MustWait
             /\ Notify(pending, completions, Append(waiters, p), reservations, granted)
             /\ UNCHANGED pending
    <3> DEFINE wait == Append(waiters, p)
    <3>1. wait \in Seq(Pubs) /\ Range(wait) = Range(waiters) \cup {p}
      BY <1>1, RangeOfAppend
    <3>2. IsInjective(wait) /\ Range(granted) \cap Range(wait) = {}
      BY <1>1, <1>7, <3>1, InjectiveAppend DEF Waiting
    <3>3. Count(pending, completions) + reservations = MaxPending
      BY <1>1, <1>2, <1>3, <2>2 DEF MustWait
    <3>4. Notify(pending, completions, wait, reservations, granted)
      BY <2>2
    <3>5. UNCHANGED <<mode, pending, completions>>
      BY <1>7, <2>2 DEF Enqueue
    <3> HIDE DEF wait
    <3> QED
      BY <1>1, <1>2, <1>3, <2>2, <3>1, <3>2, <3>3, <3>4, <3>5, NotifyCapacity
  <2>3. CASE UNCHANGED <<pending, waiters, reservations, granted>>
    BY <1>5, <1>7, <2>3 DEF Enqueue
  <2> QED
    BY <1>7, <2>1, <2>2, <2>3 DEF Enqueue
<1>8. ASSUME NEW p \in Pubs, PublishMessage(p) PROVE CapacityHolds'
  <2>1. p \notin Waiting /\ 1 \in 1..Attrs
    BY <1>8, MqttOutputAssumption DEF PublishMessage, CallInv, CallsHold
  <2>2. Enqueue(p, 1) /\ UNCHANGED mode
    BY <1>8 DEF PublishMessage
  <2> QED
    BY <1>7, <2>1, <2>2
<1>9. ASSUME NEW p \in Pubs, NEW n \in 1..Attrs, PublishMqttMessage(p, n)
      PROVE  CapacityHolds'
  BY <1>5, <1>9 DEF PublishMqttMessage
<1>10. ASSUME NEW p \in Pubs, EnqueueNextPart(p) PROVE CapacityHolds'
  <2>1. p \notin Waiting /\ part[p] < size[p] /\ part[p] \in 0..Attrs /\ size[p] \in 0..Attrs
    BY <1>10 DEF EnqueueNextPart, CallInv, CallsHold, TypeOK
  <2>2. part[p] + 1 \in 1..Attrs
    BY <2>1, MqttOutputAssumption
  <2>3. Enqueue(p, part[p] + 1) /\ UNCHANGED mode
    BY <1>10 DEF EnqueueNextPart
  <2> QED
    BY <1>7, <2>1, <2>2, <2>3
<1>11. CASE ContinueGranted
  <2> DEFINE p == Head(granted)
             m == <<p, part[p]>>
  <2>1. granted # <<>> /\ Submit(p, part[p], reservations - 1, Tail(granted))
        /\ UNCHANGED <<mode, completions>>
    BY <1>11 DEF ContinueGranted
  <2> HIDE DEF p
  <2>2. reservations = 1 /\ Len(Tail(granted)) = 0 /\ Tail(granted) \in Seq(Pubs)
    BY <1>1, <1>3, <2>1, HeadTailProperties, EmptySeq
  <2>3. Tail(granted) = <<>> /\ reservations - 1 = 0
    <3>1. Tail(granted) = <<>>
      BY <2>2, EmptySeq
    <3> QED
      BY <2>2, <3>1
  <2>4. Submit(p, part[p], 0, <<>>)
    BY <2>1, <2>3
  <2>5. <<>> \in Seq(Pubs) /\ Len(<<>>) = 0 /\ Range(<<>>) = {} /\ IsInjective(<<>>)
    BY EmptySeq DEF Range, IsInjective
  <2>6. CASE ~MaySubmit /\ reservations' = 0 /\ granted' = <<>> /\ UNCHANGED <<pending, waiters>>
    <3>1. AdmissionClosed
      BY <1>2, <1>3, <2>2, <2>6 DEF MaySubmit
    <3> QED
      BY <1>2, <1>3, <2>1, <2>2, <2>5, <2>6, <3>1 DEF CapacityHolds, AdmissionClosed, Count
  <2>7. CASE MaySubmit /\ (pending' = pending \/ pending' = pending \cup {m})
             /\ Notify(pending', completions, waiters, 0, <<>>)
    <3>1. ~AdmissionClosed /\ Count(pending, completions) = MaxPending - 1
      BY <1>2, <1>3, <2>1, <2>2, <2>7 DEF MaySubmit
    <3>2. IsFiniteSet(pending')
          /\ Count(pending', completions) \in {MaxPending - 1, MaxPending}
      <4> HIDE DEF m
      <4>1. /\ IsFiniteSet(pending \cup {m})
            /\ Count(pending \cup {m}, completions)
                 \in {Count(pending, completions), Count(pending, completions) + 1}
        BY <1>1, CountChanges
      <4>2. CASE pending' = pending
        BY <1>1, <1>2, <3>1, <4>2
      <4>3. CASE pending' = pending \cup {m}
        BY <1>2, <3>1, <4>1, <4>3
      <4> QED
        BY <2>7, <4>2, <4>3
    <3>3. ~Backpressure => waiters = <<>>
      BY <1>3
    <3>4. Notify(pending', completions, waiters, 0, <<>>) /\ UNCHANGED mode
          /\ completions' = completions
      BY <2>1, <2>7
    <3>5. Count(pending', completions) + 0 <= MaxPending
          /\ Count(pending', completions) + 0 >= MaxPending - 1
          /\ 0 \in Nat /\ 0 <= 1
      BY <1>2, <3>2
    <3> HIDE DEF m
    <3> QED
      BY <1>1, <2>5, <3>2, <3>3, <3>4, <3>5, NotifyCapacity
  <2> QED
    BY <2>4, <2>6, <2>7 DEF Submit
<1> QED
  BY <1>8, <1>9, <1>10, <1>11 DEF Publish, Continue

LEMMA CapacityAnswer ==
    ASSUME CallInv, CapacityHolds, HandleMessage
    PROVE  CapacityHolds'
<1> DEFINE m == Head(toMain).msg
<1>1. /\ IsFiniteSet(pending) /\ IsFiniteSet(completions)
      /\ waiters \in Seq(Pubs) /\ granted \in Seq(Pubs) /\ granted = <<>>
      /\ reservations = Len(granted) /\ IsInjective(waiters) /\ IsInjective(granted)
      /\ Range(granted) \cap Range(waiters) = {}
      /\ drains \in [Callers -> {"none", "waiting", "done", "failed"}]
  BY DEF CallInv, CallsHold, TypeOK, HandleMessage, BetweenTasks
<1>2. Count(pending, completions) \in Nat /\ MaxPending \in Nat /\ reservations = 0
  BY <1>1, CountType, MqttOutputAssumption, EmptySeq
<1>3. /\ Count(pending, completions) <= MaxPending
      /\ ~Backpressure => waiters = <<>>
      /\ ~AdmissionClosed /\ waiters # <<>> => Count(pending, completions) = MaxPending
  BY <1>1, <1>2 DEF CapacityHolds
<1>4. /\ UNCHANGED mode
      /\ \/ UNCHANGED <<pending, completions, waiters, reservations, granted>>
         \/ /\ completions' = completions \ {m} /\ pending' = pending
            /\ Notify(pending', completions', waiters, reservations, granted)
         \/ /\ m \in pending /\ pending' = pending \ {m}
            /\ completions' = completions \/ completions' = completions \cup {m}
            /\ Notify(pending', completions', waiters, reservations, granted)
  BY DEF HandleMessage, HandleResult, HandleAnswer
<1> HIDE DEF m
<1>5. CASE UNCHANGED <<pending, completions, waiters, reservations, granted>>
  BY <1>4, <1>5 DEF CapacityHolds, AdmissionClosed
<1>6. ASSUME Notify(pending', completions', waiters, reservations, granted),
             IsFiniteSet(pending'), IsFiniteSet(completions'),
             Count(pending', completions')
               \in {Count(pending, completions), Count(pending, completions) - 1}
      PROVE  CapacityHolds'
  <2>1. /\ Count(pending', completions') + reservations <= MaxPending
        /\ ~AdmissionClosed /\ waiters # <<>> =>
             Count(pending', completions') + reservations >= MaxPending - 1
        /\ reservations \in Nat /\ reservations <= 1
    BY <1>2, <1>3, <1>6
  <2> QED
    BY <1>1, <1>3, <1>4, <1>6, <2>1, NotifyCapacity
<1>7. CASE /\ completions' = completions \ {m} /\ pending' = pending
           /\ Notify(pending', completions', waiters, reservations, granted)
  <2>1. IsFiniteSet(completions \ {m}) /\ Count(pending, completions \ {m})
          \in {Count(pending, completions), Count(pending, completions) - 1}
    BY <1>1, CountChanges
  <2> QED
    BY <1>1, <1>6, <1>7, <2>1
<1>8. CASE /\ m \in pending /\ pending' = pending \ {m}
           /\ completions' = completions \/ completions' = completions \cup {m}
           /\ Notify(pending', completions', waiters, reservations, granted)
  <2>1. /\ IsFiniteSet(pending \ {m}) /\ IsFiniteSet(completions \cup {m})
        /\ Count(pending \ {m}, completions) = Count(pending, completions) - 1
        /\ Count(pending \ {m}, completions \cup {m})
             \in {Count(pending, completions), Count(pending, completions) - 1}
    BY <1>1, <1>8, CountChanges
  <2>2. CASE completions' = completions
    BY <1>1, <1>6, <1>8, <2>1, <2>2
  <2>3. CASE completions' = completions \cup {m}
    BY <1>6, <1>8, <2>1, <2>3
  <2> QED
    BY <1>8, <2>2, <2>3
<1> QED
  BY <1>4, <1>5, <1>7, <1>8

LEMMA CapacityControl ==
    ASSUME CallInv, CapacityHolds,
           Flushing \/ TimingOut \/ SealPublishes \/ FailureNoticed \/ Stopping
    PROVE  CapacityHolds'
<1>1. ASSUME UNCHANGED <<pending, completions, waiters, reservations, granted>>,
             AdmissionClosed => AdmissionClosed'
      PROVE  CapacityHolds'
  BY <1>1 DEF CapacityHolds, Count
<1>2. ASSUME BetweenTasks, RejectOutstanding PROVE CapacityHolds'
  <2>1. granted' = <<>> /\ waiters' = <<>> /\ pending' = {} /\ completions' = {}
        /\ reservations' = Len(<<>>)
    BY <1>2 DEF BetweenTasks, RejectOutstanding, CallInv
  <2>2. Cardinality({}) = 0 /\ Len(<<>>) = 0
    BY FS_EmptySet, EmptySeq
  <2> QED
    BY <2>1, <2>2, MqttOutputAssumption DEF CapacityHolds, Count
<1> USE DEF AdmissionClosed
<1>3. CASE Flushing \/ TimingOut
  BY <1>1, <1>3 DEF Flushing, FlushCalled, TimingOut, DrainTimesOut
<1>4. CASE SealPublishes
  BY <1>1, <1>4 DEF SealPublishes
<1>5. CASE FailureNoticed \/ StopEnds
  BY <1>2, <1>5 DEF FailureNoticed, StopEnds
<1>6. ASSUME NEW d \in BOOLEAN, Stop(d) PROVE CapacityHolds'
  BY <1>1, <1>6 DEF Stop
<1>7. CASE StopBegins \/ StopTerminates
  BY <1>1, <1>7 DEF StopBegins, StopTerminates
<1> QED
  BY <1>3, <1>4, <1>5, <1>6, <1>7 DEF Stopping

LEMMA CapacityStep == CallInv /\ CapacityHolds /\ [Next]_vars => CapacityHolds'
<1>1. CapacityHolds /\ UNCHANGED <<mode, admission>> => CapacityHolds'
  BY DEF CapacityHolds, AdmissionClosed, Count
<1>2. CallInv /\ (WorkerEnqueues \/ DelayElapses \/ Settling \/ SetActive \/ SetPassive
                  \/ WorkerDies) => UNCHANGED <<mode, admission>>
  BY CallWorker
<1>3. UNCHANGED vars => UNCHANGED <<mode, admission>>
  BY DEF vars
<1> QED
  BY <1>1, <1>2, <1>3, CapacityApplication, CapacityAnswer, CapacityControl DEF Next

-----------------------------------------------------------------------------
(* Where the admitted messages are.                                        *)

\* Main still counts on its worker.
Running == ~workerFailed /\ lifecycle # "stopped"

Work == Range(toWorker) \cup Range(queue) \cup inFlight

Answered == {r.msg : r \in Range(toMain)}

\* Every message is in one place of the pipeline at most, main tracks all of
\* them, and no call asks admission for one that has already been there.
WorkHolds ==
    /\ workerUp => Running
    /\ lifecycle = "stopped" => stopStage = "done"
    /\ Replies({"refused"}) = {}
    /\ \A m \in Work \cup Answered :
         m[2] <= part[m[1]] /\ (m[1] \in Waiting => m[2] < part[m[1]])
    /\ IsInjective(toWorker) /\ IsInjective(queue)
    /\ Range(toWorker) \cap Range(queue) = {}
    /\ inFlight \cap (Range(toWorker) \cup Range(queue)) = {}
    /\ \A r \in Replies({"publishResult"}) : r.msg \notin Work
    /\ Running => Work \subseteq pending \cup completions

LEMMA WorkInit == Init => WorkHolds
<1> SUFFICES ASSUME Init PROVE WorkHolds
  OBVIOUS
<1>1. Range(<<>>) = {} /\ IsInjective(<<>>)
  BY DEF Range, IsInjective
<1> QED
  BY <1>1 DEF Init, WorkHolds, Replies, Running, Work, Answered

LEMMA WorkTypes ==
    ASSUME CallInv
    PROVE  /\ Work \subseteq Msgs /\ Answered \subseteq Msgs /\ Waiting \subseteq Pubs
           /\ \A m \in Msgs : m[1] \in Pubs /\ m[2] \in 1..Attrs /\ m = <<m[1], m[2]>>
           /\ \A p \in Pubs : part[p] \in 0..Attrs /\ size[p] \in 0..Attrs
           /\ Range(toMain) \subseteq Records
<1>1. /\ toWorker \in Seq(Msgs) /\ queue \in Seq(Msgs) /\ inFlight \subseteq Msgs
      /\ toMain \in Seq(Records) /\ granted \in Seq(Pubs) /\ waiters \in Seq(Pubs)
  BY DEF CallInv, TypeOK, Records
<1>2. /\ Range(toWorker) \subseteq Msgs /\ Range(queue) \subseteq Msgs
      /\ Range(toMain) \subseteq Records
      /\ Range(granted) \subseteq Pubs /\ Range(waiters) \subseteq Pubs
  BY <1>1, RangeOfSeq
<1>3. \A m \in Msgs : m[1] \in Pubs /\ m[2] \in 1..Attrs /\ m = <<m[1], m[2]>>
  BY DEF Msgs
<1>4. \A p \in Pubs : part[p] \in 0..Attrs /\ size[p] \in 0..Attrs
  BY DEF CallInv, TypeOK
<1> QED
  BY <1>1, <1>2, <1>3, <1>4 DEF Work, Answered, Waiting, Records

\* A call hands over, or waits with, a message it has never asked admission for.
LEMMA WorkSubmits ==
    ASSUME CallInv, WorkHolds, NEW p \in Pubs, NEW k \in 1..Attrs,
           \A m \in Work \cup Answered : m[1] = p => m[2] < k,
           part' = [part EXCEPT ![p] = k],
           UNCHANGED <<mode, worker, toMain, completions>>,
           Waiting' \subseteq Waiting \cup {p},
           \/ UNCHANGED <<toWorker, pending>>
           \/ /\ toWorker' = Append(toWorker, <<p, k>>)
              /\ pending' = pending \cup {<<p, k>>} /\ p \notin Waiting'
    PROVE  WorkHolds'
<1> DEFINE n == <<p, k>>
<1>1. /\ Work \subseteq Msgs /\ Answered \subseteq Msgs /\ Waiting \subseteq Pubs
      /\ \A m \in Msgs : m[1] \in Pubs /\ m[2] \in 1..Attrs /\ m = <<m[1], m[2]>>
      /\ \A q \in Pubs : part[q] \in 0..Attrs
  BY WorkTypes
<1>2. n \in Msgs /\ n[1] = p /\ n[2] = k
  BY MessageTypes
<1>3. n \notin Work \cup Answered
  BY <1>2
<1>4. part'[p] = k /\ \A q \in Pubs \ {p} : part'[q] = part[q]
  BY DEF CallInv, TypeOK
<1>5. Answered' = Answered /\ Replies({"refused"})' = Replies({"refused"})
      /\ Replies({"publishResult"})' = Replies({"publishResult"})
      /\ Running' = Running
  BY DEF Answered, Replies, Running
<1>6. \A m \in Work \cup Answered :
        m[2] <= part'[m[1]] /\ (m[1] \in Waiting' => m[2] < part'[m[1]])
  <2> SUFFICES ASSUME NEW m \in Work \cup Answered
               PROVE  m[2] <= part'[m[1]] /\ (m[1] \in Waiting' => m[2] < part'[m[1]])
    OBVIOUS
  <2>1. m[1] \in Pubs /\ m[2] \in 1..Attrs
    BY <1>1
  <2>2. CASE m[1] = p
    BY <1>4, <2>1, <2>2
  <2>3. CASE m[1] # p
    BY <1>4, <2>1, <2>3 DEF WorkHolds
  <2> QED
    BY <2>2, <2>3
<1>7. CASE UNCHANGED <<toWorker, pending>>
  <2>1. Work' = Work
    BY <1>7 DEF Work
  <2> QED
    BY <1>5, <1>6, <1>7, <2>1 DEF WorkHolds
<1>8. CASE /\ toWorker' = Append(toWorker, n)
           /\ pending' = pending \cup {n} /\ p \notin Waiting'
  <2>1. toWorker \in Seq(Msgs)
    BY DEF CallInv, TypeOK
  <2> HIDE DEF n
  <2>2. Range(toWorker') = Range(toWorker) \cup {n}
    BY <1>2, <1>8, <2>1, RangeOfAppend
  <2>3. IsInjective(toWorker')
    BY <1>2, <1>3, <1>8, <2>1, InjectiveAppend DEF Work, WorkHolds
  <2>4. Work' = Work \cup {n}
    BY <2>2 DEF Work
  <2>5. n[2] <= part'[n[1]] /\ n[1] \notin Waiting'
    BY <1>2, <1>4, <1>8
  <2>6. \A m \in Work' \cup Answered' :
          m[2] <= part'[m[1]] /\ (m[1] \in Waiting' => m[2] < part'[m[1]])
    BY <1>5, <1>6, <2>4, <2>5
  <2>7. \A r \in Replies({"publishResult"}) : r.msg # n
    BY <1>3 DEF Replies, Answered
  <2>8. Running => Work' \subseteq pending' \cup completions'
    BY <1>8, <2>4 DEF WorkHolds
  <2>9. /\ Range(toWorker') \cap Range(queue') = {}
        /\ inFlight' \cap (Range(toWorker') \cup Range(queue')) = {}
    BY <1>3, <2>2 DEF WorkHolds, Work
  <2> QED
    BY <1>5, <2>3, <2>4, <2>6, <2>7, <2>8, <2>9 DEF WorkHolds
<1> QED
  BY <1>7, <1>8

LEMMA WorkApplication ==
    ASSUME CallInv, CallInv', WorkHolds, Publish \/ Continue
    PROVE  WorkHolds'
<1>1. /\ Work \subseteq Msgs /\ Answered \subseteq Msgs /\ Waiting \subseteq Pubs
      /\ \A m \in Msgs : m[1] \in Pubs /\ m[2] \in 1..Attrs
      /\ \A q \in Pubs : part[q] \in 0..Attrs /\ size[q] \in 0..Attrs
  BY WorkTypes
<1>2. ASSUME NEW p \in Pubs, NEW k \in 1..Attrs, p \notin Waiting, Enqueue(p, k),
             part' = [part EXCEPT ![p] = k], part[p] < k, UNCHANGED <<mode, worker>>
      PROVE  WorkHolds'
  <2>1. /\ UNCHANGED <<completions, toMain>>
        /\ \/ pending' = pending /\ toWorker' = toWorker /\ Waiting' = Waiting
           \/ /\ pending' = pending \cup {<<p, k>>} /\ Waiting' = Waiting
              /\ toWorker' = Append(toWorker, <<p, k>>)
           \/ /\ pending' = pending /\ toWorker' = toWorker
              /\ Waiting' = Waiting \cup {p}
    BY <1>2, EnqueueEffect
  <2>2. \A m \in Work \cup Answered : m[1] = p => m[2] < k
    BY <1>1, <1>2 DEF WorkHolds
  <2> QED
    BY <1>2, <2>1, <2>2, WorkSubmits
<1>3. ASSUME NEW p \in Pubs, PublishMessage(p) PROVE WorkHolds'
  <2>1. p \notin Waiting /\ 1 \in 1..Attrs /\ part[p] < 1
    BY <1>3, MqttOutputAssumption DEF PublishMessage, CallInv, CallsHold
  <2> QED
    BY <1>2, <1>3, <2>1 DEF PublishMessage
<1>4. ASSUME NEW p \in Pubs, NEW n \in 1..Attrs, PublishMqttMessage(p, n)
      PROVE  WorkHolds'
  <2>1. UNCHANGED mode /\ UNCHANGED admission /\ UNCHANGED worker
        /\ UNCHANGED ports /\ UNCHANGED part
    BY <1>4 DEF PublishMqttMessage
  <2> QED
    BY <2>1 DEF WorkHolds, Work, Answered, Replies, Running, Waiting
<1>5. ASSUME NEW p \in Pubs, EnqueueNextPart(p) PROVE WorkHolds'
  <2>1. p \notin Waiting /\ part[p] < size[p]
    BY <1>5 DEF EnqueueNextPart, CallInv, CallsHold
  <2>2. part[p] + 1 \in 1..Attrs /\ part[p] < part[p] + 1
    BY <1>1, <2>1, MqttOutputAssumption
  <2> QED
    BY <1>2, <1>5, <2>1, <2>2 DEF EnqueueNextPart
<1>6. CASE ContinueGranted
  <2> DEFINE p == Head(granted)
  <2>1. granted # <<>> /\ granted \in Seq(Pubs) /\ reservations = Len(granted)
        /\ IsInjective(granted) /\ Range(granted) \cap Range(waiters) = {}
        /\ UNCHANGED <<mode, worker, completions, toMain, part>>
        /\ Submit(p, part[p], reservations - 1, Tail(granted))
    BY <1>6 DEF ContinueGranted, CallInv, CallsHold, TypeOK
  <2>2. p \in Pubs /\ Range(granted) = {p} \cup Range(Tail(granted))
        /\ Tail(granted) \in Seq(Pubs) /\ IsInjective(Tail(granted))
        /\ p \notin Range(Tail(granted))
    BY <2>1, RangeOfTail, InjectiveTail
  <2>3. Len(Tail(granted)) = reservations - 1 /\ reservations - 1 \in Nat
    BY <2>1, HeadTailProperties, EmptySeq
  <2> HIDE DEF p
  <2>4. p \in Waiting /\ part[p] \in 1..Attrs
    BY <1>1, <2>2 DEF Waiting, CallInv, CallsHold
  <2>5. Range(Tail(granted)) \cap Range(waiters) = {}
    BY <2>1, <2>2
  <2>6. /\ Waiting' = Range(Tail(granted)) \cup Range(waiters)
        /\ \/ pending' = pending /\ toWorker' = toWorker
           \/ /\ pending' = pending \cup {<<p, part[p]>>}
              /\ toWorker' = Append(toWorker, <<p, part[p]>>)
    BY <2>1, <2>2, <2>3, <2>4, <2>5, SubmitEffect
  <2>7. Waiting' \subseteq Waiting /\ p \notin Waiting'
    BY <2>1, <2>2, <2>6 DEF Waiting
  <2>8. \A m \in Work \cup Answered : m[1] = p => m[2] < part[p]
    BY <1>1, <2>4 DEF WorkHolds
  <2>9. part' = [part EXCEPT ![p] = part[p]]
    BY <2>1, <2>2 DEF CallInv, TypeOK
  <2> QED
    BY <2>1, <2>2, <2>4, <2>6, <2>7, <2>8, <2>9, WorkSubmits
<1> QED
  BY <1>3, <1>4, <1>5, <1>6 DEF Publish, Continue

LEMMA WorkAnswer ==
    ASSUME CallInv, WorkHolds, HandleMessage
    PROVE  WorkHolds'
<1> DEFINE r == Head(toMain)
<1>1. /\ r \in Range(toMain) /\ Range(toMain') \subseteq Range(toMain)
      /\ r.command \in {"accepted", "refused", "publishResult"}
  <2>1. toMain \in Seq(Records) /\ toMain # <<>> /\ toMain' = Tail(toMain)
    BY DEF CallInv, TypeOK, Records, HandleMessage
  <2>2. r \in Records /\ Range(toMain) = {r} \cup Range(toMain')
    BY <2>1, RangeOfTail
  <2> QED
    BY <2>2 DEF Records
<1>2. UNCHANGED mode /\ UNCHANGED worker /\ UNCHANGED part /\ UNCHANGED toWorker
  BY DEF HandleMessage
<1>3. /\ waiters \in Seq(Pubs) /\ granted \in Seq(Pubs) /\ reservations \in Nat
      /\ reservations = Len(granted) /\ IsInjective(waiters) /\ IsInjective(granted)
      /\ Range(granted) \cap Range(waiters) = {}
      /\ drains \in [Callers -> {"none", "waiting", "done", "failed"}]
  BY DEF CallInv, CallsHold, TypeOK
<1> HIDE DEF r
<1>4. Waiting' = Waiting
  <2>1. \/ Notify(pending', completions', waiters, reservations, granted)
        \/ UNCHANGED <<granted, waiters>>
    BY DEF HandleMessage, HandleResult, HandleAnswer
  <2> QED
    BY <1>3, <2>1, NotifyEffect DEF Waiting
<1>5. Work' = Work /\ Answered' \subseteq Answered /\ Running' = Running
      /\ \A c : Replies(c)' \subseteq Replies(c)
  BY <1>1, <1>2 DEF Work, Answered, Running, Replies
<1>6. Running => Work' \subseteq pending' \cup completions'
  <2>1. CASE r.command = "publishResult" /\ HandleResult(r.msg)
    <3>1. r.msg \notin Work
      BY <1>1, <2>1 DEF WorkHolds, Replies
    <3>2. pending' = pending /\ completions' = completions \ {r.msg}
      BY <2>1 DEF HandleResult
    <3> QED
      BY <1>5, <3>1, <3>2 DEF WorkHolds
  <2>2. CASE r.command # "publishResult" /\ HandleAnswer(r.msg, r.command = "accepted")
    <3>1. r.command = "accepted"
      BY <1>1, <2>2 DEF WorkHolds, Replies
    <3>2. pending' = pending \ {r.msg} /\ completions' = completions \cup {r.msg}
      BY <2>2, <3>1 DEF HandleAnswer
    <3> QED
      BY <1>5, <3>2 DEF WorkHolds
  <2>3. CASE UNCHANGED <<pending, completions>>
    BY <1>5, <2>3 DEF WorkHolds
  <2> QED
    BY <2>1, <2>2, <2>3 DEF HandleMessage, r
<1> QED
  BY <1>2, <1>4, <1>5, <1>6 DEF WorkHolds

LEMMA WorkControl ==
    ASSUME CallInv, WorkHolds,
           Flushing \/ TimingOut \/ SealPublishes \/ FailureNoticed \/ Stopping
    PROVE  WorkHolds' /\ (Running' => Running)
<1>1. UNCHANGED <<toWorker, toMain, queue, inFlight, part>>
  BY DEF Flushing, FlushCalled, TimingOut, DrainTimesOut, SealPublishes, FailureNoticed,
     Stopping, Stop, StopBegins, StopTerminates, StopEnds, RejectOutstanding
<1>2. Work' = Work /\ Answered' = Answered /\ \A c : Replies(c)' = Replies(c)
  BY <1>1 DEF Work, Answered, Replies
<1>3. ASSUME UNCHANGED <<workerUp, pending, completions, granted, waiters>>,
             Running' = Running, lifecycle' = "stopped" => stopStage' = "done"
      PROVE  WorkHolds' /\ (Running' => Running)
  BY <1>1, <1>2, <1>3 DEF WorkHolds, Waiting
<1>4. ASSUME BetweenTasks, RejectOutstanding, ~workerUp', ~Running',
             lifecycle' = "stopped" => stopStage' = "done"
      PROVE  WorkHolds' /\ (Running' => Running)
  <2>1. Waiting' = {}
    BY <1>4 DEF BetweenTasks, RejectOutstanding, Waiting, Range
  <2> QED
    BY <1>1, <1>2, <1>4, <2>1 DEF WorkHolds
<1> USE DEF WorkHolds, Running
<1>5. CASE Flushing \/ TimingOut
  BY <1>3, <1>5 DEF Flushing, FlushCalled, TimingOut, DrainTimesOut
<1>6. CASE SealPublishes
  BY <1>3, <1>6 DEF SealPublishes
<1>7. CASE FailureNoticed
  BY <1>4, <1>7 DEF FailureNoticed
<1>8. ASSUME NEW d \in BOOLEAN, Stop(d) PROVE WorkHolds' /\ (Running' => Running)
  BY <1>3, <1>8 DEF Stop
<1>9. CASE StopBegins \/ StopTerminates
  BY <1>3, <1>9 DEF StopBegins, StopTerminates
<1>10. CASE StopEnds
  BY <1>4, <1>10 DEF StopEnds
<1> QED
  BY <1>5, <1>6, <1>7, <1>8, <1>9, <1>10 DEF Stopping

\* A turn of the loop moves work and neither drops nor repeats any.
LEMMA TurnKeeps ==
    ASSUME NEW q, NEW fl, Turn(q, fl), IsInjective(q), fl \cap Range(q) = {}
    PROVE  /\ Range(queue') \cup inFlight' = Range(q) \cup fl
           /\ IsInjective(queue') /\ inFlight' \cap Range(queue') = {}
<1>1. PICK k \in 0..Len(q) : Moves(q, fl, k)
  BY DEF Turn
<1>2. q \in Seq(Msgs)
  BY DEF Turn
<1>3. /\ queue' = SubSeq(q, k + 1, Len(q))
      /\ inFlight' = fl \cup {q[i] : i \in 1..k}
  BY <1>1 DEF Moves
<1>4. /\ {q[i] : i \in 1..k} \subseteq Range(q)
      /\ Range(q) = {q[i] : i \in 1..k} \cup Range(queue')
  BY <1>2, <1>3, RangeOfSplit
<1>5. IsInjective(queue') /\ {q[i] : i \in 1..k} \cap Range(queue') = {}
  BY <1>2, <1>3, InjectiveSplit
<1> QED
  BY <1>3, <1>4, <1>5

\* The worker counts what main has admitted, and no more.
LEMMA NeverRefuses ==
    ASSUME CallInv, CapacityHolds, WorkHolds, workerUp, toWorker # <<>>
    PROVE  Len(queue) + Cardinality(inFlight) < MaxPending
<1> DEFINE h == Head(toWorker)
           held == Range(queue) \cup inFlight
<1>1. toWorker \in Seq(Msgs) /\ queue \in Seq(Msgs) /\ IsFiniteSet(inFlight)
      /\ IsFiniteSet(pending) /\ IsFiniteSet(completions) /\ reservations \in Nat
  BY DEF CallInv, TypeOK
<1>2. h \in Range(toWorker)
  BY <1>1, RangeOfTail
<1>3. h \notin held /\ Range(queue) \cap inFlight = {}
  BY <1>2 DEF WorkHolds
<1>4. IsFiniteSet(Range(queue)) /\ Cardinality(Range(queue)) = Len(queue)
  BY <1>1, InjectiveLength DEF WorkHolds
<1>5. /\ IsFiniteSet(held)
      /\ Cardinality(held) = Len(queue) + Cardinality(inFlight)
  <2>1. /\ IsFiniteSet(held)
        /\ Cardinality(held) = Cardinality(Range(queue)) + Cardinality(inFlight)
                               - Cardinality(Range(queue) \cap inFlight)
    BY <1>1, <1>4, FS_Union
  <2>2. Cardinality(Range(queue) \cap inFlight) = 0
    BY <1>3, FS_EmptySet
  <2> QED
    BY <1>1, <1>4, <2>1, <2>2, FS_CardinalityType
<1> HIDE DEF held, h
<1>6. Cardinality(held \cup {h}) = Cardinality(held) + 1
  BY <1>3, <1>5, FS_AddElement
<1>7. held \cup {h} \subseteq pending \cup completions
  BY <1>2 DEF WorkHolds, Work, held
<1>8. /\ IsFiniteSet(pending \cup completions)
      /\ Cardinality(pending \cup completions) =
           Cardinality(pending) + Cardinality(completions)
           - Cardinality(pending \cap completions)
  BY <1>1, FS_Union
<1>9. Cardinality(pending \cap completions) \in Nat
  BY <1>1, FS_Intersection, FS_CardinalityType
<1>10. Cardinality(held \cup {h}) <= Cardinality(pending \cup completions)
  BY <1>7, <1>8, FS_Subset
<1>11. Cardinality(pending) + Cardinality(completions) + reservations <= MaxPending
  BY DEF CapacityHolds, Count
<1>12. /\ Cardinality(pending) \in Nat /\ Cardinality(completions) \in Nat
       /\ Cardinality(held) \in Nat /\ Len(queue) \in Nat /\ Cardinality(inFlight) \in Nat
       /\ MaxPending \in Nat
  BY <1>1, <1>5, FS_CardinalityType, MqttOutputAssumption
<1> QED
  BY <1>1, <1>5, <1>6, <1>8, <1>9, <1>10, <1>11, <1>12

LEMMA WorkWorker ==
    ASSUME CallInv, CapacityHolds, WorkHolds,
           WorkerEnqueues \/ DelayElapses \/ Settling \/ SetActive \/ SetPassive \/ WorkerDies
    PROVE  WorkHolds'
<1>1. /\ UNCHANGED mode /\ UNCHANGED admission /\ UNCHANGED calls
      /\ workerUp' => workerUp
  BY CallWorker
<1>2. /\ toWorker \in Seq(Msgs) /\ queue \in Seq(Msgs) /\ inFlight \subseteq Msgs
      /\ toMain \in Seq(Records)
  BY DEF CallInv, TypeOK, Records
<1>3. Waiting' = Waiting /\ Running' = Running
  BY <1>1 DEF Waiting, Running
\* All that is left to show is about the pipeline.
<1>4. ASSUME Replies({"refused"})' = {}, Work' \cup Answered' \subseteq Work \cup Answered,
             Work' \subseteq Work, IsInjective(toWorker'), IsInjective(queue'),
             Range(toWorker') \cap Range(queue') = {},
             inFlight' \cap (Range(toWorker') \cup Range(queue')) = {},
             \A r \in Replies({"publishResult"})' : r.msg \notin Work'
      PROVE  WorkHolds'
  BY <1>1, <1>3, <1>4 DEF WorkHolds
\* Replies after one more.
<1>5. ASSUME NEW c \in {"accepted", "publishResult"}, NEW m \in Msgs, toMain' = Reply(c, m)
      PROVE  /\ Replies({"refused"})' = {} /\ Answered' = Answered \cup {m}
             /\ \A r \in Replies({"publishResult"})' :
                  \/ r \in Replies({"publishResult"})
                  \/ c = "publishResult" /\ r.msg = m
  <2> DEFINE n == [command |-> c, msg |-> m]
  <2>1. Range(toMain') = Range(toMain) \cup {n}
    BY <1>2, <1>5, ReplyTypes
  <2>2. n.command = c /\ n.msg = m /\ n.command # "refused"
    OBVIOUS
  <2> HIDE DEF n
  <2>3. Replies({"refused"})' = {}
    BY <2>1, <2>2 DEF WorkHolds, Replies
  <2>4. Answered' = Answered \cup {m}
    BY <2>1, <2>2 DEF Answered
  <2>5. ASSUME NEW r \in Replies({"publishResult"})'
        PROVE  \/ r \in Replies({"publishResult"})
               \/ c = "publishResult" /\ r.msg = m
    BY <2>1, <2>2 DEF Replies
  <2> QED
    BY <2>3, <2>4, <2>5
<1>6. UNCHANGED toMain => /\ Answered' = Answered
                          /\ \A c : Replies(c)' = Replies(c)
  BY DEF Answered, Replies
<1>7. CASE /\ workerUp /\ toWorker # <<>>
           /\ Len(queue) + Cardinality(inFlight) >= MaxPending
  <2>1. Len(queue) \in Nat /\ Cardinality(inFlight) \in Nat /\ MaxPending \in Nat
    BY <1>2, FS_CardinalityType, MqttOutputAssumption DEF CallInv
  <2> QED
    BY <1>7, <2>1, NeverRefuses
<1>8. CASE /\ workerUp /\ toWorker # <<>> /\ toWorker' = Tail(toWorker)
           /\ toMain' = Reply("accepted", Head(toWorker))
           /\ Turn(Append(queue, Head(toWorker)), inFlight)
  <2> DEFINE h == Head(toWorker)
             q == Append(queue, h)
  <2>1. h \in Msgs /\ Range(toWorker) = {h} \cup Range(toWorker')
        /\ IsInjective(toWorker') /\ h \notin Range(toWorker')
    BY <1>2, <1>8, RangeOfTail, InjectiveTail DEF WorkHolds
  <2> HIDE DEF h
  <2>2. h \notin Range(queue) /\ h \notin inFlight
    BY <2>1 DEF WorkHolds
  <2>3. Range(q) = Range(queue) \cup {h} /\ IsInjective(q)
    BY <1>2, <2>1, <2>2, RangeOfAppend, InjectiveAppend DEF WorkHolds
  <2>4. inFlight \cap Range(q) = {} /\ Turn(q, inFlight)
    BY <1>8, <2>2, <2>3 DEF WorkHolds, h
  <2>5. /\ Range(queue') \cup inFlight' = Range(q) \cup inFlight
        /\ IsInjective(queue') /\ inFlight' \cap Range(queue') = {}
    BY <2>3, <2>4, TurnKeeps
  <2>6. Work' = Work /\ Range(toWorker') \cap (Range(queue') \cup inFlight') = {}
    BY <2>1, <2>3, <2>5 DEF Work, WorkHolds
  <2>7. /\ Replies({"refused"})' = {} /\ Answered' = Answered \cup {h}
        /\ \A r \in Replies({"publishResult"})' : r \in Replies({"publishResult"})
    BY <1>5, <1>8, <2>1 DEF h
  <2>8. h \in Work
    BY <2>1 DEF Work
  <2> QED
    BY <1>4, <2>1, <2>5, <2>6, <2>7, <2>8 DEF WorkHolds
<1>9. ASSUME NEW m \in inFlight, toMain' = Reply("publishResult", m),
             Turn(queue, inFlight \ {m}), UNCHANGED toWorker
      PROVE  WorkHolds'
  <2>1. IsInjective(queue) /\ (inFlight \ {m}) \cap Range(queue) = {}
    BY DEF WorkHolds
  <2>2. /\ Range(queue') \cup inFlight' = Range(queue) \cup (inFlight \ {m})
        /\ IsInjective(queue') /\ inFlight' \cap Range(queue') = {}
    BY <1>9, <2>1, TurnKeeps
  <2>3. m \notin Range(queue) /\ m \notin Range(toWorker) /\ m \in Msgs /\ m \in Work
    BY <1>2 DEF WorkHolds, Work
  <2>4. Work' \subseteq Work /\ m \notin Work'
    BY <1>9, <2>2, <2>3 DEF Work
  <2>5. Range(toWorker') \cap (Range(queue') \cup inFlight') = {}
    BY <1>9, <2>2 DEF WorkHolds
  <2>6. /\ Replies({"refused"})' = {} /\ Answered' = Answered \cup {m}
        /\ \A r \in Replies({"publishResult"})' :
             r \in Replies({"publishResult"}) \/ r.msg = m
    BY <1>5, <1>9, <2>3
  <2>7. \A r \in Replies({"publishResult"})' : r.msg \notin Work'
    BY <2>4, <2>6 DEF WorkHolds
  <2>8. IsInjective(toWorker')
    BY <1>9 DEF WorkHolds
  <2> QED
    BY <1>4, <2>2, <2>3, <2>4, <2>5, <2>6, <2>7, <2>8
<1>10. CASE UNCHANGED ports /\ Turn(queue, inFlight)
  <2>1. /\ Range(queue') \cup inFlight' = Range(queue) \cup inFlight
        /\ IsInjective(queue') /\ inFlight' \cap Range(queue') = {}
    BY <1>10, TurnKeeps DEF WorkHolds
  <2>2. Work' = Work
    BY <1>10, <2>1 DEF Work
  <2>3. Range(toWorker') \cap (Range(queue') \cup inFlight') = {} /\ IsInjective(toWorker')
    BY <1>10, <2>1 DEF WorkHolds
  <2>4. Answered' = Answered /\ \A c : Replies(c)' = Replies(c)
    BY <1>6, <1>10
  <2> QED
    BY <1>4, <2>1, <2>2, <2>3, <2>4 DEF WorkHolds
<1>11. CASE UNCHANGED <<ports, queue, inFlight, started>>
  BY <1>1, <1>11 DEF WorkHolds, Work, Answered, Replies, Waiting, Running
<1> QED
  BY <1>7, <1>8, <1>9, <1>10, <1>11, CallWorker

LEMMA WorkStep ==
    CallInv /\ CallInv' /\ CapacityHolds /\ WorkHolds /\ [Next]_vars => WorkHolds'
<1>1. WorkHolds /\ UNCHANGED vars => WorkHolds'
  BY DEF vars, WorkHolds, Work, Answered, Replies, Waiting, Running
<1> QED
  BY <1>1, WorkApplication, WorkAnswer, WorkControl, WorkWorker DEF Next

MainInv == CallInv /\ CapacityHolds /\ WorkHolds

THEOREM MainInvariant == Spec => []MainInv
<1>1. Init => MainInv
  BY CallInit, CapacityInit, WorkInit DEF MainInv
<1>2. MainInv /\ [Next]_vars => MainInv'
  BY CallStep, CapacityStep, WorkStep DEF MainInv
<1> QED
  BY <1>1, <1>2, PTL DEF Spec

\* The limit holds over both threads: main never tracks or promises more than
\* maxPendingPublishes, and the worker refuses nothing that main has admitted.
THEOREM LimitHolds == Spec => []PendingBounded
<1>1. MainInv => PendingBounded
  BY DEF MainInv, CallInv, CapacityHolds, WorkHolds, PendingBounded
<1> QED
  BY <1>1, MainInvariant, PTL

-----------------------------------------------------------------------------
(* A drain that succeeds.                                                  *)

\* What an unsettled call waits for; a call between two packets has its last
\* message tracked until it asks for the next one.
OpenHolds ==
    Running => \A p \in Pubs :
        /\ call[p] = "open" => p \in Waiting \cup resuming \/ Message(p) \in pending
        /\ p \in resuming /\ part[p] # 0 => Message(p) \in completions

LEMMA OpenApplication ==
    ASSUME CallInv, OpenHolds, Publish \/ Continue
    PROVE  OpenHolds'
<1>1. /\ call \in [Pubs -> {"idle", "open", "done", "failed"}]
      /\ part \in [Pubs -> 0..Attrs] /\ size \in [Pubs -> 0..Attrs]
  BY DEF CallInv, TypeOK
<1>2. ASSUME NEW p \in Pubs, NEW k \in 1..Attrs, p \notin Waiting, Enqueue(p, k),
             part' = [part EXCEPT ![p] = k], resuming' = resuming \ {p}, UNCHANGED mode
      PROVE  OpenHolds'
  <2>1. /\ UNCHANGED completions
        /\ \/ /\ call' = [call EXCEPT ![p] = "failed"]
              /\ pending' = pending /\ Waiting' = Waiting
           \/ /\ call' = [call EXCEPT ![p] = "open"]
              /\ pending' = pending \cup {<<p, k>>} /\ Waiting' = Waiting
           \/ /\ call' = [call EXCEPT ![p] = "open"]
              /\ pending' = pending /\ Waiting' = Waiting \cup {p}
    BY <1>2, EnqueueEffect
  <2>2. Running' = Running /\ Message(p)' = <<p, k>>
        /\ \A q \in Pubs \ {p} : Message(q)' = Message(q) /\ part'[q] = part[q]
    BY <1>1, <1>2 DEF Running, Message
  <2>3. ASSUME NEW q \in Pubs \ {p}, Running
        PROVE  /\ call'[q] = "open" =>
                    q \in Waiting' \cup resuming' \/ Message(q)' \in pending'
               /\ q \in resuming' /\ part'[q] # 0 => Message(q)' \in completions'
    <3>1. call'[q] = call[q] /\ Waiting \subseteq Waiting' /\ pending \subseteq pending'
          /\ (q \in resuming' <=> q \in resuming)
      BY <1>1, <1>2, <2>1
    <3> QED
      BY <2>1, <2>2, <2>3, <3>1 DEF OpenHolds
  <2>4. call'[p] = "open" => p \in Waiting' \/ Message(p)' \in pending'
    BY <1>1, <2>1, <2>2
  <2>5. p \notin resuming'
    BY <1>2
  <2> QED
    BY <2>2, <2>3, <2>4, <2>5 DEF OpenHolds
<1>3. ASSUME NEW p \in Pubs, PublishMessage(p) PROVE OpenHolds'
  <2>1. p \notin Waiting /\ p \notin resuming /\ 1 \in 1..Attrs
    BY <1>3, MqttOutputAssumption DEF PublishMessage, CallInv, CallsHold
  <2>2. part' = [part EXCEPT ![p] = 1] /\ resuming' = resuming \ {p} /\ UNCHANGED mode
        /\ Enqueue(p, 1)
    BY <1>3, <2>1 DEF PublishMessage
  <2> QED
    BY <1>2, <2>1, <2>2
<1>4. ASSUME NEW p \in Pubs, NEW n \in 1..Attrs, PublishMqttMessage(p, n)
      PROVE  OpenHolds'
  <2>1. part[p] = 0
    BY <1>4 DEF PublishMqttMessage, CallInv, CallsHold
  <2>2. UNCHANGED mode /\ UNCHANGED admission /\ UNCHANGED part
        /\ \/ call' = [call EXCEPT ![p] = "failed"] /\ resuming' = resuming
           \/ call' = [call EXCEPT ![p] = "open"] /\ resuming' = resuming \cup {p}
    BY <1>4 DEF PublishMqttMessage, Refuse
  <2>3. Running' = Running /\ Waiting' = Waiting
        /\ \A q \in Pubs : Message(q)' = Message(q)
    BY <2>2 DEF Running, Waiting, Message
  <2>4. \A q \in Pubs \ {p} : call'[q] = call[q]
    BY <1>1, <2>2
  <2>5. call'[p] = "open" => p \in resuming'
    BY <1>1, <2>2
  <2> QED
    BY <2>1, <2>2, <2>3, <2>4, <2>5 DEF OpenHolds
<1>5. ASSUME NEW p \in Pubs, EnqueueNextPart(p) PROVE OpenHolds'
  <2>1. p \notin Waiting /\ part[p] < size[p]
    BY <1>5 DEF EnqueueNextPart, CallInv, CallsHold
  <2>2. part[p] + 1 \in 1..Attrs
    BY <1>1, <2>1, MqttOutputAssumption
  <2> QED
    BY <1>2, <1>5, <2>1, <2>2 DEF EnqueueNextPart
<1>6. CASE ContinueGranted
  <2>0. PICK p : p = Head(granted)
    OBVIOUS
  <2>1. granted # <<>> /\ granted \in Seq(Pubs) /\ reservations = Len(granted)
        /\ IsInjective(granted) /\ Range(granted) \cap Range(waiters) = {}
        /\ UNCHANGED <<mode, completions, part, resuming>>
        /\ Submit(p, part[p], reservations - 1, Tail(granted))
    BY <1>6, <2>0 DEF ContinueGranted, CallInv, CallsHold, TypeOK
  <2>2. p \in Pubs /\ Range(granted) = {p} \cup Range(Tail(granted))
        /\ Tail(granted) \in Seq(Pubs) /\ IsInjective(Tail(granted))
    BY <2>0, <2>1, RangeOfTail, InjectiveTail
  <2>3. Len(Tail(granted)) = reservations - 1 /\ reservations - 1 \in Nat
    BY <2>1, HeadTailProperties, EmptySeq
  <2>4. part[p] \in 1..Attrs /\ p \notin resuming
    BY <1>1, <2>2 DEF Waiting, CallInv, CallsHold
  <2>5. Range(Tail(granted)) \cap Range(waiters) = {}
    BY <2>1, <2>2
  <2>6. /\ Waiting' = Range(Tail(granted)) \cup Range(waiters)
        /\ \/ call' = [call EXCEPT ![p] = "failed"] /\ pending' = pending
           \/ /\ call' = [call EXCEPT ![p] = "open"]
              /\ pending' = pending \cup {<<p, part[p]>>}
    BY <2>1, <2>2, <2>3, <2>4, <2>5, SubmitEffect
  <2>7. Running' = Running /\ \A q \in Pubs : Message(q)' = Message(q)
    BY <2>1 DEF Running, Message
  <2>8. ASSUME NEW q \in Pubs \ {p}, Running
        PROVE  /\ call'[q] = "open" =>
                    q \in Waiting' \cup resuming' \/ Message(q)' \in pending'
               /\ q \in resuming' /\ part'[q] # 0 => Message(q)' \in completions'
    <3>1. call'[q] = call[q] /\ (q \in Waiting => q \in Waiting') /\ pending \subseteq pending'
      BY <1>1, <2>2, <2>6 DEF Waiting
    <3> QED
      BY <2>1, <2>7, <2>8, <3>1 DEF OpenHolds
  <2>9. call'[p] = "open" => Message(p)' \in pending'
    BY <1>1, <2>2, <2>6, <2>7 DEF Message
  <2>10. p \notin resuming'
    BY <2>1, <2>4
  <2> QED
    BY <2>7, <2>8, <2>9, <2>10 DEF OpenHolds
<1> QED
  BY <1>3, <1>4, <1>5, <1>6 DEF Publish, Continue

LEMMA OpenAnswer ==
    ASSUME CallInv, WorkHolds, OpenHolds, HandleMessage
    PROVE  OpenHolds'
<1>0. PICK r, m : r = Head(toMain) /\ m = r.msg
  OBVIOUS
<1>1. r \in Range(toMain) /\ r \in Records
  <2>1. toMain \in Seq(Records) /\ toMain # <<>>
    BY DEF CallInv, TypeOK, Records, HandleMessage
  <2> QED
    BY <1>0, <2>1, RangeOfTail
<1>2. /\ call \in [Pubs -> {"idle", "open", "done", "failed"}]
      /\ resuming = {} /\ UNCHANGED mode /\ UNCHANGED part /\ UNCHANGED size
  BY DEF CallInv, TypeOK, HandleMessage, BetweenTasks
<1>3. /\ waiters \in Seq(Pubs) /\ granted \in Seq(Pubs) /\ reservations \in Nat
      /\ reservations = Len(granted) /\ IsInjective(waiters) /\ IsInjective(granted)
      /\ Range(granted) \cap Range(waiters) = {}
      /\ drains \in [Callers -> {"none", "waiting", "done", "failed"}]
  BY DEF CallInv, CallsHold, TypeOK
<1>4. Waiting' = Waiting
  <2>1. \/ Notify(pending', completions', waiters, reservations, granted)
        \/ UNCHANGED <<granted, waiters>>
    BY DEF HandleMessage, HandleResult, HandleAnswer
  <2> QED
    BY <1>3, <2>1, NotifyEffect DEF Waiting
<1>5. Running' = Running /\ \A q \in Pubs : Message(q)' = Message(q)
  BY <1>2 DEF Running, Message
<1>6. CASE UNCHANGED <<pending, call, resuming>>
  BY <1>2, <1>4, <1>5, <1>6 DEF OpenHolds
<1>7. CASE m \in pending /\ HandleAnswer(m, TRUE)
  <2>1. m[1] \in Pubs /\ m = Message(m[1])
    <3>1. m \in Msgs /\ m[2] = part[m[1]]
      BY <1>7 DEF CallInv, TypeOK, CallsHold
    <3> QED
      BY <3>1, WorkTypes DEF Message
  <2>2. /\ pending' = pending \ {m} /\ completions' = completions \cup {m}
        /\ call' = [call EXCEPT ![m[1]] = IF m[2] < size[m[1]] THEN "open" ELSE "done"]
        /\ resuming' = IF m[2] < size[m[1]] THEN resuming \cup {m[1]} ELSE resuming
    BY <1>7 DEF HandleAnswer
  <2>3. \A q \in Pubs \ {m[1]} : call'[q] = call[q] /\ q \notin resuming'
        /\ Message(q) # m
    BY <1>2, <2>1, <2>2 DEF Message
  <2>4. call'[m[1]] = "open" => m[1] \in resuming'
    BY <1>2, <2>1, <2>2
  <2>5. Message(m[1])' \in completions'
    BY <1>5, <2>1, <2>2
  <2>6. ASSUME NEW q \in Pubs \ {m[1]}, Running
        PROVE  /\ call'[q] = "open" =>
                    q \in Waiting' \cup resuming' \/ Message(q)' \in pending'
               /\ q \in resuming' /\ part'[q] # 0 => Message(q)' \in completions'
    BY <1>2, <1>4, <1>5, <2>2, <2>3, <2>6 DEF OpenHolds
  <2> QED
    BY <1>5, <2>4, <2>5, <2>6 DEF OpenHolds
<1>8. \/ UNCHANGED <<pending, call, resuming>>
      \/ m \in pending /\ HandleAnswer(m, r.command = "accepted")
         /\ r.command # "publishResult"
  BY <1>0 DEF HandleMessage, HandleResult
<1>9. r.command # "publishResult" => r.command = "accepted"
  BY <1>1 DEF WorkHolds, Replies, Records
<1> QED
  BY <1>6, <1>7, <1>8, <1>9

LEMMA OpenStep ==
    CallInv /\ WorkHolds /\ OpenHolds /\ [Next]_vars => OpenHolds'
<1> SUFFICES ASSUME CallInv, WorkHolds, OpenHolds, [Next]_vars PROVE OpenHolds'
  OBVIOUS
<1>1. ASSUME Running' => Running,
             Running' => UNCHANGED <<call, part, resuming, pending, completions,
                                     granted, waiters>>
      PROVE  OpenHolds'
  BY <1>1 DEF OpenHolds, Message, Waiting
<1>2. CASE UNCHANGED vars
  BY <1>1, <1>2 DEF vars, Running
<1>3. CASE WorkerEnqueues \/ DelayElapses \/ Settling \/ SetActive \/ SetPassive
           \/ WorkerDies
  BY <1>1, <1>3, CallWorker DEF Running
<1>4. CASE Flushing \/ TimingOut \/ SealPublishes \/ FailureNoticed \/ Stopping
  <2>1. Running' => Running
    BY <1>4, WorkControl
  <2>2. Running' => UNCHANGED <<call, part, resuming, pending, completions,
                                granted, waiters>>
    BY <1>4 DEF Flushing, FlushCalled, TimingOut, DrainTimesOut, SealPublishes,
       FailureNoticed, Stopping, Stop, StopBegins, StopTerminates, StopEnds, Running
  <2> QED
    BY <1>1, <2>1, <2>2
<1> QED
  BY <1>2, <1>3, <1>4, OpenApplication, OpenAnswer DEF Next

\* What a flush that has succeeded knows.
Empty == pending = {} /\ completions = {} /\ waiters = <<>> /\ granted = <<>>

LEMMA IdleIsEmpty ==
    CallInv /\ Idle(pending, completions, waiters, reservations) => Empty
<1> SUFFICES ASSUME CallInv, Idle(pending, completions, waiters, reservations)
             PROVE  Empty
  OBVIOUS
<1>1. /\ IsFiniteSet(pending) /\ IsFiniteSet(completions)
      /\ Cardinality(pending) + Cardinality(completions) = 0 /\ waiters = <<>>
      /\ Len(granted) = 0 /\ granted \in Seq(Pubs)
  BY DEF CallInv, TypeOK, Idle, Count
<1>2. Cardinality(pending) \in Nat /\ Cardinality(completions) \in Nat
  BY <1>1, FS_CardinalityType
<1>3. Cardinality(pending) = 0 /\ Cardinality(completions) = 0
  BY <1>1, <1>2
<1>4. pending = {} /\ completions = {}
  BY <1>1, <1>3, FS_EmptySet
<1> QED
  BY <1>1, <1>4, EmptySeq DEF Empty

LEMMA IdleIsEmptyNext ==
    CallInv' /\ Idle(pending, completions, waiters, reservations)' => Empty'
BY IdleIsEmpty, PTL

LEMMA DrainEnds ==
    ASSUME CallInv, CallInv', Next, NEW c \in Callers,
           lifecycle # "stopped", drains[c] # "done", drains'[c] = "done"
    PROVE  Running' /\ Empty'
<1>1. drains \in [Callers -> {"none", "waiting", "done", "failed"}]
  BY DEF CallInv, TypeOK
<1>2. drains' # drains
  OBVIOUS
<1>3. ASSUME Idle(pending', completions', waiters', reservations') PROVE Empty'
  <2>1. Idle(pending, completions, waiters, reservations)'
    BY <1>3 DEF Idle, Count
  <2> QED
    BY <2>1, IdleIsEmptyNext
<1>4. ASSUME NEW wait, NEW res, NEW gr, UNCHANGED mode,
             Notify(pending', completions', wait, res, gr)
      PROVE  Running' /\ Empty'
  <2>1. ~workerFailed /\ Idle(pending', completions', waiters', reservations')
    BY <1>1, <1>2, <1>4 DEF Notify, SettleDrains
  <2> QED
    BY <1>3, <1>4, <2>1 DEF Running
<1>5. ASSUME NEW f \in Callers, drains' = Flushed(f),
             UNCHANGED <<lifecycle, workerFailed>>,
             UNCHANGED <<pending, completions, waiters, reservations>>
      PROVE  Running' /\ Empty'
  <2>1. ~workerFailed /\ Idle(pending', completions', waiters', reservations')
    BY <1>1, <1>5 DEF Flushed
  <2> QED
    BY <1>3, <1>5, <2>1 DEF Running
<1>6. ASSUME NEW p, NEW k, NEW res, NEW gr, Submit(p, k, res, gr),
             UNCHANGED mode, UNCHANGED completions
      PROVE  Running' /\ Empty'
  <2>1. Notify(pending', completions', waiters, res, gr)
    BY <1>2, <1>6 DEF Submit
  <2> QED
    BY <1>4, <1>6, <2>1
<1>7. ASSUME NEW p, NEW k, Enqueue(p, k), UNCHANGED mode
      PROVE  Running' /\ Empty'
  <2>1. UNCHANGED completions
    BY <1>7 DEF Enqueue
  <2>2. \/ Submit(p, k, reservations, granted)
        \/ /\ Notify(pending, completions, Append(waiters, p), reservations, granted)
           /\ UNCHANGED pending
    BY <1>2, <1>7 DEF Enqueue
  <2>3. \/ Submit(p, k, reservations, granted)
        \/ Notify(pending', completions', Append(waiters, p), reservations, granted)
    BY <2>1, <2>2
  <2> QED
    BY <1>4, <1>6, <1>7, <2>1, <2>3
<1>8. CASE Publish \/ Continue
  BY <1>2, <1>6, <1>7, <1>8 DEF Publish, Continue, PublishMessage, PublishMqttMessage,
     EnqueueNextPart, ContinueGranted
<1>9. CASE HandleMessage
  <2>1. Notify(pending', completions', waiters, reservations, granted) /\ UNCHANGED mode
    BY <1>2, <1>9 DEF HandleMessage, HandleResult, HandleAnswer
  <2> QED
    BY <1>4, <2>1
<1>10. CASE Flushing
  <2>1. PICK f \in Callers : FlushCalled(f)
    BY <1>10 DEF Flushing, Callers
  <2> QED
    BY <1>5, <2>1 DEF FlushCalled
<1>11. CASE TimingOut
  BY <1>1, <1>11 DEF TimingOut, DrainTimesOut
<1>12. CASE FailureNoticed \/ StopEnds
  BY <1>1, <1>12 DEF FailureNoticed, StopEnds, RejectOutstanding, SettleDrains
<1>13. CASE StopBegins
  <2>1. Stopper \in Callers /\ drains' = Flushed(Stopper)
        /\ UNCHANGED <<lifecycle, workerFailed>>
        /\ UNCHANGED <<pending, completions, waiters, reservations>>
    BY <1>2, <1>13 DEF StopBegins, Callers
  <2> QED
    BY <1>5, <2>1
<1>14. CASE SealPublishes \/ StopTerminates \/ \E d \in BOOLEAN : Stop(d)
  BY <1>2, <1>14 DEF SealPublishes, StopTerminates, Stop
<1>15. CASE WorkerEnqueues \/ DelayElapses \/ Settling \/ SetActive \/ SetPassive
            \/ WorkerDies
  BY <1>2, <1>15, CallWorker
<1> QED
  BY <1>8, <1>9, <1>10, <1>11, <1>12, <1>13, <1>14, <1>15 DEF Next, Stopping

LEMMA PartsGrow ==
    ASSUME CallInv, Next, NEW p \in Pubs, part'[p] = 0
    PROVE  call[p] = "idle" \/ part[p] = 0
<1>1. part \in [Pubs -> 0..Attrs]
  BY DEF CallInv, TypeOK
<1>2. ASSUME NEW q \in Pubs, PublishMessage(q) PROVE part[p] = 0
  BY <1>1, <1>2 DEF PublishMessage
<1>3. ASSUME NEW q \in Pubs, EnqueueNextPart(q) PROVE part[p] = 0
  <2>1. part[q] \in 0..Attrs /\ part[q] + 1 # 0
    BY <1>1, MqttOutputAssumption
  <2>2. part' = [part EXCEPT ![q] = part[q] + 1]
    BY <1>3 DEF EnqueueNextPart
  <2> QED
    BY <1>1, <2>1, <2>2
<1>4. UNCHANGED part => part[p] = 0
  OBVIOUS
<1>5. WorkerEnqueues \/ DelayElapses \/ Settling \/ SetActive \/ SetPassive \/ WorkerDies
      => UNCHANGED part
  BY CallWorker
<1> QED
  BY <1>2, <1>3, <1>4, <1>5 DEF Next, Publish, Continue, PublishMqttMessage, ContinueGranted,
     HandleMessage, Flushing, FlushCalled, TimingOut, DrainTimesOut, SealPublishes,
     FailureNoticed, Stopping, Stop, StopBegins, StopTerminates, StopEnds, RejectOutstanding

\* Until the proxy is stopped, a flush that succeeds leaves nothing in the worker and
\* no call unsettled that had handed over, or stood in line with, a part.
THEOREM DrainHolds == Spec => DrainMeansPublished
<1> DEFINE Inv == MainInv /\ OpenHolds
           Published ==
             \A c \in Callers :
               lifecycle # "stopped" /\ drains[c] # "done" /\ drains'[c] = "done" =>
                 /\ \A p \in Pubs : call'[p] = "open" => call[p] = "idle" \/ part[p] = 0
                 /\ toWorker' = <<>> /\ queue' = <<>> /\ inFlight' = {}
<1>1. Init => OpenHolds
  BY DEF Init, OpenHolds
<1>2. MainInv /\ OpenHolds /\ [Next]_vars => OpenHolds'
  BY OpenStep DEF MainInv
<1>3. Inv /\ Inv' /\ [Next]_vars => [Published]_vars
  <2> SUFFICES ASSUME Inv, Inv', Next, NEW c \in Callers,
                      lifecycle # "stopped", drains[c] # "done", drains'[c] = "done"
               PROVE  /\ \A p \in Pubs :
                           call'[p] = "open" => call[p] = "idle" \/ part[p] = 0
                      /\ toWorker' = <<>> /\ queue' = <<>> /\ inFlight' = {}
    BY DEF vars
  <2>1. CallInv /\ CallInv' /\ WorkHolds' /\ OpenHolds'
    BY DEF MainInv
  <2>2. Running' /\ Empty'
    BY <2>1, DrainEnds
  <2>3. Waiting' = {} /\ pending' = {} /\ completions' = {}
    BY <2>2 DEF Empty, Waiting, Range
  <2>4. Work' = {}
    BY <2>1, <2>2, <2>3 DEF WorkHolds
  <2>5. toWorker' = <<>> /\ queue' = <<>> /\ inFlight' = {}
    <3>1. toWorker' \in Seq(Msgs) /\ queue' \in Seq(Msgs)
      BY <2>1 DEF CallInv, TypeOK
    <3>2. Range(toWorker') = {} /\ Range(queue') = {} /\ inFlight' = {}
      BY <2>4 DEF Work
    <3>3. \A s \in Seq(Msgs) : Range(s) = {} => s = <<>>
      <4> SUFFICES ASSUME NEW s \in Seq(Msgs), s # <<>> PROVE Range(s) # {}
        OBVIOUS
      <4>1. Range(s) = {Head(s)} \cup Range(Tail(s))
        BY RangeOfTail
      <4> QED
        BY <4>1
    <3> QED
      BY <3>1, <3>2, <3>3
  <2>6. ASSUME NEW p \in Pubs, call'[p] = "open" PROVE call[p] = "idle" \/ part[p] = 0
    <3>1. part'[p] = 0
      BY <2>1, <2>2, <2>3, <2>6 DEF OpenHolds
    <3> QED
      BY <2>1, <3>1, PartsGrow
  <2> QED
    BY <2>5, <2>6
<1>4. Spec => []Inv
  BY <1>1, <1>2, MainInvariant, PTL DEF Spec
<1> QED
  BY <1>3, <1>4, PTL DEF Spec, DrainMeansPublished

-----------------------------------------------------------------------------
(* The order of the messages.                                              *)

\* What has been handed over, in the order in which it passes the pipeline.
Handed == started \o queue \o toWorker

\* Those promised capacity asked before those that wait, and these stand in line.
LineHolds(gr, wait) ==
    /\ \A i, j \in 1..Len(wait) : i < j => Before(Message(wait[i]), Message(wait[j]))
    /\ \A p \in Range(gr), q \in Range(wait) : Before(Message(p), Message(q))

OrderHolds ==
    /\ Range(Handed) \subseteq Range(called)
    /\ \A p \in Waiting : Message(p) \in Range(called)
    /\ Ordered(Handed)
    /\ \A m \in Range(Handed), p \in Waiting : Before(m, Message(p))
    /\ LineHolds(granted, waiters)

LEMMA HandedTypes ==
    ASSUME CallInv
    PROVE  /\ Handed \in Seq(Msgs) /\ started \in Seq(Msgs)
           /\ queue \in Seq(Msgs) /\ toWorker \in Seq(Msgs)
           /\ started \o queue \in Seq(Msgs)
<1>1. started \in Seq(Msgs) /\ queue \in Seq(Msgs) /\ toWorker \in Seq(Msgs)
  BY DEF CallInv, TypeOK
<1>2. started \o queue \in Seq(Msgs)
  BY <1>1, ConcatProperties
<1>3. (started \o queue) \o toWorker \in Seq(Msgs)
  BY <1>1, <1>2, ConcatProperties
<1> QED
  BY <1>1, <1>2, <1>3 DEF Handed

\* Who has asked has asked before all who ask later.
LEMMA AskingExtends ==
    ASSUME called \in Seq(Msgs), NEW m \in Msgs, called' = Append(called, m)
    PROVE  /\ \A x, y : Before(x, y) => Before(x, y)'
           /\ \A x \in Range(called) : Before(x, m)'
           /\ Range(called') = Range(called) \cup {m}
<1>1. /\ called' \in Seq(Msgs) /\ Len(called') = Len(called) + 1 /\ Len(called) \in Nat
      /\ called'[Len(called) + 1] = m /\ \A i \in 1..Len(called) : called'[i] = called[i]
  BY AppendProperties
<1>2. \A x, y : Before(x, y) => Before(x, y)'
  <2> SUFFICES ASSUME NEW x, NEW y, Before(x, y) PROVE Before(x, y)'
    OBVIOUS
  <2>1. PICK a, b \in 1..Len(called) : a < b /\ called[a] = x /\ called[b] = y
    BY DEF Before
  <2>2. a \in 1..Len(called') /\ b \in 1..Len(called')
    BY <1>1
  <2>3. called'[a] = x /\ called'[b] = y
    BY <1>1, <2>1
  <2> QED
    BY <2>1, <2>2, <2>3 DEF Before
<1>3. \A x \in Range(called) : Before(x, m)'
  <2> SUFFICES ASSUME NEW x \in Range(called) PROVE Before(x, m)'
    OBVIOUS
  <2>1. PICK a \in 1..Len(called) : called[a] = x
    BY RangeEquality
  <2>2. a \in 1..Len(called') /\ Len(called) + 1 \in 1..Len(called') /\ a < Len(called) + 1
    BY <1>1
  <2>3. called'[a] = x
    BY <1>1, <2>1
  <2> QED
    BY <1>1, <2>2, <2>3 DEF Before
<1>4. Range(called') = Range(called) \cup {m}
  BY RangeOfAppend
<1> QED
  BY <1>2, <1>3, <1>4

\* The next message stands behind all that were handed over.
LEMMA HandedGrows ==
    ASSUME CallInv, NEW m \in Msgs, toWorker' = Append(toWorker, m),
           UNCHANGED <<started, queue>>, Ordered(Handed),
           \A x, y : Before(x, y) => Before(x, y)',
           \A x \in Range(Handed) : Before(x, m)'
    PROVE  Ordered(Handed)' /\ Range(Handed)' = Range(Handed) \cup {m}
<1>1. /\ Handed \in Seq(Msgs) /\ toWorker \in Seq(Msgs) /\ started \o queue \in Seq(Msgs)
  BY HandedTypes
<1>2. PICK s \in Seq(Msgs) : s = Handed
  BY <1>1
<1>3. PICK t : t = Append(s, m)
  OBVIOUS
<1>4. Handed' = t
  <2>1. <<m>> \in Seq(Msgs)
    BY EmptySeq, AppendProperties
  <2>2. toWorker' = toWorker \o <<m>> /\ t = s \o <<m>>
    BY <1>1, <1>3, AppendIsConcat
  <2>3. ((started \o queue) \o toWorker) \o <<m>> = (started \o queue) \o (toWorker \o <<m>>)
    <3>1. PICK a, b, c \in Seq(Msgs) : a = started \o queue /\ b = toWorker /\ c = <<m>>
      BY <1>1, <2>1
    <3>2. (a \o b) \o c = a \o (b \o c)
      BY ConcatAssociative, SMTT(30)
    <3> QED
      BY <3>1, <3>2
  <2> QED
    BY <1>2, <2>2, <2>3 DEF Handed
<1>5. /\ Len(t) = Len(s) + 1 /\ Len(s) \in Nat
      /\ t[Len(s) + 1] = m /\ \A i \in 1..Len(s) : t[i] = s[i]
  BY <1>3, AppendProperties
<1>6. \A i \in 1..Len(s) : s[i] \in Range(s)
  BY RangeEquality
<1>7. ASSUME NEW i \in 1..Len(t), NEW j \in 1..Len(t), i < j PROVE Before(t[i], t[j])'
  <2>1. i \in 1..Len(s) /\ t[i] = s[i]
    BY <1>5, <1>7
  <2>2. CASE j \in 1..Len(s)
    <3>1. t[j] = s[j] /\ Before(s[i], s[j])
      BY <1>2, <1>5, <1>7, <2>1, <2>2 DEF Ordered
    <3> QED
      BY <2>1, <3>1
  <2>3. CASE j = Len(s) + 1
    <3>1. Before(s[i], m)'
      BY <1>2, <1>6, <2>1
    <3> QED
      BY <1>5, <2>1, <2>3, <3>1
  <2> QED
    BY <1>5, <2>2, <2>3
<1>8. Ordered(Handed)'
  BY <1>4, <1>7 DEF Ordered
<1>9. Range(t) = Range(s) \cup {m}
  BY <1>3, RangeOfAppend
<1> QED
  BY <1>2, <1>4, <1>8, <1>9

\* A turn of the worker moves a message one place on, and past no other.
LEMMA TurnKeepsHanded ==
    ASSUME NEW q \in Seq(Msgs), NEW fl, started \in Seq(Msgs), Turn(q, fl)
    PROVE  started' \o queue' = started \o q
<1>1. PICK k \in 0..Len(q) : Moves(q, fl, k)
  BY DEF Turn
<1>2. /\ queue' = SubSeq(q, k + 1, Len(q)) /\ started' = started \o SubSeq(q, 1, k)
  BY <1>1 DEF Moves
<1>3. Len(q) \in Nat /\ \A i \in 1..Len(q) : q[i] \in Msgs
  OBVIOUS
<1>4. SubSeq(q, 1, k) \in Seq(Msgs) /\ SubSeq(q, k + 1, Len(q)) \in Seq(Msgs)
  <2>1. /\ \A i \in 1..k : q[i] \in Msgs
        /\ \A i \in (k + 1)..Len(q) : q[i] \in Msgs
    BY <1>3
  <2> QED
    BY <1>3, <2>1, SubSeqProperties
<1>5. SubSeq(q, 1, k) \o SubSeq(q, k + 1, Len(q)) = q
  <2>1. 1 \in 1..Len(q) + 1 /\ k \in 1 - 1..Len(q) /\ Len(q) \in k..Len(q)
    BY <1>3
  <2>2. SubSeq(q, 1, k) \o SubSeq(q, k + 1, Len(q)) = SubSeq(q, 1, Len(q))
    BY <2>1, ConcatAdjacentSubSeq
  <2> QED
    BY <2>2, SubSeqFull
<1>6. (started \o SubSeq(q, 1, k)) \o SubSeq(q, k + 1, Len(q))
        = started \o (SubSeq(q, 1, k) \o SubSeq(q, k + 1, Len(q)))
  <2>1. PICK a, b \in Seq(Msgs) : a = SubSeq(q, 1, k) /\ b = SubSeq(q, k + 1, Len(q))
    BY <1>4
  <2>2. (started \o a) \o b = started \o (a \o b)
    BY ConcatAssociative, SMTT(30)
  <2> QED
    BY <2>1, <2>2
<1> QED
  BY <1>2, <1>5, <1>6

LEMMA HeadThenTail ==
    ASSUME NEW S, NEW s \in Seq(S), s # <<>>
    PROVE  s = <<Head(s)>> \o Tail(s)
<1>1. Len(s) \in Nat \ {0} /\ Head(s) = s[1] /\ Tail(s) = SubSeq(s, 2, Len(s))
  BY EmptySeq, TailIsSubSeq
<1>2. 1 \in 1..Len(s) /\ Len(s) \in 1..Len(s) /\ 1 + 1 = 2
  BY <1>1
<1>3. SubSeq(s, 1, Len(s)) = <<s[1]>> \o SubSeq(s, 1 + 1, Len(s))
  BY <1>2, SubSeqRecursiveFirst
<1> QED
  BY <1>1, <1>2, <1>3, SubSeqFull

LEMMA WorkerKeepsHanded ==
    ASSUME CallInv, CapacityHolds, WorkHolds,
           WorkerEnqueues \/ DelayElapses \/ Settling \/ SetActive \/ SetPassive \/ WorkerDies
    PROVE  Handed' = Handed
<1>1. /\ started \in Seq(Msgs) /\ queue \in Seq(Msgs) /\ toWorker \in Seq(Msgs)
      /\ started \o queue \in Seq(Msgs)
  BY HandedTypes
<1>2. CASE workerUp /\ toWorker # <<>> /\ Len(queue) + Cardinality(inFlight) >= MaxPending
  <2>1. Len(queue) \in Nat /\ Cardinality(inFlight) \in Nat /\ MaxPending \in Nat
    BY <1>1, FS_CardinalityType, MqttOutputAssumption DEF CallInv
  <2> QED
    BY <1>2, <2>1, NeverRefuses
<1>3. CASE toWorker # <<>> /\ toWorker' = Tail(toWorker)
           /\ Turn(Append(queue, Head(toWorker)), inFlight)
  <2>1. PICK h : h = Head(toWorker)
    OBVIOUS
  <2>2. h \in Msgs /\ Tail(toWorker) \in Seq(Msgs) /\ toWorker = <<h>> \o Tail(toWorker)
    BY <1>1, <1>3, <2>1, RangeOfTail, HeadThenTail
  <2>3. <<h>> \in Seq(Msgs) /\ Append(queue, h) = queue \o <<h>>
        /\ Append(queue, h) \in Seq(Msgs)
    BY <1>1, <2>2, AppendIsConcat, AppendProperties
  <2>4. started' \o queue' = started \o (queue \o <<h>>)
    BY <1>1, <1>3, <2>1, <2>3, TurnKeepsHanded
  <2>5. started \o (queue \o <<h>>) = (started \o queue) \o <<h>>
    BY <1>1, <2>3, ConcatAssociative
  <2>6. ((started \o queue) \o <<h>>) \o Tail(toWorker)
          = (started \o queue) \o (<<h>> \o Tail(toWorker))
    <3>1. PICK a, b, c : a = started \o queue /\ b = <<h>> /\ c = Tail(toWorker)
      OBVIOUS
    <3>2. a \in Seq(Msgs) /\ b \in Seq(Msgs) /\ c \in Seq(Msgs)
      BY <1>1, <2>2, <2>3, <3>1
    <3>3. (a \o b) \o c = a \o (b \o c)
      BY <3>2, ConcatAssociative, SMTT(30)
    <3> QED
      BY <3>1, <3>3
  <2> QED
    BY <1>3, <2>2, <2>4, <2>5, <2>6 DEF Handed
<1>4. ASSUME NEW fl, Turn(queue, fl), UNCHANGED toWorker PROVE Handed' = Handed
  BY <1>1, <1>4, TurnKeepsHanded DEF Handed
<1>5. UNCHANGED <<toWorker, queue, started>> => Handed' = Handed
  BY DEF Handed
<1> QED
  BY <1>2, <1>3, <1>4, <1>5, CallWorker

\* Promising capacity to the head of the line keeps the line's order.
LEMMA NotifyKeepsLine ==
    ASSUME NEW wait \in Seq(Pubs), NEW gr \in Seq(Pubs), LineHolds(gr, wait),
           \/ waiters' = wait /\ granted' = gr
           \/ wait # <<>> /\ gr = <<>> /\ waiters' = Tail(wait)
              /\ granted' = Append(gr, Head(wait))
    PROVE  LineHolds(granted', waiters')
<1>1. CASE waiters' = wait /\ granted' = gr
  BY <1>1
<1>2. CASE wait # <<>> /\ gr = <<>> /\ waiters' = Tail(wait)
           /\ granted' = Append(gr, Head(wait))
  <2>1. PICK t, g : t = Tail(wait) /\ g = Append(gr, Head(wait))
    OBVIOUS
  <2>2. /\ t \in Seq(Pubs) /\ Len(t) = Len(wait) - 1 /\ Head(wait) \in Pubs
        /\ \A i \in 1..Len(t) : t[i] = wait[i + 1]
    BY <1>2, <2>1, HeadTailProperties
  <2>3. Len(wait) \in Nat \ {0} /\ Head(wait) = wait[1]
    BY <1>2, EmptySeq
  <2>4. Range(g) = {wait[1]}
    <3>1. Range(g) = Range(gr) \cup {Head(wait)}
      BY <2>1, <2>2, RangeOfAppend
    <3>2. Range(gr) = {}
      BY <1>2 DEF Range
    <3> QED
      BY <2>3, <3>1, <3>2
  <2>5. \A i \in 1..Len(t) : i + 1 \in 1..Len(wait) /\ 1 < i + 1
    BY <2>2, <2>3
  <2>6. ASSUME NEW i \in 1..Len(t), NEW j \in 1..Len(t), i < j
        PROVE  Before(Message(t[i]), Message(t[j]))
    <3>1. i + 1 < j + 1
      BY <2>2, <2>3, <2>6
    <3> QED
      BY <2>2, <2>5, <3>1 DEF LineHolds
  <2>7. ASSUME NEW p \in Range(g), NEW q \in Range(t)
        PROVE  Before(Message(p), Message(q))
    <3>1. PICK j \in 1..Len(t) : q = t[j]
      BY <2>2, RangeEquality
    <3>2. p = wait[1] /\ q = wait[j + 1] /\ 1 \in 1..Len(wait)
      BY <2>2, <2>3, <2>4, <3>1
    <3> QED
      BY <2>5, <3>1, <3>2 DEF LineHolds
  <2> QED
    BY <1>2, <2>1, <2>6, <2>7 DEF LineHolds
<1> QED
  BY <1>1, <1>2

LEMMA NobodyWaits ==
    ASSUME NEW gr \in Seq(Pubs), NEW wait \in Seq(Pubs), Range(gr) = {}, Range(wait) = {}
    PROVE  LineHolds(gr, wait)
<1>1. \A i \in 1..Len(wait) : wait[i] \in Range(wait)
  BY RangeEquality
<1> QED
  BY <1>1 DEF LineHolds

\* A step after which nobody waits who has not waited before.
LEMMA OrderKeeps ==
    ASSUME CallInv, OrderHolds,
           \A x, y : Before(x, y) => Before(x, y)',
           Range(called) \subseteq Range(called'),
           Waiting' \subseteq Waiting, waiters' \in Seq(Pubs),
           \A q \in Waiting' : Message(q)' = Message(q),
           LineHolds(granted', waiters'),
           Ordered(Handed)', Range(Handed)' \subseteq Range(called'),
           \A m \in Range(Handed)', q \in Waiting' : Before(m, Message(q))
    PROVE  OrderHolds'
<1>1. \A i \in 1..Len(waiters') : waiters'[i] \in Waiting'
  BY RangeEquality DEF Waiting
<1>2. Range(granted') \subseteq Waiting' /\ Range(waiters') \subseteq Waiting'
  BY DEF Waiting
<1>3. \A p \in Waiting' : Message(p)' \in Range(called')
  BY DEF OrderHolds
<1>4. \A m \in Range(Handed)', p \in Waiting' : Before(m, Message(p))'
  <2> SUFFICES ASSUME NEW m \in Range(Handed)', NEW p \in Waiting'
               PROVE  Before(m, Message(p))'
    OBVIOUS
  <2>1. PICK n : n = Message(p)
    OBVIOUS
  <2>2. Before(m, n)' /\ n = Message(p)'
    BY <2>1
  <2> QED
    BY <2>2 DEF Before
<1>5. ASSUME NEW p \in Waiting', NEW q \in Waiting', Before(Message(p), Message(q))
      PROVE  Before(Message(p), Message(q))'
  <2>1. PICK m, n : m = Message(p) /\ n = Message(q)
    OBVIOUS
  <2>2. Before(m, n)' /\ m = Message(p)' /\ n = Message(q)'
    BY <1>5, <2>1
  <2> QED
    BY <2>2 DEF Before
<1>6. LineHolds(granted, waiters)'
  <2>1. ASSUME NEW i \in 1..Len(waiters'), NEW j \in 1..Len(waiters'), i < j
        PROVE  Before(Message(waiters[i]), Message(waiters[j]))'
    <3>1. PICK p, q \in Waiting' : p = waiters'[i] /\ q = waiters'[j]
      BY <1>1
    <3>2. Before(Message(p), Message(q))'
      BY <1>5, <2>1, <3>1 DEF LineHolds
    <3> QED
      BY <3>1, <3>2 DEF Message
  <2>2. ASSUME NEW p \in Range(granted'), NEW q \in Range(waiters')
        PROVE  Before(Message(p), Message(q))'
    BY <1>2, <1>5 DEF LineHolds
  <2> QED
    BY <2>1, <2>2 DEF LineHolds
<1> QED
  BY <1>3, <1>4, <1>6 DEF OrderHolds

\* Nothing is handed over and nobody asks.
LEMMA OrderRests ==
    ASSUME CallInv, OrderHolds, Handed' = Handed, UNCHANGED <<called, part>>,
           Waiting' \subseteq Waiting, waiters' \in Seq(Pubs), LineHolds(granted', waiters')
    PROVE  OrderHolds'
<1>1. \A x, y : Before(x, y) => Before(x, y)'
  BY DEF Before
<1>2. \A q : Message(q)' = Message(q)
  BY DEF Message
<1>3. Ordered(Handed)'
  BY <1>1 DEF OrderHolds, Ordered
<1>4. Range(Handed)' \subseteq Range(called')
  BY DEF OrderHolds
<1>5. \A m \in Range(Handed)', q \in Waiting' : Before(m, Message(q))
  BY DEF OrderHolds
<1> QED
  BY <1>1, <1>2, <1>3, <1>4, <1>5, OrderKeeps

\* A call asks for admission and is refused, posts its message, or stands last
\* in the line.
LEMMA OrderAsks ==
    ASSUME CallInv, CapacityHolds, OrderHolds, NEW p \in Pubs, NEW k \in 1..Attrs,
           p \notin Waiting, Enqueue(p, k), part' = [part EXCEPT ![p] = k],
           UNCHANGED <<mode, worker>>
    PROVE  OrderHolds'
<1>0. PICK n : n = <<p, k>>
  OBVIOUS
<1>1. /\ waiters \in Seq(Pubs) /\ IsInjective(waiters)
      /\ granted \in Seq(Pubs) /\ IsInjective(granted)
      /\ reservations \in Nat /\ reservations = Len(granted)
      /\ Range(granted) \cap Range(waiters) = {}
      /\ drains \in [Callers -> {"none", "waiting", "done", "failed"}]
      /\ toWorker \in Seq(Msgs) /\ called \in Seq(Msgs) /\ part \in [Pubs -> 0..Attrs]
  BY DEF CallInv, CallsHold, TypeOK
<1>2. Count(pending, completions) \in Nat /\ MaxPending \in Nat
  BY CountType, MqttOutputAssumption DEF CallInv
<1>3. n \in Msgs /\ called' = Append(called, n)
  BY <1>0, MessageTypes DEF Enqueue
<1>4. /\ \A x, y : Before(x, y) => Before(x, y)'
      /\ \A x \in Range(called) : Before(x, n)'
      /\ Range(called') = Range(called) \cup {n}
  BY <1>1, <1>3, AskingExtends
<1>5. Waiting \subseteq Pubs /\ Message(p)' = n
      /\ \A q \in Pubs \ {p} : Message(q)' = Message(q)
  BY <1>0, <1>1, WorkTypes DEF Message
<1>6. Lines'
  BY EnqueueEffect
<1>7. waiters' \in Seq(Pubs) /\ granted' \in Seq(Pubs)
  BY <1>6 DEF Lines
<1>8. /\ Ordered(Handed) /\ Range(Handed) \subseteq Range(called)
      /\ \A m \in Range(Handed), q \in Waiting : Before(m, Message(q))
      /\ \A q \in Waiting : Message(q) \in Range(called)
  BY DEF OrderHolds
<1>9. UNCHANGED toWorker => Handed' = Handed
  BY DEF Handed
<1>10. Handed' = Handed => Ordered(Handed)'
  BY <1>4, <1>8 DEF Ordered
\* Nobody is added to those who wait, and nothing to what is handed over.
<1>11. ASSUME UNCHANGED toWorker, Waiting' = Waiting, LineHolds(granted', waiters')
       PROVE  OrderHolds'
  <2>1. \A q \in Waiting' : Message(q)' = Message(q)
    BY <1>5, <1>11
  <2>2. Handed' = Handed
    BY <1>9, <1>11
  <2>3. Range(Handed)' \subseteq Range(called')
    BY <1>4, <1>8, <2>2
  <2>4. \A m \in Range(Handed)', q \in Waiting' : Before(m, Message(q))
    BY <1>8, <1>11, <2>2
  <2>5. Range(called) \subseteq Range(called') /\ Waiting' \subseteq Waiting
    BY <1>4, <1>11
  <2> QED
    BY <1>4, <1>7, <1>10, <1>11, <2>1, <2>2, <2>3, <2>4, <2>5, OrderKeeps
<1>12. CASE UNCHANGED <<waiters, granted, toWorker>>
  <2>1. Waiting' = Waiting /\ LineHolds(granted', waiters')
    BY <1>12 DEF Waiting, OrderHolds
  <2> QED
    BY <1>11, <1>12, <2>1
<1>13. CASE Submit(p, k, reservations, granted) /\ waiters = <<>> /\ granted = <<>>
  <2>1. Range(granted) = {} /\ Range(waiters) = {}
    BY <1>13 DEF Range
  <2>2. /\ Waiting' = Range(granted) \cup Range(waiters)
        /\ \/ toWorker' = toWorker
           \/ toWorker' = Append(toWorker, n)
    BY <1>0, <1>1, <1>13, SubmitEffect
  <2>3. Waiting' = {} /\ Waiting = {}
    BY <2>1, <2>2 DEF Waiting
  <2>4. LineHolds(granted', waiters')
    BY <1>7, <2>3, NobodyWaits DEF Waiting
  <2>5. CASE toWorker' = toWorker
    BY <1>11, <2>3, <2>4, <2>5
  <2>6. CASE toWorker' = Append(toWorker, n)
    <3>1. \A x \in Range(Handed) : Before(x, n)'
      BY <1>4, <1>8
    <3>2. UNCHANGED <<started, queue>>
      OBVIOUS
    <3>3. Ordered(Handed)' /\ Range(Handed)' = Range(Handed) \cup {n}
      BY <1>3, <1>4, <1>8, <2>6, <3>1, <3>2, HandedGrows
    <3>4. Range(Handed)' \subseteq Range(called') /\ Range(called) \subseteq Range(called')
      BY <1>4, <1>8, <3>3
    <3> QED
      BY <1>4, <1>7, <2>3, <2>4, <3>3, <3>4, OrderKeeps
  <2> QED
    BY <2>2, <2>5, <2>6
<1>14. CASE /\ Backpressure /\ ~AdmissionClosed /\ MustWait
            /\ Notify(pending, completions, Append(waiters, p), reservations, granted)
            /\ UNCHANGED toWorker
  <2>0. PICK wait : wait = Append(waiters, p)
    OBVIOUS
  <2>1. /\ wait \in Seq(Pubs) /\ Range(wait) = Range(waiters) \cup {p}
        /\ Len(wait) = Len(waiters) + 1 /\ wait[Len(waiters) + 1] = p
        /\ Len(waiters) \in Nat
        /\ \A i \in 1..Len(waiters) : wait[i] = waiters[i]
    BY <1>1, <2>0, RangeOfAppend, AppendProperties
  <2>2. IsInjective(wait) /\ Range(granted) \cap Range(wait) = {}
    BY <1>1, <2>0, <2>1, InjectiveAppend DEF Waiting
  <2>3. Count(pending, completions) + reservations = MaxPending
    BY <1>1, <1>2, <1>14 DEF MustWait, CapacityHolds
  <2>4. ~Grants(pending, completions, wait, reservations)
    BY <1>1, <1>2, <2>3 DEF Grants
  <2>5. waiters' = wait /\ granted' = granted
    BY <1>1, <1>14, <2>0, <2>1, <2>2, <2>4, NotifyEffect
  <2>6. Waiting' = Waiting \cup {p} /\ Handed' = Handed
    BY <1>9, <1>14, <2>1, <2>5 DEF Waiting
  <2>7. \A q \in Waiting : q \in Pubs \ {p} /\ Message(q)' = Message(q)
    BY <1>5
  <2>8. \A q \in Waiting' : Message(q)' \in Range(called')
    <3>1. \A q \in Waiting : Message(q)' \in Range(called')
      <4>1. \A q \in Waiting : Message(q) \in Range(called) \cup {n}
        BY DEF OrderHolds
      <4>2. \A q \in Waiting : Message(q)' = Message(q)
        BY <2>7
      <4>3. Range(called') = Range(called) \cup {n}
        BY <1>4
      <4> QED
        BY <4>1, <4>2, <4>3
    <3>2. Message(p)' \in Range(called')
      BY <1>4, <1>5
    <3>3. \A q : q = p => Message(q)' \in Range(called')
      BY <3>2 DEF Message
    <3> QED
      BY <2>6, <3>1, <3>3
  <2>9. \A x \in Range(called) : \A q : Message(q)' = n => Before(x, Message(q))'
    BY <1>4 DEF Before
  <2>10. \A x, q : Before(x, Message(q)) /\ Message(q)' = Message(q)
           => Before(x, Message(q))'
    <3> SUFFICES ASSUME NEW x, NEW q, Before(x, Message(q)), Message(q)' = Message(q)
                 PROVE  Before(x, Message(q))'
      OBVIOUS
    <3>1. PICK y : y = Message(q)
      OBVIOUS
    <3>2. Before(x, y)' /\ y = Message(q)'
      BY <1>4, <3>1
    <3> QED
      BY <3>2 DEF Before
  <2>11. \A m \in Range(Handed)', q \in Waiting' : Before(m, Message(q))'
    BY <1>5, <1>8, <2>6, <2>7, <2>9, <2>10
  <2>12. \A q, r \in Waiting : Before(Message(q), Message(r)) =>
           Before(Message(q), Message(r))'
    <3> SUFFICES ASSUME NEW q \in Waiting, NEW r \in Waiting, Before(Message(q), Message(r))
                 PROVE  Before(Message(q), Message(r))'
      OBVIOUS
    <3>1. PICK x : x = Message(q)
      OBVIOUS
    <3>2. Before(x, Message(r))' /\ x = Message(q)'
      BY <2>7, <2>10, <3>1
    <3> QED
      BY <3>2 DEF Before
  <2>13. \A q \in Waiting : Before(Message(q), Message(p))'
    <3> SUFFICES ASSUME NEW q \in Waiting PROVE Before(Message(q), Message(p))'
      OBVIOUS
    <3>1. PICK x : x = Message(q)
      OBVIOUS
    <3>2. x \in Range(called) /\ x = Message(q)' /\ Message(p)' = n
      <4>1. Message(q) \in Range(called)
        BY DEF OrderHolds
      <4>2. Message(q)' = Message(q) /\ Message(p)' = n
        BY <1>5, <2>7
      <4> QED
        BY <3>1, <4>1, <4>2
    <3> QED
      BY <1>4, <3>2 DEF Before
  <2>14. ASSUME NEW i \in 1..Len(wait), NEW j \in 1..Len(wait), i < j
         PROVE  Before(Message(wait[i]), Message(wait[j]))'
    <3>1. i \in 1..Len(waiters)
      BY <2>1, <2>14
    <3>2. PICK q \in Waiting : q = waiters[i]
      BY <1>1, <3>1, RangeEquality DEF Waiting
    <3>3. wait[i] = q
      BY <2>1, <3>1, <3>2
    <3>4. CASE j \in 1..Len(waiters)
      <4>1. PICK r \in Waiting : r = waiters[j]
        BY <1>1, <3>4, RangeEquality DEF Waiting
      <4>2. Before(Message(q), Message(r))
        BY <2>14, <3>1, <3>2, <3>4, <4>1 DEF OrderHolds, LineHolds
      <4> QED
        BY <2>1, <2>12, <3>3, <3>4, <4>1, <4>2
    <3>5. CASE j = Len(waiters) + 1
      BY <2>1, <2>13, <3>3, <3>5
    <3> QED
      BY <2>1, <3>4, <3>5
  <2>15. ASSUME NEW q \in Range(granted), NEW r \in Range(wait)
         PROVE  Before(Message(q), Message(r))'
    <3>1. CASE r \in Range(waiters)
      BY <2>12, <3>1 DEF OrderHolds, LineHolds, Waiting
    <3>2. CASE r = p
      BY <2>13, <3>2 DEF Waiting
    <3> QED
      BY <2>1, <3>1, <3>2
  <2>16. LineHolds(granted, waiters)'
    BY <2>5, <2>14, <2>15 DEF LineHolds
  <2>17. Ordered(Handed)' /\ Range(Handed)' \subseteq Range(called')
    BY <1>4, <1>8, <1>10, <2>6
  <2> QED
    BY <2>8, <2>11, <2>16, <2>17 DEF OrderHolds
<1>15. Submit(p, k, reservations, granted) /\ (Backpressure => ~AdmissionClosed /\ ~MustWait)
         => \/ UNCHANGED <<waiters, granted, toWorker>>
            \/ Submit(p, k, reservations, granted) /\ waiters = <<>> /\ granted = <<>>
  <2>1. CASE MaySubmit
    BY <1>2, <2>1 DEF MustWait, MaySubmit, CapacityHolds, CallInv
  <2>2. CASE ~MaySubmit
    BY <2>2 DEF Submit
  <2> QED
    BY <2>1, <2>2
<1> QED
  BY <1>12, <1>13, <1>14, <1>15 DEF Enqueue

LEMMA OrderApplication ==
    ASSUME CallInv, CapacityHolds, OrderHolds, Publish \/ Continue
    PROVE  OrderHolds'
<1>1. ASSUME NEW p \in Pubs, PublishMessage(p) PROVE OrderHolds'
  <2>1. p \notin Waiting /\ 1 \in 1..Attrs
    BY <1>1, MqttOutputAssumption DEF PublishMessage, CallInv, CallsHold
  <2>2. Enqueue(p, 1) /\ part' = [part EXCEPT ![p] = 1] /\ UNCHANGED <<mode, worker>>
    BY <1>1 DEF PublishMessage
  <2> QED
    BY <2>1, <2>2, OrderAsks
<1>2. ASSUME NEW p \in Pubs, NEW n \in 1..Attrs, PublishMqttMessage(p, n)
      PROVE  OrderHolds'
  <2>1. /\ UNCHANGED <<admission, worker, ports, part, called>>
        /\ waiters \in Seq(Pubs) /\ LineHolds(granted, waiters)
    BY <1>2 DEF PublishMqttMessage, CallInv, TypeOK, OrderHolds
  <2>2. Handed' = Handed /\ Waiting' = Waiting /\ LineHolds(granted', waiters')
    BY <2>1 DEF Handed, Waiting
  <2> QED
    BY <2>1, <2>2, OrderRests
<1>3. ASSUME NEW p \in Pubs, EnqueueNextPart(p) PROVE OrderHolds'
  <2>1. p \notin Waiting /\ part[p] < size[p] /\ part[p] \in 0..Attrs /\ size[p] \in 0..Attrs
    BY <1>3 DEF EnqueueNextPart, CallInv, CallsHold, TypeOK
  <2>2. part[p] + 1 \in 1..Attrs
    BY <2>1, MqttOutputAssumption
  <2>3. Enqueue(p, part[p] + 1) /\ part' = [part EXCEPT ![p] = part[p] + 1]
        /\ UNCHANGED <<mode, worker>>
    BY <1>3 DEF EnqueueNextPart
  <2> QED
    BY <2>1, <2>2, <2>3, OrderAsks
<1>4. CASE ContinueGranted
  <2>0. PICK p, n : p = Head(granted) /\ n = Message(p)
    OBVIOUS
  <2>1. /\ granted # <<>> /\ granted \in Seq(Pubs) /\ reservations = Len(granted)
        /\ waiters \in Seq(Pubs) /\ IsInjective(waiters)
        /\ drains \in [Callers -> {"none", "waiting", "done", "failed"}]
        /\ UNCHANGED <<completions, part, called, started, queue>>
        /\ Submit(p, part[p], reservations - 1, Tail(granted))
    BY <1>4, <2>0 DEF ContinueGranted, CallInv, CallsHold, TypeOK
  <2>2. /\ p \in Pubs /\ Range(granted) = {p} \cup Range(Tail(granted))
        /\ Tail(granted) \in Seq(Pubs) /\ Len(Tail(granted)) = 0 /\ reservations = 1
    BY <2>0, <2>1, RangeOfTail, HeadTailProperties, EmptySeq DEF CapacityHolds
  <2>3. Tail(granted) = <<>> /\ reservations - 1 = 0
    <3>1. Tail(granted) = <<>>
      BY <2>2, EmptySeq
    <3> QED
      BY <2>2, <3>1
  <2>4. /\ <<>> \in Seq(Pubs) /\ Len(<<>>) = 0 /\ Range(<<>>) = {} /\ IsInjective(<<>>)
        /\ 0 \in Nat
    BY EmptySeq DEF Range, IsInjective
  <2>5. Submit(p, part[p], 0, <<>>)
    BY <2>1, <2>3
  <2>6. p \in Waiting /\ part[p] \in 1..Attrs /\ n \in Msgs /\ n = <<p, part[p]>>
    <3>1. p \in Waiting /\ part[p] # 0 /\ part[p] \in 0..Attrs
      BY <2>2 DEF Waiting, CallInv, CallsHold, TypeOK
    <3>2. part[p] \in 1..Attrs
      BY <3>1, MqttOutputAssumption
    <3> QED
      BY <2>0, <2>2, <3>1, <3>2, MessageTypes DEF Message
  <2>7. Range(<<>>) \cap Range(waiters) = {}
    BY <2>4
  <2>8. /\ Lines' /\ Waiting' = Range(waiters)
        /\ \/ toWorker' = toWorker
           \/ toWorker' = Append(toWorker, n)
    <3>1. PICK gr \in Seq(Pubs) : gr = <<>>
      BY <2>4
    <3>2. Submit(p, part[p], 0, gr) /\ 0 = Len(gr) /\ IsInjective(gr)
          /\ Range(gr) \cap Range(waiters) = {}
      BY <2>4, <2>5, <2>7, <3>1
    <3>3. /\ Lines' /\ Waiting' = Range(gr) \cup Range(waiters)
          /\ \/ toWorker' = toWorker
             \/ toWorker' = Append(toWorker, <<p, part[p]>>)
      BY <2>2, <2>4, <2>6, <3>2, SubmitEffect
    <3> QED
      BY <2>4, <2>6, <3>1, <3>3
  <2>9. waiters' \in Seq(Pubs) /\ Waiting' \subseteq Waiting
    BY <2>8 DEF Lines, Waiting
  <2>10. LineHolds(<<>>, waiters)
    BY <2>4 DEF OrderHolds, LineHolds
  <2>11. LineHolds(granted', waiters')
    <3>1. CASE waiters' = waiters /\ granted' = <<>>
      BY <2>10, <3>1
    <3>2. ASSUME NEW pend, NEW comp, Notify(pend, comp, waiters, 0, <<>>)
          PROVE  LineHolds(granted', waiters')
      <4>1. \/ waiters' = waiters /\ granted' = <<>>
            \/ /\ waiters # <<>> /\ waiters' = Tail(waiters)
               /\ granted' = Append(<<>>, Head(waiters))
        BY <2>1, <2>4, <2>7, <3>2, NotifyEffect
      <4> QED
        BY <2>1, <2>4, <2>10, <4>1, NotifyKeepsLine
    <3> QED
      BY <2>5, <3>1, <3>2 DEF Submit
  <2>12. CASE toWorker' = toWorker
    <3>1. Handed' = Handed
      BY <2>1, <2>12 DEF Handed
    <3> QED
      BY <2>1, <2>9, <2>11, <3>1, OrderRests
  <2>13. CASE toWorker' = Append(toWorker, n)
    <3>1. /\ Ordered(Handed) /\ \A x \in Range(Handed) : Before(x, n)
          /\ n \in Range(called) /\ Range(Handed) \subseteq Range(called)
      BY <2>0, <2>6 DEF OrderHolds
    <3>2. \A x, y : Before(x, y) => Before(x, y)'
      BY <2>1 DEF Before
    <3>3. UNCHANGED <<started, queue>>
      BY <2>1
    <3>4. Ordered(Handed)' /\ Range(Handed)' = Range(Handed) \cup {n}
      BY <2>6, <2>13, <3>1, <3>2, <3>3, HandedGrows
    <3>5. \A q : Message(q)' = Message(q)
      BY <2>1 DEF Message
    <3>6. \A q \in Range(waiters) : Before(n, Message(q))
      BY <2>0, <2>2 DEF OrderHolds, LineHolds
    <3>7. \A m \in Range(Handed)', q \in Waiting' : Before(m, Message(q))
      <4> SUFFICES ASSUME NEW m \in Range(Handed)', NEW q \in Waiting'
                   PROVE  Before(m, Message(q))
        OBVIOUS
      <4>1. q \in Waiting /\ q \in Range(waiters)
        BY <2>8, <2>9
      <4>2. CASE m \in Range(Handed)
        BY <4>1, <4>2 DEF OrderHolds
      <4>3. CASE m = n
        BY <3>6, <4>1, <4>3
      <4> QED
        BY <3>4, <4>2, <4>3
    <3>8. Range(Handed)' \subseteq Range(called') /\ Range(called) \subseteq Range(called')
      BY <2>1, <3>1, <3>4
    <3> QED
      BY <2>9, <2>11, <3>2, <3>4, <3>5, <3>7, <3>8, OrderKeeps
  <2> QED
    BY <2>8, <2>12, <2>13
<1> QED
  BY <1>1, <1>2, <1>3, <1>4 DEF Publish, Continue

LEMMA OrderAnswer ==
    ASSUME CallInv, CapacityHolds, OrderHolds, HandleMessage
    PROVE  OrderHolds'
<1>1. /\ waiters \in Seq(Pubs) /\ granted \in Seq(Pubs) /\ reservations \in Nat
      /\ reservations = Len(granted) /\ IsInjective(waiters) /\ IsInjective(granted)
      /\ Range(granted) \cap Range(waiters) = {}
      /\ drains \in [Callers -> {"none", "waiting", "done", "failed"}]
      /\ LineHolds(granted, waiters) /\ granted = <<>>
      /\ UNCHANGED <<called, part, toWorker, queue, started>>
  BY DEF CallInv, CallsHold, TypeOK, OrderHolds, HandleMessage, BetweenTasks
<1>2. \/ Notify(pending', completions', waiters, reservations, granted)
      \/ UNCHANGED <<granted, waiters>>
  BY DEF HandleMessage, HandleResult, HandleAnswer
<1>3. /\ \/ waiters' = waiters /\ granted' = granted
         \/ /\ waiters # <<>> /\ waiters' = Tail(waiters)
            /\ granted' = Append(granted, Head(waiters))
      /\ Waiting' = Waiting
  BY <1>1, <1>2, NotifyEffect DEF Waiting
<1>4. LineHolds(granted', waiters') /\ waiters' \in Seq(Pubs)
  <2>1. LineHolds(granted', waiters')
    BY <1>1, <1>3, NotifyKeepsLine
  <2>2. waiters' \in Seq(Pubs)
    BY <1>1, <1>3, RangeOfTail
  <2> QED
    BY <2>1, <2>2
<1>5. Handed' = Handed
  BY <1>1 DEF Handed
<1> QED
  BY <1>1, <1>3, <1>4, <1>5, OrderRests

LEMMA OrderControl ==
    ASSUME CallInv, OrderHolds,
           Flushing \/ TimingOut \/ SealPublishes \/ FailureNoticed \/ Stopping
    PROVE  OrderHolds'
<1>1. /\ UNCHANGED <<called, part, toWorker, queue, started>>
      /\ \/ UNCHANGED <<granted, waiters>>
         \/ granted' = granted /\ waiters' = <<>>
  BY DEF Flushing, FlushCalled, TimingOut, DrainTimesOut, SealPublishes, FailureNoticed,
     Stopping, Stop, StopBegins, StopTerminates, StopEnds, RejectOutstanding
<1>2. waiters \in Seq(Pubs) /\ <<>> \in Seq(Pubs) /\ Range(<<>>) = {} /\ Len(<<>>) = 0
  BY EmptySeq DEF CallInv, TypeOK, Range
<1>3. Waiting' \subseteq Waiting
  BY <1>1, <1>2 DEF Waiting
<1>4. LineHolds(granted', waiters')
  BY <1>1, <1>2 DEF OrderHolds, LineHolds
<1>5. Handed' = Handed /\ waiters' \in Seq(Pubs)
  BY <1>1, <1>2 DEF Handed
<1> QED
  BY <1>1, <1>3, <1>4, <1>5, OrderRests

LEMMA OrderStep == MainInv /\ OrderHolds /\ [Next]_vars => OrderHolds'
<1> SUFFICES ASSUME CallInv, CapacityHolds, WorkHolds, OrderHolds, [Next]_vars
             PROVE  OrderHolds'
  BY DEF MainInv
<1>1. ASSUME UNCHANGED <<admission, calls>>, Handed' = Handed PROVE OrderHolds'
  <2>1. /\ UNCHANGED <<called, part>> /\ Waiting' = Waiting /\ waiters' \in Seq(Pubs)
        /\ LineHolds(granted', waiters')
    BY <1>1 DEF Waiting, CallInv, TypeOK, OrderHolds
  <2> QED
    BY <1>1, <2>1, OrderRests
<1>2. CASE UNCHANGED vars
  BY <1>1, <1>2 DEF vars, Handed
<1>3. CASE WorkerEnqueues \/ DelayElapses \/ Settling \/ SetActive \/ SetPassive
           \/ WorkerDies
  BY <1>1, <1>3, CallWorker, WorkerKeepsHanded
<1> QED
  BY <1>2, <1>3, OrderApplication, OrderAnswer, OrderControl DEF Next

LEMMA OrderInit == Init => OrderHolds
<1> SUFFICES ASSUME Init PROVE OrderHolds
  OBVIOUS
<1>1. <<>> \in Seq(Msgs) /\ Len(<<>>) = 0 /\ Range(<<>>) = {}
  BY EmptySeq DEF Range
<1>2. Handed = <<>>
  <2>1. <<>> \o <<>> = <<>>
    OBVIOUS
  <2> QED
    BY <2>1 DEF Init, Handed
<1> QED
  BY <1>1, <1>2 DEF Init, OrderHolds, Ordered, LineHolds, Waiting

\* The transport is given the messages in the order in which they asked for
\* admission, whatever waits for capacity in between.
THEOREM OrderKept == Spec => []PublishedInCallOrder
<1>1. CallInv /\ OrderHolds => PublishedInCallOrder
  <2> SUFFICES ASSUME CallInv, OrderHolds, NEW i \in 1..Len(started),
                      NEW j \in 1..Len(started), i < j
               PROVE  Before(started[i], started[j])
    BY DEF PublishedInCallOrder, Ordered
  <2>1. /\ started \in Seq(Msgs) /\ queue \in Seq(Msgs) /\ toWorker \in Seq(Msgs)
        /\ started \o queue \in Seq(Msgs)
    BY HandedTypes
  <2>2. PICK s : s = started \o queue
    OBVIOUS
  <2>3. /\ s \in Seq(Msgs) /\ Len(s) = Len(started) + Len(queue)
        /\ \A a \in 1..Len(started) : s[a] = started[a]
    BY <2>1, <2>2, ConcatProperties
  <2>4. /\ Len(Handed) = Len(s) + Len(toWorker)
        /\ \A a \in 1..Len(s) : Handed[a] = s[a]
    BY <2>1, <2>2, <2>3, ConcatProperties DEF Handed
  <2>5. Len(started) \in Nat /\ Len(queue) \in Nat /\ Len(toWorker) \in Nat
    BY <2>1
  <2>6. /\ i \in 1..Len(s) /\ j \in 1..Len(s)
        /\ i \in 1..Len(Handed) /\ j \in 1..Len(Handed)
    BY <2>3, <2>4, <2>5
  <2>7. Before(Handed[i], Handed[j])
    BY <2>6 DEF OrderHolds, Ordered
  <2> QED
    BY <2>3, <2>4, <2>6, <2>7
<1>2. MainInv => CallInv
  BY DEF MainInv
<1> QED
  BY <1>1, <1>2, OrderInit, OrderStep, MainInvariant, PTL DEF Spec

=============================================================================
