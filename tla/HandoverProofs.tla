---------------------------- MODULE HandoverProofs ----------------------------
(***************************************************************************)
(* Theorems about the handover of a service's inputs: where a successor    *)
(* resumes one stream, for every stream, tail length and subscription; and *)
(* who takes input, in which order and with which state, for every number  *)
(* of processes and proxies and every bound.                               *)
(***************************************************************************)
EXTENDS Handover, InputCutover, SequenceLemmas, FiniteSetTheorems, WellFoundedInduction

-----------------------------------------------------------------------------
(* The helpers of the boundary.                                            *)

\* The last items of a stretch of a stream are a stretch with the same end.
LEMMA LastItemsOfSubSeq ==
    ASSUME NEW S, NEW s \in Seq(S), NEW a \in 1..Len(s), NEW b \in a..Len(s),
           NEW n \in Nat \ {0}
    PROVE  /\ Len(SubSeq(s, a, b)) = b - a + 1
           /\ b - a + 1 <= n => LastItems(SubSeq(s, a, b), n) = SubSeq(s, a, b)
           /\ ~(b - a + 1 <= n) => LastItems(SubSeq(s, a, b), n) = SubSeq(s, b - n + 1, b)
<1>1. Len(SubSeq(s, a, b)) = b - a + 1
  BY PartOfPart
<1>2. ASSUME ~(b - a + 1 <= n)
      PROVE  SubSeq(SubSeq(s, a, b), b - a + 1 - n + 1, b - a + 1) = SubSeq(s, b - n + 1, b)
  <2> DEFINE i == b - a + 1 - n + 1
             j == b - a + 1
  <2>1. i \in 1..(b - a + 1) /\ j \in i..(b - a + 1)
    BY <1>2
  <2>2. a + i - 1 = b - n + 1 /\ a + j - 1 = b
    OBVIOUS
  <2> HIDE DEF i, j
  <2>3. SubSeq(SubSeq(s, a, b), i, j) = SubSeq(s, a + i - 1, a + j - 1)
    BY <2>1, PartOfPart
  <2> QED
    BY <2>2, <2>3 DEF i, j
<1> QED
  BY <1>1, <1>2 DEF LastItems

\* A non-empty set of positive numbers that has a bound has a greatest element.
LEMMA MaxIsMember ==
    ASSUME NEW k \in Nat, NEW M \in SUBSET (1..k), M # {}
    PROVE  Max(M) \in M
<1> DEFINE T == {k - m : m \in M}
<1>1. T \subseteq Nat /\ T # {}
  <2>1. \A m \in M : k - m \in Nat
    OBVIOUS
  <2> QED
    BY <2>1
<1>2. PICK x \in T : \A y \in T : <<y, x>> \notin OpToRel(<, Nat)
  BY <1>1, NatLessThanWellFounded, WFMin, Zenon
<1>3. \A y \in T : ~(y < x)
  BY <1>1, <1>2 DEF OpToRel
<1>4. PICK m \in M : x = k - m
  BY <1>2
<1>5. \A y \in M : m >= y
  BY <1>3, <1>4
<1> QED
  BY <1>4, <1>5 DEF Max

\* An accepted boundary is the only end of the marker in the buffer.
LEMMA BoundaryEndsMarker ==
    ASSUME NEW S, NEW items \in Seq(S), NEW buffered \in Seq(S), items # <<>>,
           Boundary(items, buffered) # Refused
    PROVE  \E n \in 1..Len(items) :
             Ends(buffered, LastItems(items, n)) = {Boundary(items, buffered)}
<1> DEFINE M == Markers(items, buffered)
           n == Max(M)
           E == Ends(buffered, LastItems(items, n))
<1>1. M # {} /\ Boundary(items, buffered) = Min(E)
  BY DEF Boundary
<1>2. n \in M
  <2>1. M \in SUBSET (1..Len(items)) /\ Len(items) \in Nat
    BY DEF Markers
  <2> HIDE DEF M
  <2> QED
    BY <1>1, <2>1, MaxIsMember
<1>3. n \in 1..Len(items) /\ Cardinality(E) = 1
  BY <1>2 DEF Markers, Locates
<1>4. IsFiniteSet(E) /\ E \subseteq Int
  <2> HIDE DEF n
  <2>1. LastItems(items, n) \in Seq(S)
    <3>1. SubSeq(items, Len(items) - n + 1, Len(items)) \in Seq(S)
      BY <1>3, SubSeqProperties
    <3> QED
      BY <3>1 DEF LastItems
  <2>2. Len(LastItems(items, n)) \in Int /\ Len(buffered) \in Int
    BY <2>1
  <2> DEFINE I == Len(LastItems(items, n))..Len(buffered)
  <2>3. IsFiniteSet(I) /\ I \subseteq Int
    BY <2>2, FS_Interval
  <2>4. E \subseteq I
    BY DEF Ends
  <2> HIDE DEF I, E
  <2> QED
    BY <2>3, <2>4, FS_Subset
<1>5. PICK e : E = {e}
  BY <1>3, <1>4, FS_Singleton
<1>6. Min(E) = e
  BY <1>4, <1>5 DEF Min
<1> QED
  BY <1>1, <1>3, <1>5, <1>6

-----------------------------------------------------------------------------
(* The state.                                                              *)

CutoverTypeOK ==
    /\ stream \in Seq(Fingerprints)
    /\ processed \in 0..Len(stream)
    /\ joined \in 0..(Len(stream) + 1)

LEMMA CutoverTypes == CutoverSpec => []CutoverTypeOK
<1> USE DEF CutoverTypeOK
<1>1. CutoverInit => CutoverTypeOK
  BY DEF CutoverInit
<1>2. CutoverTypeOK /\ [CutoverNext]_cutoverVars => CutoverTypeOK'
  BY DEF CutoverNext, PacketPublished, SourceHandles, SuccessorSubscribes, cutoverVars
<1> QED
  BY <1>1, <1>2, PTL DEF CutoverSpec

\* The tail of the source ends where the source stands, and so does every marker.
LEMMA TailEndsAtHandled ==
    ASSUME CutoverTypeOK, processed > 0
    PROVE  /\ ProcessedTail \in Seq(Fingerprints) /\ ProcessedTail # <<>>
           /\ Len(ProcessedTail) \in 1..processed
           /\ \A n \in 1..Len(ProcessedTail) :
                LastItems(ProcessedTail, n) = SubSeq(stream, processed - n + 1, processed)
<1> USE InputCutoverAssumption DEF CutoverTypeOK
<1> DEFINE first == IF processed <= TailSize THEN 1 ELSE processed - TailSize + 1
<1>1. first \in 1..processed /\ processed \in 1..Len(stream) /\ Len(stream) \in Nat
  OBVIOUS
<1>2. ProcessedTail = SubSeq(stream, first, processed)
  <2>1. 1 \in 1..Len(stream) /\ processed \in 1..Len(stream) /\ processed - 1 + 1 = processed
    BY <1>1
  <2>2. /\ processed <= TailSize => ProcessedTail = SubSeq(stream, 1, processed)
        /\ ~(processed <= TailSize) =>
             ProcessedTail = SubSeq(stream, processed - TailSize + 1, processed)
    BY <2>1, LastItemsOfSubSeq DEF ProcessedTail
  <2> QED
    BY <2>2
<1> HIDE DEF first
<1>3. Len(ProcessedTail) = processed - first + 1
  BY <1>1, <1>2, LastItemsOfSubSeq
<1>4. ProcessedTail \in Seq(Fingerprints)
  BY <1>1, <1>2, SubSeqProperties
<1>5. ASSUME NEW n \in 1..Len(ProcessedTail)
      PROVE  LastItems(ProcessedTail, n) = SubSeq(stream, processed - n + 1, processed)
  <2> DEFINE t == SubSeq(stream, first, processed)
  <2>1. /\ processed - first + 1 <= n => LastItems(t, n) = t
        /\ ~(processed - first + 1 <= n) =>
             LastItems(t, n) = SubSeq(stream, processed - n + 1, processed)
    <3>1. n \in Nat \ {0} /\ first \in 1..Len(stream) /\ processed \in first..Len(stream)
      BY <1>1, <1>3
    <3> QED
      BY <3>1, LastItemsOfSubSeq
  <2>2. processed - first + 1 <= n => first = processed - n + 1
    BY <1>1, <1>3
  <2> QED
    BY <1>2, <2>1, <2>2
<1> QED
  BY <1>1, <1>3, <1>4, <1>5

\* Where the successor resumes: after a marker of n packets that either does not
\* fit between its subscription and the source, or is the source's own.
LEMMA ResumeAfterMarker ==
    ASSUME CutoverTypeOK, processed > 0, CutOver
    PROVE  \E n \in 1..Len(ProcessedTail) :
             /\ ResumeAt \in Int /\ ResumeAt >= joined + n
             /\ processed - n + 1 >= joined => ResumeAt = processed + 1
<1> USE DEF CutoverTypeOK
<1>1. joined \in 1..(Len(stream) + 1) /\ Len(stream) \in Nat
  BY DEF CutOver
<1>2. /\ Buffered = SubSeq(stream, joined, Len(stream))
      /\ Buffered \in Seq(Fingerprints) /\ Len(Buffered) = Len(stream) - joined + 1
  BY <1>1, SubSeqProperties DEF Buffered
<1>3. PICK n \in 1..Len(ProcessedTail) :
        Ends(Buffered, LastItems(ProcessedTail, n)) = {PreparedResume}
  BY <1>2, TailEndsAtHandled, BoundaryEndsMarker DEF CutOver, PreparedResume
<1> DEFINE W == SubSeq(stream, processed - n + 1, processed)
<1>4. /\ n \in 1..processed
      /\ LastItems(ProcessedTail, n) = W /\ Len(W) = n
  <2>1. n \in 1..processed /\ LastItems(ProcessedTail, n) = W
    BY TailEndsAtHandled
  <2>2. processed - n + 1 \in 1..Len(stream) /\ processed \in (processed - n + 1)..Len(stream)
    BY <2>1
  <2>3. Len(W) = processed - (processed - n + 1) + 1
    BY <2>2, PartOfPart
  <2> QED
    BY <2>1, <2>3
<1>5. PreparedResume \in n..Len(Buffered)
  BY <1>3, <1>4 DEF Ends
<1>6. ASSUME processed - n + 1 >= joined PROVE PreparedResume = processed - joined + 1
  <2> DEFINE e == processed - joined + 1
  <2>1. e \in n..Len(Buffered) /\ e - n + 1 \in 1..e /\ e \in 1..Len(Buffered)
    BY <1>1, <1>2, <1>4, <1>6
  <2>2. SubSeq(Buffered, e - n + 1, e) = W
    <3>1. joined \in 1..Len(stream) /\ Len(stream) \in 1..Len(stream)
      BY <1>1, <1>4, <1>6
    <3> DEFINE i == e - n + 1
    <3>2. /\ i \in 1..(Len(stream) - joined + 1) /\ e \in i..(Len(stream) - joined + 1)
          /\ joined + i - 1 = processed - n + 1 /\ joined + e - 1 = processed
      BY <1>1, <1>2, <1>4, <2>1
    <3> HIDE DEF e, i
    <3>3. SubSeq(SubSeq(stream, joined, Len(stream)), i, e) =
            SubSeq(stream, joined + i - 1, joined + e - 1)
      BY <3>1, <3>2, PartOfPart
    <3> QED
      BY <1>2, <3>2, <3>3 DEF i
  <2>3. e \in Ends(Buffered, W)
    BY <1>4, <2>1, <2>2 DEF Ends
  <2> QED
    BY <1>3, <1>4, <2>3
<1> QED
  BY <1>1, <1>2, <1>4, <1>5, <1>6 DEF ResumeAt

-----------------------------------------------------------------------------
\* No accepted boundary makes the successor process a packet the source has
\* already processed, however often packets repeat.
THEOREM CutNeverReplays == CutoverSpec => []NeverReplayed
<1>1. ASSUME CutoverTypeOK, CutOver, processed = 0 PROVE ResumeAt > processed
  <2>1. ProcessedTail = <<>>
    <3>1. SubSeq(stream, 1, 0) = <<>> /\ Len(<<>>) = 0
      BY SubSeqEmpty
    <3> QED
      BY <1>1, <3>1, InputCutoverAssumption DEF ProcessedTail, LastItems
  <2>2. PreparedResume = 0
    BY <2>1 DEF PreparedResume, Boundary
  <2> QED
    BY <1>1, <2>2 DEF ResumeAt, CutOver, CutoverTypeOK
<1>2. ASSUME CutoverTypeOK, CutOver, processed > 0 PROVE ResumeAt > processed
  BY <1>2, ResumeAfterMarker DEF CutoverTypeOK
<1>3. CutoverTypeOK => NeverReplayed
  BY <1>1, <1>2 DEF NeverReplayed, CutoverTypeOK
<1> QED
  BY <1>3, CutoverTypes, PTL

\* When the successor has buffered the whole tail of the source, an accepted
\* boundary is exact: it skips nothing that the source has not processed.
THEOREM SharedTailCutsExactly == CutoverSpec => []SharedTailIsExact
<1>1. ASSUME CutoverTypeOK, CutOver, processed > 0,
             joined <= processed - Len(ProcessedTail) + 1
      PROVE  ResumeAt = processed + 1
  <2>1. PICK n \in 1..Len(ProcessedTail) : processed - n + 1 >= joined => ResumeAt = processed + 1
    BY <1>1, ResumeAfterMarker
  <2>2. Len(ProcessedTail) \in 1..processed
    BY <1>1, TailEndsAtHandled
  <2> QED
    BY <1>1, <2>1, <2>2 DEF CutoverTypeOK
<1>2. CutoverTypeOK => SharedTailIsExact
  BY <1>1 DEF SharedTailIsExact
<1> QED
  BY <1>2, CutoverTypes, PTL
-----------------------------------------------------------------------------
(* The handover: types.                                                    *)

Positions == 1..MaxInputs

HandoverTypes ==
    /\ published \in [Proxies -> 0..MaxInputs] /\ handled \in [Proxies -> Seq(Positions)]
    /\ next \in [Procs -> [Proxies -> 0..(MaxInputs + 1)]]
    /\ queue \in [Procs -> [Proxies -> Seq(Positions)]]
    /\ subActive \in [Procs -> [Proxies -> BOOLEAN]]
    /\ inFlight \in [Procs -> [Proxies -> 0..MaxInputs]]
    /\ tail \in [Procs -> [Proxies -> Seq(Positions)]]
    /\ inputFailed \in [Procs -> [Proxies -> BOOLEAN]]
    /\ resume \in [Procs -> [Proxies -> {Refused} \cup Nat]]
    /\ toPassive \in [Procs -> SUBSET Proxies] /\ left \in [Procs -> SUBSET Proxies]
    /\ accepted \in [Procs -> SUBSET (Proxies \X Positions)]
    /\ applied \in [Procs -> SUBSET (Proxies \X Positions)]
    /\ active \in [Procs -> BOOLEAN] /\ peer \in [Procs -> Procs \cup {None}]
    /\ DOMAIN review = Procs
    /\ stage \in [Procs -> {"no", "freezing", "draining", "prepared", "failed"}]
    /\ state \in [Procs -> States \cup {None}] /\ tstate \in [Procs -> States \cup {None}]
    /\ exit \in [Procs -> {"no", "finishing", "clean", "incomplete", "crashed"}]
    /\ expected \in [Procs -> Procs \cup {None}]
    /\ target \in [Procs -> {"none", "preparing", "applying", "activating",
                             "accepted", "failed"}]

\* One entry of a table by process and proxy changes.
Updated(new, old, p, x, v) ==
    \A q \in Procs, y \in Proxies : new[q][y] = IF q = p /\ y = x THEN v ELSE old[q][y]

LEMMA Update ==
    ASSUME NEW V, NEW f \in [Procs -> [Proxies -> V]], NEW p \in Procs, NEW x \in Proxies,
           NEW v \in V
    PROVE  /\ [f EXCEPT ![p][x] = v] \in [Procs -> [Proxies -> V]]
           /\ Updated([f EXCEPT ![p][x] = v], f, p, x, v)
BY DEF Updated

LEMMA UpdateFlag ==
    ASSUME NEW f \in [Procs -> [Proxies -> BOOLEAN]], NEW p \in Procs, NEW x \in Proxies,
           NEW b \in BOOLEAN
    PROVE  /\ [f EXCEPT ![p][x] = b] \in [Procs -> [Proxies -> BOOLEAN]]
           /\ Updated([f EXCEPT ![p][x] = b], f, p, x, b)
<1>1. /\ [f EXCEPT ![p][x] = b] = [f EXCEPT ![p] = [f[p] EXCEPT ![x] = b]]
      /\ f[p] \in [Proxies -> BOOLEAN]
  OBVIOUS
<1>2. PICK g : g = [f[p] EXCEPT ![x] = b]
  OBVIOUS
<1>3. g \in [Proxies -> BOOLEAN] /\ \A y \in Proxies : g[y] = IF y = x THEN b ELSE f[p][y]
  BY <1>1, <1>2
<1>4. /\ [f EXCEPT ![p] = g] \in [Procs -> [Proxies -> BOOLEAN]]
      /\ \A q \in Procs : [f EXCEPT ![p] = g][q] = IF q = p THEN g ELSE f[q]
  BY <1>3
<1> QED
  BY <1>1, <1>2, <1>3, <1>4 DEF Updated

LEMMA UpdateProxies ==
    ASSUME NEW f \in [Procs -> SUBSET Proxies], NEW p \in Procs, NEW S \in SUBSET Proxies
    PROVE  [f EXCEPT ![p] = S] \in [Procs -> SUBSET Proxies]
OBVIOUS

\* More accepted or applied inputs.
LEMMA UpdateWork ==
    ASSUME NEW f \in [Procs -> SUBSET (Proxies \X Positions)], NEW p \in Procs,
           NEW S \in SUBSET (Proxies \X Positions)
    PROVE  /\ [f EXCEPT ![p] = S] \in [Procs -> SUBSET (Proxies \X Positions)]
           /\ \A q \in Procs : [f EXCEPT ![p] = S][q] = IF q = p THEN S ELSE f[q]
OBVIOUS

LEMMA HandoverConstants ==
    /\ First \in Procs /\ None \notin Procs /\ None \notin States
    /\ MaxInputs \in Nat /\ Before \in Nat /\ Before <= MaxInputs
    /\ TailLength \in Nat \ {0}
    /\ DOMAIN Fingerprint = Positions
    /\ 0 \in 0..MaxInputs
    /\ \A i \in Positions : i \in 0..MaxInputs /\ i + 1 \in 0..(MaxInputs + 1)
    /\ \A i \in 0..MaxInputs : /\ i + 1 \in 0..(MaxInputs + 1)
                               /\ i # 0 => i \in Positions
BY HandoverAssumption, NoneIsNoState DEF Positions

LEMMA LastItemsType ==
    ASSUME NEW S, NEW s \in Seq(S), NEW n \in Nat \ {0}
    PROVE  LastItems(s, n) \in Seq(S)
<1>1. CASE Len(s) <= n
  BY <1>1 DEF LastItems
<1>2. CASE ~(Len(s) <= n)
  <2>1. Len(s) - n + 1 \in 1..(Len(s) + 1) /\ Len(s) \in Nat
    BY <1>2
  <2>2. SubSeq(s, Len(s) - n + 1, Len(s)) \in Seq(S)
    BY <2>1, SubSeqProperties
  <2> QED
    BY <1>2, <2>2 DEF LastItems
<1> QED
  BY <1>1, <1>2

LEMMA FirstOfMember ==
    ASSUME NEW S, S # {}
    PROVE  FirstOf(S) \in S
BY DEF FirstOf

\* What a boundary can be.
LEMMA BoundaryType ==
    ASSUME NEW S, NEW items \in Seq(S), NEW buffered \in Seq(S)
    PROVE  Boundary(items, buffered) \in {Refused} \cup Nat
<1>1. CASE items = <<>>
  BY <1>1 DEF Boundary
<1>2. CASE items # <<>> /\ Boundary(items, buffered) # Refused
  <2>1. PICK n \in 1..Len(items) :
          Ends(buffered, LastItems(items, n)) = {Boundary(items, buffered)}
    BY <1>2, BoundaryEndsMarker
  <2>2. n \in Nat \ {0} /\ LastItems(items, n) \in Seq(S)
    BY LastItemsType
  <2>3. Boundary(items, buffered) \in Len(LastItems(items, n))..Len(buffered)
    BY <2>1 DEF Ends
  <2>4. Len(LastItems(items, n)) \in Nat
    BY <2>2
  <2> QED
    BY <2>3, <2>4
<1> QED
  BY <1>1, <1>2

LEMMA PrintsType ==
    ASSUME NEW s \in Seq(Positions)
    PROVE  /\ Prints(s) \in Seq({Fingerprint[i] : i \in Positions}) /\ Len(Prints(s)) = Len(s)
           /\ \A i \in 1..Len(s) : Prints(s)[i] = Fingerprint[s[i]]
<1> DEFINE F == {Fingerprint[i] : i \in Positions}
<1>1. DOMAIN s = 1..Len(s) /\ Len(s) \in Nat /\ \A i \in 1..Len(s) : s[i] \in Positions
  OBVIOUS
<1>2. Prints(s) = [i \in 1..Len(s) |-> Fingerprint[s[i]]]
  BY <1>1 DEF Prints
<1>3. [i \in 1..Len(s) |-> Fingerprint[s[i]]] \in [1..Len(s) -> F]
  BY <1>1
<1>4. [i \in 1..Len(s) |-> Fingerprint[s[i]]] \in Seq(F)
  BY <1>1, <1>3, IsASeq
<1> QED
  BY <1>1, <1>2, <1>4

-----------------------------------------------------------------------------
(* What the actions change, entry by entry.                                *)

LEMMA SubscribeEffect ==
    ASSUME HandoverTypes, NEW p \in Procs, NEW x \in Proxies, Subscribe(p, x)
    PROVE  /\ next' \in [Procs -> [Proxies -> 0..(MaxInputs + 1)]]
           /\ Updated(next', next, p, x, published[x] + 1)
<1>1. PICK n : n = published[x] + 1
  OBVIOUS
<1>2. n \in 0..(MaxInputs + 1)
  BY <1>1, HandoverConstants DEF HandoverTypes
<1>3. next' = [next EXCEPT ![p][x] = n]
  BY <1>1 DEF Subscribe
<1> QED
  BY <1>1, <1>2, <1>3, Update DEF HandoverTypes

LEMMA DeliverEffect ==
    ASSUME HandoverTypes, NEW p \in Procs, NEW x \in Proxies, Deliver(p, x)
    PROVE  /\ queue' \in [Procs -> [Proxies -> Seq(Positions)]]
           /\ next' \in [Procs -> [Proxies -> 0..(MaxInputs + 1)]]
           /\ next[p][x] \in Positions
           /\ Updated(queue', queue, p, x, Append(queue[p][x], next[p][x]))
           /\ Updated(next', next, p, x, next[p][x] + 1)
<1>1. PICK n : n = next[p][x] + 1
  OBVIOUS
<1>2. next[p][x] \in Positions /\ queue[p][x] \in Seq(Positions) /\ n \in 0..(MaxInputs + 1)
  <2>1. published[x] \in 0..MaxInputs /\ next[p][x] \in 1..published[x]
        /\ queue[p][x] \in Seq(Positions)
    BY DEF HandoverTypes, Deliver
  <2>2. next[p][x] \in Positions
    BY <2>1, HandoverConstants DEF Positions
  <2> QED
    BY <1>1, <2>1, <2>2, HandoverConstants
<1>3. PICK v : v = Append(queue[p][x], next[p][x])
  OBVIOUS
<1>4. v \in Seq(Positions)
  BY <1>2, <1>3, AppendProperties
<1>5. next' = [next EXCEPT ![p][x] = n] /\ queue' = [queue EXCEPT ![p][x] = v]
  BY <1>1, <1>3 DEF Deliver
<1>6. /\ next' \in [Procs -> [Proxies -> 0..(MaxInputs + 1)]] /\ Updated(next', next, p, x, n)
  BY <1>2, <1>5, Update DEF HandoverTypes
<1>7. /\ queue' \in [Procs -> [Proxies -> Seq(Positions)]] /\ Updated(queue', queue, p, x, v)
  BY <1>4, <1>5, Update DEF HandoverTypes
<1> QED
  BY <1>1, <1>2, <1>3, <1>6, <1>7

\* A worked off packet goes to the tail.
LEMMA TailEffect ==
    ASSUME HandoverTypes, NEW p \in Procs, NEW x \in Proxies, NEW i \in Positions,
           NEW t, t = LastItems(Append(tail[p][x], i), TailLength),
           tail' = [tail EXCEPT ![p][x] = t]
    PROVE  /\ tail' \in [Procs -> [Proxies -> Seq(Positions)]]
           /\ Updated(tail', tail, p, x, LastItems(Append(tail[p][x], i), TailLength))
<1>1. tail[p][x] \in Seq(Positions)
  BY DEF HandoverTypes
<1>2. t \in Seq(Positions)
  BY <1>1, AppendProperties, LastItemsType, HandoverAssumption
<1> QED
  BY <1>2, Update DEF HandoverTypes

LEMMA StartInputEffect ==
    ASSUME HandoverTypes, NEW p \in Procs, NEW x \in Proxies, StartInput(p, x)
    PROVE  LET i == Head(queue[p][x]) IN
           /\ i \in Positions /\ queue[p][x] # <<>>
           /\ queue' \in [Procs -> [Proxies -> Seq(Positions)]]
           /\ Updated(queue', queue, p, x, Tail(queue[p][x]))
           /\ handled' \in [Proxies -> Seq(Positions)]
           /\ \A y \in Proxies : handled'[y] = IF y = x THEN Append(handled[y], i) ELSE handled[y]
           /\ \/ /\ inFlight' \in [Procs -> [Proxies -> 0..MaxInputs]]
                 /\ Updated(inFlight', inFlight, p, x, i)
                 /\ UNCHANGED <<tail, accepted>>
              \/ /\ tail' \in [Procs -> [Proxies -> Seq(Positions)]]
                 /\ Updated(tail', tail, p, x, LastItems(Append(tail[p][x], i), TailLength))
                 /\ accepted' \in [Procs -> SUBSET (Proxies \X Positions)]
                 /\ \A q \in Procs : accepted'[q] = IF q = p THEN accepted[q] \cup {<<x, i>>}
                                                    ELSE accepted[q]
                 /\ UNCHANGED inFlight
<1>1. PICK i : i = Head(queue[p][x])
  OBVIOUS
<1>2. queue[p][x] # <<>> /\ queue[p][x] \in Seq(Positions) /\ handled[x] \in Seq(Positions)
  BY DEF HandoverTypes, StartInput
<1>3. PICK v : v = Tail(queue[p][x])
  OBVIOUS
<1>4. i \in Positions /\ v \in Seq(Positions) /\ i \in 0..MaxInputs
  <2>1. i \in Positions /\ v \in Seq(Positions)
    BY <1>1, <1>2, <1>3, HeadTailProperties
  <2> QED
    BY <2>1, HandoverConstants
<1>5. queue' \in [Procs -> [Proxies -> Seq(Positions)]] /\ Updated(queue', queue, p, x, v)
  <2>1. queue' = [queue EXCEPT ![p][x] = v]
    BY <1>3 DEF StartInput
  <2> QED
    BY <1>4, <2>1, Update DEF HandoverTypes
<1>6. /\ handled' \in [Proxies -> Seq(Positions)]
      /\ \A y \in Proxies : handled'[y] = IF y = x THEN Append(handled[y], i) ELSE handled[y]
  <2>1. PICK h : h = Append(handled[x], i)
    OBVIOUS
  <2>2. h \in Seq(Positions) /\ handled' = [handled EXCEPT ![x] = h]
    BY <1>1, <1>2, <1>4, <2>1, AppendProperties DEF StartInput
  <2> QED
    BY <2>1, <2>2 DEF HandoverTypes
<1>7. CASE x \in Managed
  <2>1. inFlight' = [inFlight EXCEPT ![p][x] = i] /\ UNCHANGED <<tail, accepted>>
    BY <1>1, <1>7 DEF StartInput
  <2>2. inFlight' \in [Procs -> [Proxies -> 0..MaxInputs]] /\ Updated(inFlight', inFlight, p, x, i)
    BY <1>4, <2>1, Update DEF HandoverTypes
  <2> QED
    BY <1>1, <1>2, <1>3, <1>4, <1>5, <1>6, <2>1, <2>2
<1>8. CASE x \notin Managed
  <2>1. PICK t : t = LastItems(Append(tail[p][x], i), TailLength)
    OBVIOUS
  <2>2. tail' = [tail EXCEPT ![p][x] = t] /\ UNCHANGED inFlight
        /\ accepted' = [accepted EXCEPT ![p] = @ \cup {<<x, i>>}]
    BY <1>1, <1>8, <2>1 DEF StartInput
  <2>3. /\ tail' \in [Procs -> [Proxies -> Seq(Positions)]]
        /\ Updated(tail', tail, p, x, t)
    BY <1>4, <2>1, <2>2, TailEffect
  <2>4. /\ accepted' \in [Procs -> SUBSET (Proxies \X Positions)]
        /\ \A q \in Procs : accepted'[q] = IF q = p THEN accepted[q] \cup {<<x, i>>}
                                           ELSE accepted[q]
    <3>1. PICK S : S = accepted[p] \cup {<<x, i>>}
      OBVIOUS
    <3>2. S \in SUBSET (Proxies \X Positions) /\ accepted' = [accepted EXCEPT ![p] = S]
      BY <1>4, <2>2, <3>1 DEF HandoverTypes
    <3> QED
      BY <3>1, <3>2, UpdateWork DEF HandoverTypes
  <2> QED
    BY <1>1, <1>2, <1>3, <1>4, <1>5, <1>6, <2>1, <2>2, <2>3, <2>4
<1> QED
  BY <1>7, <1>8

LEMMA FinishInputEffect ==
    ASSUME HandoverTypes, NEW p \in Procs, NEW x \in Proxies, FinishInput(p, x)
    PROVE  LET i == inFlight[p][x] IN
           /\ i \in Positions
           /\ inFlight' \in [Procs -> [Proxies -> 0..MaxInputs]]
           /\ Updated(inFlight', inFlight, p, x, 0)
           /\ tail' \in [Procs -> [Proxies -> Seq(Positions)]]
           /\ Updated(tail', tail, p, x, LastItems(Append(tail[p][x], i), TailLength))
           /\ applied' \in [Procs -> SUBSET (Proxies \X Positions)]
           /\ \A q \in Procs : applied'[q] = IF q = p THEN applied[q] \cup {<<x, i>>}
                                             ELSE applied[q]
<1>1. PICK i : i = inFlight[p][x]
  OBVIOUS
<1>2. i \in Positions /\ 0 \in 0..MaxInputs
  BY <1>1, HandoverConstants DEF HandoverTypes, FinishInput
<1>3. PICK t : t = LastItems(Append(tail[p][x], i), TailLength)
  OBVIOUS
<1>4. /\ inFlight' = [inFlight EXCEPT ![p][x] = 0] /\ tail' = [tail EXCEPT ![p][x] = t]
      /\ applied' = [applied EXCEPT ![p] = @ \cup {<<x, i>>}]
  BY <1>1, <1>3 DEF FinishInput
<1>5. inFlight' \in [Procs -> [Proxies -> 0..MaxInputs]] /\ Updated(inFlight', inFlight, p, x, 0)
  BY <1>2, <1>4, Update DEF HandoverTypes
<1>6. tail' \in [Procs -> [Proxies -> Seq(Positions)]] /\ Updated(tail', tail, p, x, t)
  BY <1>2, <1>3, <1>4, TailEffect
<1>7. /\ applied' \in [Procs -> SUBSET (Proxies \X Positions)]
      /\ \A q \in Procs : applied'[q] = IF q = p THEN applied[q] \cup {<<x, i>>} ELSE applied[q]
  <2>1. PICK S : S = applied[p] \cup {<<x, i>>}
    OBVIOUS
  <2>2. S \in SUBSET (Proxies \X Positions) /\ applied' = [applied EXCEPT ![p] = S]
    BY <1>2, <1>4, <2>1 DEF HandoverTypes
  <2> QED
    BY <2>1, <2>2, UpdateWork DEF HandoverTypes
<1> QED
  BY <1>1, <1>2, <1>3, <1>5, <1>6, <1>7

LEMMA InputFailsEffect ==
    ASSUME HandoverTypes, NEW p \in Procs, NEW x \in Proxies, InputFails(p, x)
    PROVE  /\ inFlight[p][x] \in Positions
           /\ inFlight' \in [Procs -> [Proxies -> 0..MaxInputs]]
           /\ Updated(inFlight', inFlight, p, x, 0)
           /\ queue' \in [Procs -> [Proxies -> Seq(Positions)]]
           /\ Updated(queue', queue, p, x, <<inFlight[p][x]>> \o queue[p][x])
           /\ subActive' \in [Procs -> [Proxies -> BOOLEAN]]
           /\ Updated(subActive', subActive, p, x, FALSE)
           /\ inputFailed' \in [Procs -> [Proxies -> BOOLEAN]]
           /\ Updated(inputFailed', inputFailed, p, x, TRUE)
<1>1. PICK i : i = inFlight[p][x]
  OBVIOUS
<1>2. i \in Positions /\ 0 \in 0..MaxInputs /\ queue[p][x] \in Seq(Positions)
  BY <1>1, HandoverConstants DEF HandoverTypes, InputFails
<1>3. PICK v : v = <<i>> \o queue[p][x]
  OBVIOUS
<1>4. v \in Seq(Positions)
  <2>1. <<i>> \in Seq(Positions)
    BY <1>2
  <2> QED
    BY <1>2, <1>3, <2>1, ConcatProperties
<1>5. /\ inFlight' = [inFlight EXCEPT ![p][x] = 0] /\ queue' = [queue EXCEPT ![p][x] = v]
      /\ subActive' = [subActive EXCEPT ![p][x] = FALSE]
      /\ inputFailed' = [inputFailed EXCEPT ![p][x] = TRUE]
  BY <1>1, <1>3 DEF InputFails
<1>6. inFlight' \in [Procs -> [Proxies -> 0..MaxInputs]] /\ Updated(inFlight', inFlight, p, x, 0)
  BY <1>2, <1>5, Update DEF HandoverTypes
<1>7. queue' \in [Procs -> [Proxies -> Seq(Positions)]] /\ Updated(queue', queue, p, x, v)
  BY <1>4, <1>5, Update DEF HandoverTypes
<1>8. subActive' \in [Procs -> [Proxies -> BOOLEAN]] /\ Updated(subActive', subActive, p, x, FALSE)
  BY <1>5, UpdateFlag DEF HandoverTypes
<1>9. inputFailed' \in [Procs -> [Proxies -> BOOLEAN]]
      /\ Updated(inputFailed', inputFailed, p, x, TRUE)
  BY <1>5, UpdateFlag DEF HandoverTypes
<1> QED
  BY <1>1, <1>2, <1>3, <1>6, <1>7, <1>8, <1>9

LEMMA WorkerPassiveEffect ==
    ASSUME HandoverTypes, NEW p \in Procs, NEW x \in Proxies, WorkerPassive(p, x)
    PROVE  /\ subActive' \in [Procs -> [Proxies -> BOOLEAN]]
           /\ Updated(subActive', subActive, p, x, FALSE)
           /\ toPassive' \in [Procs -> SUBSET Proxies]
           /\ \A q \in Procs : toPassive'[q] = IF q = p THEN toPassive[q] \ {x} ELSE toPassive[q]
<1>1. subActive' = [subActive EXCEPT ![p][x] = FALSE]
      /\ toPassive' = [toPassive EXCEPT ![p] = @ \ {x}]
  BY DEF WorkerPassive
<1>2. subActive' \in [Procs -> [Proxies -> BOOLEAN]] /\ Updated(subActive', subActive, p, x, FALSE)
  BY <1>1, UpdateFlag DEF HandoverTypes
<1> QED
  BY <1>1, <1>2 DEF HandoverTypes

LEMMA ResumedEffect ==
    ASSUME HandoverTypes, NEW t \in Procs, NEW x \in Proxies, Resumed(t, x),
           resume[t][x] # Refused
    PROVE  /\ queue' \in [Procs -> [Proxies -> Seq(Positions)]]
           /\ Updated(queue', queue, t, x,
                      SubSeq(queue[t][x], resume[t][x] + 1, Len(queue[t][x])))
           /\ resume' \in [Procs -> [Proxies -> {Refused} \cup Nat]]
           /\ Updated(resume', resume, t, x, Refused)
           /\ subActive' \in [Procs -> [Proxies -> BOOLEAN]]
           /\ Updated(subActive', subActive, t, x, TRUE)
<1>1. PICK v : v = SubSeq(queue[t][x], resume[t][x] + 1, Len(queue[t][x]))
  OBVIOUS
<1>2. v \in Seq(Positions)
  <2>1. queue[t][x] \in Seq(Positions) /\ resume[t][x] \in Nat
    BY DEF HandoverTypes
  <2>2. /\ resume[t][x] + 1 \in Int /\ Len(queue[t][x]) \in Int
        /\ \A i \in (resume[t][x] + 1)..Len(queue[t][x]) : queue[t][x][i] \in Positions
    BY <2>1
  <2> QED
    BY <1>1, <2>2, SubSeqProperties
<1>3. /\ queue' = [queue EXCEPT ![t][x] = v] /\ resume' = [resume EXCEPT ![t][x] = Refused]
      /\ subActive' = [subActive EXCEPT ![t][x] = TRUE]
  BY <1>1 DEF Resumed
<1>4. queue' \in [Procs -> [Proxies -> Seq(Positions)]] /\ Updated(queue', queue, t, x, v)
  BY <1>2, <1>3, Update DEF HandoverTypes
<1>5. resume' \in [Procs -> [Proxies -> {Refused} \cup Nat]] /\ Updated(resume', resume, t, x, Refused)
  <2>1. Refused \in {Refused} \cup Nat /\ resume \in [Procs -> [Proxies -> {Refused} \cup Nat]]
    BY DEF HandoverTypes
  <2>2. PICK V : V = {Refused} \cup Nat
    OBVIOUS
  <2> QED
    BY <1>3, <2>1, <2>2, Update
<1>6. subActive' \in [Procs -> [Proxies -> BOOLEAN]] /\ Updated(subActive', subActive, t, x, TRUE)
  BY <1>3, UpdateFlag DEF HandoverTypes
<1> QED
  BY <1>1, <1>4, <1>5, <1>6

LEMMA PrepareProxyEffect ==
    ASSUME HandoverTypes, NEW t \in Procs, PrepareProxy(t), tstate[t] # None, left[t] # {}
    PROVE  \E x \in left[t], skip \in {Refused} \cup Nat :
             /\ skip = Boundary(Prints(tstate[t].cursor[x]), Prints(queue[t][x]))
             /\ resume' \in [Procs -> [Proxies -> {Refused} \cup Nat]]
             /\ Updated(resume', resume, t, x, skip)
             /\ left' = [left EXCEPT ![t] = IF skip = Refused THEN {} ELSE left[t] \ {x}]
             /\ target' = [target EXCEPT ![t] =
                             IF skip = Refused THEN "none"
                             ELSE IF left[t] \ {x} = {} THEN "applying" ELSE "preparing"]
<1>1. PICK x : x = FirstOf(left[t])
  OBVIOUS
<1>2. x \in left[t] /\ x \in Proxies /\ target[t] = "preparing"
  BY <1>1, FirstOfMember DEF HandoverTypes, PrepareProxy
<1>3. PICK skip : skip = Boundary(Prints(tstate[t].cursor[x]), Prints(queue[t][x]))
  OBVIOUS
<1>4. skip \in {Refused} \cup Nat
  <2>1. tstate[t].cursor[x] \in Seq(Positions) /\ queue[t][x] \in Seq(Positions)
    BY <1>2 DEF HandoverTypes, States, Positions
  <2> QED
    BY <1>3, <2>1, PrintsType, BoundaryType
<1>5. /\ resume' = [resume EXCEPT ![t][x] = skip]
      /\ left' = [left EXCEPT ![t] = IF skip = Refused THEN {} ELSE left[t] \ {x}]
      /\ target' = [target EXCEPT ![t] = IF skip = Refused THEN "none"
                             ELSE IF left[t] \ {x} = {} THEN "applying" ELSE "preparing"]
  BY <1>1, <1>2, <1>3 DEF PrepareProxy
<1>6. /\ resume' \in [Procs -> [Proxies -> {Refused} \cup Nat]]
      /\ Updated(resume', resume, t, x, skip)
  <2>1. resume \in [Procs -> [Proxies -> {Refused} \cup Nat]]
    BY DEF HandoverTypes
  <2> QED
    BY <1>2, <1>4, <1>5, <2>1, Update
<1> QED
  BY <1>2, <1>3, <1>4, <1>5, <1>6, ZenonT(40)

-----------------------------------------------------------------------------
(* Who may take input.                                                     *)

\* The owner at the start, and every process that has begun to take over.
Entered(p) == p = First \/ target[p] # "none"

\* The one process that has the inputs, or has passed them on to a successor
\* that has not begun to take over.
Holds(p) == Entered(p) /\ (state[p] = None \/ target[peer[p]] = "none")

Shut(p, x) == ~subActive[p][x] /\ inFlight[p][x] = 0 /\ ~inputFailed[p][x]

\* The input x of p is still as passive as it was when p started.
NotOpened(p, x) ==
    \/ ~Entered(p) \/ target[p] \in {"preparing", "applying"}
    \/ target[p] = "activating" /\ x \in left[p]

\* prepareHandoverResume() has accepted the input x, activation is to come.
Prepared(t, x) ==
    \/ target[t] = "preparing" /\ x \in Proxies \ left[t]
    \/ target[t] = "applying"
    \/ target[t] = "activating" /\ x \in left[t]

\* HandoverManager as owner and source.
OwnerHolds(p) ==
    /\ active[p] => peer[p] = None /\ (p = First \/ target[p] = "accepted")
    /\ review[p] # None => active[p] /\ left[p] # {} /\ review[p].from \in Procs \ {p}
    /\ stage[p] = "no" <=> peer[p] = None
    /\ stage[p] # "no" => (p = First \/ target[p] = "accepted") /\ ~active[p] /\ peer[p] # p
    /\ state[p] # None => stage[p] \in {"prepared", "failed"}
    /\ stage[p] = "prepared" => state[p] # None

\* A source finishes when the peer it chose has taken over what it sent.
ExitHolds(p) ==
    /\ exit[p] \in {"finishing", "clean"} =>
         state[p] # None /\ target[peer[p]] = "accepted" /\ tstate[peer[p]] = state[p]
    /\ exit[p] = "clean" => accepted[p] = {}

\* prepareSourceHandover(): the inputs are shut one after the other.
FreezeHolds(p) ==
    /\ stage[p] = "freezing" =>
         /\ left[p] # {} /\ \A x \in Proxies \ left[p] : Shut(p, x)
         /\ FirstOf(left[p]) \in toPassive[p] \/ ~subActive[p][FirstOf(left[p])]
    /\ stage[p] = "draining" \/ state[p] # None => \A x \in Proxies : Shut(p, x)

\* HandoverManager as successor.
SuccessorHolds(t) ==
    /\ expected[t] # None => t # First
    /\ target[t] # "none" =>
         /\ expected[t] \in Procs /\ state[expected[t]] # None /\ peer[expected[t]] = t
         /\ tstate[t] = state[expected[t]]
    /\ target[t] \in {"preparing", "activating"} => left[t] # {}
    /\ \A x \in Proxies : NotOpened(t, x) => Shut(t, x)
    /\ \A x \in Proxies : Prepared(t, x) => resume[t][x] # Refused

\* One process has the inputs, and only the peer it chose may take them.
TokenHolds ==
    /\ \A p, q \in Procs : Holds(p) /\ Holds(q) => p = q
    /\ \A t, q \in Procs : target[t] # "none" /\ state[t] = None /\ peer[q] = t /\ state[q] # None
          => q = expected[t]

\* What is told was true when it was told, and has remained so.
NetHolds ==
    \A m \in net :
      /\ m.type = "request" => m.from \in Procs
      /\ m.type = "fin" => m.from \in Procs /\ state[m.from] # None /\ m.state = state[m.from]
                           /\ m.id = peer[m.from]
      /\ m.type = "ack" => m.from \in Procs /\ target[m.from] = "accepted"
                           /\ m.state = tstate[m.from]

Control ==
    /\ \A p \in Procs : OwnerHolds(p) /\ ExitHolds(p) /\ FreezeHolds(p) /\ SuccessorHolds(p)
    /\ TokenHolds /\ NetHolds

-----------------------------------------------------------------------------
(* The types are kept.                                                     *)

LEMMA InputTypes ==
    ASSUME HandoverTypes, Input \/ Work
    PROVE  HandoverTypes'
<1> USE DEF HandoverTypes, source, successor, application, streams, subscriber, faults
<1>1. ASSUME NEW x \in Proxies, PublishInput(x) PROVE HandoverTypes'
  <2>1. published[x] \in 0..MaxInputs /\ published[x] < MaxInputs /\ MaxInputs \in Nat
    BY <1>1, HandoverConstants DEF PublishInput
  <2>2. published[x] + 1 \in 0..MaxInputs
    BY <2>1
  <2>3. published' \in [Proxies -> 0..MaxInputs]
    BY <1>1, <2>2 DEF PublishInput
  <2> QED
    BY <1>1, <2>3 DEF PublishInput
<1>2. ASSUME NEW p \in Procs, NEW x \in Proxies, Subscribe(p, x) PROVE HandoverTypes'
  BY <1>2, SubscribeEffect DEF Subscribe
<1>3. ASSUME NEW p \in Procs, NEW x \in Proxies, Deliver(p, x) PROVE HandoverTypes'
  BY <1>3, DeliverEffect DEF Deliver
<1>4. ASSUME NEW p \in Procs, NEW x \in Proxies, StartInput(p, x) PROVE HandoverTypes'
  <2>1. UNCHANGED <<published, next, subActive, inputFailed, resume, toPassive, applied,
                    source, successor, left>>
    BY <1>4 DEF StartInput
  <2> QED
    BY <1>4, <2>1, StartInputEffect
<1>5. ASSUME NEW p \in Procs, NEW x \in Proxies, FinishInput(p, x) PROVE HandoverTypes'
  BY <1>5, FinishInputEffect DEF FinishInput
<1>6. ASSUME NEW p \in Procs, NEW x \in Proxies, InputFails(p, x) PROVE HandoverTypes'
  BY <1>6, InputFailsEffect DEF InputFails
<1>7. ASSUME NEW p \in Procs, NEW x \in Proxies, WorkerPassive(p, x) PROVE HandoverTypes'
  BY <1>7, WorkerPassiveEffect DEF WorkerPassive
<1>8. ASSUME NEW p \in Procs, WorkEnds(p) PROVE HandoverTypes'
  <2>1. PICK w \in accepted[p] : /\ accepted' = [accepted EXCEPT ![p] = @ \ {w}]
                                 /\ applied' = [applied EXCEPT ![p] = @ \cup {w}]
    BY <1>8 DEF WorkEnds
  <2>2. PICK S, T : S = accepted[p] \ {w} /\ T = applied[p] \cup {w}
    OBVIOUS
  <2>3. /\ S \in SUBSET (Proxies \X Positions) /\ T \in SUBSET (Proxies \X Positions)
        /\ accepted' = [accepted EXCEPT ![p] = S] /\ applied' = [applied EXCEPT ![p] = T]
    BY <2>1, <2>2
  <2>4. /\ accepted' \in [Procs -> SUBSET (Proxies \X Positions)]
        /\ applied' \in [Procs -> SUBSET (Proxies \X Positions)]
    BY <2>3, UpdateWork
  <2> QED
    BY <1>8, <2>4 DEF WorkEnds
<1> QED
  BY <1>1, <1>2, <1>3, <1>4, <1>5, <1>6, <1>7, <1>8 DEF Input, Work

LEMMA MessageTypes ==
    ASSUME HandoverTypes, Control, Ask \/ Message \/ Crashes
    PROVE  HandoverTypes'
<1> USE DEF HandoverTypes, source, successor, application, streams, subscriber, faults
<1>1. ASSUME NEW t \in Procs, NEW s \in Procs, SeesHeartbeat(t, s) PROVE HandoverTypes'
  BY <1>1 DEF SeesHeartbeat
<1>2. ASSUME NEW t \in Procs, SendRequest(t) PROVE HandoverTypes'
  BY <1>2 DEF SendRequest
<1>3. ASSUME NEW m \in net, Lose(m) PROVE HandoverTypes'
  BY <1>3 DEF Lose
<1>4. ASSUME NEW p \in Procs, Crash(p) PROVE HandoverTypes'
  BY <1>4 DEF Crash
<1>5. ASSUME NEW m \in net, NEW s \in Procs, HandleRequest(s, m) PROVE HandoverTypes'
  BY <1>5 DEF HandleRequest
<1>6. ASSUME NEW m \in net, NEW s \in Procs, HandleAck(s, m) PROVE HandoverTypes'
  BY <1>6 DEF HandleAck
<1>7. ASSUME NEW m \in net, NEW t \in Procs, HandleFin(t, m) PROVE HandoverTypes'
  <2>1. m.state \in States
    BY <1>7 DEF HandleFin, Control, NetHolds
  <2>2. Proxies \in SUBSET Proxies
    OBVIOUS
  <2>3. /\ target' \in [Procs -> {"none", "preparing", "applying", "activating",
                                 "accepted", "failed"}]
        /\ tstate' \in [Procs -> States \cup {None}] /\ left' \in [Procs -> SUBSET Proxies]
    <3>1. CASE target[t] = "none"
      <4>1. /\ target' = [target EXCEPT ![t] = "preparing"]
            /\ tstate' = [tstate EXCEPT ![t] = m.state] /\ left' = [left EXCEPT ![t] = Proxies]
        BY <1>7, <3>1 DEF HandleFin
      <4>2. tstate' \in [Procs -> States \cup {None}]
        BY <2>1, <4>1
      <4>3. left' \in [Procs -> SUBSET Proxies]
        BY <2>2, <4>1
      <4> QED
        BY <4>1, <4>2, <4>3
    <3>2. CASE target[t] # "none"
      BY <1>7, <3>2 DEF HandleFin
    <3> QED
      BY <3>1, <3>2
  <2> QED
    BY <1>7, <2>3 DEF HandleFin
<1> QED
  BY <1>1, <1>2, <1>3, <1>4, <1>5, <1>6, <1>7 DEF Ask, Message, Crashes

LEMMA ReleaseTypes ==
    ASSUME HandoverTypes, Control, Release
    PROVE  HandoverTypes'
<1> USE DEF HandoverTypes, source, successor, application, streams, subscriber, faults
<1>1. ASSUME NEW s \in Procs, ReviewReplies(s) PROVE HandoverTypes'
  <2>1. left[s] # {} /\ review[s].from \in Procs /\ DOMAIN review' = Procs
    BY <1>1 DEF ReviewReplies, Control, OwnerHolds
  <2>2. FirstOf(left[s]) \in Proxies /\ FirstOf(Proxies) \in Proxies
    BY <2>1, FirstOfMember
  <2>3. /\ left' \in [Procs -> SUBSET Proxies] /\ toPassive' \in [Procs -> SUBSET Proxies]
    <3>1. PICK x, taken, good :
             /\ x = FirstOf(Proxies) /\ x \in Proxies
             /\ left' = [left EXCEPT ![s] =
                           IF taken THEN Proxies ELSE IF good THEN @ \ {FirstOf(left[s])} ELSE {}]
             /\ toPassive' = [toPassive EXCEPT ![s] = IF taken THEN {x} ELSE @]
      BY <1>1, <2>2 DEF ReviewReplies
    <3>2. left' \in [Procs -> SUBSET Proxies]
      BY <3>1
    <3>3. toPassive' \in [Procs -> SUBSET Proxies]
      BY <3>1
    <3> QED
      BY <3>2, <3>3
  <2>4. peer' \in [Procs -> Procs \cup {None}] /\ active' \in [Procs -> BOOLEAN]
        /\ stage' \in [Procs -> {"no", "freezing", "draining", "prepared", "failed"}]
    BY <1>1, <2>1 DEF ReviewReplies
  <2> QED
    BY <1>1, <2>1, <2>3, <2>4 DEF ReviewReplies
<1>2. ASSUME NEW s \in Procs, ProxyFrozen(s) PROVE HandoverTypes'
  <2>1. left[s] # {}
    BY <1>2 DEF ProxyFrozen, Control, FreezeHolds
  <2>2. \A S \in SUBSET Proxies : S # {} => {FirstOf(S)} \in SUBSET Proxies
    BY FirstOfMember
  <2>3. PICK rest : rest = left[s] \ {FirstOf(left[s])}
    OBVIOUS
  <2>4. rest \in SUBSET Proxies
    BY <2>3
  <2>5. left' \in [Procs -> SUBSET Proxies] /\ toPassive' \in [Procs -> SUBSET Proxies]
        /\ stage' \in [Procs -> {"no", "freezing", "draining", "prepared", "failed"}]
    <3>1. \/ UNCHANGED <<left, toPassive>> /\ stage' = [stage EXCEPT ![s] = "failed"]
          \/ /\ left' = [left EXCEPT ![s] = rest]
             /\ stage' = [stage EXCEPT ![s] = IF rest = {} THEN "draining" ELSE @]
             /\ toPassive' = [toPassive EXCEPT ![s] =
                                IF rest = {} THEN @ ELSE {FirstOf(rest)}]
      BY <1>2, <2>3 DEF ProxyFrozen
    <3>2. CASE UNCHANGED <<left, toPassive>> /\ stage' = [stage EXCEPT ![s] = "failed"]
      BY <3>2
    <3>3. ASSUME left' = [left EXCEPT ![s] = rest],
                 stage' = [stage EXCEPT ![s] = IF rest = {} THEN "draining" ELSE @],
                 toPassive' = [toPassive EXCEPT ![s] = IF rest = {} THEN @ ELSE {FirstOf(rest)}]
          PROVE  /\ left' \in [Procs -> SUBSET Proxies] /\ toPassive' \in [Procs -> SUBSET Proxies]
                 /\ stage' \in [Procs -> {"no", "freezing", "draining", "prepared", "failed"}]
      <4>1. PICK posted : posted = IF rest = {} THEN toPassive[s] ELSE {FirstOf(rest)}
        OBVIOUS
      <4>2. posted \in SUBSET Proxies
        BY <2>2, <2>4, <4>1
      <4>3. toPassive' = [toPassive EXCEPT ![s] = posted]
        BY <3>3, <4>1
      <4>4. left' \in [Procs -> SUBSET Proxies]
        BY <2>4, <3>3, UpdateProxies
      <4>5. toPassive' \in [Procs -> SUBSET Proxies]
        BY <4>2, <4>3, UpdateProxies
      <4>6. stage' \in [Procs -> {"no", "freezing", "draining", "prepared", "failed"}]
        BY <3>3
      <4> QED
        BY <4>4, <4>5, <4>6
    <3> QED
      BY <3>1, <3>2, <3>3
  <2> QED
    BY <1>2, <2>5 DEF ProxyFrozen
<1>3. ASSUME NEW s \in Procs, PreparationFails(s) PROVE HandoverTypes'
  BY <1>3 DEF PreparationFails
<1>6. ASSUME NEW s \in Procs, FinRetries(s) PROVE HandoverTypes'
  BY <1>6 DEF FinRetries
<1>4. ASSUME NEW s \in Procs, NEW sent \in BOOLEAN, ExportState(s, sent) PROVE HandoverTypes'
  <2>1. PICK b : b = [from |-> s, cursor |-> tail[s], base |-> applied[s]]
    OBVIOUS
  <2>2. b \in States
    BY <2>1 DEF States, Positions
  <2>3. state' = [state EXCEPT ![s] = b]
    BY <1>4, <2>1 DEF ExportState
  <2>4. state' \in [Procs -> States \cup {None}]
    BY <2>2, <2>3
  <2>5. stage' \in [Procs -> {"no", "freezing", "draining", "prepared", "failed"}]
    <3>1. stage' = [stage EXCEPT ![s] = "prepared"] \/ stage' = [stage EXCEPT ![s] = "failed"]
      BY <1>4 DEF ExportState
    <3> QED
      BY <3>1
  <2>6. UNCHANGED <<published, handled, next, queue, subActive, inFlight, tail, inputFailed,
                    resume, toPassive, left, accepted, applied, active, peer, review, tstate,
                    exit, expected, target>>
    BY <1>4 DEF ExportState
  <2> QED
    BY <2>4, <2>5, <2>6
<1>5. ASSUME NEW s \in Procs, NEW clean \in BOOLEAN, FinishSource(s, clean) PROVE HandoverTypes'
  BY <1>5 DEF FinishSource
<1> QED
  BY <1>1, <1>2, <1>3, <1>4, <1>5, <1>6 DEF Release

LEMMA TakeOverTypes ==
    ASSUME HandoverTypes, Control, TakeOver
    PROVE  HandoverTypes'
<1> USE DEF HandoverTypes, source, successor, application, streams, subscriber, faults
<1>1. \A t \in Procs : target[t] # "none" => tstate[t] \in States
  BY DEF Control, SuccessorHolds
<1>2. ASSUME NEW t \in Procs, PrepareProxy(t) PROVE HandoverTypes'
  <2>1. tstate[t] # None /\ left[t] # {}
    BY <1>1, <1>2, HandoverConstants DEF PrepareProxy, Control, SuccessorHolds
  <2>2. PICK x \in left[t], skip \in {Refused} \cup Nat :
          /\ resume' \in [Procs -> [Proxies -> {Refused} \cup Nat]]
          /\ left' = [left EXCEPT ![t] = IF skip = Refused THEN {} ELSE left[t] \ {x}]
          /\ target' = [target EXCEPT ![t] =
                          IF skip = Refused THEN "none"
                          ELSE IF left[t] \ {x} = {} THEN "applying" ELSE "preparing"]
    BY <1>2, <2>1, PrepareProxyEffect
  <2>3. /\ left' \in [Procs -> SUBSET Proxies]
        /\ target' \in [Procs -> {"none", "preparing", "applying", "activating",
                                 "accepted", "failed"}]
    <3>1. CASE skip = Refused
      BY <2>2, <3>1
    <3>2. CASE skip # Refused
      <4>1. left[t] \ {x} \in SUBSET Proxies
        OBVIOUS
      <4> QED
        BY <2>2, <3>2, <4>1
    <3> QED
      BY <3>1, <3>2
  <2> QED
    BY <1>2, <2>2, <2>3 DEF PrepareProxy
<1>3. ASSUME NEW t \in Procs, ImportState(t) PROVE HandoverTypes'
  <2>1. tstate[t].base \in SUBSET (Proxies \X Positions)
    BY <1>1, <1>3 DEF ImportState, States, Positions
  <2>2. applied' \in [Procs -> SUBSET (Proxies \X Positions)]
    BY <1>3, <2>1, UpdateWork DEF ImportState
  <2> QED
    BY <1>3, <2>2 DEF ImportState
<1>4. ASSUME NEW t \in Procs, ImportFails(t) PROVE HandoverTypes'
  BY <1>4 DEF ImportFails
<1>5. ASSUME NEW t \in Procs, ActivateProxy(t) PROVE HandoverTypes'
  <2>1. PICK x : x = FirstOf(left[t])
    OBVIOUS
  <2>2. x \in Proxies /\ Resumed(t, x) /\ resume[t][x] # Refused
    BY <1>5, <2>1, FirstOfMember DEF ActivateProxy, Control, SuccessorHolds
  <2>3. /\ left' = [left EXCEPT ![t] = @ \ {x}]
        /\ target' = [target EXCEPT ![t] = IF left[t] = {x} THEN "accepted" ELSE @]
        /\ active' = [active EXCEPT ![t] = @ \/ left[t] = {x}]
    BY <1>5, <2>1 DEF ActivateProxy
  <2>4. left' \in [Procs -> SUBSET Proxies] /\ active' \in [Procs -> BOOLEAN]
    BY <2>3
  <2> QED
    BY <1>5, <2>2, <2>3, <2>4, ResumedEffect DEF ActivateProxy
<1>6. ASSUME NEW t \in Procs, ActivationFails(t) PROVE HandoverTypes'
  <2>1. PICK x : x = FirstOf(left[t])
    OBVIOUS
  <2>2. x \in Proxies /\ x \in left[t] /\ target[t] = "activating"
    BY <1>6, <2>1, FirstOfMember DEF ActivationFails, Control, SuccessorHolds
  <2>3. resume[t][x] # Refused
    BY <2>2 DEF Control, SuccessorHolds, Prepared
  <2>4. Resumed(t, x) \/ UNCHANGED <<queue, resume, subActive>>
    BY <1>6, <2>1 DEF ActivationFails
  <2>5. /\ queue' \in [Procs -> [Proxies -> Seq(Positions)]]
        /\ resume' \in [Procs -> [Proxies -> {Refused} \cup Nat]]
        /\ subActive' \in [Procs -> [Proxies -> BOOLEAN]]
    BY <2>2, <2>3, <2>4, ResumedEffect
  <2> QED
    BY <1>6, <2>5 DEF ActivationFails
<1> QED
  BY <1>2, <1>3, <1>4, <1>5, <1>6 DEF TakeOver

\* Everything starts in these types.
LEMMA HandoverTypesInit == Init => HandoverTypes
<1> SUFFICES ASSUME Init PROVE HandoverTypes
  OBVIOUS
<1> USE HandoverConstants
<1>1. /\ published \in [Proxies -> 0..MaxInputs]
      /\ next \in [Procs -> [Proxies -> 0..(MaxInputs + 1)]]
      /\ inFlight \in [Procs -> [Proxies -> 0..MaxInputs]]
  BY DEF Init, PerProxy
<1>2. [i \in 1..Before |-> i] \in Seq(Positions)
  BY DEF Positions
<1>3. handled \in [Proxies -> Seq(Positions)]
  BY <1>2 DEF Init
<1>4. <<>> \in Seq(Positions)
  BY EmptySeq
<1>5. tail \in [Procs -> [Proxies -> Seq(Positions)]]
  <2>1. \A x \in Proxies : LastItems(handled[x], TailLength) \in Seq(Positions)
    BY <1>3, LastItemsType
  <2> QED
    BY <1>4, <2>1 DEF Init
<1>6. queue \in [Procs -> [Proxies -> Seq(Positions)]]
  BY <1>4 DEF Init, PerProxy
<1>7. resume \in [Procs -> [Proxies -> {Refused} \cup Nat]]
  BY DEF Init, PerProxy
<1>8. /\ applied \in [Procs -> SUBSET (Proxies \X Positions)]
      /\ accepted \in [Procs -> SUBSET (Proxies \X Positions)]
  <2>1. Proxies \X (1..Before) \in SUBSET (Proxies \X Positions)
    BY DEF Positions
  <2>2. {} \in SUBSET (Proxies \X Positions)
    OBVIOUS
  <2> QED
    BY <2>1, <2>2 DEF Init
<1>9. subActive \in [Procs -> [Proxies -> BOOLEAN]] /\ inputFailed \in [Procs -> [Proxies -> BOOLEAN]]
      /\ active \in [Procs -> BOOLEAN]
  BY DEF Init, PerProxy
<1> QED
  BY <1>1, <1>3, <1>5, <1>6, <1>7, <1>8, <1>9 DEF Init, HandoverTypes

LEMMA HandoverTypesStep == HandoverTypes /\ Control /\ [Next]_vars => HandoverTypes'
<1>1. HandoverTypes /\ UNCHANGED vars => HandoverTypes'
  BY DEF HandoverTypes, vars, source, successor, application, streams, subscriber, faults
<1> QED
  BY <1>1, InputTypes, MessageTypes, ReleaseTypes, TakeOverTypes DEF Next

-----------------------------------------------------------------------------
(* The control is kept.                                                    *)

\* What a step leaves alone keeps what is said of it.
LEMMA Kept ==
    ASSUME HandoverTypes, Control, NEW p \in Procs
    PROVE  /\ /\ active'[p] = active[p] /\ peer'[p] = peer[p] /\ review'[p] = review[p]
              /\ left'[p] = left[p] /\ stage'[p] = stage[p] /\ state'[p] = state[p]
              /\ target'[p] = target[p]
              => OwnerHolds(p)'
           /\ /\ exit'[p] = exit[p] /\ state'[p] = state[p] /\ peer'[p] = peer[p]
              /\ accepted'[p] = accepted[p]
              /\ target[peer[p]] = "accepted" =>
                    target'[peer[p]] = "accepted" /\ tstate'[peer[p]] = tstate[peer[p]]
              => ExitHolds(p)'
           /\ /\ stage'[p] = stage[p] /\ left'[p] = left[p] /\ toPassive'[p] = toPassive[p]
              /\ state'[p] = state[p]
              /\ \A x \in Proxies : /\ subActive'[p][x] = subActive[p][x]
                                    /\ inFlight'[p][x] = inFlight[p][x]
                                    /\ inputFailed'[p][x] = inputFailed[p][x]
              => FreezeHolds(p)'
           /\ /\ expected'[p] = expected[p] /\ target'[p] = target[p] /\ tstate'[p] = tstate[p]
              /\ left'[p] = left[p]
              /\ expected[p] \in Procs /\ state[expected[p]] # None =>
                    state'[expected[p]] = state[expected[p]] /\ peer'[expected[p]] = peer[expected[p]]
              /\ \A x \in Proxies : /\ subActive'[p][x] = subActive[p][x]
                                    /\ inFlight'[p][x] = inFlight[p][x]
                                    /\ inputFailed'[p][x] = inputFailed[p][x]
                                    /\ resume'[p][x] = resume[p][x]
              => SuccessorHolds(p)'
<1>1. left[p] # {} => FirstOf(left[p]) \in Proxies
  BY FirstOfMember DEF HandoverTypes
<1>2. /\ OwnerHolds(p) /\ ExitHolds(p) /\ FreezeHolds(p) /\ SuccessorHolds(p)
  BY DEF Control
<1>3. /\ active'[p] = active[p] /\ peer'[p] = peer[p] /\ review'[p] = review[p]
      /\ left'[p] = left[p] /\ stage'[p] = stage[p] /\ state'[p] = state[p]
      /\ target'[p] = target[p]
      => OwnerHolds(p)'
  BY <1>1, <1>2 DEF OwnerHolds
<1>4. /\ exit'[p] = exit[p] /\ state'[p] = state[p] /\ peer'[p] = peer[p]
      /\ accepted'[p] = accepted[p]
      /\ target[peer[p]] = "accepted" =>
            target'[peer[p]] = "accepted" /\ tstate'[peer[p]] = tstate[peer[p]]
      => ExitHolds(p)'
  BY <1>1, <1>2 DEF ExitHolds
<1>5. /\ stage'[p] = stage[p] /\ left'[p] = left[p] /\ toPassive'[p] = toPassive[p]
      /\ state'[p] = state[p]
      /\ \A x \in Proxies : /\ subActive'[p][x] = subActive[p][x]
                            /\ inFlight'[p][x] = inFlight[p][x]
                            /\ inputFailed'[p][x] = inputFailed[p][x]
      => FreezeHolds(p)'
  BY <1>1, <1>2 DEF FreezeHolds, Shut
<1>6. /\ expected'[p] = expected[p] /\ target'[p] = target[p] /\ tstate'[p] = tstate[p]
      /\ left'[p] = left[p]
      /\ expected[p] \in Procs /\ state[expected[p]] # None =>
            state'[expected[p]] = state[expected[p]] /\ peer'[expected[p]] = peer[expected[p]]
      /\ \A x \in Proxies : /\ subActive'[p][x] = subActive[p][x]
                            /\ inFlight'[p][x] = inFlight[p][x]
                            /\ inputFailed'[p][x] = inputFailed[p][x]
                            /\ resume'[p][x] = resume[p][x]
      => SuccessorHolds(p)'
  BY <1>1, <1>2 DEF SuccessorHolds, Shut, NotOpened, Prepared, Entered
<1> QED
  BY <1>3, <1>4, <1>5, <1>6

LEMMA Untouched ==
    ASSUME HandoverTypes, Control
    PROVE  /\ UNCHANGED <<active, peer, review, left, stage, state, target>> =>
                \A p \in Procs : OwnerHolds(p)'
           /\ UNCHANGED <<exit, state, peer, target, tstate, accepted>> =>
                \A p \in Procs : ExitHolds(p)'
           /\ UNCHANGED <<stage, left, toPassive, subActive, inFlight, inputFailed, state>> =>
                \A p \in Procs : FreezeHolds(p)'
           /\ UNCHANGED <<expected, target, state, peer, tstate, left, subActive, inFlight,
                          inputFailed, resume>> =>
                \A p \in Procs : SuccessorHolds(p)'
           /\ /\ UNCHANGED <<state, peer, expected>>
              /\ \A p \in Procs : target'[p] = "none" <=> target[p] = "none"
              => TokenHolds'
           /\ UNCHANGED <<state, peer, target, tstate>> /\ net' \subseteq net => NetHolds'
<1>1. UNCHANGED <<active, peer, review, left, stage, state, target>> =>
        \A p \in Procs : OwnerHolds(p)'
  BY Kept
<1>2. UNCHANGED <<exit, state, peer, target, tstate, accepted>> => \A p \in Procs : ExitHolds(p)'
  BY Kept
<1>3. UNCHANGED <<stage, left, toPassive, subActive, inFlight, inputFailed, state>> =>
        \A p \in Procs : FreezeHolds(p)'
  BY Kept
<1>4. UNCHANGED <<expected, target, state, peer, tstate, left, subActive, inFlight,
                  inputFailed, resume>> => \A p \in Procs : SuccessorHolds(p)'
  BY Kept
<1>5. ASSUME UNCHANGED <<state, peer, expected>>,
             \A p \in Procs : target'[p] = "none" <=> target[p] = "none"
      PROVE  TokenHolds'
  <2>1. ASSUME NEW p \in Procs, Holds(p)' PROVE Holds(p)
    <3>1. Entered(p)
      BY <1>5, <2>1 DEF Holds, Entered
    <3>2. ASSUME state[p] # None PROVE target[peer[p]] = "none"
      <4>1. peer[p] \in Procs
        <5>1. stage[p] # "no" /\ (stage[p] = "no" <=> peer[p] = None)
          BY <3>2 DEF Control, OwnerHolds
        <5>2. peer[p] \in Procs \cup {None}
          BY DEF HandoverTypes
        <5> QED
          BY <5>1, <5>2
      <4>2. target'[peer[p]] = "none"
        BY <1>5, <2>1, <3>2 DEF Holds
      <4> QED
        BY <1>5, <4>1, <4>2
    <3> QED
      BY <3>1, <3>2 DEF Holds
  <2> QED
    BY <1>5, <2>1 DEF Control, TokenHolds
<1>6. UNCHANGED <<state, peer, target, tstate>> /\ net' \subseteq net => NetHolds'
  BY DEF Control, NetHolds
<1> QED
  BY <1>1, <1>2, <1>3, <1>4, <1>5, <1>6

\* The workers and the application.
LEMMA InputEffect ==
    ASSUME HandoverTypes, Input \/ Work
    PROVE  /\ UNCHANGED <<active, review, peer, stage, state, exit, expected, target, tstate,
                          left, net, resume>>
           /\ \A p \in Procs, x \in Proxies :
                /\ Shut(p, x) => Shut(p, x)'
                /\ x \in toPassive[p] \/ ~subActive[p][x] =>
                     x \in toPassive'[p] \/ ~subActive'[p][x]
           /\ \A p \in Procs : ~Alive(p) => accepted'[p] = accepted[p]
<1> USE DEF source, successor, application, streams, subscriber, faults, Shut
<1>1. ASSUME UNCHANGED <<active, review, peer, stage, state, exit, expected, target, tstate,
                         left, net, resume>>,
             UNCHANGED <<subActive, inFlight, inputFailed, toPassive>>
      PROVE  \A p \in Procs, x \in Proxies :
                /\ Shut(p, x) => Shut(p, x)'
                /\ x \in toPassive[p] \/ ~subActive[p][x] =>
                     x \in toPassive'[p] \/ ~subActive'[p][x]
  BY <1>1
<1>2. ASSUME NEW x \in Proxies, PublishInput(x) PROVE UNCHANGED <<active, review, peer, stage,
             state, exit, expected, target, tstate, left, net, resume, subActive, inFlight,
             inputFailed, toPassive, accepted>>
  BY <1>2 DEF PublishInput
<1>3. ASSUME NEW p \in Procs, NEW x \in Proxies, Subscribe(p, x) \/ Deliver(p, x)
      PROVE  UNCHANGED <<active, review, peer, stage,
             state, exit, expected, target, tstate, left, net, resume, subActive, inFlight,
             inputFailed, toPassive, accepted>>
  BY <1>3 DEF Subscribe, Deliver
<1>4. ASSUME NEW p \in Procs, WorkEnds(p)
      PROVE  /\ UNCHANGED <<active, review, peer, stage,
                  state, exit, expected, target, tstate, left, net, resume, subActive, inFlight,
                  inputFailed, toPassive>>
             /\ Alive(p) /\ \A q \in Procs \ {p} : accepted'[q] = accepted[q]
  BY <1>4 DEF WorkEnds, HandoverTypes
<1>5. ASSUME NEW p \in Procs, NEW x \in Proxies, StartInput(p, x)
      PROVE  /\ UNCHANGED <<active, review, peer, stage,
                  state, exit, expected, target, tstate, left, net, resume, subActive,
                  inputFailed, toPassive>>
             /\ Alive(p) /\ \A q \in Procs \ {p} : accepted'[q] = accepted[q]
             /\ \A q \in Procs, y \in Proxies : Shut(q, y) => Shut(q, y)'
  <2>1. /\ UNCHANGED <<active, review, peer, stage,
             state, exit, expected, target, tstate, left, net, resume, subActive,
             inputFailed, toPassive>>
        /\ Alive(p) /\ subActive[p][x]
    BY <1>5 DEF StartInput
  <2>2. \/ Updated(inFlight', inFlight, p, x, Head(queue[p][x])) /\ UNCHANGED accepted
        \/ /\ \A q \in Procs \ {p} : accepted'[q] = accepted[q]
           /\ UNCHANGED inFlight
    BY <1>5, StartInputEffect
  <2> QED
    BY <2>1, <2>2 DEF Updated
<1>6. ASSUME NEW p \in Procs, NEW x \in Proxies, FinishInput(p, x)
      PROVE  /\ UNCHANGED <<active, review, peer, stage,
                  state, exit, expected, target, tstate, left, net, resume, subActive,
                  inputFailed, toPassive, accepted>>
             /\ \A q \in Procs, y \in Proxies : Shut(q, y) => Shut(q, y)'
  <2>1. /\ UNCHANGED <<active, review, peer, stage,
             state, exit, expected, target, tstate, left, net, resume, subActive,
             inputFailed, toPassive, accepted>>
    BY <1>6 DEF FinishInput
  <2>2. Updated(inFlight', inFlight, p, x, 0)
    BY <1>6, FinishInputEffect
  <2> QED
    BY <2>1, <2>2 DEF Updated
<1>7. ASSUME NEW p \in Procs, NEW x \in Proxies, InputFails(p, x)
      PROVE  /\ UNCHANGED <<active, review, peer, stage,
                  state, exit, expected, target, tstate, left, net, resume, toPassive, accepted>>
             /\ \A q \in Procs, y \in Proxies : /\ Shut(q, y) => Shut(q, y)'
                                                /\ ~subActive[q][y] => ~subActive'[q][y]
  <2>1. /\ UNCHANGED <<active, review, peer, stage,
             state, exit, expected, target, tstate, left, net, resume, toPassive, accepted>>
        /\ inFlight[p][x] # 0
    BY <1>7 DEF InputFails
  <2>2. /\ Updated(inFlight', inFlight, p, x, 0) /\ Updated(subActive', subActive, p, x, FALSE)
        /\ Updated(inputFailed', inputFailed, p, x, TRUE)
    BY <1>7, InputFailsEffect
  <2>3. inFlight'[p][x] = 0
    BY <2>2 DEF Updated
  <2>4. ASSUME NEW q \in Procs, NEW y \in Proxies
        PROVE  ~subActive[q][y] => ~subActive'[q][y]
    BY <2>2 DEF Updated
  <2>5. ASSUME NEW q \in Procs, NEW y \in Proxies, q # p \/ y # x
        PROVE  inFlight'[q][y] = inFlight[q][y] /\ inputFailed'[q][y] = inputFailed[q][y]
               /\ subActive'[q][y] = subActive[q][y]
    BY <2>2, <2>5 DEF Updated
  <2>6. ~Shut(p, x)
    BY <2>1 DEF Shut
  <2> QED
    BY <2>1, <2>4, <2>5, <2>6 DEF Shut
<1>8. ASSUME NEW p \in Procs, NEW x \in Proxies, WorkerPassive(p, x)
      PROVE  /\ UNCHANGED <<active, review, peer, stage,
                  state, exit, expected, target, tstate, left, net, resume, accepted>>
             /\ \A q \in Procs, y \in Proxies :
                  /\ Shut(q, y) => Shut(q, y)'
                  /\ y \in toPassive[q] \/ ~subActive[q][y] =>
                       y \in toPassive'[q] \/ ~subActive'[q][y]
  <2>1. UNCHANGED <<active, review, peer, stage,
             state, exit, expected, target, tstate, left, net, resume, accepted, inFlight,
             inputFailed>>
    BY <1>8 DEF WorkerPassive
  <2>2. /\ Updated(subActive', subActive, p, x, FALSE)
        /\ \A q \in Procs : toPassive'[q] = IF q = p THEN toPassive[q] \ {x} ELSE toPassive[q]
    BY <1>8, WorkerPassiveEffect
  <2> QED
    BY <2>1, <2>2 DEF Updated
<1> QED
  BY <1>1, <1>2, <1>3, <1>4, <1>5, <1>6, <1>7, <1>8 DEF Input, Work

LEMMA InputControl ==
    ASSUME HandoverTypes, Control, Input \/ Work
    PROVE  Control'
<1> USE InputEffect
<1>1. \A p \in Procs : OwnerHolds(p)'
  BY Untouched
<1>2. TokenHolds' /\ NetHolds'
  BY Untouched
<1>3. ASSUME NEW p \in Procs PROVE ExitHolds(p)'
  BY DEF Control, ExitHolds, Alive
<1>4. ASSUME NEW p \in Procs PROVE FreezeHolds(p)'
  <2>1. FirstOf(left[p]) \in Proxies \/ left[p] = {}
    BY FirstOfMember DEF HandoverTypes
  <2> QED
    BY <2>1 DEF Control, FreezeHolds
<1>5. ASSUME NEW p \in Procs PROVE SuccessorHolds(p)'
  BY DEF Control, SuccessorHolds, NotOpened, Prepared, Entered
<1> QED
  BY <1>1, <1>2, <1>3, <1>4, <1>5 DEF Control

\* A process that has sent its state was owner, and is no longer.
LEMMA Source ==
    ASSUME HandoverTypes, Control, NEW p \in Procs, state[p] # None
    PROVE  /\ peer[p] \in Procs /\ peer[p] # p /\ Entered(p)
           /\ p = First \/ target[p] = "accepted"
           /\ ~active[p] /\ review[p] = None /\ stage[p] \in {"prepared", "failed"}
           /\ target[peer[p]] = "none" => Holds(p)
<1>1. stage[p] \in {"prepared", "failed"} /\ (stage[p] = "no" <=> peer[p] = None)
  BY DEF Control, OwnerHolds
<1>2. peer[p] \in Procs \cup {None}
  BY DEF HandoverTypes
<1>3. (p = First \/ target[p] = "accepted") /\ ~active[p] /\ peer[p] # p /\ review[p] = None
  BY <1>1 DEF Control, OwnerHolds
<1>4. Entered(p)
  BY <1>3 DEF Entered
<1> QED
  BY <1>1, <1>2, <1>3, <1>4 DEF Holds

LEMMA AskControl ==
    ASSUME HandoverTypes, Control, Ask \/ Crashes \/ \E m \in net : Lose(m)
    PROVE  Control'
<1> USE DEF source, successor, application, streams, subscriber, faults
<1>1. ASSUME NEW t \in Procs, NEW s \in Procs, SeesHeartbeat(t, s) PROVE Control'
  <2>1. /\ UNCHANGED <<streams, next, subscriber, toPassive, application, source, target, tstate,
                       left, net>>
        /\ expected' = [expected EXCEPT ![t] = s] /\ t # First /\ expected[t] = None
    BY <1>1 DEF SeesHeartbeat
  <2>2. target[t] = "none"
    BY <2>1, HandoverConstants DEF Control, SuccessorHolds
  <2>3. \A p \in Procs : expected'[p] = IF p = t THEN s ELSE expected[p]
    BY <2>1 DEF HandoverTypes
  <2>4. \A p \in Procs : OwnerHolds(p)' /\ ExitHolds(p)' /\ FreezeHolds(p)'
    BY <2>1, Untouched
  <2>5. NetHolds'
    BY <2>1, Untouched
  <2>6. ASSUME NEW p \in Procs PROVE SuccessorHolds(p)'
    <3>1. CASE p = t
      BY <2>1, <2>2, <2>3, <3>1
         DEF Control, SuccessorHolds, Shut, NotOpened, Prepared, Entered
    <3>2. CASE p # t
      BY <2>1, <2>3, <3>2, Kept
    <3> QED
      BY <3>1, <3>2
  <2>7. TokenHolds'
    <3>1. \A p \in Procs : Holds(p)' <=> Holds(p)
      BY <2>1 DEF Holds, Entered
    <3> QED
      BY <2>1, <2>2, <2>3, <3>1 DEF Control, TokenHolds
  <2> QED
    BY <2>4, <2>5, <2>6, <2>7 DEF Control
<1>2. ASSUME NEW t \in Procs, SendRequest(t) PROVE Control'
  <2>1. /\ UNCHANGED <<streams, next, subscriber, toPassive, application, source, target, tstate,
                       left, expected>>
        /\ net' = net \cup {[type |-> "request", from |-> t, preview |-> Previews(t)]}
    BY <1>2 DEF SendRequest
  <2>2. /\ \A p \in Procs : OwnerHolds(p)' /\ ExitHolds(p)' /\ FreezeHolds(p)' /\ SuccessorHolds(p)'
        /\ TokenHolds'
    BY <2>1, Untouched
  <2>3. NetHolds'
    BY <2>1 DEF Control, NetHolds
  <2> QED
    BY <2>2, <2>3 DEF Control
<1>3. ASSUME NEW m \in net, Lose(m) PROVE Control'
  BY <1>3, Untouched DEF Control, Lose
<1>4. ASSUME NEW p \in Procs, Crash(p) PROVE Control'
  <2>1. /\ UNCHANGED <<streams, next, subscriber, toPassive, application, active, review, peer,
                       stage, state, successor, left, net>>
        /\ exit' = [exit EXCEPT ![p] = "crashed"]
    BY <1>4 DEF Crash
  <2>2. /\ \A q \in Procs : OwnerHolds(q)' /\ FreezeHolds(q)' /\ SuccessorHolds(q)'
        /\ TokenHolds' /\ NetHolds'
    BY <2>1, Untouched
  <2>3. ASSUME NEW q \in Procs PROVE ExitHolds(q)'
    <3>1. exit'[q] = IF q = p THEN "crashed" ELSE exit[q]
      BY <2>1 DEF HandoverTypes
    <3> QED
      BY <2>1, <3>1 DEF Control, ExitHolds
  <2> QED
    BY <2>2, <2>3 DEF Control
<1> QED
  BY <1>1, <1>2, <1>3, <1>4 DEF Ask, Crashes

LEMMA RequestControl ==
    ASSUME HandoverTypes, Control, NEW m \in net, NEW s \in Procs, HandleRequest(s, m)
    PROVE  Control'
<1> USE DEF source, successor, application, streams, subscriber, faults
<1>1. /\ UNCHANGED <<streams, next, subscriber, toPassive, application, active, peer, stage, state,
                     fins, exit, successor>>
      /\ m.from # s /\ m.type = "request"
  BY DEF HandleRequest
<1>2. CASE peer[s] = m.from /\ state[s] # None /\ net' = net \cup {Fin(s)}
           /\ UNCHANGED <<review, left>>
  <2>1. /\ \A p \in Procs : OwnerHolds(p)' /\ ExitHolds(p)' /\ FreezeHolds(p)' /\ SuccessorHolds(p)'
        /\ TokenHolds'
    BY <1>1, <1>2, Untouched
  <2>2. NetHolds'
    BY <1>1, <1>2 DEF Control, NetHolds, Fin
  <2> QED
    BY <2>1, <2>2 DEF Control
<1>3. CASE /\ peer[s] = None /\ active[s] /\ review[s] = None /\ UNCHANGED net
           /\ review' = [review EXCEPT ![s] = m] /\ left' = [left EXCEPT ![s] = Proxies]
  <2>1. (\A p \in Procs : ExitHolds(p)') /\ TokenHolds' /\ NetHolds'
    BY <1>1, <1>3, Untouched
  <2>2. \A p \in Procs \ {s} : review'[p] = review[p] /\ left'[p] = left[p]
    BY <1>3 DEF HandoverTypes
  <2>3. review'[s] = m /\ left'[s] = Proxies
    BY <1>3 DEF HandoverTypes
  <2>4. \A p \in Procs \ {s} : OwnerHolds(p)' /\ FreezeHolds(p)' /\ SuccessorHolds(p)'
    BY <1>1, <2>2, Kept
  <2>5. OwnerHolds(s)'
    BY <1>1, <1>3, <2>3, HandoverAssumption DEF Control, OwnerHolds, NetHolds
  <2>6. stage[s] = "no"
    BY <1>3 DEF Control, OwnerHolds
  <2>7. FreezeHolds(s)'
    BY <1>1, <2>6 DEF Control, FreezeHolds, Shut
  <2>8. target[s] \notin {"preparing", "applying", "activating"} /\ Entered(s)
    <3>1. s = First \/ target[s] = "accepted"
      BY <1>3 DEF Control, OwnerHolds
    <3>2. s = First => target[s] = "none"
      BY <1>3, HandoverConstants DEF Control, SuccessorHolds
    <3> QED
      BY <3>1, <3>2 DEF Entered
  <2>9. SuccessorHolds(s)'
    BY <1>1, <2>8 DEF Control, SuccessorHolds, Shut, NotOpened, Prepared, Entered
  <2> QED
    BY <2>1, <2>4, <2>5, <2>7, <2>9 DEF Control
<1> QED
  BY <1>2, <1>3 DEF HandleRequest

LEMMA AckControl ==
    ASSUME HandoverTypes, Control, NEW m \in net, NEW s \in Procs, HandleAck(s, m)
    PROVE  Control'
<1> USE DEF source, successor, application, streams, subscriber, faults
<1>1. /\ UNCHANGED <<streams, next, subscriber, toPassive, application, active, peer, stage, state,
                     review, successor, left, net>>
      /\ exit' = [exit EXCEPT ![s] = "finishing"]
      /\ m.type = "ack" /\ m.from = peer[s] /\ state[s] # None /\ m.state = state[s]
  BY DEF HandleAck, Acknowledges
<1>2. /\ \A q \in Procs : OwnerHolds(q)' /\ FreezeHolds(q)' /\ SuccessorHolds(q)'
      /\ TokenHolds' /\ NetHolds'
  BY <1>1, Untouched
<1>3. target[peer[s]] = "accepted" /\ tstate[peer[s]] = state[s]
  BY <1>1 DEF Control, NetHolds
<1>4. ASSUME NEW q \in Procs PROVE ExitHolds(q)'
  <2>1. exit'[q] = IF q = s THEN "finishing" ELSE exit[q]
    BY <1>1 DEF HandoverTypes
  <2> QED
    BY <1>1, <1>3, <2>1 DEF Control, ExitHolds
<1> QED
  BY <1>2, <1>4 DEF Control

LEMMA FinControl ==
    ASSUME HandoverTypes, Control, NEW m \in net, NEW t \in Procs, HandleFin(t, m)
    PROVE  Control'
<1> USE DEF source, successor, application, streams, subscriber, faults
<1>1. /\ UNCHANGED <<streams, next, subscriber, toPassive, application, active, peer, stage, state,
                     review, fins, exit, expected>>
      /\ m.type = "fin" /\ peer[t] = None /\ expected[t] # None /\ m.id = t
      /\ m.from = expected[t]
  BY DEF HandleFin, FinIsFor
<1>2. CASE target[t] = "none"
  <2>1. /\ target' = [target EXCEPT ![t] = "preparing"]
        /\ tstate' = [tstate EXCEPT ![t] = m.state]
        /\ left' = [left EXCEPT ![t] = Proxies]
        /\ net' = net
    BY <1>2 DEF HandleFin, MayAck
  <2>2. /\ \A p \in Procs \ {t} : target'[p] = target[p] /\ tstate'[p] = tstate[p]
                                  /\ left'[p] = left[p]
        /\ target'[t] = "preparing" /\ tstate'[t] = m.state /\ left'[t] = Proxies
    BY <2>1 DEF HandoverTypes
  <2>3. PICK e \in Procs : e = expected[t]
    BY <1>1 DEF HandoverTypes
  <2>4. state[e] # None /\ m.state = state[e] /\ peer[e] = t
    BY <1>1, <2>3 DEF Control, NetHolds
  <2>5. t # First /\ ~Entered(t)
    BY <1>1, <1>2 DEF Control, SuccessorHolds, Entered
  <2>6. ~active[t] /\ stage[t] = "no" /\ state[t] = None /\ review[t] = None
    BY <1>2, <2>5 DEF Control, OwnerHolds
  <2>7. Holds(e)
    BY <1>2, <2>4, Source
  <2>8. \A p \in Procs : OwnerHolds(p)'
    <3>1. \A p \in Procs \ {t} : OwnerHolds(p)'
      BY <1>1, <2>2, Kept
    <3>2. OwnerHolds(t)'
      BY <1>1, <2>6 DEF OwnerHolds
    <3> QED
      BY <3>1, <3>2
  <2>9. ASSUME NEW p \in Procs PROVE ExitHolds(p)'
    <3>1. CASE state[p] = None
      BY <1>1, <3>1 DEF Control, ExitHolds
    <3>2. CASE state[p] # None
      <4>1. peer[p] \in Procs
        BY <3>2, Source
      <4> QED
        BY <1>1, <1>2, <2>2, <4>1, Kept
    <3> QED
      BY <3>1, <3>2
  <2>10. \A p \in Procs : FreezeHolds(p)'
    <3>1. \A p \in Procs \ {t} : FreezeHolds(p)'
      BY <1>1, <2>2, Kept
    <3>2. FreezeHolds(t)'
      BY <1>1, <2>6 DEF FreezeHolds
    <3> QED
      BY <3>1, <3>2
  <2>11. \A p \in Procs : SuccessorHolds(p)'
    <3>1. \A p \in Procs \ {t} : SuccessorHolds(p)'
      BY <1>1, <2>2, Kept
    <3>2. SuccessorHolds(t)'
      <4>1. \A x \in Proxies : Shut(t, x)'
        BY <1>1, <2>5 DEF Control, SuccessorHolds, NotOpened, Shut
      <4> QED
        BY <1>1, <2>2, <2>3, <2>4, <2>5, <4>1, HandoverAssumption DEF SuccessorHolds, Prepared
    <3> QED
      BY <3>1, <3>2
  <2>12. TokenHolds'
    <3>1. ASSUME NEW p \in Procs, Holds(p)' PROVE p = t
      <4>1. ASSUME p # t PROVE FALSE
        <5>1. Entered(p)
          BY <2>2, <3>1, <4>1 DEF Holds, Entered
        <5>2. CASE state[p] = None
          BY <2>5, <2>7, <4>1, <5>1, <5>2, <2>4 DEF Control, TokenHolds, Holds
        <5>3. CASE state[p] # None
          <6>1. peer[p] \in Procs /\ target'[peer[p]] = "none"
            BY <1>1, <3>1, <5>3, Source DEF Holds
          <6>2. target[peer[p]] = "none" /\ peer[p] # t
            BY <2>2, <6>1
          <6>3. Holds(p)
            BY <5>3, <6>2, Source
          <6> QED
            BY <2>4, <2>7, <6>2, <6>3 DEF Control, TokenHolds
        <5> QED
          BY <5>2, <5>3
      <4> QED
        BY <4>1
    <3>2. ASSUME NEW u \in Procs, NEW q \in Procs, target'[u] # "none", state[u] = None,
                 peer[q] = u, state[q] # None
          PROVE  q = expected[u]
      <4>1. CASE u = t
        <5>1. Holds(q)
          BY <1>2, <3>2, <4>1, Source
        <5> QED
          BY <2>3, <2>7, <4>1, <5>1 DEF Control, TokenHolds
      <4>2. CASE u # t
        BY <2>2, <3>2, <4>2 DEF Control, TokenHolds
      <4> QED
        BY <4>1, <4>2
    <3> QED
      BY <1>1, <3>1, <3>2 DEF TokenHolds
  <2>13. NetHolds'
    BY <1>1, <1>2, <2>1, <2>2 DEF Control, NetHolds
  <2> QED
    BY <2>8, <2>9, <2>10, <2>11, <2>12, <2>13 DEF Control
<1>3. CASE target[t] # "none"
  <2>1. /\ UNCHANGED <<target, tstate, left>>
        /\ net' = IF target[t] = "accepted" THEN net \cup {Ack(t)} ELSE net
    BY <1>3 DEF HandleFin, MayAck
  <2>2. /\ \A p \in Procs : OwnerHolds(p)' /\ ExitHolds(p)' /\ FreezeHolds(p)' /\ SuccessorHolds(p)'
        /\ TokenHolds'
    BY <1>1, <2>1, Untouched
  <2>3. NetHolds'
    BY <1>1, <2>1 DEF Control, NetHolds, Ack
  <2> QED
    BY <2>2, <2>3 DEF Control
<1> QED
  BY <1>2, <1>3

\* An owner or a source runs no takeover.
LEMMA NoTakeOver ==
    ASSUME HandoverTypes, Control, NEW s \in Procs, active[s] \/ stage[s] # "no"
    PROVE  /\ Entered(s) /\ target[s] \notin {"preparing", "applying", "activating"}
           /\ \A x \in Proxies : ~NotOpened(s, x) /\ ~Prepared(s, x)
<1>1. s = First \/ target[s] = "accepted"
  BY DEF Control, OwnerHolds
<1>2. s = First => target[s] = "none"
  BY HandoverConstants DEF Control, SuccessorHolds
<1> QED
  BY <1>1, <1>2 DEF Entered, NotOpened, Prepared

LEMMA ReviewControl ==
    ASSUME HandoverTypes, Control, NEW s \in Procs, ReviewReplies(s)
    PROVE  Control'
<1> USE DEF source, successor, application, streams, subscriber, faults
<1>1. PICK x : x = FirstOf(left[s])
  OBVIOUS
<1>2. /\ active[s] /\ left[s] # {} /\ review[s].from \in Procs \ {s} /\ peer[s] = None
      /\ stage[s] = "no" /\ state[s] = None
  BY DEF ReviewReplies, Control, OwnerHolds
<1>3. x \in left[s] /\ x \in Proxies
  BY <1>1, <1>2, FirstOfMember DEF HandoverTypes
<1>4. UNCHANGED <<streams, next, subscriber, application, state, fins, exit, successor, net>>
  BY DEF ReviewReplies
<1>5. /\ \A p \in Procs \ {s} :
           /\ left'[p] = left[p] /\ review'[p] = review[p] /\ peer'[p] = peer[p]
           /\ active'[p] = active[p] /\ stage'[p] = stage[p] /\ toPassive'[p] = toPassive[p]
      /\ \/ /\ left'[s] = Proxies /\ review'[s] = None /\ peer'[s] = review[s].from
            /\ ~active'[s] /\ stage'[s] = "freezing" /\ toPassive'[s] = {FirstOf(Proxies)}
         \/ /\ left'[s] \in SUBSET Proxies /\ peer'[s] = None /\ active'[s]
            /\ stage'[s] = "no"
            /\ review'[s] = None \/ (review'[s] = review[s] /\ left'[s] # {})
  <2>1. PICK good \in BOOLEAN : good = CanResume(s, x, review[s].preview[x])
    BY DEF CanResume
  <2>2. PICK taken \in BOOLEAN : taken = (good /\ left[s] = {x} /\ peer[s] = None /\ active[s])
    OBVIOUS
  <2>3. /\ left' = [left EXCEPT ![s] = IF taken THEN Proxies ELSE IF good THEN @ \ {x} ELSE {}]
        /\ review' = [review EXCEPT ![s] = IF good /\ left[s] # {x} THEN @ ELSE None]
        /\ peer' = [peer EXCEPT ![s] = IF taken THEN review[s].from ELSE @]
        /\ active' = [active EXCEPT ![s] = @ /\ ~taken]
        /\ stage' = [stage EXCEPT ![s] = IF taken THEN "freezing" ELSE @]
        /\ toPassive' = [toPassive EXCEPT ![s] = IF taken THEN {FirstOf(Proxies)} ELSE @]
    BY <1>1, <2>1, <2>2 DEF ReviewReplies
  <2>4. \A p \in Procs \ {s} :
           /\ left'[p] = left[p] /\ review'[p] = review[p] /\ peer'[p] = peer[p]
           /\ active'[p] = active[p] /\ stage'[p] = stage[p] /\ toPassive'[p] = toPassive[p]
    BY <2>3 DEF HandoverTypes
  <2>5. CASE taken
    BY <1>2, <2>2, <2>3, <2>4, <2>5 DEF HandoverTypes
  <2>6. CASE ~taken
    <3>1. /\ left'[s] = (IF good THEN left[s] \ {x} ELSE {})
          /\ review'[s] = (IF good /\ left[s] # {x} THEN review[s] ELSE None)
          /\ peer'[s] = peer[s] /\ active'[s] = active[s] /\ stage'[s] = stage[s]
      BY <2>3, <2>6 DEF HandoverTypes
    <3>2. left[s] \ {x} \in SUBSET Proxies
      BY DEF HandoverTypes
    <3>3. left[s] # {x} => left[s] \ {x} # {}
      BY <1>3
    <3> QED
      BY <1>2, <2>4, <3>1, <3>2, <3>3
  <2> QED
    BY <2>5, <2>6
<1>6. ASSUME NEW p \in Procs \ {s} PROVE OwnerHolds(p)' /\ ExitHolds(p)' /\ FreezeHolds(p)'
  BY <1>4, <1>5, Kept
<1>7. ASSUME NEW p \in Procs \ {s} PROVE SuccessorHolds(p)'
  BY <1>2, <1>4, <1>5, Kept
<1>8. OwnerHolds(s)'
  <2>1. s = First \/ target[s] = "accepted"
    BY <1>2 DEF Control, OwnerHolds
  <2> QED
    BY <1>2, <1>4, <1>5, <2>1, HandoverConstants DEF OwnerHolds
<1>9. ExitHolds(s)'
  BY <1>2, <1>4 DEF Control, ExitHolds
<1>10. FreezeHolds(s)'
  <2>1. FirstOf(Proxies) \in {FirstOf(Proxies)} /\ Proxies # {} /\ Proxies \ Proxies = {}
    BY HandoverAssumption
  <2> QED
    BY <1>2, <1>4, <1>5, <2>1 DEF FreezeHolds
<1>11. SuccessorHolds(s)'
  <2>1. Entered(s) /\ target[s] \notin {"preparing", "applying", "activating"}
    BY <1>2, NoTakeOver
  <2>2. target[s] # "none" => expected[s] \in Procs \ {s}
    BY <1>2 DEF Control, SuccessorHolds
  <2> QED
    BY <1>2, <1>4, <1>5, <2>1, <2>2 DEF Control, SuccessorHolds, NotOpened, Prepared, Entered
<1>12. TokenHolds'
  <2>1. \A p \in Procs : Holds(p)' => Holds(p)
    BY <1>2, <1>4, <1>5 DEF Holds, Entered
  <2> QED
    BY <1>2, <1>4, <1>5, <2>1 DEF Control, TokenHolds
<1>13. NetHolds'
  BY <1>2, <1>4, <1>5 DEF Control, NetHolds
<1> QED
  BY <1>6, <1>7, <1>8, <1>9, <1>10, <1>11, <1>12, <1>13 DEF Control

LEMMA FreezeControl ==
    ASSUME HandoverTypes, Control, NEW s \in Procs, ProxyFrozen(s) \/ PreparationFails(s)
    PROVE  Control'
<1> USE DEF source, successor, application, streams, subscriber, faults
<1>1. /\ stage[s] \in {"freezing", "draining"} /\ state[s] = None /\ ~active[s]
      /\ peer[s] # None /\ peer[s] # s /\ review[s] = None
      /\ s = First \/ target[s] = "accepted"
  <2>1. stage[s] \in {"freezing", "draining"}
    BY DEF ProxyFrozen, PreparationFails
  <2> QED
    BY <2>1 DEF Control, OwnerHolds
<1>2. UNCHANGED <<streams, next, subscriber, application, active, review, peer, state, fins, exit,
                  successor, net>>
  BY DEF ProxyFrozen, PreparationFails
<1>3. (\A p \in Procs : ExitHolds(p)') /\ TokenHolds' /\ NetHolds'
  BY <1>2, Untouched
<1>4. SUFFICES
        /\ \A p \in Procs \ {s} : /\ left'[p] = left[p] /\ stage'[p] = stage[p]
                                  /\ toPassive'[p] = toPassive[p]
        /\ \/ stage'[s] = "failed"
           \/ stage'[s] = "draining" /\ \A x \in Proxies : Shut(s, x)
           \/ /\ stage'[s] = "freezing" /\ left'[s] # {}
              /\ \A x \in Proxies \ left'[s] : Shut(s, x)
              /\ FirstOf(left'[s]) \in toPassive'[s]
  <2>1. \A p \in Procs \ {s} : OwnerHolds(p)' /\ FreezeHolds(p)' /\ SuccessorHolds(p)'
    BY <1>2, <1>4, Kept
  <2>2. OwnerHolds(s)'
    BY <1>1, <1>2, <1>4 DEF OwnerHolds
  <2>3. FreezeHolds(s)'
    BY <1>1, <1>2, <1>4 DEF FreezeHolds, Shut
  <2>4. SuccessorHolds(s)'
    <3>1. Entered(s) /\ target[s] \notin {"preparing", "applying", "activating"}
      BY <1>1, NoTakeOver
    <3> QED
      BY <1>2, <3>1 DEF Control, SuccessorHolds, NotOpened, Prepared, Entered
  <2> QED
    BY <1>3, <2>1, <2>2, <2>3, <2>4 DEF Control
<1>5. CASE PreparationFails(s)
  BY <1>5 DEF PreparationFails, HandoverTypes
<1>6. CASE ProxyFrozen(s)
  <2>1. PICK x : x = FirstOf(left[s])
    OBVIOUS
  <2>2. PICK rest : rest = left[s] \ {x}
    OBVIOUS
  <2>3. stage[s] = "freezing" /\ x \notin toPassive[s] /\ inFlight[s][x] = 0 /\ left[s] # {}
    BY <1>6, <2>1 DEF ProxyFrozen, Quiet, Control, FreezeHolds
  <2>4. ~subActive[s][x]
    BY <2>1, <2>3 DEF Control, FreezeHolds
  <2>5. CASE inputFailed[s][x]
    BY <1>6, <2>1, <2>5 DEF ProxyFrozen, HandoverTypes
  <2>6. CASE ~inputFailed[s][x]
    <3>1. \A y \in Proxies \ rest : Shut(s, y)
      BY <2>2, <2>3, <2>4, <2>6 DEF Control, FreezeHolds, Shut
    <3>2. PICK posted : posted = IF rest = {} THEN toPassive[s] ELSE {FirstOf(rest)}
      OBVIOUS
    <3>3. /\ left' = [left EXCEPT ![s] = rest]
          /\ stage' = [stage EXCEPT ![s] = IF rest = {} THEN "draining" ELSE "freezing"]
          /\ toPassive' = [toPassive EXCEPT ![s] = posted]
      BY <1>6, <2>1, <2>2, <2>3, <2>6, <3>2 DEF ProxyFrozen
    <3>4. /\ \A p \in Procs \ {s} : /\ left'[p] = left[p] /\ stage'[p] = stage[p]
                                    /\ toPassive'[p] = toPassive[p]
          /\ left'[s] = rest /\ toPassive'[s] = posted
          /\ stage'[s] = IF rest = {} THEN "draining" ELSE "freezing"
      BY <3>3 DEF HandoverTypes
    <3> QED
      BY <3>1, <3>2, <3>4
  <2> QED
    BY <2>5, <2>6
<1> QED
  BY <1>5, <1>6

LEMMA ExportControl ==
    ASSUME HandoverTypes, Control, NEW s \in Procs, NEW sent \in BOOLEAN, ExportState(s, sent)
    PROVE  Control'
<1> USE DEF source, successor, application, streams, subscriber, faults
<1>1. PICK b : b = [from |-> s, cursor |-> tail[s], base |-> applied[s]]
  OBVIOUS
<1>2. b \in States /\ b # None
  <2>1. b \in States
    BY <1>1 DEF States, Positions, HandoverTypes
  <2> QED
    BY <2>1, HandoverConstants
<1>3. /\ UNCHANGED <<streams, next, subscriber, toPassive, application, active, review, peer, exit,
                     successor, left>>
      /\ stage[s] = "draining"
      /\ state' = [state EXCEPT ![s] = b]
      /\ \/ /\ stage' = [stage EXCEPT ![s] = "prepared"]
            /\ net' = net \cup {[type |-> "fin", from |-> s, id |-> peer[s], state |-> state'[s]]}
         \/ /\ stage' = [stage EXCEPT ![s] = "failed"]
            /\ UNCHANGED net
  BY <1>1 DEF ExportState
<1>4. /\ \A p \in Procs \ {s} : state'[p] = state[p] /\ stage'[p] = stage[p]
      /\ state'[s] = b /\ stage'[s] \in {"prepared", "failed"}
  BY <1>3 DEF HandoverTypes
<1>5. /\ state[s] = None /\ ~active[s] /\ peer[s] # None /\ peer[s] # s /\ review[s] = None
      /\ s = First \/ target[s] = "accepted"
  BY <1>3 DEF Control, OwnerHolds
<1>6. Entered(s) /\ Holds(s)
  BY <1>5 DEF Entered, Holds
<1>7. \A p \in Procs : OwnerHolds(p)'
  <2>1. \A p \in Procs \ {s} : OwnerHolds(p)'
    BY <1>3, <1>4, Kept
  <2>2. OwnerHolds(s)'
    BY <1>2, <1>3, <1>4, <1>5 DEF OwnerHolds
  <2> QED
    BY <2>1, <2>2
<1>8. \A p \in Procs : ExitHolds(p)'
  <2>1. \A p \in Procs \ {s} : ExitHolds(p)'
    BY <1>3, <1>4, Kept
  <2>2. ExitHolds(s)'
    BY <1>3, <1>5 DEF Control, ExitHolds
  <2> QED
    BY <2>1, <2>2
<1>9. \A p \in Procs : FreezeHolds(p)'
  <2>1. \A p \in Procs \ {s} : FreezeHolds(p)'
    BY <1>3, <1>4, Kept
  <2>2. FreezeHolds(s)'
    BY <1>3, <1>4 DEF Control, FreezeHolds, Shut
  <2> QED
    BY <2>1, <2>2
<1>10. \A p \in Procs : SuccessorHolds(p)'
  BY <1>3, <1>4, <1>5, Kept
<1>11. TokenHolds'
  <2>1. ASSUME NEW p \in Procs, Holds(p)' PROVE p = s
    <3>1. ASSUME p # s PROVE Holds(p)
      BY <1>3, <1>4, <2>1, <3>1 DEF Holds, Entered
    <3> QED
      BY <1>6, <3>1 DEF Control, TokenHolds
  <2>2. ASSUME NEW t \in Procs, NEW q \in Procs, target[t] # "none", state'[t] = None,
               peer[q] = t, state'[q] # None
        PROVE  q = expected[t]
    <3>1. t # s /\ state[t] = None
      BY <1>2, <1>4, <2>2
    <3>2. Holds(t)
      BY <2>2, <3>1 DEF Holds, Entered
    <3> QED
      BY <1>6, <3>1, <3>2 DEF Control, TokenHolds
  <2> QED
    BY <1>3, <2>1, <2>2 DEF TokenHolds
<1>12. NetHolds'
  <2>1. ASSUME NEW m \in net', m \in net, m.type = "fin"
        PROVE  /\ m.from \in Procs /\ state'[m.from] # None /\ m.state = state'[m.from]
               /\ m.id = peer'[m.from]
    BY <1>3, <1>4, <1>5, <2>1 DEF Control, NetHolds
  <2>2. ASSUME NEW m \in net', m \notin net
        PROVE  /\ m.type = "fin" /\ m.from \in Procs /\ state'[m.from] # None
               /\ m.state = state'[m.from] /\ m.id = peer'[m.from]
    BY <1>2, <1>3, <1>4, <2>2
  <2>3. ASSUME NEW m \in net', m \in net, m.type # "fin"
        PROVE  /\ m.type = "request" => m.from \in Procs
               /\ m.type = "ack" => m.from \in Procs /\ target'[m.from] = "accepted"
                                    /\ m.state = tstate'[m.from]
    BY <1>3, <2>3 DEF Control, NetHolds
  <2> QED
    BY <2>1, <2>2, <2>3 DEF NetHolds
<1> QED
  BY <1>7, <1>8, <1>9, <1>10, <1>11, <1>12 DEF Control

LEMMA ReleaseControl ==
    ASSUME HandoverTypes, Control, Release
    PROVE  Control'
<1> USE DEF source, successor, application, streams, subscriber, faults
<1>1. ASSUME NEW s \in Procs, FinRetries(s) PROVE Control'
  <2>1. /\ UNCHANGED <<streams, next, subscriber, toPassive, application, active, review, peer,
                       stage, state, exit, successor, left>>
        /\ stage[s] = "prepared" /\ net' = net \cup {Fin(s)}
    BY <1>1 DEF FinRetries
  <2>2. state[s] # None
    BY <2>1 DEF Control, OwnerHolds
  <2>3. /\ \A p \in Procs : OwnerHolds(p)' /\ ExitHolds(p)' /\ FreezeHolds(p)' /\ SuccessorHolds(p)'
        /\ TokenHolds'
    BY <2>1, Untouched
  <2>4. NetHolds'
    BY <2>1, <2>2 DEF Control, NetHolds, Fin
  <2> QED
    BY <2>3, <2>4 DEF Control
<1>2. ASSUME NEW s \in Procs, NEW clean \in BOOLEAN, FinishSource(s, clean) PROVE Control'
  <2>1. /\ UNCHANGED <<streams, next, subscriber, toPassive, application, active, review, peer,
                       stage, state, successor, left, net>>
        /\ exit[s] = "finishing"
        /\ \/ exit' = [exit EXCEPT ![s] = "clean"] /\ accepted[s] = {}
           \/ exit' = [exit EXCEPT ![s] = "incomplete"]
    BY <1>2 DEF FinishSource, Drained
  <2>2. /\ \A p \in Procs : OwnerHolds(p)' /\ FreezeHolds(p)' /\ SuccessorHolds(p)'
        /\ TokenHolds' /\ NetHolds'
    BY <2>1, Untouched
  <2>3. \A p \in Procs \ {s} : exit'[p] = exit[p]
    BY <2>1 DEF HandoverTypes
  <2>4. \A p \in Procs \ {s} : ExitHolds(p)'
    BY <2>1, <2>3, Kept
  <2>5. ExitHolds(s)'
    BY <2>1 DEF Control, ExitHolds, HandoverTypes
  <2> QED
    BY <2>2, <2>4, <2>5 DEF Control
<1> QED
  BY <1>1, <1>2, ReviewControl, FreezeControl, ExportControl DEF Release

TakingOver(t) == target[t] \in {"preparing", "applying", "activating"}

\* A process that is taking over has the inputs, and is no source.
LEMMA Successor ==
    ASSUME HandoverTypes, Control, NEW t \in Procs, TakingOver(t)
    PROVE  /\ t # First /\ ~active[t] /\ review[t] = None /\ peer[t] = None /\ stage[t] = "no"
           /\ state[t] = None /\ exit[t] \notin {"finishing", "clean"} /\ Holds(t)
           /\ expected[t] \in Procs \ {t} /\ state[expected[t]] # None /\ peer[expected[t]] = t
           /\ tstate[t] = state[expected[t]] /\ tstate[t] \in States
<1>1. /\ expected[t] \in Procs /\ state[expected[t]] # None /\ peer[expected[t]] = t
      /\ tstate[t] = state[expected[t]]
  BY DEF Control, SuccessorHolds, TakingOver
<1>2. t # First
  BY <1>1, HandoverConstants DEF Control, SuccessorHolds
<1>3. ~active[t] /\ review[t] = None /\ stage[t] = "no"
  BY <1>2 DEF Control, OwnerHolds, TakingOver
<1>4. peer[t] = None /\ state[t] = None
  BY <1>3 DEF Control, OwnerHolds
<1>5. exit[t] \notin {"finishing", "clean"}
  BY <1>4 DEF Control, ExitHolds
<1>6. Holds(t)
  BY <1>4 DEF Holds, Entered, TakingOver
<1>7. tstate[t] \in States
  BY <1>1 DEF HandoverTypes
<1> QED
  BY <1>1, <1>2, <1>3, <1>4, <1>5, <1>6, <1>7

\* What a step of the takeover by t leaves alone.
OthersKept(t) ==
    /\ UNCHANGED <<review, peer, stage, state, exit, expected, tstate, accepted, inFlight,
                   inputFailed>>
    /\ \A p \in Procs \ {t} :
         /\ active'[p] = active[p] /\ target'[p] = target[p] /\ left'[p] = left[p]
         /\ toPassive'[p] = toPassive[p]
         /\ \A x \in Proxies : /\ subActive'[p][x] = subActive[p][x]
                               /\ resume'[p][x] = resume[p][x]

\* A step of a takeover keeps what is said of the other processes.
LEMMA TakeOverKept ==
    ASSUME HandoverTypes, Control, NEW t \in Procs, TakingOver(t),
           OthersKept(t)
    PROVE  /\ \A p \in Procs \ {t} : OwnerHolds(p)' /\ FreezeHolds(p)' /\ SuccessorHolds(p)'
           /\ \A p \in Procs : ExitHolds(p)'
           /\ (active'[t] => target'[t] = "accepted") => OwnerHolds(t)'
           /\ FreezeHolds(t)'
           /\ target'[t] # "none" => TokenHolds'
           /\ net' = net => NetHolds'
<1> USE Successor DEF OthersKept
<1>1. \A p \in Procs \ {t} : OwnerHolds(p)' /\ FreezeHolds(p)' /\ SuccessorHolds(p)'
  BY Kept
<1>2. ASSUME NEW p \in Procs PROVE ExitHolds(p)'
  <2>1. CASE state[p] = None
    BY <2>1 DEF Control, ExitHolds
  <2>2. CASE state[p] # None
    <3>1. peer[p] \in Procs
      BY <2>2, Source
    <3>2. target[peer[p]] = "accepted" => peer[p] # t
      BY DEF TakingOver
    <3> QED
      BY <3>1, <3>2, Kept
  <2> QED
    BY <2>1, <2>2
<1>3. (active'[t] => target'[t] = "accepted") => OwnerHolds(t)'
  BY DEF OwnerHolds
<1>4. FreezeHolds(t)'
  BY DEF FreezeHolds
<1>5. ASSUME target'[t] # "none" PROVE TokenHolds'
  <2>1. \A p \in Procs : target'[p] = "none" <=> target[p] = "none"
    BY <1>5 DEF TakingOver
  <2> QED
    BY <2>1, Untouched
<1>6. ASSUME net' = net PROVE NetHolds'
  BY <1>6 DEF Control, NetHolds, TakingOver
<1> QED
  BY <1>1, <1>2, <1>3, <1>4, <1>5, <1>6

LEMMA PrepareControl ==
    ASSUME HandoverTypes, Control, NEW t \in Procs, PrepareProxy(t)
    PROVE  Control'
<1> USE DEF source, successor, application, streams, subscriber, faults
<1>1. target[t] = "preparing" /\ TakingOver(t) /\ left[t] # {}
  BY DEF PrepareProxy, TakingOver, Control, SuccessorHolds
<1>2. UNCHANGED <<review, peer, stage, state, exit, expected, tstate, accepted, inFlight,
                  inputFailed, active, toPassive, subActive, net>>
  BY DEF PrepareProxy
<1>3. tstate[t] # None
  BY <1>1, Successor, HandoverConstants
<1>4. PICK x \in left[t], skip \in {Refused} \cup Nat :
        /\ Updated(resume', resume, t, x, skip)
        /\ left' = [left EXCEPT ![t] = IF skip = Refused THEN {} ELSE left[t] \ {x}]
        /\ target' = [target EXCEPT ![t] =
                        IF skip = Refused THEN "none"
                        ELSE IF left[t] \ {x} = {} THEN "applying" ELSE "preparing"]
  BY <1>1, <1>3, PrepareProxyEffect
<1>5. /\ \A p \in Procs \ {t} : /\ target'[p] = target[p] /\ left'[p] = left[p]
                                /\ \A y \in Proxies : resume'[p][y] = resume[p][y]
      /\ left'[t] = (IF skip = Refused THEN {} ELSE left[t] \ {x})
      /\ target'[t] = IF skip = Refused THEN "none"
                      ELSE IF left[t] \ {x} = {} THEN "applying" ELSE "preparing"
      /\ \A y \in Proxies : resume'[t][y] = IF y = x THEN skip ELSE resume[t][y]
  BY <1>4 DEF Updated, HandoverTypes
<1>6. /\ \A p \in Procs \ {t} : OwnerHolds(p)' /\ FreezeHolds(p)' /\ SuccessorHolds(p)'
      /\ \A p \in Procs : ExitHolds(p)'
      /\ OwnerHolds(t)' /\ FreezeHolds(t)' /\ NetHolds'
      /\ target'[t] # "none" => TokenHolds'
  <2>1. OthersKept(t)
    BY <1>2, <1>5 DEF OthersKept
  <2>2. ~active'[t]
    BY <1>1, <1>2, Successor
  <2> QED
    BY <1>1, <1>2, <2>1, <2>2, TakeOverKept
<1>7. SuccessorHolds(t)'
  <2>1. \A y \in Proxies : Shut(t, y)'
    BY <1>1, <1>2 DEF Control, SuccessorHolds, NotOpened, Shut
  <2>2. t # First /\ expected[t] \in Procs /\ state[expected[t]] # None /\ peer[expected[t]] = t
        /\ tstate[t] = state[expected[t]]
    BY <1>1, Successor
  <2>3. target'[t] = "preparing" => left'[t] # {}
    BY <1>5
  <2>4. target'[t] # "activating"
    BY <1>5
  <2>5. ASSUME NEW y \in Proxies, Prepared(t, y)' PROVE resume'[t][y] # Refused
    <3>1. skip # Refused
      BY <1>5, <2>5 DEF Prepared
    <3>2. CASE y = x
      BY <1>5, <3>1, <3>2
    <3>3. CASE y # x
      <4>1. y \in Proxies \ left[t]
        BY <1>5, <2>5, <3>1, <3>3 DEF Prepared
      <4> QED
        BY <1>1, <1>5, <3>3, <4>1 DEF Control, SuccessorHolds, Prepared
    <3> QED
      BY <3>2, <3>3
  <2> QED
    BY <1>2, <2>1, <2>2, <2>3, <2>4, <2>5 DEF SuccessorHolds
<1>8. ASSUME target'[t] = "none" PROVE TokenHolds'
  <2>1. PICK e \in Procs : e = expected[t]
    BY <1>1, Successor
  <2>2. ASSUME NEW p \in Procs, Holds(p)' PROVE p = e
    <3>1. p # t
      BY <1>1, <1>8, <2>2, Successor DEF Holds, Entered
    <3>2. Entered(p)
      BY <1>5, <2>2, <3>1 DEF Holds, Entered
    <3>3. ~Holds(p)
      BY <1>1, <3>1, Successor DEF Control, TokenHolds
    <3>4. state[p] # None /\ target[peer[p]] # "none"
      BY <3>2, <3>3 DEF Holds
    <3>5. peer[p] \in Procs /\ target'[peer[p]] = "none"
      BY <1>2, <2>2, <3>4, Source DEF Holds
    <3>6. peer[p] = t
      BY <1>5, <3>4, <3>5
    <3> QED
      BY <1>1, <2>1, <3>4, <3>6, Successor DEF Control, TokenHolds
  <2>3. \A u, q \in Procs : target'[u] # "none" /\ state[u] = None /\ peer[q] = u /\ state[q] # None
          => q = expected[u]
    <3>1. \A u \in Procs : target'[u] # "none" => target[u] # "none"
      BY <1>1, <1>5
    <3> QED
      BY <3>1 DEF Control, TokenHolds
  <2> QED
    BY <1>2, <2>2, <2>3 DEF TokenHolds
<1> QED
  BY <1>6, <1>7, <1>8 DEF Control

LEMMA ImportControl ==
    ASSUME HandoverTypes, Control, NEW t \in Procs, ImportState(t) \/ ImportFails(t)
    PROVE  Control'
<1> USE DEF source, successor, application, streams, subscriber, faults
<1>1. target[t] = "applying" /\ TakingOver(t)
  BY DEF ImportState, ImportFails, TakingOver
<1>2. UNCHANGED <<review, peer, stage, state, exit, expected, tstate, accepted, inFlight,
                  inputFailed, active, subActive, resume, net>>
  BY DEF ImportState, ImportFails
<1>3. \/ /\ target' = [target EXCEPT ![t] = "activating"]
         /\ left' = [left EXCEPT ![t] = Proxies] /\ UNCHANGED toPassive
      \/ /\ target' = [target EXCEPT ![t] = "failed"] /\ UNCHANGED left
         /\ UNCHANGED toPassive \/ toPassive' = [toPassive EXCEPT ![t] = Proxies]
  BY DEF ImportState, ImportFails
<1>4. /\ \A p \in Procs \ {t} : target'[p] = target[p] /\ left'[p] = left[p]
                                /\ toPassive'[p] = toPassive[p]
      /\ \/ target'[t] = "activating" /\ left'[t] = Proxies
         \/ target'[t] = "failed"
  BY <1>3 DEF HandoverTypes
<1>5. /\ \A p \in Procs \ {t} : OwnerHolds(p)' /\ FreezeHolds(p)' /\ SuccessorHolds(p)'
      /\ \A p \in Procs : ExitHolds(p)'
      /\ OwnerHolds(t)' /\ FreezeHolds(t)' /\ NetHolds' /\ TokenHolds'
  <2>1. OthersKept(t)
    BY <1>2, <1>4 DEF OthersKept
  <2>2. ~active'[t] /\ target'[t] # "none"
    BY <1>1, <1>2, <1>4, Successor
  <2> QED
    BY <1>1, <1>2, <2>1, <2>2, TakeOverKept
<1>6. SuccessorHolds(t)'
  <2>1. /\ \A y \in Proxies : Shut(t, y)'
        /\ \A y \in Proxies : resume'[t][y] # Refused
    BY <1>1, <1>2 DEF Control, SuccessorHolds, NotOpened, Prepared, Shut
  <2>2. t # First /\ expected[t] \in Procs /\ state[expected[t]] # None /\ peer[expected[t]] = t
        /\ tstate[t] = state[expected[t]]
    BY <1>1, Successor
  <2> QED
    BY <1>2, <1>4, <2>1, <2>2, HandoverAssumption DEF SuccessorHolds
<1> QED
  BY <1>5, <1>6 DEF Control

LEMMA ActivateControl ==
    ASSUME HandoverTypes, Control, NEW t \in Procs, ActivateProxy(t) \/ ActivationFails(t)
    PROVE  Control'
<1> USE DEF source, successor, application, streams, subscriber, faults
<1>1. target[t] = "activating" /\ TakingOver(t) /\ left[t] # {}
  BY DEF ActivateProxy, ActivationFails, TakingOver, Control, SuccessorHolds
<1>2. UNCHANGED <<review, peer, stage, state, exit, expected, tstate, accepted, inFlight,
                  inputFailed>>
  BY DEF ActivateProxy, ActivationFails
<1>3. PICK x : x = FirstOf(left[t])
  OBVIOUS
<1>4. x \in left[t] /\ x \in Proxies
  BY <1>1, <1>3, FirstOfMember DEF HandoverTypes
<1>5. resume[t][x] # Refused
  BY <1>1, <1>4 DEF Control, SuccessorHolds, Prepared
<1>6. Resumed(t, x) \/ UNCHANGED <<queue, resume, subActive>>
  BY <1>3 DEF ActivateProxy, ActivationFails
<1>7. \A p \in Procs, y \in Proxies : p # t \/ y # x =>
        subActive'[p][y] = subActive[p][y] /\ resume'[p][y] = resume[p][y]
  <2>1. CASE Resumed(t, x)
    <3>1. Updated(resume', resume, t, x, Refused) /\ Updated(subActive', subActive, t, x, TRUE)
      BY <1>4, <1>5, <2>1, ResumedEffect
    <3>2. ASSUME NEW p \in Procs, NEW y \in Proxies, p # t \/ y # x
          PROVE  subActive'[p][y] = subActive[p][y] /\ resume'[p][y] = resume[p][y]
      BY <3>1, <3>2 DEF Updated
    <3> QED
      BY <3>2
  <2> QED
    BY <1>6, <2>1
<1>8. CASE ActivateProxy(t)
  <2>1. PICK last \in BOOLEAN : last = (left[t] = {x})
    OBVIOUS
  <2>2. /\ left' = [left EXCEPT ![t] = @ \ {x}]
        /\ target' = [target EXCEPT ![t] = IF last THEN "accepted" ELSE @]
        /\ active' = [active EXCEPT ![t] = @ \/ last]
        /\ net' = (IF last THEN net \cup {Ack(t)} ELSE net)
        /\ UNCHANGED toPassive
    BY <1>3, <1>8, <2>1 DEF ActivateProxy
  <2>3. /\ \A p \in Procs \ {t} : target'[p] = target[p] /\ left'[p] = left[p]
                                  /\ active'[p] = active[p]
        /\ left'[t] = left[t] \ {x}
        /\ target'[t] = (IF last THEN "accepted" ELSE "activating")
        /\ active'[t] = last
    <3>1. /\ \A p \in Procs \ {t} : target'[p] = target[p] /\ left'[p] = left[p]
                                    /\ active'[p] = active[p]
          /\ left'[t] = left[t] \ {x}
          /\ target'[t] = (IF last THEN "accepted" ELSE "activating")
          /\ active'[t] = (active[t] \/ last)
      BY <1>1, <2>2 DEF HandoverTypes
    <3> QED
      BY <1>1, <3>1, Successor
  <2>4. /\ \A p \in Procs \ {t} : OwnerHolds(p)' /\ FreezeHolds(p)' /\ SuccessorHolds(p)'
        /\ \A p \in Procs : ExitHolds(p)'
        /\ OwnerHolds(t)' /\ FreezeHolds(t)' /\ TokenHolds'
        /\ net' = net => NetHolds'
    <3>1. OthersKept(t)
      BY <1>2, <1>7, <2>2, <2>3 DEF OthersKept
    <3>2. (active'[t] => target'[t] = "accepted") /\ target'[t] # "none"
      BY <2>3
    <3> QED
      BY <1>1, <3>1, <3>2, TakeOverKept
  <2>5. NetHolds'
    <3>1. CASE ~last
      BY <2>2, <2>4, <3>1
    <3>2. CASE last
      <4>1. \A p \in Procs : target[p] = "accepted" => target'[p] = "accepted"
        BY <1>1, <2>3
      <4>2. target'[t] = "accepted" /\ net' = net \cup {Ack(t)}
        BY <2>2, <2>3, <3>2
      <4> QED
        BY <1>2, <4>1, <4>2 DEF Control, NetHolds, Ack
    <3> QED
      BY <3>1, <3>2
  <2>6. SuccessorHolds(t)'
    <3>1. \A y \in left[t] \ {x} : Shut(t, y)' /\ resume'[t][y] # Refused
      <4>1. \A y \in left[t] : y \in Proxies /\ Shut(t, y) /\ resume[t][y] # Refused
        BY <1>1 DEF Control, SuccessorHolds, NotOpened, Prepared, HandoverTypes
      <4> QED
        BY <1>2, <1>7, <4>1 DEF Shut
    <3>2. t # First /\ expected[t] \in Procs /\ state[expected[t]] # None /\ peer[expected[t]] = t
          /\ tstate[t] = state[expected[t]]
      BY <1>1, Successor
    <3>3. target'[t] = "activating" => left'[t] # {}
      BY <1>4, <2>1, <2>3
    <3>4. \A y \in Proxies : NotOpened(t, y)' \/ Prepared(t, y)' => y \in left[t] \ {x}
      BY <2>3, <3>2 DEF NotOpened, Prepared, Entered
    <3> QED
      BY <1>2, <2>3, <3>1, <3>2, <3>3, <3>4 DEF SuccessorHolds
  <2> QED
    BY <2>4, <2>5, <2>6 DEF Control
<1>9. CASE ActivationFails(t)
  <2>1. /\ target' = [target EXCEPT ![t] = "failed"] /\ UNCHANGED <<left, active, net>>
        /\ toPassive' = [toPassive EXCEPT ![t] = Proxies]
    BY <1>9 DEF ActivationFails
  <2>2. /\ \A p \in Procs \ {t} : target'[p] = target[p] /\ toPassive'[p] = toPassive[p]
        /\ target'[t] = "failed"
    BY <2>1 DEF HandoverTypes
  <2>3. /\ \A p \in Procs \ {t} : OwnerHolds(p)' /\ FreezeHolds(p)' /\ SuccessorHolds(p)'
        /\ \A p \in Procs : ExitHolds(p)'
        /\ OwnerHolds(t)' /\ FreezeHolds(t)' /\ TokenHolds' /\ NetHolds'
    <3>1. OthersKept(t)
      BY <1>2, <1>7, <2>1, <2>2 DEF OthersKept
    <3>2. ~active'[t] /\ target'[t] # "none"
      BY <1>1, <2>1, <2>2, Successor
    <3> QED
      BY <1>1, <2>1, <3>1, <3>2, TakeOverKept
  <2>4. SuccessorHolds(t)'
    <3>1. t # First /\ expected[t] \in Procs /\ state[expected[t]] # None /\ peer[expected[t]] = t
          /\ tstate[t] = state[expected[t]]
      BY <1>1, Successor
    <3> QED
      BY <1>2, <2>2, <3>1 DEF SuccessorHolds, NotOpened, Prepared, Entered
  <2> QED
    BY <2>3, <2>4 DEF Control
<1> QED
  BY <1>8, <1>9

-----------------------------------------------------------------------------
(* Who takes input.                                                        *)

LEMMA ControlInit == Init => Control
<1> SUFFICES ASSUME Init PROVE Control
  OBVIOUS
<1>1. \A p \in Procs :
        /\ active[p] = (p = First) /\ review[p] = None /\ peer[p] = None /\ stage[p] = "no"
        /\ state[p] = None /\ exit[p] = "no" /\ expected[p] = None /\ target[p] = "none"
        /\ \A x \in Proxies : subActive[p][x] = (p = First) /\ inFlight[p][x] = 0
                              /\ inputFailed[p][x] = FALSE
  BY DEF Init, PerProxy
<1>2. net = {}
  BY DEF Init
<1>3. \A p \in Procs : OwnerHolds(p) /\ ExitHolds(p) /\ FreezeHolds(p)
  BY <1>1 DEF OwnerHolds, ExitHolds, FreezeHolds
<1>4. \A p \in Procs : SuccessorHolds(p)
  BY <1>1 DEF SuccessorHolds, NotOpened, Prepared, Shut, Entered
<1>5. TokenHolds
  BY <1>1 DEF TokenHolds, Holds, Entered
<1> QED
  BY <1>2, <1>3, <1>4, <1>5 DEF Control, NetHolds

LEMMA ControlStep == HandoverTypes /\ Control /\ [Next]_vars => Control'
<1> SUFFICES ASSUME HandoverTypes, Control, [Next]_vars PROVE Control'
  OBVIOUS
<1>1. CASE UNCHANGED vars
  <2>1. UNCHANGED <<active, review, peer, stage, state, exit, expected, target, tstate, left, net,
                    toPassive, subActive, inFlight, inputFailed, resume, accepted>>
    BY <1>1 DEF vars, source, successor, application, streams, subscriber, faults
  <2> QED
    BY <2>1, Untouched DEF Control
<1>2. CASE Next
  <2>1. CASE TakeOver
    BY <2>1, PrepareControl, ImportControl, ActivateControl DEF TakeOver
  <2>2. CASE Message
    BY <2>2, AskControl, RequestControl, FinControl, AckControl DEF Message
  <2> QED
    BY <1>2, <2>1, <2>2, InputControl, AskControl, ReleaseControl DEF Next
<1> QED
  BY <1>1, <1>2

\* The types, and who has the inputs, whatever happened.
THEOREM HandoverInvariant == Spec => [](HandoverTypes /\ Control)
<1>1. HandoverTypes /\ Control /\ [Next]_vars => (HandoverTypes /\ Control)'
  BY HandoverTypesStep, ControlStep
<1> QED
  BY <1>1, HandoverTypesInit, ControlInit, PTL DEF Spec

\* Only the process that has the inputs takes any.
LEMMA ConsumerHolds ==
    ASSUME HandoverTypes, Control, NEW p \in Procs, Consumes(p)
    PROVE  Holds(p)
<1>1. PICK x \in Proxies : subActive[p][x] \/ inFlight[p][x] # 0
  BY DEF Consumes
<1>2. ~Shut(p, x)
  BY <1>1 DEF Shut
<1>3. state[p] = None
  BY <1>2 DEF Control, FreezeHolds
<1>4. Entered(p)
  BY <1>2 DEF Control, SuccessorHolds, NotOpened
<1> QED
  BY <1>3, <1>4 DEF Holds

\* At no moment do two processes take input, for any number of processes and
\* proxies and whatever is lost, repeated, late or failing.
THEOREM OneConsumer == Spec => []SingleConsumer
<1>1. HandoverTypes /\ Control => SingleConsumer
  BY ConsumerHolds DEF SingleConsumer, Control, TokenHolds
<1> QED
  BY <1>1, HandoverInvariant, PTL

\* A source that ends cleanly has been taken over, by the peer it chose, with
\* exactly the state it sent, and has no work left.
THEOREM CleanEndIsTaken == Spec => []CleanEndMeansTaken
<1>1. HandoverTypes /\ Control => CleanEndMeansTaken
  BY DEF CleanEndMeansTaken, Control, ExitHolds
<1> QED
  BY <1>1, HandoverInvariant, PTL

-----------------------------------------------------------------------------
(* The queues.                                                             *)

\* The position of the first packet in the queue.
Front(p, x) == next[p][x] - Len(queue[p][x])

\* The packets queued for a process are a stretch of the stream that reaches up
\* to the next delivery; the packet in flight is the one before them.
QueueHolds(p, x) ==
    /\ next[p][x] = 0 => queue[p][x] = <<>> /\ inFlight[p][x] = 0
    /\ next[p][x] # 0 => Front(p, x) >= 1
    /\ \A i \in 1..Len(queue[p][x]) : queue[p][x][i] = Front(p, x) + i - 1
    /\ inFlight[p][x] # 0 => inFlight[p][x] = Front(p, x) - 1
    /\ inputFailed[p][x] => ~subActive[p][x] /\ queue[p][x] # <<>> /\ inFlight[p][x] = 0
    /\ NotOpened(p, x) => tail[p][x] = <<>>
    /\ Prepared(p, x) => resume[p][x] \in 0..Len(queue[p][x])

Queues == \A p \in Procs, x \in Proxies : QueueHolds(p, x)

\* What the subscriber keeps of x is left alone.
InputKept(p, x) ==
    /\ next'[p][x] = next[p][x] /\ queue'[p][x] = queue[p][x]
    /\ subActive'[p][x] = subActive[p][x] /\ inFlight'[p][x] = inFlight[p][x]
    /\ inputFailed'[p][x] = inputFailed[p][x] /\ tail'[p][x] = tail[p][x]

LEMMA QueueKept ==
    ASSUME Queues, NEW p \in Procs, NEW x \in Proxies, InputKept(p, x),
           NotOpened(p, x)' => NotOpened(p, x),
           Prepared(p, x)' => Prepared(p, x) /\ resume'[p][x] = resume[p][x]
    PROVE  QueueHolds(p, x)'
BY DEF Queues, QueueHolds, InputKept, Front

\* A process with an open input has the inputs.
LEMMA Opened ==
    ASSUME HandoverTypes, Control, NEW p \in Procs, NEW x \in Proxies, ~Shut(p, x)
    PROVE  /\ Holds(p) /\ state[p] = None /\ Entered(p) /\ ~NotOpened(p, x)
           /\ target[p] # "none" => p # First
           /\ target[p] \notin {"preparing", "applying"} /\ ~Prepared(p, x)
<1>1. state[p] = None
  BY DEF Control, FreezeHolds
<1>2. ~NotOpened(p, x)
  BY DEF Control, SuccessorHolds
<1>3. target[p] # "none" => p # First
  BY HandoverConstants DEF Control, SuccessorHolds
<1> QED
  BY <1>1, <1>2, <1>3 DEF NotOpened, Prepared, Holds, Entered

\* Only who prepares has prepared, and has opened nothing that it prepared.
LEMMA PreparedShut ==
    ASSUME HandoverTypes, Control, NEW p \in Procs, NEW x \in Proxies, Prepared(p, x)
    PROVE  TakingOver(p) /\ NotOpened(p, x) /\ Shut(p, x)
<1>1. TakingOver(p) /\ NotOpened(p, x)
  BY DEF Prepared, TakingOver, NotOpened
<1> QED
  BY <1>1 DEF Control, SuccessorHolds

\* The numbers of a queue.
LEMMA QueueTypes ==
    ASSUME HandoverTypes, NEW p \in Procs, NEW x \in Proxies
    PROVE  /\ next[p][x] \in Nat /\ Len(queue[p][x]) \in Nat /\ Front(p, x) \in Int
           /\ inFlight[p][x] \in Nat /\ queue[p][x] \in Seq(Positions)
           /\ tail[p][x] \in Seq(Positions)
           /\ queue[p][x] # <<>> => Len(queue[p][x]) > 0
           /\ queue[p][x] = <<>> => Len(queue[p][x]) = 0
<1>1. /\ next[p][x] \in 0..(MaxInputs + 1) /\ inFlight[p][x] \in 0..MaxInputs
      /\ queue[p][x] \in Seq(Positions) /\ tail[p][x] \in Seq(Positions)
  BY DEF HandoverTypes
<1>2. Len(queue[p][x]) \in Nat /\ (queue[p][x] # <<>> => Len(queue[p][x]) > 0)
      /\ (queue[p][x] = <<>> => Len(queue[p][x]) = 0)
  BY <1>1, EmptySeq
<1>3. next[p][x] \in Nat /\ inFlight[p][x] \in Nat
  BY <1>1
<1> QED
  BY <1>1, <1>2, <1>3 DEF Front

LEMMA SubscribeQueue ==
    ASSUME HandoverTypes, Control, Queues, NEW p \in Procs, NEW x \in Proxies, Subscribe(p, x),
           NotOpened(p, x)' => NotOpened(p, x), ~Prepared(p, x)' \/ Prepared(p, x)
    PROVE  QueueHolds(p, x)'
<1>1. next[p][x] = 0 /\ queue[p][x] = <<>> /\ inFlight[p][x] = 0 /\ QueueHolds(p, x)
  BY DEF Subscribe, Queues, QueueHolds
<1>2. UNCHANGED <<queue, inFlight, inputFailed, subActive, tail, resume>>
  BY DEF Subscribe, subscriber
<1>3. next'[p][x] = published[x] + 1 /\ published[x] \in Nat
  <2>1. Updated(next', next, p, x, published[x] + 1)
    BY SubscribeEffect
  <2>2. published[x] \in Nat
    BY DEF HandoverTypes
  <2> QED
    BY <2>1, <2>2 DEF Updated
<1>4. Front(p, x)' = next'[p][x] - Len(queue'[p][x])
  BY DEF Front
<1>5. Len(queue[p][x]) = 0
  BY <1>1
<1>6. next'[p][x] # 0 /\ Front(p, x)' >= 1 /\ 1..Len(queue[p][x]) = {}
  BY <1>2, <1>3, <1>4, <1>5
<1> QED
  BY <1>1, <1>2, <1>6 DEF QueueHolds

LEMMA DeliverQueue ==
    ASSUME HandoverTypes, Control, Queues, NEW p \in Procs, NEW x \in Proxies, Deliver(p, x),
           NotOpened(p, x)' => NotOpened(p, x), ~Prepared(p, x)' \/ Prepared(p, x)
    PROVE  QueueHolds(p, x)' /\ Front(p, x)' = Front(p, x)
<1> USE QueueTypes
<1>1. QueueHolds(p, x) /\ next[p][x] # 0
  BY DEF Deliver, Queues
<1>2. UNCHANGED <<inFlight, inputFailed, subActive, tail, resume>>
  BY DEF Deliver
<1>3. next'[p][x] = next[p][x] + 1 /\ queue'[p][x] = Append(queue[p][x], next[p][x])
      /\ next[p][x] \in Positions
  BY DeliverEffect DEF Updated
<1>4. PICK n : n = Len(queue[p][x])
  OBVIOUS
<1>5. /\ Len(queue'[p][x]) = n + 1 /\ queue'[p][x][n + 1] = next[p][x]
      /\ \A i \in 1..n : queue'[p][x][i] = queue[p][x][i]
  BY <1>3, <1>4, AppendProperties
<1>6. Front(p, x)' = Front(p, x) /\ Front(p, x) + n = next[p][x]
  <2>1. PICK a : a = next[p][x]
    OBVIOUS
  <2>2. a \in Nat /\ n \in Nat
    BY <1>3, <1>4, <2>1 DEF Positions
  <2>3. Front(p, x) = a - n
    BY <1>4, <2>1 DEF Front
  <2>4. Front(p, x)' = (a + 1) - (n + 1)
    BY <1>3, <1>5, <2>1 DEF Front
  <2> HIDE QueueTypes
  <2>5. (a + 1) - (n + 1) = a - n /\ (a - n) + n = a
    BY <2>2
  <2> QED
    BY <2>1, <2>3, <2>4, <2>5
<1>7. \A i \in 1..Len(queue'[p][x]) : queue'[p][x][i] = Front(p, x)' + i - 1
  <2>1. ASSUME NEW i \in 1..(n + 1) PROVE queue'[p][x][i] = Front(p, x) + i - 1
    <3>1. CASE i = n + 1
      BY <1>4, <1>5, <1>6, <3>1
    <3>2. CASE i \in 1..n
      <4>1. queue[p][x][i] = Front(p, x) + i - 1
        BY <1>1, <1>4, <3>2 DEF QueueHolds
      <4> QED
        BY <1>5, <3>2, <4>1
    <3> QED
      BY <1>4, <3>1, <3>2
  <2> QED
    BY <1>5, <1>6, <2>1
<1>8. queue'[p][x] # <<>> /\ next'[p][x] # 0
  <2>1. Len(queue'[p][x]) # 0
    BY <1>4, <1>5
  <2> QED
    BY <1>3, <2>1
<1>9. Prepared(p, x)' => resume'[p][x] \in 0..Len(queue'[p][x])
  <2>1. Prepared(p, x) => resume[p][x] \in 0..n
    BY <1>1, <1>4 DEF QueueHolds
  <2>2. 0..n \subseteq 0..(n + 1)
    BY <1>4
  <2> QED
    BY <1>2, <1>5, <2>1, <2>2
<1>10. Front(p, x) >= 1
  BY <1>1 DEF QueueHolds
<1>11. inFlight[p][x] # 0 => inFlight[p][x] = Front(p, x) - 1
  BY <1>1 DEF QueueHolds
<1>12. /\ inputFailed[p][x] => ~subActive[p][x] /\ inFlight[p][x] = 0
       /\ NotOpened(p, x) => tail[p][x] = <<>>
  BY <1>1 DEF QueueHolds
<1> QED
  BY <1>2, <1>6, <1>7, <1>8, <1>9, <1>10, <1>11, <1>12 DEF QueueHolds

\* The head of the queue is taken.
LEMMA StartInputQueue ==
    ASSUME HandoverTypes, Control, Queues, NEW p \in Procs, NEW x \in Proxies, StartInput(p, x),
           NotOpened(p, x)' => NotOpened(p, x), ~Prepared(p, x)' \/ Prepared(p, x)
    PROVE  /\ QueueHolds(p, x)' /\ next[p][x] # 0
           /\ Head(queue[p][x]) = Front(p, x) /\ Front(p, x)' = Front(p, x) + 1
<1> USE QueueTypes
<1>1. /\ QueueHolds(p, x) /\ subActive[p][x] /\ inFlight[p][x] = 0 /\ queue[p][x] # <<>>
      /\ next[p][x] # 0
  BY DEF StartInput, Queues, QueueHolds
<1>2. UNCHANGED <<inputFailed, subActive, next, resume>>
  BY DEF StartInput
<1>3. ~Shut(p, x) /\ ~NotOpened(p, x) /\ ~Prepared(p, x) /\ ~inputFailed[p][x]
  BY <1>1, Opened DEF Shut, QueueHolds
<1>4. queue'[p][x] = Tail(queue[p][x])
      /\ (inFlight'[p][x] = Head(queue[p][x]) \/ UNCHANGED inFlight)
  BY StartInputEffect DEF Updated
<1>5. PICK n : n = Len(queue[p][x])
  OBVIOUS
<1>6. /\ Len(queue'[p][x]) = n - 1
      /\ \A i \in 1..(n - 1) : queue'[p][x][i] = queue[p][x][i + 1]
      /\ Head(queue[p][x]) = queue[p][x][1]
  BY <1>1, <1>4, <1>5, HeadTailProperties, EmptySeq
<1>7. n \in Nat \ {0}
  BY <1>1, <1>5
<1>8. \A i \in 1..n : queue[p][x][i] = Front(p, x) + i - 1
  BY <1>1, <1>5 DEF QueueHolds
<1>9. Head(queue[p][x]) = Front(p, x)
  <2>1. queue[p][x][1] = Front(p, x) + 1 - 1
    BY <1>7, <1>8
  <2> QED
    BY <1>6, <2>1
<1>10. Front(p, x)' = Front(p, x) + 1
  <2>1. Front(p, x)' = next[p][x] - (n - 1) /\ Front(p, x) = next[p][x] - n
    BY <1>2, <1>5, <1>6 DEF Front
  <2>2. next[p][x] \in Nat
    OBVIOUS
  <2>3. next[p][x] - (n - 1) = (next[p][x] - n) + 1
    BY <1>7, <2>2
  <2> QED
    BY <2>1, <2>3
<1>11. \A i \in 1..(n - 1) : queue'[p][x][i] = Front(p, x) + 1 + i - 1
  <2> SUFFICES ASSUME NEW i \in 1..(n - 1) PROVE queue'[p][x][i] = Front(p, x) + 1 + i - 1
    OBVIOUS
  <2>1. i + 1 \in 1..n
    BY <1>7
  <2>2. queue[p][x][i + 1] = Front(p, x) + (i + 1) - 1
    BY <1>8, <2>1
  <2> QED
    BY <1>6, <2>2
<1>12. Front(p, x) >= 1
  BY <1>1 DEF QueueHolds
<1>13. \A i \in 1..Len(queue'[p][x]) : queue'[p][x][i] = Front(p, x)' + i - 1
  BY <1>6, <1>10, <1>11
<1>14. next'[p][x] # 0 /\ Front(p, x)' >= 1
  BY <1>1, <1>2, <1>10, <1>12
<1>15. inFlight'[p][x] # 0 => inFlight'[p][x] = Front(p, x)' - 1
  <2>1. inFlight'[p][x] = Front(p, x) \/ inFlight'[p][x] = 0
    BY <1>1, <1>4, <1>9
  <2> QED
    BY <1>10, <2>1
<1> QED
  BY <1>1, <1>2, <1>3, <1>9, <1>10, <1>13, <1>14, <1>15 DEF QueueHolds

LEMMA FinishInputQueue ==
    ASSUME HandoverTypes, Control, Queues, NEW p \in Procs, NEW x \in Proxies, FinishInput(p, x),
           NotOpened(p, x)' => NotOpened(p, x), ~Prepared(p, x)' \/ Prepared(p, x)
    PROVE  QueueHolds(p, x)' /\ Front(p, x)' = Front(p, x)
<1>1. QueueHolds(p, x) /\ inFlight[p][x] # 0
  BY DEF FinishInput, Queues
<1>2. UNCHANGED <<next, queue, inputFailed, subActive, resume>>
  BY DEF FinishInput
<1>3. inFlight'[p][x] = 0
  BY FinishInputEffect DEF Updated
<1>4. ~Shut(p, x) /\ ~NotOpened(p, x) /\ ~Prepared(p, x)
  BY <1>1, Opened DEF Shut
<1>5. Front(p, x)' = Front(p, x)
  BY <1>2 DEF Front
<1> QED
  BY <1>1, <1>2, <1>3, <1>4, <1>5 DEF QueueHolds

\* The packet in flight goes back to the head of the queue.
LEMMA InputFailsQueue ==
    ASSUME HandoverTypes, Control, Queues, NEW p \in Procs, NEW x \in Proxies, InputFails(p, x),
           NotOpened(p, x)' => NotOpened(p, x), ~Prepared(p, x)' \/ Prepared(p, x)
    PROVE  /\ QueueHolds(p, x)' /\ Head(queue'[p][x]) = inFlight[p][x]
           /\ subActive'[p][x] = FALSE /\ inFlight'[p][x] = 0 /\ inputFailed'[p][x] = TRUE
<1> USE QueueTypes
<1>1. QueueHolds(p, x) /\ inFlight[p][x] # 0 /\ next[p][x] # 0
  BY DEF InputFails, Queues, QueueHolds
<1>2. UNCHANGED <<next, tail, resume>>
  BY DEF InputFails
<1>3. PICK i \in Positions : i = inFlight[p][x]
  BY InputFailsEffect
<1>4. /\ inFlight'[p][x] = 0 /\ subActive'[p][x] = FALSE /\ inputFailed'[p][x] = TRUE
      /\ queue'[p][x] = <<i>> \o queue[p][x]
  <2>1. /\ Updated(inFlight', inFlight, p, x, 0) /\ Updated(subActive', subActive, p, x, FALSE)
        /\ Updated(inputFailed', inputFailed, p, x, TRUE)
        /\ Updated(queue', queue, p, x, <<inFlight[p][x]>> \o queue[p][x])
    BY InputFailsEffect
  <2>2. /\ inFlight'[p][x] = 0 /\ subActive'[p][x] = FALSE /\ inputFailed'[p][x] = TRUE
    BY <2>1 DEF Updated
  <2>3. queue'[p][x] = <<inFlight[p][x]>> \o queue[p][x]
    BY <2>1 DEF Updated
  <2> QED
    BY <1>3, <2>2, <2>3
<1>5. ~Shut(p, x) /\ ~NotOpened(p, x) /\ ~Prepared(p, x)
  BY <1>1, Opened DEF Shut
<1>6. PICK n \in Nat : n = Len(queue[p][x])
  OBVIOUS
<1>7. /\ Len(queue'[p][x]) = n + 1 /\ queue'[p][x][1] = i
      /\ \A j \in 2..(n + 1) : queue'[p][x][j] = queue[p][x][j - 1]
      /\ queue'[p][x] \in Seq(Positions)
  <2>1. /\ <<i>> \in Seq(Positions) /\ Len(<<i>>) = 1 /\ <<i>>[1] = i
    OBVIOUS
  <2>2. /\ queue'[p][x] \in Seq(Positions) /\ Len(queue'[p][x]) = 1 + n
        /\ \A j \in 1..(1 + n) :
              queue'[p][x][j] = IF j <= 1 THEN <<i>>[j] ELSE queue[p][x][j - 1]
    BY <1>4, <1>6, <2>1, ConcatProperties
  <2>3. queue'[p][x][1] = i
    BY <2>1, <2>2
  <2>4. ASSUME NEW j \in 2..(n + 1) PROVE queue'[p][x][j] = queue[p][x][j - 1]
    <3>1. j \in 1..(1 + n) /\ ~(j <= 1)
      OBVIOUS
    <3> QED
      BY <2>2, <3>1
  <2>5. Len(queue'[p][x]) = n + 1
    BY <2>2
  <2> QED
    BY <2>2, <2>3, <2>4, <2>5
<1>8. i = Front(p, x) - 1 /\ i >= 1 /\ i \in Int
  BY <1>1, <1>3 DEF QueueHolds, Positions
<1>9. Front(p, x)' = Front(p, x) - 1
  <2>1. Front(p, x)' = next[p][x] - (n + 1) /\ Front(p, x) = next[p][x] - n
    BY <1>2, <1>6, <1>7 DEF Front
  <2>2. next[p][x] \in Nat
    OBVIOUS
  <2>3. next[p][x] - (n + 1) = (next[p][x] - n) - 1
    BY <2>2
  <2> QED
    BY <2>1, <2>3
<1>10. \A j \in 1..(n + 1) : queue'[p][x][j] = Front(p, x)' + j - 1
  <2> SUFFICES ASSUME NEW j \in 1..(n + 1) PROVE queue'[p][x][j] = Front(p, x)' + j - 1
    OBVIOUS
  <2>1. CASE j = 1
    BY <1>7, <1>8, <1>9, <2>1
  <2>2. CASE j # 1
    <3>1. j - 1 \in 1..n /\ j \in 2..(n + 1)
      BY <2>2
    <3>2. queue[p][x][j - 1] = Front(p, x) + (j - 1) - 1
      BY <1>1, <1>6, <3>1 DEF QueueHolds
    <3>3. Front(p, x) \in Int
      OBVIOUS
    <3>4. Front(p, x) + (j - 1) - 1 = (Front(p, x) - 1) + j - 1
      BY <3>3
    <3>5. queue'[p][x][j] = queue[p][x][j - 1]
      BY <1>7, <3>1
    <3> QED
      BY <1>9, <3>2, <3>4, <3>5
  <2> QED
    BY <2>1, <2>2
<1>11. queue'[p][x] # <<>> /\ Head(queue'[p][x]) = i
  <2>1. Len(queue'[p][x]) # 0
    BY <1>7
  <2>2. queue'[p][x] # <<>>
    BY <2>1
  <2> QED
    BY <1>7, <2>2, EmptySeq
<1>12. Front(p, x)' >= 1
  BY <1>8, <1>9
<1> QED
  BY <1>1, <1>2, <1>3, <1>4, <1>5, <1>7, <1>10, <1>11, <1>12 DEF QueueHolds

LEMMA WorkerPassiveQueue ==
    ASSUME HandoverTypes, Control, Queues, NEW p \in Procs, NEW x \in Proxies, WorkerPassive(p, x),
           NotOpened(p, x)' => NotOpened(p, x), ~Prepared(p, x)' \/ Prepared(p, x)
    PROVE  QueueHolds(p, x)' /\ Front(p, x)' = Front(p, x)
<1>1. UNCHANGED <<next, queue, inputFailed, inFlight, tail, resume>>
  BY DEF WorkerPassive
<1>2. subActive'[p][x] = FALSE
  <2>1. Updated(subActive', subActive, p, x, FALSE)
    BY WorkerPassiveEffect
  <2> QED
    BY <2>1 DEF Updated
<1>3. Front(p, x)' = Front(p, x)
  BY <1>1 DEF Front
<1> QED
  BY <1>1, <1>2, <1>3 DEF Queues, QueueHolds

\* The packets before the boundary are skipped.
LEMMA ResumedQueue ==
    ASSUME HandoverTypes, Control, Queues, NEW t \in Procs, NEW x \in Proxies, Resumed(t, x),
           Prepared(t, x), ~Prepared(t, x)',
           UNCHANGED <<next, inFlight, inputFailed, tail>>
    PROVE  QueueHolds(t, x)' /\ Front(t, x)' = Front(t, x) + resume[t][x]
           /\ resume[t][x] \in Nat
<1> USE QueueTypes
<1>1. QueueHolds(t, x) /\ NotOpened(t, x) /\ Shut(t, x) /\ tail[t][x] = <<>>
  BY PreparedShut DEF Queues, QueueHolds
<1>2. PICK n \in Nat, r \in Nat : n = Len(queue[t][x]) /\ r = resume[t][x] /\ r <= n
  <2>1. resume[t][x] \in 0..Len(queue[t][x]) /\ Len(queue[t][x]) \in Nat
    BY <1>1 DEF QueueHolds
  <2> QED
    BY <2>1
<1>3. resume[t][x] # Refused
  BY <1>2 DEF Refused
<1>4. queue'[t][x] = SubSeq(queue[t][x], r + 1, n)
  <2>1. Updated(queue', queue, t, x, SubSeq(queue[t][x], resume[t][x] + 1, Len(queue[t][x])))
    BY <1>3, ResumedEffect
  <2>2. queue'[t][x] = SubSeq(queue[t][x], resume[t][x] + 1, Len(queue[t][x]))
    BY <2>1 DEF Updated
  <2> QED
    BY <1>2, <2>2
<1>5. /\ Len(queue'[t][x]) = n - r
      /\ \A i \in 1..(n - r) : queue'[t][x][i] = queue[t][x][r + i]
  <2>1. \A i \in (r + 1)..n : queue[t][x][i] \in Positions
    <3>1. PICK q \in Seq(Positions) : q = queue[t][x]
      OBVIOUS
    <3>2. \A i \in 1..n : q[i] \in Positions
      BY <1>2, <3>1
    <3> QED
      BY <3>1, <3>2
  <2>2. /\ Len(SubSeq(queue[t][x], r + 1, n)) = IF r + 1 <= n THEN n - (r + 1) + 1 ELSE 0
        /\ \A i \in 1..(n - (r + 1) + 1) :
              SubSeq(queue[t][x], r + 1, n)[i] = queue[t][x][(r + 1) + i - 1]
    BY <2>1, SubSeqProperties
  <2>3. n - (r + 1) + 1 = n - r
    OBVIOUS
  <2>4. Len(queue'[t][x]) = n - r
    BY <1>2, <1>4, <2>2, <2>3, SMTT(30)
  <2>5. ASSUME NEW i \in 1..(n - r) PROVE queue'[t][x][i] = queue[t][x][r + i]
    <3>1. (r + 1) + i - 1 = r + i
      OBVIOUS
    <3>2. i \in 1..(n - (r + 1) + 1)
      BY <2>3
    <3>3. queue'[t][x][i] = queue[t][x][(r + 1) + i - 1]
      BY <1>4, <2>2, <3>2
    <3> QED
      BY <3>1, <3>3
  <2> QED
    BY <2>4, <2>5
<1>6. Front(t, x)' = Front(t, x) + r
  <2>1. Front(t, x)' = next[t][x] - (n - r)
    BY <1>5 DEF Front
  <2>4. Front(t, x) = next[t][x] - n
    BY <1>2 DEF Front
  <2>2. next[t][x] \in Nat
    OBVIOUS
  <2>3. next[t][x] - (n - r) = (next[t][x] - n) + r
    BY <2>2
  <2> QED
    BY <2>1, <2>3, <2>4
<1>7. \A i \in 1..Len(queue'[t][x]) : queue'[t][x][i] = Front(t, x)' + i - 1
  <2> SUFFICES ASSUME NEW i \in 1..(n - r) PROVE queue'[t][x][i] = Front(t, x)' + i - 1
    BY <1>5
  <2> HIDE QueueTypes
  <2>1. r + i \in 1..n
    <3>1. i \in Nat /\ 1 <= i /\ i <= n - r
      OBVIOUS
    <3>2. r + i \in Nat /\ 1 <= r + i
      BY <3>1
    <3>3. r + i <= n
      BY <3>1
    <3> QED
      BY <3>2, <3>3
  <2>2. queue[t][x][r + i] = Front(t, x) + (r + i) - 1
    BY <1>1, <1>2, <2>1 DEF QueueHolds
  <2>3. PICK f \in Int : f = Front(t, x)
    BY QueueTypes
  <2>4. f + (r + i) - 1 = (f + r) + i - 1
    OBVIOUS
  <2>5. queue'[t][x][i] = queue[t][x][r + i]
    BY <1>5
  <2> QED
    BY <1>6, <2>2, <2>3, <2>4, <2>5
<1>8. next[t][x] # 0 => Front(t, x)' >= 1
  <2>1. next[t][x] # 0 => Front(t, x) >= 1
    BY <1>1 DEF QueueHolds
  <2> QED
    BY <1>6, <2>1
<1>9. next[t][x] = 0 => queue'[t][x] = <<>>
  <2>1. ASSUME next[t][x] = 0 PROVE Len(queue'[t][x]) = 0 /\ queue'[t][x] \in Seq(Positions)
    <3>1. n = 0
      BY <1>1, <1>2, <2>1 DEF QueueHolds
    <3>2. queue'[t][x] \in Seq(Positions)
      BY <1>3, ResumedEffect
    <3> QED
      BY <1>2, <1>5, <3>1, <3>2
  <2> QED
    BY <2>1, EmptySeq
<1>10. inFlight[t][x] = 0 /\ ~inputFailed[t][x]
  BY <1>1 DEF Shut
<1> QED
  BY <1>1, <1>2, <1>6, <1>7, <1>8, <1>9, <1>10 DEF QueueHolds

\* A step of one input leaves the others alone.
OnlyAt(p, x) == \A q \in Procs, y \in Proxies : q # p \/ y # x => InputKept(q, y)

LEMMA InputOnlyAt ==
    ASSUME HandoverTypes, NEW p \in Procs, NEW x \in Proxies,
           \/ Subscribe(p, x) \/ Deliver(p, x) \/ StartInput(p, x)
           \/ FinishInput(p, x) \/ InputFails(p, x) \/ WorkerPassive(p, x)
    PROVE  OnlyAt(p, x)
<1>1. CASE Subscribe(p, x)
  <2>1. Updated(next', next, p, x, published[x] + 1)
    BY <1>1, SubscribeEffect
  <2> QED
    BY <1>1, <2>1 DEF OnlyAt, InputKept, Updated, Subscribe, subscriber
<1>2. CASE Deliver(p, x)
  <2>1. /\ Updated(queue', queue, p, x, Append(queue[p][x], next[p][x]))
        /\ Updated(next', next, p, x, next[p][x] + 1)
    BY <1>2, DeliverEffect
  <2> QED
    BY <1>2, <2>1 DEF OnlyAt, InputKept, Updated, Deliver
<1>3. CASE StartInput(p, x)
  <2>1. /\ Updated(queue', queue, p, x, Tail(queue[p][x]))
        /\ \/ Updated(inFlight', inFlight, p, x, Head(queue[p][x])) /\ UNCHANGED tail
           \/ /\ Updated(tail', tail, p, x, LastItems(Append(tail[p][x], Head(queue[p][x])), TailLength))
              /\ UNCHANGED inFlight
    BY <1>3, StartInputEffect
  <2> QED
    BY <1>3, <2>1 DEF OnlyAt, InputKept, Updated, StartInput
<1>4. CASE FinishInput(p, x)
  <2>1. /\ Updated(inFlight', inFlight, p, x, 0)
        /\ Updated(tail', tail, p, x, LastItems(Append(tail[p][x], inFlight[p][x]), TailLength))
    BY <1>4, FinishInputEffect
  <2> QED
    BY <1>4, <2>1 DEF OnlyAt, InputKept, Updated, FinishInput
<1>5. CASE InputFails(p, x)
  <2>1. /\ Updated(inFlight', inFlight, p, x, 0)
        /\ Updated(queue', queue, p, x, <<inFlight[p][x]>> \o queue[p][x])
        /\ Updated(subActive', subActive, p, x, FALSE)
        /\ Updated(inputFailed', inputFailed, p, x, TRUE)
    BY <1>5, InputFailsEffect
  <2>2. ASSUME NEW q \in Procs, NEW y \in Proxies, q # p \/ y # x
        PROVE  /\ subActive'[q][y] = subActive[q][y] /\ inputFailed'[q][y] = inputFailed[q][y]
               /\ inFlight'[q][y] = inFlight[q][y] /\ queue'[q][y] = queue[q][y]
    BY <2>1, <2>2 DEF Updated
  <2> QED
    BY <1>5, <2>2 DEF OnlyAt, InputKept, InputFails
<1>6. CASE WorkerPassive(p, x)
  <2>1. Updated(subActive', subActive, p, x, FALSE)
    BY <1>6, WorkerPassiveEffect
  <2>2. ASSUME NEW q \in Procs, NEW y \in Proxies, q # p \/ y # x
        PROVE  subActive'[q][y] = subActive[q][y]
    BY <2>1, <2>2 DEF Updated
  <2> QED
    BY <1>6, <2>2 DEF OnlyAt, InputKept, WorkerPassive
<1> QED
  BY <1>1, <1>2, <1>3, <1>4, <1>5, <1>6

LEMMA InputQueues ==
    ASSUME HandoverTypes, Control, Queues, Input \/ Work
    PROVE  Queues'
<1>1. \A p \in Procs, x \in Proxies :
        /\ NotOpened(p, x)' <=> NotOpened(p, x)
        /\ Prepared(p, x)' <=> Prepared(p, x)
        /\ resume' = resume
  BY InputEffect DEF NotOpened, Prepared, Entered
<1>2. ASSUME UNCHANGED <<next, queue, subActive, inFlight, inputFailed, tail>> PROVE Queues'
  <2>1. \A p \in Procs, x \in Proxies : InputKept(p, x)
    BY <1>2 DEF InputKept
  <2> QED
    BY <1>1, <2>1, QueueKept DEF Queues
<1>3. ASSUME NEW p \in Procs, NEW x \in Proxies,
             \/ Subscribe(p, x) \/ Deliver(p, x) \/ StartInput(p, x)
             \/ FinishInput(p, x) \/ InputFails(p, x) \/ WorkerPassive(p, x)
      PROVE  Queues'
  <2>1. QueueHolds(p, x)'
    BY <1>1, <1>3, SubscribeQueue, DeliverQueue, StartInputQueue, FinishInputQueue,
       InputFailsQueue, WorkerPassiveQueue
  <2>2. OnlyAt(p, x)
    BY <1>3, InputOnlyAt
  <2>3. ASSUME NEW q \in Procs, NEW y \in Proxies, q # p \/ y # x PROVE QueueHolds(q, y)'
    <3>1. InputKept(q, y)
      BY <2>2, <2>3 DEF OnlyAt
    <3> QED
      BY <1>1, <3>1, QueueKept
  <2> QED
    BY <2>1, <2>3 DEF Queues
<1>4. ASSUME NEW x \in Proxies, PublishInput(x) PROVE Queues'
  BY <1>2, <1>4 DEF PublishInput, subscriber
<1>5. ASSUME NEW p \in Procs, WorkEnds(p) PROVE Queues'
  BY <1>2, <1>5 DEF WorkEnds, subscriber
<1> QED
  BY <1>3, <1>4, <1>5 DEF Input, Work

-----------------------------------------------------------------------------
(* What the steps between the inputs leave alone.                          *)

\* The successor is to open x, and has not.
Takes(p, x) == target[p] # "none" /\ NotOpened(p, x)

\* The process that has the inputs, before and after it has sent its state.
Runs(p) == Entered(p) /\ state[p] = None
Released(p) == Holds(p) /\ state[p] # None

\* The state has been received, and is to be imported; the application has it.
Receives(p) == target[p] \in {"preparing", "applying"}
Keeps(p) == state[p] = None /\ (p = First \/ target[p] \in {"activating", "accepted"})

\* The step gives p no part in the handover that it did not have.
NoNewPart(p, x) ==
    /\ NotOpened(p, x)' => NotOpened(p, x)
    /\ Prepared(p, x)' => Prepared(p, x) /\ resume'[p][x] = resume[p][x]
    /\ Takes(p, x)' => Takes(p, x) /\ tstate'[p] = tstate[p]
    /\ Runs(p)' => Runs(p)
    /\ Released(p)' => Released(p) /\ state'[p] = state[p]
    /\ Receives(p)' => Receives(p) /\ tstate'[p] = tstate[p]
    /\ Keeps(p)' => Keeps(p)

\* Steps that send, hear or count, and steps of an owner that gives up its inputs.
Aside ==
    /\ UNCHANGED <<handled, next, queue, subActive, inFlight, inputFailed, tail, resume,
                   accepted, applied, state, target, tstate>>
    /\ \A p \in Procs : /\ TakingOver(p) => left'[p] = left[p]
                        /\ state[p] # None => peer'[p] = peer[p]

LEMMA AsideSteps ==
    ASSUME HandoverTypes, Control,
           \/ Ask \/ Crashes
           \/ \E m \in net : Lose(m) \/ \E p \in Procs : HandleRequest(p, m) \/ HandleAck(p, m)
           \/ \E m \in net, p \in Procs : HandleFin(p, m) /\ target[p] # "none"
           \/ \E s \in Procs : ReviewReplies(s) \/ ProxyFrozen(s) \/ PreparationFails(s)
                               \/ FinRetries(s) \/ \E c \in BOOLEAN : FinishSource(s, c)
    PROVE  Aside
<1> USE DEF Aside, source, successor, application, streams, subscriber, faults
<1>1. ASSUME Ask PROVE Aside
  BY <1>1 DEF Ask, SeesHeartbeat, SendRequest
<1>2. ASSUME Crashes \/ \E m \in net : Lose(m) PROVE Aside
  BY <1>2 DEF Crashes, Crash, Lose
<1>3. ASSUME NEW m \in net, NEW s \in Procs, HandleRequest(s, m) PROVE Aside
  <2>1. UNCHANGED <<left, peer>> \/ (active[s] /\ left' = [left EXCEPT ![s] = Proxies]
                                     /\ UNCHANGED peer)
    BY <1>3 DEF HandleRequest
  <2>2. active[s] => ~TakingOver(s)
    BY NoTakeOver DEF TakingOver
  <2>3. \A p \in Procs : TakingOver(p) => left'[p] = left[p]
    BY <2>1, <2>2 DEF HandoverTypes
  <2> QED
    BY <1>3, <2>1, <2>3 DEF HandleRequest
<1>4. ASSUME NEW m \in net, NEW s \in Procs, HandleAck(s, m) PROVE Aside
  BY <1>4 DEF HandleAck
<1>5. ASSUME NEW m \in net, NEW t \in Procs, HandleFin(t, m), target[t] # "none" PROVE Aside
  BY <1>5 DEF HandleFin
<1>6. ASSUME NEW s \in Procs, ReviewReplies(s) PROVE Aside
  <2>1. active[s] /\ state[s] = None
    BY <1>6, Zenon DEF ReviewReplies, Control, OwnerHolds
  <2>2. ~TakingOver(s)
    BY <2>1, NoTakeOver DEF TakingOver
  <2>3. PICK S, q : left' = [left EXCEPT ![s] = S] /\ peer' = [peer EXCEPT ![s] = q]
    BY <1>6, Zenon DEF ReviewReplies
  <2>4. \A p \in Procs \ {s} : left'[p] = left[p] /\ peer'[p] = peer[p]
    BY <2>3 DEF HandoverTypes
  <2> QED
    BY <1>6, <2>1, <2>2, <2>4, ZenonT(40) DEF ReviewReplies
<1>7. ASSUME NEW s \in Procs, ProxyFrozen(s) PROVE Aside
  <2>1. ~TakingOver(s)
    BY <1>7, NoTakeOver DEF TakingOver, ProxyFrozen
  <2>2. UNCHANGED left \/ \E S : left' = [left EXCEPT ![s] = S]
    BY <1>7 DEF ProxyFrozen
  <2>3. \A p \in Procs \ {s} : left'[p] = left[p]
    BY <2>2 DEF HandoverTypes
  <2> QED
    BY <1>7, <2>1, <2>3 DEF ProxyFrozen
<1>8. ASSUME NEW s \in Procs, PreparationFails(s) \/ FinRetries(s)
                              \/ \E c \in BOOLEAN : FinishSource(s, c)
      PROVE  Aside
  BY <1>8 DEF PreparationFails, FinRetries, FinishSource
<1> QED
  BY <1>1, <1>2, <1>3, <1>4, <1>5, <1>6, <1>7, <1>8

LEMMA AsideParts ==
    ASSUME HandoverTypes, Control, Aside, NEW p \in Procs, NEW x \in Proxies
    PROVE  InputKept(p, x) /\ NoNewPart(p, x)
<1>1. InputKept(p, x)
  BY DEF Aside, InputKept
<1>2. Prepared(p, x)' <=> Prepared(p, x)
  BY DEF Aside, Prepared, TakingOver
<1>3. NotOpened(p, x)' <=> NotOpened(p, x)
  BY DEF Aside, NotOpened, TakingOver, Entered
<1>4. Released(p)' => Released(p)
  BY DEF Aside, Released, Holds, Entered
<1> QED
  BY <1>1, <1>2, <1>3, <1>4 DEF Aside, NoNewPart, Takes, Runs, Receives, Keeps, Released, Entered

\* The source sends its state: it gives up its part as owner.
LEMMA ExportParts ==
    ASSUME HandoverTypes, Control, NEW s \in Procs, NEW sent \in BOOLEAN, ExportState(s, sent)
    PROVE  /\ UNCHANGED <<handled, accepted, applied>>
           /\ \A p \in Procs, x \in Proxies : InputKept(p, x)
           /\ \A p \in Procs, x \in Proxies : p # s => NoNewPart(p, x)
           /\ \A x \in Proxies : /\ ~NotOpened(s, x)' /\ ~Prepared(s, x)' /\ ~Takes(s, x)'
                                 /\ Shut(s, x)
           /\ ~Runs(s)' /\ ~Receives(s)' /\ ~Keeps(s)'
           /\ Runs(s) /\ Keeps(s) /\ accepted[s] = {}
           /\ state'[s].cursor = tail[s] /\ state'[s].base = applied[s]
           /\ \A p \in Procs : p # s => state'[p] = state[p]
<1> USE DEF source, successor, application, streams, subscriber, faults
<1>1. PICK b : b = [from |-> s, cursor |-> tail[s], base |-> applied[s]]
  OBVIOUS
<1>2. b # None /\ b.cursor = tail[s] /\ b.base = applied[s]
  <2>1. b \in States
    BY <1>1 DEF States, Positions, HandoverTypes
  <2> QED
    BY <1>1, <2>1, HandoverConstants
<1>3. /\ UNCHANGED <<streams, next, subscriber, toPassive, application, active, review, peer, exit,
                     successor, left>>
      /\ stage[s] = "draining" /\ accepted[s] = {} /\ state' = [state EXCEPT ![s] = b]
  BY <1>1 DEF ExportState, Drained
<1>4. state'[s] = b /\ \A p \in Procs \ {s} : state'[p] = state[p]
  BY <1>3 DEF HandoverTypes
<1>5. state[s] = None /\ (s = First \/ target[s] = "accepted")
  BY <1>3 DEF Control, OwnerHolds
<1>6. Entered(s) /\ target[s] \notin {"preparing", "applying", "activating"}
  BY <1>3, NoTakeOver
<1>7. \A x \in Proxies : ~NotOpened(s, x)' /\ ~Prepared(s, x)' /\ ~Takes(s, x)' /\ Shut(s, x)
  BY <1>3, <1>6 DEF NotOpened, Prepared, Takes, Entered, Control, FreezeHolds
<1>8. /\ ~Runs(s)' /\ ~Receives(s)' /\ ~Keeps(s)' /\ Runs(s) /\ Keeps(s)
  BY <1>2, <1>3, <1>4, <1>5, <1>6 DEF Runs, Receives, Keeps
<1>9. \A p \in Procs, x \in Proxies : InputKept(p, x)
  BY <1>3 DEF InputKept
<1>10. ASSUME NEW p \in Procs, NEW x \in Proxies, p # s PROVE NoNewPart(p, x)
  BY <1>3, <1>4, <1>10
     DEF NoNewPart, NotOpened, Prepared, Takes, Runs, Released, Receives, Keeps, Holds, Entered
<1> QED
  BY <1>2, <1>3, <1>4, <1>7, <1>8, <1>9, <1>10

\* A successor begins: with the state of the process that has the inputs.
LEMMA FinParts ==
    ASSUME HandoverTypes, Control, NEW m \in net, NEW t \in Procs, HandleFin(t, m),
           target[t] = "none"
    PROVE  /\ UNCHANGED <<handled, accepted, applied, state>>
           /\ \A p \in Procs, x \in Proxies : InputKept(p, x)
           /\ \A p \in Procs, x \in Proxies : p # t => NoNewPart(p, x)
           /\ \A x \in Proxies : NotOpened(t, x) /\ ~Prepared(t, x)'
           /\ ~Released(t)' /\ ~Keeps(t)'
           /\ \E e \in Procs : Released(e) /\ tstate'[t] = state[e]
<1> USE DEF source, successor, application, streams, subscriber, faults
<1>1. /\ UNCHANGED <<streams, next, subscriber, toPassive, application, active, peer, stage, state,
                     review, fins, exit, expected>>
      /\ m.type = "fin" /\ peer[t] = None /\ expected[t] # None /\ m.id = t
      /\ m.from = expected[t]
      /\ target' = [target EXCEPT ![t] = "preparing"]
      /\ tstate' = [tstate EXCEPT ![t] = m.state]
      /\ left' = [left EXCEPT ![t] = Proxies]
  BY DEF HandleFin, FinIsFor
<1>2. /\ \A p \in Procs \ {t} : target'[p] = target[p] /\ tstate'[p] = tstate[p]
                                /\ left'[p] = left[p]
      /\ target'[t] = "preparing" /\ tstate'[t] = m.state /\ left'[t] = Proxies
  BY <1>1 DEF HandoverTypes
<1>3. PICK e \in Procs : e = expected[t]
  BY <1>1 DEF HandoverTypes
<1>4. state[e] # None /\ m.state = state[e] /\ peer[e] = t
  BY <1>1, <1>3 DEF Control, NetHolds
<1>5. Released(e)
  BY <1>4, Source DEF Released
<1>6. t # First /\ ~Entered(t)
  BY <1>1 DEF Control, SuccessorHolds, Entered
<1>7. state[t] = None
  BY <1>6, Source
<1>8. (\A x \in Proxies : NotOpened(t, x) /\ ~Prepared(t, x)') /\ ~Released(t)' /\ ~Keeps(t)'
  BY <1>1, <1>2, <1>6, <1>7 DEF NotOpened, Prepared, Released, Keeps
<1>9. ASSUME NEW p \in Procs, NEW x \in Proxies, p # t PROVE NoNewPart(p, x)
  <2>1. Released(p)' => Released(p)
    <3>1. ASSUME Released(p)' PROVE Released(p)
      <4>1. state[p] # None
        BY <1>1, <3>1 DEF Released
      <4>2. peer[p] \in Procs /\ Entered(p) /\ target'[peer[p]] = "none"
        BY <1>1, <3>1, <4>1, Source DEF Released, Holds
      <4>3. target[peer[p]] = "none"
        BY <1>2, <4>2
      <4> QED
        BY <4>1, <4>2, <4>3 DEF Released, Holds
    <3> QED
      BY <3>1
  <2> QED
    BY <1>1, <1>2, <1>9, <2>1
       DEF NoNewPart, NotOpened, Prepared, Takes, Runs, Receives, Keeps, Entered, Released
<1>10. \A p \in Procs, x \in Proxies : InputKept(p, x)
  BY <1>1 DEF InputKept
<1> QED
  BY <1>1, <1>2, <1>4, <1>5, <1>8, <1>9, <1>10

\* A refusal gives the inputs back to the source whose state was received.
LEMMA RefusalParts ==
    ASSUME HandoverTypes, Control, Control', NEW t \in Procs, PrepareProxy(t),
           target'[t] = "none"
    PROVE  /\ UNCHANGED <<handled, accepted, applied, state>>
           /\ \A p \in Procs, x \in Proxies : InputKept(p, x)
           /\ \E e \in Procs :
                /\ e = expected[t] /\ tstate[t] = state[e]
                /\ \A p \in Procs, x \in Proxies : p # e => NoNewPart(p, x)
                /\ \A x \in Proxies :
                     /\ Takes(t, x) /\ Receives(t)
                     /\ ~NotOpened(e, x)' /\ ~Prepared(e, x)' /\ ~Takes(e, x)'
                /\ ~Runs(e)' /\ ~Receives(e)' /\ ~Keeps(e)'
<1> USE DEF source, successor, application, streams, subscriber, faults
<1>1. target[t] = "preparing" /\ TakingOver(t) /\ left[t] # {}
  BY DEF PrepareProxy, TakingOver, Control, SuccessorHolds
<1>2. /\ UNCHANGED <<handled, accepted, applied, state, peer, tstate, next, queue, subActive,
                     inFlight, inputFailed, tail, expected>>
  BY DEF PrepareProxy
<1>3. PICK x \in left[t], skip \in {Refused} \cup Nat :
        /\ Updated(resume', resume, t, x, skip)
        /\ left' = [left EXCEPT ![t] = IF skip = Refused THEN {} ELSE left[t] \ {x}]
        /\ target' = [target EXCEPT ![t] =
                        IF skip = Refused THEN "none"
                        ELSE IF left[t] \ {x} = {} THEN "applying" ELSE "preparing"]
  <2>1. tstate[t] # None
    BY <1>1, Successor, HandoverConstants
  <2> QED
    BY <1>1, <2>1, PrepareProxyEffect
<1>4. /\ \A p \in Procs \ {t} : /\ target'[p] = target[p] /\ left'[p] = left[p]
                                /\ \A y \in Proxies : resume'[p][y] = resume[p][y]
  BY <1>3 DEF Updated, HandoverTypes
<1>5. PICK e \in Procs : e = expected[t]
  BY <1>1, Successor
<1>6. /\ e # t /\ state[e] # None /\ peer[e] = t /\ tstate[t] = state[e] /\ t # First
      /\ state[t] = None
  BY <1>1, <1>5, Successor
<1>7. (e = First \/ target[e] = "accepted") /\ Entered(e)
  BY <1>6, Source
<1>8. target[e] \notin {"preparing", "applying", "activating"}
  <2>1. e = First => target[e] = "none"
    BY HandoverConstants DEF Control, SuccessorHolds
  <2> QED
    BY <1>7, <2>1
<1>9. Holds(e)'
  BY <1>2, <1>4, <1>6, <1>7 DEF Holds, Entered
<1>10. ASSUME NEW p \in Procs, p # e PROVE ~Holds(p)'
  BY <1>9, <1>10 DEF Control, TokenHolds
<1>11. ASSUME NEW p \in Procs, NEW y \in Proxies, p # e PROVE NoNewPart(p, y)
  <2>1. ~Released(p)'
    BY <1>10, <1>11 DEF Released
  <2>2. CASE p = t
    BY <1>1, <1>2, <1>6, <2>1, <2>2
       DEF NoNewPart, NotOpened, Prepared, Takes, Runs, Receives, Keeps, Entered
  <2>3. CASE p # t
    BY <1>2, <1>4, <2>1, <2>3
       DEF NoNewPart, NotOpened, Prepared, Takes, Runs, Receives, Keeps, Entered
  <2> QED
    BY <2>2, <2>3
<1>12. /\ \A y \in Proxies : ~NotOpened(e, y)' /\ ~Prepared(e, y)' /\ ~Takes(e, y)'
       /\ ~Runs(e)' /\ ~Receives(e)' /\ ~Keeps(e)'
  <2>1. Entered(e)' /\ target'[e] = target[e] /\ state'[e] # None
    BY <1>2, <1>4, <1>6, <1>7 DEF Entered
  <2> QED
    BY <1>8, <2>1 DEF NotOpened, Prepared, Takes, Runs, Receives, Keeps
<1>13. \A y \in Proxies : Takes(t, y) /\ Receives(t)
  BY <1>1 DEF Takes, NotOpened, Receives
<1>14. \A p \in Procs, y \in Proxies : InputKept(p, y)
  BY <1>2 DEF InputKept
<1> QED
  BY <1>2, <1>5, <1>6, <1>11, <1>12, <1>13, <1>14

\* A boundary is accepted: the input x is prepared.
LEMMA AcceptanceParts ==
    ASSUME HandoverTypes, Control, NEW t \in Procs, PrepareProxy(t), target'[t] # "none"
    PROVE  /\ UNCHANGED <<handled, accepted, applied, state, tstate>>
           /\ \A p \in Procs, x \in Proxies : InputKept(p, x)
           /\ \E x \in Proxies :
                /\ \A p \in Procs, y \in Proxies : p # t \/ y # x => NoNewPart(p, y)
                /\ Takes(t, x) /\ Receives(t) /\ ~Keeps(t)' /\ Runs(t) /\ ~Released(t)'
                /\ resume'[t][x] = Boundary(Prints(tstate[t].cursor[x]), Prints(queue[t][x]))
                /\ resume'[t][x] \in Nat
<1> USE DEF source, successor, application, streams, subscriber, faults
<1>1. target[t] = "preparing" /\ TakingOver(t) /\ left[t] # {}
  BY DEF PrepareProxy, TakingOver, Control, SuccessorHolds
<1>2. /\ UNCHANGED <<handled, accepted, applied, state, peer, tstate, next, queue, subActive,
                     inFlight, inputFailed, tail, expected>>
  BY DEF PrepareProxy
<1>3. PICK x \in left[t], skip \in {Refused} \cup Nat :
        /\ skip = Boundary(Prints(tstate[t].cursor[x]), Prints(queue[t][x]))
        /\ Updated(resume', resume, t, x, skip)
        /\ left' = [left EXCEPT ![t] = IF skip = Refused THEN {} ELSE left[t] \ {x}]
        /\ target' = [target EXCEPT ![t] =
                        IF skip = Refused THEN "none"
                        ELSE IF left[t] \ {x} = {} THEN "applying" ELSE "preparing"]
  <2>1. tstate[t] # None
    BY <1>1, Successor, HandoverConstants
  <2> QED
    BY <1>1, <2>1, PrepareProxyEffect
<1>4. /\ \A p \in Procs \ {t} : /\ target'[p] = target[p] /\ left'[p] = left[p]
                                /\ \A y \in Proxies : resume'[p][y] = resume[p][y]
      /\ left'[t] = (IF skip = Refused THEN {} ELSE left[t] \ {x})
      /\ target'[t] = (IF skip = Refused THEN "none"
                       ELSE IF left[t] \ {x} = {} THEN "applying" ELSE "preparing")
      /\ \A y \in Proxies : resume'[t][y] = IF y = x THEN skip ELSE resume[t][y]
  BY <1>3 DEF Updated, HandoverTypes
<1>5. skip # Refused /\ x \in Proxies
  BY <1>4 DEF HandoverTypes
<1>6. t # First /\ state[t] = None
  BY <1>1, Successor
<1>7. \A p \in Procs : Released(p)' => Released(p)
  <2>1. \A p \in Procs : target'[p] = "none" <=> target[p] = "none"
    BY <1>1, <1>4
  <2>2. ASSUME NEW p \in Procs, Released(p)' PROVE Released(p)
    <3>1. state[p] # None /\ (state'[p] = None \/ target'[peer'[p]] = "none")
      BY <1>2, <2>2 DEF Released, Holds
    <3>2. peer[p] \in Procs /\ Entered(p)
      BY <3>1, Source
    <3>3. target[peer[p]] = "none"
      BY <1>2, <2>1, <3>1, <3>2
    <3> QED
      BY <3>1, <3>2, <3>3 DEF Released, Holds
  <2> QED
    BY <2>2
<1>8. ASSUME NEW p \in Procs, NEW y \in Proxies, p # t PROVE NoNewPart(p, y)
  BY <1>2, <1>4, <1>7, <1>8
     DEF NoNewPart, NotOpened, Prepared, Takes, Runs, Receives, Keeps, Entered
<1>9. ASSUME NEW y \in Proxies, y # x PROVE NoNewPart(t, y)
  <2>1. target'[t] \in {"applying", "preparing"}
        /\ (target'[t] = "applying" => left[t] \ {x} = {})
        /\ left'[t] = left[t] \ {x} /\ resume'[t][y] = resume[t][y]
    BY <1>4, <1>5, <1>9
  <2>2. Prepared(t, y)' => y \in Proxies \ left[t]
    BY <1>9, <2>1 DEF Prepared
  <2>3. Prepared(t, y)' => Prepared(t, y)
    BY <1>1, <2>2 DEF Prepared
  <2> QED
    BY <1>1, <1>2, <1>6, <1>7, <2>1, <2>3
       DEF NoNewPart, NotOpened, Takes, Runs, Receives, Keeps, Entered
<1>10. /\ Takes(t, x) /\ Receives(t) /\ ~Keeps(t)' /\ Runs(t) /\ ~Released(t)'
  BY <1>1, <1>2, <1>4, <1>6 DEF Takes, NotOpened, Receives, Keeps, Runs, Released, Entered
<1>11. \A p \in Procs, y \in Proxies : InputKept(p, y)
  BY <1>2 DEF InputKept
<1>12. resume'[t][x] = Boundary(Prints(tstate[t].cursor[x]), Prints(queue[t][x]))
       /\ resume'[t][x] \in Nat
  BY <1>3, <1>4, <1>5
<1> QED
  BY <1>2, <1>5, <1>8, <1>9, <1>10, <1>11, <1>12

\* The state is imported, or the import fails.
LEMMA ImportParts ==
    ASSUME HandoverTypes, Control, NEW t \in Procs, ImportState(t) \/ ImportFails(t)
    PROVE  /\ UNCHANGED <<handled, accepted, state>>
           /\ \A p \in Procs, x \in Proxies : InputKept(p, x)
           /\ \A p \in Procs, x \in Proxies : p # t => NoNewPart(p, x) /\ applied'[p] = applied[p]
           /\ \A x \in Proxies : /\ NotOpened(t, x) /\ (Takes(t, x)' => Takes(t, x))
                                 /\ (Prepared(t, x)' => Prepared(t, x))
           /\ UNCHANGED <<resume, tstate>> /\ Runs(t) /\ ~Released(t)' /\ Receives(t) /\ ~Receives(t)'
           /\ ~Keeps(t) /\ (Keeps(t)' => applied'[t] = tstate[t].base)
<1> USE DEF source, successor, application, streams, subscriber, faults
<1>1. target[t] = "applying" /\ TakingOver(t)
  BY DEF ImportState, ImportFails, TakingOver
<1>2. UNCHANGED <<handled, accepted, state, peer, tstate, next, queue, subActive, inFlight,
                  inputFailed, tail, resume, expected>>
  BY DEF ImportState, ImportFails
<1>3. \/ /\ target' = [target EXCEPT ![t] = "activating"]
         /\ left' = [left EXCEPT ![t] = Proxies]
         /\ applied' = [applied EXCEPT ![t] = tstate[t].base]
      \/ target' = [target EXCEPT ![t] = "failed"] /\ UNCHANGED <<left, applied>>
  BY DEF ImportState, ImportFails
<1>4. /\ \A p \in Procs \ {t} : target'[p] = target[p] /\ left'[p] = left[p]
                                /\ applied'[p] = applied[p]
      /\ \/ target'[t] = "activating" /\ applied'[t] = tstate[t].base
         \/ target'[t] = "failed"
  BY <1>3 DEF HandoverTypes
<1>5. t # First /\ state[t] = None
  BY <1>1, Successor
<1>6. \A p \in Procs : Released(p)' => Released(p)
  <2>1. \A p \in Procs : target'[p] = "none" <=> target[p] = "none"
    BY <1>1, <1>4
  <2>2. ASSUME NEW p \in Procs, Released(p)' PROVE Released(p)
    <3>1. state[p] # None /\ (state'[p] = None \/ target'[peer'[p]] = "none")
      BY <1>2, <2>2 DEF Released, Holds
    <3>2. peer[p] \in Procs /\ Entered(p)
      BY <3>1, Source
    <3>3. target[peer[p]] = "none"
      BY <1>2, <2>1, <3>1, <3>2
    <3> QED
      BY <3>1, <3>2, <3>3 DEF Released, Holds
  <2> QED
    BY <2>2
<1>7. ASSUME NEW p \in Procs, NEW x \in Proxies, p # t PROVE NoNewPart(p, x)
  BY <1>2, <1>4, <1>6, <1>7
     DEF NoNewPart, NotOpened, Prepared, Takes, Runs, Receives, Keeps, Entered, Released
<1>8. \A x \in Proxies : /\ NotOpened(t, x) /\ (Takes(t, x)' => Takes(t, x))
                         /\ (Prepared(t, x)' => Prepared(t, x))
  BY <1>1 DEF NotOpened, Takes, Prepared
<1>9. Runs(t) /\ ~Released(t)' /\ Receives(t) /\ ~Receives(t)' /\ ~Keeps(t)
  BY <1>1, <1>2, <1>4, <1>5 DEF Runs, Released, Receives, Keeps, Entered
<1>10. Keeps(t)' => applied'[t] = tstate[t].base
  BY <1>4, <1>5 DEF Keeps
<1>11. \A p \in Procs, x \in Proxies : InputKept(p, x)
  BY <1>2 DEF InputKept
<1> QED
  BY <1>2, <1>4, <1>7, <1>8, <1>9, <1>10, <1>11

\* An input is opened, or the activation fails before or after that.
LEMMA ActivateParts ==
    ASSUME HandoverTypes, Control, NEW t \in Procs, ActivateProxy(t) \/ ActivationFails(t)
    PROVE  /\ UNCHANGED <<handled, accepted, applied, state, next, inFlight, inputFailed, tail>>
           /\ \A p \in Procs, x \in Proxies : NoNewPart(p, x)
           /\ \E x \in Proxies :
                /\ \A p \in Procs, y \in Proxies : p # t \/ y # x => InputKept(p, y)
                /\ Prepared(t, x) /\ Takes(t, x) /\ ~NotOpened(t, x)' /\ ~Prepared(t, x)'
                /\ ~Takes(t, x)' /\ Keeps(t)
                /\ Resumed(t, x) \/ InputKept(t, x)
<1> USE DEF source, successor, application, streams, subscriber, faults
<1>1. target[t] = "activating" /\ TakingOver(t) /\ left[t] # {}
  BY DEF ActivateProxy, ActivationFails, TakingOver, Control, SuccessorHolds
<1>2. UNCHANGED <<handled, accepted, applied, state, next, inFlight, inputFailed, tail, peer,
                  tstate>>
  BY DEF ActivateProxy, ActivationFails
<1>3. PICK x : x = FirstOf(left[t])
  OBVIOUS
<1>4. x \in left[t] /\ x \in Proxies
  BY <1>1, <1>3, FirstOfMember DEF HandoverTypes
<1>5. /\ Prepared(t, x) /\ Takes(t, x)
  BY <1>1, <1>4 DEF Prepared, Takes, NotOpened
<1>6. Resumed(t, x) \/ UNCHANGED <<queue, resume, subActive>>
  BY <1>3 DEF ActivateProxy, ActivationFails
<1>7. \A p \in Procs, y \in Proxies : p # t \/ y # x =>
        /\ subActive'[p][y] = subActive[p][y] /\ resume'[p][y] = resume[p][y]
        /\ queue'[p][y] = queue[p][y]
  <2>1. CASE Resumed(t, x)
    <3>1. resume[t][x] # Refused
      BY <1>4, <1>5 DEF Control, SuccessorHolds
    <3>2. /\ Updated(resume', resume, t, x, Refused) /\ Updated(subActive', subActive, t, x, TRUE)
          /\ Updated(queue', queue, t, x,
                     SubSeq(queue[t][x], resume[t][x] + 1, Len(queue[t][x])))
      BY <1>4, <2>1, <3>1, ResumedEffect
    <3>3. ASSUME NEW p \in Procs, NEW y \in Proxies, p # t \/ y # x
          PROVE  subActive'[p][y] = subActive[p][y] /\ resume'[p][y] = resume[p][y]
                 /\ queue'[p][y] = queue[p][y]
      BY <3>2, <3>3 DEF Updated
    <3> QED
      BY <3>3
  <2> QED
    BY <1>6, <2>1
<1>8. \/ /\ target' = [target EXCEPT ![t] = IF left[t] = {x} THEN "accepted" ELSE @]
         /\ left' = [left EXCEPT ![t] = @ \ {x}]
      \/ target' = [target EXCEPT ![t] = "failed"] /\ UNCHANGED left
  BY <1>3 DEF ActivateProxy, ActivationFails
<1>9. /\ \A p \in Procs \ {t} : target'[p] = target[p] /\ left'[p] = left[p]
      /\ \/ target'[t] \in {"accepted", "failed"}
         \/ target'[t] = "activating" /\ left'[t] = left[t] \ {x}
  BY <1>1, <1>8 DEF HandoverTypes
<1>10. t # First /\ state[t] = None
  BY <1>1, Successor
<1>11. \A p \in Procs : Released(p)' => Released(p)
  <2>1. \A p \in Procs : target'[p] = "none" <=> target[p] = "none"
    BY <1>1, <1>9
  <2>2. ASSUME NEW p \in Procs, Released(p)' PROVE Released(p)
    <3>1. state[p] # None /\ (state'[p] = None \/ target'[peer'[p]] = "none")
      BY <1>2, <2>2 DEF Released, Holds
    <3>2. peer[p] \in Procs /\ Entered(p)
      BY <3>1, Source
    <3>3. target[peer[p]] = "none"
      BY <1>2, <2>1, <3>1, <3>2
    <3> QED
      BY <3>1, <3>2, <3>3 DEF Released, Holds
  <2> QED
    BY <2>2
<1>12. ASSUME NEW p \in Procs, NEW y \in Proxies, p # t PROVE NoNewPart(p, y)
  BY <1>2, <1>7, <1>9, <1>11, <1>12
     DEF NoNewPart, NotOpened, Prepared, Takes, Runs, Receives, Keeps, Entered, Released
<1>13. ~NotOpened(t, x)' /\ ~Prepared(t, x)' /\ ~Takes(t, x)' /\ Keeps(t)
  BY <1>1, <1>9, <1>10 DEF NotOpened, Prepared, Takes, Keeps, Entered
<1>14. ASSUME NEW y \in Proxies PROVE NoNewPart(t, y)
  <2>1. NotOpened(t, y)' => y # x /\ NotOpened(t, y)
    BY <1>1, <1>9, <1>10, <1>13 DEF NotOpened, Entered
  <2>2. Prepared(t, y)' => y # x /\ Prepared(t, y)
    BY <1>1, <1>9, <1>13 DEF Prepared
  <2>3. ~Receives(t)' /\ Keeps(t) /\ Runs(t)
    BY <1>1, <1>9, <1>10, <1>13 DEF Receives, Runs, Entered
  <2> QED
    BY <1>1, <1>2, <1>7, <1>11, <2>1, <2>2, <2>3 DEF NoNewPart, Takes, Released
<1>15. \A p \in Procs, y \in Proxies : p # t \/ y # x => InputKept(p, y)
  BY <1>2, <1>7 DEF InputKept
<1>16. Resumed(t, x) \/ InputKept(t, x)
  BY <1>2, <1>6 DEF InputKept
<1> QED
  BY <1>2, <1>4, <1>5, <1>12, <1>13, <1>14, <1>15, <1>16

\* Where the boundary can be in a buffer.
LEMMA BoundaryInBuffer ==
    ASSUME NEW S, NEW items \in Seq(S), NEW buffered \in Seq(S),
           Boundary(items, buffered) # Refused
    PROVE  Boundary(items, buffered) \in 0..Len(buffered)
<1>1. CASE items = <<>>
  BY <1>1 DEF Boundary
<1>2. CASE items # <<>>
  <2>1. PICK n \in 1..Len(items) :
          Ends(buffered, LastItems(items, n)) = {Boundary(items, buffered)}
    BY <1>2, BoundaryEndsMarker
  <2>2. LastItems(items, n) \in Seq(S)
    BY LastItemsType
  <2>3. Boundary(items, buffered) \in Len(LastItems(items, n))..Len(buffered)
    BY <2>1 DEF Ends
  <2>4. Len(LastItems(items, n)) \in Nat /\ Len(buffered) \in Nat
    BY <2>2
  <2> QED
    BY <2>3, <2>4
<1> QED
  BY <1>1, <1>2

LEMMA QueuesStep ==
    ASSUME HandoverTypes, Control, Control', Queues, [Next]_vars
    PROVE  Queues'
<1> USE DEF NoNewPart
<1>1. ASSUME \A p \in Procs, x \in Proxies : InputKept(p, x) /\ NoNewPart(p, x) PROVE Queues'
  BY <1>1, QueueKept DEF Queues
<1>2. CASE Aside
  BY <1>1, <1>2, AsideParts
<1>3. ASSUME NEW s \in Procs, NEW sent \in BOOLEAN, ExportState(s, sent) PROVE Queues'
  <2>1. ASSUME NEW p \in Procs, NEW x \in Proxies PROVE QueueHolds(p, x)'
    BY <1>3, ExportParts, QueueKept
  <2> QED
    BY <2>1 DEF Queues
<1>4. ASSUME NEW m \in net, NEW t \in Procs, HandleFin(t, m), target[t] = "none" PROVE Queues'
  <2>1. ASSUME NEW p \in Procs, NEW x \in Proxies PROVE QueueHolds(p, x)'
    <3>1. CASE p # t
      <4>1. InputKept(p, x) /\ NoNewPart(p, x)
        BY <1>4, <3>1, FinParts
      <4> QED
        BY <4>1, QueueKept
    <3>2. CASE p = t
      <4>1. InputKept(t, x) /\ NotOpened(t, x) /\ ~Prepared(t, x)'
        BY <1>4, FinParts
      <4>2. QueueHolds(t, x)'
        BY <4>1, QueueKept
      <4> QED
        BY <3>2, <4>2
    <3> QED
      BY <3>1, <3>2
  <2> QED
    BY <2>1 DEF Queues
<1>5. ASSUME NEW t \in Procs, PrepareProxy(t), target'[t] = "none" PROVE Queues'
  <2>1. ASSUME NEW p \in Procs, NEW x \in Proxies PROVE QueueHolds(p, x)'
    <3>1. InputKept(p, x)
      BY <1>5, RefusalParts
    <3>2. NoNewPart(p, x) \/ (~NotOpened(p, x)' /\ ~Prepared(p, x)')
      BY <1>5, RefusalParts
    <3> QED
      BY <3>1, <3>2, QueueKept
  <2> QED
    BY <2>1 DEF Queues
<1>6. ASSUME NEW t \in Procs, PrepareProxy(t), target'[t] # "none" PROVE Queues'
  <2>1. PICK x \in Proxies :
          /\ \A p \in Procs, y \in Proxies : p # t \/ y # x => NoNewPart(p, y)
          /\ Takes(t, x) /\ Receives(t)
          /\ resume'[t][x] = Boundary(Prints(tstate[t].cursor[x]), Prints(queue[t][x]))
          /\ resume'[t][x] \in Nat
    BY <1>6, AcceptanceParts
  <2>2. \A p \in Procs, y \in Proxies : InputKept(p, y)
    BY <1>6, AcceptanceParts
  <2>3. ASSUME NEW p \in Procs, NEW y \in Proxies, p # t \/ y # x PROVE QueueHolds(p, y)'
    BY <2>1, <2>2, <2>3, QueueKept
  <2>4. resume'[t][x] \in 0..Len(queue[t][x])
    <3>1. TakingOver(t)
      BY <2>1 DEF Receives, TakingOver
    <3>2. tstate[t].cursor[x] \in Seq(Positions) /\ queue[t][x] \in Seq(Positions)
      BY <3>1, Successor, QueueTypes DEF States, Positions
    <3>3. resume'[t][x] # Refused
      BY <2>1 DEF Refused
    <3>4. PICK a, b : a = Prints(tstate[t].cursor[x]) /\ b = Prints(queue[t][x])
      OBVIOUS
    <3>5. /\ a \in Seq({Fingerprint[i] : i \in Positions})
          /\ b \in Seq({Fingerprint[i] : i \in Positions}) /\ Len(b) = Len(queue[t][x])
      BY <3>2, <3>4, PrintsType
    <3>6. Boundary(a, b) = resume'[t][x]
      BY <2>1, <3>4
    <3>7. Boundary(a, b) \in 0..Len(b)
      BY <3>3, <3>5, <3>6, BoundaryInBuffer
    <3> QED
      BY <3>5, <3>6, <3>7
  <2>5. QueueHolds(t, x)'
    <3>1. QueueHolds(t, x) /\ NotOpened(t, x) /\ InputKept(t, x)
      BY <2>1, <2>2 DEF Queues, Takes
    <3> QED
      BY <2>4, <3>1 DEF QueueHolds, InputKept, Front
  <2> QED
    BY <2>3, <2>5 DEF Queues
<1>7. ASSUME NEW t \in Procs, ImportState(t) \/ ImportFails(t) PROVE Queues'
  <2>1. ASSUME NEW p \in Procs, NEW x \in Proxies PROVE QueueHolds(p, x)'
    BY <1>7, ImportParts, QueueKept
  <2> QED
    BY <2>1 DEF Queues
<1>8. ASSUME NEW t \in Procs, ActivateProxy(t) \/ ActivationFails(t) PROVE Queues'
  <2>1. PICK x \in Proxies :
          /\ \A p \in Procs, y \in Proxies : p # t \/ y # x => InputKept(p, y)
          /\ Prepared(t, x) /\ ~NotOpened(t, x)' /\ ~Prepared(t, x)'
          /\ Resumed(t, x) \/ InputKept(t, x)
    BY <1>8, ActivateParts
  <2>2. /\ \A p \in Procs, y \in Proxies : NoNewPart(p, y)
        /\ UNCHANGED <<next, inFlight, inputFailed, tail>>
    BY <1>8, ActivateParts
  <2>3. ASSUME NEW p \in Procs, NEW y \in Proxies, p # t \/ y # x PROVE QueueHolds(p, y)'
    BY <2>1, <2>2, <2>3, QueueKept
  <2>4. QueueHolds(t, x)'
    BY <2>1, <2>2, QueueKept, ResumedQueue
  <2> QED
    BY <2>3, <2>4 DEF Queues
<1>9. CASE UNCHANGED vars
  <2>1. UNCHANGED <<next, queue, subActive, inFlight, inputFailed, tail, resume, target, left>>
    BY <1>9 DEF vars, source, successor, streams, subscriber
  <2> QED
    BY <2>1, QueueKept DEF Queues, InputKept, NotOpened, Prepared, Entered
<1>10. CASE Release
  BY <1>2, <1>3, <1>10, AsideSteps DEF Release
<1>11. CASE TakeOver
  BY <1>5, <1>6, <1>7, <1>8, <1>11 DEF TakeOver
<1>12. CASE Message
  BY <1>2, <1>4, <1>12, AsideSteps DEF Message
<1>13. CASE Ask \/ Crashes
  BY <1>2, <1>13, AsideSteps
<1> QED
  BY <1>9, <1>10, <1>11, <1>12, <1>13, InputQueues DEF Next

-----------------------------------------------------------------------------
(* The calculation state.                                                  *)

Covers(S, x) == \A i \in Range(handled[x]) : <<x, i>> \in S

\* The application accounts for the packet, or it is still on the way there.
InState(p, x, i) ==
    \/ <<x, i>> \in applied[p] \cup accepted[p]
    \/ i = inFlight[p][x]
    \/ inputFailed[p][x] /\ i = Head(queue[p][x])

\* Every packet that was handled is in the state of the process that has the
\* inputs, and in the state that is passed on.
StateHolds(p, x) ==
    /\ Released(p) => Covers(state[p].base, x)
    /\ Receives(p) => Covers(tstate[p].base, x)
    /\ Keeps(p) => \A i \in Range(handled[x]) : InState(p, x, i)

StatesHold == \A p \in Procs, x \in Proxies : StateHolds(p, x)

LEMMA HandledTypes ==
    ASSUME HandoverTypes, NEW x \in Proxies
    PROVE  Range(handled[x]) \subseteq Positions
<1>1. handled[x] \in Seq(Positions)
  BY DEF HandoverTypes
<1> QED
  BY <1>1, RangeEquality

LEMMA StateKept ==
    ASSUME StatesHold, NEW p \in Procs, NEW x \in Proxies, InputKept(p, x), NoNewPart(p, x),
           UNCHANGED handled, applied'[p] = applied[p], accepted'[p] = accepted[p]
    PROVE  StateHolds(p, x)'
<1>1. StateHolds(p, x)
  BY DEF StatesHold
<1> QED
  BY <1>1 DEF StateHolds, NoNewPart, Covers, InState, InputKept

\* No input step loses a packet from the state.
LEMMA InStateKept ==
    ASSUME HandoverTypes, Control, Queues, Input \/ Work,
           NEW q \in Procs, NEW y \in Proxies, NEW i \in Positions, InState(q, y, i)
    PROVE  InState(q, y, i)'
<1> USE DEF InState
<1>1. ASSUME NEW x \in Proxies, PublishInput(x) PROVE InState(q, y, i)'
  BY <1>1 DEF PublishInput, application, subscriber
<1>2. ASSUME NEW p \in Procs, NEW x \in Proxies, Subscribe(p, x) PROVE InState(q, y, i)'
  BY <1>2 DEF Subscribe, application, subscriber
<1>3. ASSUME NEW p \in Procs, NEW x \in Proxies, WorkerPassive(p, x) PROVE InState(q, y, i)'
  BY <1>3 DEF WorkerPassive, application
<1>4. ASSUME NEW p \in Procs, NEW x \in Proxies, Deliver(p, x) PROVE InState(q, y, i)'
  <2>1. UNCHANGED <<applied, accepted, inFlight, inputFailed>>
    BY <1>4 DEF Deliver, application
  <2>2. CASE q # p \/ y # x
    <3>1. InputKept(q, y)
      BY <1>4, <2>2, InputOnlyAt DEF OnlyAt
    <3> QED
      BY <2>1, <3>1 DEF InputKept
  <2>3. CASE q = p /\ y = x
    <3>1. queue'[p][x] = Append(queue[p][x], next[p][x]) /\ next[p][x] \in Positions
          /\ queue[p][x] \in Seq(Positions)
      BY <1>4, DeliverEffect, QueueTypes DEF Updated
    <3>2. inputFailed[p][x] => Head(queue'[p][x]) = Head(queue[p][x])
      <4>1. inputFailed[p][x] => queue[p][x] # <<>>
        BY DEF Queues, QueueHolds
      <4>2. queue[p][x] # <<>> => Head(queue'[p][x]) = Head(queue[p][x])
        <5> SUFFICES ASSUME queue[p][x] # <<>> PROVE Head(queue'[p][x]) = Head(queue[p][x])
          OBVIOUS
        <5>1. Len(queue[p][x]) \in Nat /\ Len(queue[p][x]) > 0
          BY QueueTypes
        <5>2. /\ queue'[p][x] \in Seq(Positions) /\ Len(queue'[p][x]) = Len(queue[p][x]) + 1
              /\ \A j \in 1..Len(queue[p][x]) : queue'[p][x][j] = queue[p][x][j]
          BY <3>1, AppendProperties
        <5>3. Head(queue'[p][x]) = queue'[p][x][1] /\ Head(queue[p][x]) = queue[p][x][1]
          BY <3>1, <5>1, <5>2, EmptySeq
        <5> QED
          BY <5>1, <5>2, <5>3
      <4> QED
        BY <4>1, <4>2
    <3> QED
      BY <2>1, <2>3, <3>2
  <2> QED
    BY <2>2, <2>3
<1>5. ASSUME NEW p \in Procs, NEW x \in Proxies, StartInput(p, x) PROVE InState(q, y, i)'
  <2>1. UNCHANGED <<applied, inputFailed>> /\ accepted[q] \subseteq accepted'[q]
    <3>1. UNCHANGED <<applied, inputFailed>>
      BY <1>5 DEF StartInput
    <3>2. accepted[q] \subseteq accepted'[q]
      BY <1>5, StartInputEffect
    <3> QED
      BY <3>1, <3>2
  <2>2. CASE q # p \/ y # x
    <3>1. InputKept(q, y)
      BY <1>5, <2>2, InputOnlyAt DEF OnlyAt
    <3> QED
      BY <2>1, <3>1 DEF InputKept
  <2>3. CASE q = p /\ y = x
    <3>1. inFlight[p][x] = 0 /\ subActive[p][x]
      BY <1>5 DEF StartInput
    <3>2. ~inputFailed[p][x] /\ i # 0
      BY <3>1 DEF Queues, QueueHolds, Positions
    <3> QED
      BY <2>1, <2>3, <3>1, <3>2
  <2> QED
    BY <2>2, <2>3
<1>6. ASSUME NEW p \in Procs, NEW x \in Proxies, FinishInput(p, x) PROVE InState(q, y, i)'
  <2>1. /\ UNCHANGED <<accepted, inputFailed, queue>>
        /\ applied'[q] = IF q = p THEN applied[q] \cup {<<x, inFlight[p][x]>>} ELSE applied[q]
    <3>1. UNCHANGED <<accepted, inputFailed, queue>>
      BY <1>6 DEF FinishInput
    <3> QED
      BY <1>6, <3>1, FinishInputEffect
  <2>2. CASE q # p \/ y # x
    <3>1. InputKept(q, y)
      BY <1>6, <2>2, InputOnlyAt DEF OnlyAt
    <3> QED
      BY <2>1, <3>1 DEF InputKept
  <2> QED
    BY <2>1, <2>2
<1>7. ASSUME NEW p \in Procs, NEW x \in Proxies, InputFails(p, x) PROVE InState(q, y, i)'
  <2>1. UNCHANGED <<accepted, applied>>
    BY <1>7 DEF InputFails, application
  <2>2. CASE q # p \/ y # x
    <3>1. InputKept(q, y)
      BY <1>7, <2>2, InputOnlyAt DEF OnlyAt
    <3> QED
      BY <2>1, <3>1 DEF InputKept
  <2>3. CASE q = p /\ y = x
    <3>1. /\ \A p1 \in Procs, x1 \in Proxies : /\ NotOpened(p1, x1)' <=> NotOpened(p1, x1)
                                               /\ Prepared(p1, x1)' <=> Prepared(p1, x1)
      BY InputEffect DEF NotOpened, Prepared, Entered
    <3>2. Head(queue'[p][x]) = inFlight[p][x] /\ inputFailed'[p][x] = TRUE
      BY <1>7, <3>1, InputFailsQueue
    <3>3. inFlight[p][x] # 0
      BY <1>7 DEF InputFails
    <3>4. ~inputFailed[p][x]
      BY <3>3 DEF Queues, QueueHolds
    <3> QED
      BY <2>1, <2>3, <3>2, <3>4
  <2> QED
    BY <2>2, <2>3
<1>8. ASSUME NEW p \in Procs, WorkEnds(p) PROVE InState(q, y, i)'
  <2>1. PICK w \in accepted[p] : /\ accepted' = [accepted EXCEPT ![p] = @ \ {w}]
                                 /\ applied' = [applied EXCEPT ![p] = @ \cup {w}]
    BY <1>8 DEF WorkEnds
  <2>2. UNCHANGED <<inFlight, inputFailed, queue>>
    BY <1>8 DEF WorkEnds, subscriber
  <2>3. /\ accepted'[q] = IF q = p THEN accepted[q] \ {w} ELSE accepted[q]
        /\ applied'[q] = IF q = p THEN applied[q] \cup {w} ELSE applied[q]
    BY <2>1 DEF HandoverTypes
  <2> QED
    BY <2>2, <2>3
<1> QED
  BY <1>1, <1>2, <1>3, <1>4, <1>5, <1>6, <1>7, <1>8 DEF Input, Work

\* Who keeps the state has the inputs, and so has who receives or has sent it.
LEMMA Parts ==
    ASSUME HandoverTypes, Control, NEW p \in Procs
    PROVE  /\ Keeps(p) \/ Runs(p) \/ Released(p) \/ Receives(p) => Holds(p)
           /\ \A x \in Proxies : Takes(p, x) \/ Prepared(p, x) => Holds(p) /\ NotOpened(p, x)
           /\ Keeps(p) => Runs(p)
<1>1. Receives(p) => Holds(p)
  BY Successor DEF Receives, TakingOver
<1>2. ASSUME NEW x \in Proxies, Takes(p, x) \/ Prepared(p, x) PROVE Holds(p) /\ NotOpened(p, x)
  <2>1. TakingOver(p) /\ NotOpened(p, x)
    BY <1>2, PreparedShut, HandoverConstants
       DEF Takes, TakingOver, NotOpened, Entered, Control, SuccessorHolds
  <2> QED
    BY <2>1, Successor
<1> QED
  BY <1>1, <1>2 DEF Keeps, Runs, Released, Holds, Entered

LEMMA InputStates ==
    ASSUME HandoverTypes, Control, Queues, StatesHold, Input \/ Work
    PROVE  StatesHold'
<1>1. UNCHANGED <<state, tstate, target, peer>>
  BY InputEffect
<1>2. \A p \in Procs : /\ Released(p)' => Released(p)
                       /\ Receives(p)' => Receives(p)
                       /\ Keeps(p)' => Keeps(p)
  BY <1>1 DEF Released, Receives, Keeps, Holds, Entered
<1>3. ASSUME NEW q \in Procs, NEW y \in Proxies, handled'[y] = handled[y] PROVE StateHolds(q, y)'
  <2>1. \A i \in Range(handled[y]) : InState(q, y, i) => InState(q, y, i)'
    BY InStateKept, HandledTypes
  <2>2. StateHolds(q, y)
    BY DEF StatesHold
  <2> QED
    BY <1>1, <1>2, <1>3, <2>1, <2>2 DEF StateHolds, Covers
<1>4. ASSUME NEW p \in Procs, NEW x \in Proxies, StartInput(p, x) PROVE StatesHold'
  <2>1. PICK i \in Positions : i = Head(queue[p][x])
    BY <1>4, StartInputEffect
  <2>2. \A y \in Proxies : handled'[y] = IF y = x THEN Append(handled[y], i) ELSE handled[y]
    BY <1>4, <2>1, StartInputEffect
  <2>3. ~Shut(p, x)
    BY <1>4 DEF StartInput, Shut
  <2>4. Holds(p) /\ state[p] = None /\ ~Receives(p) /\ ~Released(p)
    BY <2>3, Opened DEF Receives, Released
  <2>5. ASSUME NEW q \in Procs PROVE StateHolds(q, x)'
    <3>1. Range(handled'[x]) = Range(handled[x]) \cup {i}
      <4>1. handled[x] \in Seq(Positions)
        BY DEF HandoverTypes
      <4> QED
        BY <2>2, <4>1, RangeOfAppend
    <3>2. CASE q # p
      <4>1. ~Holds(q)
        BY <2>4, <3>2 DEF Control, TokenHolds
      <4>2. ~Released(q) /\ ~Receives(q) /\ ~Keeps(q)
        BY <4>1, Parts
      <4> QED
        BY <1>2, <4>2 DEF StateHolds
    <3>3. CASE q = p
      <4>1. InState(p, x, i)'
        <5>1. \/ inFlight'[p][x] = i
              \/ accepted'[p] = accepted[p] \cup {<<x, i>>}
          BY <1>4, <2>1, StartInputEffect DEF Updated
        <5> QED
          BY <5>1 DEF InState
      <4>2. \A j \in Range(handled[x]) : InState(p, x, j) => InState(p, x, j)'
        BY InStateKept, HandledTypes
      <4>3. Keeps(p) => \A j \in Range(handled[x]) : InState(p, x, j)
        BY DEF StatesHold, StateHolds
      <4>4. Keeps(p)' => \A j \in Range(handled'[x]) : InState(p, x, j)'
        BY <1>2, <3>1, <4>1, <4>2, <4>3
      <4>5. StateHolds(p, x)'
        BY <1>2, <2>4, <4>4 DEF StateHolds
      <4> QED
        BY <3>3, <4>5
    <3> QED
      BY <3>2, <3>3
  <2> QED
    BY <1>3, <2>2, <2>5 DEF StatesHold
<1>5. ASSUME UNCHANGED handled PROVE StatesHold'
  BY <1>3, <1>5 DEF StatesHold
<1>6. ASSUME NEW x \in Proxies, PublishInput(x) PROVE UNCHANGED handled
  BY <1>6 DEF PublishInput
<1>7. ASSUME NEW p \in Procs, NEW x \in Proxies,
             \/ Subscribe(p, x) \/ Deliver(p, x) \/ FinishInput(p, x) \/ InputFails(p, x)
             \/ WorkerPassive(p, x)
      PROVE  UNCHANGED handled
  BY <1>7 DEF Subscribe, Deliver, FinishInput, InputFails, WorkerPassive, streams
<1>8. ASSUME NEW p \in Procs, WorkEnds(p) PROVE UNCHANGED handled
  BY <1>8 DEF WorkEnds, streams
<1> QED
  BY <1>4, <1>5, <1>6, <1>7, <1>8 DEF Input, Work

LEMMA StatesStep ==
    ASSUME HandoverTypes, Control, Control', Queues, StatesHold, [Next]_vars
    PROVE  StatesHold'
<1>1. CASE Aside
  <2>1. UNCHANGED <<handled, applied, accepted>>
    BY <1>1 DEF Aside
  <2> QED
    BY <1>1, <2>1, AsideParts, StateKept DEF StatesHold
<1>2. ASSUME NEW s \in Procs, NEW sent \in BOOLEAN, ExportState(s, sent) PROVE StatesHold'
  <2>1. ASSUME NEW p \in Procs, NEW x \in Proxies, p # s PROVE StateHolds(p, x)'
    BY <1>2, <2>1, ExportParts, StateKept
  <2>2. ASSUME NEW x \in Proxies PROVE StateHolds(s, x)'
    <3>1. /\ Shut(s, x) /\ Keeps(s) /\ accepted[s] = {} /\ state'[s].base = applied[s]
          /\ UNCHANGED handled /\ ~Receives(s)' /\ ~Keeps(s)'
      BY <1>2, ExportParts
    <3>2. ASSUME NEW i \in Range(handled[x]) PROVE <<x, i>> \in applied[s]
      <4>1. InState(s, x, i)
        BY <3>1 DEF StatesHold, StateHolds
      <4>2. i \in Positions /\ inFlight[s][x] = 0 /\ ~inputFailed[s][x]
        BY <3>1, HandledTypes DEF Shut
      <4>3. i # inFlight[s][x]
        BY <4>2 DEF Positions
      <4> QED
        BY <3>1, <4>1, <4>2, <4>3 DEF InState
    <3> QED
      BY <3>1, <3>2 DEF StateHolds, Covers
  <2> QED
    BY <2>1, <2>2 DEF StatesHold
<1>3. ASSUME NEW m \in net, NEW t \in Procs, HandleFin(t, m), target[t] = "none"
      PROVE  StatesHold'
  <2>1. UNCHANGED <<handled, accepted, applied>> /\ ~Released(t)' /\ ~Keeps(t)'
    BY <1>3, FinParts
  <2>2. PICK e \in Procs : Released(e) /\ tstate'[t] = state[e]
    BY <1>3, FinParts
  <2>3. ASSUME NEW p \in Procs, NEW x \in Proxies, p # t PROVE StateHolds(p, x)'
    <3>1. InputKept(p, x) /\ NoNewPart(p, x)
      BY <1>3, <2>3, FinParts
    <3> QED
      BY <2>1, <3>1, StateKept
  <2>4. ASSUME NEW x \in Proxies PROVE StateHolds(t, x)'
    <3>1. Covers(state[e].base, x)
      BY <2>2 DEF StatesHold, StateHolds
    <3> QED
      BY <2>1, <2>2, <3>1 DEF StateHolds, Covers
  <2> QED
    BY <2>3, <2>4 DEF StatesHold
<1>4. ASSUME NEW t \in Procs, PrepareProxy(t), target'[t] = "none" PROVE StatesHold'
  <2>1. UNCHANGED <<handled, accepted, applied, state>>
    BY <1>4, RefusalParts
  <2>2. PICK e \in Procs :
          /\ tstate[t] = state[e]
          /\ \A p \in Procs, x \in Proxies : p # e => NoNewPart(p, x)
          /\ \A x \in Proxies : Receives(t)
          /\ ~Receives(e)' /\ ~Keeps(e)'
    BY <1>4, RefusalParts
  <2>3. ASSUME NEW p \in Procs, NEW x \in Proxies, p # e PROVE StateHolds(p, x)'
    <3>1. InputKept(p, x) /\ NoNewPart(p, x)
      BY <1>4, <2>2, <2>3, RefusalParts
    <3> QED
      BY <2>1, <3>1, StateKept
  <2>4. ASSUME NEW x \in Proxies PROVE StateHolds(e, x)'
    <3>1. Covers(state[e].base, x)
      BY <2>2 DEF StatesHold, StateHolds
    <3> QED
      BY <2>1, <2>2, <3>1 DEF StateHolds, Covers
  <2> QED
    BY <2>3, <2>4 DEF StatesHold
<1>5. ASSUME NEW t \in Procs, PrepareProxy(t), target'[t] # "none" PROVE StatesHold'
  <2>1. UNCHANGED <<handled, accepted, applied, state, tstate>>
        /\ \A p \in Procs, x \in Proxies : InputKept(p, x)
    BY <1>5, AcceptanceParts
  <2>2. PICK x \in Proxies :
          /\ \A p \in Procs, y \in Proxies : p # t \/ y # x => NoNewPart(p, y)
          /\ Receives(t) /\ ~Keeps(t)' /\ ~Released(t)'
    BY <1>5, AcceptanceParts
  <2>3. ASSUME NEW p \in Procs, NEW y \in Proxies, p # t \/ y # x PROVE StateHolds(p, y)'
    BY <2>1, <2>2, <2>3, StateKept
  <2>4. StateHolds(t, x)'
    BY <2>1, <2>2 DEF StatesHold, StateHolds, Covers
  <2> QED
    BY <2>3, <2>4 DEF StatesHold
<1>6. ASSUME NEW t \in Procs, ImportState(t) \/ ImportFails(t) PROVE StatesHold'
  <2>1. UNCHANGED <<handled, accepted>> /\ Receives(t) /\ ~Receives(t)' /\ ~Released(t)'
        /\ (Keeps(t)' => applied'[t] = tstate[t].base)
    BY <1>6, ImportParts
  <2>2. ASSUME NEW p \in Procs, NEW x \in Proxies, p # t PROVE StateHolds(p, x)'
    <3>1. InputKept(p, x) /\ NoNewPart(p, x) /\ applied'[p] = applied[p]
      BY <1>6, <2>2, ImportParts
    <3> QED
      BY <2>1, <3>1, StateKept
  <2>3. ASSUME NEW x \in Proxies PROVE StateHolds(t, x)'
    <3>1. Covers(tstate[t].base, x)
      BY <2>1 DEF StatesHold, StateHolds
    <3> QED
      BY <2>1, <3>1 DEF StateHolds, Covers, InState
  <2> QED
    BY <2>2, <2>3 DEF StatesHold
<1>7. ASSUME NEW t \in Procs, ActivateProxy(t) \/ ActivationFails(t) PROVE StatesHold'
  <2>1. /\ UNCHANGED <<handled, accepted, applied, inFlight, inputFailed>>
        /\ \A p \in Procs, x \in Proxies : NoNewPart(p, x)
    BY <1>7, ActivateParts
  <2>2. PICK x \in Proxies :
          /\ \A p \in Procs, y \in Proxies : p # t \/ y # x => InputKept(p, y)
          /\ Prepared(t, x)
    BY <1>7, ActivateParts
  <2>3. ASSUME NEW p \in Procs, NEW y \in Proxies, p # t \/ y # x PROVE StateHolds(p, y)'
    BY <2>1, <2>2, <2>3, StateKept
  <2>4. StateHolds(t, x)'
    <3>1. StateHolds(t, x) /\ NoNewPart(t, x) /\ ~inputFailed[t][x]
      BY <2>1, <2>2, PreparedShut DEF StatesHold, Shut
    <3> QED
      BY <2>1, <3>1 DEF StateHolds, NoNewPart, Covers, InState
  <2> QED
    BY <2>3, <2>4 DEF StatesHold
<1>8. CASE UNCHANGED vars
  <2>1. UNCHANGED <<handled, queue, inFlight, inputFailed, target, peer, state, tstate, applied,
                    accepted>>
    BY <1>8 DEF vars, source, successor, streams, subscriber, application
  <2> QED
    BY <2>1
       DEF StatesHold, StateHolds, Covers, InState, Released, Receives, Keeps, Holds, Entered
<1>9. CASE Release
  BY <1>1, <1>2, <1>9, AsideSteps DEF Release
<1>10. CASE TakeOver
  BY <1>4, <1>5, <1>6, <1>7, <1>10 DEF TakeOver
<1>11. CASE Message
  BY <1>1, <1>3, <1>11, AsideSteps DEF Message
<1>12. CASE Ask \/ Crashes
  BY <1>1, <1>12, AsideSteps
<1> QED
  BY <1>8, <1>9, <1>10, <1>11, <1>12, InputStates DEF Next

LEMMA QueuesInit == Init => Queues /\ StatesHold
<1> SUFFICES ASSUME Init PROVE Queues /\ StatesHold
  OBVIOUS
<1>1. /\ \A p \in Procs :
           /\ target[p] = "none" /\ state[p] = None /\ left[p] = {}
           /\ \A x \in Proxies :
                /\ queue[p][x] = <<>> /\ inFlight[p][x] = 0 /\ inputFailed[p][x] = FALSE
                /\ next[p][x] = (IF p = First THEN Before + 1 ELSE 0)
                /\ p # First => tail[p][x] = <<>>
      /\ \A x \in Proxies : handled[x] = [i \in 1..Before |-> i]
      /\ applied[First] = Proxies \X (1..Before)
  BY HandoverConstants DEF Init, PerProxy
<1>2. ASSUME NEW p \in Procs, NEW x \in Proxies PROVE QueueHolds(p, x)
  <2>1. Len(queue[p][x]) = 0 /\ 1..Len(queue[p][x]) = {}
    BY <1>1
  <2>2. next[p][x] # 0 => Front(p, x) >= 1
    BY <1>1, <2>1, HandoverConstants DEF Front
  <2>3. NotOpened(p, x) => tail[p][x] = <<>>
    BY <1>1 DEF NotOpened, Entered
  <2>4. ~Prepared(p, x)
    BY <1>1 DEF Prepared
  <2> QED
    BY <1>1, <2>1, <2>2, <2>3, <2>4 DEF QueueHolds
<1>3. ASSUME NEW p \in Procs, NEW x \in Proxies PROVE StateHolds(p, x)
  <2>1. ~Released(p) /\ ~Receives(p) /\ (Keeps(p) => p = First)
    BY <1>1 DEF Released, Receives, Keeps
  <2>2. \A i \in Range(handled[x]) : i \in 1..Before
    <3>1. PICK h : h = [i \in 1..Before |-> i]
      OBVIOUS
    <3>2. \A i \in Range(h) : i \in 1..Before
      BY <3>1 DEF Range
    <3> QED
      BY <1>1, <3>1, <3>2
  <2>3. \A i \in Range(handled[x]) : <<x, i>> \in applied[First]
    BY <1>1, <2>2
  <2> QED
    BY <2>1, <2>3 DEF StateHolds, InState
<1> QED
  BY <1>2, <1>3 DEF Queues, StatesHold

\* Of every packet any owner has handled, the state of the present owner
\* accounts, or will when the work that is under way ends.
THEOREM StateComplete == Spec => []StateIsComplete
<1>1. /\ HandoverTypes /\ Control /\ Control' /\ Queues /\ StatesHold /\ [Next]_vars
         => Queues' /\ StatesHold'
  BY QueuesStep, StatesStep
<1>2. HandoverTypes /\ Control /\ StatesHold => StateIsComplete
  <2> SUFFICES ASSUME HandoverTypes, Control, StatesHold,
                      NEW p \in Procs, active[p], NEW x \in Proxies, NEW i \in Range(handled[x])
               PROVE  InState(p, x, i)
    BY DEF StateIsComplete, InState
  <2>1. Keeps(p)
    BY DEF Control, OwnerHolds, Keeps
  <2> QED
    BY <2>1 DEF StatesHold, StateHolds
<1> QED
  BY <1>1, <1>2, HandoverInvariant, QueuesInit, PTL DEF Spec

-----------------------------------------------------------------------------
(* The streams.                                                            *)

\* The packets of a stream have distinct fingerprints.
DistinctPackets == \A i, j \in Positions : Fingerprint[i] = Fingerprint[j] => i = j

\* A tail that ends at position n of its stream.
EndsAt(s, n) == \A i \in 1..Len(s) : s[i] = n - Len(s) + i

LEMMA LastItemsEnd ==
    ASSUME NEW S, NEW s \in Seq(S), NEW n \in Nat, EndsAt(s, n), NEW k \in Nat \ {0}
    PROVE  EndsAt(LastItems(s, k), n)
<1>1. CASE Len(s) <= k
  BY <1>1 DEF LastItems
<1>2. CASE ~(Len(s) <= k)
  <2>1. PICK a, b : a = Len(s) - k + 1 /\ b = Len(s)
    OBVIOUS
  <2>2. a \in 1..Len(s) /\ b \in Nat /\ b - a + 1 = k
    BY <1>2, <2>1
  <2>3. /\ Len(SubSeq(s, a, b)) = k
        /\ \A i \in 1..k : SubSeq(s, a, b)[i] = s[a + i - 1]
    BY <2>1, <2>2, SubSeqProperties
  <2>4. ASSUME NEW i \in 1..k PROVE SubSeq(s, a, b)[i] = n - k + i
    <3>1. a + i - 1 \in 1..Len(s)
      BY <2>1, <2>2
    <3>2. s[a + i - 1] = n - Len(s) + (a + i - 1)
      BY <3>1 DEF EndsAt
    <3>3. n - Len(s) + (a + i - 1) = n - k + i
      BY <2>1, <2>2
    <3> QED
      BY <2>3, <3>2, <3>3
  <2> QED
    BY <1>2, <2>1, <2>3, <2>4 DEF LastItems, EndsAt
<1> QED
  BY <1>1, <1>2

\* The tail goes on with the next packet.
LEMMA TailGoesOn ==
    ASSUME NEW s \in Seq(Positions), NEW n \in Nat, n + 1 \in Positions, EndsAt(s, n)
    PROVE  EndsAt(LastItems(Append(s, n + 1), TailLength), n + 1)
<1>1. PICK t : t = Append(s, n + 1)
  OBVIOUS
<1>2. /\ t \in Seq(Positions) /\ Len(t) = Len(s) + 1 /\ t[Len(s) + 1] = n + 1
      /\ \A i \in 1..Len(s) : t[i] = s[i]
  BY <1>1, AppendProperties
<1>3. ASSUME NEW i \in 1..Len(t) PROVE t[i] = n + 1 - Len(t) + i
  <2>1. CASE i = Len(s) + 1
    BY <1>2, <2>1
  <2>2. CASE i # Len(s) + 1
    <3>1. i \in 1..Len(s) /\ Len(s) \in Nat
      BY <1>2, <2>2
    <3>2. t[i] = n - Len(s) + i
      BY <1>2, <3>1 DEF EndsAt
    <3> QED
      BY <1>2, <3>1, <3>2
  <2> QED
    BY <2>1, <2>2
<1>4. EndsAt(t, n + 1) /\ n + 1 \in Nat /\ TailLength \in Nat \ {0}
  BY <1>3, HandoverConstants DEF EndsAt
<1>5. EndsAt(LastItems(t, TailLength), n + 1)
  BY <1>2, <1>4, LastItemsEnd
<1> QED
  BY <1>1, <1>5

\* The boundary of a tail that ends at position n is where n is in the buffer.
LEMMA BoundaryAtEnd ==
    ASSUME DistinctPackets, NEW s \in Seq(Positions), s # <<>>, NEW n \in Nat, EndsAt(s, n),
           NEW q \in Seq(Positions), Boundary(Prints(s), Prints(q)) # Refused
    PROVE  /\ Boundary(Prints(s), Prints(q)) \in 1..Len(q)
           /\ q[Boundary(Prints(s), Prints(q))] = n
<1> DEFINE F == {Fingerprint[i] : i \in Positions}
<1>1. PICK a, b : a = Prints(s) /\ b = Prints(q)
  OBVIOUS
<1>2. /\ a \in Seq(F) /\ Len(a) = Len(s) /\ \A i \in 1..Len(s) : a[i] = Fingerprint[s[i]]
      /\ b \in Seq(F) /\ Len(b) = Len(q) /\ \A i \in 1..Len(q) : b[i] = Fingerprint[q[i]]
  BY <1>1, PrintsType
<1>3. Len(s) \in Nat /\ Len(s) > 0 /\ Len(q) \in Nat /\ a # <<>>
  BY <1>2, EmptySeq
<1>4. PICK r : r = Boundary(a, b)
  OBVIOUS
<1> HIDE DEF F
<1>5. PICK k \in 1..Len(a) : Ends(b, LastItems(a, k)) = {r}
  BY <1>1, <1>2, <1>3, <1>4, BoundaryEndsMarker
<1>6. PICK w : w = LastItems(a, k)
  OBVIOUS
<1>7. PICK m \in Nat \ {0} : m = Len(w) /\ w[m] = a[Len(a)]
  <2>1. CASE Len(a) <= k
    BY <1>2, <1>3, <1>6, <2>1 DEF LastItems
  <2>2. CASE ~(Len(a) <= k)
    <3>1. PICK l \in Nat, i \in Nat : l = Len(a) /\ i = l - k + 1
      BY <1>2, <1>3, <2>2
    <3>2. w = SubSeq(a, i, l) /\ l - i + 1 = k
      BY <1>6, <2>2, <3>1 DEF LastItems
    <3>3. i \in 1..l
      BY <2>2, <3>1
    <3>4. Len(w) = k /\ \A j \in 1..k : w[j] = a[i + j - 1]
      BY <1>2, <3>1, <3>2, <3>3, SubSeqProperties
    <3>5. w[k] = a[l]
      <4>1. k \in 1..k /\ i + k - 1 = l
        BY <3>1
      <4> QED
        BY <3>4, <4>1
    <3> QED
      BY <3>1, <3>4, <3>5
  <2> QED
    BY <2>1, <2>2
<1>8. r \in m..Len(b) /\ SubSeq(b, r - m + 1, r) = w
  <2>1. r \in Ends(b, w)
    BY <1>5, <1>6
  <2> QED
    BY <1>7, <2>1 DEF Ends
<1>9. r \in 1..Len(q)
  BY <1>2, <1>3, <1>8
<1>10. b[r] = w[m]
  <2>1. PICK i \in Nat : i = r - m + 1
    BY <1>8
  <2>2. i \in 1..Len(b) /\ r \in i..Len(b) /\ r - i + 1 = m
    BY <1>2, <1>8, <1>9, <2>1
  <2>3. \A j \in 1..m : SubSeq(b, i, r)[j] = b[i + j - 1]
    BY <1>2, <2>2, SubSeqProperties
  <2>4. m \in 1..m /\ i + m - 1 = r
    BY <2>1, <1>9
  <2>5. SubSeq(b, i, r)[m] = b[r]
    BY <2>3, <2>4
  <2> QED
    BY <1>8, <2>1, <2>5
<1>11. Fingerprint[q[r]] = Fingerprint[s[Len(s)]]
  <2>1. Len(s) \in 1..Len(s)
    BY <1>3
  <2> QED
    BY <1>2, <1>7, <1>9, <1>10, <2>1
<1>12. s[Len(s)] = n /\ s[Len(s)] \in Positions /\ q[r] \in Positions
  <2>1. Len(s) \in 1..Len(s)
    BY <1>3
  <2>2. s[Len(s)] = n - Len(s) + Len(s) /\ s[Len(s)] \in Positions
    BY <2>1 DEF EndsAt
  <2>3. n - Len(s) + Len(s) = n
    BY <1>3
  <2> QED
    BY <1>9, <2>2, <2>3
<1> QED
  BY <1>1, <1>4, <1>9, <1>11, <1>12 DEF DistinctPackets

\* No source was asked to release x before it had processed a packet of it.
Marked(x) == \A s \in Procs : state[s] # None => state[s].cursor[x] # <<>>

\* How many packets of x are handled and worked off by the process that has the
\* inputs: the one in flight, or retained after a failure, is not.
Done(p, x) ==
    IF inFlight[p][x] # 0 \/ inputFailed[p][x] THEN Len(handled[x]) - 1 ELSE Len(handled[x])

\* Queue, tail and cursor stand where the stream stands: an open input goes on
\* with the packet after the last one handled, and so does a prepared one.
StreamHolds(p, x) ==
    /\ subActive[p][x] => next[p][x] # 0 /\ Front(p, x) = Len(handled[x]) + 1
    /\ inFlight[p][x] # 0 => inFlight[p][x] = Len(handled[x])
    /\ Runs(p) => EndsAt(tail[p][x], Done(p, x))
    /\ Released(p) => EndsAt(state[p].cursor[x], Len(handled[x]))
    /\ Takes(p, x) => EndsAt(tstate[p].cursor[x], Len(handled[x]))
    /\ Prepared(p, x) => next[p][x] # 0 /\ Front(p, x) + resume[p][x] = Len(handled[x]) + 1

StreamsHold(x) == HandledInOrder(x) /\ \A p \in Procs : StreamHolds(p, x)

Streams == \A x \in Proxies : Marked(x) => StreamsHold(x)

LEMMA StreamKept ==
    ASSUME NEW p \in Procs, NEW x \in Proxies, StreamHolds(p, x), InputKept(p, x),
           NoNewPart(p, x), handled'[x] = handled[x]
    PROVE  StreamHolds(p, x)'
<1>1. Front(p, x)' = Front(p, x) /\ Done(p, x)' = Done(p, x)
  BY DEF InputKept, Front, Done
<1> QED
  BY <1>1 DEF StreamHolds, InputKept, NoNewPart

LEMMA InOrderAppend ==
    ASSUME HandoverTypes, NEW x \in Proxies, HandledInOrder(x), Len(handled[x]) + 1 \in Positions,
           handled'[x] = Append(handled[x], Len(handled[x]) + 1)
    PROVE  HandledInOrder(x)' /\ Len(handled'[x]) = Len(handled[x]) + 1
<1>1. PICK h : h = handled[x]
  OBVIOUS
<1>2. h \in Seq(Positions)
  BY <1>1 DEF HandoverTypes
<1>3. PICK t : t = Append(h, Len(h) + 1)
  OBVIOUS
<1>4. /\ t \in Seq(Positions) /\ Len(t) = Len(h) + 1 /\ t[Len(h) + 1] = Len(h) + 1
      /\ \A i \in 1..Len(h) : t[i] = h[i]
  BY <1>1, <1>2, <1>3, AppendProperties
<1>5. \A i \in 1..Len(h) : h[i] = i
  <2>1. h = [i \in DOMAIN h |-> i] /\ DOMAIN h = 1..Len(h)
    BY <1>1, <1>2 DEF HandledInOrder
  <2> QED
    BY <2>1
<1>6. \A i \in 1..Len(t) : t[i] = i
  <2> SUFFICES ASSUME NEW i \in 1..Len(t) PROVE t[i] = i
    OBVIOUS
  <2>1. Len(h) \in Nat
    BY <1>2
  <2>2. i = Len(h) + 1 \/ i \in 1..Len(h)
    BY <1>4, <2>1
  <2> QED
    BY <1>4, <1>5, <2>2
<1>7. t = [i \in DOMAIN t |-> i]
  <2>1. t = [i \in 1..Len(t) |-> t[i]] /\ DOMAIN t = 1..Len(t)
    BY <1>4
  <2> QED
    BY <1>6, <2>1
<1>8. handled'[x] = t
  BY <1>1, <1>3
<1> QED
  BY <1>1, <1>4, <1>7, <1>8 DEF HandledInOrder

\* Queueing and shutting leave the place in the stream alone.
LEMMA QueueStream ==
    ASSUME HandoverTypes, Control, Queues, NEW p \in Procs, NEW x \in Proxies,
           Subscribe(p, x) \/ Deliver(p, x) \/ WorkerPassive(p, x), NoNewPart(p, x),
           StreamHolds(p, x)
    PROVE  StreamHolds(p, x)'
<1>1. (NotOpened(p, x)' => NotOpened(p, x)) /\ (~Prepared(p, x)' \/ Prepared(p, x))
  BY DEF NoNewPart
<1>2. /\ UNCHANGED <<handled, inFlight, inputFailed, tail, state, tstate>>
      /\ resume'[p][x] = resume[p][x]
  BY DEF Subscribe, Deliver, WorkerPassive, streams, subscriber, source, successor
<1>3. Done(p, x)' = Done(p, x)
  BY <1>2 DEF Done
<1>4. CASE Subscribe(p, x)
  <2>1. next[p][x] = 0 /\ UNCHANGED subActive
    BY <1>4 DEF Subscribe, subscriber
  <2>2. ~subActive[p][x] /\ ~Prepared(p, x)
    BY <2>1 DEF StreamHolds
  <2> QED
    BY <1>2, <1>3, <2>1, <2>2 DEF StreamHolds, NoNewPart
<1>5. CASE Deliver(p, x)
  <2>1. Front(p, x)' = Front(p, x)
    BY <1>1, <1>5, DeliverQueue
  <2>2. next'[p][x] # 0 /\ UNCHANGED subActive
    <3>1. Updated(next', next, p, x, next[p][x] + 1) /\ next[p][x] \in Nat
      BY <1>5, DeliverEffect, QueueTypes
    <3>2. next'[p][x] = next[p][x] + 1
      BY <3>1 DEF Updated
    <3> QED
      BY <1>5, <3>1, <3>2 DEF Deliver
  <2> QED
    BY <1>2, <1>3, <2>1, <2>2 DEF StreamHolds, NoNewPart
<1>6. CASE WorkerPassive(p, x)
  <2>1. Front(p, x)' = Front(p, x) /\ UNCHANGED next
    BY <1>1, <1>6, WorkerPassiveQueue DEF WorkerPassive
  <2>2. Updated(subActive', subActive, p, x, FALSE)
    BY <1>6, WorkerPassiveEffect
  <2>3. subActive'[p][x] = FALSE
    BY <2>2 DEF Updated
  <2> QED
    BY <1>2, <1>3, <2>1, <2>3 DEF StreamHolds, NoNewPart
<1> QED
  BY <1>4, <1>5, <1>6

LEMMA StartInputStream ==
    ASSUME HandoverTypes, Control, Queues, NEW p \in Procs, NEW x \in Proxies, StartInput(p, x),
           NoNewPart(p, x), HandledInOrder(x), StreamHolds(p, x)
    PROVE  HandledInOrder(x)' /\ StreamHolds(p, x)'
<1>1. PICK N \in Nat : N = Len(handled[x])
  <2>1. handled[x] \in Seq(Positions)
    BY DEF HandoverTypes
  <2> QED
    BY <2>1
<1>2. /\ subActive[p][x] /\ inFlight[p][x] = 0
      /\ UNCHANGED <<next, subActive, inputFailed, resume, state, tstate>>
  BY DEF StartInput, source, successor
<1>3. ~Shut(p, x) /\ ~inputFailed[p][x]
  BY <1>2 DEF Shut, Queues, QueueHolds
<1>4. Holds(p) /\ state[p] = None /\ Runs(p) /\ ~NotOpened(p, x) /\ ~Prepared(p, x)
  BY <1>3, Opened DEF Runs
<1>5. /\ Front(p, x) = N + 1 /\ next[p][x] # 0 /\ EndsAt(tail[p][x], N)
  BY <1>1, <1>2, <1>3, <1>4 DEF StreamHolds, Done
<1>6. Head(queue[p][x]) = N + 1 /\ Front(p, x)' = N + 1 + 1 /\ N + 1 \in Positions
  <2>1. (NotOpened(p, x)' => NotOpened(p, x)) /\ (~Prepared(p, x)' \/ Prepared(p, x))
    BY DEF NoNewPart
  <2>2. Head(queue[p][x]) = Front(p, x) /\ Front(p, x)' = Front(p, x) + 1
    BY <2>1, StartInputQueue
  <2>3. Head(queue[p][x]) \in Positions
    BY StartInputEffect
  <2> QED
    BY <1>5, <2>2, <2>3
<1>7. handled'[x] = Append(handled[x], N + 1)
  <2>1. PICK i : i = Head(queue[p][x])
    OBVIOUS
  <2>2. \A y \in Proxies : handled'[y] = IF y = x THEN Append(handled[y], i) ELSE handled[y]
    BY <2>1, StartInputEffect
  <2>3. handled'[x] = Append(handled[x], i) /\ i = N + 1
    BY <1>6, <2>1, <2>2
  <2> QED
    BY <2>3
<1>8. HandledInOrder(x)' /\ Len(handled'[x]) = N + 1
  BY <1>1, <1>6, <1>7, InOrderAppend
<1>9. /\ ~Released(p)' /\ ~Takes(p, x)' /\ ~Prepared(p, x)'
  BY <1>2, <1>4 DEF NoNewPart, Released, Takes
<1>10. \/ inFlight'[p][x] = N + 1 /\ UNCHANGED tail
       \/ UNCHANGED inFlight /\ tail'[p][x] = LastItems(Append(tail[p][x], N + 1), TailLength)
  <2>1. \/ Updated(inFlight', inFlight, p, x, N + 1) /\ UNCHANGED tail
        \/ /\ Updated(tail', tail, p, x, LastItems(Append(tail[p][x], N + 1), TailLength))
           /\ UNCHANGED inFlight
    BY <1>6, StartInputEffect
  <2> QED
    BY <2>1 DEF Updated
<1>11. EndsAt(tail[p][x], Done(p, x))'
  <2>1. CASE inFlight'[p][x] = N + 1 /\ UNCHANGED tail
    <3>1. Done(p, x)' = N
      BY <1>8, <2>1 DEF Done
    <3> QED
      BY <1>5, <2>1, <3>1
  <2>2. CASE UNCHANGED inFlight /\ tail'[p][x] = LastItems(Append(tail[p][x], N + 1), TailLength)
    <3>1. Done(p, x)' = N + 1
      BY <1>2, <1>3, <1>8, <2>2 DEF Done
    <3>2. tail[p][x] \in Seq(Positions)
      BY QueueTypes
    <3>3. EndsAt(LastItems(Append(tail[p][x], N + 1), TailLength), N + 1)
      BY <1>5, <1>6, <3>2, TailGoesOn
    <3> QED
      BY <2>2, <3>1, <3>3
  <2> QED
    BY <1>10, <2>1, <2>2
<1>12. inFlight'[p][x] # 0 => inFlight'[p][x] = N + 1
  BY <1>2, <1>10
<1> QED
  BY <1>2, <1>5, <1>6, <1>8, <1>9, <1>11, <1>12 DEF StreamHolds

\* The handler has ended, or failed: the packet is worked off, or retained.
LEMMA EndInputStream ==
    ASSUME HandoverTypes, Control, Queues, NEW p \in Procs, NEW x \in Proxies,
           FinishInput(p, x) \/ InputFails(p, x), NoNewPart(p, x), StreamHolds(p, x)
    PROVE  StreamHolds(p, x)'
<1>1. PICK N \in Nat : N = Len(handled[x])
  <2>1. handled[x] \in Seq(Positions)
    BY DEF HandoverTypes
  <2> QED
    BY <2>1
<1>2. inFlight[p][x] # 0 /\ UNCHANGED <<handled, next, resume, state, tstate>>
  BY DEF FinishInput, InputFails, streams, source, successor, application
<1>3. ~Shut(p, x) /\ ~inputFailed[p][x]
  BY <1>2 DEF Shut, Queues, QueueHolds
<1>4. Holds(p) /\ state[p] = None /\ Runs(p) /\ ~NotOpened(p, x) /\ ~Prepared(p, x)
  BY <1>3, Opened DEF Runs
<1>5. inFlight[p][x] = N /\ EndsAt(tail[p][x], N - 1) /\ Len(handled'[x]) = N
  BY <1>1, <1>2, <1>4 DEF StreamHolds, Done
<1>6. ~Released(p)' /\ ~Takes(p, x)' /\ ~Prepared(p, x)'
  BY <1>2, <1>4 DEF NoNewPart, Released, Takes
<1>7. (NotOpened(p, x)' => NotOpened(p, x)) /\ (~Prepared(p, x)' \/ Prepared(p, x))
  BY DEF NoNewPart
<1>8. CASE FinishInput(p, x)
  <2>1. Front(p, x)' = Front(p, x) /\ UNCHANGED <<subActive, inputFailed>>
    BY <1>7, <1>8, FinishInputQueue DEF FinishInput
  <2>2. /\ N \in Positions /\ inFlight'[p][x] = 0
        /\ tail'[p][x] = LastItems(Append(tail[p][x], N), TailLength)
    BY <1>5, <1>8, FinishInputEffect DEF Updated
  <2>3. Done(p, x)' = N
    BY <1>3, <1>5, <2>1, <2>2 DEF Done
  <2>4. EndsAt(tail'[p][x], N)
    <3>1. PICK n \in Nat : n = N - 1
      BY <2>2 DEF Positions
    <3>2. n + 1 = N /\ tail[p][x] \in Seq(Positions)
      BY <3>1, QueueTypes
    <3>3. EndsAt(LastItems(Append(tail[p][x], n + 1), TailLength), n + 1)
      BY <1>5, <2>2, <3>1, <3>2, TailGoesOn
    <3> QED
      BY <2>2, <3>2, <3>3
  <2> QED
    BY <1>1, <1>2, <1>5, <1>6, <2>1, <2>2, <2>3, <2>4 DEF StreamHolds
<1>9. CASE InputFails(p, x)
  <2>1. subActive'[p][x] = FALSE /\ inFlight'[p][x] = 0 /\ inputFailed'[p][x] = TRUE
    BY <1>7, <1>9, InputFailsQueue
  <2>2. Done(p, x)' = N - 1 /\ UNCHANGED tail
    BY <1>5, <1>9, <2>1 DEF Done, InputFails
  <2> QED
    BY <1>5, <1>6, <2>1, <2>2 DEF StreamHolds
<1> QED
  BY <1>8, <1>9

LEMMA InputStreams ==
    ASSUME HandoverTypes, Control, Queues, Streams, Input \/ Work
    PROVE  Streams'
<1>1. UNCHANGED <<state, tstate, target, peer, left, resume>>
  BY InputEffect
<1>2. \A p \in Procs, x \in Proxies : NoNewPart(p, x)
  BY <1>1
     DEF NoNewPart, NotOpened, Prepared, Takes, Runs, Released, Receives, Keeps, Holds, Entered
<1>3. \A x \in Proxies : Marked(x)' => Marked(x)
  BY <1>1 DEF Marked
<1>4. ASSUME NEW x \in Proxies, Marked(x)', UNCHANGED handled,
             \A p \in Procs : InputKept(p, x)
      PROVE  StreamsHold(x)'
  <2>1. StreamsHold(x)
    BY <1>3, <1>4 DEF Streams
  <2>2. HandledInOrder(x)'
    BY <1>4, <2>1 DEF StreamsHold, HandledInOrder
  <2>3. \A p \in Procs : StreamHolds(p, x)'
    BY <1>2, <1>4, <2>1, StreamKept DEF StreamsHold
  <2> QED
    BY <2>2, <2>3 DEF StreamsHold
<1>5. ASSUME UNCHANGED <<handled, next, queue, subActive, inFlight, inputFailed, tail>>
      PROVE  Streams'
  <2>1. \A p \in Procs, x \in Proxies : InputKept(p, x)
    BY <1>5 DEF InputKept
  <2> QED
    BY <1>4, <1>5, <2>1 DEF Streams
<1>6. ASSUME NEW p \in Procs, NEW x \in Proxies,
             \/ Subscribe(p, x) \/ Deliver(p, x) \/ WorkerPassive(p, x)
             \/ FinishInput(p, x) \/ InputFails(p, x)
      PROVE  Streams'
  <2>1. UNCHANGED handled
    BY <1>6 DEF Subscribe, Deliver, WorkerPassive, FinishInput, InputFails, streams
  <2>2. OnlyAt(p, x)
    BY <1>6, InputOnlyAt
  <2>3. ASSUME NEW y \in Proxies, y # x, Marked(y)' PROVE StreamsHold(y)'
    BY <1>4, <2>1, <2>2, <2>3 DEF OnlyAt
  <2>4. ASSUME Marked(x)' PROVE StreamsHold(x)'
    <3>1. StreamsHold(x)
      BY <1>3, <2>4 DEF Streams
    <3>2. HandledInOrder(x)'
      BY <2>1, <3>1 DEF StreamsHold, HandledInOrder
    <3>3. StreamHolds(p, x)'
      BY <1>2, <1>6, <3>1, QueueStream, EndInputStream DEF StreamsHold
    <3>4. ASSUME NEW q \in Procs, q # p PROVE StreamHolds(q, x)'
      <4>1. InputKept(q, x)
        BY <2>2, <3>4 DEF OnlyAt
      <4> QED
        BY <1>2, <2>1, <3>1, <4>1, StreamKept DEF StreamsHold
    <3> QED
      BY <3>2, <3>3, <3>4 DEF StreamsHold
  <2> QED
    BY <2>3, <2>4 DEF Streams
<1>7. ASSUME NEW p \in Procs, NEW x \in Proxies, StartInput(p, x) PROVE Streams'
  <2>1. PICK i : i = Head(queue[p][x])
    OBVIOUS
  <2>2. \A y \in Proxies : handled'[y] = IF y = x THEN Append(handled[y], i) ELSE handled[y]
    BY <1>7, <2>1, StartInputEffect
  <2>3. OnlyAt(p, x)
    BY <1>7, InputOnlyAt
  <2>4. ASSUME NEW y \in Proxies, y # x, Marked(y)' PROVE StreamsHold(y)'
    <3>1. StreamsHold(y) /\ handled'[y] = handled[y]
      BY <1>3, <2>2, <2>4 DEF Streams
    <3>2. \A q \in Procs : InputKept(q, y)
      BY <2>3, <2>4 DEF OnlyAt
    <3>3. \A q \in Procs : StreamHolds(q, y)'
      BY <1>2, <3>1, <3>2, StreamKept DEF StreamsHold
    <3>4. HandledInOrder(y)'
      BY <3>1 DEF StreamsHold, HandledInOrder
    <3> QED
      BY <3>3, <3>4 DEF StreamsHold
  <2>5. ASSUME Marked(x)' PROVE StreamsHold(x)'
    <3>1. StreamsHold(x)
      BY <1>3, <2>5 DEF Streams
    <3>2. HandledInOrder(x)' /\ StreamHolds(p, x)'
      BY <1>2, <1>7, <3>1, StartInputStream DEF StreamsHold
    <3>3. ASSUME NEW q \in Procs, q # p PROVE StreamHolds(q, x)'
      <4>1. Holds(p) /\ ~Shut(p, x)
        BY <1>7, Opened DEF StartInput, Shut
      <4>2. ~Holds(q)
        BY <3>3, <4>1 DEF Control, TokenHolds
      <4>3. /\ ~Runs(q) /\ ~Released(q) /\ ~Takes(q, x) /\ ~Prepared(q, x)
            /\ ~subActive[q][x] /\ inFlight[q][x] = 0
        BY <4>2, Parts, Opened DEF Shut
      <4>4. /\ ~Runs(q)' /\ ~Released(q)' /\ ~Takes(q, x)' /\ ~Prepared(q, x)'
            /\ ~subActive'[q][x] /\ inFlight'[q][x] = 0
        BY <1>2, <2>3, <3>3, <4>3 DEF NoNewPart, OnlyAt, InputKept
      <4> QED
        BY <4>4 DEF StreamHolds
    <3> QED
      BY <3>2, <3>3 DEF StreamsHold
  <2> QED
    BY <2>4, <2>5 DEF Streams
<1>8. ASSUME NEW x \in Proxies, PublishInput(x) PROVE Streams'
  BY <1>5, <1>8 DEF PublishInput, subscriber
<1>9. ASSUME NEW p \in Procs, WorkEnds(p) PROVE Streams'
  BY <1>5, <1>9 DEF WorkEnds, subscriber, streams
<1> QED
  BY <1>6, <1>7, <1>8, <1>9 DEF Input, Work

\* A refused or accepted boundary, and a state that is sent or received: the
\* cursor goes from the tail to the state, and from the state to the buffer.
LEMMA StreamsStep ==
    ASSUME DistinctPackets, HandoverTypes, Control, Control', Queues, Streams, [Next]_vars
    PROVE  Streams'
<1>1. ASSUME UNCHANGED handled, NEW x \in Proxies, StreamsHold(x),
             \A p \in Procs : StreamHolds(p, x)'
      PROVE  StreamsHold(x)'
  <2>1. HandledInOrder(x)'
    BY <1>1 DEF StreamsHold, HandledInOrder
  <2> QED
    BY <1>1, <2>1 DEF StreamsHold
<1>2. ASSUME UNCHANGED <<handled, state>>,
             \A x \in Proxies : StreamsHold(x) /\ Marked(x) => \A p \in Procs : StreamHolds(p, x)'
      PROVE  Streams'
  <2>1. ASSUME NEW x \in Proxies, Marked(x)' PROVE StreamsHold(x) /\ Marked(x)
    BY <1>2, <2>1 DEF Marked, Streams
  <2> QED
    BY <1>1, <1>2, <2>1 DEF Streams
<1>3. CASE Aside
  <2>1. UNCHANGED <<handled, state>>
    BY <1>3 DEF Aside
  <2>2. ASSUME NEW x \in Proxies, StreamsHold(x), NEW p \in Procs PROVE StreamHolds(p, x)'
    <3>1. StreamHolds(p, x)
      BY <2>2 DEF StreamsHold
    <3> QED
      BY <1>3, <2>1, <3>1, AsideParts, StreamKept
  <2> QED
    BY <1>2, <2>1, <2>2
<1>4. ASSUME NEW s \in Procs, NEW sent \in BOOLEAN, ExportState(s, sent) PROVE Streams'
  <2>1. /\ UNCHANGED handled /\ Runs(s) /\ state'[s].cursor = tail[s]
        /\ \A p \in Procs : p # s => state'[p] = state[p]
    BY <1>4, ExportParts
  <2>2. ASSUME NEW x \in Proxies, Marked(x)' PROVE StreamsHold(x)
    <3>1. state[s] = None
      BY <2>1 DEF Runs
    <3>2. Marked(x)
      BY <2>1, <2>2, <3>1 DEF Marked
    <3> QED
      BY <3>2 DEF Streams
  <2>3. ASSUME NEW x \in Proxies, StreamsHold(x) PROVE StreamHolds(s, x)'
    <3>1. StreamHolds(s, x)
      BY <2>3 DEF StreamsHold
    <3>2. /\ Shut(s, x) /\ InputKept(s, x) /\ ~Runs(s)' /\ ~Takes(s, x)' /\ ~Prepared(s, x)'
      BY <1>4, ExportParts
    <3>3. EndsAt(tail[s][x], Len(handled[x]))
      BY <2>1, <3>1, <3>2 DEF StreamHolds, Done, Shut
    <3>4. EndsAt(state'[s].cursor[x], Len(handled'[x]))
      BY <2>1, <3>3
    <3>5. ~subActive'[s][x] /\ inFlight'[s][x] = 0
      BY <3>2 DEF Shut, InputKept
    <3> QED
      BY <3>2, <3>4, <3>5 DEF StreamHolds
  <2>4. ASSUME NEW x \in Proxies, StreamsHold(x), NEW p \in Procs, p # s PROVE StreamHolds(p, x)'
    <3>1. StreamHolds(p, x)
      BY <2>4 DEF StreamsHold
    <3>2. InputKept(p, x) /\ NoNewPart(p, x)
      BY <1>4, <2>4, ExportParts
    <3> QED
      BY <2>1, <3>1, <3>2, StreamKept
  <2> QED
    BY <1>1, <2>1, <2>2, <2>3, <2>4 DEF Streams
<1>5. ASSUME NEW m \in net, NEW t \in Procs, HandleFin(t, m), target[t] = "none"
      PROVE  Streams'
  <2>1. UNCHANGED <<handled, state>> /\ ~Released(t)'
    BY <1>5, FinParts
  <2>2. PICK e \in Procs : Released(e) /\ tstate'[t] = state[e]
    BY <1>5, FinParts
  <2>3. ASSUME NEW x \in Proxies, StreamsHold(x), NEW p \in Procs, p # t PROVE StreamHolds(p, x)'
    <3>1. StreamHolds(p, x)
      BY <2>3 DEF StreamsHold
    <3>2. InputKept(p, x) /\ NoNewPart(p, x)
      BY <1>5, <2>3, FinParts
    <3> QED
      BY <2>1, <3>1, <3>2, StreamKept
  <2>4. ASSUME NEW x \in Proxies, StreamsHold(x) PROVE StreamHolds(t, x)'
    <3>1. InputKept(t, x) /\ NotOpened(t, x) /\ ~Prepared(t, x)'
      BY <1>5, FinParts
    <3>2. EndsAt(state[e].cursor[x], Len(handled[x]))
      BY <2>2, <2>4 DEF StreamsHold, StreamHolds
    <3>3. tail[t][x] = <<>> /\ Shut(t, x)
      BY <3>1 DEF Queues, QueueHolds, Control, SuccessorHolds
    <3>4. tail'[t][x] = <<>> /\ ~subActive'[t][x] /\ inFlight'[t][x] = 0
      BY <3>1, <3>3 DEF Shut, InputKept
    <3>5. EndsAt(tail'[t][x], Done(t, x)')
      BY <3>4 DEF EndsAt
    <3>6. EndsAt(tstate'[t].cursor[x], Len(handled'[x]))
      BY <2>1, <2>2, <3>2
    <3> QED
      BY <2>1, <3>1, <3>4, <3>5, <3>6 DEF StreamHolds
  <2> QED
    BY <1>2, <2>1, <2>3, <2>4
<1>6. ASSUME NEW t \in Procs, PrepareProxy(t), target'[t] = "none" PROVE Streams'
  <2>1. UNCHANGED <<handled, state>>
    BY <1>6, RefusalParts
  <2>2. PICK e \in Procs :
          /\ tstate[t] = state[e]
          /\ \A p \in Procs, x \in Proxies : p # e => NoNewPart(p, x)
          /\ \A x \in Proxies : Takes(t, x) /\ ~Prepared(e, x)' /\ ~Takes(e, x)'
          /\ ~Runs(e)'
    BY <1>6, RefusalParts
  <2>3. \A p \in Procs, x \in Proxies : InputKept(p, x)
    BY <1>6, RefusalParts
  <2>4. ASSUME NEW x \in Proxies, StreamsHold(x), NEW p \in Procs, p # e PROVE StreamHolds(p, x)'
    <3>1. StreamHolds(p, x)
      BY <2>4 DEF StreamsHold
    <3> QED
      BY <2>1, <2>2, <2>3, <2>4, <3>1, StreamKept
  <2>5. ASSUME NEW x \in Proxies, StreamsHold(x) PROVE StreamHolds(e, x)'
    <3>1. StreamHolds(e, x) /\ StreamHolds(t, x) /\ InputKept(e, x)
      BY <2>3, <2>5 DEF StreamsHold
    <3>2. EndsAt(state[e].cursor[x], Len(handled[x]))
      BY <2>2, <3>1 DEF StreamHolds
    <3>3. Front(e, x)' = Front(e, x)
      BY <3>1 DEF InputKept, Front
    <3> QED
      BY <2>1, <2>2, <3>1, <3>2, <3>3 DEF StreamHolds, InputKept
  <2> QED
    BY <1>2, <2>1, <2>4, <2>5
<1>7. ASSUME NEW t \in Procs, PrepareProxy(t), target'[t] # "none" PROVE Streams'
  <2>1. UNCHANGED <<handled, state, tstate>> /\ \A p \in Procs, x \in Proxies : InputKept(p, x)
    BY <1>7, AcceptanceParts
  <2>2. PICK x \in Proxies :
          /\ \A p \in Procs, y \in Proxies : p # t \/ y # x => NoNewPart(p, y)
          /\ Takes(t, x) /\ Receives(t) /\ Runs(t) /\ ~Released(t)'
          /\ resume'[t][x] = Boundary(Prints(tstate[t].cursor[x]), Prints(queue[t][x]))
          /\ resume'[t][x] \in Nat
    BY <1>7, AcceptanceParts
  <2>3. ASSUME NEW y \in Proxies, StreamsHold(y), NEW p \in Procs, p # t \/ y # x
        PROVE  StreamHolds(p, y)'
    <3>1. StreamHolds(p, y)
      BY <2>3 DEF StreamsHold
    <3> QED
      BY <2>1, <2>2, <2>3, <3>1, StreamKept
  <2>4. ASSUME StreamsHold(x), Marked(x) PROVE StreamHolds(t, x)'
    <3>1. StreamHolds(t, x) /\ InputKept(t, x) /\ TakingOver(t)
      BY <2>1, <2>2, <2>4 DEF StreamsHold, Receives, TakingOver
    <3>2. PICK c : c = tstate[t].cursor[x]
      OBVIOUS
    <3>3. c \in Seq(Positions) /\ c # <<>> /\ EndsAt(c, Len(handled[x]))
      <4>1. PICK e \in Procs : e = expected[t]
        BY <3>1, Successor
      <4>2. state[e] # None /\ tstate[t] = state[e] /\ tstate[t] \in States
        BY <3>1, <4>1, Successor
      <4>3. c # <<>>
        BY <2>4, <3>2, <4>2 DEF Marked
      <4> QED
        BY <2>2, <3>1, <3>2, <4>2, <4>3 DEF StreamHolds, States, Positions
    <3>4. PICK r \in Nat : r = resume'[t][x]
      BY <2>2
    <3>5. r # Refused /\ r = Boundary(Prints(c), Prints(queue[t][x]))
      BY <2>2, <3>2, <3>4 DEF Refused
    <3>6. queue[t][x] \in Seq(Positions) /\ handled[x] \in Seq(Positions)
      BY QueueTypes DEF HandoverTypes
    <3>7. PICK N \in Nat : N = Len(handled[x])
      BY <3>6
    <3>8. r \in 1..Len(queue[t][x]) /\ queue[t][x][r] = N
      BY <3>3, <3>5, <3>6, <3>7, BoundaryAtEnd
    <3>9. Front(t, x) \in Int /\ Front(t, x) + r = N + 1
      <4>1. QueueHolds(t, x) /\ Front(t, x) \in Int
        BY QueueTypes DEF Queues
      <4>2. queue[t][x][r] = Front(t, x) + r - 1
        BY <3>8, <4>1 DEF QueueHolds
      <4> QED
        BY <3>8, <4>1, <4>2
    <3>10. next[t][x] # 0
      <4>1. queue[t][x] # <<>>
        BY <3>6, <3>8
      <4> QED
        BY <4>1 DEF Queues, QueueHolds
    <3>11. Front(t, x)' = Front(t, x) /\ Done(t, x)' = Done(t, x)
      BY <2>1, <3>1 DEF InputKept, Front, Done
    <3>12. Prepared(t, x)' => next'[t][x] # 0 /\ Front(t, x)' + resume'[t][x] = Len(handled'[x]) + 1
      BY <2>1, <3>1, <3>4, <3>7, <3>9, <3>10, <3>11 DEF InputKept
    <3> QED
      BY <2>1, <2>2, <3>1, <3>11, <3>12 DEF StreamHolds, InputKept
  <2> QED
    BY <1>2, <2>1, <2>3, <2>4
<1>8. ASSUME NEW t \in Procs, ImportState(t) \/ ImportFails(t) PROVE Streams'
  <2>1. UNCHANGED <<handled, state, resume, tstate>> /\ Runs(t) /\ ~Released(t)'
    BY <1>8, ImportParts
  <2>2. ASSUME NEW x \in Proxies, StreamsHold(x), NEW p \in Procs, p # t PROVE StreamHolds(p, x)'
    <3>1. InputKept(p, x) /\ NoNewPart(p, x) /\ StreamHolds(p, x)
      BY <1>8, <2>2, ImportParts DEF StreamsHold
    <3> QED
      BY <2>1, <3>1, StreamKept
  <2>3. ASSUME NEW x \in Proxies, StreamsHold(x) PROVE StreamHolds(t, x)'
    <3>1. /\ InputKept(t, x) /\ StreamHolds(t, x) /\ (Takes(t, x)' => Takes(t, x))
          /\ (Prepared(t, x)' => Prepared(t, x))
      BY <1>8, <2>3, ImportParts DEF StreamsHold
    <3>2. Front(t, x)' = Front(t, x) /\ Done(t, x)' = Done(t, x)
      BY <2>1, <3>1 DEF InputKept, Front, Done
    <3> QED
      BY <2>1, <3>1, <3>2 DEF StreamHolds, InputKept
  <2> QED
    BY <1>2, <2>1, <2>2, <2>3
<1>9. ASSUME NEW t \in Procs, ActivateProxy(t) \/ ActivationFails(t) PROVE Streams'
  <2>1. /\ UNCHANGED <<handled, state, next, inFlight, inputFailed, tail>>
        /\ \A p \in Procs, x \in Proxies : NoNewPart(p, x)
    BY <1>9, ActivateParts
  <2>2. PICK x \in Proxies :
          /\ \A p \in Procs, y \in Proxies : p # t \/ y # x => InputKept(p, y)
          /\ Prepared(t, x) /\ ~Prepared(t, x)' /\ ~Takes(t, x)' /\ Keeps(t)
          /\ Resumed(t, x) \/ InputKept(t, x)
    BY <1>9, ActivateParts
  <2>3. ASSUME NEW y \in Proxies, StreamsHold(y), NEW p \in Procs,
               p # t \/ y # x \/ InputKept(p, y)
        PROVE  StreamHolds(p, y)'
    <3>1. StreamHolds(p, y) /\ InputKept(p, y)
      BY <2>2, <2>3 DEF StreamsHold
    <3> QED
      BY <2>1, <3>1, StreamKept
  <2>4. ASSUME StreamsHold(x), Resumed(t, x) PROVE StreamHolds(t, x)'
    <3>1. StreamHolds(t, x)
      BY <2>4 DEF StreamsHold
    <3>2. Front(t, x)' = Front(t, x) + resume[t][x]
      BY <2>1, <2>2, <2>4, ResumedQueue
    <3>3. next[t][x] # 0 /\ Front(t, x)' = Len(handled[x]) + 1
      BY <2>2, <3>1, <3>2 DEF StreamHolds
    <3>4. state[t] = None /\ ~Released(t)'
      BY <2>1, <2>2 DEF Keeps, Released
    <3>5. Done(t, x)' = Done(t, x) /\ (Runs(t)' => Runs(t))
      BY <2>1 DEF Done, NoNewPart
    <3> QED
      BY <2>1, <2>2, <3>1, <3>3, <3>4, <3>5 DEF StreamHolds
  <2> QED
    BY <1>2, <2>1, <2>2, <2>3, <2>4
<1>10. CASE UNCHANGED vars
  <2>1. UNCHANGED <<handled, next, queue, subActive, inFlight, inputFailed, tail, resume, target,
                    left, peer, state, tstate>>
    BY <1>10 DEF vars, source, successor, streams, subscriber
  <2>2. \A p \in Procs, x \in Proxies : InputKept(p, x) /\ NoNewPart(p, x)
    BY <2>1
       DEF InputKept, NoNewPart, NotOpened, Prepared, Takes, Runs, Released, Receives, Keeps,
           Holds, Entered
  <2>3. ASSUME NEW x \in Proxies, StreamsHold(x), NEW p \in Procs PROVE StreamHolds(p, x)'
    <3>1. StreamHolds(p, x)
      BY <2>3 DEF StreamsHold
    <3> QED
      BY <2>1, <2>2, <3>1, StreamKept
  <2> QED
    BY <1>2, <2>1, <2>3
<1>11. CASE Release
  BY <1>3, <1>4, <1>11, AsideSteps DEF Release
<1>12. CASE TakeOver
  BY <1>6, <1>7, <1>8, <1>9, <1>12 DEF TakeOver
<1>13. CASE Message
  BY <1>3, <1>5, <1>13, AsideSteps DEF Message
<1>14. CASE Ask \/ Crashes
  BY <1>3, <1>14, AsideSteps
<1> QED
  BY <1>10, <1>11, <1>12, <1>13, <1>14, InputStreams DEF Next

LEMMA StreamsInit == Init => Streams
<1> SUFFICES ASSUME Init, NEW x \in Proxies PROVE StreamsHold(x)
  BY DEF Streams
<1>1. PICK h : h = [i \in 1..Before |-> i]
  OBVIOUS
<1>2. handled[x] = h /\ Before \in Nat /\ DOMAIN h = 1..Before
  BY <1>1, HandoverConstants DEF Init
<1>3. h \in Seq(1..Before) /\ Len(h) = Before
  <2>1. [i \in 1..Before |-> i] \in [1..Before -> 1..Before]
    OBVIOUS
  <2>2. [i \in 1..Before |-> i] \in Seq(1..Before)
    BY <1>2, <2>1, IsASeq
  <2> QED
    BY <1>1, <1>2, <2>2
<1>4. HandledInOrder(x)
  BY <1>1, <1>2 DEF HandledInOrder
<1>5. EndsAt(LastItems(h, TailLength), Before)
  <2>1. \A i \in 1..Len(h) : h[i] = Before - Len(h) + i
    BY <1>1, <1>2, <1>3
  <2>2. EndsAt(h, Before)
    BY <2>1 DEF EndsAt
  <2> QED
    BY <1>2, <1>3, <2>2, LastItemsEnd, HandoverConstants
<1>6. \A p \in Procs :
        /\ target[p] = "none" /\ state[p] = None /\ left[p] = {}
        /\ queue[p][x] = <<>> /\ inFlight[p][x] = 0 /\ inputFailed[p][x] = FALSE
        /\ next[p][x] = (IF p = First THEN Before + 1 ELSE 0)
        /\ subActive[p][x] = (p = First)
        /\ p = First => tail[p][x] = LastItems(handled[x], TailLength)
  BY HandoverConstants DEF Init, PerProxy
<1>7. ASSUME NEW p \in Procs PROVE StreamHolds(p, x)
  <2>1. ~Released(p) /\ ~Takes(p, x) /\ ~Prepared(p, x) /\ (Runs(p) => p = First)
    BY <1>6 DEF Released, Takes, Prepared, Runs, Entered
  <2>2. Done(p, x) = Before
    BY <1>2, <1>3, <1>6 DEF Done
  <2>3. subActive[p][x] => next[p][x] # 0 /\ Front(p, x) = Before + 1
    <3>1. Len(queue[p][x]) = 0
      BY <1>6
    <3>2. p = First => next[p][x] = Before + 1
      BY <1>6
    <3>3. subActive[p][x] => p = First
      BY <1>6, Zenon
    <3> QED
      BY <1>2, <3>1, <3>2, <3>3 DEF Front
  <2>4. Runs(p) => EndsAt(tail[p][x], Done(p, x))
    BY <1>2, <1>5, <1>6, <2>1, <2>2
  <2> QED
    BY <1>2, <1>3, <1>6, <2>1, <2>3, <2>4 DEF StreamHolds
<1> QED
  BY <1>4, <1>7 DEF StreamsHold

\* If the packets of a stream have distinct fingerprints, and no source was asked
\* to release a stream before it had processed a packet of it, every stream is
\* handled in order, nothing twice and nothing skipped, whoever the owners are.
THEOREM EveryPacketOnce ==
    ASSUME DistinctPackets
    PROVE  Spec => []HandledOnceInOrder
<1>1. /\ HandoverTypes /\ Control /\ Control' /\ Queues /\ Streams /\ [Next]_vars
         => Queues' /\ Streams'
  BY QueuesStep, StreamsStep
<1>2. Streams => HandledOnceInOrder
  BY DEF Streams, StreamsHold, HandledOnceInOrder, Marked
<1>3. Init => Queues /\ Streams
  BY QueuesInit, StreamsInit
<1> QED
  BY <1>1, <1>2, <1>3, HandoverInvariant, PTL DEF Spec

=============================================================================
