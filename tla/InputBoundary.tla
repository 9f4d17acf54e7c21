---------------------------- MODULE InputBoundary ----------------------------
(***************************************************************************)
(* Where a successor resumes a buffered input stream                       *)
(* (runtime/input-queue-boundary.ts).  The source sends the fingerprints   *)
(* of the packets it processed last, the successor looks for them in its   *)
(* buffer.  A fingerprint is a hash of topic and payload: equal packets    *)
(* have equal fingerprints.                                                *)
(***************************************************************************)
EXTENDS Sequences, FiniteSetsExt

\* The last n items of s, or all of them: items.slice(-n).
LastItems(s, n) == IF Len(s) <= n THEN s ELSE SubSeq(s, Len(s) - n + 1, Len(s))

\* The positions in items at which an occurrence of window ends.
Ends(items, window) ==
    {e \in Len(window)..Len(items) :
        SubSeq(items, e - Len(window) + 1, e) = window}

\* Fault: an occurrence is enough, it need not be the only one.
LocatesFirst(tail, buffered, n) ==
    LET window == LastItems(tail, n)
    IN Ends(tail, window) # {} /\ Ends(buffered, window) # {}

\* The last n fingerprints of the tail mark one place in both sequences.
Locates(tail, buffered, n) ==
    LET window == LastItems(tail, n)
    IN /\ Cardinality(Ends(tail, window)) = 1
       /\ Cardinality(Ends(buffered, window)) = 1

Refused == -1

\* The window lengths that settle the boundary.
Markers(tail, buffered) ==
    {n \in 1..Len(tail) : n <= Len(buffered) /\ Locates(tail, buffered, n)}

\* Fault: the boundary before the marker instead of after it.
BoundaryBefore(tail, buffered) ==
    IF tail = <<>> THEN 0
    ELSE IF Markers(tail, buffered) = {} THEN Refused
    ELSE LET n == Max(Markers(tail, buffered))
         IN Min(Ends(buffered, LastItems(tail, n))) - n

\* uniqueInputBoundary(): how many buffered items to skip, or Refused.
Boundary(tail, buffered) ==
    IF tail = <<>> THEN 0
    ELSE IF Markers(tail, buffered) = {} THEN Refused
    ELSE Min(Ends(buffered, LastItems(tail, Max(Markers(tail, buffered)))))

=============================================================================
