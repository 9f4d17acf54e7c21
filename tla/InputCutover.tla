----------------------------- MODULE InputCutover -----------------------------
(***************************************************************************)
(* One input stream seen by the subscriber queues of two processes         *)
(* (ThrottledSubscriber, throttled-queue.ts): the source handles it in     *)
(* order, the passive successor subscribes at some point and buffers what  *)
(* comes after.  In every state the cut-over is tried: what would          *)
(* prepareResume() of the successor skip, given the tail of the source?    *)
(* A resumed successor handles stream[ResumeAt], stream[ResumeAt + 1] ...  *)
(***************************************************************************)
EXTENDS InputBoundary

CONSTANTS
    Fingerprints,   \* of the packets published
    MaxStream,      \* bound: packets published
    TailSize        \* lastProcessedItems keeps this many (10 in the code)

ASSUME InputCutoverAssumption == MaxStream \in Nat /\ TailSize \in Nat \ {0}

VARIABLES
    stream,     \* the fingerprints of the packets published so far
    processed,  \* how many of them the source has processed
    joined      \* position of the first packet the successor got; 0: not subscribed

cutoverVars == <<stream, processed, joined>>

CutoverInit == stream = <<>> /\ processed = 0 /\ joined = 0

PacketPublished(f) ==
    /\ Len(stream) < MaxStream
    /\ stream' = Append(stream, f)
    /\ UNCHANGED <<processed, joined>>

SourceHandles ==
    /\ processed < Len(stream)
    /\ processed' = processed + 1
    /\ UNCHANGED <<stream, joined>>

SuccessorSubscribes ==
    /\ joined = 0
    /\ joined' = Len(stream) + 1
    /\ UNCHANGED <<stream, processed>>

CutoverNext == (\E f \in Fingerprints : PacketPublished(f)) \/ SourceHandles \/ SuccessorSubscribes

CutoverSpec == CutoverInit /\ [][CutoverNext]_cutoverVars

-----------------------------------------------------------------------------

\* lastProcessedItems
ProcessedTail == LastItems(SubSeq(stream, 1, processed), TailSize)

\* The successor's queue: nothing is consumed while it is passive.
Buffered == IF joined = 0 THEN <<>> ELSE SubSeq(stream, joined, Len(stream))

\* prepareResume() of the successor for the source's tail.
PreparedResume == Boundary(ProcessedTail, Buffered)

CutOver == joined # 0 /\ PreparedResume # Refused

ResumeAt == joined + PreparedResume

\* Whatever packets repeat, an accepted boundary never makes the successor
\* process a packet the source has already processed.
NeverReplayed == CutOver => ResumeAt > processed

\* Whatever packets repeat, the boundary is exact when the successor has
\* buffered the source's whole tail: it may be refused, but it skips nothing.
SharedTailIsExact ==
    CutOver /\ processed > 0 /\ joined <= processed - Len(ProcessedTail) + 1 =>
        ResumeAt = processed + 1

\* What mqtt-stateful-handover.md says of every release: source and successor
\* share an identified suffix first, so that no packet is skipped unprocessed.
CutNeverSkips == CutOver => ResumeAt <= processed + 1

=============================================================================
