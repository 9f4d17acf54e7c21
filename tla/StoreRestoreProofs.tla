--------------------------- MODULE StoreRestoreProofs --------------------------
(***************************************************************************)
(* The retained stores, for every set of stores and of files and every     *)
(* number of resources, and however many restores and moves stop on the    *)
(* way.                                                                    *)
(*                                                                         *)
(* A restore publishes them whole.  The inductive invariant says what each *)
(* phase of the restore may rely on: once every entry was verified the     *)
(* staged stores are whole, and the mark "complete" is written only when   *)
(* each of them is published.                                              *)
(*                                                                         *)
(* A move into a store and back loses nothing and returns what is current. *)
(* Its invariant says, phase by phase, where the current version of each   *)
(* resource is.                                                            *)
(***************************************************************************)
EXTENDS StoreRestore, RetainedMove, TLAPS

-----------------------------------------------------------------------------
(* The restore.                                                            *)

StagedIsWhole ==
    restorer = "publish" => \A s \in Stores : Published(s) \/ staged[s] = Files

AllPublished ==
    restorer = "complete" \/ marker = "complete" => \A s \in Stores : Published(s)

RestoreInv ==
    /\ staged \in [Stores -> SUBSET Files]
    /\ store \in [Stores -> {NoStore, Files}]
    /\ owner \in [Stores -> {"out", "checked", "running"}]
    /\ used \subseteq Stores
    /\ StagedIsWhole
    /\ AllPublished
    /\ \A s \in Stores : owner[s] = "running" \/ s \in used => Published(s)

\* Both kinds of root a restore may find.
LEMMA InitRestore == RestoreInit => RestoreInv
<1> SUFFICES ASSUME RestoreInit PROVE RestoreInv
  OBVIOUS
<1>1. Files # NoStore
  BY StoreRestoreAssumption
<1>2. store \in [Stores -> {NoStore, Files}] /\ \A s \in used : Published(s)
  BY <1>1 DEF RestoreInit, Published
<1>3. QED
  BY <1>2 DEF RestoreInit, RestoreInv, StagedIsWhole, AllPublished

\* Every step keeps the invariant: only a whole store is ever published.
LEMMA RestoreStep == RestoreInv /\ [RestoreNext]_restoreVars => RestoreInv'
<1> SUFFICES ASSUME RestoreInv, [RestoreNext]_restoreVars PROVE RestoreInv'
  OBVIOUS
<1> USE DEF RestoreInv, StagedIsWhole, AllPublished, Published
<1>0. Files # NoStore
  BY StoreRestoreAssumption
<1>1. CASE BeginRestore
  BY <1>1 DEF BeginRestore, disk
<1>2. CASE WriteScratch
  BY <1>2 DEF WriteScratch
<1>3. CASE RenameMarker
  BY <1>3 DEF RenameMarker
<1>4. CASE MakeStage
  BY <1>4 DEF MakeStage
<1>5. CASE CopyPart
  BY <1>5 DEF CopyPart
<1>6. CASE VerifyStage
  <2>1. \A s \in Stores : Published(s) \/ staged[s] = Files
    BY <1>6 DEF VerifyStage, StagedWhole, Missing
  <2>2. QED
    BY <1>6, <2>1 DEF VerifyStage
<1>7. CASE RemoveStage
  BY <1>7 DEF RemoveStage
<1>8. CASE RestoreStops
  BY <1>8 DEF RestoreStops
<1>9. ASSUME NEW s \in Stores, NEW f \in Files, StageEntry(s, f) PROVE RestoreInv'
  BY <1>9 DEF StageEntry
<1>10. ASSUME NEW s \in Stores, PublishStore(s) PROVE RestoreInv'
  <2>1. store' = [store EXCEPT ![s] = Files]
    BY <1>10 DEF PublishStore
  <2>2. \A t \in Stores : Published(t)' <=> Published(t) \/ t = s
    BY <1>0, <2>1
  <2>3. \A t \in Stores : t # s => staged'[t] = staged[t]
    BY <1>10 DEF PublishStore
  <2>4. staged' \in [Stores -> SUBSET Files]
    BY <1>10 DEF PublishStore
  <2>5. QED
    BY <1>10, <2>1, <2>2, <2>3, <2>4 DEF PublishStore
<1>11. ASSUME NEW s \in Stores, CheckAvailable(s) PROVE RestoreInv'
  BY <1>11 DEF CheckAvailable, disk
<1>12. ASSUME NEW s \in Stores, LockStore(s) PROVE RestoreInv'
  BY <1>12 DEF LockStore, disk
<1>13. ASSUME NEW s \in Stores, ReleaseStore(s) PROVE RestoreInv'
  BY <1>13 DEF ReleaseStore, disk
<1>14. CASE UNCHANGED restoreVars
  BY <1>14 DEF restoreVars
<1>15. QED
  BY <1>1, <1>2, <1>3, <1>4, <1>5, <1>6, <1>7, <1>8, <1>9, <1>10, <1>11, <1>12,
     <1>13, <1>14 DEF RestoreNext

\* Every step writes a published store at most from nothing to the whole, and the
\* mark and the owners' locks imply the whole.
LEMMA StepPublishesWhole ==
    ASSUME RestoreInv, RestoreInv', [RestoreNext]_restoreVars
    PROVE  /\ marker' = "complete" => \A s \in Stores : store'[s] = Files
           /\ \A s \in Stores :
                /\ owner'[s] = "running" => store'[s] = Files
                /\ s \in used => store'[s] = store[s]
<1>1. \A s \in Stores : Published(s)' => store'[s] = Files
  BY DEF RestoreInv, Published
<1>2. ASSUME NEW s \in used PROVE store'[s] = store[s]
  <2>1. Published(s) /\ s \in Stores
    BY <1>2 DEF RestoreInv
  <2>2. ASSUME NEW t \in Stores, PublishStore(t) PROVE store'[s] = store[s]
    BY <2>1, <2>2 DEF PublishStore, Published, RestoreInv
  <2>3. CASE UNCHANGED store
    BY <2>3
  <2>4. QED
    BY <2>2, <2>3 DEF RestoreNext, restoreVars, disk, BeginRestore, WriteScratch,
       RenameMarker, MakeStage, CopyPart, VerifyStage, RemoveStage, RestoreStops,
       StageEntry, CheckAvailable, LockStore, ReleaseStore
<1>3. QED
  BY <1>1, <1>2 DEF RestoreInv, AllPublished

\* A completed restore has published every store whole, an owner never runs on
\* part of a store, and no restore writes a store that has an owner.
THEOREM RestoresWhole == RestoreSpec => RestoredIsWhole
<1>1. RestoreInv /\ RestoreInv' /\ [RestoreNext]_restoreVars =>
        [ /\ marker' = "complete" => \A s \in Stores : store'[s] = Files
          /\ \A s \in Stores :
               /\ owner'[s] = "running" => store'[s] = Files
               /\ s \in used => store'[s] = store[s]
        ]_restoreVars
  BY StepPublishesWhole
<1>2. QED
  BY <1>1, InitRestore, RestoreStep, PTL DEF RestoreSpec, RestoredIsWhole

-----------------------------------------------------------------------------
(* The move into a store and back.                                         *)

Places == [Resources -> File \cup {None}]

FilesHold ==
    /\ legacy \in Places /\ stable \in Places /\ saved \in Places
    /\ plan \in Places /\ back \in Places
    /\ owed \in [Resources -> SUBSET Version]
    /\ current \in [Resources -> Version \cup {None}]
    /\ phase \in {"idle", "adopting", "adopted", "returning", "returned"}
    /\ job \in 0..(N + 1) /\ transfer \in {"rename", "copy"}
    /\ running \in BOOLEAN
    /\ writes \in 0..MaxWrites /\ strays \in 0..MaxStrays

LEMMA MoveConstants ==
    /\ N \in Nat /\ MaxWrites \in Nat /\ MaxStrays \in Nat
    /\ None \notin Version /\ None \notin File
    /\ \A ino \in Writers, v \in Version :
         /\ [ino |-> ino, ver |-> v] \in File
         /\ [ino |-> ino, ver |-> v].ver = v
    /\ \A f \in File : f.ver \in Version /\ f.ino \in Writers
BY RetainedMoveAssumption, NoneAssumption DEF File

LEMMA FreshVersion ==
    ASSUME FilesHold, writes < MaxWrites \/ strays < MaxStrays
    PROVE  Fresh \in Version
BY MoveConstants DEF FilesHold, Fresh, Version

LEMMA FilesInit == MovesInit => FilesHold
<1> SUFFICES ASSUME MovesInit PROVE FilesHold
  OBVIOUS
<1>1. 0 \in Version /\ [ino |-> "old", ver |-> 0] \in File
  BY MoveConstants DEF Version, Writers
<1>2. Empty \in Places
  BY DEF Empty, Places
<1>3. legacy \in Places /\ owed \in [Resources -> SUBSET Version]
      /\ current \in [Resources -> Version \cup {None}]
  BY <1>1 DEF MovesInit, Places
<1>4. 0 \in 0..(N + 1) /\ 0 \in 0..MaxWrites /\ 0 \in 0..MaxStrays
  BY MoveConstants
<1> QED
  BY <1>2, <1>3, <1>4 DEF MovesInit, FilesHold

\* One step of a verified copy leaves the destination or creates it.
LEMMA CopyEffect ==
    ASSUME NEW to \in File \cup {None}, NEW s, NEW f, NEW s2, NEW move, NEW by,
           CopyStep(to, s, f, s2, move, by)
    PROVE  f = to \/ (to = None /\ f = [ino |-> by, ver |-> move.ver])
BY DEF CopyStep


LEMMA FilesStep == FilesHold /\ [MovesNext]_moveVars => FilesHold'
<1> SUFFICES ASSUME FilesHold, [MovesNext]_moveVars PROVE FilesHold'
  OBVIOUS
<1> USE DEF FilesHold, Places, stages, history, files
<1>0. 0 \in 0..(N + 1) /\ 1 \in 0..(N + 1) /\ \A r \in Resources : r + 1 \in 0..(N + 1)
  BY RetainedMoveAssumption DEF Resources
<1>1. CASE PrepareMove \/ StartJob \/ JobStops \/ JobDone \/ OwnerStarts \/ OwnerStops
           \/ DiscardScratch
  BY <1>0, <1>1 DEF PrepareMove, StartJob, JobStops, JobDone, OwnerStarts,
     OwnerStops, DiscardScratch
<1>2. CASE PrepareReturn
  <2>1. ReturnMoves \in Places
    BY DEF ReturnMoves
  <2> QED
    BY <1>2, <2>1 DEF PrepareReturn
<1>3. CASE AdoptByRename \/ ReturnByRename
  <2>1. job \in Resources /\ job + 1 \in 0..(N + 1)
    BY <1>0, <1>3 DEF AdoptByRename, ReturnByRename, Working
  <2>2. legacy' \in Places /\ stable' \in Places /\ job' \in 0..(N + 1) /\ saved' = saved
    BY <1>3, <2>1 DEF AdoptByRename, ReturnByRename
  <2> QED
    BY <1>3, <2>2 DEF AdoptByRename, ReturnByRename
<1>4. CASE AdoptByCopy
  <2>1. job \in Resources /\ job + 1 \in 0..(N + 1)
    BY <1>0, <1>4 DEF AdoptByCopy, Working
  <2> QED
    BY <1>4, <2>1 DEF AdoptByCopy
<1>5. CASE ReturnByCopy
  <2>1. job \in Resources /\ job + 1 \in 0..(N + 1)
    BY <1>0, <1>5 DEF ReturnByCopy, Working
  <2> QED
    BY <1>5, <2>1 DEF ReturnByCopy
<1>6. CASE SaveOriginal
  BY <1>6 DEF SaveOriginal, Working
<1>7. ASSUME NEW r \in Resources, OwnerWrites(r) PROVE FilesHold'
  <2>1. Fresh \in Version /\ writes' \in 0..MaxWrites
    BY <1>7, FreshVersion, MoveConstants DEF OwnerWrites
  <2>2. PICK ino \in {"new"} \cup (IF stable[r] = None THEN {} ELSE {stable[r].ino}) :
          stable' = [stable EXCEPT ![r] = [ino |-> ino, ver |-> Fresh]]
    BY <1>7 DEF OwnerWrites
  <2>3. ino \in Writers
    BY MoveConstants DEF Writers
  <2>4. [ino |-> ino, ver |-> Fresh] \in File
    BY <2>1, <2>3, MoveConstants
  <2>5. stable' \in Places
    BY <2>2, <2>4
  <2>6. current' \in [Resources -> Version \cup {None}]
        /\ owed' \in [Resources -> SUBSET Version]
    BY <1>7, <2>1 DEF OwnerWrites
  <2> QED
    BY <1>7, <2>1, <2>5, <2>6 DEF OwnerWrites
<1>8. ASSUME NEW r \in Resources, OwnerDeletes(r) PROVE FilesHold'
  BY <1>8, MoveConstants DEF OwnerDeletes
<1>9. ASSUME NEW r \in Resources, Stray(r) PROVE FilesHold'
  <2>1. Fresh \in Version /\ strays' \in 0..MaxStrays
    BY <1>9, FreshVersion, MoveConstants DEF Stray
  <2>2. PICK ino : ino = IF legacy[r] = None THEN "stray" ELSE legacy[r].ino
    OBVIOUS
  <2>3. ino \in Writers
    BY <2>2, MoveConstants DEF Writers
  <2>4. [ino |-> ino, ver |-> Fresh] \in File
    BY <2>1, <2>3, MoveConstants
  <2>5. legacy' \in Places
    BY <1>9, <2>2, <2>4 DEF Stray
  <2>6. owed' \in [Resources -> SUBSET Version]
    BY <1>9, <2>1 DEF Stray
  <2> QED
    BY <1>9, <2>1, <2>5, <2>6 DEF Stray
<1>10. CASE UNCHANGED moveVars
  BY <1>10 DEF moveVars
<1> QED
  BY <1>1, <1>2, <1>3, <1>4, <1>5, <1>6, <1>7, <1>8, <1>9, <1>10 DEF MovesNext, JobStep

\* Version v of resource r is complete in one of the places.
Kept(r, v) ==
    \/ legacy[r] # None /\ legacy[r].ver = v
    \/ stable[r] # None /\ stable[r].ver = v
    \/ saved[r] # None /\ saved[r].ver = v

NothingLostYet == \A r \in Resources : \A v \in owed[r] : Kept(r, v)

LEMMA KeptMeansNothingLost == NothingLost <=> NothingLostYet
BY DEF NothingLost, NothingLostYet, Kept

\* A change of one resource at one place gives up what it replaces there, and
\* only what is in no other place.
LEMMA ReplacedOnly ==
    ASSUME NEW r \in Resources, NEW v, Kept(r, v),
           NEW f \in {legacy, stable, saved}, f[r] # None => v \notin Replaced(r, f)
    PROVE  \E g \in {legacy, stable, saved} : g # f /\ g[r] # None /\ g[r].ver = v
BY DEF Kept, Replaced

LEMMA LostStep == FilesHold /\ NothingLostYet /\ [MovesNext]_moveVars => NothingLostYet'
<1> SUFFICES ASSUME FilesHold, NothingLostYet, [MovesNext]_moveVars PROVE NothingLostYet'
  OBVIOUS
<1>0. /\ legacy \in Places /\ stable \in Places /\ saved \in Places
      /\ owed \in [Resources -> SUBSET Version]
  BY DEF FilesHold
<1> USE DEF Places, stages, history, files
<1>1. ASSUME UNCHANGED owed, \A r \in Resources, v \in Version : Kept(r, v) => Kept(r, v)'
      PROVE  NothingLostYet'
  BY <1>0, <1>1 DEF NothingLostYet
<1>2. CASE UNCHANGED files /\ UNCHANGED owed
  BY <1>1, <1>2 DEF Kept
<1>3. CASE PrepareMove \/ PrepareReturn \/ StartJob \/ JobStops \/ JobDone \/ OwnerStarts
           \/ OwnerStops \/ DiscardScratch \/ UNCHANGED moveVars
  BY <1>2, <1>3 DEF PrepareMove, PrepareReturn, StartJob, JobStops, JobDone, OwnerStarts,
     OwnerStops, DiscardScratch, moveVars
<1>4. CASE AdoptByRename
  <2>1. CASE UNCHANGED files
    BY <1>2, <1>4, <2>1 DEF AdoptByRename
  <2>2. CASE /\ MayRename(legacy[job], stable[job], plan[job])
             /\ stable' = [stable EXCEPT ![job] = legacy[job]]
             /\ legacy' = [legacy EXCEPT ![job] = None] /\ UNCHANGED saved
    BY <1>0, <1>1, <1>4, <2>2 DEF AdoptByRename, MayRename, Kept
  <2> QED
    BY <1>4, <2>1, <2>2 DEF AdoptByRename
<1>5. CASE ReturnByRename
  <2>1. CASE UNCHANGED files
    BY <1>2, <1>5, <2>1 DEF ReturnByRename
  <2>2. CASE /\ MayRename(stable[job], legacy[job], back[job])
             /\ legacy' = [legacy EXCEPT ![job] = stable[job]]
             /\ stable' = [stable EXCEPT ![job] = None] /\ UNCHANGED saved
    BY <1>0, <1>1, <1>5, <2>2 DEF ReturnByRename, MayRename, Kept
  <2> QED
    BY <1>5, <2>1, <2>2 DEF ReturnByRename
<1>6. CASE AdoptByCopy
  <2>1. UNCHANGED <<legacy, saved, owed>>
        /\ (stable' = stable \/ \E f : stable[job] = None /\ stable' = [stable EXCEPT ![job] = f])
    <3>1. stable[job] \in File \cup {None}
      BY <1>0, <1>6 DEF AdoptByCopy, Working
    <3>2. CASE UNCHANGED stable
      BY <1>6, <3>2 DEF AdoptByCopy
    <3>3. ASSUME NEW f, NEW s,
                 CopyStep(stable[job], adoptStage[job], f, s, plan[job], "copy"),
                 stable' = [stable EXCEPT ![job] = f]
          PROVE  stable' = stable \/ stable[job] = None
      BY <1>0, <3>1, <3>3, CopyEffect
    <3> QED
      BY <1>6, <3>2, <3>3 DEF AdoptByCopy
  <2> QED
    BY <1>0, <1>1, <2>1 DEF Kept
<1>7. CASE ReturnByCopy
  <2>1. UNCHANGED <<stable, saved, owed>>
        /\ (legacy' = legacy \/ \E f : legacy[job] = None /\ legacy' = [legacy EXCEPT ![job] = f])
    <3>1. legacy[job] \in File \cup {None}
      BY <1>0, <1>7 DEF ReturnByCopy, Working
    <3>2. CASE UNCHANGED legacy
      BY <1>7, <3>2 DEF ReturnByCopy
    <3>3. ASSUME NEW f, NEW s,
                 CopyStep(legacy[job], returnStage[job], f, s, back[job], "returned"),
                 legacy' = [legacy EXCEPT ![job] = f]
          PROVE  legacy' = legacy \/ legacy[job] = None
      BY <1>0, <3>1, <3>3, CopyEffect
    <3> QED
      BY <1>7, <3>2, <3>3 DEF ReturnByCopy
  <2> QED
    BY <1>0, <1>1, <2>1 DEF Kept
<1>8. CASE SaveOriginal
  <2>1. /\ saved' = [saved EXCEPT ![job] = legacy[job]]
        /\ legacy' = [legacy EXCEPT ![job] = None]
        /\ saved[job] = None /\ UNCHANGED <<stable, owed>>
    BY <1>8 DEF SaveOriginal
  <2> QED
    BY <1>0, <1>1, <2>1 DEF Kept
<1>9. ASSUME NEW r \in Resources, OwnerWrites(r) \/ OwnerDeletes(r) PROVE NothingLostYet'
  <2>1. PICK f \in File \cup {None} : stable' = [stable EXCEPT ![r] = f]
    <3>1. CASE OwnerDeletes(r)
      BY <3>1 DEF OwnerDeletes
    <3>2. CASE OwnerWrites(r)
      <4>1. FilesHold' /\ stable' = [stable EXCEPT ![r] = stable'[r]]
        BY <1>0, <3>2, FilesStep DEF OwnerWrites
      <4> QED
        BY <4>1 DEF FilesHold
    <3> QED
      BY <1>9, <3>1, <3>2
  <2>2. /\ UNCHANGED <<legacy, saved>>
        /\ \A q \in Resources \ {r} : owed'[q] = owed[q]
        /\ \A v \in owed'[r] :
             \/ f # None /\ f.ver = v
             \/ v \in owed[r] /\ (stable[r] # None => v \notin Replaced(r, stable))
    <3>1. CASE OwnerDeletes(r)
      BY <1>0, <3>1 DEF OwnerDeletes
    <3>2. CASE OwnerWrites(r)
      <4>1. f # None /\ f.ver = Fresh
        <5>1. PICK ino \in {"new"} \cup (IF stable[r] = None THEN {} ELSE {stable[r].ino}) :
                stable' = [stable EXCEPT ![r] = [ino |-> ino, ver |-> Fresh]]
          BY <3>2 DEF OwnerWrites
        <5>2. ino \in Writers /\ Fresh \in Version
          BY <1>0, <3>2, MoveConstants, FreshVersion DEF OwnerWrites, Writers
        <5>3. f = [ino |-> ino, ver |-> Fresh]
          BY <1>0, <2>1, <5>1
        <5> QED
          BY <5>2, <5>3, MoveConstants
      <4>2. owed' = [owed EXCEPT ![r] =
                       (IF stable[r] = None THEN owed[r] ELSE owed[r] \ Replaced(r, stable))
                         \cup {Fresh}]
        BY <3>2 DEF OwnerWrites
      <4> QED
        BY <1>0, <3>2, <4>1, <4>2 DEF OwnerWrites
    <3> QED
      BY <1>9, <3>1, <3>2
  <2>3. \A q \in Resources \ {r} : \A v : Kept(q, v) => Kept(q, v)'
    BY <1>0, <2>1, <2>2 DEF Kept
  <2>4. ASSUME NEW v \in owed'[r] PROVE Kept(r, v)'
    <3>1. CASE f # None /\ f.ver = v
      BY <1>0, <2>1, <3>1 DEF Kept
    <3>2. CASE v \in owed[r] /\ (stable[r] # None => v \notin Replaced(r, stable))
      <4>1. \E g \in {legacy, stable, saved} : g # stable /\ g[r] # None /\ g[r].ver = v
        BY <3>2, ReplacedOnly DEF NothingLostYet
      <4> QED
        BY <2>2, <4>1 DEF Kept
    <3> QED
      BY <2>2, <3>1, <3>2
  <2> QED
    BY <2>2, <2>3, <2>4 DEF NothingLostYet
<1>10. ASSUME NEW r \in Resources, Stray(r) PROVE NothingLostYet'
  <2>1. PICK f : f.ver = Fresh /\ f # None /\ legacy' = [legacy EXCEPT ![r] = f]
    <3>1. PICK ino : ino = IF legacy[r] = None THEN "stray" ELSE legacy[r].ino
      OBVIOUS
    <3>2. ino \in Writers /\ Fresh \in Version
      BY <1>0, <1>10, <3>1, MoveConstants, FreshVersion DEF Writers, Stray
    <3>3. [ino |-> ino, ver |-> Fresh] # None /\ [ino |-> ino, ver |-> Fresh].ver = Fresh
      BY <3>2, MoveConstants
    <3> QED
      BY <1>10, <3>1, <3>3 DEF Stray
  <2>2. /\ UNCHANGED <<stable, saved>>
        /\ owed' = [owed EXCEPT ![r] =
                      (IF legacy[r] = None THEN owed[r] ELSE owed[r] \ Replaced(r, legacy))
                        \cup {Fresh}]
    BY <1>10 DEF Stray
  <2>3. \A q \in Resources \ {r} : \A v : Kept(q, v) => Kept(q, v)'
    BY <1>0, <2>1, <2>2 DEF Kept
  <2>4. ASSUME NEW v \in owed'[r] PROVE Kept(r, v)'
    <3>1. CASE v = Fresh
      BY <1>0, <2>1, <3>1 DEF Kept
    <3>2. CASE v \in owed[r] /\ (legacy[r] # None => v \notin Replaced(r, legacy))
      <4>1. \E g \in {legacy, stable, saved} : g # legacy /\ g[r] # None /\ g[r].ver = v
        BY <3>2, ReplacedOnly DEF NothingLostYet
      <4> QED
        BY <2>2, <4>1 DEF Kept
    <3> QED
      BY <1>0, <2>2, <3>1, <3>2
  <2> QED
    BY <1>0, <2>2, <2>3, <2>4 DEF NothingLostYet
<1> QED
  BY <1>3, <1>4, <1>5, <1>6, <1>7, <1>8, <1>9, <1>10 DEF MovesNext, JobStep

\* Whatever is interrupted, and whoever changes the old files meanwhile, the last
\* version that anybody has written of a resource is in one of the places.
THEOREM NothingIsLost == MovesSpec => []NothingLost
<1>1. MovesInit => NothingLostYet
  BY MoveConstants DEF MovesInit, NothingLostYet, Kept, Version, Writers
<1> QED
  BY <1>1, FilesInit, FilesStep, LostStep, KeptMeansNothingLost, PTL DEF MovesSpec

\* What is at a place is what the last owner left of resource r.
IsCurrent(f, r) == IF current[r] = None THEN f = None ELSE f # None /\ f.ver = current[r]

\* Moved: at the one place or at the other, and nothing at both.
AtOneOf(from, to, move) == (from = move /\ to = None) \/ (from = None /\ to = move)

AdoptHolds(r) ==
    /\ IsCurrent(plan[r], r)
    /\ transfer = "rename" =>
         AtOneOf(legacy[r], stable[r], plan[r]) /\ (r < job => stable[r] = plan[r])
    /\ transfer = "copy" =>
         /\ legacy[r] = plan[r]
         /\ stable[r] # None => IsPublished(stable[r], plan[r])
         /\ r < job /\ plan[r] # None => stable[r] # None

ReturnHolds(r) ==
    /\ transfer = "rename" =>
         /\ IsCurrent(back[r], r)
         /\ AtOneOf(stable[r], legacy[r], back[r]) /\ (r < job => legacy[r] = back[r])
    /\ transfer = "copy" =>
         \/ current[r] = None
         \/ back[r] = None /\ IsCurrent(legacy[r], r)
         \/ /\ back[r] # None /\ back[r].ver = current[r]
            /\ r < job => IsPublished(legacy[r], back[r])

\* Where the current version of each resource is, if nobody interferes.
PlaceHolds(r) ==
    /\ phase = "idle" => IsCurrent(legacy[r], r) /\ stable[r] = None
    /\ phase = "adopting" => AdoptHolds(r)
    /\ phase = "adopted" => IsCurrent(stable[r], r) /\ (transfer = "rename" => legacy[r] = None)
    /\ phase = "returning" => ReturnHolds(r)
    /\ phase = "returned" =>
         IF current[r] = None THEN transfer = "copy" \/ legacy[r] = None
         ELSE legacy[r] # None /\ legacy[r].ver = current[r]

MoveHolds ==
    /\ running => phase = "adopted"
    /\ job # 0 => phase \in {"adopting", "returning"}
    /\ strays = 0 => \A r \in Resources : PlaceHolds(r)

LEMMA MoveInit == MovesInit => MoveHolds
<1> SUFFICES ASSUME MovesInit PROVE MoveHolds
  OBVIOUS
<1>1. 0 # None /\ [ino |-> "old", ver |-> 0] # None
  BY MoveConstants DEF Version, Writers
<1>2. ASSUME NEW r \in Resources PROVE PlaceHolds(r)
  BY <1>1 DEF MovesInit, PlaceHolds, IsCurrent, Empty
<1> QED
  BY <1>2 DEF MovesInit, MoveHolds

\* The host's steps.
LEMMA HostStep ==
    ASSUME FilesHold, MoveHolds,
           PrepareMove \/ PrepareReturn \/ StartJob \/ JobStops \/ JobDone \/ DiscardScratch
    PROVE  MoveHolds'
<1> USE DEF stages, history, files
<1>1. /\ N \in Nat /\ \A r \in Resources : r \in 1..N
      /\ legacy \in Places /\ stable \in Places /\ plan \in Places
  BY RetainedMoveAssumption DEF Resources, FilesHold
<1>2. CASE PrepareMove
  <2>1. job = 0 /\ running = FALSE
    BY <1>2 DEF PrepareMove, MoveHolds, FilesHold
  <2>2. ASSUME NEW r \in Resources, PlaceHolds(r) PROVE PlaceHolds(r)'
    BY <1>1, <1>2, <2>1, <2>2 DEF PrepareMove, PlaceHolds, AdoptHolds, IsCurrent, AtOneOf
  <2> QED
    BY <1>2, <2>1, <2>2 DEF PrepareMove, MoveHolds
<1>3. CASE PrepareReturn
  <2>1. ASSUME NEW r \in Resources, PlaceHolds(r) PROVE PlaceHolds(r)'
    <3>1. /\ job = 0 /\ job' = 0 /\ phase' = "returning" /\ phase \in {"adopting", "adopted"}
          /\ UNCHANGED <<transfer, plan, legacy, stable, current>>
          /\ back'[r] = IF stable[r] # None THEN stable[r]
                        ELSE IF transfer = "rename" /\ legacy[r] # None THEN plan[r] ELSE None
      BY <1>3 DEF PrepareReturn, ReturnMoves
    <3>2. ~(r < job')
      BY <1>1, <3>1
    <3>3. ReturnHolds(r)'
      BY <2>1, <3>1, <3>2 DEF PlaceHolds, AdoptHolds, ReturnHolds, IsCurrent, AtOneOf,
         IsPublished
    <3> QED
      BY <3>1, <3>3 DEF PlaceHolds
  <2> QED
    BY <1>3, <2>1 DEF PrepareReturn, MoveHolds
<1>4. CASE StartJob \/ JobStops
  <2>1. /\ job' \in {0, 1} /\ (job' # 0 => phase \in {"adopting", "returning"})
        /\ UNCHANGED <<transfer, phase, running, plan, back, legacy, stable, current, strays>>
    BY <1>4 DEF StartJob, JobStops
  <2>2. \A r \in Resources : ~(r < job')
    BY <1>1, <2>1
  <2>3. ASSUME NEW r \in Resources, PlaceHolds(r) PROVE PlaceHolds(r)'
    BY <2>1, <2>2, <2>3 DEF PlaceHolds, AdoptHolds, ReturnHolds, IsCurrent, AtOneOf,
       IsPublished
  <2> QED
    BY <2>1, <2>3 DEF MoveHolds
<1>5. CASE JobDone
  <2>1. ASSUME NEW r \in Resources, PlaceHolds(r) PROVE PlaceHolds(r)'
    <3>1. r < job /\ transfer \in {"rename", "copy"} /\ phase \in {"adopting", "returning"}
      BY <1>1, <1>5 DEF JobDone, FilesHold, MoveHolds
    <3>2. /\ UNCHANGED <<transfer, plan, back, legacy, stable, current>>
          /\ phase' = IF phase = "adopting" THEN "adopted" ELSE "returned"
      BY <1>5 DEF JobDone
    <3>3. CASE phase = "adopting"
      BY <2>1, <3>1, <3>2, <3>3 DEF PlaceHolds, AdoptHolds, IsCurrent, AtOneOf, IsPublished
    <3>4. CASE phase = "returning"
      BY <2>1, <3>1, <3>2, <3>4 DEF PlaceHolds, ReturnHolds, IsCurrent, AtOneOf, IsPublished
    <3> QED
      BY <3>1, <3>3, <3>4
  <2>2. running' = FALSE
    BY <1>1, <1>5 DEF JobDone, MoveHolds, FilesHold
  <2> QED
    BY <1>5, <2>1, <2>2 DEF JobDone, MoveHolds
<1>6. CASE DiscardScratch
  BY <1>6 DEF DiscardScratch, MoveHolds, PlaceHolds, AdoptHolds, ReturnHolds, IsCurrent,
     AtOneOf, IsPublished
<1> QED
  BY <1>2, <1>3, <1>4, <1>5, <1>6

\* The jobs' steps.
LEMMA WorkStep ==
    ASSUME FilesHold, MoveHolds,
           AdoptByRename \/ ReturnByRename \/ AdoptByCopy \/ SaveOriginal \/ ReturnByCopy
    PROVE  MoveHolds'
<1> USE DEF stages, history, files
<1>1. /\ N \in Nat /\ job \in 1..N /\ \A r \in Resources : r \in 1..N
      /\ legacy \in Places /\ stable \in Places /\ plan \in Places /\ back \in Places
      /\ UNCHANGED <<transfer, phase, running, plan, back, current, strays>>
      /\ phase \in {"adopting", "returning"}
  BY RetainedMoveAssumption DEF Resources, FilesHold, AdoptByRename, ReturnByRename,
     AdoptByCopy, SaveOriginal, ReturnByCopy, Working
\* One resource is worked on, or is done with.
<1>2. ASSUME NEW q, q = job, job' \in {job, job + 1},
             \A r \in Resources \ {q} : legacy'[r] = legacy[r] /\ stable'[r] = stable[r],
             PlaceHolds(q) => PlaceHolds(q)'
      PROVE  MoveHolds'
  <2>1. ASSUME NEW r \in Resources \ {q}, PlaceHolds(r) PROVE PlaceHolds(r)'
    <3>1. r < job' <=> r < job
      BY <1>1, <1>2
    <3>2. legacy'[r] = legacy[r] /\ stable'[r] = stable[r]
      BY <1>2
    <3> QED
      BY <1>1, <2>1, <3>1, <3>2 DEF PlaceHolds, AdoptHolds, ReturnHolds, IsCurrent,
         AtOneOf, IsPublished
  <2> QED
    BY <1>1, <1>2, <2>1 DEF MoveHolds
<1>3. CASE AdoptByRename
  <2>1. PICK q \in Resources : q = job
    BY <1>1 DEF Resources
  <2>2. /\ phase = "adopting" /\ transfer = "rename"
        /\ \/ /\ plan[q] = None \/ Renamed(legacy[q], stable[q], plan[q])
              /\ UNCHANGED files /\ job' = job + 1
           \/ /\ plan[q] # None /\ MayRename(legacy[q], stable[q], plan[q])
              /\ stable' = [stable EXCEPT ![q] = legacy[q]]
              /\ legacy' = [legacy EXCEPT ![q] = None]
              /\ job' = job
    BY <1>3, <2>1 DEF AdoptByRename, Working
  <2>3. \A r \in Resources \ {q} : legacy'[r] = legacy[r] /\ stable'[r] = stable[r]
    <3>1. CASE UNCHANGED files
      BY <3>1
    <3>2. ASSUME NEW f, NEW g, legacy' = [legacy EXCEPT ![q] = f],
                 stable' = [stable EXCEPT ![q] = g]
          PROVE  \A r \in Resources \ {q} : legacy'[r] = legacy[r] /\ stable'[r] = stable[r]
      BY <1>1, <3>2 DEF Places
    <3> QED
      BY <2>2, <3>1, <3>2
  <2>4. ~(q < job) /\ q < job + 1
    BY <1>1, <2>1
  <2>5. ASSUME PlaceHolds(q) PROVE PlaceHolds(q)'
    <3>1. CASE /\ plan[q] = None \/ Renamed(legacy[q], stable[q], plan[q])
               /\ UNCHANGED files /\ job' = job + 1
      BY <1>1, <2>2, <2>5, <3>1 DEF PlaceHolds, AdoptHolds, IsCurrent, AtOneOf, Renamed,
         Matches
    <3>2. CASE /\ plan[q] # None /\ MayRename(legacy[q], stable[q], plan[q])
               /\ stable'[q] = legacy[q] /\ legacy'[q] = None
               /\ job' = job
      BY <1>1, <2>2, <2>4, <2>5, <3>2 DEF PlaceHolds, AdoptHolds, IsCurrent, AtOneOf,
         MayRename, Matches
    <3> QED
      BY <1>1, <2>2, <3>1, <3>2 DEF Places
  <2> QED
    BY <1>2, <2>1, <2>2, <2>3, <2>5
<1>4. CASE ReturnByRename
  <2>1. PICK q \in Resources : q = job
    BY <1>1 DEF Resources
  <2>2. /\ phase = "returning" /\ transfer = "rename"
        /\ \/ /\ back[q] = None \/ Renamed(stable[q], legacy[q], back[q])
              /\ UNCHANGED files /\ job' = job + 1
           \/ /\ back[q] # None /\ MayRename(stable[q], legacy[q], back[q])
              /\ legacy' = [legacy EXCEPT ![q] = stable[q]]
              /\ stable' = [stable EXCEPT ![q] = None]
              /\ job' = job
    BY <1>4, <2>1 DEF ReturnByRename, Working
  <2>3. \A r \in Resources \ {q} : legacy'[r] = legacy[r] /\ stable'[r] = stable[r]
    <3>1. CASE UNCHANGED files
      BY <3>1
    <3>2. ASSUME NEW f, NEW g, legacy' = [legacy EXCEPT ![q] = f],
                 stable' = [stable EXCEPT ![q] = g]
          PROVE  \A r \in Resources \ {q} : legacy'[r] = legacy[r] /\ stable'[r] = stable[r]
      BY <1>1, <3>2 DEF Places
    <3> QED
      BY <2>2, <3>1, <3>2
  <2>4. ~(q < job) /\ q < job + 1
    BY <1>1, <2>1
  <2>5. ASSUME PlaceHolds(q) PROVE PlaceHolds(q)'
    <3>1. CASE /\ back[q] = None \/ Renamed(stable[q], legacy[q], back[q])
               /\ UNCHANGED files /\ job' = job + 1
      BY <1>1, <2>2, <2>5, <3>1 DEF PlaceHolds, ReturnHolds, IsCurrent, AtOneOf, Renamed,
         Matches
    <3>2. CASE /\ back[q] # None /\ MayRename(stable[q], legacy[q], back[q])
               /\ legacy'[q] = stable[q] /\ stable'[q] = None
               /\ job' = job
      BY <1>1, <2>2, <2>4, <2>5, <3>2 DEF PlaceHolds, ReturnHolds, IsCurrent, AtOneOf,
         MayRename, Matches
    <3> QED
      BY <1>1, <2>2, <3>1, <3>2 DEF Places
  <2> QED
    BY <1>2, <2>1, <2>2, <2>3, <2>5
<1>5. CASE AdoptByCopy
  <2>1. PICK q \in Resources : q = job
    BY <1>1 DEF Resources
  <2>2. phase = "adopting" /\ transfer = "copy" /\ legacy' = legacy
    BY <1>5 DEF AdoptByCopy, Working
  <2>3. ~(q < job)
    BY <1>1, <2>1
  <2>4. CASE /\ plan[q] = None \/ IsPublished(stable[q], plan[q])
             /\ UNCHANGED stable /\ job' = job + 1
    <3>1. ASSUME PlaceHolds(q) PROVE PlaceHolds(q)'
      BY <1>1, <2>2, <2>4, <3>1 DEF PlaceHolds, AdoptHolds, IsCurrent, IsPublished
    <3> QED
      BY <1>2, <2>1, <2>2, <2>4, <3>1
  <2>5. ASSUME NEW f \in File \cup {None}, NEW s, job' = job, plan[q] # None,
               CopyStep(stable[q], adoptStage[q], f, s, plan[q], "copy"),
               stable' = [stable EXCEPT ![q] = f]
        PROVE  MoveHolds'
    <3>1. f = stable[q] \/ (stable[q] = None /\ f = [ino |-> "copy", ver |-> plan[q].ver])
      BY <1>1, <2>5, CopyEffect DEF Places
    <3>2. stable'[q] = f /\ \A r \in Resources \ {q} : stable'[r] = stable[r]
      BY <1>1, <2>5 DEF Places
    <3>3. f = stable[q] \/ IsPublished(f, plan[q])
      BY <2>5, <3>1, MoveConstants DEF IsPublished
    <3>4. ASSUME PlaceHolds(q) PROVE PlaceHolds(q)'
      BY <1>1, <2>2, <2>3, <2>5, <3>2, <3>3, <3>4 DEF PlaceHolds, AdoptHolds, IsCurrent,
         IsPublished
    <3> QED
      BY <1>2, <2>1, <2>2, <2>5, <3>2, <3>4
  <2> QED
    BY <1>5, <2>1, <2>4, <2>5 DEF AdoptByCopy
<1>6. CASE SaveOriginal
  <2>1. PICK q \in Resources : q = job
    BY <1>1 DEF Resources
  <2>2. phase = "returning" /\ transfer = "copy" /\ back[q] # None /\ job' = job
        /\ legacy' = [legacy EXCEPT ![q] = None] /\ UNCHANGED stable
    BY <1>6, <2>1 DEF SaveOriginal, Working
  <2>3. ~(q < job)
    BY <1>1, <2>1
  <2>4. ASSUME PlaceHolds(q) PROVE PlaceHolds(q)'
    BY <1>1, <2>2, <2>3, <2>4 DEF PlaceHolds, ReturnHolds, IsCurrent
  <2> QED
    BY <1>1, <1>2, <2>1, <2>2, <2>4 DEF Places
<1>7. CASE ReturnByCopy
  <2>1. PICK q \in Resources : q = job
    BY <1>1 DEF Resources
  <2>2. phase = "returning" /\ transfer = "copy" /\ stable' = stable
    BY <1>7 DEF ReturnByCopy, Working
  <2>3. ~(q < job)
    BY <1>1, <2>1
  <2>4. CASE /\ back[q] = None \/ IsPublished(legacy[q], back[q])
             /\ UNCHANGED legacy /\ job' = job + 1
    <3>1. ASSUME PlaceHolds(q) PROVE PlaceHolds(q)'
      BY <1>1, <2>2, <2>4, <3>1 DEF PlaceHolds, ReturnHolds, IsCurrent, IsPublished
    <3> QED
      BY <1>2, <2>1, <2>2, <2>4, <3>1
  <2>5. ASSUME NEW f, job' = job, back[q] # None, legacy' = [legacy EXCEPT ![q] = f]
        PROVE  MoveHolds'
    <3>1. \A r \in Resources \ {q} : legacy'[r] = legacy[r]
      BY <1>1, <2>5 DEF Places
    <3>2. ASSUME PlaceHolds(q) PROVE PlaceHolds(q)'
      BY <1>1, <2>2, <2>3, <2>5, <3>2 DEF PlaceHolds, ReturnHolds, IsCurrent
    <3> QED
      BY <1>2, <2>1, <2>2, <2>5, <3>1, <3>2
  <2> QED
    BY <1>7, <2>1, <2>4, <2>5 DEF ReturnByCopy
<1> QED
  BY <1>3, <1>4, <1>5, <1>6, <1>7

LEMMA OwnerStep ==
    ASSUME FilesHold, MoveHolds,
           \/ OwnerStarts \/ OwnerStops
           \/ \E r \in Resources : OwnerWrites(r) \/ OwnerDeletes(r) \/ Stray(r)
    PROVE  MoveHolds'
<1> USE DEF stages, history, files
<1>1. /\ stable \in Places /\ current \in [Resources -> Version \cup {None}]
      /\ strays \in Nat
  BY MoveConstants DEF FilesHold
<1>2. CASE OwnerStarts \/ OwnerStops
  BY <1>2 DEF OwnerStarts, OwnerStops, MoveHolds, PlaceHolds, AdoptHolds, ReturnHolds,
     IsCurrent, AtOneOf, IsPublished
<1>3. ASSUME NEW r \in Resources, Stray(r) PROVE MoveHolds'
  <2>1. strays' # 0 /\ UNCHANGED <<running, phase, job>>
    BY <1>1, <1>3 DEF Stray
  <2> QED
    BY <2>1 DEF MoveHolds
<1>4. ASSUME NEW r \in Resources, OwnerWrites(r) \/ OwnerDeletes(r) PROVE MoveHolds'
  <2>1. phase = "adopted" /\ UNCHANGED <<running, phase, job, strays, transfer, legacy>>
    BY <1>4 DEF OwnerWrites, OwnerDeletes, MoveHolds
  <2>2. /\ IsCurrent(stable[r], r)'
        /\ \A q \in Resources \ {r} : stable'[q] = stable[q] /\ current'[q] = current[q]
    <3>1. CASE OwnerDeletes(r)
      BY <1>1, <3>1 DEF OwnerDeletes, IsCurrent, Places
    <3>2. CASE OwnerWrites(r)
      <4>1. PICK ino \in {"new"} \cup (IF stable[r] = None THEN {} ELSE {stable[r].ino}) :
              stable' = [stable EXCEPT ![r] = [ino |-> ino, ver |-> Fresh]]
        BY <3>2 DEF OwnerWrites
      <4>2. ino \in Writers /\ Fresh \in Version /\ Fresh # None
        BY <1>1, <3>2, MoveConstants, FreshVersion DEF OwnerWrites, Writers, Places
      <4>3. current' = [current EXCEPT ![r] = Fresh]
        BY <3>2 DEF OwnerWrites
      <4> QED
        BY <1>1, <4>1, <4>2, <4>3, MoveConstants DEF IsCurrent, Places
    <3> QED
      BY <1>4, <3>1, <3>2
  <2>3. ASSUME NEW q \in Resources, PlaceHolds(q) PROVE PlaceHolds(q)'
    BY <2>1, <2>2, <2>3 DEF PlaceHolds, IsCurrent
  <2> QED
    BY <2>1, <2>3 DEF MoveHolds
<1> QED
  BY <1>2, <1>3, <1>4

LEMMA MoveStep == FilesHold /\ MoveHolds /\ [MovesNext]_moveVars => MoveHolds'
<1>1. MoveHolds /\ UNCHANGED moveVars => MoveHolds'
  BY DEF moveVars, files, history, MoveHolds, PlaceHolds, AdoptHolds, ReturnHolds,
     IsCurrent, AtOneOf, IsPublished
<1> QED
  BY <1>1, HostStep, WorkStep, OwnerStep DEF MovesNext, JobStep

\* A return that has ended has brought back what the last owner left, however
\* often its job and the adoption's were interrupted.
THEOREM ReturnsCurrent == MovesSpec => []ReturnedIsCurrent
<1>1. MoveHolds => ReturnedIsCurrent
  BY DEF MoveHolds, PlaceHolds, ReturnedIsCurrent
<1> QED
  BY <1>1, FilesInit, FilesStep, MoveInit, MoveStep, PTL DEF MovesSpec

=============================================================================
