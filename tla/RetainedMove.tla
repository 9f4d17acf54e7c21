----------------------------- MODULE RetainedMove -----------------------------
(***************************************************************************)
(* Moving the resources of a stopped instance into a retained store and    *)
(* back (runtime/retained-store.ts, retained-store-copy.mjs, retained-     *)
(* store-job.mjs): adoption by rename or by verified copy, interrupted     *)
(* between any two changes of the file system, resumed or aborted, and the *)
(* return of what the new owner has made of the resources.                 *)
(*                                                                         *)
(* The host (external) persists the plan, repeats an interrupted job and   *)
(* keeps both instances stopped while one runs.  A job is where its loop   *)
(* stands: all else it needs it reads from the disk.  A file or directory  *)
(* is its identity (inode), named after who created it, and its version.   *)
(***************************************************************************)
EXTENDS Integers, FiniteSets

CONSTANTS
    N,           \* declared resources 1..N
    Required,    \* those that must exist
    None,
    MaxWrites,   \* bound: changes by applications
    MaxStops,    \* bound: jobs that are interrupted
    MaxStrays    \* bound: changes of the legacy files while both are fenced

Resources == 1..N

ASSUME RetainedMoveAssumption ==
    /\ N \in Nat \ {0} /\ Required \subseteq Resources
    /\ MaxWrites \in Nat /\ MaxStops \in Nat /\ MaxStrays \in Nat

VARIABLES
    transfer,   \* "rename" or "copy" (copy-verified)
    phase,      \* what the host is doing
    running,    \* the new owner runs and holds the lease of the store
    plan,       \* StoreMovePlan: the moves of the adoption
    back,       \* and those of the return
    job,        \* the resource the running job works on, N + 1: clean-up, 0: none
    legacy, stable, saved,   \* the files by place: None or their identity
    adoptStage, returnStage, \* private staging: None, "empty", "part" or a version
    writes, stops, strays,
    owed,       \* history: versions that nobody has replaced
    current     \* history: what the last owner left of each resource

files == <<legacy, stable, saved>>
stages == <<adoptStage, returnStage>>
history == <<owed, current>>
moveVars == <<transfer, phase, running, plan, back, job, files, stages, writes, stops,
          strays, history>>

Writers == {"old", "copy", "new", "returned", "stray"}
Version == 0..(MaxWrites + MaxStrays)
File == [ino : Writers, ver : Version]
Stage == {None, -1, -2} \cup Version

ASSUME NoneAssumption == None \notin File /\ None \notin Version \cup {-1, -2}

Nothing == -1    \* an empty staging directory
Part == -2       \* an incomplete payload

MovesTypeOK ==
    /\ transfer \in {"rename", "copy"}
    /\ phase \in {"idle", "adopting", "adopted", "returning", "returned"}
    /\ running \in BOOLEAN /\ job \in 0..(N + 1)
    /\ \A place \in {plan, back, legacy, stable, saved} :
         place \in [Resources -> File \cup {None}]
    /\ adoptStage \in [Resources -> Stage] /\ returnStage \in [Resources -> Stage]
    /\ writes \in 0..MaxWrites /\ stops \in 0..MaxStops /\ strays \in 0..MaxStrays

Empty == [r \in Resources |-> None]

MovesInit ==
    /\ transfer \in {"rename", "copy"}
    /\ \E present \in SUBSET Resources :
         /\ Required \subseteq present
         /\ legacy = [r \in Resources |->
                        IF r \in present THEN [ino |-> "old", ver |-> 0] ELSE None]
         /\ current = [r \in Resources |-> IF r \in present THEN 0 ELSE None]
         /\ owed = [r \in Resources |-> IF r \in present THEN {0} ELSE {}]
    /\ phase = "idle" /\ running = FALSE /\ job = 0
    /\ plan = Empty /\ back = Empty /\ stable = Empty /\ saved = Empty
    /\ adoptStage = Empty /\ returnStage = Empty
    /\ writes = 0 /\ stops = 0 /\ strays = 0

-----------------------------------------------------------------------------
(* The host prepares, and starts jobs.                                     *)

PrepareMove ==
    /\ phase = "idle"
    /\ \A r \in Required : legacy[r] # None
    /\ phase' = "adopting" /\ plan' = legacy
    /\ UNCHANGED <<transfer, running, back, job, files, stages, writes, stops, strays,
                   history>>

\* matches() pins the file, not what is in it.
Matches(f, move) == f # None /\ move # None /\ f.ino = move.ino

\* Fault: what was adopted is returned, not what is there now.
ReturnMovesAdopted == plan

\* The moves of prepareRetainedStoreReturn(): the current resources.
ReturnMoves ==
    [r \in Resources |->
        IF stable[r] # None THEN stable[r]
        ELSE IF transfer = "rename" /\ legacy[r] # None THEN plan[r] ELSE None]

Returnable ==
    \A r \in Resources :
        /\ transfer = "rename" => stable[r] = None \/ legacy[r] = None
        /\ stable[r] = None /\ legacy[r] # None =>
             /\ Matches(legacy[r], plan[r])
             /\ transfer = "copy" => legacy[r] = plan[r]
        /\ r \in Required => stable[r] # None \/ legacy[r] # None

\* After the owner has stopped, or instead of an adoption that was interrupted.
PrepareReturn ==
    /\ phase \in {"adopting", "adopted"} /\ job = 0 /\ ~running
    /\ Returnable
    /\ phase' = "returning" /\ back' = ReturnMoves
    /\ UNCHANGED <<transfer, running, plan, job, files, stages, writes, stops, strays,
                   history>>

StartJob ==
    /\ phase \in {"adopting", "returning"} /\ job = 0
    /\ job' = 1
    /\ UNCHANGED <<transfer, phase, running, plan, back, files, stages, writes, stops,
                   strays, history>>

\* A crash, an error or the 300 s time-out: the worker has ended when it is seen.
JobStops ==
    /\ job # 0 /\ stops < MaxStops
    /\ stops' = stops + 1 /\ job' = 0
    /\ UNCHANGED <<transfer, phase, running, plan, back, files, stages, writes, strays,
                   history>>

JobDone ==
    /\ job = N + 1
    /\ phase = "returning" => adoptStage = Empty
    /\ job' = 0
    /\ phase' = IF phase = "adopting" THEN "adopted" ELSE "returned"
    /\ UNCHANGED <<transfer, running, plan, back, files, stages, writes, stops, strays,
                   history>>

Working(p, t) == phase = p /\ transfer = t /\ job \in Resources

-----------------------------------------------------------------------------
(* applyRetainedStoreMove(): one rename for each resource.                 *)

\* Fault: a file in the way is replaced.
MayRenameOver(from, to, move) == Matches(from, move)

\* The file the plan names is there and nothing is in the way.
MayRename(from, to, move) == Matches(from, move) /\ to = None

Renamed(from, to, move) == from = None /\ Matches(to, move)

AdoptByRename ==
    /\ Working("adopting", "rename")
    /\ \/ /\ plan[job] = None \/ Renamed(legacy[job], stable[job], plan[job])
          /\ UNCHANGED files /\ job' = job + 1
       \/ /\ plan[job] # None /\ MayRename(legacy[job], stable[job], plan[job])
          /\ stable' = [stable EXCEPT ![job] = legacy[job]]
          /\ legacy' = [legacy EXCEPT ![job] = None]
          /\ UNCHANGED saved /\ job' = job
    /\ UNCHANGED <<transfer, phase, running, plan, back, stages, writes, stops, strays,
                   history>>

ReturnByRename ==
    /\ Working("returning", "rename")
    /\ \/ /\ back[job] = None \/ Renamed(stable[job], legacy[job], back[job])
          /\ UNCHANGED files /\ job' = job + 1
       \/ /\ back[job] # None /\ MayRename(stable[job], legacy[job], back[job])
          /\ legacy' = [legacy EXCEPT ![job] = stable[job]]
          /\ stable' = [stable EXCEPT ![job] = None]
          /\ UNCHANGED saved /\ job' = job
    /\ UNCHANGED <<transfer, phase, running, plan, back, stages, writes, stops, strays,
                   history>>

-----------------------------------------------------------------------------
(* copyClosed(): stage, verify, publish.  Each step is one change of the    *)
(* disk; the job finds out from the disk which is next.                     *)

\* Fault: a published copy is taken for foreign work.
IsPublishedNever(to, move) == FALSE

IsPublished(to, move) == move # None /\ to # None /\ to.ver = move.ver

\* The staging directory s of one resource and the files at its destination.
CopyStep(to, s, to2, s2, move, by) ==
    \/ /\ to = None /\ s = None
       /\ s2 = Nothing /\ to2 = to
    \/ /\ to = None /\ s = Nothing
       /\ s2 = Part /\ to2 = to
    \/ /\ to = None /\ s # None /\ s # Nothing /\ s # move.ver
       /\ s2 = move.ver /\ to2 = to
    \/ /\ to = None /\ s = move.ver
       /\ to2 = [ino |-> by, ver |-> s] /\ s2 = Nothing
    \/ /\ IsPublished(to, move) /\ s # None
       /\ s2 = None /\ to2 = to

AdoptByCopy ==
    /\ Working("adopting", "copy")
    /\ \/ /\ \/ plan[job] = None
             \/ /\ legacy[job] = plan[job] /\ IsPublished(stable[job], plan[job])
                /\ adoptStage[job] = None
          /\ job' = job + 1 /\ UNCHANGED <<stable, adoptStage>>
       \/ /\ plan[job] # None /\ legacy[job] = plan[job]
          /\ \E f \in File \cup {None}, s \in Stage :
               /\ CopyStep(stable[job], adoptStage[job], f, s, plan[job], "copy")
               /\ stable' = [stable EXCEPT ![job] = f]
               /\ adoptStage' = [adoptStage EXCEPT ![job] = s]
          /\ UNCHANGED job
    /\ UNCHANGED <<transfer, phase, running, plan, back, legacy, saved, returnStage,
                   writes, stops, strays, history>>

\* What is at the legacy path was changed since: it is not what is returned.
Differs(r) == legacy[r] # None /\ legacy[r].ver # back[r].ver

\* The original is kept beside its path before the current work comes back.
SaveOriginal ==
    /\ Working("returning", "copy") /\ back[job] # None /\ stable[job] = back[job]
    /\ Differs(job) /\ legacy[job] = plan[job] /\ saved[job] = None
    /\ saved' = [saved EXCEPT ![job] = legacy[job]]
    /\ legacy' = [legacy EXCEPT ![job] = None]
    /\ UNCHANGED <<transfer, phase, running, plan, back, job, stable, stages, writes,
                   stops, strays, history>>

ReturnByCopy ==
    /\ Working("returning", "copy")
    /\ \/ /\ \/ back[job] = None
             \/ /\ IsPublished(legacy[job], back[job]) /\ returnStage[job] = None
                /\ stable[job] = back[job]
                /\ saved[job] # None => saved[job] = plan[job]
          /\ job' = job + 1 /\ UNCHANGED <<legacy, returnStage>>
       \/ /\ back[job] # None /\ stable[job] = back[job] /\ ~Differs(job)
          /\ saved[job] # None => saved[job] = plan[job]
          /\ \E f \in File \cup {None}, s \in Stage :
               /\ CopyStep(legacy[job], returnStage[job], f, s, back[job], "returned")
               /\ legacy' = [legacy EXCEPT ![job] = f]
               /\ returnStage' = [returnStage EXCEPT ![job] = s]
          /\ UNCHANGED job
    /\ UNCHANGED <<transfer, phase, running, plan, back, stable, saved, adoptStage,
                   writes, stops, strays, history>>

\* Scratch of an adoption that was never published.
DiscardScratch ==
    /\ phase = "returning" /\ job = N + 1
    /\ \E r \in Resources :
         /\ adoptStage[r] # None
         /\ back[r] = None => legacy[r] = plan[r]
         /\ adoptStage' = [adoptStage EXCEPT ![r] = None]
    /\ UNCHANGED <<transfer, phase, running, plan, back, job, files, returnStage, writes,
                   stops, strays, history>>

-----------------------------------------------------------------------------
(* The new owner, and changes by others.                                   *)

\* runtimeLease(): no operation is under way, the store is not retired.
OwnerStarts ==
    /\ phase = "adopted" /\ ~running /\ running' = TRUE
    /\ UNCHANGED <<transfer, phase, plan, back, job, files, stages, writes, stops, strays,
                   history>>

OwnerStops ==
    /\ running /\ running' = FALSE
    /\ UNCHANGED <<transfer, phase, plan, back, job, files, stages, writes, stops, strays,
                   history>>

Fresh == writes + strays + 1

\* The versions at a place that a change of it replaces for good.
Replaced(r, f) ==
    {f[r].ver} \ {g[r].ver : g \in {h \in {legacy, stable, saved} : h # f /\ h[r] # None}}

\* In place, or by a new file that takes the name; or a new resource.
OwnerWrites(r) ==
    /\ running /\ writes < MaxWrites /\ writes' = writes + 1
    /\ \E ino \in {"new"} \cup (IF stable[r] = None THEN {} ELSE {stable[r].ino}) :
         stable' = [stable EXCEPT ![r] = [ino |-> ino, ver |-> Fresh]]
    /\ current' = [current EXCEPT ![r] = Fresh]
    /\ owed' = [owed EXCEPT ![r] =
                  (IF stable[r] = None THEN @ ELSE @ \ Replaced(r, stable)) \cup {Fresh}]
    /\ UNCHANGED <<transfer, phase, running, plan, back, job, legacy, saved, stages,
                   stops, strays>>

OwnerDeletes(r) ==
    /\ running /\ writes < MaxWrites /\ writes' = writes + 1
    /\ r \notin Required /\ stable[r] # None
    /\ stable' = [stable EXCEPT ![r] = None]
    /\ current' = [current EXCEPT ![r] = None]
    /\ owed' = [owed EXCEPT ![r] = @ \ Replaced(r, stable)]
    /\ UNCHANGED <<transfer, phase, running, plan, back, job, legacy, saved, stages,
                   stops, strays>>

\* A binary launched by hand ignores the fence of the old instance, between jobs.
Stray(r) ==
    /\ phase \in {"adopting", "adopted", "returning"} /\ job = 0
    /\ strays < MaxStrays /\ strays' = strays + 1
    /\ legacy' = [legacy EXCEPT ![r] =
                    [ino |-> IF legacy[r] = None THEN "stray" ELSE legacy[r].ino,
                     ver |-> Fresh]]
    /\ owed' = [owed EXCEPT ![r] =
                  (IF legacy[r] = None THEN @ ELSE @ \ Replaced(r, legacy)) \cup {Fresh}]
    /\ UNCHANGED <<transfer, phase, running, plan, back, job, stable, saved, stages,
                   writes, stops, current>>

JobStep ==
    \/ AdoptByRename \/ ReturnByRename \/ AdoptByCopy \/ SaveOriginal \/ ReturnByCopy
    \/ DiscardScratch \/ JobDone

MovesNext ==
    \/ PrepareMove \/ PrepareReturn \/ StartJob \/ JobStops \/ JobStep
    \/ OwnerStarts \/ OwnerStops
    \/ \E r \in Resources : OwnerWrites(r) \/ OwnerDeletes(r) \/ Stray(r)

MovesSpec == MovesInit /\ [][MovesNext]_moveVars

\* The host repeats an operation that is not finished, and jobs go on.
MovesFairness == WF_moveVars(StartJob) /\ WF_moveVars(JobStep)

-----------------------------------------------------------------------------
(* Properties.                                                             *)

\* Wherever a job is interrupted and whichever way the next one goes, what an
\* owner or anybody else has written last is complete in one of the places.
NothingLost ==
    \A r \in Resources : \A v \in owed[r] :
        \E f \in {legacy, stable, saved} : f[r] # None /\ f[r].ver = v

\* The return brings back the current resources, and no old snapshot: what the
\* last owner wrote, created or (moved by rename) deleted.
ReturnedIsCurrent ==
    phase = "returned" /\ strays = 0 =>
        \A r \in Resources :
            IF current[r] = None THEN transfer = "copy" \/ legacy[r] = None
            ELSE legacy[r] # None /\ legacy[r].ver = current[r]

\* No interruption leaves a state that repeating the operation cannot finish.
Resumes ==
    /\ phase = "adopting" ~> phase # "adopting" \/ strays > 0
    /\ phase = "returning" ~> phase = "returned" \/ strays > 0
=============================================================================
