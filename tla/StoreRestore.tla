------------------------------ MODULE StoreRestore ------------------------------
(***************************************************************************)
(* Restoring the retained stores of a Runtime from a verified snapshot     *)
(* (runtime/retained-store-storage.mjs) while the instances that own them  *)
(* may be started.  The restore can stop between any two changes of the    *)
(* disk and be repeated with the same snapshot; it keeps the root lease    *)
(* for itself, an owner shares it with the other owners.                   *)
(*                                                                         *)
(* SQLite locks (external) are free again when their process ends.  The    *)
(* manifest's own copy is left out: it is written through a temporary file *)
(* that every attempt discards first.                                      *)
(***************************************************************************)
EXTENDS Integers, FiniteSets

CONSTANTS
    Stores,
    Files,       \* entries of each store, as the manifest lists them
    Control,     \* store.json, which an owner reads
    NoStore,
    MaxHalts     \* bound: restores that do not come to their end

ASSUME StoreRestoreAssumption ==
    Control \in Files /\ (\A F \in SUBSET Files : F # NoStore) /\ MaxHalts \in Nat

VARIABLES
    marker,      \* state in retained-store-restore.json
    scratch,     \* a marker file under its temporary name
    stage,       \* retained-restore-stage exists
    staged,      \* entries there, by store
    partFile,    \* retained-file-*.part
    store,       \* entries of the published stores
    used,        \* stores that an owner has opened: lease file, and soon changes
    restorer,    \* where the restore stands
    owner,       \* where the start of each store's owner stands
    halts

restoreVars == <<marker, scratch, stage, staged, partFile, store, used, restorer,
                 owner, halts>>
disk == <<marker, scratch, stage, staged, partFile, store>>

RestoreTypeOK ==
    /\ marker \in {"none", "applying", "complete"}
    /\ scratch \in BOOLEAN /\ stage \in BOOLEAN /\ partFile \in BOOLEAN
    /\ staged \in [Stores -> SUBSET Files]
    /\ store \in [Stores -> {NoStore} \cup SUBSET Files]
    /\ used \in SUBSET Stores
    /\ restorer \in {"idle", "mark", "stage", "copy", "publish", "complete"}
    /\ owner \in [Stores -> {"out", "checked", "running"}]
    /\ halts \in 0..MaxHalts

\* A new root, or one whose stores are in use.
RestoreInit ==
    /\ used \in {{}, Stores}
    /\ store = [s \in Stores |-> IF s \in used THEN Files ELSE NoStore]
    /\ marker = "none" /\ scratch = FALSE /\ stage = FALSE /\ partFile = FALSE
    /\ staged = [s \in Stores |-> {}]
    /\ restorer = "idle" /\ owner = [s \in Stores |-> "out"] /\ halts = 0

-----------------------------------------------------------------------------
(* restoreRetained()                                                       *)

Published(s) == store[s] # NoStore

\* rootLease(root, true, true), then what the marker says.  A repeated call after
\* "complete" changes nothing; without a marker the root has to be empty.
BeginRestore ==
    /\ restorer = "idle"
    /\ \A s \in Stores : owner[s] # "running"
    /\ \/ /\ marker = "none" /\ ~scratch
          /\ \A s \in Stores : ~Published(s)
          /\ restorer' = "mark"
       \/ /\ marker = "applying"
          /\ restorer' = "stage"
    /\ UNCHANGED <<disk, used, owner, halts>>

\* atomicJSON() writes the marker under another name ...
WriteScratch ==
    /\ restorer \in {"mark", "complete"} /\ ~scratch
    /\ scratch' = TRUE
    /\ UNCHANGED <<marker, stage, staged, partFile, store, used, restorer, owner, halts>>

\* ... and renames it.
RenameMarker ==
    /\ restorer \in {"mark", "complete"} /\ scratch
    /\ scratch' = FALSE
    /\ marker' = IF restorer = "mark" THEN "applying" ELSE "complete"
    /\ restorer' = IF restorer = "mark" THEN "stage" ELSE "idle"
    /\ UNCHANGED <<stage, staged, partFile, store, used, owner, halts>>

\* The staging directory is made, then the root holds nothing unknown, or the
\* attempt ends.
MakeStage ==
    /\ restorer = "stage"
    /\ stage' = TRUE
    /\ restorer' = IF scratch THEN "idle" ELSE "copy"
    /\ UNCHANGED <<marker, scratch, staged, partFile, store, used, owner, halts>>

\* A published store is exactly what the snapshot holds, or is kept for review.
Exact(s) == Published(s) => store[s] = Files /\ s \notin used

Missing(s) == IF Published(s) THEN {} ELSE Files \ staged[s]

\* An entry is copied to its part file ...
CopyPart ==
    /\ restorer = "copy" /\ ~partFile
    /\ \E s \in Stores : Missing(s) # {}
    /\ partFile' = TRUE
    /\ UNCHANGED <<marker, scratch, stage, staged, store, used, restorer, owner, halts>>

\* ... which a repeated attempt copies again, verified and renamed.
StageEntry(s, f) ==
    /\ restorer = "copy" /\ partFile
    /\ f \in Missing(s)
    /\ partFile' = FALSE
    /\ staged' = [staged EXCEPT ![s] = @ \cup {f}]
    /\ UNCHANGED <<marker, scratch, stage, store, used, restorer, owner, halts>>

\* Fault: the directory of a store is taken for the store.
StagedAtAll(s) == Published(s) \/ staged[s] # {}

\* exactTree() of a store, staged or published.
StagedWhole(s) == Missing(s) = {}

\* Parts left behind are removed, then every store is compared with the manifest.
VerifyStage ==
    /\ restorer = "copy"
    /\ \A s \in Stores : StagedWhole(s)
    /\ partFile' = FALSE
    /\ restorer' = IF \A s \in Stores : Exact(s) THEN "publish" ELSE "idle"
    /\ UNCHANGED <<marker, scratch, stage, staged, store, used, owner, halts>>

PublishStore(s) ==
    /\ restorer = "publish" /\ ~Published(s)
    /\ Control \in staged[s]
    /\ store' = [store EXCEPT ![s] = staged[s]]
    /\ staged' = [staged EXCEPT ![s] = {}]
    /\ UNCHANGED <<marker, scratch, stage, partFile, used, restorer, owner, halts>>

RemoveStage ==
    /\ restorer = "publish"
    /\ \A s \in Stores : Published(s)
    /\ stage' = FALSE
    /\ restorer' = "complete"
    /\ UNCHANGED <<marker, scratch, staged, partFile, store, used, owner, halts>>

\* The process ends, or an error ends the attempt: then atomicJSON() removes its
\* scratch file.
RestoreStops ==
    /\ restorer # "idle" /\ halts < MaxHalts
    /\ halts' = halts + 1
    /\ restorer' = "idle"
    /\ \/ UNCHANGED scratch
       \/ restorer \in {"mark", "complete"} /\ scratch' = FALSE
    /\ UNCHANGED <<marker, stage, staged, partFile, store, used, owner>>

-----------------------------------------------------------------------------
(* runtimeLease(): available(root) first, then the locks and the binding.  *)

CheckAvailable(s) ==
    /\ owner[s] = "out"
    /\ marker # "applying"
    /\ owner' = [owner EXCEPT ![s] = "checked"]
    /\ UNCHANGED <<disk, used, restorer, halts>>

LockStore(s) ==
    /\ owner[s] = "checked"
    /\ IF restorer = "idle" /\ Published(s) /\ Control \in store[s]
         THEN owner' = [owner EXCEPT ![s] = "running"] /\ used' = used \cup {s}
         ELSE owner' = [owner EXCEPT ![s] = "out"] /\ UNCHANGED used
    /\ UNCHANGED <<disk, restorer, halts>>

\* close(), or the end of the process.
ReleaseStore(s) ==
    /\ owner[s] = "running"
    /\ owner' = [owner EXCEPT ![s] = "out"]
    /\ UNCHANGED <<disk, used, restorer, halts>>

-----------------------------------------------------------------------------

RestoreNext ==
    \/ BeginRestore \/ WriteScratch \/ RenameMarker \/ MakeStage \/ CopyPart
    \/ VerifyStage \/ RemoveStage \/ RestoreStops
    \/ \E s \in Stores :
         \/ \E f \in Files : StageEntry(s, f)
         \/ PublishStore(s)
         \/ CheckAvailable(s) \/ LockStore(s) \/ ReleaseStore(s)

RestoreSpec == RestoreInit /\ [][RestoreNext]_restoreVars

-----------------------------------------------------------------------------

\* Wherever restores stop and whenever owners start: a restore that is complete
\* has published every store whole, nobody ever owns part of a store, and the
\* store of an owner is never written again by a restore.
RestoredIsWhole ==
    [][ /\ marker' = "complete" => \A s \in Stores : store'[s] = Files
        /\ \A s \in Stores :
             /\ owner'[s] = "running" => store'[s] = Files
             /\ s \in used => store'[s] = store[s]
      ]_restoreVars

\* docs/retained-store-adoption.md: an incomplete root restore blocks startup.
IncompleteBlocksStartup ==
    \A s \in Stores : owner[s] = "running" => marker # "applying"

=============================================================================
