--------------------------- MODULE FileTransaction ---------------------------
(***************************************************************************)
(* packages/cli/src/lib/transaction.ts: one commitFileTransaction, which   *)
(* publishes an install, an update or a runtime's files over a project.    *)
(*                                                                         *)
(* The targets lie in a chain of nested directories, 1 inside the project  *)
(* root 0, 2 inside 1, and so on; those that exist are 1..depth.  A file's *)
(* bytes and mode are one of three: none, those found, those to publish.   *)
(* Writes go through a temporary and a rename, so no file is ever partial. *)
(***************************************************************************)
EXTENDS Integers, FiniteSetsExt

CONSTANTS
    Count,          \* number of mutations
    Depth           \* length of the chain of directories

ASSUME BoundsAssumption == Count \in Nat \ {0} /\ Depth \in Nat

Targets == 1..Count

VARIABLES
    \* the request and the project
    remove,     \* the targets whose mutation is a removal
    home,       \* the directory of each target
    adjacent,   \* the deepest directory that holds other files of the user
    file,       \* "absent", "found" or "published"
    depth,      \* how many directories of the chain exist
    \* the call
    pc, index,
    backup,     \* the targets whose bytes are in the transaction's workspace
    snapshots,  \* how many targets have been snapshotted
    existed,    \* of those, the ones that existed
    created,    \* createdDirectories
    result,     \* "committed", or the error the call will throw: "failed", or
                \* "broken" when it is that of the rollback itself
    \* what there was before the call
    before

request == <<remove, home, adjacent, before>>
vars == <<request, file, depth, pc, index, backup, snapshots, existed, created, result>>

PCs == {"start", "snapshot", "apply", "rename", "prune", "rollback",
        "cleanup", "done", "dead"}

\* Where directories stop being empty.
Occupied(files) == Max({0, adjacent} \cup {home[t] : t \in {u \in Targets : files[u] # "absent"}})

Init ==
    /\ remove \in SUBSET Targets
    /\ home \in [Targets -> 0..Depth]
    /\ depth \in 0..Depth
    /\ adjacent \in 0..depth
    /\ file \in [Targets -> {"absent", "found"}]
    /\ Occupied(file) <= depth
    /\ before = [file |-> file, depth |-> depth]
    /\ pc = "start" /\ index = 1
    /\ backup = {} /\ snapshots = 0 /\ existed = {}
    /\ created = {}
    /\ result = "none"

-----------------------------------------------------------------------------
(* The workspace and the snapshots *)

Stage ==
    /\ pc = "start"
    /\ pc' = "snapshot"
    /\ UNCHANGED <<request, file, depth, index, backup, snapshots, existed, created, result>>

\* A path is refused, or the workspace cannot be made: nothing to undo.
Refuse ==
    /\ pc = "start"
    /\ pc' = "done" /\ result' = "failed"
    /\ UNCHANGED <<request, file, depth, index, backup, snapshots, existed, created>>

\* The parents that have to be created for a target: all that are missing.
DirectParent(t) == {home[t]} \ 0..depth
MissingParents(t) == (depth + 1)..home[t]

BackedUpIfWritten(t) == t \notin remove
BackedUp(t) == file[t] # "absent"

Snapshot ==
    /\ pc = "snapshot"
    /\ existed' = IF file[index] # "absent" THEN existed \cup {index} ELSE existed
    /\ backup' = IF BackedUp(index) THEN backup \cup {index} ELSE backup
    /\ snapshots' = index
    /\ created' = created \cup MissingParents(index)
    /\ IF index = Count THEN pc' = "apply" /\ index' = 1
       ELSE index' = index + 1 /\ UNCHANGED pc
    /\ UNCHANGED <<request, file, depth, result>>

BeginRollback(last) ==
    /\ pc' = "rollback"
    /\ index' = last

\* The target is no regular file, or cannot be copied.
SnapshotFails ==
    /\ pc = "snapshot"
    /\ BeginRollback(snapshots)
    /\ UNCHANGED <<request, file, depth, backup, snapshots, existed, created, result>>

-----------------------------------------------------------------------------
(* The mutations *)

\* atomicWrite, up to its rename.
MakeParents ==
    /\ pc = "apply" /\ index <= Count /\ index \notin remove
    /\ depth' = Max({depth, home[index]})
    /\ pc' = "rename"
    /\ UNCHANGED <<request, file, index, backup, snapshots, existed, created, result>>

Rename ==
    /\ pc = "rename"
    /\ file' = [file EXCEPT ![index] = "published"]
    /\ pc' = "apply" /\ index' = index + 1
    /\ UNCHANGED <<request, depth, backup, snapshots, existed, created, result>>

Remove ==
    /\ pc = "apply" /\ index <= Count /\ index \in remove
    /\ file' = [file EXCEPT ![index] = "absent"]
    /\ pc' = "prune"
    /\ UNCHANGED <<request, depth, index, backup, snapshots, existed, created, result>>

Pruned(t) == IF home[t] = depth THEN Occupied(file) ELSE depth

\* pruneEmptyParents: rmdir from the file's directory upwards, until one is
\* not empty (or, for a file that was not there, does not exist).
Prune ==
    /\ pc = "prune"
    /\ depth' = Pruned(index)
    /\ pc' = "apply" /\ index' = index + 1
    /\ UNCHANGED <<request, file, backup, snapshots, existed, created, result>>

\* A directory, a temporary, a rename or a removal fails, or the option
\* failAfterMutation asks for it.
ApplyFails ==
    /\ pc \in {"apply", "rename"}
    /\ BeginRollback(snapshots)
    /\ UNCHANGED <<request, file, depth, backup, snapshots, existed, created, result>>

Commit ==
    /\ pc = "apply" /\ index > Count
    /\ pc' = "cleanup" /\ result' = "committed"
    /\ UNCHANGED <<request, file, depth, index, backup, snapshots, existed, created>>

-----------------------------------------------------------------------------
(* The rollback, last snapshot first *)

KeepsNewFiles(t) == IF t \in existed THEN "found" ELSE file[t]
Restored(t) == IF t \in existed THEN "found" ELSE "absent"

\* atomicWrite of the backup, or removal of what was not there.
Restore ==
    /\ pc = "rollback" /\ index > 0
    /\ file' = [file EXCEPT ![index] = Restored(index)]
    /\ depth' = IF index \in existed THEN Max({depth, home[index]}) ELSE depth
    /\ index' = index - 1
    /\ UNCHANGED <<request, pc, backup, snapshots, existed, created, result>>

\* A restore fails too, its parents created or not: its error replaces the one
\* that began the rollback, which ends there.
RestoreBreaks ==
    /\ pc = "rollback" /\ index > 0
    /\ depth' \in {depth, IF index \in existed THEN Max({depth, home[index]}) ELSE depth}
    /\ pc' = "cleanup" /\ result' = "broken"
    /\ UNCHANGED <<request, file, index, backup, snapshots, existed, created>>

\* removeEmptyCreatedDirectories, deepest first; one that is not empty stays.
RemoveCreated ==
    /\ pc = "rollback" /\ index = 0
    /\ depth' = Max({k \in 0..depth : k <= Occupied(file) \/ k \notin created})
    /\ pc' = "cleanup" /\ result' = "failed"
    /\ UNCHANGED <<request, file, index, backup, snapshots, existed, created>>

\* finally: the workspace is removed with the backups in it, or stays when
\* that fails and its error is the one reported.
Cleanup ==
    /\ pc = "cleanup"
    /\ \/ backup' = {} /\ UNCHANGED result
       \/ /\ result' = IF result = "broken" THEN result ELSE "failed"
          /\ UNCHANGED backup
    /\ pc' = "done"
    /\ UNCHANGED <<request, file, depth, index, snapshots, existed, created>>

\* The process dies.  No later call looks at the workspace it leaves.
Crash ==
    /\ pc \notin {"done", "dead"}
    /\ pc' = "dead"
    /\ UNCHANGED <<request, file, depth, index, backup, snapshots, existed, created, result>>

Next ==
    \/ Stage \/ Refuse \/ Snapshot \/ SnapshotFails
    \/ MakeParents \/ Rename \/ Remove \/ Prune \/ ApplyFails \/ Commit
    \/ Restore \/ RestoreBreaks \/ RemoveCreated \/ Cleanup \/ Crash

Spec == Init /\ [][Next]_vars

-----------------------------------------------------------------------------
(* Properties *)

TypeOK ==
    /\ file \in [Targets -> {"absent", "found", "published"}]
    /\ Occupied(file) <= depth /\ depth \in 0..Depth
    /\ pc \in PCs /\ index \in 0..(Count + 1)
    /\ backup \subseteq existed /\ existed \subseteq 1..snapshots
    /\ snapshots \in 0..Count
    /\ created \subseteq 1..Depth
    /\ result \in {"none", "committed", "failed", "broken"}

Wanted(t) == IF t \in remove THEN "absent" ELSE "published"
AllPublished == \A t \in Targets : file[t] = Wanted(t)
AllAsBefore == file = before.file

\* A call that ended left every target new, or every target as it was, unless
\* its rollback broke (commitFileTransaction).
AllOrPrevious ==
    pc = "done" /\ result # "broken" =>
        /\ AllPublished \/ AllAsBefore
        /\ result = "committed" => AllPublished

\* Until every target is new, the bytes of each file there was can be found,
\* in place or in the workspace, even if the process dies on the way.
PreviousRecoverable ==
    \A t \in Targets :
        before.file[t] = "found" /\ ~AllPublished /\ result # "broken" =>
            file[t] = "found" \/ t \in backup

\* A failed call leaves no directory behind that it created, and no call
\* removes one that holds other files.
DirectoriesKept ==
    /\ adjacent <= depth
    /\ pc = "done" /\ result # "broken" /\ ~AllPublished => depth <= before.depth
=============================================================================
