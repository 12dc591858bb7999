------------------------ MODULE FileTransactionProofs ------------------------
(***************************************************************************)
(* Theorems about FileTransaction, for any number of mutations and any     *)
(* depth of directories: a call leaves every target new or every target as *)
(* it was, the previous bytes can be found until then, and no directory is *)
(* left over or taken away.                                                *)
(***************************************************************************)
EXTENDS FileTransaction, FiniteSetTheorems, WellFoundedInduction, TLAPS

-----------------------------------------------------------------------------
(* The inductive invariant *)

\* The directories of all files, and those of the user, exist.
Fits(files, d) ==
    adjacent <= d /\ \A t \in Targets : files[t] # "absent" => home[t] <= d

RequestOK ==
    /\ remove \subseteq Targets
    /\ home \in [Targets -> 0..Depth]
    /\ adjacent \in 0..Depth
    /\ before.file \in [Targets -> {"absent", "found"}]
    /\ before.depth \in 0..Depth
    /\ Fits(before.file, before.depth)

StateOK ==
    /\ file \in [Targets -> {"absent", "found", "published"}]
    /\ depth \in 0..Depth /\ Fits(file, depth)
    /\ pc \in PCs /\ index \in 0..(Count + 1)
    /\ snapshots \in 0..Count
    /\ result \in {"none", "committed", "failed", "broken"}

\* The snapshots tell exactly what there was, the backups hold it until the
\* workspace is removed, and every directory that is new is a created one.
SnapshotsOK ==
    /\ existed = {t \in 1..snapshots : before.file[t] = "found"}
    /\ backup = existed \/ (pc = "done" /\ backup = {})
    /\ created \subseteq 1..Depth
    /\ \A t \in 1..snapshots : (before.depth + 1)..home[t] \subseteq created
    /\ (before.depth + 1)..depth \subseteq created

\* How far the call has come.
Before == file = before.file /\ depth = before.depth

Applying ==
    /\ snapshots = Count
    /\ \A t \in Targets :
          /\ t < index => file[t] = Wanted(t)
          /\ t > index => file[t] = before.file[t]

ProgressOK ==
    /\ pc \in {"start", "snapshot"} => Before /\ result = "none"
    /\ pc = "start" => snapshots = 0 /\ index = 1
    /\ pc = "snapshot" => index = snapshots + 1 /\ snapshots < Count
    /\ pc \in {"apply", "rename", "prune"} => Applying /\ index > 0 /\ result = "none"
    /\ pc = "rename" => index \in Targets \ remove /\ home[index] <= depth
    /\ pc = "prune" => index \in remove /\ file[index] = "absent"
    /\ pc = "rollback" =>
          /\ index <= snapshots /\ result = "none"
          /\ \A t \in Targets : t > index => file[t] = before.file[t]
    /\ pc = "cleanup" =>
          /\ result # "none"
          /\ result = "committed" => AllPublished
          /\ result = "failed" => AllAsBefore /\ depth <= before.depth
    /\ pc = "done" =>
          /\ result # "none"
          /\ result = "committed" => AllPublished
          /\ result = "failed" => AllPublished \/ (AllAsBefore /\ depth <= before.depth)

TransactionInv ==
    RequestOK /\ StateOK /\ SnapshotsOK /\ ProgressOK /\ PreviousRecoverable

-----------------------------------------------------------------------------
(* Maxima *)

\* A set of numbers up to D that is not empty has a greatest element: the set
\* of intervals x..D, x in S, has a minimal one.
LEMMA GreatestExists ==
    ASSUME NEW D \in Nat, NEW S \in SUBSET (0..D), S # {}
    PROVE  \E m \in S : \A x \in S : m >= x
<1> DEFINE T == {x..D : x \in S}
<1>1. T # {} /\ \A y \in T : y \subseteq 0..D
  <2>1. T # {}
    BY Zenon
  <2>2. \A x \in S : x..D \subseteq 0..D
    OBVIOUS
  <2> QED
    BY <2>1, <2>2, Zenon
<1>2. T \subseteq FiniteSubsetsOf(0..D)
  <2>1. IsFiniteSet(0..D)
    BY FS_Interval
  <2>2. \A y \in T : IsFiniteSet(y)
    BY <1>1, <2>1, FS_Subset
  <2> QED
    BY <1>1, <2>2 DEF FiniteSubsetsOf
<1>3. PICK y \in T : \A z \in T : <<z, y>> \notin StrictSubsetOrdering(0..D)
  <2>1. IsWellFoundedOn(StrictSubsetOrdering(0..D), FiniteSubsetsOf(0..D))
    BY FS_StrictSubsetOrderingWellFounded
  <2> HIDE DEF T
  <2> QED
    BY <1>1, <1>2, <2>1, WFMin, Zenon
<1>4. PICK m \in S : y = m..D
  OBVIOUS
<1>5. ASSUME NEW x \in S, x > m PROVE FALSE
  <2>1. x..D \in T /\ x..D \subseteq 0..D /\ y \subseteq 0..D
    BY <1>1
  <2>2. x..D \subseteq y /\ x..D # y
    BY <1>4, <1>5
  <2> QED
    BY <1>3, <2>1, <2>2 DEF StrictSubsetOrdering
<1> QED
  BY <1>5

\* Max is that element.
LEMMA MaxIsGreatest ==
    ASSUME NEW D \in Nat, NEW S \in SUBSET (0..D), S # {}
    PROVE  Max(S) \in S /\ \A x \in S : x <= Max(S)
<1>1. PICK m \in S : \A x \in S : m >= x
  BY GreatestExists
<1>2. Max(S) \in S /\ \A x \in S : Max(S) >= x
  BY <1>1, Zenon DEF Max
<1> QED
  BY <1>2

\* Directories stop being empty at the deepest one that somebody uses.
LEMMA OccupiedFits ==
    ASSUME RequestOK, NEW files
    PROVE  /\ Occupied(files) \in 0..Depth
           /\ Fits(files, Occupied(files))
           /\ \A d \in Nat : Fits(files, d) => Occupied(files) <= d
<1> DEFINE S == {0, adjacent} \cup {home[t] : t \in {u \in Targets : files[u] # "absent"}}
<1>1. S \in SUBSET (0..Depth) /\ S # {} /\ Depth \in Nat
  BY BoundsAssumption DEF RequestOK
<1>2. Max(S) \in S /\ \A x \in S : x <= Max(S)
  BY <1>1, MaxIsGreatest
<1>3. Occupied(files) = Max(S)
  BY DEF Occupied
<1>4. Fits(files, Max(S))
  BY <1>2 DEF Fits
<1>5. ASSUME NEW d \in Nat, Fits(files, d) PROVE Max(S) <= d
  BY <1>2, <1>5 DEF Fits
<1> QED
  BY <1>1, <1>2, <1>3, <1>4, <1>5

\* mkdir -p makes whatever is missing.
LEMMA Deeper ==
    ASSUME NEW d \in 0..Depth, NEW h \in 0..Depth
    PROVE  /\ Max({d, h}) \in 0..Depth
           /\ Max({d, h}) = IF d >= h THEN d ELSE h
<1>1. {d, h} \in SUBSET (0..Depth) /\ {d, h} # {} /\ Depth \in Nat
  BY BoundsAssumption
<1>2. Max({d, h}) \in {d, h} /\ \A x \in {d, h} : x <= Max({d, h})
  BY <1>1, MaxIsGreatest
<1> QED
  BY <1>2

-----------------------------------------------------------------------------
(* The initial states, and one lemma per phase of a call *)

\* A call that has not begun.
LEMMA InitInv == Init => TransactionInv
<1> SUFFICES ASSUME Init PROVE TransactionInv
  OBVIOUS
<1>1. remove \subseteq Targets /\ home \in [Targets -> 0..Depth] /\ adjacent \in 0..depth
      /\ depth \in 0..Depth /\ file \in [Targets -> {"absent", "found"}]
      /\ before.file = file /\ before.depth = depth
  BY DEF Init
<1>2. Fits(file, depth)
  <2> DEFINE S == {0, adjacent} \cup {home[t] : t \in {u \in Targets : file[u] # "absent"}}
  <2>1. S \in SUBSET (0..Depth) /\ S # {} /\ Depth \in Nat
    BY <1>1, BoundsAssumption
  <2>2. \A x \in S : x <= Max(S)
    BY <2>1, MaxIsGreatest
  <2>3. Max(S) <= depth
    BY DEF Init, Occupied
  <2>4. Max(S) \in 0..Depth
    BY <2>1, MaxIsGreatest
  <2> HIDE DEF S
  <2>5. \A x \in S : x \in 0..Depth
    BY <2>1
  <2>6. \A x \in S : x <= depth
    BY <1>1, <2>2, <2>3, <2>4, <2>5, BoundsAssumption
  <2>7. adjacent \in S /\ \A t \in Targets : file[t] # "absent" => home[t] \in S
    BY DEF S
  <2> QED
    BY <2>6, <2>7 DEF Fits
<1>3. RequestOK
  BY <1>1, <1>2, BoundsAssumption DEF RequestOK, Fits
<1>4. StateOK
  BY <1>1, <1>2, BoundsAssumption DEF Init, StateOK, PCs
<1>5. SnapshotsOK
  BY <1>1, BoundsAssumption DEF Init, SnapshotsOK
<1>6. ProgressOK
  BY <1>1 DEF Init, ProgressOK, Before
<1>7. PreviousRecoverable
  BY <1>1 DEF PreviousRecoverable
<1> QED
  BY <1>3, <1>4, <1>5, <1>6, <1>7 DEF TransactionInv

\* The steps that leave every file and every directory as they are.
LEMMA BookkeepingStep ==
    ASSUME TransactionInv,
           Stage \/ Refuse \/ SnapshotFails \/ ApplyFails \/ Commit \/ Cleanup \/ Crash
    PROVE  TransactionInv'
<1> USE DEF TransactionInv, BeginRollback
<1>1. /\ UNCHANGED <<request, file, depth, snapshots, existed, created>>
      /\ backup' = backup \/ (pc' = "done" /\ backup' = {})
  BY DEF Stage, Refuse, SnapshotFails, ApplyFails, Commit, Cleanup, Crash
<1>2. RequestOK'
  BY <1>1 DEF request, RequestOK, Fits
<1>3. StateOK'
  BY <1>1, BoundsAssumption
     DEF request, StateOK, Fits, PCs, Stage, Refuse, SnapshotFails, ApplyFails, Commit, Cleanup, Crash
<1>4. SnapshotsOK'
  BY <1>1 DEF request, SnapshotsOK, Stage, Refuse, SnapshotFails, ApplyFails, Commit, Cleanup, Crash
<1>5. ProgressOK' /\ PreviousRecoverable'
  <2> USE <1>1 DEF request, ProgressOK, PreviousRecoverable, AllPublished, Wanted, AllAsBefore,
                   Before, Applying, StateOK, Targets, SnapshotsOK
  <2>1. CASE Stage
    BY <2>1, BoundsAssumption DEF Stage
  <2>2. CASE Refuse
    BY <2>2, BoundsAssumption DEF Refuse
  <2>3. CASE SnapshotFails
    BY <2>3, BoundsAssumption DEF SnapshotFails
  <2>4. CASE ApplyFails
    BY <2>4, BoundsAssumption DEF ApplyFails
  <2>5. CASE Commit
    BY <2>5, BoundsAssumption DEF Commit
  <2>6. CASE Cleanup
    BY <2>6, BoundsAssumption DEF Cleanup
  <2>7. CASE Crash
    BY <2>7, BoundsAssumption DEF Crash
  <2> QED
    BY <2>1, <2>2, <2>3, <2>4, <2>5, <2>6, <2>7
<1> QED
  BY <1>2, <1>3, <1>4, <1>5

\* A snapshot adds one target to what the workspace and the list of missing
\* directories say; nothing has been written yet.
LEMMA SnapshotStep ==
    ASSUME TransactionInv, Snapshot
    PROVE  TransactionInv'
<1> USE DEF TransactionInv, Targets
<1>1. /\ UNCHANGED <<request, file, depth, result>> /\ pc = "snapshot"
      /\ file = before.file /\ depth = before.depth /\ result = "none"
      /\ index = snapshots + 1 /\ index \in 1..Count /\ snapshots' = index
      /\ backup = existed
  BY BoundsAssumption DEF Snapshot, ProgressOK, Before, StateOK, SnapshotsOK
<1>2. /\ existed' = existed \cup (IF before.file[index] = "found" THEN {index} ELSE {})
      /\ backup' = existed'
      /\ created' = created \cup (before.depth + 1)..home[index]
      /\ \/ index = Count /\ pc' = "apply" /\ index' = 1
         \/ index < Count /\ pc' = "snapshot" /\ index' = index + 1
  BY <1>1, BoundsAssumption DEF Snapshot, BackedUp, MissingParents, RequestOK
<1>3. RequestOK'
  BY <1>1 DEF request, RequestOK, Fits
<1>4. StateOK'
  BY <1>1, <1>2, BoundsAssumption DEF request, StateOK, Fits, PCs
<1>5. SnapshotsOK'
  <2>1. existed' = {t \in 1..snapshots' : before'.file[t] = "found"}
    BY <1>1, <1>2 DEF request, SnapshotsOK, StateOK
  <2>2. created' \subseteq 1..Depth
    <3>1. (before.depth + 1)..home[index] \subseteq 1..Depth
      BY <1>1, BoundsAssumption DEF RequestOK
    <3> QED
      BY <1>2, <3>1 DEF SnapshotsOK
  <2>3. \A t \in 1..snapshots' : (before'.depth + 1)..home'[t] \subseteq created'
    <3> SUFFICES ASSUME NEW t \in 1..snapshots'
                 PROVE  (before.depth + 1)..home[t] \subseteq created'
      BY <1>1 DEF request
    <3>1. CASE t = index
      BY <1>2, <3>1
    <3>2. CASE t # index
      BY <1>1, <1>2, <3>2 DEF SnapshotsOK, StateOK
    <3> QED
      BY <3>1, <3>2
  <2>4. (before'.depth + 1)..depth' \subseteq created'
    BY <1>1, <1>2 DEF request, SnapshotsOK
  <2> QED
    BY <1>2, <2>1, <2>2, <2>3, <2>4 DEF SnapshotsOK
<1>6. ProgressOK'
  BY <1>1, <1>2, BoundsAssumption DEF request, ProgressOK, Before, Applying, StateOK
<1>7. PreviousRecoverable'
  BY <1>1 DEF request, PreviousRecoverable
<1> QED
  BY <1>3, <1>4, <1>5, <1>6, <1>7

\* While the mutations are applied, or undone, every file there was is in the
\* workspace or has not been touched.
LEMMA BackedUpWhole ==
    ASSUME TransactionInv,
           pc \in {"apply", "rename", "prune", "rollback"},
           NEW t \in Targets, before.file[t] = "found"
    PROVE  t \in backup \/ (pc = "rollback" /\ t > snapshots /\ file[t] = "found")
<1> QED
  BY BoundsAssumption
     DEF TransactionInv, ProgressOK, Applying, SnapshotsOK, StateOK, Targets

\* The parents of a target are made, then the file is published.
LEMMA WriteStep ==
    ASSUME TransactionInv, MakeParents \/ Rename
    PROVE  TransactionInv'
<1> USE DEF TransactionInv, Targets
<1>1. /\ UNCHANGED <<request, backup, snapshots, existed, created, result>>
      /\ pc \in {"apply", "rename"} /\ index \in 1..Count /\ index \notin remove
      /\ snapshots = Count /\ backup = existed /\ home[index] \in 0..Depth
      /\ Applying /\ result = "none"
  BY BoundsAssumption
     DEF MakeParents, Rename, ProgressOK, Applying, StateOK, SnapshotsOK, RequestOK
<1>2. RequestOK'
  BY <1>1 DEF request, RequestOK, Fits
<1>3. PreviousRecoverable'
  BY <1>1, BackedUpWhole DEF request, PreviousRecoverable
<1>4. CASE MakeParents
  <2>1. /\ depth' \in 0..Depth /\ depth' = IF depth >= home[index] THEN depth ELSE home[index]
        /\ pc' = "rename" /\ UNCHANGED <<file, index>>
    BY <1>1, <1>4, Deeper DEF MakeParents, StateOK
  <2>2. depth <= depth' /\ home[index] <= depth'
    BY <1>1, <2>1, BoundsAssumption DEF StateOK
  <2>3. StateOK'
    BY <1>1, <2>1, <2>2, BoundsAssumption DEF request, StateOK, Fits, PCs, RequestOK
  <2>4. SnapshotsOK'
    <3>1. (before.depth + 1)..depth' \subseteq created
      BY <1>1, <2>1 DEF SnapshotsOK
    <3> QED
      BY <1>1, <2>1, <3>1 DEF request, SnapshotsOK
  <2>5. ProgressOK'
    BY <1>1, <2>1, <2>2 DEF request, ProgressOK, Applying, Wanted
  <2> QED
    BY <1>2, <1>3, <2>3, <2>4, <2>5
<1>5. CASE Rename
  <2>1. /\ file' = [file EXCEPT ![index] = "published"] /\ pc = "rename" /\ home[index] <= depth
        /\ pc' = "apply" /\ index' = index + 1 /\ UNCHANGED depth
    BY <1>1, <1>5 DEF Rename, ProgressOK
  <2>2. StateOK'
    BY <1>1, <2>1, BoundsAssumption DEF request, StateOK, Fits, PCs
  <2>3. SnapshotsOK'
    BY <1>1, <2>1 DEF request, SnapshotsOK
  <2>4. ProgressOK'
    BY <1>1, <2>1, BoundsAssumption DEF request, ProgressOK, Applying, Wanted, StateOK
  <2> QED
    BY <1>2, <1>3, <2>2, <2>3, <2>4
<1> QED
  BY <1>4, <1>5

\* A target is removed, then the parents it leaves empty.
LEMMA RemovalStep ==
    ASSUME TransactionInv, Remove \/ Prune
    PROVE  TransactionInv'
<1> USE DEF TransactionInv, Targets
<1>1. /\ UNCHANGED <<request, backup, snapshots, existed, created, result>>
      /\ pc \in {"apply", "prune"} /\ index \in 1..Count /\ index \in remove
      /\ snapshots = Count /\ backup = existed
      /\ Applying /\ result = "none"
  BY BoundsAssumption
     DEF Remove, Prune, ProgressOK, Applying, StateOK, SnapshotsOK, RequestOK
<1>2. RequestOK'
  BY <1>1 DEF request, RequestOK, Fits
<1>3. PreviousRecoverable'
  BY <1>1, BackedUpWhole DEF request, PreviousRecoverable
<1>4. CASE Remove
  <2>1. /\ file' = [file EXCEPT ![index] = "absent"]
        /\ pc' = "prune" /\ UNCHANGED <<depth, index>>
    BY <1>4 DEF Remove
  <2>2. StateOK'
    BY <1>1, <2>1, BoundsAssumption DEF request, StateOK, Fits, PCs
  <2>3. SnapshotsOK'
    BY <1>1, <2>1 DEF request, SnapshotsOK
  <2>4. ProgressOK'
    BY <1>1, <2>1, BoundsAssumption DEF request, ProgressOK, Applying, Wanted, StateOK
  <2> QED
    BY <1>2, <1>3, <2>2, <2>3, <2>4
<1>5. CASE Prune
  <2>1. /\ depth' \in {depth, Occupied(file)} /\ pc = "prune" /\ file[index] = "absent"
        /\ pc' = "apply" /\ index' = index + 1 /\ UNCHANGED file
    BY <1>5 DEF Prune, Pruned, ProgressOK
  <2>2. depth' \in 0..Depth /\ Fits(file, depth') /\ depth' <= depth
    BY <2>1, OccupiedFits, BoundsAssumption DEF StateOK
  <2>3. StateOK'
    BY <1>1, <2>1, <2>2, BoundsAssumption DEF request, StateOK, Fits, PCs
  <2>4. SnapshotsOK'
    <3>1. (before.depth + 1)..depth' \subseteq created
      BY <2>2, BoundsAssumption DEF SnapshotsOK, StateOK, RequestOK
    <3> QED
      BY <1>1, <2>1, <3>1 DEF request, SnapshotsOK
  <2>5. ProgressOK'
    BY <1>1, <2>1, BoundsAssumption DEF request, ProgressOK, Applying, Wanted, StateOK
  <2> QED
    BY <1>2, <1>3, <2>3, <2>4, <2>5
<1> QED
  BY <1>4, <1>5

\* A snapshotted target gets back what it had; its parents are made again.
LEMMA RestoreStep ==
    ASSUME TransactionInv, Restore \/ RestoreBreaks
    PROVE  TransactionInv'
<1> USE DEF TransactionInv, Targets
<1>1. /\ UNCHANGED <<request, backup, snapshots, existed, created>>
      /\ pc = "rollback" /\ index \in 1..snapshots /\ snapshots \in 0..Count
      /\ index \in 1..Count /\ index \in 1..(Count + 1)
      /\ backup = existed /\ result = "none"
      /\ index \in existed <=> before.file[index] = "found"
      /\ \A t \in Targets : t > index => file[t] = before.file[t]
  BY BoundsAssumption DEF Restore, RestoreBreaks, ProgressOK, StateOK, SnapshotsOK
<1>2. RequestOK'
  BY <1>1 DEF request, RequestOK, Fits
<1>3. /\ depth' \in 0..Depth /\ depth <= depth'
      /\ depth' = depth \/ (depth' = home[index] /\ index \in existed)
      /\ pc' = "rollback" /\ index \in existed => home[index] <= depth'
  <2>1. Max({depth, home[index]}) \in 0..Depth
        /\ Max({depth, home[index]}) = IF depth >= home[index] THEN depth ELSE home[index]
    BY <1>1, Deeper DEF StateOK, RequestOK
  <2>2. depth \in 0..Depth /\ home[index] \in 0..Depth
    BY <1>1 DEF StateOK, RequestOK
  <2> QED
    BY <2>1, <2>2, BoundsAssumption DEF Restore, RestoreBreaks
<1>4. SnapshotsOK'
  <2>1. index \in existed => home[index] <= before.depth
    BY <1>1 DEF RequestOK, Fits
  <2>2. (before.depth + 1)..depth' \subseteq created
    BY <1>3, <2>1, BoundsAssumption DEF SnapshotsOK, RequestOK
  <2> QED
    BY <1>1, <2>2 DEF request, SnapshotsOK
<1>5. CASE Restore
  <2>1. /\ file' = [file EXCEPT ![index] = before.file[index]]
        /\ pc' = pc /\ index' = index - 1 /\ result' = result
    <3>1. Restored(index) = before.file[index]
      BY <1>1 DEF Restored, RequestOK
    <3> QED
      BY <1>5, <3>1 DEF Restore
  <2>2. StateOK'
    <3>1. file' \in [Targets -> {"absent", "found", "published"}]
      BY <1>1, <2>1 DEF StateOK, RequestOK
    <3>2. Fits(file, depth)'
      BY <1>1, <1>3, <2>1, BoundsAssumption DEF request, StateOK, Fits, RequestOK
    <3> QED
      BY <1>1, <1>3, <2>1, <3>1, <3>2, BoundsAssumption DEF StateOK
  <2>3. ProgressOK'
    BY <1>1, <2>1, BoundsAssumption DEF request, ProgressOK, StateOK
  <2>4. PreviousRecoverable'
    <3> SUFFICES ASSUME NEW t \in Targets, before.file[t] = "found"
                 PROVE  file'[t] = "found" \/ t \in backup
      BY <1>1 DEF request, PreviousRecoverable
    <3>1. t \in backup \/ (t > snapshots /\ file[t] = "found")
      BY <1>1, BackedUpWhole
    <3> QED
      BY <2>1, <3>1 DEF StateOK
  <2> QED
    BY <1>2, <1>4, <2>2, <2>3, <2>4
<1>6. CASE RestoreBreaks
  <2>1. pc' = "cleanup" /\ result' = "broken" /\ UNCHANGED <<file, index>>
    BY <1>6 DEF RestoreBreaks
  <2>2. StateOK'
    BY <1>1, <1>3, <2>1, BoundsAssumption DEF request, StateOK, Fits, PCs, RequestOK
  <2>3. ProgressOK' /\ PreviousRecoverable'
    BY <2>1 DEF ProgressOK, PreviousRecoverable
  <2> QED
    BY <1>2, <1>4, <2>2, <2>3
<1> QED
  BY <1>5, <1>6

\* When every target is as it was, the created directories are empty and go:
\* none deeper than before is left.
LEMMA RemoveCreatedStep ==
    ASSUME TransactionInv, RemoveCreated
    PROVE  TransactionInv'
<1> USE DEF TransactionInv, Targets
<1>1. /\ UNCHANGED <<request, file, index, backup, snapshots, existed, created>>
      /\ pc = "rollback" /\ index = 0 /\ pc' = "cleanup" /\ result' = "failed"
      /\ backup = existed
  BY DEF RemoveCreated, SnapshotsOK
<1>2. file = before.file
  <2>1. \A t \in Targets : file[t] = before.file[t]
    BY <1>1, BoundsAssumption DEF ProgressOK
  <2>2. file = [t \in Targets |-> file[t]] /\ before.file = [t \in Targets |-> before.file[t]]
    BY DEF StateOK, RequestOK
  <2> QED
    BY <2>1, <2>2, Zenon
<1> DEFINE K == {k \in 0..depth : k <= Occupied(file) \/ k \notin created}
<1>3. /\ Occupied(file) \in 0..Depth /\ Occupied(file) <= depth
      /\ Occupied(file) <= before.depth /\ Fits(file, Occupied(file))
  BY <1>2, OccupiedFits, BoundsAssumption DEF StateOK, RequestOK
<1>4. K \in SUBSET (0..Depth) /\ Occupied(file) \in K
  BY <1>3, BoundsAssumption DEF StateOK
<1>5. Max(K) \in K /\ Occupied(file) <= Max(K) /\ depth' = Max(K)
  <2>1. depth' = Max(K)
    BY DEF RemoveCreated
  <2>2. Max(K) \in K /\ \A x \in K : x <= Max(K)
    BY <1>4, MaxIsGreatest, BoundsAssumption
  <2> QED
    BY <1>4, <2>1, <2>2
<1>6. \A k \in K : k <= before.depth
  <2> SUFFICES ASSUME NEW k \in K, k > before.depth PROVE FALSE
    BY BoundsAssumption DEF StateOK, RequestOK
  <2>1. before.depth \in 0..Depth /\ depth \in 0..Depth /\ k \in 0..depth
    BY DEF StateOK, RequestOK
  <2>2. k \in (before.depth + 1)..depth
    BY <2>1, BoundsAssumption
  <2>3. k \in created
    BY <2>2 DEF SnapshotsOK
  <2> QED
    BY <1>3, <2>1, <2>3, BoundsAssumption
<1>7. depth' \in 0..depth /\ depth' <= before.depth /\ Fits(file, depth')
  <2>1. depth' \in 0..depth /\ depth' <= before.depth /\ Occupied(file) <= depth'
    BY <1>5, <1>6
  <2> QED
    BY <1>3, <2>1, BoundsAssumption, SMTT(20) DEF StateOK, RequestOK, Fits
<1>8. RequestOK'
  BY <1>1 DEF request, RequestOK, Fits
<1>9. StateOK'
  BY <1>1, <1>7, BoundsAssumption DEF request, StateOK, Fits, PCs
<1>10. SnapshotsOK'
  <2>1. (before.depth + 1)..depth' \subseteq created
    BY <1>7, BoundsAssumption DEF SnapshotsOK, StateOK, RequestOK
  <2> QED
    BY <1>1, <2>1 DEF request, SnapshotsOK
<1>11. ProgressOK' /\ PreviousRecoverable'
  BY <1>1, <1>2, <1>7 DEF request, ProgressOK, PreviousRecoverable, AllAsBefore
<1> QED
  BY <1>8, <1>9, <1>10, <1>11

-----------------------------------------------------------------------------
(* The theorems *)

\* Every step of a call, its failures and its death included, preserves the
\* invariant.
LEMMA NextInv == TransactionInv /\ [Next]_vars => TransactionInv'
<1> SUFFICES ASSUME TransactionInv, [Next]_vars PROVE TransactionInv'
  OBVIOUS
<1>1. CASE UNCHANGED vars
  BY <1>1 DEF vars, request, TransactionInv, RequestOK, Fits, StateOK, SnapshotsOK, ProgressOK,
              Before, Applying, Wanted, AllPublished, AllAsBefore, PreviousRecoverable
<1> QED
  BY <1>1, BookkeepingStep, SnapshotStep, WriteStep, RemovalStep, RestoreStep, RemoveCreatedStep
     DEF Next

\* The inductive invariant holds in every reachable state.
THEOREM TransactionInvariant == Spec => []TransactionInv
<1> QED
  BY InitInv, NextInv, PTL DEF Spec

\* A state of the model has the types it declares (commitFileTransaction).
THEOREM TypeCorrect == Spec => []TypeOK
<1>1. TransactionInv => TypeOK
  <2> SUFFICES ASSUME TransactionInv PROVE TypeOK
    OBVIOUS
  <2>1. Occupied(file) <= depth
    BY OccupiedFits, BoundsAssumption DEF TransactionInv, StateOK
  <2> QED
    BY <2>1 DEF TransactionInv, StateOK, SnapshotsOK, TypeOK
<1> QED
  BY <1>1, TransactionInvariant, PTL

\* A call that ended left every target new or every target as it was, whatever
\* failed and where, unless a restore failed too (commitFileTransaction).
THEOREM AllNewOrAllPrevious == Spec => []AllOrPrevious
<1>1. TransactionInv => AllOrPrevious
  BY DEF TransactionInv, ProgressOK, StateOK, AllOrPrevious
<1> QED
  BY <1>1, TransactionInvariant, PTL

\* The previous bytes of every file can be found until all targets are new,
\* even after the process died (the backups of commitFileTransaction).
THEOREM PreviousBytesRecoverable == Spec => []PreviousRecoverable
<1>1. TransactionInv => PreviousRecoverable
  BY DEF TransactionInv
<1> QED
  BY <1>1, TransactionInvariant, PTL

\* No failed call leaves a directory it created, and none removes a directory
\* with other files in it (pruneEmptyParents, removeEmptyCreatedDirectories).
THEOREM DirectoriesAreKept == Spec => []DirectoriesKept
<1>1. TransactionInv => DirectoriesKept
  BY DEF TransactionInv, StateOK, Fits, ProgressOK, DirectoriesKept
<1> QED
  BY <1>1, TransactionInvariant, PTL
=============================================================================
