---------------------------- MODULE ContinuityLock ----------------------------
(***************************************************************************)
(* packages/hook-runner/src/lifecycle/context-continuity-executor.ts:      *)
(* hook processes merge what they observed into checkpoint.md under        *)
(* checkpoint.md.lock.  Nobody waits: a hook that finds a young lock gives *)
(* up, and one that finds an old lock first wins an election for the right *)
(* to remove it, held by a chain of claim files .recovery,                 *)
(* .recovery-1-<inode>, ...  Every file-system call is a step.             *)
(*                                                                         *)
(* A hook is one process: it runs once, ends or is killed.  A lock or a    *)
(* claim file is its inode and its date; the clock counts LOCK_STALE_MS.   *)
(***************************************************************************)
EXTENDS Integers, SequencesExt

CONSTANTS
    Hooks,           \* one process per hook invocation
    Inodes,          \* what the file system numbers files with, reusing them
    MaxGenerations,  \* MAX_RECOVERY_GENERATIONS
    MaxClock,        \* bound of the model on the clock
    Suspends         \* may a hook be held up for LOCK_STALE_MS in mid-call?

ASSUME BoundsAssumption == MaxGenerations \in Nat /\ MaxClock \in Nat
ASSUME SuspendsAssumption == Suspends \in BOOLEAN

VARIABLES
    files,      \* path -> [ino, born], of the lock and claim files that exist
    clock,
    content,    \* the hooks whose observation checkpoint.md holds
    reported,   \* the hooks that returned 'ok'
    pc,         \* control point of each hook
    now,        \* Date.now() when the hook started
    observed,   \* the lock it wants to replace: {} or the one inode
    claims,     \* acquireRecoveryFence: the <<path, inode>> met, oldest first
    own,        \* the inode of the lock file it opened, once it has one: {} or one
    raw,        \* the checkpoint it read
    alone       \* no other hook has been in mid-call while it was (history)

disk == <<files, content>>
vars == <<disk, clock, reported, pc, now, observed, claims, own, raw, alone>>

LockPath == <<"lock">>

\* .recovery, then .recovery-<generation>-<inode of the claim before>.
ClaimPath(chain) ==
    IF chain = << >> THEN <<"recovery">>
    ELSE <<"recovery", Len(chain), Last(chain)[2]>>

None == {}

Running == {"open", "settle", "inspect", "observe", "fence", "claim", "judge", "doom", "remove",
            "take", "retreat", "withdraw", "read", "rename", "release", "unlink"}
Ended == {"ok", "skipped", "dead"}

\* The lock, as number 0 of S, and the claims of as many elections.
LeftFiles(S) ==
    LET inode == CHOOSE f \in Injection(0..MaxGenerations + 1, Inodes) : TRUE
        path(g) == IF g = 0 THEN LockPath
                   ELSE ClaimPath([k \in 1..g - 1 |-> <<"claim", inode[k]>>])
    IN  [p \in {path(g) : g \in S} |->
            [ino |-> inode[CHOOSE g \in S : path(g) = p], born |-> 0]]

\* What hooks that died may have left, a tick ago or just now: a lock or none,
\* and a chain of claims.
Leftovers == {LeftFiles(lock..n) : lock \in 0..1, n \in 0..MaxGenerations + 1}

Init ==
    /\ files \in Leftovers
    /\ clock \in 0..1
    /\ content = {} /\ reported = {}
    /\ pc = [h \in Hooks |-> "new"]
    /\ now = [h \in Hooks |-> 0]
    /\ observed = [h \in Hooks |-> None]
    /\ claims = [h \in Hooks |-> << >>]
    /\ own = [h \in Hooks |-> None]
    /\ raw = [h \in Hooks |-> {}]
    /\ alone = [h \in Hooks |-> TRUE]

Goto(h, point) == pc' = [pc EXCEPT ![h] = point]

-----------------------------------------------------------------------------
(* The file system *)

Exists(path) == path \in DOMAIN files
IsFile(path, ino) == Exists(path) /\ files[path].ino = ino

\* staleFile, with the hook's own idea of the time.
Stale(h, path) == now[h] - files[path].born >= 1

\* An inode is in use while a path or an open descriptor leads to it: of the
\* lock until its release, of the tip of the chain until the claims are dropped.
Descriptors(h) ==
    (IF pc[h] \in Running \ {"release", "unlink"} THEN own[h] ELSE {})
    \cup (IF pc[h] \in {"judge", "doom", "remove", "take"} THEN {Last(claims[h])[2]}
          ELSE {})
FreeInodes ==
    Inodes \ (UNION {Descriptors(h) : h \in Hooks} \cup {files[p].ino : p \in DOMAIN files})

Create(path, ino) ==
    files' = [p \in DOMAIN files \cup {path} |->
                IF p = path THEN [ino |-> ino, born |-> clock] ELSE files[p]]
Delete(path) == files' = Restrict(files, DOMAIN files \ {path})

-----------------------------------------------------------------------------
(* acquireLock *)

MidCall(h) == pc[h] \in Running

\* The hook starts and looks for a claim before anything else.
Start(h) ==
    /\ pc[h] = "new"
    /\ now' = [now EXCEPT ![h] = clock]
    /\ alone' = [g \in Hooks |-> IF g = h THEN \A q \in Hooks : ~MidCall(q)
                                 ELSE alone[g] /\ ~MidCall(g)]
    /\ Goto(h, IF Exists(ClaimPath(<< >>)) THEN "observe" ELSE "open")
    /\ UNCHANGED <<disk, clock, reported, observed, claims, own, raw>>

\* Nobody recovers: the lock is this hook's to create, unless it is there.
Open(h) ==
    /\ pc[h] = "open"
    /\ IF Exists(LockPath) THEN Goto(h, "inspect") /\ UNCHANGED <<files, own>>
       ELSE \E i \in FreeInodes :
               /\ Create(LockPath, i)
               /\ own' = [own EXCEPT ![h] = {i}]
               /\ Goto(h, "settle")
    /\ UNCHANGED <<content, clock, reported, now, observed, claims, raw, alone>>

\* A recovery that began in the meantime goes first.
Settle(h) ==
    /\ pc[h] = "settle"
    /\ Goto(h, IF Exists(ClaimPath(<< >>)) THEN "release" ELSE "read")
    /\ UNCHANGED <<disk, clock, reported, now, observed, claims, own, raw, alone>>

\* The call returns; what it holds in memory is gone.
End(h, point) ==
    /\ Goto(h, point)
    /\ observed' = [observed EXCEPT ![h] = None]
    /\ claims' = [claims EXCEPT ![h] = << >>]
    /\ own' = [own EXCEPT ![h] = None]
    /\ raw' = [raw EXCEPT ![h] = {}]
    /\ reported' = IF point = "ok" THEN reported \cup {h} ELSE reported
    /\ UNCHANGED <<clock, now, alone>>

GiveUp(h) == End(h, "skipped") /\ UNCHANGED disk

\* The one lock that this hook may replace, if it is the one it still finds.
Claiming(h, lock) ==
    /\ observed' = [observed EXCEPT ![h] = lock]
    /\ Goto(h, "fence")
    /\ UNCHANGED <<disk, clock, reported, now, claims, own, raw, alone>>

AnyLock(h) == Exists(LockPath)
StaleLock(h) == Exists(LockPath) /\ Stale(h, LockPath)

\* lstat of the lock after it could not be created.
Inspect(h) ==
    /\ pc[h] = "inspect"
    /\ IF StaleLock(h) THEN Claiming(h, {files[LockPath].ino}) ELSE GiveUp(h)

ObserveExisting(h) ==
    /\ pc[h] = "observe"
    /\ IF StaleLock(h) THEN Claiming(h, {files[LockPath].ino}) ELSE GiveUp(h)

\* lstat of the lock while a claim exists: here it may be gone.
Observe(h) ==
    /\ pc[h] = "observe"
    /\ IF ~Exists(LockPath) THEN Claiming(h, None)
       ELSE IF StaleLock(h) THEN Claiming(h, {files[LockPath].ino})
       ELSE GiveUp(h)

-----------------------------------------------------------------------------
(* claimStaleLock, under the fence of acquireRecoveryFence *)

Fencing(h, chain, point) ==
    /\ claims' = [claims EXCEPT ![h] = chain]
    /\ Goto(h, point)
    /\ UNCHANGED <<content, clock, reported, now, observed, own, raw, alone>>

\* One turn of the loop: the end of the chain of old claims is this hook's to
\* extend, unless a claim of the chain is young or the chain too long.
Fence(h) ==
    /\ pc[h] = "fence"
    /\ LET path == ClaimPath(claims[h])
       IN  IF ~Exists(path) THEN Fencing(h, claims[h], "claim") /\ UNCHANGED files
           ELSE IF Stale(h, path) /\ Len(claims[h]) < MaxGenerations
           THEN /\ Fencing(h, Append(claims[h], <<path, files[path].ino>>), "fence")
                /\ UNCHANGED files
           ELSE GiveUp(h)

\* openExclusive of the next claim: lost to whoever was faster.
Claim(h) ==
    /\ pc[h] = "claim"
    /\ LET path == ClaimPath(claims[h])
       IN  IF Exists(path) THEN GiveUp(h)
           ELSE \E i \in FreeInodes :
                   /\ Create(path, i)
                   /\ Fencing(h, Append(claims[h], <<path, i>>), "judge")

FencedStep(h, point) ==
    /\ Goto(h, point)
    /\ UNCHANGED <<content, clock, reported, now, observed, claims, own, raw, alone>>

JudgedByIdentity(h) == {files[LockPath].ino} = observed[h]
SameStaleLock(h) == {files[LockPath].ino} = observed[h] /\ StaleLock(h)

\* The lock must be the one that was seen, and still be old: its inode may
\* have been given to a new lock since.
Judge(h) ==
    /\ pc[h] = "judge"
    /\ FencedStep(h, IF ~Exists(LockPath)
                     THEN (IF observed[h] = None THEN "take" ELSE "retreat")
                     ELSE IF SameStaleLock(h) THEN "doom" ELSE "retreat")
    /\ UNCHANGED files

\* unlinkOwnedPath: lstat, then unlink, of whatever is there by then.
Doom(h) ==
    /\ pc[h] = "doom"
    /\ FencedStep(h, IF Exists(LockPath) /\ {files[LockPath].ino} = observed[h]
                     THEN "remove" ELSE "retreat")
    /\ UNCHANGED files

RemoveLock(h) ==
    /\ pc[h] = "remove"
    /\ FencedStep(h, IF Exists(LockPath) THEN "take" ELSE "retreat")
    /\ Delete(LockPath)

\* The lock is free: the hook creates it, unless another does it first.
Take(h) ==
    /\ pc[h] = "take"
    /\ Goto(h, "retreat")
    /\ IF Exists(LockPath) THEN UNCHANGED <<files, own>>
       ELSE \E i \in FreeInodes : Create(LockPath, i) /\ own' = [own EXCEPT ![h] = {i}]
    /\ UNCHANGED <<content, clock, reported, now, observed, claims, raw, alone>>

\* A claim is dealt with; after the oldest one the lock is held, or was not won.
DropClaim(h) ==
    IF Len(claims[h]) > 1 THEN Fencing(h, Front(claims[h]), "retreat")
    ELSE IF own[h] # None THEN Fencing(h, << >>, "read")
    ELSE End(h, "skipped") /\ UNCHANGED content

\* releaseRecoveryFence: the claims are removed, its own first, the oldest last.
Retreat(h) ==
    /\ pc[h] = "retreat"
    /\ IF IsFile(Last(claims[h])[1], Last(claims[h])[2]) THEN FencedStep(h, "withdraw")
       ELSE DropClaim(h)
    /\ UNCHANGED files

Withdraw(h) ==
    /\ pc[h] = "withdraw"
    /\ Delete(Last(claims[h])[1])
    /\ DropClaim(h)

-----------------------------------------------------------------------------
(* mutateCheckpoint, under the lock *)

HeldStep(h, point) ==
    /\ Goto(h, point)
    /\ UNCHANGED <<files, clock, reported, now, observed, claims, own, alone>>

\* The whole file is read; it may be unreadable, or there is nothing to add.
Read(h) ==
    /\ pc[h] = "read"
    /\ \/ HeldStep(h, "rename") /\ raw' = [raw EXCEPT ![h] = content]
       \/ HeldStep(h, "release") /\ UNCHANGED raw
    /\ UNCHANGED content

\* atomicCheckpointWrite: the temporary takes the place of what was read, or
\* some step of the write fails and the file is as before.
Rename(h) ==
    /\ pc[h] = "rename"
    /\ HeldStep(h, "release")
    /\ \/ /\ raw' = [raw EXCEPT ![h] = @ \cup {h}]
          /\ content' = raw'[h]
       \/ UNCHANGED <<content, raw>>

Outcome(h) == IF h \in raw[h] THEN "ok" ELSE "skipped"

\* releaseLock: lstat, then unlink.
Release(h) ==
    /\ pc[h] = "release"
    /\ IF Exists(LockPath) /\ {files[LockPath].ino} = own[h]
       THEN HeldStep(h, "unlink") /\ UNCHANGED raw
       ELSE End(h, Outcome(h))
    /\ UNCHANGED disk

Unlink(h) ==
    /\ pc[h] = "unlink"
    /\ Delete(LockPath)
    /\ End(h, Outcome(h))
    /\ UNCHANGED content

-----------------------------------------------------------------------------
(* Faults, and time *)

Crash(h) == MidCall(h) /\ End(h, "dead") /\ UNCHANGED disk

\* Unless hooks are held up, the clock passes a whole LOCK_STALE_MS only
\* between calls: a call is much shorter.
Tick ==
    /\ clock < MaxClock
    /\ Suspends \/ \A h \in Hooks : ~MidCall(h)
    /\ clock' = clock + 1
    /\ UNCHANGED <<disk, reported, pc, now, observed, claims, own, raw, alone>>

Next ==
    \/ \E h \in Hooks :
          \/ Start(h) \/ Open(h) \/ Settle(h) \/ Inspect(h) \/ Observe(h)
          \/ Fence(h) \/ Claim(h) \/ Judge(h) \/ Doom(h) \/ RemoveLock(h) \/ Take(h)
          \/ Retreat(h) \/ Withdraw(h)
          \/ Read(h) \/ Rename(h) \/ Release(h) \/ Unlink(h)
          \/ Crash(h)
    \/ Tick

Spec == Init /\ [][Next]_vars

-----------------------------------------------------------------------------
(* Properties *)

TypeOK ==
    /\ \A p \in DOMAIN files : files[p].ino \in Inodes /\ files[p].born \in 0..clock
    /\ \A p, q \in DOMAIN files : files[p].ino = files[q].ino => p = q
    /\ clock \in 0..MaxClock
    /\ content \subseteq Hooks /\ reported \subseteq Hooks
    /\ pc \in [Hooks -> Running \cup Ended \cup {"new"}]
    /\ now \in [Hooks -> 0..MaxClock]
    /\ \A h \in Hooks :
          /\ observed[h] \subseteq Inodes /\ own[h] \subseteq Inodes /\ raw[h] \subseteq Hooks
          /\ Len(claims[h]) <= MaxGenerations + 1
    /\ alone \in [Hooks -> BOOLEAN]

\* From the reading of the checkpoint to its replacement a hook is alone with it.
Holder(h) == pc[h] \in {"read", "rename"}
OneHolder == \A g, h \in Hooks : Holder(g) /\ Holder(h) => g = h

\* docs/specs/2026-08-27-mechanical-context-continuity.md:339: the lock covers
\* the reading, the decision and the replacement.  Each mutation is one atomic
\* step on top of the earlier ones, and one that was reported stays.
Abstract == INSTANCE CheckpointMerge
MergeSpec == Abstract!Spec

\* A hook that runs alone over what dead hooks left gets the lock, unless some
\* of it is young or the chain of claims has reached its end.
LoneCallRecovers ==
    [][\A h \in Hooks :
          alone[h] /\ MidCall(h) /\ own[h] = None /\ pc'[h] = "skipped" =>
             \/ \E p \in DOMAIN files' : ~Stale(h, p)'
             \/ Cardinality(DOMAIN files' \ {LockPath}) > MaxGenerations]_vars
=============================================================================
