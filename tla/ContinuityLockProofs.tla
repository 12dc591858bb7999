------------------------- MODULE ContinuityLockProofs -------------------------
(***************************************************************************)
(* Theorems about ContinuityLock, for any number of hooks and inodes and   *)
(* for chains of claims of any length, while no hook is held up in         *)
(* mid-call: one hook at a time is between the reading of the checkpoint   *)
(* and its replacement, and the merges keep to CheckpointMerge.            *)
(***************************************************************************)
EXTENDS ContinuityLock, FiniteSetTheorems, TLAPS

-----------------------------------------------------------------------------
(* The inductive invariant *)

IsList(l) == \E S : l \in Seq(S)

\* From the observation of the lock to the end of the claims, and of these
\* the steps on whose account the lock may be removed.
Electing == {"fence", "claim", "judge", "doom", "remove"}
Contending == {"judge", "doom", "remove"}
Claimant == Electing \cup {"take", "retreat", "withdraw"}

\* The steps of a hook that created the lock.
Owning == {"settle", "read", "rename", "release", "unlink"}

Shape ==
    /\ pc \in [Hooks -> Running \cup Ended \cup {"new"}]
    /\ clock \in Nat /\ \A p \in DOMAIN files : files[p].born \in 0..clock
    /\ now = [h \in Hooks |-> now[h]] /\ observed = [h \in Hooks |-> observed[h]]
    /\ own = [h \in Hooks |-> own[h]] /\ raw = [h \in Hooks |-> raw[h]]
    /\ claims = [h \in Hooks |-> claims[h]]
    /\ \A h \in Hooks :
          /\ IsList(claims[h])
          /\ \A k \in 1..Len(claims[h]) : claims[h][k][1] # LockPath
          /\ pc[h] \notin Claimant => claims[h] = << >>
          /\ pc[h] \in Claimant \ {"fence", "claim"} => Len(claims[h]) >= 1

\* Nobody is held up, so a call sees one time.
InTime == \A h \in Hooks : MidCall(h) => now[h] = clock

\* Whoever created the lock finds it, and is the only one.
OwnerHasLock ==
    /\ \A h \in Hooks :
          /\ own[h] # None =>
                /\ pc[h] \in Owning \cup {"retreat", "withdraw"}
                /\ Exists(LockPath) /\ files[LockPath].born = clock
                /\ own[h] = {files[LockPath].ino}
          /\ pc[h] \in Owning => own[h] # None
    /\ \A g, h \in Hooks : own[g] # None /\ own[h] # None => g = h

\* A lock that a dead hook left, before this round of calls.
OldLock == Exists(LockPath) /\ files[LockPath].born < clock

\* Nothing but an old lock is ever about to be removed.
DoomedIsOld == \A h \in Hooks : pc[h] \in {"doom", "remove"} => OldLock

\* The path of the k-th claim of a chain.
PathAt(chain, k) ==
    IF k = 1 THEN <<"recovery">> ELSE <<"recovery", k - 1, chain[k - 1][2]>>

\* A chain leads along old claims to the end, which its hook may have extended.
Chained(h) ==
    /\ \A k \in 1..Len(claims[h]) :
          LET path == PathAt(claims[h], k)
          IN  /\ Exists(path) /\ claims[h][k] = <<path, files[path].ino>>
              /\ (pc[h] \in Contending /\ k = Len(claims[h])) \/ files[path].born < clock
    /\ pc[h] \in Contending =>
          /\ Len(claims[h]) >= 1
          /\ files[PathAt(claims[h], Len(claims[h]))].born = clock

\* While there is an old lock nobody retreats: all follow one chain of claims,
\* and one of them holds its end.
OneElection ==
    /\ \A h \in Hooks : pc[h] \notin {"take", "retreat", "withdraw"}
    /\ \A h \in Hooks :
          pc[h] \in Electing => observed[h] = {files[LockPath].ino} /\ Chained(h)
    /\ \A g, h \in Hooks :
          pc[g] \in Electing /\ pc[h] \in Electing =>
             \A k \in 1..Len(claims[g]) : k \in 1..Len(claims[h]) => claims[g][k] = claims[h][k]
    /\ \A g, h \in Hooks : pc[g] \in Contending /\ pc[h] \in Contending => g = h

LockInv ==
    /\ Shape /\ InTime /\ OwnerHasLock /\ DoomedIsOld
    /\ OldLock => OneElection

-----------------------------------------------------------------------------
(* Lists and files *)

\* The shape of a list, of a longer and of a shorter one.
LEMMA Lists ==
    ASSUME NEW l, IsList(l)
    PROVE  /\ Len(l) \in Nat
           /\ \A e : /\ IsList(Append(l, e)) /\ Len(Append(l, e)) = Len(l) + 1
                     /\ Append(l, e)[Len(l) + 1] = e
                     /\ \A k \in 1..Len(l) : Append(l, e)[k] = l[k]
           /\ Len(l) >= 1 =>
                 /\ IsList(Front(l)) /\ Len(Front(l)) = Len(l) - 1
                 /\ \A k \in 1..(Len(l) - 1) : Front(l)[k] = l[k]
           /\ Last(l) = l[Len(l)]
<1>1. PICK S : l \in Seq(S)
  BY DEF IsList
<1>2. Len(l) \in Nat
  BY <1>1
<1>3. ASSUME NEW e
      PROVE  /\ IsList(Append(l, e)) /\ Len(Append(l, e)) = Len(l) + 1
             /\ Append(l, e)[Len(l) + 1] = e
             /\ \A k \in 1..Len(l) : Append(l, e)[k] = l[k]
  <2>1. l \in Seq(S \cup {e}) /\ e \in S \cup {e}
    BY <1>1
  <2>2. Append(l, e) \in Seq(S \cup {e})
    BY <2>1
  <2> QED
    BY <2>1, <2>2 DEF IsList
<1>4. ASSUME Len(l) >= 1
      PROVE  /\ IsList(Front(l)) /\ Len(Front(l)) = Len(l) - 1
             /\ \A k \in 1..(Len(l) - 1) : Front(l)[k] = l[k]
  <2>1. ASSUME NEW m \in 0..Len(l)
        PROVE  /\ SubSeq(l, 1, m) \in Seq(S) /\ Len(SubSeq(l, 1, m)) = m
               /\ \A k \in 1..m : SubSeq(l, 1, m)[k] = l[k]
    BY <1>1
  <2>2. Len(l) - 1 \in 0..Len(l)
    BY <1>2, <1>4
  <2>3. Front(l) = SubSeq(l, 1, Len(l) - 1)
    BY DEF Front
  <2> QED
    BY <2>1, <2>2, <2>3 DEF IsList
<1> QED
  BY <1>2, <1>3, <1>4 DEF Last

\* The path that follows a chain.
LEMMA NextPath ==
    ASSUME NEW l, IsList(l)
    PROVE  /\ ClaimPath(l) = PathAt(l, Len(l) + 1)
           /\ ClaimPath(l) # LockPath
<1>1. Len(l) \in Nat /\ (l = << >> <=> Len(l) = 0) /\ Last(l) = l[Len(l)]
  <2>1. l = << >> <=> Len(l) = 0
    BY DEF IsList
  <2> QED
    BY <2>1, Lists
<1>2. <<"recovery">> # <<"lock">>
  OBVIOUS
<1>3. \A x, y : <<"recovery", x, y>> # <<"lock">>
  OBVIOUS
<1> QED
  BY <1>1, <1>2, <1>3 DEF ClaimPath, PathAt, LockPath

\* A file is created now; the others stay.
LEMMA Created ==
    ASSUME NEW path, NEW ino, Create(path, ino)
    PROVE  /\ DOMAIN files' = DOMAIN files \cup {path}
           /\ files'[path].ino = ino /\ files'[path].born = clock
           /\ \A p \in DOMAIN files : p # path => files'[p] = files[p]
BY DEF Create

\* A file is removed; the others stay.
LEMMA Deleted ==
    ASSUME NEW path, Delete(path)
    PROVE  /\ DOMAIN files' = DOMAIN files \ {path}
           /\ \A p \in DOMAIN files' : files'[p] = files[p]
BY DEF Delete, Restrict

-----------------------------------------------------------------------------
(* What a step of a hook leaves alone *)

Step(h) ==
    \/ Start(h) \/ Open(h) \/ Settle(h) \/ Inspect(h) \/ Observe(h)
    \/ Fence(h) \/ Claim(h) \/ Judge(h) \/ Doom(h) \/ RemoveLock(h) \/ Take(h)
    \/ Retreat(h) \/ Withdraw(h)
    \/ Read(h) \/ Rename(h) \/ Release(h) \/ Unlink(h)
    \/ Crash(h)

\* The other hooks, and the time.
Private(h) ==
    /\ clock' = clock
    /\ pc' = [pc EXCEPT ![h] = pc'[h]] /\ now' = [now EXCEPT ![h] = now'[h]]
    /\ observed' = [observed EXCEPT ![h] = observed'[h]] /\ own' = [own EXCEPT ![h] = own'[h]]
    /\ claims' = [claims EXCEPT ![h] = claims'[h]] /\ raw' = [raw EXCEPT ![h] = raw'[h]]

\* A hook changes nobody's state but its own.
LEMMA StepIsPrivate ==
    ASSUME Shape, NEW h \in Hooks, Step(h)
    PROVE  Private(h)
<1> USE DEF Shape, Private, Goto
<1>1. CASE Start(h)
  BY <1>1 DEF Start, disk
<1>2. CASE Open(h) \/ Settle(h)
  BY <1>2 DEF Open, Settle, disk
<1>3. CASE Inspect(h) \/ Observe(h)
  BY <1>3 DEF Inspect, Observe, GiveUp, End, Claiming, disk
<1>4. CASE Fence(h) \/ Claim(h)
  BY <1>4 DEF Fence, Claim, Fencing, GiveUp, End, disk
<1>5. CASE Judge(h) \/ Doom(h) \/ RemoveLock(h)
  BY <1>5 DEF Judge, Doom, RemoveLock, FencedStep
<1>6. CASE Take(h)
  BY <1>6 DEF Take
<1>7. CASE Retreat(h) \/ Withdraw(h)
  BY <1>7 DEF Retreat, Withdraw, FencedStep, DropClaim, Fencing, End
<1>8. CASE Read(h) \/ Rename(h)
  BY <1>8 DEF Read, Rename, HeldStep
<1>9. CASE Release(h) \/ Unlink(h) \/ Crash(h)
  BY <1>9 DEF Release, Unlink, Crash, HeldStep, End, disk
<1> QED
  BY <1>1, <1>2, <1>3, <1>4, <1>5, <1>6, <1>7, <1>8, <1>9 DEF Step

-----------------------------------------------------------------------------
(* The parts of the invariant *)

\* What a step may do to the files.
FileStep ==
    \/ UNCHANGED files
    \/ \E path : ~Exists(path) /\ \E i : Create(path, i)
    \/ \E path : Delete(path)

\* Files are made now, and none changes while it is there.
LEMMA FilesKeep ==
    ASSUME Shape, FileStep, clock' = clock
    PROVE  /\ \A p \in DOMAIN files' : files'[p].born \in 0..clock'
           /\ \A p \in DOMAIN files' : p \in DOMAIN files => files'[p] = files[p]
           /\ \A p \in DOMAIN files' : p \notin DOMAIN files => files'[p].born = clock
<1>1. CASE UNCHANGED files
  BY <1>1 DEF Shape
<1>2. ASSUME NEW path, ~Exists(path), NEW i, Create(path, i)
      PROVE  /\ \A p \in DOMAIN files' : files'[p].born \in 0..clock'
             /\ \A p \in DOMAIN files' : p \in DOMAIN files => files'[p] = files[p]
             /\ \A p \in DOMAIN files' : p \notin DOMAIN files => files'[p].born = clock
  <2>1. /\ DOMAIN files' = DOMAIN files \cup {path} /\ path \notin DOMAIN files
        /\ files'[path].born = clock
        /\ \A p \in DOMAIN files : files'[p] = files[p]
    BY <1>2, Created DEF Exists
  <2> QED
    BY <2>1 DEF Shape
<1>3. ASSUME NEW path, Delete(path)
      PROVE  /\ \A p \in DOMAIN files' : files'[p].born \in 0..clock'
             /\ \A p \in DOMAIN files' : p \in DOMAIN files => files'[p] = files[p]
             /\ \A p \in DOMAIN files' : p \notin DOMAIN files => files'[p].born = clock
  BY <1>3, Deleted DEF Shape
<1> QED
  BY <1>1, <1>2, <1>3 DEF FileStep

\* A chain of claims stays as it is, is dropped, or gets a claim more or less.
ChainStep(h) ==
    \/ claims'[h] = claims[h]
    \/ claims'[h] = << >>
    \/ \E i : claims'[h] = Append(claims[h], <<ClaimPath(claims[h]), i>>)
    \/ Len(claims[h]) > 1 /\ claims'[h] = Front(claims[h])

\* Such a step keeps the chain a list of claims, none of them the lock.
LEMMA ChainKeeps ==
    ASSUME Shape, NEW h \in Hooks, ChainStep(h)
    PROVE  /\ IsList(claims'[h])
           /\ \A k \in 1..Len(claims'[h]) : claims'[h][k][1] # LockPath
<1> DEFINE l == claims[h]
<1>1. IsList(l) /\ Len(l) \in Nat /\ \A k \in 1..Len(l) : l[k][1] # LockPath
  BY Lists DEF Shape
<1>2. CASE claims'[h] = l
  BY <1>1, <1>2
<1>3. CASE claims'[h] = << >>
  <2>1. IsList(<< >>)
    BY DEF IsList
  <2> QED
    BY <1>3, <2>1
<1>4. ASSUME NEW i, claims'[h] = Append(l, <<ClaimPath(l), i>>)
      PROVE  /\ IsList(claims'[h])
             /\ \A k \in 1..Len(claims'[h]) : claims'[h][k][1] # LockPath
  <2>1. ClaimPath(l) # LockPath
    BY <1>1, NextPath
  <2> DEFINE e == <<ClaimPath(l), i>>
  <2>2. /\ IsList(Append(l, e)) /\ Len(Append(l, e)) = Len(l) + 1 /\ Append(l, e)[Len(l) + 1] = e
        /\ \A k \in 1..Len(l) : Append(l, e)[k] = l[k]
    BY <1>1, Lists
  <2>3. e[1] # LockPath
    BY <2>1
  <2>4. claims'[h] = Append(l, e)
    BY <1>4
  <2> HIDE DEF e, l
  <2>5. \A k \in 1..(Len(l) + 1) : k \in 1..Len(l) \/ k = Len(l) + 1
    BY <1>1
  <2> QED
    BY <1>1, <2>2, <2>3, <2>4, <2>5
<1>5. CASE Len(l) > 1 /\ claims'[h] = Front(l)
  <2>1. IsList(Front(l)) /\ Len(Front(l)) = Len(l) - 1 /\ \A k \in 1..(Len(l) - 1) : Front(l)[k] = l[k]
    <3> HIDE DEF l
    <3> QED
      BY <1>1, <1>5, Lists
  <2> HIDE DEF l
  <2>2. \A k \in 1..(Len(l) - 1) : k \in 1..Len(l)
    BY <1>1
  <2> QED
    BY <1>1, <1>5, <2>1, <2>2
<1> QED
  BY <1>2, <1>3, <1>4, <1>5 DEF ChainStep

\* A private step over files and claims keeps the shape.
LEMMA ShapeStays ==
    ASSUME Shape, NEW h \in Hooks, Private(h), FileStep, ChainStep(h),
           pc'[h] \in Running \cup Ended,
           pc'[h] \notin Claimant => claims'[h] = << >>,
           pc'[h] \in Claimant \ {"fence", "claim"} => Len(claims'[h]) >= 1
    PROVE  Shape'
<1>1. /\ IsList(claims'[h])
      /\ \A k \in 1..Len(claims'[h]) : claims'[h][k][1] # LockPath
  BY ChainKeeps
<1>2. /\ pc' \in [Hooks -> Running \cup Ended \cup {"new"}]
      /\ clock' \in Nat /\ \A p \in DOMAIN files' : files'[p].born \in 0..clock'
  BY FilesKeep DEF Shape, Private
<1>3. \A g \in Hooks : g # h => claims'[g] = claims[g] /\ pc'[g] = pc[g]
  BY DEF Shape, Private
<1>4. /\ now' = [g \in Hooks |-> now'[g]] /\ observed' = [g \in Hooks |-> observed'[g]]
      /\ own' = [g \in Hooks |-> own'[g]] /\ raw' = [g \in Hooks |-> raw'[g]]
      /\ claims' = [g \in Hooks |-> claims'[g]]
  BY DEF Shape, Private
<1> QED
  BY <1>1, <1>2, <1>3, <1>4 DEF Shape

\* A claim that is dealt with.
LEMMA DropClaimMoves ==
    ASSUME Shape, NEW h \in Hooks, DropClaim(h), pc[h] \in {"retreat", "withdraw"}
    PROVE  /\ ChainStep(h)
           /\ \/ pc'[h] = "retreat" /\ Len(claims'[h]) >= 1 /\ own'[h] = own[h]
              \/ pc'[h] = "read" /\ claims'[h] = << >> /\ own'[h] = own[h] /\ own[h] # None
              \/ pc'[h] = "skipped" /\ claims'[h] = << >> /\ own'[h] = None
           /\ content' = content
<1>1. IsList(claims[h]) /\ pc \in [Hooks -> Running \cup Ended \cup {"new"}]
  BY DEF Shape
<1>2. claims = [g \in Hooks |-> claims[g]] /\ own = [g \in Hooks |-> own[g]]
  BY DEF Shape
<1>3. CASE Len(claims[h]) > 1
  <2>1. Fencing(h, Front(claims[h]), "retreat")
    BY <1>3 DEF DropClaim
  <2>2. claims'[h] = Front(claims[h]) /\ pc'[h] = "retreat" /\ own' = own /\ content' = content
    BY <1>1, <1>2, <2>1 DEF Fencing, Goto
  <2>3. Len(claims[h]) \in Nat /\ Len(Front(claims[h])) = Len(claims[h]) - 1
    BY <1>1, <1>3, Lists
  <2> QED
    BY <1>3, <2>2, <2>3 DEF ChainStep
<1>4. CASE ~(Len(claims[h]) > 1) /\ own[h] # None
  BY <1>1, <1>2, <1>4 DEF DropClaim, Fencing, Goto, ChainStep
<1>5. CASE ~(Len(claims[h]) > 1) /\ own[h] = None
  BY <1>1, <1>2, <1>5 DEF DropClaim, End, Goto, ChainStep
<1> QED
  BY <1>3, <1>4, <1>5

\* Every step keeps the shape of the state.
LEMMA ShapeKeeps ==
    ASSUME Shape, NEW h \in Hooks, Step(h)
    PROVE  Shape' /\ FileStep /\ ChainStep(h)
<1>1. /\ Private(h) /\ IsList(claims[h]) /\ pc[h] \in Running \cup Ended \cup {"new"}
      /\ pc[h] \notin Claimant => claims[h] = << >>
      /\ pc[h] \in Claimant \ {"fence", "claim"} => Len(claims[h]) >= 1
  BY StepIsPrivate DEF Shape
<1> DEFINE Moved ==
             /\ FileStep /\ ChainStep(h) /\ pc'[h] \in Running \cup Ended
             /\ pc'[h] \notin Claimant => claims'[h] = << >>
             /\ pc'[h] \in Claimant \ {"fence", "claim"} => Len(claims'[h]) >= 1
<1>2. Moved
  <2>0. /\ pc = [g \in Hooks |-> pc[g]] /\ claims = [g \in Hooks |-> claims[g]]
    BY DEF Shape
  <2> USE DEF FileStep, ChainStep, Running, Ended, Claimant, Electing, Goto
  <2>1. CASE Start(h)
    BY <1>1, <2>0, <2>1 DEF Start, disk
  <2>2. CASE Open(h)
    BY <1>1, <2>0, <2>2 DEF Open
  <2>3. CASE Settle(h) \/ Read(h) \/ Rename(h)
    BY <1>1, <2>0, <2>3 DEF Settle, Read, Rename, HeldStep, disk
  <2>4. CASE Inspect(h) \/ Observe(h)
    BY <1>1, <2>0, <2>4 DEF Inspect, Observe, GiveUp, End, Claiming, disk
  <2>5. CASE Fence(h)
    BY <1>1, <2>0, <2>5 DEF Fence, Fencing, GiveUp, End, disk
  <2>6. CASE Claim(h)
    <3>1. CASE GiveUp(h)
      BY <1>1, <2>0, <3>1 DEF GiveUp, End, disk
    <3>2. CASE ~GiveUp(h)
      <4>1. PICK i : /\ Create(ClaimPath(claims[h]), i) /\ ~Exists(ClaimPath(claims[h]))
                     /\ Fencing(h, Append(claims[h], <<ClaimPath(claims[h]), i>>), "judge")
        BY <2>6, <3>2 DEF Claim
      <4>2. claims'[h] = Append(claims[h], <<ClaimPath(claims[h]), i>>) /\ pc'[h] = "judge"
        BY <2>0, <4>1 DEF Fencing
      <4>3. Len(claims[h]) \in Nat /\ Len(claims'[h]) = Len(claims[h]) + 1
        BY <1>1, <4>2, Lists
      <4> QED
        BY <4>1, <4>2, <4>3
    <3> QED
      BY <3>1, <3>2
  <2>7. CASE Judge(h) \/ Doom(h) \/ RemoveLock(h)
    BY <1>1, <2>0, <2>7 DEF Judge, Doom, RemoveLock, FencedStep
  <2>8. CASE Take(h)
    BY <1>1, <2>0, <2>8 DEF Take
  <2>9. CASE Retreat(h) \/ Withdraw(h)
    <3>1. FileStep
      BY <2>9 DEF Retreat, Withdraw
    <3>2. CASE DropClaim(h)
      BY <2>9, <3>1, <3>2, DropClaimMoves DEF Retreat, Withdraw
    <3>3. CASE FencedStep(h, "withdraw")
      BY <1>1, <2>0, <2>9, <3>1, <3>3 DEF Retreat, Withdraw, FencedStep
    <3> QED
      BY <2>9, <3>2, <3>3 DEF Retreat, Withdraw
  <2>10. CASE Release(h) \/ Unlink(h) \/ Crash(h)
    BY <1>1, <2>0, <2>10 DEF Release, Unlink, Crash, HeldStep, End, disk, Outcome
  <2> QED
    BY <2>1, <2>2, <2>3, <2>4, <2>5, <2>6, <2>7, <2>8, <2>9, <2>10 DEF Step
<1> QED
  BY <1>1, <1>2, ShapeStays

\* A call goes on seeing the time at which it started.
LEMMA TimeKeeps ==
    ASSUME Shape, InTime, NEW h \in Hooks, Step(h)
    PROVE  InTime'
<1>1. Private(h)
  BY StepIsPrivate
<1>2. MidCall(h)' => now'[h] = clock
  <2>1. CASE Start(h)
    BY <2>1 DEF Start, Shape
  <2>2. CASE ~Start(h)
    <3>1. now' = now /\ (MidCall(h) \/ ~MidCall(h)')
      BY <2>2 DEF Step, Open, Settle, Inspect, Observe, GiveUp, End, Claiming, Fence, Claim, Fencing,
         Judge, Doom, RemoveLock, FencedStep, Take, Retreat, Withdraw, DropClaim, Read, Rename,
         HeldStep, Release, Unlink, Crash, MidCall, Running
    <3> QED
      BY <3>1 DEF InTime
  <2> QED
    BY <2>1, <2>2
<1> QED
  BY <1>1, <1>2 DEF InTime, MidCall, Private, Shape

-----------------------------------------------------------------------------
(* The lock file *)

LockKept ==
    /\ Exists(LockPath)' <=> Exists(LockPath)
    /\ Exists(LockPath) => files'[LockPath] = files[LockPath]

\* The hook creates the lock, where there was none.
Locks(h) ==
    /\ ~Exists(LockPath) /\ Exists(LockPath)'
    /\ files'[LockPath].born = clock /\ own'[h] = {files'[LockPath].ino}

\* The file of another path is none of the lock's concern.
LEMMA OtherPath ==
    ASSUME NEW path, path # LockPath, Delete(path) \/ \E i : ~Exists(path) /\ Create(path, i)
    PROVE  LockKept
<1>1. CASE Delete(path)
  <2>1. /\ DOMAIN files' = DOMAIN files \ {path}
        /\ \A p \in DOMAIN files' : files'[p] = files[p]
    BY <1>1, Deleted
  <2> QED
    BY <2>1 DEF LockKept, Exists
<1>2. ASSUME NEW i, Create(path, i) PROVE LockKept
  <2>1. /\ DOMAIN files' = DOMAIN files \cup {path}
        /\ \A p \in DOMAIN files : p # path => files'[p] = files[p]
    BY <1>2, Created
  <2> QED
    BY <2>1 DEF LockKept, Exists
<1> QED
  BY <1>1, <1>2

\* Where there is no lock, the hook that wants it gets it.
LEMMA Locking ==
    ASSUME Shape, NEW h \in Hooks, Open(h) \/ Take(h)
    PROVE  IF Exists(LockPath) THEN UNCHANGED files /\ UNCHANGED own
           ELSE Locks(h) /\ <<pc[h], pc'[h]>> \in {<<"open", "settle">>, <<"take", "retreat">>}
<1>0. /\ pc = [g \in Hooks |-> pc[g]] /\ own = [g \in Hooks |-> own[g]]
  BY DEF Shape
<1>1. CASE Exists(LockPath)
  BY <1>1 DEF Open, Take
<1>2. CASE ~Exists(LockPath)
  <2>1. PICK i : Create(LockPath, i) /\ own' = [own EXCEPT ![h] = {i}]
    BY <1>2 DEF Open, Take
  <2>2. /\ DOMAIN files' = DOMAIN files \cup {LockPath}
        /\ files'[LockPath].ino = i /\ files'[LockPath].born = clock
    BY <2>1, Created
  <2>3. Locks(h)
    BY <1>0, <1>2, <2>1, <2>2 DEF Locks, Exists
  <2>4. <<pc[h], pc'[h]>> \in {<<"open", "settle">>, <<"take", "retreat">>}
    BY <1>0, <1>2 DEF Open, Take, Goto
  <2> QED
    BY <1>2, <2>3, <2>4
<1> QED
  BY <1>1, <1>2

\* A step creates the lock, removes it, or leaves it as it is; in the end the
\* hook forgets what it held.
LEMMA LockStep ==
    ASSUME Shape, NEW h \in Hooks, Step(h)
    PROVE  \/ Locks(h) /\ <<pc[h], pc'[h]>> \in {<<"open", "settle">>, <<"take", "retreat">>}
           \/ RemoveLock(h) /\ ~Exists(LockPath)' /\ own'[h] = own[h]
           \/ Unlink(h) /\ ~Exists(LockPath)' /\ own'[h] = None
           \/ /\ LockKept /\ ~RemoveLock(h) /\ ~Unlink(h)
              /\ own'[h] = own[h] \/ own'[h] = None
<1> DEFINE Still == /\ LockKept /\ ~RemoveLock(h) /\ ~Unlink(h)
                    /\ own'[h] = own[h] \/ own'[h] = None
<1>0. /\ pc = [g \in Hooks |-> pc[g]] /\ own = [g \in Hooks |-> own[g]]
  BY DEF Shape
<1>1. CASE Open(h) \/ Take(h)
  BY <1>1, Locking DEF LockKept, Exists, Open, Take, RemoveLock, Unlink
<1>2. CASE \/ Start(h) \/ Settle(h) \/ Inspect(h) \/ Observe(h) \/ Fence(h) \/ Judge(h) \/ Doom(h)
           \/ Read(h) \/ Rename(h) \/ Release(h) \/ Crash(h)
  <2>1. UNCHANGED files /\ (own'[h] = own[h] \/ own'[h] = None)
    BY <1>0, <1>2 DEF Start, Settle, Inspect, Observe, GiveUp, End, Claiming, Fence, Fencing, Judge, Doom,
       FencedStep, Read, Rename, HeldStep, Release, Crash, disk
  <2>2. ~RemoveLock(h) /\ ~Unlink(h)
    <3>1. CASE Crash(h)
      <4>1. pc'[h] = "dead"
        BY <1>0, <3>1 DEF Crash, End, Goto, MidCall, Running
      <4>2. ~RemoveLock(h) /\ ~Unlink(h)
        BY <1>0, <4>1 DEF RemoveLock, FencedStep, Unlink, End, Goto, Outcome
      <4> QED
        BY <4>2
    <3> QED
      BY <1>2, <3>1 DEF Start, Settle, Inspect, Observe, Fence, Judge, Doom, Read, Rename, Release,
         RemoveLock, Unlink
  <2> QED
    BY <2>1, <2>2 DEF LockKept, Exists
<1>3. CASE Retreat(h)
  <2>1. UNCHANGED files /\ pc[h] = "retreat"
    BY <1>3 DEF Retreat
  <2>2. own'[h] = own[h] \/ own'[h] = None
    BY <1>3, DropClaimMoves DEF Retreat, FencedStep
  <2> QED
    BY <2>1, <2>2 DEF LockKept, Exists, RemoveLock, Unlink
<1>4. CASE Claim(h)
  <2>1. own'[h] = own[h] \/ own'[h] = None
    BY <1>0, <1>4 DEF Claim, GiveUp, End, Fencing
  <2>2. UNCHANGED files \/ \E i : ~Exists(ClaimPath(claims[h])) /\ Create(ClaimPath(claims[h]), i)
    BY <1>4 DEF Claim, GiveUp, disk
  <2>3. ClaimPath(claims[h]) # LockPath
    BY NextPath DEF Shape
  <2>4. LockKept
    BY <2>2, <2>3, OtherPath DEF LockKept, Exists
  <2> QED
    BY <1>4, <2>1, <2>4 DEF Claim, RemoveLock, Unlink
<1>5. CASE Withdraw(h)
  <2>1. Last(claims[h])[1] # LockPath
    <3>1. pc[h] \in Claimant \ {"fence", "claim"}
      BY <1>5 DEF Withdraw, Claimant
    <3>2. IsList(claims[h]) /\ Len(claims[h]) >= 1 /\ \A k \in 1..Len(claims[h]) : claims[h][k][1] # LockPath
      BY <3>1 DEF Shape
    <3>3. Last(claims[h]) = claims[h][Len(claims[h])] /\ Len(claims[h]) \in 1..Len(claims[h])
      BY <3>2, Lists
    <3> QED
      BY <3>2, <3>3
  <2>2. LockKept
    BY <1>5, <2>1, OtherPath DEF Withdraw
  <2>3. own'[h] = own[h] \/ own'[h] = None
    BY <1>5, DropClaimMoves DEF Withdraw
  <2> QED
    BY <1>5, <2>2, <2>3 DEF RemoveLock, Unlink, Withdraw
<1>6. CASE RemoveLock(h)
  BY <1>6, Deleted DEF RemoveLock, FencedStep, Exists
<1>7. CASE Unlink(h)
  BY <1>0, <1>7, Deleted DEF Unlink, End, Exists
<1> QED
  BY <1>1, <1>2, <1>3, <1>4, <1>5, <1>6, <1>7 DEF Step

\* Whoever holds the lock goes on, or ends without it.
LEMMA OwnerMoves ==
    ASSUME Shape, OwnerHasLock, NEW h \in Hooks, Step(h), ~Locks(h)
    PROVE  /\ own'[h] # None => /\ own'[h] = own[h]
                                /\ pc'[h] \in Owning \cup {"retreat", "withdraw"}
           /\ pc'[h] \in Owning => own'[h] # None
<1>0. /\ pc = [g \in Hooks |-> pc[g]] /\ own = [g \in Hooks |-> own[g]]
  BY DEF Shape
<1>1. /\ own[h] # None => pc[h] \in Owning \cup {"retreat", "withdraw"}
      /\ pc[h] \in Owning => own[h] # None
  BY DEF OwnerHasLock
<1>2. CASE Retreat(h) \/ Withdraw(h)
  <2>1. CASE DropClaim(h)
    BY <1>1, <1>2, <2>1, DropClaimMoves DEF Retreat, Withdraw, Owning
  <2>2. CASE FencedStep(h, "withdraw")
    BY <1>0, <1>2, <2>2 DEF FencedStep, Goto, Owning, Retreat, Withdraw
  <2> QED
    BY <1>2, <2>1, <2>2 DEF Retreat, Withdraw
<1>3. CASE Open(h) \/ Take(h)
  <2>1. Exists(LockPath) /\ UNCHANGED own
    BY <1>3, Locking
  <2> QED
    BY <1>0, <1>1, <1>3, <2>1 DEF Open, Take, Goto, Owning
<1>4. CASE Start(h) \/ Settle(h) \/ Inspect(h) \/ Observe(h) \/ Fence(h) \/ Claim(h)
  BY <1>0, <1>1, <1>4 DEF Start, Settle, Inspect, Observe, GiveUp, End, Claiming, Fence, Claim, Fencing,
     Goto, Owning
<1>5. CASE Judge(h) \/ Doom(h) \/ RemoveLock(h)
  BY <1>0, <1>1, <1>5 DEF Judge, Doom, RemoveLock, FencedStep, Goto, Owning
<1>6. CASE Read(h) \/ Rename(h) \/ Release(h) \/ Unlink(h) \/ Crash(h)
  BY <1>0, <1>1, <1>6 DEF Read, Rename, HeldStep, Release, Unlink, Crash, End, Goto, Owning, Outcome
<1> QED
  BY <1>2, <1>3, <1>4, <1>5, <1>6 DEF Step

\* There is one owner at most, and it finds its lock: what is removed is old, or
\* the owner's own.
LEMMA OwnerKeeps ==
    ASSUME Shape, OwnerHasLock, DoomedIsOld, NEW h \in Hooks, Step(h)
    PROVE  OwnerHasLock'
<1>1. /\ clock' = clock /\ \A g \in Hooks : g # h => own'[g] = own[g] /\ pc'[g] = pc[g]
  BY StepIsPrivate DEF Private, Shape
<1>2. \A p \in DOMAIN files : files[p].born \in 0..clock /\ clock \in Nat
  BY DEF Shape
<1>3. CASE Locks(h)
  <2>1. \A g \in Hooks : own[g] = None
    BY <1>3 DEF OwnerHasLock, Locks
  <2>2. pc'[h] \in {"settle", "retreat"} /\ own'[h] # None
    BY <1>3, LockStep DEF Locks, LockKept, None
  <2>3. \A g \in Hooks : g # h => pc'[g] \notin Owning
    BY <1>1, <2>1 DEF OwnerHasLock
  <2> QED
    BY <1>1, <1>3, <2>1, <2>2, <2>3 DEF OwnerHasLock, Locks, Owning
<1>4. CASE RemoveLock(h)
  <2>1. OldLock
    BY <1>4 DEF DoomedIsOld, RemoveLock
  <2>2. \A g \in Hooks : own[g] = None
    BY <1>2, <2>1 DEF OwnerHasLock, OldLock, Exists
  <2>3. own'[h] = None /\ pc'[h] \notin Owning
    BY <1>4, <2>2 DEF RemoveLock, FencedStep, Goto, Owning, Shape
  <2> QED
    BY <1>1, <2>2, <2>3 DEF OwnerHasLock
<1>5. CASE Unlink(h)
  <2>1. own[h] # None
    BY <1>5 DEF Unlink, OwnerHasLock, Owning
  <2>2. \A g \in Hooks : g # h => own[g] = None
    BY <2>1 DEF OwnerHasLock
  <2>3. own'[h] = None /\ pc'[h] \notin Owning
    BY <1>5 DEF Unlink, End, Goto, Outcome, Owning, Shape
  <2> QED
    BY <1>1, <2>2, <2>3 DEF OwnerHasLock
<1>6. CASE LockKept /\ ~Locks(h)
  <2>1. /\ own'[h] # None => own'[h] = own[h] /\ pc'[h] \in Owning \cup {"retreat", "withdraw"}
        /\ pc'[h] \in Owning => own'[h] # None
    BY <1>6, OwnerMoves
  <2>2. ASSUME NEW g \in Hooks, own'[g] # None
        PROVE  /\ own'[g] = own[g] /\ pc'[g] \in Owning \cup {"retreat", "withdraw"}
               /\ Exists(LockPath)' /\ files'[LockPath].born = clock'
               /\ own'[g] = {files'[LockPath].ino}
    BY <1>1, <1>6, <2>1, <2>2 DEF OwnerHasLock, LockKept
  <2>3. \A g \in Hooks : pc'[g] \in Owning => own'[g] # None
    BY <1>1, <2>1 DEF OwnerHasLock
  <2> QED
    BY <2>2, <2>3 DEF OwnerHasLock
<1> QED
  BY <1>3, <1>4, <1>5, <1>6, LockStep DEF Locks, LockKept

-----------------------------------------------------------------------------
(* The election *)

\* A lock that is old was old before, and is the same.
LEMMA OldLockWas ==
    ASSUME Shape, NEW h \in Hooks, Step(h), OldLock'
    PROVE  OldLock /\ files'[LockPath] = files[LockPath] /\ LockKept
<1>1. clock' = clock
  BY StepIsPrivate DEF Private
<1>2. ~Locks(h)
  BY <1>1 DEF OldLock, Locks, Shape
<1> QED
  BY <1>1, <1>2, LockStep DEF OldLock, LockKept

\* An old lock is taken away by the hook that removes it, and by no other.
LEMMA OldLockStays ==
    ASSUME Shape, OwnerHasLock, OldLock, NEW h \in Hooks, Step(h), ~RemoveLock(h)
    PROVE  OldLock'
<1>1. clock' = clock /\ clock \in Nat /\ files[LockPath].born \in 0..clock
  BY StepIsPrivate DEF Private, Shape, OldLock, Exists
<1>2. ~Unlink(h)
  BY <1>1 DEF Unlink, OwnerHasLock, Owning, OldLock
<1>3. ~Locks(h)
  BY DEF Locks, OldLock
<1> QED
  BY <1>1, <1>2, <1>3, LockStep DEF OldLock, LockKept

\* What is about to be removed is old: the hook judged it by its age, and it is
\* alone.
LEMMA DoomedKeeps ==
    ASSUME LockInv, NEW h \in Hooks, Step(h)
    PROVE  DoomedIsOld'
<1>0. /\ Shape /\ OwnerHasLock /\ DoomedIsOld
      /\ \A g \in Hooks : g # h => pc'[g] = pc[g]
      /\ pc = [g \in Hooks |-> pc[g]]
  BY StepIsPrivate DEF LockInv, Private, Shape
<1>1. ASSUME NEW g \in Hooks, pc'[g] \in {"doom", "remove"} PROVE OldLock /\ ~RemoveLock(h)
  <2>1. CASE g # h
    <3>1. pc[g] \in {"doom", "remove"} /\ OldLock
      BY <1>0, <1>1, <2>1 DEF DoomedIsOld
    <3>2. pc[h] \notin Contending
      BY <2>1, <3>1 DEF LockInv, OneElection, Contending
    <3> QED
      BY <3>1, <3>2 DEF RemoveLock, Contending
  <2>2. CASE g = h
    <3>1. Judge(h) \/ Doom(h)
      BY <1>0, <1>1, <2>2 DEF Step, Start, Open, Settle, Inspect, Observe, GiveUp, End, Claiming, Fence,
         Claim, Fencing, RemoveLock, FencedStep, Take, Retreat, Withdraw, DropClaim, Read,
         Rename, HeldStep, Release, Unlink, Crash, Goto, Outcome
    <3>2. CASE Judge(h)
      <4>1. Exists(LockPath) /\ SameStaleLock(h)
        BY <1>0, <1>1, <2>2, <3>2 DEF Judge, FencedStep, Goto
      <4>2. now[h] = clock /\ clock \in Nat /\ files[LockPath].born \in 0..clock
        BY <3>2, <4>1 DEF Judge, LockInv, InTime, MidCall, Running, Shape, Exists
      <4> QED
        BY <3>2, <4>1, <4>2 DEF SameStaleLock, StaleLock, Stale, OldLock, Judge, RemoveLock
    <3>3. CASE Doom(h)
      BY <1>0, <3>3 DEF Doom, DoomedIsOld, RemoveLock
    <3> QED
      BY <3>1, <3>2, <3>3
  <2> QED
    BY <2>1, <2>2
<1> QED
  BY <1>0, <1>1, OldLockStays DEF DoomedIsOld

\* While files are only added, nothing changes for the hooks that stay where
\* they are in their chains, and for one that begins a chain.
LEMMA ElectionStays ==
    ASSUME Shape, OneElection, NEW h \in Hooks, Private(h), OldLock,
           files'[LockPath] = files[LockPath],
           \A p \in DOMAIN files : p \in DOMAIN files' /\ files'[p] = files[p],
           \/ pc'[h] \notin Claimant
           \/ /\ pc[h] \in Electing /\ pc'[h] \in Electing
              /\ pc'[h] \in Contending <=> pc[h] \in Contending
              /\ claims'[h] = claims[h] /\ observed'[h] = observed[h]
           \/ /\ pc'[h] = "fence" /\ claims'[h] = << >>
              /\ observed'[h] = {files[LockPath].ino}
    PROVE  OneElection'
<1>1. /\ clock' = clock
      /\ \A g \in Hooks : g # h => /\ pc'[g] = pc[g] /\ claims'[g] = claims[g]
                                   /\ observed'[g] = observed[g]
  BY DEF Private, Shape
<1>2. \A g \in Hooks :
         \/ pc'[g] \notin Claimant
         \/ /\ pc[g] \in Electing /\ pc'[g] \in Electing
            /\ pc'[g] \in Contending <=> pc[g] \in Contending
            /\ claims'[g] = claims[g] /\ observed'[g] = observed[g]
         \/ /\ pc'[g] = "fence" /\ claims'[g] = << >>
            /\ observed'[g] = {files[LockPath].ino}
  BY <1>1 DEF OneElection, Claimant
<1>3. ASSUME NEW g \in Hooks, pc'[g] \in Electing
      PROVE  observed'[g] = {files'[LockPath].ino} /\ Chained(g)'
  <2>1. CASE /\ pc[g] \in Electing
             /\ pc'[g] \in Contending <=> pc[g] \in Contending
             /\ claims'[g] = claims[g] /\ observed'[g] = observed[g]
    <3>1. Chained(g) /\ observed[g] = {files[LockPath].ino}
      BY <2>1 DEF OneElection
    <3>2. Chained(g)'
      <4> DEFINE m == Len(claims[g])
      <4>0. m \in Nat
        BY Lists DEF Shape
      <4>1. ASSUME NEW k \in 1..m
            PROVE  LET path == PathAt(claims[g], k)
                   IN  /\ Exists(path)' /\ claims[g][k] = <<path, files'[path].ino>>
                       /\ files'[path].born = files[path].born
                       /\ (pc'[g] \in Contending /\ k = m) \/ files'[path].born < clock
        BY <2>1, <3>1 DEF Chained, Exists
      <4>2. pc'[g] \in Contending => m >= 1 /\ files'[PathAt(claims[g], m)].born = clock
        BY <2>1, <3>1, <4>0, <4>1 DEF Chained
      <4> QED
        BY <1>1, <2>1, <4>1, <4>2 DEF Chained, PathAt
    <3> QED
      BY <2>1, <3>1, <3>2
  <2>2. CASE /\ pc'[g] = "fence" /\ claims'[g] = << >>
             /\ observed'[g] = {files[LockPath].ino}
    BY <2>2 DEF Chained, Contending
  <2> QED
    BY <1>2, <1>3, <2>1, <2>2 DEF Claimant
<1>4. ASSUME NEW g \in Hooks, NEW q \in Hooks, pc'[g] \in Electing, pc'[q] \in Electing,
             NEW k \in 1..Len(claims'[g]), k \in 1..Len(claims'[q])
      PROVE  claims'[g][k] = claims'[q][k]
  <2>1. claims'[g] # << >> /\ claims'[q] # << >>
    BY <1>4
  <2>2. /\ pc[g] \in Electing /\ claims'[g] = claims[g]
        /\ pc[q] \in Electing /\ claims'[q] = claims[q]
    BY <1>2, <1>4, <2>1 DEF Claimant
  <2> QED
    BY <1>4, <2>2 DEF OneElection
<1>5. ASSUME NEW g \in Hooks, NEW q \in Hooks, pc'[g] \in Contending, pc'[q] \in Contending
      PROVE  g = q
  BY <1>2, <1>5 DEF OneElection, Claimant, Contending, Electing
<1>6. \A g \in Hooks : pc'[g] \notin {"take", "retreat", "withdraw"}
  BY <1>2 DEF Claimant, Electing
<1> QED
  BY <1>3, <1>4, <1>5, <1>6 DEF OneElection

\* A chain that gets longer leads where it led, and one further.
LEMMA LongerChain ==
    ASSUME NEW l, IsList(l), NEW i
    PROVE  LET longer == Append(l, <<ClaimPath(l), i>>)
           IN  /\ Len(longer) = Len(l) + 1 /\ Len(l) \in Nat
               /\ longer[Len(l) + 1] = <<PathAt(l, Len(l) + 1), i>>
               /\ \A k \in 1..Len(l) : longer[k] = l[k]
               /\ \A k \in 1..(Len(l) + 1) : PathAt(longer, k) = PathAt(l, k)
<1> DEFINE longer == Append(l, <<ClaimPath(l), i>>)
<1>1. /\ Len(longer) = Len(l) + 1 /\ Len(l) \in Nat
      /\ longer[Len(l) + 1] = <<PathAt(l, Len(l) + 1), i>>
      /\ \A k \in 1..Len(l) : longer[k] = l[k]
  BY Lists, NextPath
<1> HIDE DEF longer
<1>2. ASSUME NEW k \in 1..(Len(l) + 1) PROVE PathAt(longer, k) = PathAt(l, k)
  <2>1. CASE k = 1
    BY <2>1 DEF PathAt
  <2>2. CASE k # 1
    <3>1. k - 1 \in 1..Len(l)
      BY <1>1, <2>2
    <3> QED
      BY <1>1, <2>2, <3>1 DEF PathAt
  <2> QED
    BY <2>1, <2>2
<1>3. \A k \in 1..(Len(l) + 1) : PathAt(longer, k) = PathAt(l, k)
  BY <1>2
<1> QED
  BY <1>1, <1>3 DEF longer

\* Two chains that agree lead to the same next path.
LEMMA SamePath ==
    ASSUME Shape, OneElection, NEW g \in Hooks, NEW h \in Hooks,
           pc[g] \in Electing, pc[h] \in Electing,
           NEW k \in 1..Len(claims[g]), k - 1 \in 0..Len(claims[h])
    PROVE  PathAt(claims[g], k) = PathAt(claims[h], k)
<1>1. Len(claims[g]) \in Nat /\ Len(claims[h]) \in Nat
  BY Lists DEF Shape
<1>2. CASE k = 1
  BY <1>2 DEF PathAt
<1>3. CASE k # 1
  <2>1. k - 1 \in 1..Len(claims[g]) /\ k - 1 \in 1..Len(claims[h])
    BY <1>1, <1>3
  <2>2. claims[g][k - 1] = claims[h][k - 1]
    BY <2>1 DEF OneElection
  <2> QED
    BY <1>3, <2>2 DEF PathAt
<1> QED
  BY <1>2, <1>3

\* A hook goes on along an old claim: whoever was there before met the same.
LEMMA FenceExtends ==
    ASSUME Shape, OneElection, OldLock, NEW h \in Hooks, Private(h), pc[h] = "fence",
           UNCHANGED files, pc'[h] = "fence", observed'[h] = observed[h],
           Exists(ClaimPath(claims[h])), files[ClaimPath(claims[h])].born < clock,
           claims'[h] = Append(claims[h],
                               <<ClaimPath(claims[h]), files[ClaimPath(claims[h])].ino>>)
    PROVE  OneElection'
<1> DEFINE l == claims[h]
           path == ClaimPath(l)
           ino == files[path].ino
           longer == Append(l, <<path, ino>>)
<1>1. /\ clock' = clock /\ IsList(l)
      /\ \A g \in Hooks : g # h => /\ pc'[g] = pc[g] /\ claims'[g] = claims[g]
                                   /\ observed'[g] = observed[g]
  BY DEF Private, Shape
<1>2. /\ claims'[h] = longer
      /\ Len(longer) = Len(l) + 1 /\ Len(l) \in Nat
      /\ path = PathAt(l, Len(l) + 1)
      /\ longer[Len(l) + 1] = <<path, ino>>
      /\ \A k \in 1..Len(l) : longer[k] = l[k]
      /\ \A k \in 1..(Len(l) + 1) : PathAt(longer, k) = PathAt(l, k)
  BY <1>1, LongerChain, NextPath
<1>3. Chained(h) /\ observed[h] = {files[LockPath].ino} /\ pc[h] \in Electing
  BY DEF OneElection, Electing
<1>4. Chained(h)'
  <2>1. ASSUME NEW k \in 1..(Len(l) + 1)
        PROVE  /\ Exists(PathAt(longer, k)) /\ longer[k] = <<PathAt(longer, k), files[PathAt(longer, k)].ino>>
               /\ files[PathAt(longer, k)].born < clock
    <3>1. CASE k \in 1..Len(l)
      BY <1>2, <1>3, <3>1 DEF Chained, Contending
    <3>2. CASE k = Len(l) + 1
      BY <1>2, <3>2
    <3> QED
      BY <1>2, <3>1, <3>2
  <2> HIDE DEF longer
  <2> QED
    BY <1>1, <1>2, <2>1 DEF Chained, Contending, Exists, PathAt
<1>5. ASSUME NEW g \in Hooks, g # h, pc[g] \in Electing,
             NEW k \in 1..Len(claims[g]), k \in 1..(Len(l) + 1)
      PROVE  claims[g][k] = longer[k]
  <2>1. CASE k \in 1..Len(l)
    BY <1>2, <1>3, <1>5, <2>1 DEF OneElection
  <2>2. CASE k = Len(l) + 1
    <3>1. k - 1 \in 0..Len(claims[h])
      BY <1>2, <2>2
    <3>2. PathAt(claims[g], k) = PathAt(l, k)
      BY <1>3, <1>5, <3>1, SamePath
    <3>3. claims[g][k] = <<PathAt(claims[g], k), files[PathAt(claims[g], k)].ino>>
      BY <1>5 DEF OneElection, Chained
    <3> QED
      BY <1>2, <2>2, <3>2, <3>3
  <2> QED
    BY <1>2, <1>5, <2>1, <2>2
<1>6. ASSUME NEW g \in Hooks, g # h, pc[g] \in Electing PROVE Chained(g)'
  <2>1. Chained(g)
    BY <1>6 DEF OneElection
  <2> QED
    BY <1>1, <1>6, <2>1 DEF Chained, Exists, PathAt
<1> HIDE DEF longer, l
<1>7. ASSUME NEW g \in Hooks, NEW q \in Hooks, pc'[g] \in Electing, pc'[q] \in Electing,
             NEW k \in 1..Len(claims'[g]), k \in 1..Len(claims'[q])
      PROVE  claims'[g][k] = claims'[q][k]
  <2>1. CASE g = q
    BY <2>1
  <2>2. CASE g = h /\ q # h
    BY <1>1, <1>2, <1>5, <1>7, <2>2
  <2>3. CASE g # h /\ q = h
    BY <1>1, <1>2, <1>5, <1>7, <2>3
  <2>4. CASE g # h /\ q # h
    BY <1>1, <1>7, <2>4 DEF OneElection
  <2> QED
    BY <2>1, <2>2, <2>3, <2>4
<1>8. \A g \in Hooks : pc'[g] = pc[g]
  BY <1>1
<1>9. \A g \in Hooks : pc'[g] \in Electing => observed'[g] = {files'[LockPath].ino} /\ Chained(g)'
  BY <1>1, <1>3, <1>4, <1>6, <1>8 DEF OneElection
<1> QED
  BY <1>7, <1>8, <1>9 DEF OneElection

\* The end of the chain is claimed once: a second claimant would have met the
\* first one's young claim.
LEMMA ClaimExtends ==
    ASSUME Shape, OneElection, OldLock, NEW h \in Hooks, Private(h), pc[h] = "claim",
           pc'[h] = "judge", observed'[h] = observed[h],
           ~Exists(ClaimPath(claims[h])), NEW i, Create(ClaimPath(claims[h]), i),
           claims'[h] = Append(claims[h], <<ClaimPath(claims[h]), i>>)
    PROVE  OneElection'
<1> DEFINE l == claims[h]
           path == ClaimPath(l)
           longer == Append(l, <<path, i>>)
<1>1. /\ clock' = clock /\ IsList(l)
      /\ \A g \in Hooks : g # h => /\ pc'[g] = pc[g] /\ claims'[g] = claims[g]
                                   /\ observed'[g] = observed[g]
  BY DEF Private, Shape
<1>2. /\ claims'[h] = longer
      /\ Len(longer) = Len(l) + 1 /\ Len(l) \in Nat
      /\ path = PathAt(l, Len(l) + 1)
      /\ longer[Len(l) + 1] = <<path, i>>
      /\ \A k \in 1..Len(l) : longer[k] = l[k]
      /\ \A k \in 1..(Len(l) + 1) : PathAt(longer, k) = PathAt(l, k)
  BY <1>1, LongerChain, NextPath
<1>3. Chained(h) /\ observed[h] = {files[LockPath].ino} /\ pc[h] \in Electing
  BY DEF OneElection, Electing
<1>f. /\ DOMAIN files' = DOMAIN files \cup {path} /\ path \notin DOMAIN files
      /\ files'[path].ino = i /\ files'[path].born = clock
      /\ \A p \in DOMAIN files : files'[p] = files[p]
      /\ LockPath \in DOMAIN files
  BY Created DEF Exists, OldLock
<1>4. Chained(h)'
  <2>1. ASSUME NEW k \in 1..Len(l)
        PROVE  /\ PathAt(longer, k) \in DOMAIN files
               /\ longer[k] = <<PathAt(longer, k), files[PathAt(longer, k)].ino>>
               /\ files[PathAt(longer, k)].born < clock
    <3>1. PathAt(longer, k) = PathAt(l, k) /\ longer[k] = l[k]
      BY <1>2
    <3>2. /\ PathAt(l, k) \in DOMAIN files /\ l[k] = <<PathAt(l, k), files[PathAt(l, k)].ino>>
          /\ files[PathAt(l, k)].born < clock
      BY <1>3 DEF Chained, Contending, Exists
    <3> QED
      BY <3>1, <3>2
  <2>2. PathAt(longer, Len(l) + 1) = path
    BY <1>2
  <2> HIDE DEF longer, path, l
  <2>3. ASSUME NEW k \in 1..Len(longer)
        PROVE  /\ PathAt(longer, k) \in DOMAIN files'
               /\ longer[k] = <<PathAt(longer, k), files'[PathAt(longer, k)].ino>>
               /\ k = Len(longer) \/ files'[PathAt(longer, k)].born < clock
    <3>1. CASE k \in 1..Len(l)
      BY <1>f, <2>1, <3>1
    <3>2. CASE k = Len(l) + 1
      BY <1>2, <1>f, <2>2, <3>2
    <3> QED
      BY <1>2, <3>1, <3>2
  <2>4. /\ Len(longer) >= 1 /\ files'[PathAt(longer, Len(longer))].born = clock
        /\ pc'[h] \in Contending
    BY <1>2, <1>f, <2>2 DEF Contending
  <2> QED
    BY <1>1, <1>2, <2>3, <2>4 DEF Chained, Exists
<1>5. ASSUME NEW g \in Hooks, g # h, pc[g] \in Electing
      PROVE  Len(claims[g]) <= Len(l)
  <2>1. SUFFICES ASSUME Len(claims[g]) > Len(l) PROVE FALSE
    BY <1>2, Lists DEF Shape
  <2>2. Len(l) + 1 \in 1..Len(claims[g]) /\ (Len(l) + 1) - 1 \in 0..Len(claims[h])
    BY <1>2, <2>1, Lists DEF Shape
  <2>3. PathAt(claims[g], Len(l) + 1) = path
    BY <1>2, <1>3, <1>5, <2>2, SamePath
  <2>4. Exists(PathAt(claims[g], Len(l) + 1))
    BY <1>5, <2>2 DEF OneElection, Chained
  <2> QED
    BY <1>f, <2>3, <2>4 DEF Exists
<1>6. ASSUME NEW g \in Hooks, g # h, pc[g] \in Electing PROVE Chained(g)' /\ pc[g] \notin Contending
  <2>1. Chained(g)
    BY <1>6 DEF OneElection
  <2>0. Len(claims[g]) \in Nat
    BY Lists DEF Shape
  <2>2. ASSUME NEW k \in 1..Len(claims[g])
        PROVE  /\ PathAt(claims[g], k) \in DOMAIN files
               /\ files'[PathAt(claims[g], k)] = files[PathAt(claims[g], k)]
    BY <1>f, <2>1 DEF Chained, Exists
  <2>3. Chained(g)'
    <3> DEFINE m == Len(claims[g])
    <3>1. ASSUME NEW k \in 1..m
          PROVE  /\ PathAt(claims[g], k) \in DOMAIN files'
                 /\ claims[g][k] = <<PathAt(claims[g], k), files'[PathAt(claims[g], k)].ino>>
                 /\ (pc[g] \in Contending /\ k = m) \/ files'[PathAt(claims[g], k)].born < clock
      BY <1>f, <2>1, <2>2 DEF Chained
    <3>2. pc[g] \in Contending => m >= 1 /\ files'[PathAt(claims[g], m)].born = clock
      BY <2>0, <2>1, <2>2 DEF Chained
    <3> QED
      BY <1>1, <1>6, <3>1, <3>2 DEF Chained, Exists
  <2>4. ASSUME pc[g] \in Contending PROVE FALSE
    <3> DEFINE m == Len(claims[g])
    <3>1. m \in 1..Len(claims[g]) /\ m \in 1..Len(l) /\ m - 1 \in 0..Len(claims[h])
      BY <1>2, <1>5, <1>6, <2>0, <2>1, <2>4 DEF Chained
    <3>2. PathAt(claims[g], m) = PathAt(l, m)
      BY <1>3, <1>6, <3>1, SamePath
    <3>3. files[PathAt(l, m)].born < clock
      BY <1>3, <3>1 DEF Chained, Contending
    <3>4. files[PathAt(l, m)].born = clock /\ clock \in Nat
      BY <2>1, <2>4, <3>2 DEF Chained, Shape
    <3> QED
      BY <3>3, <3>4
  <2> QED
    BY <2>3, <2>4
<1> HIDE DEF longer, l
<1>7. ASSUME NEW g \in Hooks, NEW q \in Hooks, pc'[g] \in Electing, pc'[q] \in Electing,
             NEW k \in 1..Len(claims'[g]), k \in 1..Len(claims'[q])
      PROVE  claims'[g][k] = claims'[q][k]
  <2>0. \A r \in Hooks : Len(claims[r]) \in Nat
    BY Lists DEF Shape
  <2>1. ASSUME NEW r \in Hooks, r # h, pc[r] \in Electing, k \in 1..Len(claims[r])
        PROVE  claims[r][k] = longer[k]
    <3>1. k \in 1..Len(l)
      BY <1>2, <1>5, <2>0, <2>1
    <3> QED
      BY <1>2, <1>3, <2>1, <3>1 DEF OneElection, l
  <2>2. CASE g = q
    BY <2>2
  <2>3. CASE g = h /\ q # h
    BY <1>1, <1>2, <1>7, <2>1, <2>3
  <2>4. CASE g # h /\ q = h
    BY <1>1, <1>2, <1>7, <2>1, <2>4
  <2>5. CASE g # h /\ q # h
    BY <1>1, <1>7, <2>5 DEF OneElection
  <2> QED
    BY <2>2, <2>3, <2>4, <2>5
<1>8. \A g \in Hooks : pc'[g] \in Electing => observed'[g] = {files'[LockPath].ino} /\ Chained(g)'
  BY <1>1, <1>3, <1>4, <1>6, <1>f DEF OneElection
<1>9. \A g, q \in Hooks : pc'[g] \in Contending /\ pc'[q] \in Contending => g = q
  BY <1>1, <1>6 DEF Contending, Electing
<1>10. \A g \in Hooks : pc'[g] \notin {"take", "retreat", "withdraw"}
  BY <1>1 DEF OneElection
<1> QED
  BY <1>7, <1>8, <1>9, <1>10 DEF OneElection

\* As long as there is an old lock, every step keeps to the one election.
LEMMA ElectionKeeps ==
    ASSUME LockInv, NEW h \in Hooks, Step(h), OldLock'
    PROVE  OneElection'
<1>1. /\ Shape /\ InTime /\ OwnerHasLock /\ OldLock /\ OneElection /\ Private(h)
      /\ files'[LockPath] = files[LockPath] /\ Exists(LockPath)'
  BY OldLockWas, StepIsPrivate DEF LockInv, OldLock
<1>2. /\ pc = [g \in Hooks |-> pc[g]] /\ claims = [g \in Hooks |-> claims[g]]
      /\ observed = [g \in Hooks |-> observed[g]]
      /\ clock \in Nat /\ files[LockPath].born \in 0..clock /\ files[LockPath].born < clock
      /\ Exists(LockPath)
  BY <1>1 DEF Shape, OldLock, Exists
<1>3. pc[h] \notin Owning \cup {"take", "retreat", "withdraw"}
  BY <1>1, <1>2 DEF OwnerHasLock, OneElection
<1>4. MidCall(h) => now[h] = clock
  BY <1>1 DEF InTime
<1>5. pc[h] \in Electing => observed[h] = {files[LockPath].ino}
  BY <1>1 DEF OneElection
<1>6. CASE Start(h) \/ Open(h) \/ Crash(h)
  <2>1. UNCHANGED files /\ pc'[h] \notin Claimant
    BY <1>2, <1>6 DEF Start, Open, Crash, End, Goto, disk, Claimant, Electing
  <2> QED
    BY <1>1, <2>1, ElectionStays
<1>7. CASE Inspect(h) \/ Observe(h)
  <2>1. claims[h] = << >> /\ UNCHANGED files
    BY <1>7 DEF Inspect, Observe, GiveUp, Claiming, disk, LockInv, Shape, Claimant, Electing
  <2>2. \/ pc'[h] \notin Claimant
        \/ /\ pc'[h] = "fence" /\ claims'[h] = << >>
           /\ observed'[h] = {files[LockPath].ino}
    BY <1>2, <1>7, <2>1 DEF Inspect, Observe, GiveUp, End, Claiming, Goto, Claimant, Electing
  <2> QED
    BY <1>1, <2>1, <2>2, ElectionStays
<1>8. CASE Judge(h)
  <2>1. UNCHANGED files /\ pc[h] = "judge" /\ claims'[h] = claims[h] /\ observed'[h] = observed[h]
    BY <1>8 DEF Judge, FencedStep
  <2>2. SameStaleLock(h)
    BY <1>2, <1>4, <1>5, <2>1 DEF SameStaleLock, StaleLock, Stale, MidCall, Running, Electing
  <2>3. pc'[h] = "doom"
    BY <1>2, <1>8, <2>2 DEF Judge, FencedStep, Goto
  <2> QED
    BY <1>1, <2>1, <2>3, ElectionStays DEF Electing, Contending
<1>9. CASE Doom(h)
  <2>1. /\ UNCHANGED files /\ pc[h] = "doom" /\ pc'[h] = "remove"
        /\ claims'[h] = claims[h] /\ observed'[h] = observed[h]
    BY <1>2, <1>5, <1>9 DEF Doom, FencedStep, Goto, Electing
  <2> QED
    BY <1>1, <2>1, ElectionStays DEF Electing, Contending
<1>10. CASE Fence(h)
  <2> DEFINE path == ClaimPath(claims[h])
  <2>1. UNCHANGED files /\ pc[h] = "fence"
    BY <1>10 DEF Fence, GiveUp, disk
  <2>2. CASE GiveUp(h)
    BY <1>1, <1>2, <2>1, <2>2, ElectionStays DEF GiveUp, End, Goto, Claimant, Electing
  <2>3. CASE Fencing(h, claims[h], "claim")
    <3>1. pc'[h] = "claim" /\ claims'[h] = claims[h] /\ observed'[h] = observed[h]
      BY <1>2, <2>3 DEF Fencing, Goto
    <3> QED
      BY <1>1, <2>1, <3>1, ElectionStays DEF Electing, Contending
  <2>4. CASE /\ Exists(path) /\ Stale(h, path)
             /\ Fencing(h, Append(claims[h], <<path, files[path].ino>>), "fence")
    <3>1. /\ pc'[h] = "fence" /\ observed'[h] = observed[h]
          /\ claims'[h] = Append(claims[h], <<path, files[path].ino>>)
      BY <1>2, <2>4 DEF Fencing, Goto
    <3>2. files[path].born < clock
      <4>1. now[h] = clock
        BY <1>4, <2>1 DEF MidCall, Running
      <4>2. files[path].born \in 0..clock
        BY <1>1, <2>4 DEF Shape, Exists
      <4> QED
        BY <1>2, <2>4, <4>1, <4>2 DEF Stale
    <3> QED
      BY <1>1, <2>1, <2>4, <3>1, <3>2, FenceExtends
  <2> QED
    BY <1>10, <2>2, <2>3, <2>4 DEF Fence
<1>11. CASE Claim(h)
  <2> DEFINE path == ClaimPath(claims[h])
  <2>1. pc[h] = "claim"
    BY <1>11 DEF Claim
  <2>2. CASE GiveUp(h)
    <3>1. UNCHANGED files /\ pc'[h] \notin Claimant
      BY <1>2, <2>2 DEF GiveUp, End, Goto, disk, Claimant, Electing
    <3> QED
      BY <1>1, <3>1, ElectionStays
  <2>3. CASE ~GiveUp(h)
    <3>1. PICK i : /\ ~Exists(path) /\ Create(path, i)
                   /\ Fencing(h, Append(claims[h], <<path, i>>), "judge")
      BY <1>11, <2>3 DEF Claim
    <3>2. /\ pc'[h] = "judge" /\ observed'[h] = observed[h]
          /\ claims'[h] = Append(claims[h], <<path, i>>)
      BY <1>2, <3>1 DEF Fencing, Goto
    <3> QED
      BY <1>1, <2>1, <3>1, <3>2, ClaimExtends
  <2> QED
    BY <2>2, <2>3
<1>12. CASE RemoveLock(h)
  <2>1. ~Exists(LockPath)'
    BY <1>12, LockStep, <1>1, <1>2, Deleted DEF RemoveLock, Exists
  <2> QED
    BY <1>1, <2>1
<1>13. ~(\/ Settle(h) \/ Take(h) \/ Retreat(h) \/ Withdraw(h) \/ Read(h) \/ Rename(h)
        \/ Release(h) \/ Unlink(h))
  BY <1>3 DEF Settle, Take, Retreat, Withdraw, Read, Rename, Release, Unlink, Owning
<1> QED
  BY <1>6, <1>7, <1>8, <1>9, <1>10, <1>11, <1>12, <1>13 DEF Step

-----------------------------------------------------------------------------
(* The invariant holds *)

\* Dead hooks may have left a lock and a chain; nobody runs yet.
LEMMA InitInv == Init => LockInv
<1> SUFFICES ASSUME Init PROVE LockInv
  OBVIOUS
<1>1. \A p \in DOMAIN files : files[p].born = 0
  <2>1. PICK lock \in 0..1, n \in 0..MaxGenerations + 1 : files = LeftFiles(lock..n)
    BY DEF Init, Leftovers
  <2>2. \A p \in DOMAIN LeftFiles(lock..n) : LeftFiles(lock..n)[p].born = 0
    BY DEF LeftFiles
  <2> QED
    BY <2>1, <2>2
<1>2. /\ pc = [h \in Hooks |-> "new"] /\ clock \in 0..1 /\ now = [h \in Hooks |-> 0]
      /\ observed = [h \in Hooks |-> None] /\ own = [h \in Hooks |-> None]
      /\ raw = [h \in Hooks |-> {}] /\ claims = [h \in Hooks |-> << >>]
  BY DEF Init
<1>3. IsList(<< >>)
  BY DEF IsList
<1>4. Shape
  BY <1>1, <1>2, <1>3 DEF Shape, Claimant, Electing
<1>5. InTime /\ OwnerHasLock /\ DoomedIsOld
  BY <1>2 DEF InTime, OwnerHasLock, DoomedIsOld, MidCall, Running, Owning
<1>6. OneElection
  BY <1>2 DEF OneElection, Electing, Contending
<1> QED
  BY <1>4, <1>5, <1>6 DEF LockInv

\* Time passes between calls only, and what was made before gets old.
LEMMA TickKeeps ==
    ASSUME LockInv, Tick, Suspends = FALSE
    PROVE  LockInv'
<1>1. /\ clock' = clock + 1 /\ clock \in Nat
      /\ UNCHANGED <<files, pc, now, observed, claims, own, raw>>
      /\ \A h \in Hooks : ~MidCall(h)
      /\ Shape /\ OwnerHasLock /\ DoomedIsOld
  BY DEF Tick, disk, LockInv, Shape
<1>2. Shape'
  <2>1. \A p \in DOMAIN files : files[p].born \in 0..clock'
    BY <1>1 DEF Shape
  <2> QED
    BY <1>1, <2>1 DEF Shape
<1>3. \A h \in Hooks : own[h] = None /\ pc[h] \notin Owning \cup Claimant
  BY <1>1 DEF OwnerHasLock, MidCall, Running, Owning, Claimant, Electing
<1>4. InTime' /\ OwnerHasLock' /\ DoomedIsOld' /\ OneElection'
  BY <1>1, <1>3 DEF InTime, MidCall, OwnerHasLock, DoomedIsOld, OneElection, Claimant, Electing, Contending
<1> QED
  BY <1>2, <1>4 DEF LockInv

\* Every step keeps the invariant.
LEMMA NextInv ==
    ASSUME Suspends = FALSE
    PROVE  LockInv /\ [Next]_vars => LockInv'
<1> SUFFICES ASSUME LockInv, [Next]_vars PROVE LockInv'
  OBVIOUS
<1>1. ASSUME NEW h \in Hooks, Step(h) PROVE LockInv'
  BY <1>1, ShapeKeeps, TimeKeeps, OwnerKeeps, DoomedKeeps, ElectionKeeps DEF LockInv
<1>2. CASE Tick
  BY <1>2, TickKeeps
<1>3. CASE UNCHANGED vars
  BY <1>3 DEF vars, disk, LockInv, Shape, InTime, MidCall, OwnerHasLock, DoomedIsOld, OldLock, Exists,
     OneElection, Chained, PathAt
<1> QED
  BY <1>1, <1>2, <1>3 DEF Next, Step

\* The lock, its owner and the chains of claims are as the proofs need them
\* (context-continuity-executor.ts acquireLock, claimStaleLock and
\* acquireRecoveryFence), as long as no hook is held up in mid-call.
THEOREM LockInvariant ==
    ASSUME Suspends = FALSE
    PROVE  Spec => []LockInv
BY InitInv, NextInv, PTL DEF Spec

\* One hook at a time is between the reading of the checkpoint and its
\* replacement (mutateCheckpoint), whatever dead hooks left behind and however
\* inodes are reused.
THEOREM HoldersAreAlone ==
    ASSUME Suspends = FALSE
    PROVE  Spec => []OneHolder
<1>1. LockInv => OneHolder
  BY DEF LockInv, OwnerHasLock, OneHolder, Holder, Owning
<1> QED
  BY <1>1, LockInvariant, PTL

-----------------------------------------------------------------------------
(* The merges *)

\* Whoever is about to replace the checkpoint has read what it holds, and what
\* a hook has merged it has merged once.
Merging ==
    /\ \A h \in Hooks : pc[h] = "rename" => raw[h] = content
    /\ \A h \in Hooks : h \in content => pc[h] \in {"release", "unlink"} \cup Ended
    /\ \A h \in Hooks : h \in raw[h] => h \in content

MergeInv == LockInv /\ Merging

\* The checkpoint is replaced by the holder, on top of what it read.
LEMMA ContentStep ==
    ASSUME Shape, NEW h \in Hooks, Step(h)
    PROVE  \/ content' = content
           \/ /\ pc[h] = "rename" /\ pc'[h] = "release" /\ reported' = reported
              /\ content' = raw[h] \cup {h} /\ raw'[h] = content'
<1>1. CASE Rename(h)
  BY <1>1 DEF Rename, HeldStep, Goto, Shape
<1>2. CASE ~Rename(h)
  BY <1>2 DEF Step, Start, Open, Settle, Inspect, Observe, GiveUp, End, Claiming, Fence, Claim, Fencing,
     Judge, Doom, RemoveLock, FencedStep, Take, Retreat, Withdraw, DropClaim, Read, Release,
     HeldStep, Unlink, Crash, disk
<1> QED
  BY <1>1, <1>2

\* A hook reports at the end, what it finds in its own copy.
LEMMA ReportStep ==
    ASSUME Shape, NEW h \in Hooks, Step(h)
    PROVE  \/ reported' = reported
           \/ reported' = reported \cup {h} /\ content' = content /\ h \in raw[h]
<1>1. CASE Release(h) \/ Unlink(h)
  BY <1>1 DEF Release, Unlink, HeldStep, End, Outcome, disk
<1>2. CASE ~(Release(h) \/ Unlink(h))
  BY <1>2 DEF Step, Start, Open, Settle, Inspect, Observe, GiveUp, End, Claiming, Fence, Claim, Fencing,
     Judge, Doom, RemoveLock, FencedStep, Take, Retreat, Withdraw, DropClaim, Read, Rename,
     HeldStep, Crash, disk
<1> QED
  BY <1>1, <1>2

\* A hook's copy is what it reads under the lock, until it forgets it.
LEMMA CopyStep ==
    ASSUME Shape, NEW h \in Hooks, Step(h)
    PROVE  /\ \/ raw'[h] = raw[h] /\ pc'[h] # "rename"
              \/ raw'[h] = {} /\ pc'[h] # "rename"
              \/ raw'[h] = content /\ content' = content
              \/ raw'[h] = content' /\ pc'[h] = "release"
           /\ pc[h] \in {"release", "unlink"} \cup Ended => pc'[h] \in {"unlink"} \cup Ended
<1>0. pc = [g \in Hooks |-> pc[g]] /\ raw = [g \in Hooks |-> raw[g]]
  BY DEF Shape
<1>1. CASE Read(h) \/ Rename(h)
  BY <1>0, <1>1 DEF Read, Rename, HeldStep, Goto, Ended
<1>2. CASE Release(h) \/ Unlink(h) \/ Crash(h)
  BY <1>0, <1>2 DEF Release, Unlink, Crash, HeldStep, End, Goto, Outcome, Ended, MidCall, Running
<1>3. CASE Retreat(h) \/ Withdraw(h)
  BY <1>0, <1>3 DEF Retreat, Withdraw, DropClaim, Fencing, FencedStep, End, Goto, Ended
<1>4. CASE Start(h) \/ Open(h) \/ Settle(h) \/ Take(h)
  BY <1>0, <1>4 DEF Start, Open, Settle, Take, Goto, Ended
<1>5. CASE Inspect(h) \/ Observe(h) \/ Fence(h) \/ Claim(h)
  BY <1>0, <1>5 DEF Inspect, Observe, GiveUp, End, Claiming, Fence, Claim, Fencing, Goto, Ended
<1>6. CASE Judge(h) \/ Doom(h) \/ RemoveLock(h)
  BY <1>0, <1>6 DEF Judge, Doom, RemoveLock, FencedStep, Goto, Ended
<1> QED
  BY <1>1, <1>2, <1>3, <1>4, <1>5, <1>6 DEF Step

\* Every step of a hook keeps it: the holder is alone with the checkpoint.
LEMMA MergingKeeps ==
    ASSUME MergeInv, NEW h \in Hooks, Step(h)
    PROVE  Merging'
<1>1. /\ Shape /\ OwnerHasLock
      /\ \A g \in Hooks : g # h => pc'[g] = pc[g] /\ raw'[g] = raw[g]
  BY StepIsPrivate DEF MergeInv, LockInv, Private, Shape
<1>2. CASE content' = content
  <2>1. \A g \in Hooks : pc'[g] = "rename" => raw'[g] = content'
    BY <1>1, <1>2, CopyStep DEF MergeInv, Merging
  <2>2. \A g \in Hooks : g \in content' => pc'[g] \in {"release", "unlink"} \cup Ended
    BY <1>1, <1>2, CopyStep DEF MergeInv, Merging
  <2>3. \A g \in Hooks : g \in raw'[g] => g \in content'
    BY <1>1, <1>2, CopyStep DEF MergeInv, Merging
  <2> QED
    BY <2>1, <2>2, <2>3 DEF Merging
<1>3. CASE /\ pc[h] = "rename" /\ pc'[h] = "release"
           /\ content' = raw[h] \cup {h} /\ raw'[h] = content'
  <2>1. raw[h] = content
    BY <1>3 DEF MergeInv, Merging
  <2>2. \A g \in Hooks : g # h => pc[g] # "rename"
    BY <1>1, <1>3 DEF OwnerHasLock, Owning
  <2> QED
    BY <1>1, <1>3, <2>1, <2>2 DEF MergeInv, Merging
<1> QED
  BY <1>1, <1>2, <1>3, ContentStep

\* The merges are as CheckpointMerge has them: each one atomic, on top of all
\* earlier ones, and what is reported is there
\* (docs/specs/2026-08-27-mechanical-context-continuity.md:339).
THEOREM ImplementsMerge ==
    ASSUME Suspends = FALSE
    PROVE  Spec => MergeSpec
<1>1. Init => MergeInv /\ Abstract!Init
  <2>1. Init => Merging
    BY DEF Init, Merging
  <2> QED
    BY <2>1, InitInv DEF MergeInv, Init, Abstract!Init
<1>2. MergeInv /\ [Next]_vars => MergeInv'
  <2>1. ASSUME MergeInv, Tick \/ UNCHANGED vars PROVE Merging'
    BY <2>1 DEF Tick, vars, disk, MergeInv, Merging
  <2>2. MergeInv /\ [Next]_vars => Merging'
    BY <2>1, MergingKeeps DEF Next, Step
  <2> QED
    BY <2>2, NextInv DEF MergeInv
<1>3. MergeInv /\ [Next]_vars => [Abstract!Next]_<<content, reported>>
  <2>1. ASSUME MergeInv, NEW h \in Hooks, Step(h)
        PROVE  [Abstract!Next]_<<content, reported>>
    <3>1. Shape
      BY <2>1 DEF MergeInv, LockInv
    <3>2. CASE /\ pc[h] = "rename" /\ reported' = reported
               /\ content' = raw[h] \cup {h}
      <4>1. h \notin content /\ content' = content \cup {h}
        BY <2>1, <3>2 DEF MergeInv, Merging, Ended
      <4>2. Abstract!Merge(h)
        BY <3>2, <4>1 DEF Abstract!Merge
      <4> QED
        BY <4>2 DEF Abstract!Next
    <3>3. CASE content' = content
      <4>1. CASE reported' = reported
        BY <3>3, <4>1
      <4>2. CASE reported' = reported \cup {h} /\ h \in raw[h]
        <5>1. Abstract!Report(h)
          BY <2>1, <3>3, <4>2 DEF Abstract!Report, MergeInv, Merging
        <5> QED
          BY <5>1 DEF Abstract!Next
      <4> QED
        BY <2>1, <3>1, <4>1, <4>2, ReportStep
    <3> QED
      BY <2>1, <3>1, <3>2, <3>3, ContentStep
  <2>2. ASSUME Tick \/ UNCHANGED vars PROVE UNCHANGED <<content, reported>>
    BY <2>2 DEF Tick, vars, disk
  <2> QED
    BY <2>1, <2>2 DEF Next, Step
<1> QED
  BY <1>1, <1>2, <1>3, PTL DEF Spec, MergeSpec, Abstract!Spec

-----------------------------------------------------------------------------
(* A hook that runs alone *)

\* Nobody is in mid-call beside a hook that runs alone: it finds what it found,
\* and so it removes the lock that it saw and gets its own.
Undisturbed(h) ==
    /\ \A g \in Hooks : g # h => ~MidCall(g)
    /\ pc[h] = "inspect" => Exists(LockPath)
    /\ pc[h] \in Electing =>
          /\ observed[h] = (IF Exists(LockPath) THEN {files[LockPath].ino} ELSE None)
          /\ Exists(LockPath) => Stale(h, LockPath)
    /\ pc[h] \in {"doom", "remove"} => Exists(LockPath)
    /\ pc[h] \in {"fence", "claim"} =>
          \A k \in 1..Len(claims[h]) : Exists(PathAt(claims[h], k))
    /\ pc[h] = "claim" => ~Exists(ClaimPath(claims[h]))
    /\ pc[h] = "take" => ~Exists(LockPath)
    /\ pc[h] \in {"retreat", "withdraw"} => own[h] # None

LoneInv ==
    /\ LockInv /\ IsFiniteSet(DOMAIN files) /\ alone = [h \in Hooks |-> alone[h]]
    /\ \A h \in Hooks : alone[h] /\ MidCall(h) => Undisturbed(h)

\* There are finitely many files.
LEMMA FilesFinite ==
    ASSUME FileStep, IsFiniteSet(DOMAIN files)
    PROVE  IsFiniteSet(DOMAIN files')
<1>1. ASSUME NEW path, NEW i, Create(path, i) PROVE IsFiniteSet(DOMAIN files')
  <2>1. DOMAIN files' = DOMAIN files \cup {path}
    BY <1>1, Created
  <2> QED
    BY <2>1, FS_AddElement
<1>2. ASSUME NEW path, Delete(path) PROVE IsFiniteSet(DOMAIN files')
  <2>1. DOMAIN files' = DOMAIN files \ {path}
    BY <1>2, Deleted
  <2> QED
    BY <2>1, FS_RemoveElement
<1> QED
  BY <1>1, <1>2 DEF FileStep

\* Dead hooks left finitely many.
LEMMA LeftFilesFinite ==
    ASSUME NEW S, IsFiniteSet(S)
    PROVE  IsFiniteSet(DOMAIN LeftFiles(S))
<1> DEFINE inode == CHOOSE f \in Injection(0..MaxGenerations + 1, Inodes) : TRUE
           path(g) == IF g = 0 THEN LockPath
                      ELSE ClaimPath([k \in 1..g - 1 |-> <<"claim", inode[k]>>])
           T == {path(g) : g \in S}
           name == [g \in S |-> path(g)]
<1>1. DOMAIN LeftFiles(S) = T
  BY DEF LeftFiles
<1>2. name \in Surjection(S, T)
  <2> HIDE DEF path
  <2>1. name \in [S -> T] /\ \A t \in T : \E g \in S : name[g] = t
    OBVIOUS
  <2> QED
    BY <2>1 DEF Surjection
<1> HIDE DEF T, name
<1>3. IsFiniteSet(T)
  BY <1>2, FS_Surjection
<1> QED
  BY <1>1, <1>3

\* The claims of a chain are as many files.
LEMMA ChainIsLong ==
    ASSUME NEW l, IsList(l), IsFiniteSet(DOMAIN files),
           \A k \in 1..(Len(l) + 1) : Exists(PathAt(l, k))
    PROVE  Cardinality(DOMAIN files \ {LockPath}) >= Len(l) + 1
<1> DEFINE n == Len(l) + 1
           Claims == DOMAIN files \ {LockPath}
           path == [k \in 1..n |-> PathAt(l, k)]
<1>0. n \in Nat
  BY Lists
<1>1. \A k \in 1..n : PathAt(l, k) # LockPath
  <2>1. <<"recovery">> # <<"lock">> /\ \A x, y : <<"recovery", x, y>> # <<"lock">>
    OBVIOUS
  <2> QED
    BY <2>1 DEF PathAt, LockPath
<1>2. \A j, k \in 1..n : PathAt(l, j) = PathAt(l, k) => j = k
  <2>1. \A x, y : <<"recovery">> # <<"recovery", x, y>>
    OBVIOUS
  <2>2. \A x, y, u, v : <<"recovery", x, y>> = <<"recovery", u, v>> => x = u
    OBVIOUS
  <2>3. \A j, k \in 1..n : j - 1 = k - 1 => j = k
    BY <1>0
  <2> QED
    BY <2>1, <2>2, <2>3 DEF PathAt
<1>3. path \in Injection(1..n, Claims)
  <2>1. path \in [1..n -> Claims]
    BY <1>1 DEF Exists
  <2>2. \A j, k \in 1..n : path[j] = path[k] => j = k
    BY <1>2
  <2> HIDE DEF path, n
  <2> QED
    BY <2>1, <2>2 DEF Injection, IsInjective
<1>4. IsFiniteSet(Claims)
  BY FS_RemoveElement
<1>5. Cardinality(1..n) = n
  BY <1>0, FS_Interval, 1 \in Int
<1>6. Cardinality(1..n) <= Cardinality(Claims)
  <2> HIDE DEF path, n, Claims
  <2> QED
    BY <1>3, <1>4, FS_Injection
<1>7. Cardinality(Claims) \in Nat
  BY <1>4, FS_CardinalityType
<1> HIDE DEF Claims, n
<1>8. Cardinality(Claims) >= n
  BY <1>0, <1>5, <1>6, <1>7
<1> QED
  BY <1>8 DEF Claims, n

\* It goes on undisturbed.
LEMMA UndisturbedStep ==
    ASSUME LoneInv, NEW h \in Hooks, Step(h), ~Start(h), Undisturbed(h), MidCall(h)'
    PROVE  Undisturbed(h)'
<1>0. /\ Shape /\ InTime /\ OwnerHasLock /\ Private(h)
      /\ pc = [g \in Hooks |-> pc[g]] /\ claims = [g \in Hooks |-> claims[g]]
      /\ observed = [g \in Hooks |-> observed[g]] /\ own = [g \in Hooks |-> own[g]]
      /\ clock' = clock /\ IsList(claims[h])
  BY StepIsPrivate DEF LoneInv, LockInv, Shape, Private
<1>1. \A g \in Hooks : g # h => ~MidCall(g)'
  BY <1>0 DEF Undisturbed, MidCall, Private
<1>2. now'[h] = now[h]
  BY DEF Step, Open, Settle, Inspect, Observe, GiveUp, End, Claiming, Fence, Claim, Fencing,
     Judge, Doom, RemoveLock, FencedStep, Take, Retreat, Withdraw, DropClaim, Read, Rename,
     HeldStep, Release, Unlink, Crash
<1> DEFINE Going == pc'[h] \in Owning \cup {"open", "observe"}
<1>3. CASE Going
  BY <1>1, <1>3 DEF Undisturbed, Owning, Electing
<1>4. CASE Open(h) \/ Settle(h)
  <2>1. CASE Open(h) /\ Exists(LockPath)
    <3>1. pc'[h] = "inspect" /\ UNCHANGED files
      BY <1>0, <2>1 DEF Open, Goto
    <3> QED
      BY <1>1, <2>1, <3>1 DEF Undisturbed, Electing, Exists
  <2>2. CASE ~(Open(h) /\ Exists(LockPath))
    <3>1. pc'[h] \in Owning
      BY <1>0, <1>4, <2>2 DEF Open, Settle, Goto, Owning
    <3> QED
      BY <1>3, <3>1
  <2> QED
    BY <2>1, <2>2
<1>5. CASE Inspect(h) \/ Observe(h)
  <2>1. claims[h] = << >> /\ UNCHANGED files
    BY <1>0, <1>5 DEF Inspect, Observe, GiveUp, Claiming, disk, Shape, Claimant, Electing
  <2>2. ~GiveUp(h)
    BY <1>0 DEF GiveUp, End, Goto, MidCall, Running
  <2>3. /\ pc'[h] = "fence" /\ claims'[h] = << >>
        /\ observed'[h] = IF Exists(LockPath) THEN {files[LockPath].ino} ELSE None
        /\ Exists(LockPath) => Stale(h, LockPath)
    BY <1>0, <1>5, <2>1, <2>2 DEF Inspect, Observe, Claiming, Goto, StaleLock, Undisturbed
  <2> QED
    BY <1>1, <1>2, <2>1, <2>3 DEF Undisturbed, Electing, Exists, Stale
<1>6. CASE Fence(h)
  <2> DEFINE path == ClaimPath(claims[h])
  <2>1. UNCHANGED files /\ pc[h] = "fence" /\ ~GiveUp(h)
    BY <1>0, <1>6 DEF Fence, Fencing, GiveUp, End, Goto, disk, MidCall, Running
  <2>2. CASE ~Exists(path)
    <3>1. pc'[h] = "claim" /\ claims'[h] = claims[h] /\ observed'[h] = observed[h]
      BY <1>0, <1>6, <2>2 DEF Fence, Fencing, Goto
    <3> QED
      BY <1>1, <1>2, <2>1, <2>2, <3>1 DEF Undisturbed, Electing, Exists, Stale
  <2>3. CASE Exists(path)
    <3>1. /\ pc'[h] = "fence" /\ observed'[h] = observed[h]
          /\ claims'[h] = Append(claims[h], <<path, files[path].ino>>)
      BY <1>0, <1>6, <2>1, <2>3 DEF Fence, Fencing, Goto
    <3>2. \A k \in 1..Len(claims'[h]) : Exists(PathAt(claims'[h], k))
      <4> DEFINE l == claims[h]
                 longer == Append(l, <<path, files[path].ino>>)
      <4>1. /\ Len(longer) = Len(l) + 1 /\ Len(l) \in Nat
            /\ \A k \in 1..(Len(l) + 1) : PathAt(longer, k) = PathAt(l, k)
        BY <1>0, LongerChain
      <4>2. \A k \in 1..(Len(l) + 1) : Exists(PathAt(l, k))
        BY <1>0, <2>1, <2>3, <4>1, NextPath DEF Undisturbed
      <4> HIDE DEF longer
      <4>3. \A k \in 1..Len(longer) : Exists(PathAt(longer, k))
        BY <4>1, <4>2
      <4> QED
        BY <3>1, <4>3 DEF longer
    <3> QED
      BY <1>1, <1>2, <2>1, <3>1, <3>2 DEF Undisturbed, Electing, Exists, Stale
  <2> QED
    BY <2>2, <2>3
<1>7. CASE Claim(h)
  <2> DEFINE path == ClaimPath(claims[h])
  <2>1. PICK i : Create(path, i) /\ Fencing(h, Append(claims[h], <<path, i>>), "judge")
    BY <1>0, <1>7 DEF Claim, GiveUp, End, Goto, MidCall, Running
  <2>2. pc'[h] = "judge" /\ observed'[h] = observed[h] /\ pc[h] = "claim"
    BY <1>0, <1>7, <2>1 DEF Claim, Fencing, Goto
  <2>3. LockKept
    BY <1>0, <1>7, <2>2, LockStep DEF Locks, RemoveLock, Unlink
  <2> QED
    BY <1>1, <1>2, <2>2, <2>3 DEF Undisturbed, Electing, Exists, Stale, LockKept
<1>8. CASE Judge(h)
  <2>1. UNCHANGED files /\ observed'[h] = observed[h] /\ pc[h] = "judge"
    BY <1>8 DEF Judge, FencedStep
  <2>2. pc'[h] = IF Exists(LockPath) THEN "doom" ELSE "take"
    BY <1>0, <1>8, <2>1 DEF Judge, FencedStep, Goto, Undisturbed, Electing, SameStaleLock, StaleLock
  <2> QED
    BY <1>1, <1>2, <2>1, <2>2 DEF Undisturbed, Electing, Exists, Stale
<1>9. CASE Doom(h)
  <2>1. UNCHANGED files /\ observed'[h] = observed[h] /\ pc[h] = "doom"
    BY <1>9 DEF Doom, FencedStep
  <2>2. pc'[h] = "remove" /\ Exists(LockPath)
    BY <1>0, <1>9, <2>1 DEF Doom, FencedStep, Goto, Undisturbed, Electing
  <2> QED
    BY <1>1, <1>2, <2>1, <2>2 DEF Undisturbed, Electing, Exists, Stale
<1>10. CASE RemoveLock(h)
  <2>1. pc'[h] = "take"
    BY <1>0, <1>10 DEF RemoveLock, FencedStep, Goto, Undisturbed
  <2>2. ~Exists(LockPath)'
    BY <1>10, Deleted DEF RemoveLock, Exists
  <2> QED
    BY <1>1, <2>1, <2>2 DEF Undisturbed, Electing
<1>11. CASE Take(h)
  <2>1. pc'[h] = "retreat" /\ Locks(h)
    BY <1>0, <1>11, Locking DEF Undisturbed, Take, Goto
  <2> QED
    BY <1>1, <2>1 DEF Undisturbed, Electing, Locks, None
<1>12. CASE Retreat(h) \/ Withdraw(h)
  <2>1. own[h] # None
    BY <1>12 DEF Undisturbed, Retreat, Withdraw
  <2>2. \/ pc'[h] \in {"retreat", "withdraw"} /\ own'[h] = own[h]
        \/ pc'[h] = "read"
    <3>1. CASE DropClaim(h)
      <4>1. pc'[h] # "skipped"
        BY <1>0, <3>1 DEF MidCall, Running
      <4> QED
        BY <1>0, <1>12, <3>1, <4>1, DropClaimMoves DEF Retreat, Withdraw
    <3>2. CASE FencedStep(h, "withdraw")
      BY <1>0, <3>2 DEF FencedStep, Goto
    <3> QED
      BY <1>12, <3>1, <3>2 DEF Retreat, Withdraw
  <2> QED
    BY <1>1, <2>1, <2>2 DEF Undisturbed, Electing
<1>13. CASE Read(h) \/ Rename(h) \/ Release(h)
  <2>1. pc'[h] \in Owning
    BY <1>0, <1>13 DEF Read, Rename, Release, HeldStep, End, Goto, Outcome, Owning, MidCall, Running
  <2> QED
    BY <1>3, <2>1
<1>14. ~Unlink(h) /\ ~Crash(h)
  BY <1>0 DEF Unlink, Crash, End, Goto, Outcome, MidCall, Running
<1> QED
  BY <1>4, <1>5, <1>6, <1>7, <1>8, <1>9, <1>10, <1>11, <1>12, <1>13, <1>14 DEF Step

\* A call that begins beside another, or beside which another begins, is not
\* alone; the steps of those that are keep them undisturbed.
LEMMA LoneStep ==
    ASSUME LoneInv, Suspends = FALSE, NEW h \in Hooks, Step(h)
    PROVE  LoneInv'
<1>1. LockInv'
  BY NextInv DEF LoneInv, Next, Step
<1>2. Shape /\ Private(h) /\ \A g \in Hooks : g # h => pc'[g] = pc[g]
  BY StepIsPrivate DEF LoneInv, LockInv, Private, Shape
<1>3. IsFiniteSet(DOMAIN files')
  BY <1>2, ShapeKeeps, FilesFinite DEF LoneInv
<1>4. CASE Start(h)
  <2>1. /\ alone' = [g \in Hooks |-> IF g = h THEN \A q \in Hooks : ~MidCall(q)
                                     ELSE alone[g] /\ ~MidCall(g)]
        /\ pc'[h] \in {"observe", "open"}
    BY <1>2, <1>4 DEF Start, Goto, Shape
  <2>2. ASSUME NEW g \in Hooks, alone'[g], MidCall(g)' PROVE g = h
    BY <1>2, <2>1, <2>2 DEF MidCall
  <2>3. alone'[h] => \A g \in Hooks : g # h => ~MidCall(g)'
    BY <1>2, <2>1 DEF MidCall
  <2>4. alone'[h] => Undisturbed(h)'
    BY <2>1, <2>3 DEF Undisturbed, Electing
  <2> QED
    BY <1>1, <1>3, <2>1, <2>2, <2>4 DEF LoneInv
<1>5. CASE ~Start(h)
  <2>1. alone' = alone
    BY <1>5 DEF Step, Open, Settle, Inspect, Observe, GiveUp, End, Claiming, Fence, Claim, Fencing,
       Judge, Doom, RemoveLock, FencedStep, Take, Retreat, Withdraw, DropClaim, Read, Rename,
       HeldStep, Release, Unlink, Crash
  <2>2. MidCall(h)
    BY <1>5 DEF Step, Open, Settle, Inspect, Observe, Fence, Claim, Judge, Doom, RemoveLock, Take,
       Retreat, Withdraw, Read, Rename, Release, Unlink, Crash, MidCall, Running
  <2>3. ASSUME NEW g \in Hooks, alone'[g], MidCall(g)' PROVE Undisturbed(g)'
    <3>1. g = h
      BY <1>2, <2>1, <2>2, <2>3 DEF LoneInv, Undisturbed, MidCall
    <3> QED
      BY <1>5, <2>1, <2>2, <2>3, <3>1, UndisturbedStep DEF LoneInv
  <2> QED
    BY <1>1, <1>3, <2>1, <2>3 DEF LoneInv
<1> QED
  BY <1>4, <1>5

\* A hook alone gives up before something that is young, or before a chain that
\* is as long as it may be.
LEMMA LoneHookRecovers ==
    ASSUME LoneInv, NEW g \in Hooks, Step(g), NEW h \in Hooks,
           alone[h], MidCall(h), own[h] = None, pc'[h] = "skipped"
    PROVE  \/ \E p \in DOMAIN files' : ~Stale(h, p)'
           \/ Cardinality(DOMAIN files' \ {LockPath}) > MaxGenerations
<1>1. /\ Shape /\ OwnerHasLock /\ Undisturbed(h) /\ IsFiniteSet(DOMAIN files)
      /\ pc = [q \in Hooks |-> pc[q]]
  BY DEF LoneInv, LockInv, Shape
<1>2. g = h
  BY <1>1, StepIsPrivate DEF Private, MidCall, Running
<1>3. pc[h] \notin Owning \cup {"retreat", "withdraw"}
  BY <1>1 DEF OwnerHasLock, Undisturbed
<1>4. CASE Inspect(h) \/ Observe(h)
  <2>1. /\ Exists(LockPath) /\ ~Stale(h, LockPath) /\ UNCHANGED <<files, now>>
    BY <1>1, <1>4 DEF Inspect, Observe, Claiming, GiveUp, End, Goto, StaleLock, Undisturbed, disk
  <2> QED
    BY <2>1 DEF Exists, Stale
<1>5. CASE Fence(h)
  <2> DEFINE path == ClaimPath(claims[h])
  <2>1. /\ Exists(path) /\ ~(Stale(h, path) /\ Len(claims[h]) < MaxGenerations)
        /\ UNCHANGED <<files, now>> /\ pc[h] = "fence"
    BY <1>1, <1>5 DEF Fence, Fencing, GiveUp, End, Goto, disk
  <2>2. CASE ~Stale(h, path)
    BY <2>1, <2>2 DEF Exists, Stale
  <2>3. CASE ~(Len(claims[h]) < MaxGenerations)
    <3>1. IsList(claims[h]) /\ Len(claims[h]) \in Nat /\ path = PathAt(claims[h], Len(claims[h]) + 1)
      BY <1>1, Lists, NextPath DEF Shape
    <3>2. \A k \in 1..(Len(claims[h]) + 1) : Exists(PathAt(claims[h], k))
      BY <1>1, <2>1, <3>1 DEF Undisturbed
    <3>3. Cardinality(DOMAIN files \ {LockPath}) >= Len(claims[h]) + 1
      BY <1>1, <3>1, <3>2, ChainIsLong
    <3>4. Cardinality(DOMAIN files \ {LockPath}) \in Nat
      BY <1>1, FS_RemoveElement, FS_CardinalityType
    <3>5. DOMAIN files' = DOMAIN files
      BY <2>1
    <3> DEFINE many == Cardinality(DOMAIN files \ {LockPath})
    <3>6. Cardinality(DOMAIN files' \ {LockPath}) = many
      BY <3>5
    <3> HIDE DEF many
    <3>7. many > MaxGenerations
      BY <2>3, <3>1, <3>3, <3>4, BoundsAssumption DEF many
    <3> QED
      BY <3>6, <3>7
  <2> QED
    BY <2>1, <2>2, <2>3
<1>6. ~Claim(h)
  BY <1>1 DEF Claim, Undisturbed, Fencing, Goto
<1>7. ~(\/ Start(h) \/ Open(h) \/ Judge(h) \/ Doom(h) \/ RemoveLock(h) \/ Take(h) \/ Crash(h))
  BY <1>1 DEF Start, Open, Judge, Doom, RemoveLock, Take, Crash, FencedStep, End, Goto
<1>8. ~(\/ Settle(h) \/ Read(h) \/ Rename(h) \/ Release(h) \/ Unlink(h)
       \/ Retreat(h) \/ Withdraw(h))
  BY <1>3 DEF Settle, Read, Rename, Release, Unlink, Retreat, Withdraw, Owning
<1> QED
  BY <1>2, <1>4, <1>5, <1>6, <1>7, <1>8 DEF Step

\* A hook that runs alone over what dead hooks left gets the lock
\* (acquireLock, acquireRecoveryFence), unless some of it is young or the chain
\* of claims has reached its end.
THEOREM LoneCallsRecover ==
    ASSUME Suspends = FALSE
    PROVE  Spec => LoneCallRecovers
<1>1. Init => LoneInv
  <2> SUFFICES ASSUME Init PROVE LoneInv
    OBVIOUS
  <2>1. PICK lock \in 0..1, n \in 0..MaxGenerations + 1 : files = LeftFiles(lock..n)
    BY DEF Init, Leftovers
  <2>2. IsFiniteSet(lock..n)
    BY BoundsAssumption, FS_Interval
  <2>3. IsFiniteSet(DOMAIN files)
    BY <2>1, <2>2, LeftFilesFinite
  <2>4. \A h \in Hooks : ~MidCall(h)
    BY DEF Init, MidCall, Running
  <2>5. alone = [h \in Hooks |-> alone[h]]
    BY DEF Init
  <2> QED
    BY <2>3, <2>4, <2>5, InitInv DEF LoneInv
<1>2. LoneInv /\ [Next]_vars => LoneInv'
  <2>1. ASSUME LoneInv, Tick PROVE LoneInv'
    <3>1. LockInv' /\ UNCHANGED <<files, alone, pc>> /\ \A h \in Hooks : ~MidCall(h)
      BY <2>1, TickKeeps DEF LoneInv, Tick, disk
    <3> QED
      BY <2>1, <3>1 DEF LoneInv, MidCall
  <2>2. ASSUME LoneInv, UNCHANGED vars PROVE LoneInv'
    <3>1. LockInv'
      BY <2>2, NextInv DEF LoneInv
    <3>2. UNCHANGED <<files, alone, pc, observed, claims, own, now>>
      BY <2>2 DEF vars, disk
    <3> QED
      BY <2>2, <3>1, <3>2 DEF LoneInv, MidCall, Undisturbed, Exists, Stale
  <2> QED
    BY <2>1, <2>2, LoneStep DEF Next, Step
<1>3. LoneInv /\ [Next]_vars =>
        [\A h \in Hooks :
            alone[h] /\ MidCall(h) /\ own[h] = None /\ pc'[h] = "skipped" =>
               \/ \E p \in DOMAIN files' : ~Stale(h, p)'
               \/ Cardinality(DOMAIN files' \ {LockPath}) > MaxGenerations]_vars
  <2>1. ASSUME LoneInv, Tick, NEW h \in Hooks, MidCall(h) PROVE pc'[h] # "skipped"
    BY <2>1 DEF Tick, MidCall, Running
  <2> QED
    BY <2>1, LoneHookRecovers DEF Next, Step
<1> QED
  BY <1>1, <1>2, <1>3, PTL DEF Spec, LoneCallRecovers

=============================================================================
