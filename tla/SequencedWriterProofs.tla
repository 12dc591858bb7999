------------------------ MODULE SequencedWriterProofs ------------------------
(***************************************************************************)
(* Theorems about SequencedWriter, for every number of processes and       *)
(* calls: when the lock file keeps the writers apart, and what readers     *)
(* find in the log that is written under it.                               *)
(***************************************************************************)
EXTENDS SequencedWriter, WellFoundedInduction, TLAPS

LockFiles == [token : Procs \X Nat, written : BOOLEAN, old : BOOLEAN]

\* The types the lock depends on, and that there is one lock file at most.
LockTypeOK ==
    /\ pc \in [Procs -> PCs]
    /\ calls \in [Procs -> Nat]
    /\ lock \in SUBSET LockFiles
    /\ \A k, l \in lock : k = l

\* A process in its call finds the lock it created.
AloneInv ==
    /\ LockTypeOK
    /\ \A p \in Procs : pc[p] \in Holding => \E l \in lock : l.token = Token(p)

\* Nobody removes a lock file while its owner works under it.  The code does
\* not ensure it: a process that saw an old lock removes whatever is there
\* when it gets to it, and a lock may be old and in use (acquireLock).
OnlyOrphansBroken ==
    \A p \in Procs : BreakLock(p) => \A l \in lock : Orphaned(l)

-----------------------------------------------------------------------------
(* What a step does with the lock *)

\* The steps of a process that leave the lock file alone.
Quiet(p) ==
    \/ Call(p) \/ LockTimeout(p) \/ AcquireFails(p) \/ Inspect(p) \/ Stat(p) \/ ReadFails(p)
    \/ Existing(p) \/ Validate(p) \/ Boundary(p) \/ BoundaryFails(p) \/ Sequence(p)
    \/ AppendLine(p) \/ AppendFails(p) \/ WriteState(p) \/ StateFails(p)
    \/ Release(p) \/ ReleaseFails(p) \/ Crash(p)

\* Where such a step leads, and from where.
Moves(p) ==
    \/ /\ pc[p] = "idle" /\ pc'[p] = "acquire"
       /\ calls' = [calls EXCEPT ![p] = @ + 1]
    \/ /\ UNCHANGED calls
       /\ \/ pc[p] \in PCs \ Holding /\ pc'[p] \in {"idle", "acquire", "break"}
          \/ pc[p] \in Holding /\ pc'[p] \in Holding \cup {"idle"}
          \/ pc[p] \notin {"idle", "dead"} /\ pc'[p] = "dead"

\* A quiet step leaves the lock file as it is.
LEMMA QuietMoves ==
    ASSUME LockTypeOK, NEW p \in Procs, Quiet(p)
    PROVE  /\ UNCHANGED lock
           /\ \E at \in PCs : pc' = [pc EXCEPT ![p] = at]
           /\ Moves(p)
<1>1. pc \in [Procs -> PCs] /\ \A k, l \in lock : k = l
  BY DEF LockTypeOK
<1>2. CASE Call(p) \/ LockTimeout(p) \/ AcquireFails(p) \/ Inspect(p)
  BY <1>1, <1>2 DEF Call, LockTimeout, AcquireFails, Inspect, Throw, Retry, Goto, Moves, PCs,
                    Holding, disk, locals
<1>3. CASE Stat(p) \/ ReadFails(p) \/ Existing(p) \/ Validate(p) \/ Boundary(p) \/ Sequence(p)
  BY <1>1, <1>3 DEF Stat, ReadFails, Existing, Validate, Boundary, Sequence, Fail, Step, Goto, Moves,
                    PCs, Holding, locals
<1>4. CASE BoundaryFails(p) \/ AppendLine(p) \/ AppendFails(p) \/ WriteState(p) \/ StateFails(p)
  BY <1>1, <1>4 DEF BoundaryFails, AppendLine, AppendFails, WriteState, StateFails, Fail, Step, Goto,
                    Moves, PCs, Holding, locals
<1>5. CASE Release(p) \/ ReleaseFails(p)
  BY <1>1, <1>5 DEF Release, ReleaseFails, Return, Throw, Goto, Moves, PCs, Holding, disk, locals
<1>6. CASE Crash(p)
  BY <1>1, <1>6 DEF Crash, Goto, Moves, PCs, locals
<1> QED
  BY <1>2, <1>3, <1>4, <1>5, <1>6 DEF Quiet

\* The steps that touch the lock file, and the passing of time.
Touches(p) == CreateLock(p) \/ WriteToken(p) \/ TokenFails(p) \/ BreakLock(p) \/ Unlink(p)

\* Every step is quiet, or touches the lock file, or lets it age.
LEMMA NextSteps ==
    ASSUME [Next]_vars
    PROVE  (\E p \in Procs : Quiet(p) \/ Touches(p)) \/ Age \/ UNCHANGED <<pc, calls, lock>>
BY DEF Next, Progress, CallFails, Quiet, Touches, vars, disk, locals

-----------------------------------------------------------------------------
(* Types *)

\* Every step keeps the types.
LEMMA NextLockType == LockTypeOK /\ [Next]_vars => LockTypeOK'
<1> SUFFICES ASSUME LockTypeOK, [Next]_vars PROVE LockTypeOK'
  OBVIOUS
<1> USE DEF LockTypeOK
<1>1. ASSUME NEW p \in Procs, Quiet(p) PROVE LockTypeOK'
  <2>1. UNCHANGED lock /\ (\E at \in PCs : pc' = [pc EXCEPT ![p] = at]) /\ Moves(p)
    BY <1>1, QuietMoves
  <2>2. calls' \in [Procs -> Nat]
    BY <2>1 DEF Moves
  <2> QED
    BY <2>1, <2>2
<1>2. ASSUME NEW p \in Procs, CreateLock(p) PROVE LockTypeOK'
  <2>1. UNCHANGED calls /\ pc' \in [Procs -> PCs]
    BY <1>2 DEF CreateLock, Goto, PCs, Holding, locals
  <2>2. UNCHANGED lock \/ lock' = {[token |-> Token(p), written |-> FALSE, old |-> FALSE]}
    BY <1>2 DEF CreateLock
  <2>3. Token(p) \in Procs \X Nat
    BY DEF Token
  <2>4. [token |-> Token(p), written |-> FALSE, old |-> FALSE] \in LockFiles
    BY <2>3 DEF LockFiles
  <2> QED
    BY <2>1, <2>2, <2>4
<1>3. ASSUME NEW p \in Procs, WriteToken(p) \/ TokenFails(p) PROVE LockTypeOK'
  <2>1. UNCHANGED calls /\ pc' \in [Procs -> PCs]
    BY <1>3 DEF WriteToken, TokenFails, Throw, Goto, PCs, Holding, locals
  <2>2. lock' = lock \/ lock' = TokenIn(p)
    BY <1>3 DEF WriteToken, TokenFails
  <2>3. \A l \in lock : [l EXCEPT !.written = TRUE] \in LockFiles
    BY DEF LockFiles
  <2>4. lock' \in SUBSET LockFiles
    BY <2>2, <2>3 DEF TokenIn
  <2>5. \A k, l \in lock' : k = l
    BY <2>2 DEF TokenIn
  <2> QED
    BY <2>1, <2>4, <2>5
<1>4. ASSUME NEW p \in Procs, BreakLock(p) \/ Unlink(p) PROVE LockTypeOK'
  <2>1. UNCHANGED calls /\ pc' \in [Procs -> PCs] /\ lock' = {}
    BY <1>4 DEF BreakLock, Unlink, Retry, Return, Goto, PCs, Holding, locals
  <2> QED
    BY <2>1
<1>5. CASE Age
  <2>1. PICK l \in lock : lock' = {[l EXCEPT !.old = TRUE]} /\ UNCHANGED <<pc, calls>>
    BY <1>5 DEF Age, locals
  <2>2. [l EXCEPT !.old = TRUE] \in LockFiles
    BY DEF LockFiles
  <2> QED
    BY <2>1, <2>2
<1>6. CASE UNCHANGED <<pc, calls, lock>>
  BY <1>6
<1> QED
  BY <1>1, <1>2, <1>3, <1>4, <1>5, <1>6, NextSteps DEF Touches

\* No lock exists yet.
LEMMA InitLock == Init => AloneInv
<1> SUFFICES ASSUME Init PROVE AloneInv
  OBVIOUS
<1>1. LockTypeOK
  BY DEF Init, LockTypeOK, PCs
<1> QED
  BY <1>1 DEF Init, AloneInv, Holding

-----------------------------------------------------------------------------
(* When the lock keeps the writers apart *)

\* Two processes under one lock file are one.
LEMMA AloneUnderLock == AloneInv => WriterIsAlone
<1> SUFFICES ASSUME AloneInv, NEW p \in Procs, NEW q \in Procs,
                    pc[p] \in Holding, pc[q] \in Holding
             PROVE  p = q
  BY DEF WriterIsAlone
<1>1. PICK k \in lock : k.token = Token(p)
  BY DEF AloneInv
<1>2. PICK l \in lock : l.token = Token(q)
  BY DEF AloneInv
<1>3. Token(p) = Token(q)
  BY <1>1, <1>2 DEF AloneInv, LockTypeOK
<1> QED
  BY <1>3 DEF Token

\* A process keeps the lock it works under as long as only orphans are broken.
LEMMA NextAlone ==
    ASSUME AloneInv, [Next]_vars, OnlyOrphansBroken
    PROVE  AloneInv'
<1>0. LockTypeOK /\ LockTypeOK'
  BY NextLockType DEF AloneInv
<1>t. /\ pc \in [Procs -> PCs] /\ calls \in [Procs -> Nat] /\ lock \in SUBSET LockFiles
      /\ \A k, l \in lock : k = l
  BY <1>0 DEF LockTypeOK
<1> SUFFICES ASSUME NEW q \in Procs, pc'[q] \in Holding
             PROVE  \E l \in lock' : l.token = Token(q)'
  BY <1>0 DEF AloneInv
<1>h. pc[q] \in Holding => \E l \in lock : l.token = Token(q)
  BY DEF AloneInv
<1>1. ASSUME NEW p \in Procs, Quiet(p) PROVE \E l \in lock' : l.token = Token(q)'
  <2>1. /\ UNCHANGED lock /\ Moves(p)
        /\ \E at \in PCs : pc' = [pc EXCEPT ![p] = at]
    BY <1>0, <1>1, QuietMoves
  <2>2. pc[q] \in Holding /\ calls'[q] = calls[q]
    BY <1>t, <2>1 DEF Moves, Holding
  <2> QED
    BY <1>h, <2>1, <2>2 DEF Token
<1>2. ASSUME NEW p \in Procs, CreateLock(p) PROVE \E l \in lock' : l.token = Token(q)'
  <2>1. CASE lock = {}
    <3>1. /\ lock' = {[token |-> Token(p), written |-> FALSE, old |-> FALSE]}
          /\ UNCHANGED calls /\ pc' = [pc EXCEPT ![p] = "token"]
      BY <1>2, <2>1 DEF CreateLock, Goto, locals
    <3>2. q = p
      BY <1>h, <1>t, <2>1, <3>1
    <3> QED
      BY <3>1, <3>2 DEF Token
  <2>2. CASE lock # {}
    <3>1. /\ UNCHANGED <<lock, calls>> /\ pc' = [pc EXCEPT ![p] = "inspect"]
      BY <1>2, <2>2 DEF CreateLock, Goto, locals
    <3> QED
      BY <1>h, <1>t, <3>1 DEF Token, Holding
  <2> QED
    BY <2>1, <2>2
<1>3. ASSUME NEW p \in Procs, WriteToken(p) \/ TokenFails(p)
      PROVE  \E l \in lock' : l.token = Token(q)'
  <2>1. /\ UNCHANGED calls /\ (\E at : pc' = [pc EXCEPT ![p] = at]) /\ pc[p] = "token"
        /\ lock' = lock \/ lock' = TokenIn(p)
    BY <1>3 DEF WriteToken, TokenFails, Throw, Goto, locals
  <2>2. pc[q] \in Holding
    BY <1>t, <2>1 DEF Holding
  <2>3. PICK l \in lock : l.token = Token(q)
    BY <1>h, <2>2
  <2>4. \E k \in lock' : k.token = l.token
    <3> DEFINE k == IF l.token = Token(p) THEN [l EXCEPT !.written = TRUE] ELSE l
    <3>1. l \in lock' \/ k \in lock'
      BY <2>1 DEF TokenIn
    <3>2. k.token = l.token
      BY <1>t DEF LockFiles
    <3> QED
      BY <3>1, <3>2
  <2> QED
    BY <2>1, <2>3, <2>4 DEF Token
<1>4. ASSUME NEW p \in Procs, Unlink(p) PROVE \E l \in lock' : l.token = Token(q)'
  <2>1. /\ pc[p] = "unlink" /\ pc' = [pc EXCEPT ![p] = "idle"]
    BY <1>4 DEF Unlink, Return, Goto
  <2>2. pc[p] \in Holding /\ pc[q] \in Holding /\ p # q
    BY <1>t, <2>1 DEF Holding
  <2> QED
    BY <2>2, AloneUnderLock DEF WriterIsAlone
<1>5. ASSUME NEW p \in Procs, BreakLock(p) PROVE \E l \in lock' : l.token = Token(q)'
  <2>1. /\ pc' = [pc EXCEPT ![p] = "acquire"] /\ \A l \in lock : Orphaned(l)
    BY <1>5 DEF BreakLock, Retry, Goto, OnlyOrphansBroken
  <2>2. pc[q] \in Holding
    BY <1>t, <2>1 DEF Holding
  <2> QED
    BY <1>h, <2>1, <2>2 DEF Orphaned, Token
<1>6. CASE Age
  <2>1. PICK l \in lock : lock' = {[l EXCEPT !.old = TRUE]} /\ UNCHANGED <<pc, calls>>
    BY <1>6 DEF Age, locals
  <2>2. [l EXCEPT !.old = TRUE].token = l.token
    BY <1>t DEF LockFiles
  <2> QED
    BY <1>h, <1>t, <2>1, <2>2 DEF Token
<1>7. CASE UNCHANGED <<pc, calls, lock>>
  BY <1>h, <1>7 DEF Token
<1> QED
  BY <1>1, <1>2, <1>3, <1>4, <1>5, <1>6, <1>7, NextSteps DEF Touches

\* As long as no lock gets old nobody sets out to break one.
NeverBroken == (\A l \in lock : ~l.old) /\ (\A p \in Procs : pc[p] # "break")

\* Locks that do not age are never broken.
LEMMA NextNeverBroken ==
    ASSUME LockTypeOK, NeverBroken, [Next]_vars, LocksAge = "never"
    PROVE  NeverBroken'
<1>t. pc \in [Procs -> PCs] /\ lock \in SUBSET LockFiles
  BY DEF LockTypeOK
<1>1. ASSUME NEW p \in Procs, Quiet(p) PROVE NeverBroken'
  <2>1. UNCHANGED lock /\ \E at \in PCs : pc' = [pc EXCEPT ![p] = at]
    BY <1>1, QuietMoves
  <2>2. pc'[p] # "break"
    BY <1>t, <1>1 DEF NeverBroken, Quiet, Call, LockTimeout, AcquireFails, Inspect, Stat,
          ReadFails, Existing, Validate, Boundary, BoundaryFails, Sequence, AppendLine, AppendFails,
          WriteState, StateFails, Release, ReleaseFails, Crash, Goto, Throw, Retry, Fail, Step, Return,
          SeesStale
  <2> QED
    BY <1>t, <2>1, <2>2 DEF NeverBroken
<1>2. ASSUME NEW p \in Procs, Touches(p) PROVE NeverBroken'
  <2>1. \A q \in Procs : pc'[q] # "break"
    BY <1>t, <1>2 DEF NeverBroken, Touches, CreateLock, WriteToken, TokenFails, BreakLock, Unlink,
                      Retry, Return, Throw, Goto
  <2>2. CASE CreateLock(p)
    BY <2>1, <2>2 DEF NeverBroken, CreateLock
  <2>3. CASE WriteToken(p) \/ TokenFails(p)
    <3>1. \A l \in lock : [l EXCEPT !.written = TRUE].old = l.old
      BY <1>t DEF LockFiles
    <3> QED
      BY <2>1, <2>3, <3>1 DEF NeverBroken, WriteToken, TokenFails, TokenIn
  <2>4. CASE BreakLock(p) \/ Unlink(p)
    BY <2>1, <2>4 DEF NeverBroken, BreakLock, Unlink
  <2> QED
    BY <1>2, <2>2, <2>3, <2>4 DEF Touches
<1>3. ~Age
  BY DEF Age
<1>4. CASE UNCHANGED <<pc, calls, lock>>
  BY <1>4 DEF NeverBroken
<1> QED
  BY <1>1, <1>2, <1>3, <1>4, NextSteps

-----------------------------------------------------------------------------
(* The replay of a text, chunk by chunk *)

\* f is what the first n chunks of a text are read as.
IsFold(t, n, f) ==
    f = [i \in 0..n |-> IF i = 0 THEN EmptyStream ELSE Feed(f[i - 1], t[i])]

\* The stream after the last chunk of a text, its last line not ended.
Fed(t) == (CHOOSE f : IsFold(t, Len(t), f))[Len(t)]

\* A set of numbers that is not empty has a least element.
LEMMA LeastExists ==
    ASSUME NEW S \in SUBSET Nat, S # {}
    PROVE  \E m \in S : \A n \in S : m <= n
<1>1. PICK m \in S : \A n \in S : <<n, m>> \notin OpToRel(<, Nat)
  BY NatLessThanWellFounded, WFMin, Zenon
<1>2. \A n \in S : ~(n < m)
  BY <1>1 DEF OpToRel
<1> QED
  BY <1>2

\* A reading goes on with the next chunk, in a text that begins the same.
LEMMA FoldGoesOn ==
    ASSUME NEW n \in Nat, NEW t, NEW u, \A i \in 1..n : u[i] = t[i],
           NEW f, IsFold(t, n, f)
    PROVE  IsFold(u, n + 1, [i \in 0..(n + 1) |-> IF i <= n THEN f[i] ELSE Feed(f[n], u[n + 1])])
<1> DEFINE g == [i \in 0..(n + 1) |-> IF i <= n THEN f[i] ELSE Feed(f[n], u[n + 1])]
<1>1. ASSUME NEW i \in 0..(n + 1)
      PROVE  g[i] = IF i = 0 THEN EmptyStream ELSE Feed(g[i - 1], u[i])
  <2>1. CASE i = 0
    BY <2>1 DEF IsFold
  <2>2. CASE i \in 1..n
    <3>1. i - 1 \in 0..n /\ i \in 0..n /\ u[i] = t[i]
      BY <2>2
    <3>2. f[i] = Feed(f[i - 1], t[i])
      BY <2>2, <3>1 DEF IsFold
    <3>3. g[i] = f[i] /\ g[i - 1] = f[i - 1]
      BY <3>1
    <3> QED
      BY <2>2, <3>1, <3>2, <3>3
  <2>3. CASE i = n + 1
    BY <2>3
  <2> QED
    BY <2>1, <2>2, <2>3
<1>2. g = [i \in 0..(n + 1) |-> IF i = 0 THEN EmptyStream ELSE Feed(g[i - 1], u[i])]
  <2>1. DOMAIN g = 0..(n + 1) /\ g = [i \in 0..(n + 1) |-> g[i]]
    OBVIOUS
  <2> HIDE DEF g
  <2> QED
    BY <1>1, <2>1
<1> QED
  BY <1>2 DEF IsFold

\* Every text has a reading.
LEMMA FoldExists ==
    ASSUME NEW t, NEW n \in Nat
    PROVE  \E f : IsFold(t, n, f)
<1> DEFINE unread == {k \in Nat : ~\E f : IsFold(t, k, f)}
<1> SUFFICES ASSUME unread # {} PROVE FALSE
  OBVIOUS
<1>1. PICK m \in unread : \A k \in unread : m <= k
  BY LeastExists
<1>2. m # 0
  <2>1. IsFold(t, 0, [i \in 0..0 |-> EmptyStream])
    <3>1. [i \in 0..0 |-> EmptyStream]
          = [i \in 0..0 |-> IF i = 0 THEN EmptyStream
                            ELSE Feed([j \in 0..0 |-> EmptyStream][i - 1], t[i])]
      OBVIOUS
    <3> QED
      BY <3>1 DEF IsFold
  <2> QED
    BY <1>1, <2>1
<1>3. m - 1 \in Nat /\ m - 1 \notin unread
  BY <1>1, <1>2
<1>4. PICK f : IsFold(t, m - 1, f)
  BY <1>3
<1>5. \E g : IsFold(t, (m - 1) + 1, g)
  BY <1>3, <1>4, FoldGoesOn
<1>6. (m - 1) + 1 = m
  BY <1>1
<1> QED
  BY <1>1, <1>5, <1>6

\* It has one only.
LEMMA FoldUnique ==
    ASSUME NEW t, NEW n \in Nat, NEW f, NEW g, IsFold(t, n, f), IsFold(t, n, g)
    PROVE  f = g
<1>1. /\ f = [i \in 0..n |-> f[i]] /\ g = [i \in 0..n |-> g[i]]
      /\ \A i \in 0..n : /\ f[i] = IF i = 0 THEN EmptyStream ELSE Feed(f[i - 1], t[i])
                         /\ g[i] = IF i = 0 THEN EmptyStream ELSE Feed(g[i - 1], t[i])
  BY DEF IsFold
<1> DEFINE wrong == {i \in 0..n : f[i] # g[i]}
<1>2. CASE wrong = {}
  BY <1>1, <1>2
<1>3. CASE wrong # {}
  <2>1. wrong \in SUBSET Nat
    OBVIOUS
  <2>2. PICK m \in wrong : \A k \in wrong : m <= k
    <3> HIDE DEF wrong
    <3> QED
      BY <1>3, <2>1, LeastExists
  <2>3. m # 0
    BY <1>1, <2>2
  <2>4. m - 1 \in 0..n /\ f[m - 1] = g[m - 1]
    BY <2>2, <2>3
  <2> QED
    BY <1>1, <2>2, <2>3, <2>4
<1> QED
  BY <1>2, <1>3

\* The empty text is read as the empty stream.
LEMMA FedNothing == Fed(<< >>) = EmptyStream
<1>1. Len(<< >>) = 0
  OBVIOUS
<1>2. PICK f : IsFold(<< >>, 0, f)
  BY FoldExists
<1>3. (CHOOSE g : IsFold(<< >>, 0, g)) = f
  BY <1>2, FoldUnique
<1>4. f[0] = EmptyStream
  BY <1>2 DEF IsFold
<1> QED
  BY <1>1, <1>3, <1>4 DEF Fed

\* One more chunk feeds the stream once more.
LEMMA FedAppend ==
    ASSUME NEW S, NEW t \in Seq(S), NEW c \in S
    PROVE  Fed(Append(t, c)) = Feed(Fed(t), c)
<1> DEFINE n == Len(t)
           u == Append(t, c)
<1>1. /\ n \in Nat /\ Len(u) = n + 1 /\ u[n + 1] = c
      /\ \A i \in 1..n : u[i] = t[i]
  OBVIOUS
<1> HIDE DEF n, u
<1>2. PICK f : IsFold(t, n, f)
  BY <1>1, FoldExists
<1> DEFINE g == [i \in 0..(n + 1) |-> IF i <= n THEN f[i] ELSE Feed(f[n], u[n + 1])]
<1>3. IsFold(u, n + 1, g)
  BY <1>1, <1>2, FoldGoesOn
<1>4. g[n + 1] = Feed(f[n], c)
  BY <1>1
<1>5. (CHOOSE h : IsFold(t, n, h)) = f
  BY <1>1, <1>2, FoldUnique
<1>6. (CHOOSE h : IsFold(u, n + 1, h)) = g
  <2>1. n + 1 \in Nat
    BY <1>1
  <2> HIDE DEF g
  <2> QED
    BY <1>3, <2>1, FoldUnique
<1>7. Fed(t) = f[n] /\ Fed(u) = g[n + 1]
  BY <1>1, <1>5, <1>6 DEF Fed, n
<1> QED
  BY <1>4, <1>7 DEF u

\* The replay ends the last line.
LEMMA ReplayEnds == ASSUME NEW t PROVE ReplayEventLog(t) = EndLine(Fed(t))
BY DEF ReplayEventLog, Fed, IsFold

-----------------------------------------------------------------------------
(* What a reader makes of the writers' texts *)

Ids == (Procs \cup {"work", "closed", "started"}) \X Nat
LogEvents == [type : {"event"}, seq : Nat, id : Ids, draft : Drafts \cup {"started"}]
Chunks == LogEvents \cup {Newline, Torn}
Streams == [events : Seq(LogEvents), lastSeq : Nat, partial : BOOLEAN, duplicates : Nat,
            line : Seq(Chunks)]

\* Every event is in its place and has an id of its own.
InOrder(stream) ==
    /\ \A i \in 1..Len(stream.events) : stream.events[i].seq = i
    /\ \A i, j \in 1..Len(stream.events) :
          stream.events[i].id = stream.events[j].id => i = j
    /\ stream.lastSeq = Len(stream.events) /\ stream.duplicates = 0

Follows(stream, e) == e.seq = Len(stream.events) + 1 /\ ~Known(stream, e.id)

\* The last line is blank, or torn, or the one event that comes next.
LineOK(stream) ==
    \/ stream.line = << >>
    \/ stream.line = <<Torn>>
    \/ \E e \in LogEvents : stream.line = <<e>> /\ Follows(stream, e)

\* A text whose replay finds every event that was written into it.
Readable(t) ==
    /\ t \in Seq(Chunks)
    /\ Fed(t) \in Streams /\ InOrder(Fed(t)) /\ LineOK(Fed(t))
    /\ Fed(t).line = << >> <=> t = << >> \/ t[Len(t)] = Newline
    /\ WrittenEvents(t) = ToSet(ReplayEventLog(t).events)

\* A chunk is a newline only if it is the newline.
LEMMA ChunkKinds ==
    /\ Newline \in Chunks /\ Torn \in Chunks /\ Torn # Newline
    /\ ~IsEvent(Newline) /\ ~IsEvent(Torn)
    /\ \A e \in LogEvents : e \in Chunks /\ IsEvent(e) /\ e # Newline /\ e # Torn
<1>1. Newline.type = "newline" /\ Torn.type = "torn"
  BY DEF Newline, Torn
<1>2. \A e \in LogEvents : e.type = "event"
  BY DEF LogEvents
<1>3. Torn # Newline /\ \A e \in LogEvents : e # Newline /\ e # Torn
  BY <1>1, <1>2
<1>4. Newline \in Chunks /\ Torn \in Chunks /\ \A e \in LogEvents : e \in Chunks
  BY DEF Chunks
<1> QED
  BY <1>1, <1>2, <1>3, <1>4 DEF IsEvent

\* The event that comes next joins the stream.
LEMMA NextJoins ==
    ASSUME NEW s \in Streams, InOrder(s), NEW e \in LogEvents, Follows(s, e)
    PROVE  /\ ReduceEvent(s, e) \in Streams /\ InOrder(ReduceEvent(s, e))
           /\ ReduceEvent(s, e).events = Append(s.events, e)
           /\ ReduceEvent(s, e).line = s.line
<1> DEFINE r == ReduceEvent(s, e)
<1>1. /\ s.events \in Seq(LogEvents) /\ s.lastSeq \in Nat /\ s.partial \in BOOLEAN
      /\ s.duplicates \in Nat /\ s.line \in Seq(Chunks) /\ Len(s.events) \in Nat
      /\ e.seq \in Nat
  BY DEF Streams, LogEvents
<1>2. r = [s EXCEPT !.events = Append(s.events, e),
                    !.partial = s.partial \/ e.seq # s.lastSeq + 1,
                    !.lastSeq = IF e.seq > s.lastSeq THEN e.seq ELSE s.lastSeq]
  BY Zenon DEF ReduceEvent, Follows
<1>3. /\ r.events = Append(s.events, e) /\ r.line = s.line /\ r.duplicates = s.duplicates
      /\ r.partial = (s.partial \/ e.seq # s.lastSeq + 1)
      /\ r.lastSeq = IF e.seq > s.lastSeq THEN e.seq ELSE s.lastSeq
  BY <1>2, Zenon DEF Streams
<1>4. r.partial \in BOOLEAN
  BY <1>3, Zenon
<1>5. r = [events |-> r.events, lastSeq |-> r.lastSeq, partial |-> r.partial,
           duplicates |-> r.duplicates, line |-> r.line]
  BY <1>2 DEF Streams
<1>6. r.lastSeq = Len(s.events) + 1 /\ Len(r.events) = Len(s.events) + 1
  BY <1>1, <1>3 DEF InOrder, Follows
<1> HIDE DEF r
<1>7. r \in Streams
  <2>1. r.events \in Seq(LogEvents) /\ r.lastSeq \in Nat
    BY <1>1, <1>3, <1>6
  <2> QED
    BY <1>1, <1>3, <1>4, <1>5, <2>1 DEF Streams
<1>8. InOrder(r)
  <2>1. /\ \A i \in 1..Len(s.events) : r.events[i] = s.events[i]
        /\ r.events[Len(s.events) + 1] = e
    BY <1>1, <1>3
  <2>2. \A i \in 1..Len(r.events) : r.events[i].seq = i
    BY <1>1, <1>6, <2>1, SMTT(20) DEF InOrder, Follows
  <2>3. \A i \in 1..Len(s.events) : s.events[i].id # e.id
    BY <1>1 DEF Follows, Known
  <2>4. \A i, j \in 1..Len(r.events) : r.events[i].id = r.events[j].id => i = j
    <3> SUFFICES ASSUME NEW i \in 1..Len(r.events), NEW j \in 1..Len(r.events),
                        r.events[i].id = r.events[j].id, i # j
                 PROVE  FALSE
      OBVIOUS
    <3>1. CASE i \in 1..Len(s.events) /\ j \in 1..Len(s.events)
      BY <2>1, <3>1 DEF InOrder
    <3>2. CASE i = Len(s.events) + 1 /\ j \in 1..Len(s.events)
      BY <2>1, <2>3, <3>2
    <3>3. CASE j = Len(s.events) + 1 /\ i \in 1..Len(s.events)
      BY <2>1, <2>3, <3>3
    <3> QED
      BY <1>1, <1>6, <3>1, <3>2, <3>3
  <2> QED
    BY <1>3, <1>6, <2>2, <2>4 DEF InOrder
<1> QED
  BY <1>3, <1>7, <1>8 DEF r

\* A stream whose line is changed is otherwise the same.
LEMMA LineChanges ==
    ASSUME NEW s, InOrder(s), NEW r, r.events = s.events, r.lastSeq = s.lastSeq,
           r.duplicates = s.duplicates
    PROVE  InOrder(r) /\ \A e : Follows(r, e) <=> Follows(s, e)
<1>1. InOrder(r)
  BY DEF InOrder
<1>2. \A e : Follows(r, e) <=> Follows(s, e)
  BY Zenon DEF Follows, Known
<1> QED
  BY <1>1, <1>2

\* What the end of the last line leaves of a stream.
LEMMA LineEnds ==
    ASSUME NEW s \in Streams, InOrder(s), LineOK(s)
    PROVE  /\ EndLine(s) \in Streams /\ InOrder(EndLine(s)) /\ EndLine(s).line = << >>
           /\ s.line = << >> => EndLine(s) = s
           /\ s.line = <<Torn>> => EndLine(s).events = s.events
           /\ \A e \in LogEvents : s.line = <<e>> => EndLine(s).events = Append(s.events, e)
<1>1. /\ <<Torn>> # << >> /\ Len(<<Torn>>) = 1 /\ <<Torn>>[1] = Torn
      /\ \A e \in LogEvents : /\ <<e>> # << >> /\ Len(<<e>>) = 1 /\ <<e>>[1] = e
                              /\ <<e>> # <<Torn>> /\ \A d \in LogEvents : <<e>> = <<d>> => e = d
  BY ChunkKinds
<1>2. CASE s.line = << >>
  BY <1>1, <1>2 DEF EndLine
<1> DEFINE next == [s EXCEPT !.line = << >>]
<1>3. /\ next \in Streams /\ next.events = s.events /\ next.line = << >>
      /\ next.lastSeq = s.lastSeq /\ next.duplicates = s.duplicates
  <2>1. /\ s.events \in Seq(LogEvents) /\ s.lastSeq \in Nat /\ s.partial \in BOOLEAN
        /\ s.duplicates \in Nat /\ << >> \in Seq(Chunks)
    BY DEF Streams
  <2>2. next = [events |-> s.events, lastSeq |-> s.lastSeq, partial |-> s.partial,
                duplicates |-> s.duplicates, line |-> << >>]
    BY DEF Streams
  <2> QED
    BY <2>1, <2>2 DEF Streams
<1>4. [next EXCEPT !.partial = TRUE] \in Streams
  <2> HIDE DEF next
  <2> QED
    BY <1>3 DEF Streams
<1>5. InOrder(next) /\ \A e : Follows(next, e) <=> Follows(s, e)
  <2> HIDE DEF next
  <2> QED
    BY <1>3, LineChanges
<1>6. CASE s.line = <<Torn>>
  <2>1. EndLine(s) = [next EXCEPT !.partial = TRUE]
    BY <1>1, <1>6, ChunkKinds DEF EndLine
  <2>2. /\ EndLine(s).events = s.events /\ EndLine(s).line = << >>
        /\ EndLine(s).lastSeq = s.lastSeq /\ EndLine(s).duplicates = s.duplicates
    BY <2>1 DEF Streams
  <2>3. /\ EndLine(s) \in Streams /\ InOrder(EndLine(s)) /\ EndLine(s).events = s.events
        /\ EndLine(s).line = << >>
    BY <1>4, <2>1, <2>2, LineChanges
  <2> QED
    BY <1>1, <1>6, <2>3
<1>7. ASSUME NEW e \in LogEvents, s.line = <<e>>, Follows(s, e)
      PROVE  /\ EndLine(s) \in Streams /\ InOrder(EndLine(s)) /\ EndLine(s).line = << >>
             /\ EndLine(s).events = Append(s.events, e)
  <2>1. EndLine(s) = ReduceEvent(next, e)
    BY <1>1, <1>7, ChunkKinds DEF EndLine
  <2> HIDE DEF next
  <2> QED
    BY <1>3, <1>5, <1>7, <2>1, NextJoins
<1>8. CASE \E e \in LogEvents : s.line = <<e>> /\ Follows(s, e)
  BY <1>1, <1>7, <1>8
<1> QED
  BY <1>2, <1>6, <1>8 DEF LineOK

\* What a chunk more adds to the events written.
LEMMA WrittenGrows ==
    ASSUME NEW t \in Seq(Chunks), NEW c \in Chunks
    PROVE  WrittenEvents(Append(t, c)) = WrittenEvents(t) \cup (IF IsEvent(c) THEN {c} ELSE {})
<1>1. /\ Len(t) \in Nat /\ DOMAIN t = 1..Len(t) /\ DOMAIN Append(t, c) = 1..(Len(t) + 1)
      /\ \A i \in 1..Len(t) : Append(t, c)[i] = t[i]
      /\ Append(t, c)[Len(t) + 1] = c
  OBVIOUS
<1> DEFINE u == Append(t, c)
<1> HIDE DEF u
<1>2. ASSUME NEW x PROVE x \in WrittenEvents(u) <=>
                         \E i \in 1..(Len(t) + 1) : IsEvent(u[i]) /\ u[i] = x
  BY <1>1 DEF WrittenEvents, u
<1>3. ASSUME NEW x PROVE x \in WrittenEvents(t) <=> \E i \in 1..Len(t) : IsEvent(t[i]) /\ t[i] = x
  BY <1>1 DEF WrittenEvents
<1>4. ASSUME NEW x PROVE x \in WrittenEvents(u) <=>
                         x \in WrittenEvents(t) \cup (IF IsEvent(c) THEN {c} ELSE {})
  <2>1. x \in WrittenEvents(u) => x \in WrittenEvents(t) \/ (IsEvent(c) /\ x = c)
    BY <1>1, <1>2, <1>3 DEF u
  <2>2. x \in WrittenEvents(t) => x \in WrittenEvents(u)
    BY <1>1, <1>2, <1>3 DEF u
  <2>3. IsEvent(c) => c \in WrittenEvents(u)
    BY <1>1, <1>2 DEF u
  <2> QED
    BY <2>1, <2>2, <2>3
<1> QED
  BY <1>4 DEF u

\* What an event more adds to the elements of a log.
LEMMA SetGrows ==
    ASSUME NEW l \in Seq(LogEvents), NEW e \in LogEvents
    PROVE  ToSet(Append(l, e)) = ToSet(l) \cup {e}
<1> DEFINE k == Append(l, e)
<1>1. /\ Len(l) \in Nat /\ DOMAIN l = 1..Len(l) /\ DOMAIN k = 1..(Len(l) + 1)
      /\ \A i \in 1..Len(l) : k[i] = l[i]
      /\ k[Len(l) + 1] = e
  OBVIOUS
<1> HIDE DEF k
<1>2. \A x : x \in ToSet(k) <=> \E i \in 1..(Len(l) + 1) : k[i] = x
  BY <1>1 DEF ToSet
<1>3. \A x : x \in ToSet(l) <=> \E i \in 1..Len(l) : l[i] = x
  BY <1>1 DEF ToSet
<1>4. \A x : x \in ToSet(k) <=> x \in ToSet(l) \/ x = e
  BY <1>1, <1>2, <1>3
<1> QED
  BY <1>4 DEF k

\* What the replay of a readable text finds.
LEMMA ReadStream ==
    ASSUME NEW t, Readable(t)
    PROVE  /\ ReplayEventLog(t) \in Streams /\ InOrder(ReplayEventLog(t))
           /\ ReplayEventLog(t).line = << >>
           /\ Fed(t).line = << >> => ReplayEventLog(t) = Fed(t)
BY ReplayEnds, LineEnds DEF Readable

\* Nothing was written yet.
LEMMA NothingWritten == Readable(<< >>) /\ ReplayEventLog(<< >>).events = << >>
<1>1. /\ EmptyStream \in Streams /\ InOrder(EmptyStream)
      /\ EmptyStream.line = << >> /\ EmptyStream.events = << >>
  BY DEF EmptyStream, Streams, InOrder
<1>2. ReplayEventLog(<< >>).events = << >>
  BY <1>1, FedNothing, ReplayEnds DEF EndLine
<1>3. WrittenEvents(<< >>) = {} /\ ToSet(<< >>) = {}
  BY DEF WrittenEvents, ToSet
<1>4. << >> \in Seq(Chunks)
  OBVIOUS
<1> QED
  BY <1>1, <1>2, <1>3, <1>4, FedNothing DEF Readable, LineOK

\* A newline ends the last line and changes nothing that was read.
LEMMA NewlineEnds ==
    ASSUME NEW t, Readable(t), NEW u, u = Append(t, Newline)
    PROVE  /\ Readable(u) /\ Fed(u).line = << >>
           /\ ReplayEventLog(u) = ReplayEventLog(t)
<1>1. t \in Seq(Chunks) /\ Newline \in Chunks /\ ~IsEvent(Newline)
  BY ChunkKinds DEF Readable
<1>2. Fed(u) = ReplayEventLog(t)
  BY <1>1, FedAppend, ReplayEnds DEF Feed
<1>3. ReplayEventLog(t) \in Streams /\ InOrder(ReplayEventLog(t)) /\ ReplayEventLog(t).line = << >>
  BY ReadStream
<1>4. LineOK(Fed(u))
  BY <1>2, <1>3 DEF LineOK
<1>5. ReplayEventLog(u) = ReplayEventLog(t)
  BY <1>2, <1>3, <1>4, ReplayEnds, LineEnds
<1>6. u \in Seq(Chunks) /\ u[Len(u)] = Newline
  BY <1>1
<1>7. WrittenEvents(u) = WrittenEvents(t)
  BY <1>1, WrittenGrows
<1> QED
  BY <1>2, <1>3, <1>4, <1>5, <1>6, <1>7 DEF Readable

\* A chunk that begins a line.
LEMMA LineBegins ==
    ASSUME NEW t, Readable(t), Fed(t).line = << >>, NEW c \in Chunks, c # Newline,
           NEW u, u = Append(t, c)
    PROVE  /\ Fed(u) \in Streams /\ InOrder(Fed(u)) /\ Fed(u).line = <<c>>
           /\ Fed(u).events = ReplayEventLog(t).events
           /\ \A e : Follows(Fed(u), e) <=> Follows(ReplayEventLog(t), e)
           /\ u \in Seq(Chunks) /\ u # << >> /\ u[Len(u)] # Newline
<1> DEFINE s == Fed(t)
<1>1. t \in Seq(Chunks) /\ s \in Streams /\ InOrder(s) /\ s.line = << >> /\ ReplayEventLog(t) = s
  BY ReadStream DEF Readable
<1>2. u \in Seq(Chunks) /\ u # << >> /\ u[Len(u)] # Newline
  BY <1>1
<1>3. Fed(u) = [s EXCEPT !.line = <<c>>]
  <2>1. Fed(u) = Feed(s, c) /\ Append(s.line, c) = <<c>>
    BY <1>1, FedAppend
  <2> HIDE DEF s
  <2> QED
    BY <2>1 DEF Feed
<1> HIDE DEF s
<1>4. /\ Fed(u) \in Streams /\ Fed(u).events = s.events /\ Fed(u).line = <<c>>
      /\ Fed(u).lastSeq = s.lastSeq /\ Fed(u).duplicates = s.duplicates
  <2>1. /\ s.events \in Seq(LogEvents) /\ s.lastSeq \in Nat /\ s.partial \in BOOLEAN
        /\ s.duplicates \in Nat /\ <<c>> \in Seq(Chunks)
    BY <1>1 DEF Streams
  <2>2. Fed(u) = [events |-> s.events, lastSeq |-> s.lastSeq, partial |-> s.partial,
                  duplicates |-> s.duplicates, line |-> <<c>>]
    BY <1>1, <1>3 DEF Streams
  <2> QED
    BY <2>1, <2>2 DEF Streams
<1>5. InOrder(Fed(u)) /\ \A e : Follows(Fed(u), e) <=> Follows(s, e)
  BY <1>1, <1>4, LineChanges
<1> QED
  BY <1>1, <1>2, <1>4, <1>5

\* A torn fragment after a newline hides nothing.
LEMMA TornBegins ==
    ASSUME NEW t, Readable(t), Fed(t).line = << >>, NEW u, u = Append(t, Torn)
    PROVE  Readable(u) /\ ReplayEventLog(u).events = ReplayEventLog(t).events
<1>1. Torn \in Chunks /\ Torn # Newline /\ ~IsEvent(Torn) /\ t \in Seq(Chunks)
  BY ChunkKinds DEF Readable
<1>2. /\ Fed(u) \in Streams /\ InOrder(Fed(u)) /\ Fed(u).line = <<Torn>>
      /\ Fed(u).events = ReplayEventLog(t).events
      /\ u \in Seq(Chunks) /\ u # << >> /\ u[Len(u)] # Newline
  BY <1>1, LineBegins, ZenonT(30)
<1>3. LineOK(Fed(u))
  BY <1>2 DEF LineOK
<1>4. ReplayEventLog(u).events = ReplayEventLog(t).events
  BY <1>2, <1>3, ReplayEnds, LineEnds
<1>5. WrittenEvents(u) = WrittenEvents(t)
  BY <1>1, WrittenGrows
<1>6. Fed(u).line # << >>
  BY <1>2
<1> QED
  BY <1>2, <1>3, <1>4, <1>5, <1>6 DEF Readable

\* The next event after a newline joins the log, whether or not its line ends.
LEMMA EventBegins ==
    ASSUME NEW t, Readable(t), Fed(t).line = << >>, NEW e \in LogEvents,
           Follows(ReplayEventLog(t), e), NEW u, u = Append(t, e)
    PROVE  Readable(u) /\ ReplayEventLog(u).events = Append(ReplayEventLog(t).events, e)
<1>1. e \in Chunks /\ e # Newline /\ IsEvent(e) /\ t \in Seq(Chunks)
  BY ChunkKinds DEF Readable
<1>2. /\ Fed(u) \in Streams /\ InOrder(Fed(u)) /\ Fed(u).line = <<e>>
      /\ Fed(u).events = ReplayEventLog(t).events
      /\ \A d : Follows(Fed(u), d) <=> Follows(ReplayEventLog(t), d)
      /\ u \in Seq(Chunks) /\ u # << >> /\ u[Len(u)] # Newline
  BY <1>1, LineBegins, ZenonT(30)
<1>3. LineOK(Fed(u))
  BY <1>2 DEF LineOK
<1>4. ReplayEventLog(u).events = Append(ReplayEventLog(t).events, e)
  BY <1>2, <1>3, ReplayEnds, LineEnds, SMTT(20)
<1>5. WrittenEvents(u) = WrittenEvents(t) \cup {e}
  BY <1>1, WrittenGrows
<1>6. Fed(u).line # << >>
  BY <1>2
<1>7. ToSet(ReplayEventLog(u).events) = ToSet(ReplayEventLog(t).events) \cup {e}
  BY <1>4, ReadStream, SetGrows DEF Streams
<1>8. WrittenEvents(t) = ToSet(ReplayEventLog(t).events)
  BY DEF Readable
<1> QED
  BY <1>2, <1>3, <1>4, <1>5, <1>6, <1>7, <1>8 DEF Readable

\* A whole line.
LEMMA LineWritten ==
    ASSUME NEW t, Readable(t), Fed(t).line = << >>, NEW e \in LogEvents,
           Follows(ReplayEventLog(t), e), NEW u, u = t \o <<e, Newline>>
    PROVE  /\ Readable(u) /\ Fed(u).line = << >>
           /\ ReplayEventLog(u).events = Append(ReplayEventLog(t).events, e)
<1>1. t \in Seq(Chunks) /\ e \in Chunks /\ Newline \in Chunks
  BY ChunkKinds DEF Readable
<1>2. u = Append(Append(t, e), Newline)
  BY <1>1
<1>3. Readable(Append(t, e))
      /\ ReplayEventLog(Append(t, e)).events = Append(ReplayEventLog(t).events, e)
  BY EventBegins
<1> QED
  BY <1>2, <1>3, NewlineEnds

-----------------------------------------------------------------------------
(* The invariant of the log *)

Begins == {"acquire", "inspect", "break", "token", "stat", "existing"}
Judged == {"boundary", "sequence", "append"}

\* What a process knows of the log at each point of its call.
CallOK(p) ==
    /\ pc[p] \in {"existing", "validate", "state"} \cup Judged => size[p] = Len(text)
    /\ pc[p] \in {"sequence", "append", "state"} => Fed(text).line = << >>
    /\ pc[p] \in Begins \cup {"validate"} \cup Judged =>
          calls[p] # 0 /\ \A e \in ToSet(Stream.events) : e.id # Token(p)
    /\ pc[p] \in {"validate"} \cup Judged => ~Known(Stream, EventId(p))
    /\ pc[p] \in Judged /\ Stable(p) => Begun(Stream.events) /\ ~Closed(Stream.events)
    /\ pc[p] = "append" => seq[p] = Len(Stream.events) + 1
    /\ pc[p] = "state" => seq[p] = Len(Stream.events) /\ Made(p) \in ToSet(Stream.events)
    /\ event[p] = NoEvent \/ event[p] \in ToSet(Stream.events)

\* A cache of the log's own size holds its last number.
CacheOK ==
    /\ cache.seq \in Nat /\ cache.size \in Int /\ cache.size <= Len(text)
    /\ cache.size = Len(text) => cache.seq = Len(Stream.events)

\* Ids drawn for a call are of calls that were made.
IdsAreDrawn ==
    \A e \in ToSet(Stream.events) : \A q \in Procs, n \in Nat :
       e.id = <<q, n>> => n <= calls[q]

LocalsOK ==
    /\ draft \in [Procs -> Drafts]
    /\ size \in [Procs -> Nat] /\ seq \in [Procs -> Nat]
    /\ event \in [Procs -> Chunks]

WriterInv ==
    /\ AloneInv /\ LocalsOK /\ Readable(text)
    /\ CacheOK /\ IdsAreDrawn /\ acked \subseteq ToSet(Stream.events)
    /\ \A p \in Procs : CallOK(p)

-----------------------------------------------------------------------------
(* How the log grows *)

\* The readable log is the same, or has one more event: the one a process has
\* made after its checks.
Keeps(p) == Stream'.events = Stream.events
Adds(p) ==
    /\ pc[p] = "append" /\ Follows(Stream, Made(p))
    /\ Stream'.events = Append(Stream.events, Made(p))

\* The event a process is about to append is the next one of the log.
LEMMA MadeFollows ==
    ASSUME WriterInv, NEW p \in Procs, pc[p] = "append"
    PROVE  /\ Made(p) \in LogEvents /\ Follows(Stream, Made(p))
           /\ Fed(text).line = << >> /\ Stream \in Streams /\ InOrder(Stream)
<1>1. /\ seq[p] \in Nat /\ draft[p] \in Drafts /\ calls[p] \in Nat
      /\ CallOK(p) /\ Readable(text)
  BY DEF WriterInv, LocalsOK, AloneInv, LockTypeOK
<1>2. EventId(p) \in Ids
  BY <1>1 DEF EventId, Token, Ids
<1>3. /\ Made(p).seq = seq[p] /\ Made(p).id = EventId(p)
      /\ Made(p) \in LogEvents
  BY <1>1, <1>2 DEF Made, EventChunk, LogEvents
<1>4. seq[p] = Len(Stream.events) + 1 /\ ~Known(Stream, EventId(p)) /\ Fed(text).line = << >>
  BY <1>1 DEF CallOK, Judged
<1>5. Follows(Stream, Made(p))
  BY <1>3, <1>4 DEF Follows
<1> QED
  BY <1>1, <1>3, <1>4, <1>5, ReadStream DEF Stream

\* What an interrupted write leaves behind is readable.
LEMMA InterruptedWrite ==
    ASSUME WriterInv, NEW p \in Procs, pc[p] = "append", text' \in Interrupted(p)
    PROVE  /\ Readable(text') /\ (Keeps(p) \/ Adds(p))
           /\ text' = text \/ Len(text') > Len(text)
<1>1. Readable(text) /\ text \in Seq(Chunks)
  BY DEF WriterInv, Readable
<1>2. /\ Made(p) \in LogEvents /\ Follows(ReplayEventLog(text), Made(p))
      /\ Fed(text).line = << >> /\ {Torn, Newline, Made(p)} \subseteq Chunks
  BY MadeFollows, ChunkKinds DEF Stream
<1>3. CASE text' = text
  BY <1>1, <1>3 DEF Keeps, Stream
<1>4. CASE text' = Append(text, Torn)
  <2>1. Readable(text') /\ ReplayEventLog(text').events = ReplayEventLog(text).events
    BY <1>1, <1>2, <1>4, TornBegins
  <2>2. Len(text') > Len(text)
    BY <1>1, <1>2, <1>4
  <2> QED
    BY <2>1, <2>2 DEF Keeps, Stream
<1>5. CASE text' = Append(text, Made(p))
  <2>1. /\ Readable(text')
        /\ ReplayEventLog(text').events = Append(ReplayEventLog(text).events, Made(p))
    BY <1>1, <1>2, <1>5, EventBegins
  <2>2. Len(text') > Len(text)
    BY <1>1, <1>2, <1>5
  <2> QED
    BY <1>2, <2>1, <2>2 DEF Adds, Stream
<1>6. CASE text' = text \o <<Made(p), Newline>>
  <2>1. /\ Readable(text')
        /\ ReplayEventLog(text').events = Append(ReplayEventLog(text).events, Made(p))
    BY <1>1, <1>2, <1>6, LineWritten
  <2>2. Len(text') > Len(text)
    BY <1>1, <1>2, <1>6
  <2> QED
    BY <1>2, <2>1, <2>2 DEF Adds, Stream
<1> QED
  BY <1>3, <1>4, <1>5, <1>6 DEF Interrupted

\* A line that is appended whole is read.
LEMMA WholeWrite ==
    ASSUME WriterInv, NEW p \in Procs, AppendLine(p)
    PROVE  /\ Readable(text') /\ Adds(p) /\ Fed(text').line = << >>
           /\ Len(text') > Len(text)
<1>1. Readable(text) /\ text \in Seq(Chunks) /\ pc[p] = "append"
  BY DEF WriterInv, Readable, AppendLine
<1>2. /\ Made(p) \in LogEvents /\ Follows(ReplayEventLog(text), Made(p))
      /\ Fed(text).line = << >> /\ Newline \in Chunks /\ Made(p) \in Chunks
  BY <1>1, MadeFollows, ChunkKinds DEF Stream
<1>3. text' = text \o <<Made(p), Newline>>
  BY DEF AppendLine
<1>4. /\ Readable(text') /\ Fed(text').line = << >>
      /\ ReplayEventLog(text').events = Append(ReplayEventLog(text).events, Made(p))
  BY <1>1, <1>2, <1>3, LineWritten
<1>5. Len(text') > Len(text)
  BY <1>1, <1>2, <1>3
<1> QED
  BY <1>1, <1>2, <1>4, <1>5 DEF Adds, Stream

\* A line boundary changes nothing that is read.
LEMMA BoundaryWrite ==
    ASSUME WriterInv, NEW p \in Procs, Boundary(p)
    PROVE  /\ Readable(text') /\ Keeps(p) /\ Fed(text').line = << >>
           /\ text' = text \/ Len(text') > Len(text)
           /\ size'[p] = Len(text')
<1>1. /\ Readable(text) /\ text \in Seq(Chunks) /\ pc[p] = "boundary" /\ size[p] = Len(text)
      /\ size \in [Procs -> Nat]
  BY DEF WriterInv, Readable, Boundary, CallOK, Judged, LocalsOK
<1>2. Newline \in Chunks
  BY ChunkKinds
<1>3. CASE AtBoundary(p)
  <2>1. text' = text /\ size' = size
    BY <1>3 DEF Boundary
  <2>2. text = << >> \/ text[Len(text)] = Newline
    BY <1>1, <1>3 DEF AtBoundary
  <2> QED
    BY <1>1, <2>1, <2>2 DEF Readable, Keeps, Stream
<1>4. CASE ~AtBoundary(p)
  <2>1. text' = Append(text, Newline) /\ size' = [size EXCEPT ![p] = @ + 1]
    BY <1>4 DEF Boundary
  <2>2. Readable(text') /\ Fed(text').line = << >> /\ ReplayEventLog(text') = ReplayEventLog(text)
    BY <1>1, <2>1, NewlineEnds
  <2>3. Len(text') = Len(text) + 1 /\ size'[p] = Len(text) + 1
    BY <1>1, <1>2, <2>1
  <2> QED
    BY <1>1, <2>2, <2>3 DEF Keeps, Stream
<1> QED
  BY <1>3, <1>4

\* Nor does one whose handle cannot be closed.
LEMMA BoundaryFailed ==
    ASSUME WriterInv, NEW p \in Procs, BoundaryFails(p)
    PROVE  Readable(text') /\ Keeps(p) /\ (text' = text \/ Len(text') > Len(text))
<1>1. Readable(text) /\ text \in Seq(Chunks) /\ Newline \in Chunks
  BY ChunkKinds DEF WriterInv, Readable
<1>2. CASE text' = text
  BY <1>1, <1>2 DEF Keeps, Stream
<1>3. CASE text' = Append(text, Newline)
  <2>1. Readable(text') /\ ReplayEventLog(text') = ReplayEventLog(text)
    BY <1>1, <1>3, NewlineEnds
  <2>2. Len(text') > Len(text)
    BY <1>1, <1>3
  <2> QED
    BY <2>1, <2>2 DEF Keeps, Stream
<1> QED
  BY <1>2, <1>3 DEF BoundaryFails

\* What a step of one process makes of the text.
TextGrows(p) ==
    /\ Readable(text') /\ (Keeps(p) \/ Adds(p))
    /\ text' = text \/ (Len(text') > Len(text) /\ pc[p] \in Holding)

\* Every step leaves a readable text.
LEMMA StepGrows ==
    ASSUME WriterInv, NEW p \in Procs, Quiet(p) \/ Touches(p)
    PROVE  TextGrows(p)
<1>1. ASSUME text' = text PROVE TextGrows(p)
  BY <1>1 DEF TextGrows, Keeps, Stream, WriterInv
<1>2. CASE Boundary(p)
  BY <1>2, BoundaryWrite DEF TextGrows, Boundary, Holding
<1>3. CASE AppendLine(p)
  BY <1>3, WholeWrite DEF TextGrows, AppendLine, Holding
<1>4. CASE AppendFails(p) \/ (Crash(p) /\ pc[p] = "append")
  <2>1. pc[p] = "append" /\ text' \in Interrupted(p)
    BY <1>4 DEF AppendFails, Crash
  <2> QED
    BY <2>1, InterruptedWrite DEF TextGrows, Holding
<1>5. CASE BoundaryFails(p)
  BY <1>5, BoundaryFailed DEF TextGrows, BoundaryFails, Holding
<1>6. CASE ~(Boundary(p) \/ BoundaryFails(p) \/ AppendLine(p) \/ AppendFails(p)
              \/ (Crash(p) /\ pc[p] = "append"))
  <2>1. text' = text
    BY <1>6 DEF Quiet, Touches, Call, LockTimeout, AcquireFails, TokenFails, Inspect, Stat, ReadFails,
                Existing, Validate, Sequence, WriteState, StateFails, Release, ReleaseFails, Crash,
                CreateLock, WriteToken, BreakLock, Unlink, disk
  <2> QED
    BY <1>1, <2>1
<1> QED
  BY <1>2, <1>3, <1>4, <1>5, <1>6

\* What a step of one process leaves alone.
Untouched(q) ==
    /\ pc'[q] = pc[q] /\ calls'[q] = calls[q] /\ draft'[q] = draft[q]
    /\ size'[q] = size[q] /\ seq'[q] = seq[q] /\ event'[q] = event[q]

\* The event an idempotent call finds is one of the log.
LEMMA FoundEvents ==
    ASSUME WriterInv
    PROVE  ToSet(Stream.events) \subseteq LogEvents /\ LogEvents \subseteq Chunks /\ NoEvent \in Chunks
<1>1. Stream \in Streams
  BY ReadStream DEF WriterInv, Stream
<1> QED
  BY <1>1, ChunkKinds DEF Streams, ToSet, Chunks, NoEvent

\* A step of one process changes no other's variables.
LEMMA StepIsLocal ==
    ASSUME WriterInv, NEW p \in Procs, Quiet(p) \/ Touches(p)
    PROVE  LocalsOK' /\ \A q \in Procs \ {p} : Untouched(q)
<1> USE DEF LocalsOK, Untouched
<1>1. /\ pc \in [Procs -> PCs] /\ calls \in [Procs -> Nat] /\ LocalsOK
      /\ text \in Seq(Chunks)
  BY DEF WriterInv, AloneInv, LockTypeOK, Readable
<1>2. /\ ToSet(Stream.events) \subseteq Chunks /\ NoEvent \in Chunks /\ Len(text) \in Nat
  BY <1>1, FoundEvents
<1>3. CASE Call(p)
  BY <1>1, <1>2, <1>3 DEF Call, Goto
<1>t. ASSUME Throw(p) \/ Return(p)
      PROVE  /\ size' \in [Procs -> Nat] /\ seq' \in [Procs -> Nat] /\ event' \in [Procs -> Chunks]
             /\ \A q \in Procs \ {p} : /\ pc'[q] = pc[q] /\ size'[q] = size[q]
                                       /\ seq'[q] = seq[q] /\ event'[q] = event[q]
  <2>1. /\ pc' = [pc EXCEPT ![p] = "idle"] /\ event' = [event EXCEPT ![p] = NoEvent]
        /\ size' = [size EXCEPT ![p] = 0] /\ seq' = [seq EXCEPT ![p] = 0]
    BY <1>t DEF Throw, Return, Goto
  <2> QED
    BY <1>1, <1>2, <2>1
<1>4. CASE LockTimeout(p) \/ TokenFails(p) \/ AcquireFails(p) \/ ReleaseFails(p)
  <2>1. Throw(p) /\ UNCHANGED <<calls, draft>>
    BY <1>4 DEF LockTimeout, TokenFails, AcquireFails, ReleaseFails, locals
  <2> QED
    BY <1>1, <1>t, <2>1
<1>5. CASE Inspect(p) \/ BreakLock(p)
  BY <1>1, <1>2, <1>5 DEF Inspect, BreakLock, Retry, Goto
<1>6. CASE CreateLock(p) \/ WriteToken(p)
  BY <1>1, <1>2, <1>6 DEF CreateLock, WriteToken, Goto, locals
<1>7. CASE Unlink(p)
  BY <1>1, <1>2, <1>7 DEF Unlink, Return, Goto, locals
<1>8. CASE Release(p)
  <2>1. UNCHANGED <<calls, draft>>
    BY <1>8 DEF Release, locals
  <2>2. CASE Throw(p) \/ Return(p)
    BY <1>1, <1>t, <2>1, <2>2
  <2>3. CASE ~(Throw(p) \/ Return(p))
    <3>1. pc' = [pc EXCEPT ![p] = "unlink"] /\ UNCHANGED <<size, seq, event>>
      BY <1>8, <2>3 DEF Release, Goto
    <3> QED
      BY <1>1, <2>1, <3>1
  <2> QED
    BY <2>2, <2>3
<1>9. CASE Crash(p)
  BY <1>1, <1>2, <1>9 DEF Crash, Goto, locals
<1>10. CASE Stat(p)
  BY <1>1, <1>2, <1>10 DEF Stat, Fail, Step, Goto, locals
<1>11. CASE Existing(p)
  BY <1>1, <1>2, <1>11 DEF Existing, Stream, Fail, Step, Goto, locals
<1>12. CASE Validate(p) \/ StateFails(p) \/ AppendFails(p) \/ ReadFails(p) \/ BoundaryFails(p)
  BY <1>1, <1>2, <1>12 DEF Validate, StateFails, AppendFails, ReadFails, BoundaryFails, Fail, Step,
                           Goto, locals
<1>13. CASE Boundary(p)
  <2>1. /\ pc' = [pc EXCEPT ![p] = "sequence"] /\ UNCHANGED <<calls, draft, seq, event>>
        /\ size' = size \/ size' = [size EXCEPT ![p] = @ + 1]
    BY <1>13 DEF Boundary, Step, Goto, locals
  <2>2. size' \in [Procs -> Nat] /\ \A q \in Procs \ {p} : size'[q] = size[q]
    BY <1>1, <2>1
  <2> QED
    BY <1>1, <2>1, <2>2
<1>14. CASE Sequence(p)
  <2>1. /\ UNCHANGED <<size, draft, calls>>
        /\ \E at \in PCs : pc' = [pc EXCEPT ![p] = at]
        /\ event' = event \/ event' = [event EXCEPT ![p] = NoEvent]
        /\ \E n \in Nat : seq' = seq \/ seq' = [seq EXCEPT ![p] = n]
    <3>1. CASE ~Fits(p)
      BY <1>14, <3>1 DEF Sequence, Fail, Goto, locals, PCs, Holding
    <3>2. CASE Fits(p)
      <4>1. /\ UNCHANGED <<size, event, draft, calls>> /\ pc' = [pc EXCEPT ![p] = "append"]
            /\ seq' = [seq EXCEPT ![p] =
                          (IF CacheMatches(p) THEN cache.seq
                           ELSE IF size[p] = 0 THEN 0 ELSE Stream.lastSeq) + 1]
        BY <1>14, <3>2 DEF Sequence, Step, Goto, locals, Stream
      <4>2. cache.seq \in Nat /\ Stream.lastSeq \in Nat
        BY ReadStream DEF WriterInv, CacheOK, Stream, Streams
      <4>3. PICK last \in Nat : seq' = [seq EXCEPT ![p] = last + 1]
        BY <4>1, <4>2
      <4>4. last + 1 \in Nat /\ "append" \in PCs
        BY DEF PCs, Holding
      <4> QED
        BY <4>1, <4>3, <4>4, Zenon
    <3> QED
      BY <3>1, <3>2
  <2>2. seq' \in [Procs -> Nat] /\ \A q \in Procs \ {p} : seq'[q] = seq[q]
    BY <1>1, <2>1
  <2>3. event' \in [Procs -> Chunks] /\ \A q \in Procs \ {p} : event'[q] = event[q]
    BY <1>1, <1>2, <2>1
  <2>4. \A q \in Procs \ {p} : pc'[q] = pc[q]
    BY <1>1, <2>1
  <2> QED
    BY <1>1, <2>1, <2>2, <2>3, <2>4
<1>15. CASE AppendLine(p)
  <2>1. Len(text') \in Nat
    BY <1>15, WholeWrite DEF Readable
  <2> QED
    BY <1>1, <1>2, <1>15, <2>1 DEF AppendLine, Step, Goto, locals
<1>16. CASE WriteState(p)
  <2>1. Made(p) \in Chunks
    <3>1. Made(p) \in ToSet(Stream.events)
      BY <1>16 DEF WriterInv, CallOK, WriteState
    <3> QED
      BY <1>2, <3>1
  <2> QED
    BY <1>1, <1>2, <1>16, <2>1 DEF WriteState, Step, Goto, locals
<1> QED
  BY <1>3, <1>4, <1>5, <1>6, <1>7, <1>8, <1>9, <1>10, <1>11, <1>12, <1>13, <1>14, <1>15, <1>16
     DEF Quiet, Touches

\* The log of a grown text.
LEMMA EventsGrow ==
    ASSUME WriterInv, NEW p \in Procs, TextGrows(p)
    PROVE  /\ ToSet(Stream.events) \subseteq ToSet(Stream'.events)
           /\ \A e \in ToSet(Stream'.events) :
                 e \in ToSet(Stream.events) \/ (Adds(p) /\ e = Made(p))
<1>1. CASE Keeps(p)
  BY <1>1 DEF Keeps
<1>2. CASE Adds(p)
  <2>1. Made(p) \in LogEvents /\ Stream.events \in Seq(LogEvents)
    BY <1>2, MadeFollows DEF Adds, Streams
  <2>2. ToSet(Stream'.events) = ToSet(Stream.events) \cup {Made(p)}
    BY <1>2, <2>1, SetGrows DEF Adds
  <2> QED
    BY <1>2, <2>2
<1> QED
  BY <1>1, <1>2 DEF TextGrows

\* The id a process appends under is not drawn for another's call.
LEMMA OwnIds ==
    ASSUME WriterInv, NEW p \in Procs, NEW q \in Procs, p # q, calls[q] # 0
    PROVE  Made(p).id # Token(q)
<1>1. Made(p).id = EventId(p) /\ calls[q] \in Nat
  BY DEF Made, EventChunk, WriterInv, AloneInv, LockTypeOK
<1>2. Token(p) # Token(q) /\ \A x : <<x, 0>> # Token(q)
  BY <1>1 DEF Token
<1> QED
  BY <1>1, <1>2 DEF EventId

\* What the other processes know stays true.
LEMMA OthersOK ==
    ASSUME WriterInv, NEW p \in Procs, TextGrows(p), NEW q \in Procs \ {p}, Untouched(q)
    PROVE  CallOK(q)'
<1>1. /\ Token(q)' = Token(q) /\ EventId(q)' = EventId(q) /\ (Stable(q)' <=> Stable(q))
      /\ Made(q)' = Made(q)
  BY DEF Untouched, Token, EventId, Stable, Made
<1>2. CallOK(q) /\ pc[q] \in PCs
  BY DEF WriterInv, AloneInv, LockTypeOK
<1>3. CASE text' = text
  <2>1. Stream' = Stream
    BY <1>3 DEF Stream
  <2> QED
    BY <1>1, <1>2, <1>3, <2>1 DEF CallOK, Untouched
<1>4. CASE text' # text
  <2>1. pc[q] \notin Holding
    BY <1>4, AloneUnderLock DEF TextGrows, WriterInv, WriterIsAlone
  <2>2. pc[q] \in {"idle", "acquire", "inspect", "break", "dead"}
    BY <1>2, <2>1 DEF PCs, Holding
  <2>3. event'[q] = NoEvent \/ event'[q] \in ToSet(Stream'.events)
    BY <1>2, EventsGrow DEF CallOK, Untouched
  <2>4. ASSUME pc[q] \in Begins, NEW e \in ToSet(Stream'.events)
        PROVE  calls'[q] # 0 /\ e.id # Token(q)'
    <3>1. calls[q] # 0 /\ \A d \in ToSet(Stream.events) : d.id # Token(q)
      BY <1>2, <2>4 DEF CallOK
    <3> QED
      BY <1>1, <2>4, <3>1, EventsGrow, OwnIds DEF Untouched
  <2>5. pc[q] \in Begins => calls'[q] # 0
    BY <1>2 DEF CallOK, Untouched
  <2> QED
    BY <2>2, <2>3, <2>4, <2>5 DEF CallOK, Untouched, Begins, Judged
<1> QED
  BY <1>3, <1>4

\* The ids drawn are of calls that were made.
LEMMA NextIds ==
    ASSUME WriterInv, NEW p \in Procs, TextGrows(p), \A q \in Procs : calls'[q] \in calls[q]..(calls[q] + 1)
    PROVE  IdsAreDrawn'
<1> SUFFICES ASSUME NEW e \in ToSet(Stream'.events), NEW q \in Procs, NEW n \in Nat, e.id = <<q, n>>
             PROVE  n <= calls'[q]
  BY DEF IdsAreDrawn
<1>1. calls[q] \in Nat /\ calls'[q] \in Nat /\ calls[q] <= calls'[q]
  BY DEF WriterInv, AloneInv, LockTypeOK
<1>2. CASE e \in ToSet(Stream.events)
  <2>1. n <= calls[q]
    BY <1>2 DEF WriterInv, IdsAreDrawn
  <2> QED
    BY <1>1, <2>1
<1>3. CASE e = Made(p)
  <2>1. EventId(p) = <<q, n>>
    BY <1>3 DEF Made, EventChunk
  <2>2. n = 0 \/ (q = p /\ n = calls[p])
    BY <2>1 DEF EventId, Token
  <2> QED
    BY <1>1, <2>2
<1> QED
  BY <1>2, <1>3, EventsGrow

\* A cache that is not written says less than a text that grows.
LEMMA CacheStays ==
    ASSUME WriterInv, NEW p \in Procs, TextGrows(p), UNCHANGED cache
    PROVE  CacheOK'
<1>1. /\ CacheOK /\ Len(text) \in Nat /\ Len(text') \in Nat
  BY DEF WriterInv, TextGrows, Readable
<1>2. CASE text' = text
  BY <1>1, <1>2 DEF CacheOK, Stream
<1>3. CASE Len(text') > Len(text)
  BY <1>1, <1>3 DEF CacheOK
<1> QED
  BY <1>2, <1>3 DEF TextGrows

-----------------------------------------------------------------------------
(* What a process knows after its own step *)

\* Towards the end of its call a process knows the event it returns.
LEMMA EndsOK ==
    ASSUME WriterInv, NEW p \in Procs, TextGrows(p),
           pc'[p] \in {"idle", "dead", "release", "unlink"},
           event'[p] \in {NoEvent, event[p]} \cup ToSet(Stream'.events)
    PROVE  CallOK(p)'
<1>1. event'[p] = NoEvent \/ event'[p] \in ToSet(Stream'.events)
  BY EventsGrow DEF WriterInv, CallOK
<1> QED
  BY <1>1 DEF CallOK, Begins, Judged

\* A call that begins has an id of its own, and keeps it up to its checks.
LEMMA BeginsOK ==
    ASSUME WriterInv, NEW p \in Procs,
           Call(p) \/ CreateLock(p) \/ WriteToken(p) \/ Inspect(p) \/ BreakLock(p)
    PROVE  CallOK(p)'
<1>1. /\ pc \in [Procs -> PCs] /\ calls \in [Procs -> Nat] /\ CallOK(p) /\ IdsAreDrawn
  BY DEF WriterInv, AloneInv, LockTypeOK
<1>2. text' = text /\ Stream' = Stream /\ UNCHANGED event
  BY DEF Call, CreateLock, WriteToken, Inspect, BreakLock, Stream, disk
<1>3. CASE Call(p)
  <2>1. pc'[p] = "acquire" /\ calls'[p] = calls[p] + 1
    BY <1>1, <1>3 DEF Call, Goto
  <2>2. Token(p)' = <<p, calls[p] + 1>>
    BY <2>1 DEF Token
  <2>3. \A e \in ToSet(Stream.events) : e.id # Token(p)'
    BY <1>1, <2>2 DEF IdsAreDrawn
  <2> QED
    BY <1>1, <1>2, <2>1, <2>3 DEF CallOK, Begins, Judged
<1>4. CASE CreateLock(p) \/ WriteToken(p) \/ Inspect(p) \/ BreakLock(p)
  <2>1. /\ pc[p] \in Begins /\ UNCHANGED calls
        /\ pc'[p] \in Begins \ {"existing"}
    BY <1>1, <1>4 DEF CreateLock, WriteToken, Inspect, BreakLock, Retry, Goto, Begins, locals
  <2>2. Token(p)' = Token(p)
    BY <2>1 DEF Token
  <2> QED
    BY <1>1, <1>2, <2>1, <2>2 DEF CallOK, Begins, Judged
<1> QED
  BY <1>3, <1>4

\* A draft that is validated has an id the log does not hold.
LEMMA ChecksOK ==
    ASSUME WriterInv, NEW p \in Procs, Stat(p) \/ Existing(p) \/ Validate(p)
    PROVE  CallOK(p)'
<1>1. /\ pc \in [Procs -> PCs] /\ calls \in [Procs -> Nat] /\ CallOK(p)
      /\ size \in [Procs -> Nat] /\ event \in [Procs -> Chunks] /\ TextGrows(p)
  BY StepGrows DEF WriterInv, AloneInv, LockTypeOK, LocalsOK, Quiet
<1>2. text' = text /\ Stream' = Stream
  BY DEF Stat, Existing, Validate, Stream
<1>3. UNCHANGED <<calls, draft>>
  BY DEF Stat, Existing, Validate, Fail, Step, locals
<1>4. /\ Token(p)' = Token(p) /\ EventId(p)' = EventId(p) /\ (Stable(p)' <=> Stable(p))
  BY <1>3 DEF Token, EventId, Stable
<1>5. CASE Fail(p)
  <2>1. pc'[p] = "release" /\ event'[p] = NoEvent
    BY <1>1, <1>5 DEF Fail, Goto
  <2> QED
    BY <1>1, <2>1, EndsOK
<1>6. CASE Stat(p) /\ ~Fail(p)
  <2>1. pc[p] = "stat" /\ pc'[p] = "existing" /\ size'[p] = Len(text) /\ UNCHANGED event
    BY <1>1, <1>6 DEF Stat, Step, Goto
  <2> QED
    BY <1>1, <1>2, <1>3, <1>4, <2>1 DEF CallOK, Begins, Judged
<1>7. CASE Existing(p) /\ Step(p, "validate")
  <2>1. /\ pc[p] = "existing" /\ pc'[p] = "validate" /\ UNCHANGED <<size, event>>
        /\ ~Stable(p) \/ size[p] = 0 \/ ~Known(Stream, EventId(p))
    BY <1>1, <1>7 DEF Existing, Present, Fail, Step, Goto, Stream
  <2>2. ~Known(Stream, EventId(p))
    <3>1. CASE ~Stable(p)
      <4>1. EventId(p) = Token(p)
        BY <3>1 DEF EventId, Stable
      <4>2. \A i \in DOMAIN Stream.events : Stream.events[i].id # Token(p)
        BY <1>1, <2>1 DEF CallOK, Begins, ToSet
      <4> QED
        BY <4>1, <4>2 DEF Known
    <3>2. CASE size[p] = 0
      <4>1. text = << >>
        BY <1>1, <2>1, <3>2 DEF CallOK, WriterInv, Readable
      <4> QED
        BY <4>1, NothingWritten DEF Known, Stream
    <3> QED
      BY <2>1, <3>1, <3>2
  <2> QED
    BY <1>1, <1>2, <1>3, <1>4, <2>1, <2>2 DEF CallOK, Begins, Judged
<1>8. CASE Existing(p) /\ ~Fail(p) /\ Step(p, "release")
  <2>1. /\ pc'[p] = "release"
        /\ event'[p] \in ToSet(Stream'.events)
    <3>1. PICK e \in ToSet(Stream.events) : event' = [event EXCEPT ![p] = e]
      BY <1>1, <1>8 DEF Existing, Step, Goto, Stream
    <3>2. pc'[p] = "release"
      BY <1>1, <1>8 DEF Step, Goto
    <3> QED
      BY <1>1, <1>2, <3>1, <3>2
  <2> QED
    BY <1>1, <2>1, EndsOK
<1>9. CASE Validate(p) /\ ~Fail(p)
  <2>1. /\ pc[p] = "validate" /\ pc'[p] = "boundary" /\ UNCHANGED <<size, event>>
        /\ OpenMission(p, Stream)
    BY <1>1, <1>9 DEF Validate, Step, Goto, Stream
  <2> QED
    BY <1>1, <1>2, <1>3, <1>4, <2>1 DEF CallOK, Begins, Judged, OpenMission
<1>10. Existing(p) => Fail(p) \/ Step(p, "validate") \/ Step(p, "release")
  BY DEF Existing
<1> QED
  BY <1>5, <1>6, <1>7, <1>8, <1>9, <1>10

\* A draft that passed its checks is written under the next number.
LEMMA WritesOK ==
    ASSUME WriterInv, NEW p \in Procs, Boundary(p) \/ Sequence(p) \/ AppendLine(p)
    PROVE  CallOK(p)'
<1>1. /\ pc \in [Procs -> PCs] /\ calls \in [Procs -> Nat] /\ CallOK(p) /\ CacheOK
      /\ size \in [Procs -> Nat] /\ seq \in [Procs -> Nat] /\ event \in [Procs -> Chunks]
      /\ TextGrows(p) /\ Stream \in Streams /\ InOrder(Stream)
      /\ text \in Seq(Chunks)
  BY StepGrows, ReadStream DEF WriterInv, AloneInv, LockTypeOK, LocalsOK, Quiet, Stream, Readable
<1>2. UNCHANGED <<calls, draft>>
  BY DEF Boundary, Sequence, AppendLine, Fail, Step, locals
<1>3. /\ Token(p)' = Token(p) /\ EventId(p)' = EventId(p) /\ (Stable(p)' <=> Stable(p))
  BY <1>2 DEF Token, EventId, Stable
<1>4. CASE Boundary(p)
  <2>1. /\ pc[p] = "boundary" /\ pc'[p] = "sequence" /\ UNCHANGED event
    BY <1>1, <1>4 DEF Boundary, Step, Goto
  <2>2. /\ Fed(text').line = << >> /\ size'[p] = Len(text')
        /\ Stream'.events = Stream.events
    BY <1>4, BoundaryWrite DEF Keeps
  <2>3. Known(Stream', EventId(p)) <=> Known(Stream, EventId(p))
    BY <2>2 DEF Known
  <2> QED
    BY <1>1, <1>2, <1>3, <2>1, <2>2, <2>3 DEF CallOK, Begins, Judged
<1>5. CASE Sequence(p) /\ Fits(p)
  <2>1. /\ pc[p] = "sequence" /\ pc'[p] = "append" /\ UNCHANGED <<size, event, text>>
        /\ seq'[p] = (IF CacheMatches(p) THEN cache.seq
                      ELSE IF size[p] = 0 THEN 0 ELSE Stream.lastSeq) + 1
    BY <1>1, <1>5 DEF Sequence, Step, Goto, Stream
  <2>2. Stream' = Stream
    BY <2>1 DEF Stream
  <2>3. size[p] = Len(text) /\ Stream.lastSeq = Len(Stream.events)
    BY <1>1, <2>1 DEF CallOK, InOrder, Judged
  <2>4. seq'[p] = Len(Stream.events) + 1
    <3>1. CASE CacheMatches(p)
      BY <1>1, <2>1, <2>3, <3>1 DEF CacheMatches, CacheOK
    <3>2. CASE ~CacheMatches(p) /\ size[p] = 0
      <4>1. text = << >>
        <5>1. Len(text) = 0 /\ text \in Seq(Chunks)
          BY <1>1, <2>3, <3>2
        <5> QED
          BY <5>1
      <4>2. Stream.events = << >>
        BY <4>1, NothingWritten DEF Stream
      <4> QED
        BY <2>1, <3>2, <4>2
    <3>3. CASE ~CacheMatches(p) /\ size[p] # 0
      BY <2>1, <2>3, <3>3
    <3> QED
      BY <3>1, <3>2, <3>3
  <2> QED
    BY <1>1, <1>2, <1>3, <2>1, <2>2, <2>4 DEF CallOK, Begins, Judged
<1>6. CASE Sequence(p) /\ ~Fits(p)
  <2>1. pc'[p] = "release" /\ event'[p] = NoEvent
    BY <1>1, <1>6 DEF Sequence, Fail, Goto
  <2> QED
    BY <1>1, <2>1, EndsOK
<1>7. CASE AppendLine(p)
  <2>1. /\ pc[p] = "append" /\ pc'[p] = "state" /\ UNCHANGED <<seq, event>>
        /\ size'[p] = Len(text')
    BY <1>1, <1>7 DEF AppendLine, Step, Goto
  <2>2. Fed(text').line = << >> /\ Stream'.events = Append(Stream.events, Made(p))
    BY <1>7, WholeWrite DEF Adds
  <2>3. Made(p)' = Made(p)
    BY <1>2, <1>3, <2>1 DEF Made
  <2>4. Made(p) \in LogEvents /\ Stream.events \in Seq(LogEvents) /\ seq[p] = Len(Stream.events) + 1
    BY <1>1, <2>1, MadeFollows DEF Streams, CallOK
  <2>5. Made(p) \in ToSet(Stream'.events) /\ ToSet(Stream.events) \subseteq ToSet(Stream'.events)
    BY <2>2, <2>4, SetGrows
  <2>6. Len(Stream'.events) = seq[p]
    BY <2>2, <2>4
  <2> QED
    BY <1>1, <2>1, <2>2, <2>3, <2>5, <2>6 DEF CallOK, Begins, Judged
<1> QED
  BY <1>4, <1>5, <1>6, <1>7

\* The event a call returns was found or written by it.
LEMMA ReturnsOK ==
    ASSUME WriterInv, NEW p \in Procs,
           \/ LockTimeout(p) \/ WriteState(p) \/ Release(p) \/ Unlink(p) \/ CallFails(p) \/ Crash(p)
    PROVE  CallOK(p)'
<1>1. /\ pc \in [Procs -> PCs] /\ event \in [Procs -> Chunks] /\ CallOK(p)
      /\ TextGrows(p)
  BY StepGrows DEF WriterInv, AloneInv, LockTypeOK, LocalsOK, Quiet, Touches, CallFails
<1>2. CASE LockTimeout(p) \/ TokenFails(p) \/ AcquireFails(p) \/ ReleaseFails(p)
  <2>1. pc'[p] = "idle" /\ event'[p] = NoEvent
    BY <1>1, <1>2 DEF LockTimeout, TokenFails, AcquireFails, ReleaseFails, Throw, Goto
  <2> QED
    BY <1>1, <2>1, EndsOK
<1>3. CASE ReadFails(p) \/ BoundaryFails(p) \/ AppendFails(p) \/ StateFails(p)
  <2>1. pc'[p] = "release" /\ event'[p] = NoEvent
    BY <1>1, <1>3 DEF ReadFails, BoundaryFails, AppendFails, StateFails, Fail, Goto
  <2> QED
    BY <1>1, <2>1, EndsOK
<1>4. CASE WriteState(p)
  <2>1. /\ pc[p] = "state" /\ pc'[p] = "release" /\ event'[p] = Made(p) /\ text' = text
    BY <1>1, <1>4 DEF WriteState, Step, Goto
  <2>2. event'[p] \in ToSet(Stream'.events)
    BY <1>1, <2>1, EventsGrow DEF CallOK
  <2> QED
    BY <1>1, <2>1, <2>2, EndsOK
<1>5. CASE Release(p) \/ Unlink(p)
  <2>1. pc'[p] \in {"idle", "unlink"} /\ event'[p] \in {NoEvent, event[p]}
    BY <1>1, <1>5 DEF Release, Unlink, Return, Throw, Goto
  <2> QED
    BY <1>1, <2>1, EndsOK
<1>6. CASE Crash(p)
  <2>1. pc'[p] = "dead" /\ event'[p] = event[p]
    BY <1>1, <1>6 DEF Crash, Goto
  <2> QED
    BY <1>1, <2>1, EndsOK
<1> QED
  BY <1>2, <1>3, <1>4, <1>5, <1>6 DEF CallFails

-----------------------------------------------------------------------------
(* The log, whatever is interrupted *)

\* The cache is written with the number of the last event.
LEMMA CacheWritten ==
    ASSUME WriterInv, NEW p \in Procs, WriteState(p)
    PROVE  CacheOK'
<1>1. /\ pc[p] = "state" /\ text' = text /\ cache' = [seq |-> seq[p], size |-> size[p]]
      /\ seq[p] \in Nat /\ size[p] \in Nat
  BY DEF WriteState, NextCache, WriterInv, LocalsOK
<1>2. size[p] = Len(text) /\ seq[p] = Len(Stream.events)
  BY <1>1 DEF WriterInv, CallOK
<1> QED
  BY <1>1, <1>2 DEF CacheOK, Stream

\* What was returned was found in the log, and stays there.
LEMMA NextAcked ==
    ASSUME WriterInv, NEW p \in Procs, Quiet(p) \/ Touches(p)
    PROVE  acked' \subseteq ToSet(Stream'.events)
<1>1. acked' \subseteq acked \cup ({event[p]} \ {NoEvent})
  BY DEF Quiet, Touches, Call, LockTimeout, AcquireFails, TokenFails, Inspect, Stat, ReadFails,
         Existing, Validate, Boundary, BoundaryFails, Sequence, AppendLine, AppendFails, WriteState,
         StateFails, Release, ReleaseFails, Crash, CreateLock, WriteToken, BreakLock, Unlink, Throw,
         Return, Fail, Step
<1>2. acked \cup ({event[p]} \ {NoEvent}) \subseteq ToSet(Stream.events)
  BY DEF WriterInv, CallOK
<1> QED
  BY <1>1, <1>2, StepGrows, EventsGrow

\* Calls are counted one by one.
LEMMA CallsCounted ==
    ASSUME LockTypeOK, NEW p \in Procs, Quiet(p) \/ Touches(p)
    PROVE  \A q \in Procs : calls'[q] \in calls[q]..(calls[q] + 1)
<1>1. calls \in [Procs -> Nat]
  BY DEF LockTypeOK
<1>2. calls' = calls \/ calls' = [calls EXCEPT ![p] = @ + 1]
  <2>1. CASE Quiet(p)
    BY <2>1, QuietMoves DEF Moves
  <2>2. CASE Touches(p)
    BY <2>2 DEF Touches, CreateLock, WriteToken, TokenFails, BreakLock, Unlink, locals
  <2> QED
    BY <2>1, <2>2
<1> QED
  BY <1>1, <1>2

\* As long as the writers are alone every step keeps the log whole.
LEMMA NextWriter ==
    ASSUME WriterInv, [Next]_vars, [OnlyOrphansBroken]_vars
    PROVE  WriterInv'
<1>0. AloneInv' /\ LockTypeOK
  <2>1. CASE UNCHANGED vars
    BY <2>1 DEF WriterInv, AloneInv, LockTypeOK, vars, disk, locals, Token
  <2> QED
    BY <2>1, NextAlone DEF WriterInv, AloneInv
<1>1. ASSUME NEW p \in Procs, Quiet(p) \/ Touches(p) PROVE WriterInv'
  <2>1. TextGrows(p) /\ LocalsOK' /\ \A q \in Procs \ {p} : Untouched(q)
    BY <1>1, StepGrows, StepIsLocal
  <2>2. CallOK(p)'
    BY <1>1, BeginsOK, ChecksOK, WritesOK, ReturnsOK DEF Quiet, Touches, CallFails
  <2>3. \A q \in Procs : CallOK(q)'
    BY <2>1, <2>2, OthersOK
  <2>4. CacheOK'
    <3>1. CASE WriteState(p)
      BY <3>1, CacheWritten
    <3>2. CASE ~WriteState(p)
      <4>1. UNCHANGED cache
        BY <1>1, <3>2 DEF Quiet, Touches, Call, LockTimeout, AcquireFails, TokenFails, Inspect, Stat,
           ReadFails, Existing, Validate, Boundary, BoundaryFails, Sequence, AppendLine, AppendFails,
           StateFails, Release, ReleaseFails, Crash, CreateLock, WriteToken, BreakLock, Unlink, disk
      <4> QED
        BY <2>1, <4>1, CacheStays
    <3> QED
      BY <3>1, <3>2
  <2>5. IdsAreDrawn' /\ acked' \subseteq ToSet(Stream'.events)
    BY <1>0, <1>1, <2>1, NextIds, CallsCounted, NextAcked
  <2> QED
    BY <1>0, <2>1, <2>3, <2>4, <2>5 DEF WriterInv, TextGrows
<1>2. CASE Age \/ UNCHANGED vars
  <2>1. UNCHANGED <<text, cache, pc, calls, draft, size, seq, event, acked>>
    BY <1>2 DEF Age, vars, disk, locals
  <2>2. Stream' = Stream
    BY <2>1 DEF Stream
  <2>3. ASSUME NEW p \in Procs PROVE CallOK(p)'
    <3>1. CallOK(p)
      BY DEF WriterInv
    <3>2. Token(p)' = Token(p) /\ EventId(p)' = EventId(p) /\ (Stable(p)' <=> Stable(p))
          /\ Made(p)' = Made(p)
      BY <2>1 DEF Token, EventId, Stable, Made
    <3> QED
      BY <2>1, <2>2, <3>1, <3>2 DEF CallOK
  <2>4. LocalsOK' /\ Readable(text)' /\ CacheOK' /\ IdsAreDrawn'
    BY <2>1, <2>2 DEF WriterInv, LocalsOK, CacheOK, IdsAreDrawn
  <2> QED
    BY <1>0, <2>1, <2>2, <2>3, <2>4 DEF WriterInv
<1> QED
  BY <1>1, <1>2 DEF Next, Progress, CallFails, Quiet, Touches

\* The logs a mission may begin with.
LEMMA InitTexts ==
    ASSUME Init
    PROVE  /\ Readable(text) /\ (text = << >> \/ text = <<Started, Newline>>)
           /\ text = << >> => Stream.events = << >>
           /\ text = <<Started, Newline>> => Stream.events = <<Started>> /\ Len(text) = 2
<1>1. /\ Readable(<< >>) /\ ReplayEventLog(<< >>).events = << >> /\ Fed(<< >>).line = << >>
  BY NothingWritten DEF Readable
<1>2. /\ Started \in LogEvents /\ Started.seq = 1
  <2>1. <<"started", 0>> \in Ids
    BY DEF Ids
  <2> QED
    BY <2>1 DEF Started, EventChunk, LogEvents
<1>3. Follows(ReplayEventLog(<< >>), Started)
  BY <1>1, <1>2 DEF Follows, Known
<1>4. << >> \o <<Started, Newline>> = <<Started, Newline>>
  <2>1. Started \in Chunks /\ Newline \in Chunks
    BY <1>2, ChunkKinds
  <2> QED
    BY <2>1
<1>5. /\ Readable(<<Started, Newline>>)
      /\ ReplayEventLog(<<Started, Newline>>).events = Append(<< >>, Started)
  BY <1>1, <1>2, <1>3, <1>4, LineWritten
<1>6. Append(<< >>, Started) = <<Started>> /\ Len(<<Started, Newline>>) = 2
  BY <1>2
<1> QED
  BY <1>1, <1>5, <1>6 DEF Init, Stream

\* Nothing was asked for yet.
LEMMA InitWriter == Init => WriterInv
<1> SUFFICES ASSUME Init PROVE WriterInv
  OBVIOUS
<1>1. AloneInv
  BY InitLock
<1>2. LocalsOK
  <2>1. NoEvent \in Chunks /\ "hook" \in Drafts
    BY ChunkKinds DEF NoEvent, Drafts
  <2> QED
    BY <2>1 DEF Init, LocalsOK
<1>3. Readable(text)
  BY InitTexts
<1>4. CacheOK
  <2>1. CASE text = << >>
    <3>1. cache = NoCache
      BY <2>1 DEF Init
    <3> QED
      BY <2>1, <3>1 DEF CacheOK, NoCache
  <2>2. CASE text = <<Started, Newline>>
    <3>1. Len(text) = 2 /\ Len(Stream.events) = 1 /\ cache \in {NoCache, [seq |-> 1, size |-> 2]}
      BY <2>2, InitTexts DEF Init
    <3> QED
      BY <3>1 DEF CacheOK, NoCache
  <2> QED
    BY <2>1, <2>2, InitTexts
<1>5. IdsAreDrawn
  <2>1. \A e \in ToSet(Stream.events) : e = Started
    BY InitTexts DEF ToSet
  <2>2. \A q, n : <<"started", 0>> = <<q, n>> => n = 0
    OBVIOUS
  <2>3. Started.id = <<"started", 0>> /\ \A q \in Procs : calls[q] = 0
    BY DEF Init, Started, EventChunk
  <2> QED
    BY <2>1, <2>2, <2>3 DEF IdsAreDrawn
<1>6. \A p \in Procs : CallOK(p)
  BY DEF Init, CallOK, Begins, Judged
<1> QED
  BY <1>1, <1>2, <1>3, <1>4, <1>5, <1>6 DEF WriterInv, Init

\* A step leaves the readable log as it is, or records one event in it.
LEMMA StepRecords ==
    ASSUME WriterInv, [Next]_vars
    PROVE  [Log!Record]_(Stream.events)
<1>1. ASSUME NEW p \in Procs, Adds(p) PROVE Log!Record
  <2> DEFINE l == Stream.events
             e == Made(p)
  <2>1. /\ Stream'.events = Append(l, e) /\ l \in Seq(LogEvents) /\ e \in LogEvents
        /\ Follows(Stream, e)
    BY <1>1, MadeFollows DEF Adds, Streams
  <2>2. e.draft # "hook" => Begun(l) /\ ~Closed(l)
    BY <1>1 DEF WriterInv, CallOK, Adds, Judged, Stable, Made, EventChunk
  <2>3. /\ Len(Append(l, e)) = Len(l) + 1 /\ Append(l, e)[Len(Append(l, e))] = e
    BY <2>1
  <2>4. e.seq = Len(l) + 1 /\ ~\E i \in DOMAIN l : l[i].id = e.id
    BY <2>1 DEF Follows, Known
  <2>5. Stream'.events = Append(l, e)
    BY <2>1
  <2> HIDE DEF l, e
  <2> QED
    BY <2>2, <2>3, <2>4, <2>5 DEF Log!Record, Log!Recorded, Log!Taken, l
<1>2. ASSUME NEW p \in Procs, Quiet(p) \/ Touches(p) PROVE [Log!Record]_(Stream.events)
  BY <1>1, <1>2, StepGrows DEF TextGrows, Keeps
<1>3. CASE Age \/ UNCHANGED vars
  BY <1>3 DEF Age, vars, disk, Stream
<1> QED
  BY <1>2, <1>3 DEF Next, Progress, CallFails, Quiet, Touches

-----------------------------------------------------------------------------
(* The theorems *)

\* Whoever is in its call finds its own lock in every behaviour in which no
\* process removes a lock whose owner works under it.
LEMMA HoldersAreAlone == Spec /\ [][OnlyOrphansBroken]_vars => []AloneInv
<1>1. Init => AloneInv
  BY InitLock
<1>2. AloneInv /\ [Next]_vars /\ [OnlyOrphansBroken]_vars => AloneInv'
  <2>1. ASSUME AloneInv, UNCHANGED vars PROVE AloneInv'
    BY <2>1 DEF AloneInv, LockTypeOK, vars, disk, locals, Token
  <2> QED
    BY <2>1, NextAlone
<1> QED
  BY <1>1, <1>2, PTL DEF Spec

\* The lock keeps any number of writers apart in every behaviour in which no
\* process removes a lock whose owner works under it.
THEOREM WritersAreAlone == Spec /\ [][OnlyOrphansBroken]_vars => []WriterIsAlone
BY HoldersAreAlone, AloneUnderLock, PTL

\* A process that read its own token in the lock file removes its own lock:
\* releaseLock's two steps are as good as one in those behaviours.
THEOREM ReleasesTakeOwnLocks == Spec /\ [][OnlyOrphansBroken]_vars => []OwnLockReleased
<1>1. ASSUME AloneInv PROVE OwnLockReleased
  <2> SUFFICES ASSUME NEW p \in Procs, pc[p] = "unlink", NEW l \in lock PROVE l.token = Token(p)
    BY DEF OwnLockReleased
  <2>1. PICK k \in lock : k.token = Token(p)
    BY <1>1 DEF AloneInv, Holding
  <2> QED
    BY <1>1, <2>1 DEF AloneInv, LockTypeOK
<1> QED
  BY <1>1, HoldersAreAlone, PTL

\* While no lock file gets older than lockStaleMs none is ever broken.
LEMMA OnlyOrphansBrokenWhileFresh ==
    ASSUME LocksAge = "never"
    PROVE  Spec => [][OnlyOrphansBroken]_vars
<1>1. Init => LockTypeOK /\ NeverBroken
  BY InitLock DEF AloneInv, Init, NeverBroken
<1>2. LockTypeOK /\ NeverBroken /\ [Next]_vars => (LockTypeOK /\ NeverBroken)'
  BY NextLockType, NextNeverBroken
<1>3. NeverBroken => OnlyOrphansBroken
  BY DEF NeverBroken, OnlyOrphansBroken, BreakLock
<1> QED
  BY <1>1, <1>2, <1>3, PTL DEF Spec

\* The lock keeps the writers apart while no lock file gets older than
\* lockStaleMs.
THEOREM WritersAreAloneWhileLocksAreFresh ==
    ASSUME LocksAge = "never"
    PROVE  Spec => []WriterIsAlone
BY OnlyOrphansBrokenWhileFresh, WritersAreAlone, PTL

\* As long as only orphaned locks are broken the log's invariant stands.
LEMMA WriterInvariant == Spec /\ [][OnlyOrphansBroken]_vars => []WriterInv
BY InitWriter, NextWriter, PTL DEF Spec

\* Torn lines, retries, stale caches and dead writers notwithstanding, what a
\* reader finds in events.jsonl grows by one event at a time, in sequence and
\* each id once, and a validated event joins the very log it was judged by
\* (writeSequencedEventInternal implements MissionLog).
THEOREM WritersKeepOneLog == Spec /\ [][OnlyOrphansBroken]_vars => LogSpec
<1>1. Init => Stream.events \in {<< >>, <<Started>>}
  BY InitTexts
<1>2. WriterInv /\ [Next]_vars => [Log!Record]_(Stream.events)
  BY StepRecords
<1> QED
  BY <1>1, <1>2, WriterInvariant, PTL DEF Spec, LogSpec, Log!Spec

\* Every event that was written is one a reader finds, and every event a call
\* returned is there, whatever was interrupted in between (ensureLineBoundary,
\* appendLine, existingIdempotentEvent).
THEOREM EventsAreReadable == Spec /\ [][OnlyOrphansBroken]_vars => []EventsReadable
<1>1. WriterInv => EventsReadable
  BY DEF WriterInv, Readable, EventsReadable, Stream
<1> QED
  BY <1>1, WriterInvariant, PTL

\* No sequence number is written twice as long as only orphaned locks are
\* broken; WriterStale shows what a lock broken in use does to it.
THEOREM SequencesAreDistinct == Spec /\ [][OnlyOrphansBroken]_vars => []NoSequenceDuplicated
<1>1. ASSUME WriterInv PROVE NoSequenceDuplicated
  <2>1. /\ InOrder(Stream) /\ Stream.events \in Seq(LogEvents)
        /\ WrittenEvents(text) = ToSet(Stream.events)
    BY <1>1, ReadStream DEF WriterInv, Readable, Stream, Streams
  <2> QED
    BY <2>1 DEF InOrder, ToSet, NoSequenceDuplicated
<1> QED
  BY <1>1, WriterInvariant, PTL

\* In particular while no lock file gets older than lockStaleMs.
THEOREM OneReadableLogWhileLocksAreFresh ==
    ASSUME LocksAge = "never"
    PROVE  Spec => LogSpec /\ []EventsReadable
BY OnlyOrphansBrokenWhileFresh, WritersKeepOneLog, EventsAreReadable, PTL

==============================================================================
