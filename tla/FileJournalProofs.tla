-------------------------- MODULE FileJournalProofs --------------------------
(***************************************************************************)
(* Theorems about FileJournal, for any number of processes and any record  *)
(* limit: what a process holds is a prefix of the journal, an acknowledged *)
(* append survives every loss of power, and the directory implements the   *)
(* log of AppendLog.                                                       *)
(***************************************************************************)
EXTENDS FileJournal, FiniteSetTheorems, TLAPS

-----------------------------------------------------------------------------
(* The inductive invariant *)

Appending == {"directory", "expected", "link", "sync"}
Reading == {"listing", "records"}

\* A sync covers what is linked and nothing else, so what is durable is there.
DurableIsLinked == durable \subseteq DOMAIN linked

\* A listing returns at least what the process holds and what was linked when
\* it began, and at most what is linked when it ends.
SeenIsLinked(p) ==
    pc[p] \in Reading =>
        /\ seen[p] \subseteq DOMAIN linked
        /\ DOMAIN held[p] \subseteq seen[p]
        /\ pc[p] = "records" => Dense(seen[p])

\* The name a process is about to sync is the one it linked.
ClaimStands(p) ==
    /\ pc[p] \in Appending => HasRoom(p)
    /\ pc[p] = "sync" => Target(p) \in DOMAIN linked /\ linked[Target(p)] = p

JournalInv ==
    /\ TypeOK
    /\ HeldIsPrefix
    /\ GrantedPrefixDurable
    /\ DurableIsLinked
    /\ \A p \in Procs : SeenIsLinked(p) /\ ClaimStands(p)

-----------------------------------------------------------------------------
(* Listings *)

\* A set of revisions is finite.
LEMMA RevisionsFinite ==
    ASSUME NEW S \in SUBSET Revisions
    PROVE  IsFiniteSet(S) /\ Cardinality(S) \in Nat
<1>1. IsFiniteSet(Revisions)
  BY FS_Interval, MaxRecordsAssumption DEF Revisions
<1>2. IsFiniteSet(S)
  BY <1>1, FS_Subset
<1> QED
  BY <1>2, FS_CardinalityType

\* A dense listing is sorted as 1, 2, ..., n.
LEMMA SortedDense ==
    ASSUME NEW S \in SUBSET Revisions, Dense(S)
    PROVE  Sorted(S) = [i \in 1..Cardinality(S) |-> i]
<1> DEFINE n == Cardinality(S)
<1>1. n \in Nat /\ S = 1..n
  BY RevisionsFinite DEF Dense
<1>2. ASSUME NEW r \in 1..n
      PROVE  Cardinality({q \in S : q <= r}) = r
  <2>1. {q \in S : q <= r} = 1..r
    BY <1>1
  <2>2. Cardinality(1..r) = r
    BY <1>1, FS_Interval, 1 \in Int, r \in Int
  <2> QED
    BY <2>1, <2>2
<1>3. ASSUME NEW i \in 1..n
      PROVE  (CHOOSE r \in S : Cardinality({q \in S : q <= r}) = i) = i
  <2>1. i \in S /\ \A r \in S : Cardinality({q \in S : q <= r}) = i <=> r = i
    BY <1>1, <1>2
  <2> QED
    BY <2>1
<1> QED
  BY <1>3 DEF Sorted

\* What the typing invariant says of the sequences a process holds.
LEMMA HeldType ==
    ASSUME TypeOK, NEW p \in Procs
    PROVE  /\ held[p] \in Seq(Procs) /\ Len(held[p]) \in 0..MaxRecords
           /\ DOMAIN held[p] = 1..Len(held[p])
           /\ Target(p) \in Nat \ {0}
<1>1. held[p] \in Seq(Procs)
  BY DEF TypeOK
<1>2. Len(held[p]) \in Nat /\ DOMAIN held[p] = 1..Len(held[p]) /\ Len(held[p]) <= MaxRecords
  BY <1>1 DEF TypeOK
<1> QED
  BY <1>1, <1>2, MaxRecordsAssumption DEF Target

-----------------------------------------------------------------------------
(* The initial states, and one lemma per kind of step *)

\* The empty journal.
LEMMA InitInv == Init => JournalInv
<1> SUFFICES ASSUME Init PROVE JournalInv
  OBVIOUS
<1>1. DOMAIN linked = {} /\ \A p \in Procs : held[p] = << >> /\ DOMAIN held[p] = {}
  BY DEF Init
<1>2. held \in [Procs -> Seq(Procs)] /\ \A p \in Procs : Len(held[p]) <= MaxRecords
  BY MaxRecordsAssumption DEF Init
<1>3. TypeOK
  BY <1>1, <1>2 DEF Init, TypeOK, PCs, Answers
<1> QED
  BY <1>1, <1>3 DEF Init, JournalInv, HeldIsPrefix, GrantedPrefixDurable, DurableIsLinked,
              SeenIsLinked, ClaimStands, Reading, Appending

\* The steps that touch neither files nor what anybody holds.
LEMMA LocalStep ==
    ASSUME JournalInv, NEW p \in Procs,
           BeginRead(p) \/ EndListing(p) \/ ReadFails(p) \/ BeginAppend(p) \/ MakeDirectory(p)
           \/ CheckExpected(p) \/ LinkRefused(p) \/ AppendFails(p) \/ SyncFails(p)
    PROVE  JournalInv'
<1> USE DEF Goto, Reply, Forgotten, files
<1> USE DEF JournalInv, TypeOK
<1>1. UNCHANGED <<linked, durable, held, granted>>
  BY DEF BeginRead, EndListing, ReadFails, BeginAppend, MakeDirectory, CheckExpected,
         LinkRefused, AppendFails, SyncFails
<1>2. /\ directory' \in BOOLEAN
      /\ pc' \in [Procs -> PCs] /\ answer' \in [Procs -> Answers]
      /\ \A q \in Procs \ {p} : pc'[q] = pc[q] /\ seen'[q] = seen[q]
  BY DEF BeginRead, EndListing, ReadFails, BeginAppend, MakeDirectory, CheckExpected,
         LinkRefused, AppendFails, SyncFails, PCs, Answers
<1>3. seen' \in [Procs -> SUBSET Revisions]
  BY DEF BeginRead, EndListing, ReadFails, BeginAppend, MakeDirectory, CheckExpected,
         LinkRefused, AppendFails, SyncFails
<1>4. SeenIsLinked(p)'
  <2> USE <1>1 DEF SeenIsLinked, Reading
  <2>1. CASE BeginRead(p)
    BY <2>1 DEF BeginRead, HeldIsPrefix
  <2>2. CASE EndListing(p)
    BY <2>2 DEF EndListing
  <2> QED
    BY <2>1, <2>2 DEF ReadFails, BeginAppend, MakeDirectory, CheckExpected, LinkRefused,
                      AppendFails, SyncFails
<1>5. ClaimStands(p)'
  BY <1>1 DEF ClaimStands, HasRoom, Target, Appending, BeginRead, EndListing, ReadFails,
              BeginAppend, MakeDirectory, CheckExpected, LinkRefused, AppendFails, SyncFails
<1>6. TypeOK'
  BY <1>1, <1>2, <1>3
<1>7. HeldIsPrefix' /\ GrantedPrefixDurable' /\ DurableIsLinked'
  BY <1>1 DEF HeldIsPrefix, GrantedPrefixDurable, DurableIsLinked
<1>8. ASSUME NEW q \in Procs \ {p} PROVE SeenIsLinked(q)' /\ ClaimStands(q)'
  BY <1>1, <1>2, SeenIsLinked(q), ClaimStands(q) DEF SeenIsLinked, ClaimStands, HasRoom, Target
<1> QED
  BY <1>4, <1>5, <1>6, <1>7, <1>8

\* The records of a listing are a prefix that reaches at least as far as the
\* one the process held.
LEMMA RecordsRead ==
    ASSUME JournalInv, NEW p \in Procs, ReadRecords(p)
    PROVE  LET n == Cardinality(seen[p])
           IN  /\ n \in Len(held[p])..MaxRecords
               /\ seen[p] = 1..n /\ 1..n \subseteq DOMAIN linked
               /\ held' = [held EXCEPT ![p] = [r \in 1..n |-> linked[r]]]
<1> DEFINE n == Cardinality(seen[p])
<1>1. seen[p] \in SUBSET Revisions /\ seen[p] \subseteq DOMAIN linked
      /\ DOMAIN held[p] \subseteq seen[p] /\ Dense(seen[p])
  BY DEF ReadRecords, JournalInv, TypeOK, SeenIsLinked, Reading
<1>2. n \in Nat /\ seen[p] = 1..n /\ n <= MaxRecords
  BY <1>1, RevisionsFinite DEF Dense
<1>3. Len(held[p]) <= n /\ Len(held[p]) \in Nat
  <2>1. Len(held[p]) \in Nat /\ 1..Len(held[p]) \subseteq 1..n
    <3>1. TypeOK
      BY DEF JournalInv
    <3>2. DOMAIN held[p] = 1..Len(held[p]) /\ Len(held[p]) \in Nat
      BY <3>1, HeldType
    <3> QED
      BY <1>1, <1>2, <3>2
  <2> HIDE DEF n
  <2> QED
    BY <1>2, <2>1
<1>4. Sorted(seen[p]) = [i \in 1..n |-> i]
  BY <1>1, SortedDense
<1>5. [i \in DOMAIN Sorted(seen[p]) |-> linked[Sorted(seen[p])[i]]] = [r \in 1..n |-> linked[r]]
  BY <1>4
<1>6. held' = [held EXCEPT ![p] =
                  [i \in DOMAIN Sorted(seen[p]) |-> linked[Sorted(seen[p])[i]]]]
  BY Zenon DEF ReadRecords
<1>7. held' = [held EXCEPT ![p] = [r \in 1..n |-> linked[r]]]
  BY <1>5, <1>6
<1> HIDE DEF n
<1>8. n \in Len(held[p])..MaxRecords
  BY <1>2, <1>3, MaxRecordsAssumption
<1>9. seen[p] = 1..n /\ 1..n \subseteq DOMAIN linked
  BY <1>1, <1>2
<1> QED
  BY <1>7, <1>8, <1>9 DEF n

\* Reading the records of a dense listing: what is held is what is linked.
LEMMA ReadRecordsStep ==
    ASSUME JournalInv, NEW p \in Procs, ReadRecords(p)
    PROVE  JournalInv'
<1> DEFINE n == Cardinality(seen[p])
<1> USE DEF JournalInv, TypeOK
<1>1. /\ n \in 0..MaxRecords /\ 1..n \subseteq DOMAIN linked
      /\ held' = [held EXCEPT ![p] = [r \in 1..n |-> linked[r]]]
  BY RecordsRead, HeldType
<1>2. /\ UNCHANGED <<directory, linked, durable, granted>>
      /\ pc' = [pc EXCEPT ![p] = "idle"]
      /\ seen' = [seen EXCEPT ![p] = {}] /\ answer' = [answer EXCEPT ![p] = "records"]
  BY DEF ReadRecords, Reply, Goto, Forgotten, files
<1>3. [r \in 1..n |-> linked[r]] \in Seq(Procs) /\ Len([r \in 1..n |-> linked[r]]) = n
  <2>1. n \in Nat /\ \A r \in 1..n : linked[r] \in Procs
    BY <1>1, SMTT(20)
  <2> HIDE DEF n
  <2>2. [r \in 1..n |-> linked[r]] \in [1..n -> Procs]
    BY <2>1
  <2> QED
    BY <2>1, <2>2
<1>4. held'[p] = [r \in 1..n |-> linked[r]] /\ \A q \in Procs \ {p} : held'[q] = held[q]
  BY <1>1
<1>5. TypeOK'
  BY <1>1, <1>2, <1>3 DEF PCs, Answers
<1>6. HeldIsPrefix' /\ GrantedPrefixDurable' /\ DurableIsLinked'
  BY <1>1, <1>2, <1>4 DEF HeldIsPrefix, GrantedPrefixDurable, DurableIsLinked
<1>7. ASSUME NEW q \in Procs PROVE SeenIsLinked(q)' /\ ClaimStands(q)'
  BY <1>2, <1>4, SeenIsLinked(q), ClaimStands(q)
     DEF SeenIsLinked, ClaimStands, HasRoom, Target, Reading, Appending
<1> QED
  BY <1>5, <1>6, <1>7

\* A link adds the one name nobody had; whoever holds or has seen a revision
\* still finds it.
LEMMA LinkStep ==
    ASSUME JournalInv, NEW p \in Procs, Link(p)
    PROVE  JournalInv'
<1> USE DEF JournalInv, TypeOK
<1>1. /\ UNCHANGED <<directory, durable, held, seen, answer, granted>>
      /\ pc' = [pc EXCEPT ![p] = "sync"] /\ pc[p] = "link"
      /\ Target(p) \notin DOMAIN linked
      /\ DOMAIN linked' = DOMAIN linked \cup {Target(p)}
      /\ linked'[Target(p)] = p
      /\ \A r \in DOMAIN linked : linked'[r] = linked[r]
  BY DEF Link, Goto
<1>2. Target(p) \in Revisions
  BY <1>1, HeldType, MaxRecordsAssumption, ClaimStands(p)
     DEF ClaimStands, Appending, HasRoom, Target, Revisions
<1>3. TypeOK'
  BY <1>1, <1>2 DEF PCs
<1>4. HeldIsPrefix' /\ GrantedPrefixDurable' /\ DurableIsLinked'
  BY <1>1 DEF HeldIsPrefix, GrantedPrefixDurable, DurableIsLinked
<1>5. ASSUME NEW q \in Procs PROVE SeenIsLinked(q)' /\ ClaimStands(q)'
  BY <1>1, SeenIsLinked(q), ClaimStands(q)
     DEF SeenIsLinked, ClaimStands, HasRoom, Target, Reading, Appending
<1> QED
  BY <1>3, <1>4, <1>5

\* A sync makes the whole prefix durable: what its process holds is linked.
LEMMA SyncStep ==
    ASSUME JournalInv, NEW p \in Procs, Sync(p)
    PROVE  JournalInv'
<1> USE DEF JournalInv, TypeOK
<1>1. /\ UNCHANGED <<directory, linked, seen>> /\ pc[p] = "sync"
      /\ durable' = DOMAIN linked
      /\ held' = [held EXCEPT ![p] = Append(@, p)]
      /\ granted' = granted \cup {<<p, Target(p)>>}
      /\ pc' = [pc EXCEPT ![p] = "idle"] /\ answer' = [answer EXCEPT ![p] = "appended"]
  BY DEF Sync, SyncCovers, Reply, Goto
<1>2. /\ Target(p) \in DOMAIN linked /\ linked[Target(p)] = p
      /\ Len(held[p]) < MaxRecords
      /\ DOMAIN held[p] = 1..Len(held[p]) /\ Len(held[p]) \in Nat /\ held[p] \in Seq(Procs)
  BY <1>1, HeldType, ClaimStands(p) DEF ClaimStands, Appending, HasRoom
<1>3. /\ held'[p] \in Seq(Procs) /\ Len(held'[p]) = Target(p)
      /\ DOMAIN held'[p] = 1..Target(p)
      /\ \A r \in DOMAIN held[p] : held'[p][r] = held[p][r]
      /\ held'[p][Target(p)] = p
      /\ \A q \in Procs \ {p} : held'[q] = held[q]
  BY <1>1, <1>2 DEF Target
<1>4. Target(p) \in Revisions /\ Target(p) = Len(held[p]) + 1
  BY <1>2 DEF Target
<1>5. TypeOK'
  <2>1. held' \in [Procs -> Seq(Procs)] /\ \A q \in Procs : Len(held'[q]) <= MaxRecords
    BY <1>1, <1>2, <1>3, <1>4, MaxRecordsAssumption
  <2> QED
    BY <1>1, <1>4, <2>1 DEF PCs, Answers
<1>6. HeldIsPrefix'
  BY <1>1, <1>2, <1>3, <1>4 DEF HeldIsPrefix
<1>7. GrantedPrefixDurable'
  <2>1. 1..Target(p) \subseteq DOMAIN linked
    BY <1>2, <1>4 DEF HeldIsPrefix
  <2> QED
    BY <1>1, <2>1 DEF GrantedPrefixDurable, DurableIsLinked
<1>8. DurableIsLinked'
  BY <1>1 DEF DurableIsLinked
<1>9. ASSUME NEW q \in Procs PROVE SeenIsLinked(q)' /\ ClaimStands(q)'
  BY <1>1, <1>3, SeenIsLinked(q), ClaimStands(q)
     DEF SeenIsLinked, ClaimStands, HasRoom, Target, Reading, Appending
<1> QED
  BY <1>5, <1>6, <1>7, <1>8, <1>9

\* A process that dies forgets what it held; a loss of power ends all of them
\* and takes back nothing durable.
LEMMA FaultStep ==
    ASSUME JournalInv, (\E p \in Procs : Crash(p)) \/ PowerLoss
    PROVE  JournalInv'
<1> USE DEF JournalInv, TypeOK, Goto, files, HeldIsPrefix, GrantedPrefixDurable, DurableIsLinked
<1>1. ASSUME NEW p \in Procs, Crash(p) PROVE JournalInv'
  <2>1. /\ UNCHANGED <<directory, linked, durable, granted>>
        /\ pc' = [pc EXCEPT ![p] = "idle"] /\ held' = [held EXCEPT ![p] = << >>]
        /\ seen' = [seen EXCEPT ![p] = {}] /\ answer' = [answer EXCEPT ![p] = "none"]
    BY <1>1 DEF Crash
  <2>2. << >> \in Seq(Procs) /\ Len(<< >>) = 0 /\ DOMAIN << >> = {}
    OBVIOUS
  <2>3. TypeOK'
    BY <2>1, <2>2, MaxRecordsAssumption DEF PCs, Answers
  <2>4. HeldIsPrefix' /\ GrantedPrefixDurable' /\ DurableIsLinked'
    BY <2>1, <2>2
  <2>5. ASSUME NEW q \in Procs PROVE SeenIsLinked(q)' /\ ClaimStands(q)'
    BY <2>1, SeenIsLinked(q), ClaimStands(q)
       DEF SeenIsLinked, ClaimStands, HasRoom, Target, Reading, Appending
  <2> QED
    BY <2>3, <2>4, <2>5
<1>2. CASE PowerLoss
  <2>1. /\ UNCHANGED <<directory, durable, granted>>
        /\ durable \subseteq DOMAIN linked' /\ DOMAIN linked' \subseteq DOMAIN linked
        /\ \A r \in DOMAIN linked' : linked'[r] = linked[r]
        /\ pc' = [q \in Procs |-> "idle"] /\ held' = [q \in Procs |-> << >>]
        /\ seen' = [q \in Procs |-> {}] /\ answer' = [q \in Procs |-> "none"]
    BY <1>2 DEF PowerLoss, Restrict
  <2>2. << >> \in Seq(Procs) /\ Len(<< >>) = 0 /\ DOMAIN << >> = {}
    OBVIOUS
  <2>3. TypeOK'
    BY <2>1, <2>2, MaxRecordsAssumption DEF PCs, Answers
  <2> QED
    BY <2>1, <2>2, <2>3 DEF SeenIsLinked, ClaimStands, Reading, Appending
<1> QED
  BY <1>1, <1>2

-----------------------------------------------------------------------------
(* The theorems *)

\* Every step, of every process or of the host, preserves the invariant.
LEMMA NextInv == JournalInv /\ [Next]_vars => JournalInv'
<1> SUFFICES ASSUME JournalInv, [Next]_vars PROVE JournalInv'
  OBVIOUS
<1>1. CASE \E p \in Procs : Crash(p)
  BY <1>1, FaultStep
<1>2. CASE PowerLoss
  BY <1>2, FaultStep
<1>3. CASE \E p \in Procs : ReadRecords(p) \/ Link(p) \/ Sync(p)
  BY <1>3, ReadRecordsStep, LinkStep, SyncStep
<1>4. CASE UNCHANGED vars
  BY <1>4 DEF vars, files, JournalInv, TypeOK, HeldIsPrefix, GrantedPrefixDurable,
              DurableIsLinked, SeenIsLinked, ClaimStands, HasRoom, Target
<1> QED
  BY <1>1, <1>2, <1>3, <1>4, LocalStep DEF Next

\* The inductive invariant holds in every reachable state.
THEOREM JournalInvariant == Spec => []JournalInv
<1> QED
  BY InitInv, NextInv, PTL DEF Spec

\* A process never acts on records that are not a prefix of the journal, for
\* any interleaving of listings, links and losses of power (listRevisions).
THEOREM HeldRecordsArePrefix == Spec => []HeldIsPrefix
<1>1. JournalInv => HeldIsPrefix
  BY DEF JournalInv
<1> QED
  BY <1>1, JournalInvariant, PTL

\* An append that was answered "appended" is readable after every loss of
\* power, with all the revisions before it (append, syncDirectory).
THEOREM AcknowledgedSurvives == Spec => []GrantedPrefixDurable
<1>1. JournalInv => GrantedPrefixDurable
  BY DEF JournalInv
<1> QED
  BY <1>1, JournalInvariant, PTL

-----------------------------------------------------------------------------
(* The directory implements the log of AppendLog *)

logVars == <<linked, durable, held>>

\* A completed read is a read of the log: it returns a prefix at least as long
\* as the one the process held.
LEMMA ReadIsRead ==
    ASSUME JournalInv, NEW p \in Procs, ReadRecords(p)
    PROVE  Journal!Read(p)
<1> DEFINE n == Cardinality(seen[p])
<1>1. /\ n \in Len(held[p])..MaxRecords
      /\ seen[p] = 1..n /\ 1..n \subseteq DOMAIN linked
      /\ held' = [held EXCEPT ![p] = [r \in 1..n |-> linked[r]]]
  BY RecordsRead
<1>2. n <= Cardinality(DOMAIN linked) /\ Cardinality(DOMAIN linked) \in Nat
  <2>1. DOMAIN linked \in SUBSET Revisions
    BY DEF JournalInv, TypeOK
  <2>2. IsFiniteSet(DOMAIN linked) /\ Cardinality(DOMAIN linked) \in Nat
    BY <2>1, RevisionsFinite
  <2>3. seen[p] \subseteq DOMAIN linked
    BY <1>1
  <2>4. Cardinality(seen[p]) <= Cardinality(DOMAIN linked)
    BY <2>2, <2>3, FS_Subset
  <2> QED
    BY <2>2, <2>4
<1>3. Len(held[p]) \in Nat
  BY HeldType DEF JournalInv
<1>4. UNCHANGED <<linked, durable>>
  BY DEF ReadRecords, files
<1> HIDE DEF n
<1>5. n \in Len(held[p])..Cardinality(DOMAIN linked)
  BY <1>1, <1>2, <1>3, MaxRecordsAssumption
<1>6. Journal!Cardinality(DOMAIN linked) = Cardinality(DOMAIN linked)
  BY Zenon DEF Cardinality, Journal!Cardinality, IsFiniteSet, Journal!IsFiniteSet
<1> QED
  BY <1>1, <1>4, <1>5, <1>6 DEF Journal!Read

\* link claims the revision after the prefix its process holds, and a completed
\* sync acknowledges a claim that still stands.
LEMMA LinkIsClaim ==
    ASSUME NEW p \in Procs, Link(p)
    PROVE  Journal!Claim(p)
<1> QED
  BY DEF Link, Journal!Claim, Journal!Following, Target

\* The sync of a name is the acknowledgement of its record.
LEMMA SyncIsAcknowledge ==
    ASSUME JournalInv, NEW p \in Procs, Sync(p)
    PROVE  Journal!Acknowledge(p)
<1>1. Target(p) \in DOMAIN linked /\ linked[Target(p)] = p
  BY DEF JournalInv, ClaimStands, Sync
<1> QED
  BY <1>1 DEF Sync, SyncCovers, Target, Journal!Acknowledge, Journal!Following

\* Every step of the journal is one of the log, or leaves it as it is.
LEMMA StepRefines ==
    ASSUME JournalInv, [Next]_vars
    PROVE  [Journal!Next]_logVars
<1>1. CASE \E p \in Procs : ReadRecords(p) \/ Link(p) \/ Sync(p)
  BY <1>1, ReadIsRead, LinkIsClaim, SyncIsAcknowledge DEF Journal!Next
<1>2. CASE \E p \in Procs : Crash(p)
  BY <1>2 DEF Crash, files, Journal!Next, Journal!Forget
<1>3. CASE PowerLoss
  BY <1>3 DEF PowerLoss, Restrict, Journal!Next, Journal!Lose, Journal!Restrict
<1>4. ASSUME NEW p \in Procs,
             BeginRead(p) \/ EndListing(p) \/ ReadFails(p) \/ BeginAppend(p) \/ MakeDirectory(p)
             \/ CheckExpected(p) \/ LinkRefused(p) \/ AppendFails(p) \/ SyncFails(p)
      PROVE  UNCHANGED logVars
  BY <1>4 DEF BeginRead, EndListing, ReadFails, BeginAppend, MakeDirectory, CheckExpected,
              LinkRefused, AppendFails, SyncFails, files, logVars
<1>5. CASE UNCHANGED vars
  BY <1>5 DEF vars, files, logVars
<1> QED
  BY <1>1, <1>2, <1>3, <1>4, <1>5 DEF Next

\* The directory of a mission implements the log the runtime is written
\* against, through every interleaving, crash and loss of power
\* (runtime/journal.ts).
THEOREM ImplementsLog == Spec => JournalSpec
<1>1. Init => Journal!Init
  BY DEF Init, Journal!Init
<1>2. JournalInv /\ [Next]_vars => [Journal!Next]_<<linked, durable, held>>
  BY StepRefines DEF logVars
<1> QED
  BY <1>1, <1>2, JournalInvariant, PTL DEF Spec, JournalSpec, Journal!Spec
=============================================================================
