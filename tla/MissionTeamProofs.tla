--------------------------- MODULE MissionTeamProofs ---------------------------
(***************************************************************************)
(* Theorems about MissionTeam, for any number of dispatches, commits,      *)
(* verifications and changes of the inputs, and for reviews that may say   *)
(* anything: the writer implements once, two batches of corrections at     *)
(* most are completed of those that were asked for in time, each batch     *)
(* answers a review of the round before, and a mission that closes as      *)
(* completed was reviewed and verified.                                    *)
(***************************************************************************)
EXTENDS MissionTeam, FiniteSetTheorems, WellFoundedInduction, TLAPS

-----------------------------------------------------------------------------
(* Maxima, and the prefixes of a log *)

\* A set of numbers up to D that is not empty has a greatest element: of the
\* intervals that begin in it, one is the smallest.
LEMMA GreatestExists ==
    ASSUME NEW D \in Nat, NEW S \in SUBSET (0..D), S # {}
    PROVE  \E m \in S : \A x \in S : m >= x
<1> DEFINE Above == {x..D : x \in S}
<1>1. Above # {} /\ \A y \in Above : y \subseteq 0..D
  <2>1. Above # {}
    BY Zenon
  <2>2. \A x \in S : x..D \subseteq 0..D
    OBVIOUS
  <2> QED
    BY <2>1, <2>2, Zenon
<1>2. Above \subseteq FiniteSubsetsOf(0..D)
  <2>1. IsFiniteSet(0..D)
    BY FS_Interval
  <2>2. \A y \in Above : IsFiniteSet(y)
    BY <1>1, <2>1, FS_Subset
  <2> QED
    BY <1>1, <2>2 DEF FiniteSubsetsOf
<1>3. PICK y \in Above : \A z \in Above : <<z, y>> \notin StrictSubsetOrdering(0..D)
  <2>1. IsWellFoundedOn(StrictSubsetOrdering(0..D), FiniteSubsetsOf(0..D))
    BY FS_StrictSubsetOrderingWellFounded
  <2> HIDE DEF Above
  <2> QED
    BY <1>1, <1>2, <2>1, WFMin, Zenon
<1>4. PICK m \in S : y = m..D
  OBVIOUS
<1>5. ASSUME NEW x \in S, x > m PROVE FALSE
  <2>1. x..D \in Above /\ x..D \subseteq 0..D /\ y \subseteq 0..D
    BY <1>1
  <2>2. x..D \subseteq y /\ x..D # y
    BY <1>4, <1>5
  <2> QED
    BY <1>3, <2>1, <2>2 DEF StrictSubsetOrdering
<1> QED
  BY <1>5

\* Max is that element, and the only one.
LEMMA MaxIsGreatest ==
    ASSUME NEW D \in Nat, NEW S \in SUBSET (0..D), S # {}
    PROVE  /\ Max(S) \in S /\ \A x \in S : x <= Max(S)
           /\ \A m \in S : (\A x \in S : x <= m) => Max(S) = m
<1>1. PICK m \in S : \A x \in S : m >= x
  BY GreatestExists
<1>2. Max(S) \in S /\ \A x \in S : Max(S) >= x
  BY <1>1, Zenon DEF Max
<1>3. ASSUME NEW g \in S, \A x \in S : x <= g PROVE Max(S) = g
  <2>1. Max(S) <= g /\ Max(S) >= g
    BY <1>2, <1>3, Zenon
  <2>2. \A x \in S : x \in Int
    OBVIOUS
  <2>3. g \in Int /\ Max(S) \in Int
    BY <1>2, <2>2, Zenon
  <2> QED
    BY <2>1, <2>3
<1>4. \A x \in S : x <= Max(S)
  BY <1>2
<1> QED
  BY <1>2, <1>3, <1>4

-----------------------------------------------------------------------------
(* Logs and their prefixes *)

IsLog(l) == \E S : l \in Seq(S)

\* The shape of a log.
LEMMA LogShape ==
    ASSUME NEW l, IsLog(l)
    PROVE  Len(l) \in Nat /\ DOMAIN l = 1..Len(l)
BY DEF IsLog

\* One more event, and every prefix stays.
LEMMA Appended ==
    ASSUME NEW l, IsLog(l), NEW e
    PROVE  /\ IsLog(Append(l, e)) /\ Len(Append(l, e)) = Len(l) + 1
           /\ DOMAIN Append(l, e) = 1..(Len(l) + 1) /\ Append(l, e)[Len(l) + 1] = e
           /\ \A i \in 1..Len(l) : Append(l, e)[i] = l[i]
<1>1. PICK S : l \in Seq(S)
  BY DEF IsLog
<1>2. l \in Seq(S \cup {e}) /\ e \in S \cup {e}
  BY <1>1
<1>3. Append(l, e) \in Seq(S \cup {e})
  BY <1>2
<1> QED
  BY <1>2, <1>3 DEF IsLog

\* The shape of a prefix.
LEMMA Prefix ==
    ASSUME NEW l, IsLog(l), NEW n \in 0..Len(l)
    PROVE  /\ IsLog(SubSeq(l, 1, n)) /\ Len(SubSeq(l, 1, n)) = n
           /\ DOMAIN SubSeq(l, 1, n) = 1..n
           /\ \A i \in 1..n : SubSeq(l, 1, n)[i] = l[i]
<1>1. PICK S : l \in Seq(S)
  BY DEF IsLog
<1>2. SubSeq(l, 1, n) \in Seq(S)
  BY <1>1
<1> QED
  BY <1>1, <1>2 DEF IsLog

\* The least element of such a set is the greatest of its mirror image.
LEMMA LeastExists ==
    ASSUME NEW D \in Nat, NEW S \in SUBSET (0..D), S # {}
    PROVE  \E m \in S : \A x \in S : m <= x
<1> DEFINE Mirror == {D - x : x \in S}
<1>1. Mirror \in SUBSET (0..D) /\ Mirror # {}
  <2>1. \A x \in S : D - x \in 0..D
    OBVIOUS
  <2>2. Mirror # {}
    BY Zenon
  <2> QED
    BY <2>1, <2>2
<1>2. PICK g \in Mirror : \A x \in Mirror : g >= x
  <2> HIDE DEF Mirror
  <2> QED
    BY <1>1, GreatestExists
<1>3. PICK m \in S : g = D - m
  BY <1>2
<1>4. \A x \in S : D - m >= D - x
  BY <1>2, <1>3
<1> QED
  BY <1>4

\* The log l tells all that k tells, and perhaps more.
Extends(k, l) ==
    /\ IsLog(k) /\ IsLog(l) /\ Len(k) <= Len(l)
    /\ \A i \in 1..Len(k) : k[i] = l[i]

\* The first n events of a log.
First(l, n) == SubSeq(l, 1, n)

\* What a prefix says is what the log says up to there.
LEMMA FirstFacts ==
    ASSUME NEW l, IsLog(l), NEW n \in 0..Len(l)
    PROVE  /\ Extends(First(l, n), l) /\ Len(First(l, n)) = n /\ DOMAIN First(l, n) = 1..n
           /\ \A i \in 1..n : First(l, n)[i] = l[i]
           /\ \A kind : Places(First(l, n), kind) = {i \in Places(l, kind) : i <= n}
<1>1. /\ IsLog(First(l, n)) /\ Len(First(l, n)) = n /\ DOMAIN First(l, n) = 1..n
      /\ \A i \in 1..n : First(l, n)[i] = l[i]
  BY Prefix DEF First
<1>2. Len(l) \in Nat /\ DOMAIN l = 1..Len(l)
  BY LogShape
<1>3. \A kind : Places(First(l, n), kind) = {i \in Places(l, kind) : i <= n}
  BY <1>1, <1>2 DEF Places
<1> QED
  BY <1>1, <1>2, <1>3 DEF Extends

\* A log is its own longest prefix.
LEMMA WholeIsFirst == ASSUME NEW l, IsLog(l) PROVE First(l, Len(l)) = l
BY DEF IsLog, First

\* The prefixes of a log are those of a longer one.
LEMMA FirstStays ==
    ASSUME NEW k, NEW l, Extends(k, l), NEW n \in 0..Len(k)
    PROVE  First(k, n) = First(l, n)
<1>1. Len(k) \in Nat /\ Len(l) \in Nat /\ n \in 0..Len(l)
  BY LogShape DEF Extends
<1>2. /\ First(k, n) = [i \in 1..n |-> k[i]]
      /\ First(l, n) = [i \in 1..n |-> l[i]]
  BY <1>1 DEF First, Extends, IsLog
<1> QED
  BY <1>1, <1>2 DEF Extends

\* One more event extends the log.
LEMMA AppendExtends ==
    ASSUME NEW l, IsLog(l), NEW e
    PROVE  /\ Extends(l, Append(l, e)) /\ Len(Append(l, e)) = Len(l) + 1 /\ Len(l) \in Nat
           /\ Append(l, e)[Len(l) + 1] = e /\ DOMAIN Append(l, e) = 1..(Len(l) + 1)
           /\ DOMAIN l = 1..Len(l)
BY Appended, LogShape DEF Extends

\* The places of a kind are finitely many numbers.
LEMMA PlacesFinite ==
    ASSUME NEW l, IsLog(l), NEW kind
    PROVE  /\ Places(l, kind) \in SUBSET (0..Len(l)) /\ Places(l, kind) \subseteq 1..Len(l)
           /\ IsFiniteSet(Places(l, kind)) /\ Len(l) \in Nat
           /\ Cardinality(Places(l, kind)) \in Nat
<1>1. Len(l) \in Nat /\ DOMAIN l = 1..Len(l)
  BY LogShape
<1>2. Places(l, kind) \in SUBSET (1..Len(l))
  BY <1>1 DEF Places
<1>3. IsFiniteSet(1..Len(l))
  BY <1>1, FS_Interval
<1>4. IsFiniteSet(Places(l, kind))
  BY <1>2, <1>3, FS_Subset
<1> QED
  BY <1>1, <1>2, <1>4, FS_CardinalityType

-----------------------------------------------------------------------------
(* Reviews of one round *)

\* One review counts in a round, and it comes after those of earlier rounds.
LEMMA ReviewFacts ==
    ASSUME NEW l, IsLog(l), Places(l, "written") # {}
    PROVE  /\ LastWritten(l) \in Places(l, "written") /\ LastWritten(l) \in 1..Len(l)
           /\ Accepted(l) \subseteq Window(l) /\ Window(l) \subseteq Places(l, "reviewed")
           /\ History(l) \subseteq Places(l, "reviewed")
           /\ \A i, j \in Accepted(l) : i = j
           /\ \A i \in History(l), j \in Accepted(l) : i < j
<1>1. LastWritten(l) \in Places(l, "written")
  BY PlacesFinite, MaxIsGreatest DEF LastWritten
<1>2. LastWritten(l) \in 1..Len(l) /\ Len(l) \in Nat /\ Places(l, "reviewed") \subseteq 1..Len(l)
  BY <1>1, PlacesFinite
<1>3. Accepted(l) \subseteq Window(l) /\ Window(l) \subseteq Places(l, "reviewed")
      /\ History(l) \subseteq Places(l, "reviewed")
  BY DEF Accepted, Window, History
<1>4. \A i, j \in Accepted(l) : i = j
  <2> SUFFICES ASSUME NEW i \in Accepted(l), NEW j \in Accepted(l) PROVE i = j
    OBVIOUS
  <2>1. i <= j /\ j <= i
    BY DEF Accepted
  <2> QED
    BY <1>2, <1>3, <2>1
<1>5. ASSUME NEW i \in History(l), NEW j \in Accepted(l) PROVE i < j
  <2>1. i < LastWritten(l) /\ j > LastWritten(l)
    BY <1>3 DEF History, Window
  <2> QED
    BY <1>2, <1>3, <2>1
<1> QED
  BY <1>1, <1>2, <1>3, <1>4, <1>5

-----------------------------------------------------------------------------
(* The inductive invariant *)

\* A decision on the log k leads to the event e.
Decided(k, e) ==
    /\ e.kind = "requested" =>
          /\ e.data.round = Cardinality(Places(k, "written")) + 1
          /\ e.id = <<"requested", e.data.action, e.data.round, e.data.findings>>
          /\ \/ /\ Places(k, "written") = {}
                /\ e.data.action = "run-lead-writer" /\ e.data.findings = {}
             \/ /\ e.data.action = "run-correction"
                /\ Places(k, "written") # {} /\ Accepted(k) # {}
                /\ CorrectionBatches(k) < MaxCorrectionBatches
                /\ \A f \in e.data.findings :
                     \E i \in Places(k, "reviewed") : f \in k[i].data.report.raised
    /\ e.kind = "closed" /\ e.data.reason = "completed" => ReviewedAndVerified(k)

\* The writer's answer to the latest request of the log l.
Answers(l, e) ==
    LET latest == e.data.request
    IN  /\ latest \in Places(l, "requested") /\ \A r \in Places(l, "requested") : r <= latest
        /\ e.data.action = l[latest].data.action
        /\ e.id = <<"written", latest>>

\* What makes e the next event of the log l: what a dispatch writes it may have
\* decided on any prefix, what the others write answers l itself.
Justified(l, e) ==
    /\ e.kind \in {"requested", "closed"} => \E n \in 1..Len(l) : Decided(First(l, n), e)
    /\ e.kind = "written" => Answers(l, e)
    /\ e.kind = "reviewed" => e.data.proof \in {0} \cup Places(l, "evidence")

Sequel(l) ==
    /\ IsLog(l) /\ Len(l) >= 1 /\ l[1] = Started
    /\ \A i, j \in 1..Len(l) : l[i].id = l[j].id => i = j
    /\ \A i \in 2..Len(l) : Justified(First(l, i - 1), l[i])

\* Reviews are of commits that there are, and of the three rounds.
Bounded(e, h) ==
    e.kind \in {"asked", "reviewed"} => e.data.commit \in 0..h /\ e.data.round \in 0..MaxRounds

InBounds(l, h) == \A i \in 1..Len(l) : Bounded(l[i], h)

\* What a dispatch inspected, and what it is about to write.
Inspected(l, h, s) ==
    s.length \in 1..Len(l) /\ s.tree \in 0..h /\ InBounds(First(l, s.length), s.tree)

Drafted(l, h, e) ==
    e.kind \notin {"written", "reviewed"} /\ Justified(l, e) /\ Bounded(e, h)

TeamInv ==
    /\ Sequel(log) /\ head \in Nat /\ InBounds(log, head)
    /\ seen = [p \in Procs |-> seen[p]] /\ draft = [p \in Procs |-> draft[p]]
    /\ \A p \in Procs : /\ seen[p] # NotLooking => Inspected(log, head, seen[p])
                        /\ Drafted(log, head, draft[p])

\* A review cites a verification that was recorded before it, or none.
ProofsKnown(l) ==
    \A i \in Places(l, "reviewed") : l[i].data.proof \in {0} \cup Places(l, "evidence")

LEMMA ProofsOfFirst ==
    ASSUME NEW l, Sequel(l), NEW n \in 0..Len(l)
    PROVE  ProofsKnown(First(l, n))
<1> DEFINE k == First(l, n)
<1>1. /\ Len(l) \in Nat /\ DOMAIN l = 1..Len(l) /\ IsLog(l)
      /\ \A i \in 1..n : k[i] = l[i]
      /\ \A kind : Places(k, kind) = {i \in Places(l, kind) : i <= n}
  BY FirstFacts, LogShape DEF Sequel
<1> HIDE DEF k
<1>2. ASSUME NEW i \in Places(k, "reviewed")
      PROVE  k[i].data.proof \in {0} \cup Places(k, "evidence")
  <2>1. i \in 1..Len(l) /\ l[i].kind = "reviewed" /\ i <= n /\ k[i] = l[i]
    BY <1>1 DEF Places
  <2>2. i # 1
    BY <2>1 DEF Sequel, Started, Event
  <2>3. i \in 2..Len(l) /\ i - 1 \in 0..Len(l)
    BY <1>1, <2>1, <2>2
  <2>4. l[i].data.proof \in {0} \cup Places(First(l, i - 1), "evidence")
    BY <2>1, <2>3 DEF Sequel, Justified
  <2>5. Places(First(l, i - 1), "evidence") = {x \in Places(l, "evidence") : x <= i - 1}
    <3>1. IsLog(l)
      BY <1>1
    <3> QED
      BY <2>3, <3>1, FirstFacts, Zenon
  <2>6. \A x \in Places(l, "evidence") : x \in Nat
    <3>1. Places(l, "evidence") \subseteq 1..Len(l)
      BY <1>1, Zenon DEF Places
    <3> QED
      BY <1>1, <3>1
  <2>7. \A x \in Places(l, "evidence") : x <= i - 1 => x <= n
    BY <1>1, <2>1, <2>6
  <2> QED
    BY <1>1, <2>1, <2>4, <2>5, <2>7
<1> QED
  BY <1>2 DEF ProofsKnown, k

-----------------------------------------------------------------------------
(* What a dispatch decides *)

\* The rounds that are spent: those of the reviews that count.
LEMMA SpentRounds ==
    ASSUME NEW k, IsLog(k), NEW h, InBounds(k, h), Places(k, "written") # {}
    PROVE  /\ HighestRound(k) \in 0..MaxRounds
           /\ \A i \in Accepted(k) : k[i].data.round <= HighestRound(k)
<1> DEFINE R == History(k) \cup Accepted(k)
           S == {0} \cup {k[i].data.round : i \in R}
<1>1. R \subseteq Places(k, "reviewed")
  BY ReviewFacts
<1>2. \A i \in R : k[i].data.round \in 0..MaxRounds
  BY <1>1, LogShape DEF InBounds, Bounded, Places
<1>3. S \in SUBSET (0..MaxRounds) /\ S # {} /\ MaxRounds \in Nat
  BY <1>2 DEF MaxRounds
<1>4. Max(S) \in S /\ \A x \in S : x <= Max(S)
  <2> HIDE DEF S
  <2> QED
    BY <1>3, MaxIsGreatest
<1>5. HighestRound(k) = Max(S)
  BY Zenon DEF HighestRound
<1>6. \A i \in Accepted(k) : k[i].data.round \in S
  OBVIOUS
<1> HIDE DEF S
<1> QED
  BY <1>3, <1>4, <1>5, <1>6

\* How many batches the writer completed.
LEMMA BatchesAreCounted ==
    ASSUME NEW k, IsLog(k) PROVE CorrectionBatches(k) \in Nat
<1>1. {i \in Places(k, "written") : k[i].data.action = "run-correction"} \subseteq Places(k, "written")
  OBVIOUS
<1>2. IsFiniteSet({i \in Places(k, "written") : k[i].data.action = "run-correction"})
  BY <1>1, PlacesFinite, FS_Subset
<1> QED
  BY <1>2, FS_CardinalityType DEF CorrectionBatches

\* A review is asked for of a round within the bound.
LEMMA AskedRound ==
    ASSUME NEW k, IsLog(k), NEW h, InBounds(k, h), Places(k, "written") # {},
           ~(NextRound(k) > MaxRounds)
    PROVE  NextRound(k) \in 0..MaxRounds
<1> DEFINE b == CorrectionBatches(k) + 1
           g == HighestRound(k)
           S == {b, g}
<1>1. b \in Nat /\ g \in Nat
  BY BatchesAreCounted, SpentRounds DEF MaxRounds
<1>2. NextRound(k) = Max(S)
  BY Zenon DEF NextRound
<1> HIDE DEF b, g
<1>3. S \in SUBSET (0..(b + g)) /\ S # {} /\ b + g \in Nat
  BY <1>1
<1>4. Max(S) \in S
  <2> HIDE DEF S
  <2> QED
    BY <1>3, MaxIsGreatest
<1>5. NextRound(k) \in Nat
  BY <1>1, <1>2, <1>4
<1> QED
  BY <1>5 DEF MaxRounds

\* The conditions under which the controller takes each action.
LEMMA DecisionFacts ==
    ASSUME NEW k, IsLog(k), NEW tree, NEW subject, NEW h, InBounds(k, h)
    PROVE  LET action == Decision(k, tree, subject)
           IN  /\ action.kind = "run-lead-writer" => Places(k, "written") = {} /\ action.findings = {}
               /\ action.kind \in {"run-correction", "complete"} =>
                     Places(k, "written") # {} /\ Accepted(k) # {}
               /\ action.kind = "run-correction" =>
                     /\ action.findings = OpenFindings(k, tree, subject)
                     /\ CorrectionBatches(k) < MaxCorrectionBatches
               /\ action.kind = "complete" =>
                     /\ ~ReceiptsMismatch(k, subject) /\ ~IsStale(k, subject)
                     /\ OpenFindings(k, tree, subject) = {} /\ Verdict(k, tree) = "verified"
               /\ action.kind = "invoke-specialists" =>
                     Places(k, "written") # {} /\ ~(NextRound(k) > MaxRounds)
<1>1. CorrectionBatches(k) \in Nat
  BY BatchesAreCounted
<1>2. Exhausted(k) \/ CorrectionBatches(k) < MaxCorrectionBatches
  BY <1>1 DEF Exhausted, MaxCorrectionBatches
<1>3. ASSUME Places(k, "written") # {}, IsStale(k, subject), ~(HighestRound(k) >= MaxRounds)
      PROVE  CorrectionBatches(k) < MaxCorrectionBatches
  <2>1. PICK i \in Accepted(k) : TRUE
    BY <1>3 DEF IsStale
  <2>2. k[i].data.round = CorrectionBatches(k) + 1
    BY DEF Accepted, InRound
  <2>3. k[i].data.round <= HighestRound(k) /\ HighestRound(k) \in 0..MaxRounds
    BY <1>3, SpentRounds
  <2> QED
    BY <1>1, <1>3, <2>2, <2>3 DEF MaxRounds, MaxCorrectionBatches
<1>4. IsStale(k, subject) => Accepted(k) # {}
  BY DEF IsStale
<1> DEFINE verdict == Verdict(k, tree)
           open == OpenFindings(k, tree, subject)
<1> HIDE DEF verdict, open
<1>5. verdict = Verdict(k, tree) /\ open = OpenFindings(k, tree, subject)
  BY DEF verdict, open
<1> QED
  BY <1>2, <1>3, <1>4, <1>5 DEF Decision, Action, AwaitsReview

\* A verification that passed for the observed commit.
LEMMA VerifiedFacts ==
    ASSUME NEW k, IsLog(k), NEW tree, Verdict(k, tree) = "verified"
    PROVE  \E v \in Places(k, "evidence") : IsFresh(k, v, tree)
<1> DEFINE v == Max(Places(k, "evidence"))
<1>1. Places(k, "evidence") # {} /\ k[v].data.commit = tree /\ k[v].data.passed
  BY DEF Verdict
<1>2. v \in Places(k, "evidence")
  BY <1>1, PlacesFinite, MaxIsGreatest
<1> QED
  BY <1>1, <1>2 DEF IsFresh

\* The commit of the review that counts is the HEAD that was observed before
\* and after the log was read: a receipt of another one stops the mission.
LEMMA ObservedReview ==
    ASSUME NEW k, IsLog(k), NEW subject, subject.commit \in Nat, NEW tree \in 0..subject.commit,
           InBounds(k, tree), Places(k, "written") # {}, Accepted(k) # {},
           ~ReceiptsMismatch(k, subject)
    PROVE  \A i \in Accepted(k) : k[i].data.commit = tree
<1>1. SUFFICES ASSUME NEW i \in Accepted(k) PROVE k[i].data.commit = tree
  OBVIOUS
<1>2. i \in Window(k) /\ i \in Places(k, "reviewed")
  BY ReviewFacts
<1>3. k[i].data.commit = subject.commit
  BY <1>2 DEF ReceiptsMismatch
<1>4. k[i].data.commit \in 0..tree
  BY <1>2, LogShape DEF InBounds, Bounded, Places
<1> QED
  BY <1>3, <1>4

\* A finding is settled by the last review that speaks of its resolution.
LEMMA ResolvedFacts ==
    ASSUME NEW k, IsLog(k), NEW R, R \subseteq Places(k, "reviewed"), NEW f, NEW tree,
           Resolved(k, R, f, tree)
    PROVE  \E q \in R :
              /\ f \in k[q].data.report.resolved /\ Proven(k, q, tree)
              /\ \A y \in R : y > q => f \notin k[y].data.report.unresolved
<1> DEFINE S == {i \in R : f \in k[i].data.report.resolved \cup k[i].data.report.unresolved}
           q == Max(S)
<1>1. S # {} /\ f \in k[q].data.report.resolved /\ Proven(k, q, tree)
  BY Zenon DEF Resolved
<1>2. S \in SUBSET (0..Len(k)) /\ Len(k) \in Nat
  BY PlacesFinite
<1>3. q \in S /\ \A y \in S : y <= q
  <2> HIDE DEF S
  <2> QED
    BY <1>1, <1>2, MaxIsGreatest
<1>4. ASSUME NEW y \in R, y > q, f \in k[y].data.report.unresolved PROVE FALSE
  <2>1. y \in S
    BY <1>4
  <2> HIDE DEF S, q
  <2>2. y \in Int /\ q \in Int /\ y <= q
    BY <1>2, <1>3, <2>1
  <2> QED
    BY <1>4, <2>2
<1>5. q \in R
  BY <1>3
<1> HIDE DEF q
<1> QED
  BY <1>1, <1>4, <1>5

\* The log of a mission that is complete.
LEMMA CompletionIsReviewed ==
    ASSUME NEW k, IsLog(k), ProofsKnown(k), NEW tree, NEW subject,
           Places(k, "written") # {}, Accepted(k) # {}, ~IsStale(k, subject),
           \A i \in Accepted(k) : k[i].data.commit = tree,
           OpenFindings(k, tree, subject) = {}, Verdict(k, tree) = "verified"
    PROVE  ReviewedAndVerified(k)
<1> DEFINE reviews == History(k) \cup Accepted(k)
           Passed(place) == place \in Places(k, "evidence") /\ IsFresh(k, place, tree)
<1>1. /\ History(k) \subseteq Places(k, "reviewed") /\ Accepted(k) \subseteq Places(k, "reviewed")
      /\ \A i, j \in Accepted(k) : i = j
      /\ \A i \in History(k), j \in Accepted(k) : i < j
  BY ReviewFacts
<1>2. PICK a \in Accepted(k) : k[a].data.commit = tree
  OBVIOUS
<1>3. reviews \in SUBSET (0..Len(k)) /\ Len(k) \in Nat /\ a \in reviews /\ \A x \in reviews : x <= a
  <2>1. Places(k, "reviewed") \subseteq 1..Len(k) /\ Len(k) \in Nat
    BY PlacesFinite
  <2> QED
    BY <1>1, <2>1
<1>4. Max(reviews) = a
  <2> HIDE DEF reviews
  <2> QED
    BY <1>3, MaxIsGreatest
<1>5. Counted(k, subject) = reviews
  BY DEF Counted, IsStale
<1>6. ASSUME NEW r \in reviews, NEW f \in k[r].data.report.raised
      PROVE  \E q \in reviews :
                /\ f \in k[q].data.report.resolved /\ Passed(k[q].data.proof)
                /\ \A y \in reviews : y > q => f \notin k[y].data.report.unresolved
  <2>1. reviews \subseteq Places(k, "reviewed")
    BY <1>1
  <2>2. Resolved(k, reviews, f, tree)
    BY <1>5, <1>6 DEF OpenFindings
  <2> HIDE DEF reviews
  <2>3. PICK q \in reviews :
           /\ f \in k[q].data.report.resolved /\ Proven(k, q, tree)
           /\ \A y \in reviews : y > q => f \notin k[y].data.report.unresolved
    BY <2>1, <2>2, ResolvedFacts
  <2>4. Passed(k[q].data.proof)
    BY <2>1, <2>3 DEF Proven, ProofsKnown
  <2> QED
    BY <2>3, <2>4
<1>7. \E e \in DOMAIN k : Passed(e)
  BY VerifiedFacts DEF Places
<1> HIDE DEF reviews
<1>8. reviews = History(k) \cup Accepted(k) /\ k[Max(reviews)].data.commit = tree
  BY <1>2, <1>4 DEF reviews
<1> QED
  BY <1>6, <1>7, <1>8 DEF ReviewedAndVerified

\* What a dispatch drafts after it inspected k.
LEMMA DecisionSound ==
    ASSUME NEW k, IsLog(k), ProofsKnown(k), NEW subject, subject.commit \in Nat,
           NEW tree \in 0..subject.commit, InBounds(k, tree), NEW e,
           e = Recorded(k, Decision(k, tree, subject), subject)
    PROVE  /\ e.kind \notin {"written", "reviewed"} /\ Bounded(e, subject.commit)
           /\ e.kind \in {"requested", "closed"} => Decided(k, e)
<1> DEFINE action == Decision(k, tree, subject)
<1>1. /\ action.kind = "run-lead-writer" => Places(k, "written") = {} /\ action.findings = {}
      /\ action.kind \in {"run-correction", "complete"} =>
            Places(k, "written") # {} /\ Accepted(k) # {}
      /\ action.kind = "run-correction" =>
            /\ action.findings = OpenFindings(k, tree, subject)
            /\ CorrectionBatches(k) < MaxCorrectionBatches
      /\ action.kind = "complete" =>
            /\ ~ReceiptsMismatch(k, subject) /\ ~IsStale(k, subject)
            /\ OpenFindings(k, tree, subject) = {} /\ Verdict(k, tree) = "verified"
      /\ action.kind = "invoke-specialists" =>
            Places(k, "written") # {} /\ ~(NextRound(k) > MaxRounds)
  BY DecisionFacts
<1> HIDE DEF action
<1>2. e = Recorded(k, action, subject)
  BY DEF action
<1>3. CASE action.kind = "invoke-specialists"
  <2>1. e = ReviewRequest(NextRound(k), subject)
    BY <1>2, <1>3 DEF Recorded
  <2>2. e.kind = "asked" /\ e.data.commit = subject.commit /\ e.data.round = NextRound(k)
    BY <2>1 DEF ReviewRequest, Event
  <2>3. NextRound(k) \in 0..MaxRounds
    BY <1>1, <1>3, AskedRound
  <2> QED
    BY <2>2, <2>3 DEF Bounded
<1>4. CASE action.kind \in {"run-lead-writer", "run-correction"}
  <2>1. e = WriterRequest(k, action)
    BY <1>2, <1>4 DEF Recorded
  <2>2. /\ e.kind = "requested"
        /\ e.data.round = Cardinality(Places(k, "written")) + 1
        /\ e.data.action = action.kind /\ e.data.findings = action.findings
        /\ e.id = <<"requested", e.data.action, e.data.round, e.data.findings>>
    BY <2>1 DEF WriterRequest, Event
  <2>3. CASE action.kind = "run-correction"
    <3>1. Places(k, "written") # {} /\ Counted(k, subject) \subseteq Places(k, "reviewed")
      BY <1>1, <2>3, ReviewFacts DEF Counted
    <3>2. \A f \in e.data.findings : \E i \in Places(k, "reviewed") : f \in k[i].data.report.raised
      BY <1>1, <2>2, <2>3, <3>1 DEF OpenFindings
    <3> QED
      BY <1>1, <2>2, <2>3, <3>2 DEF Decided, Bounded
  <2>4. CASE action.kind = "run-lead-writer"
    BY <1>1, <2>2, <2>4 DEF Decided, Bounded
  <2> QED
    BY <1>4, <2>3, <2>4
<1>5. CASE action.kind = "complete"
  <2>1. e = Closure("completed")
    BY <1>2, <1>5 DEF Recorded
  <2>2. e.kind = "closed"
    BY <2>1 DEF Closure, Event
  <2>3. \A i \in Accepted(k) : k[i].data.commit = tree
    BY <1>1, <1>5, ObservedReview
  <2>4. ReviewedAndVerified(k)
    BY <1>1, <1>5, <2>3, CompletionIsReviewed
  <2> QED
    BY <2>2, <2>4 DEF Decided, Bounded
<1>6. CASE action.kind = "stop"
  <2>1. e = Closure("controller-stop")
    BY <1>2, <1>6 DEF Recorded
  <2>2. e.kind = "closed" /\ e.data.reason = "controller-stop"
    BY <2>1 DEF Closure, Event
  <2> QED
    BY <2>2 DEF Decided, Bounded
<1>7. CASE action.kind \notin {"invoke-specialists", "run-lead-writer", "run-correction", "complete", "stop"}
  <2>1. e.kind = "started"
    BY <1>2, <1>7 DEF Recorded, NoDraft, Started, Event
  <2> QED
    BY <2>1 DEF Bounded
<1> QED
  BY <1>3, <1>4, <1>5, <1>6, <1>7

-----------------------------------------------------------------------------
(* The steps *)

\* What is known of the log, of what a dispatch inspected and of what it
\* decided stays true when the log and HEAD only grow.
LEMMA StillInspected ==
    ASSUME NEW k, NEW l, Extends(k, l), NEW g \in Nat, NEW h \in Nat, g <= h
    PROVE  /\ \A s : Inspected(k, g, s) => Inspected(l, h, s)
           /\ \A e : Drafted(k, g, e) => Drafted(l, h, e)
<1>1. Len(k) \in Nat /\ Len(l) \in Nat /\ Len(k) <= Len(l)
  BY LogShape DEF Extends
<1>2. \A n \in 1..Len(k) : n \in 1..Len(l) /\ First(l, n) = First(k, n)
  BY <1>1, FirstStays
<1>3. ASSUME NEW s, Inspected(k, g, s) PROVE Inspected(l, h, s)
  BY <1>2, <1>3 DEF Inspected
<1>4. ASSUME NEW e, Drafted(k, g, e) PROVE Drafted(l, h, e)
  <2>1. e.kind \in {"requested", "closed"} => \E n \in 1..Len(l) : Decided(First(l, n), e)
    BY <1>2, <1>4 DEF Drafted, Justified
  <2>2. Bounded(e, h)
    BY <1>4 DEF Drafted, Bounded
  <2> QED
    BY <1>4, <2>1, <2>2 DEF Drafted, Justified
<1> QED
  BY <1>3, <1>4

\* One more event that has its reasons, and an id of its own.
LEMMA StillSequel ==
    ASSUME NEW l, Sequel(l), NEW e, Justified(l, e), PlacesOf(l, e.id) = {}
    PROVE  Sequel(Append(l, e))
<1> DEFINE k == Append(l, e)
<1>1. /\ IsLog(k) /\ Len(k) = Len(l) + 1 /\ Len(l) \in Nat /\ Len(l) >= 1
      /\ DOMAIN l = 1..Len(l) /\ Extends(l, k)
      /\ k[Len(l) + 1] = e /\ \A i \in 1..Len(l) : k[i] = l[i]
  BY Appended, AppendExtends, LogShape DEF Sequel
<1>2. \A n \in 0..Len(l) : First(k, n) = First(l, n)
  BY <1>1, FirstStays
<1>3. First(l, Len(l)) = l
  BY WholeIsFirst DEF Sequel
<1> HIDE DEF k
<1>4. \A i, j \in 1..Len(k) : k[i].id = k[j].id => i = j
  <2>1. \A i \in 1..Len(k) : i \in 1..Len(l) \/ i = Len(l) + 1
    BY <1>1
  <2>2. \A i \in 1..Len(l) : l[i].id # e.id
    BY <1>1 DEF PlacesOf
  <2>3. \A i, j \in 1..Len(l) : l[i].id = l[j].id => i = j
    BY DEF Sequel
  <2> QED
    BY <1>1, <2>1, <2>2, <2>3
<1>5. ASSUME NEW i \in 2..Len(k) PROVE Justified(First(k, i - 1), k[i])
  <2>1. CASE i = Len(l) + 1
    BY <1>1, <1>2, <1>3, <2>1
  <2>2. CASE i # Len(l) + 1
    <3>1. i \in 2..Len(l) /\ i \in 1..Len(l) /\ i - 1 \in 0..Len(l)
      BY <1>1, <2>2
    <3>2. Justified(First(l, i - 1), l[i])
      BY <3>1 DEF Sequel
    <3> QED
      BY <1>1, <1>2, <3>1, <3>2
  <2> QED
    BY <2>1, <2>2
<1>6. k[1] = Started /\ Len(k) >= 1
  BY <1>1 DEF Sequel
<1> QED
  BY <1>1, <1>4, <1>5, <1>6 DEF Sequel, k

\* The log grows by such an event, and processes at most forget.
LEMMA GrowingKeeps ==
    ASSUME TeamInv, NEW e, Justified(log, e), PlacesOf(log, e.id) = {}, Bounded(e, head),
           log' = Append(log, e), head' = head,
           seen' = [q \in Procs |-> seen'[q]], \A q \in Procs : seen'[q] \in {seen[q], NotLooking},
           draft' = [q \in Procs |-> draft'[q]], \A q \in Procs : draft'[q] \in {draft[q], NoDraft}
    PROVE  TeamInv'
<1>1. /\ IsLog(log) /\ Sequel(log') /\ Extends(log, log') /\ head \in Nat /\ Len(log) \in Nat
      /\ Len(log') = Len(log) + 1 /\ log'[Len(log) + 1] = e
  BY StillSequel, AppendExtends DEF TeamInv, Sequel
<1>2. InBounds(log', head)
  <2>1. \A i \in 1..Len(log') : i \in 1..Len(log) \/ i = Len(log) + 1
    BY <1>1
  <2>2. \A i \in 1..Len(log) : log'[i] = log[i]
    BY <1>1 DEF Extends
  <2> QED
    BY <1>1, <2>1, <2>2 DEF InBounds, TeamInv
<1>3. /\ \A s : Inspected(log, head, s) => Inspected(log', head, s)
      /\ \A d : Drafted(log, head, d) => Drafted(log', head, d)
  BY <1>1, StillInspected
<1>4. \A l, h : Drafted(l, h, NoDraft)
  BY DEF Drafted, Justified, Bounded, NoDraft, Started, Event
<1>5. ASSUME NEW q \in Procs
      PROVE  /\ seen'[q] # NotLooking => Inspected(log', head', seen'[q])
             /\ Drafted(log', head', draft'[q])
  <2>1. seen[q] # NotLooking => Inspected(log, head, seen[q])
    BY DEF TeamInv
  <2>2. Drafted(log, head, draft[q])
    BY DEF TeamInv
  <2>3. Drafted(log', head, draft[q]) /\ Drafted(log', head, NoDraft)
    BY <1>3, <1>4, <2>2
  <2> QED
    BY <1>3, <2>1, <2>3
<1> QED
  BY <1>1, <1>2, <1>5 DEF TeamInv

\* A command that records an event.
LEMMA RecordKeeps ==
    ASSUME TeamInv, NEW e, Justified(log, e), Bounded(e, head), Record(e) PROVE TeamInv'
<1>1. /\ PlacesOf(log, e.id) = {} /\ log' = Append(log, e)
      /\ head' = head /\ seen' = seen /\ draft' = draft
  BY DEF Record, MayWrite
<1>2. seen = [p \in Procs |-> seen[p]] /\ draft = [p \in Procs |-> draft[p]]
  BY DEF TeamInv
<1> QED
  BY <1>1, <1>2, GrowingKeeps

\* A commit moves HEAD and writes nothing.
LEMMA CommitKeeps == ASSUME TeamInv, Commit PROVE TeamInv'
<1>1. head \in Nat /\ head' = head + 1 /\ UNCHANGED <<log, seen, draft>> /\ IsLog(log)
  BY DEF TeamInv, Sequel, Commit
<1>2. Extends(log, log) /\ head + 1 \in Nat /\ head <= head + 1
  BY <1>1, LogShape DEF Extends
<1>3. InBounds(log, head + 1)
  BY <1>1 DEF TeamInv, InBounds, Bounded
<1>4. /\ \A s : Inspected(log, head, s) => Inspected(log, head + 1, s)
      /\ \A e : Drafted(log, head, e) => Drafted(log, head + 1, e)
  BY <1>1, <1>2, StillInspected
<1> QED
  BY <1>1, <1>2, <1>3, <1>4 DEF TeamInv

\* So do the inputs of a review when they change.
LEMMA ChangeInputsKeeps == ASSUME TeamInv, ChangeInputs PROVE TeamInv'
BY DEF ChangeInputs, TeamInv

\* A dispatch that nothing overtakes decides on the log it writes to.
LEMMA DispatchAtOnceKeeps == ASSUME TeamInv, DispatchAtOnce PROVE TeamInv'
<1> DEFINE e == Recorded(log, Decision(log, head, Subject), Subject)
<1>1. Record(e)
  BY DEF DispatchAtOnce
<1>2. IsLog(log) /\ head \in Nat /\ Len(log) \in 1..Len(log) /\ First(log, Len(log)) = log
  BY LogShape, WholeIsFirst DEF TeamInv, Sequel
<1>3. Subject.commit = head
  BY DEF Subject
<1>4. ProofsKnown(log)
  BY <1>2, ProofsOfFirst DEF TeamInv
<1>5. InBounds(log, head)
  BY DEF TeamInv
<1>6. e = Recorded(log, Decision(log, head, Subject), Subject)
  OBVIOUS
<1> HIDE DEF e
<1>7. /\ e.kind \notin {"written", "reviewed"} /\ Bounded(e, head)
      /\ e.kind \in {"requested", "closed"} => Decided(log, e)
  BY <1>2, <1>3, <1>4, <1>5, <1>6, DecisionSound
<1>8. Justified(log, e)
  BY <1>2, <1>7 DEF Justified
<1> QED
  BY <1>1, <1>7, <1>8, RecordKeeps

\* A completion answers the latest request.
LEMMA CompleteWriterKeeps == ASSUME TeamInv, CompleteWriter PROVE TeamInv'
<1> DEFINE latest == Max(Places(log, "requested"))
           e == Event("written", <<"written", latest>>,
                      [request |-> latest, action |-> log[latest].data.action])
<1>1. Record(e) /\ Places(log, "requested") # {}
  BY DEF CompleteWriter
<1>2. latest \in Places(log, "requested") /\ \A r \in Places(log, "requested") : r <= latest
  BY <1>1, PlacesFinite, MaxIsGreatest DEF TeamInv, Sequel
<1>3. /\ e.kind = "written" /\ e.id = <<"written", latest>>
      /\ e.data.request = latest /\ e.data.action = log[latest].data.action
  BY DEF Event
<1> HIDE DEF e, latest
<1>4. Justified(log, e) /\ Bounded(e, head)
  BY <1>2, <1>3 DEF Justified, Answers, Bounded
<1> QED
  BY <1>1, <1>4, RecordKeeps

\* A review completes a dispatch, and cites an older proof.
LEMMA CompleteReviewKeeps == ASSUME TeamInv, CompleteReview PROVE TeamInv'
<1>1. PICK asked \in Places(log, "asked"), report \in Reports :
        Record(Event("reviewed", <<"reviewed", log[asked].id>>,
               [round |-> log[asked].data.round, commit |-> log[asked].data.commit,
                inputs |-> log[asked].data.inputs,
                report |-> report, proof |-> CitedProof(log[asked].data.commit)]))
  BY DEF CompleteReview
<1> DEFINE e == Event("reviewed", <<"reviewed", log[asked].id>>,
               [round |-> log[asked].data.round, commit |-> log[asked].data.commit,
                inputs |-> log[asked].data.inputs,
                report |-> report, proof |-> CitedProof(log[asked].data.commit)])
           S == {0} \cup {i \in Places(log, "evidence") : IsFresh(log, i, log[asked].data.commit)}
<1>2. /\ e.kind = "reviewed" /\ e.data.commit = log[asked].data.commit
      /\ e.data.round = log[asked].data.round
      /\ e.data.proof = CitedProof(log[asked].data.commit)
  BY DEF Event
<1>3. S \in SUBSET (0..Len(log)) /\ S # {} /\ Len(log) \in Nat
      /\ \A i \in S : i = 0 \/ i \in Places(log, "evidence")
  BY PlacesFinite DEF TeamInv, Sequel
<1>4. CitedProof(log[asked].data.commit) = Max(S)
  BY Zenon DEF CitedProof
<1>5. Record(e)
  BY <1>1
<1> HIDE DEF e, S
<1>6. Max(S) \in S
  BY <1>3, MaxIsGreatest
<1>7. Justified(log, e)
  BY <1>2, <1>3, <1>4, <1>6 DEF Justified
<1>8. asked \in 1..Len(log) /\ log[asked].kind = "asked"
  BY LogShape DEF TeamInv, Sequel, Places
<1>9. Bounded(e, head)
  BY <1>2, <1>8 DEF TeamInv, InBounds, Bounded
<1> QED
  BY <1>5, <1>7, <1>9, RecordKeeps

\* A verification seals the commit it ran for.
LEMMA VerifyKeeps == ASSUME TeamInv, Verify PROVE TeamInv'
<1>1. PICK passed \in BOOLEAN :
        Record(Event("evidence", <<"evidence", Len(log)>>, [commit |-> head, passed |-> passed]))
  BY DEF Verify
<1> DEFINE e == Event("evidence", <<"evidence", Len(log)>>, [commit |-> head, passed |-> passed])
<1>2. e.kind = "evidence" /\ Record(e)
  BY <1>1 DEF Event
<1> HIDE DEF e
<1>3. Justified(log, e) /\ Bounded(e, head)
  BY <1>2 DEF Justified, Bounded
<1> QED
  BY <1>2, <1>3, RecordKeeps

\* A dispatch notes how much of the log it has read, and HEAD.
LEMMA InspectKeeps == ASSUME TeamInv, NEW p \in Procs, Inspect(p) PROVE TeamInv'
<1> DEFINE s == [length |-> Len(log), tree |-> head]
<1>1. UNCHANGED <<log, head, draft>> /\ seen' = [q \in Procs |-> IF q = p THEN s ELSE seen[q]]
  BY DEF Inspect, TeamInv
<1>2. s.length = Len(log) /\ s.tree = head
  OBVIOUS
<1>3. IsLog(log) /\ head \in Nat /\ Len(log) \in 1..Len(log) /\ First(log, Len(log)) = log
  BY LogShape, WholeIsFirst DEF TeamInv, Sequel
<1> HIDE DEF s
<1>4. Inspected(log, head, s)
  BY <1>2, <1>3 DEF Inspected, TeamInv
<1> QED
  BY <1>1, <1>4 DEF TeamInv

\* A dispatch that ends forgets what it inspected and decided.
LEMMA EndingKeeps == ASSUME TeamInv, NEW p \in Procs, Ends(p), UNCHANGED <<log, head>> PROVE TeamInv'
<1>1. /\ seen' = [q \in Procs |-> IF q = p THEN NotLooking ELSE seen[q]]
      /\ draft' = [q \in Procs |-> IF q = p THEN NoDraft ELSE draft[q]]
  BY DEF Ends, TeamInv
<1>2. Drafted(log, head, NoDraft)
  BY DEF Drafted, Justified, Bounded, NoDraft, Started, Event
<1> QED
  BY <1>1, <1>2 DEF TeamInv

\* It decides on that prefix, however long ago it read it.
LEMMA DispatchKeeps == ASSUME TeamInv, NEW p \in Procs, Dispatch(p) PROVE TeamInv'
<1> DEFINE n == seen[p].length
           k == First(log, n)
           e == Recorded(k, Decision(k, seen[p].tree, Subject), Subject)
<1>1. /\ seen[p] # NotLooking /\ UNCHANGED <<log, head>>
      /\ \/ draft' = [draft EXCEPT ![p] = e] /\ UNCHANGED seen
         \/ Ends(p)
  BY Zenon DEF Dispatch, First
<1>2. CASE draft' = [draft EXCEPT ![p] = e] /\ UNCHANGED seen
  <2>1. /\ n \in 1..Len(log) /\ seen[p].tree \in 0..head /\ InBounds(k, seen[p].tree)
        /\ IsLog(log) /\ head \in Nat /\ Subject.commit = head
    BY <1>1 DEF TeamInv, Sequel, Inspected, Subject
  <2>2. n \in 0..Len(log)
    BY <2>1, LogShape
  <2>3. IsLog(k) /\ ProofsKnown(k)
    BY <2>1, <2>2, FirstFacts, ProofsOfFirst DEF TeamInv, Extends
  <2>4. draft' = [q \in Procs |-> IF q = p THEN e ELSE draft[q]]
    BY <1>2 DEF TeamInv
  <2>5. e = Recorded(k, Decision(k, seen[p].tree, Subject), Subject)
    OBVIOUS
  <2> HIDE DEF e, k
  <2>6. /\ e.kind \notin {"written", "reviewed"} /\ Bounded(e, head)
        /\ e.kind \in {"requested", "closed"} => Decided(k, e)
    BY <2>1, <2>3, <2>5, DecisionSound
  <2>7. Drafted(log, head, e)
    BY <2>1, <2>6 DEF Drafted, Justified, k
  <2> QED
    BY <1>1, <1>2, <2>4, <2>7 DEF TeamInv
<1>3. CASE Ends(p)
  BY <1>1, <1>3, EndingKeeps
<1> QED
  BY <1>1, <1>2, <1>3

\* And writes what it decided, unless its id is taken.
LEMMA WriteEventKeeps == ASSUME TeamInv, NEW p \in Procs, WriteEvent(p) PROVE TeamInv'
<1> DEFINE e == draft[p]
<1>1. /\ PlacesOf(log, e.id) = {} /\ log' = Append(log, e) /\ head' = head
      /\ seen' = [q \in Procs |-> IF q = p THEN NotLooking ELSE seen[q]]
      /\ draft' = [q \in Procs |-> IF q = p THEN NoDraft ELSE draft[q]]
  BY DEF WriteEvent, MayWrite, Ends, TeamInv
<1>2. Justified(log, e) /\ Bounded(e, head)
  BY DEF TeamInv, Drafted
<1> HIDE DEF e
<1>3. /\ seen' = [q \in Procs |-> seen'[q]] /\ \A q \in Procs : seen'[q] \in {seen[q], NotLooking}
      /\ draft' = [q \in Procs |-> draft'[q]] /\ \A q \in Procs : draft'[q] \in {draft[q], NoDraft}
  BY <1>1
<1> QED
  BY <1>1, <1>2, <1>3, GrowingKeeps

\* A mission that has just been started.
LEMMA InitialTeam == Init => TeamInv
<1> SUFFICES ASSUME Init PROVE TeamInv
  OBVIOUS
<1>1. /\ log = <<Started>> /\ Len(log) = 1 /\ log[1] = Started /\ head = 0
      /\ seen = [p \in Procs |-> NotLooking] /\ draft = [p \in Procs |-> NoDraft]
  BY DEF Init
<1>2. IsLog(log)
  <2>1. log \in Seq({Started})
    BY <1>1
  <2> QED
    BY <2>1, Zenon DEF IsLog
<1>3. Sequel(log)
  <2>1. 2..Len(log) = {} /\ 1..Len(log) = {1}
    BY <1>1
  <2> QED
    BY <1>1, <1>2, <2>1 DEF Sequel
<1>4. InBounds(log, head)
  BY <1>1 DEF InBounds, Bounded, Started, Event
<1>5. \A p \in Procs : Drafted(log, head, draft[p])
  BY <1>1 DEF Drafted, Justified, Bounded, NoDraft, Started, Event
<1> QED
  BY <1>1, <1>3, <1>4, <1>5 DEF TeamInv

\* Every step keeps the invariant.
LEMMA StepKeeps == TeamInv /\ [Next]_vars => TeamInv'
<1> SUFFICES ASSUME TeamInv, [Next]_vars PROVE TeamInv'
  OBVIOUS
<1>1. CASE \/ Commit \/ ChangeInputs
           \/ DispatchAtOnce \/ CompleteWriter \/ CompleteReview \/ Verify
  BY <1>1, CommitKeeps, ChangeInputsKeeps, DispatchAtOnceKeeps, CompleteWriterKeeps,
     CompleteReviewKeeps, VerifyKeeps
<1>2. ASSUME NEW p \in Procs, Inspect(p) \/ Dispatch(p) \/ WriteEvent(p) \/ GiveUp(p)
      PROVE  TeamInv'
  <2>1. CASE GiveUp(p)
    BY <2>1, EndingKeeps DEF GiveUp
  <2> QED
    BY <1>2, <2>1, InspectKeeps, DispatchKeeps, WriteEventKeeps
<1>3. CASE UNCHANGED vars
  BY <1>3 DEF vars, TeamInv
<1> QED
  BY <1>1, <1>2, <1>3 DEF Next

-----------------------------------------------------------------------------
(* The theorems *)

\* The inductive invariant, through every race of dispatches with each other,
\* with the other commands of mission.ts and with changes of what they read.
THEOREM TeamInvariant == Spec => []TeamInv
BY InitialTeam, StepKeeps, PTL DEF Spec

-----------------------------------------------------------------------------
(* What the log says of the writer *)

\* A request was decided on a shorter log, and so was a closure.
LEMMA WasDecided ==
    ASSUME NEW l, Sequel(l), NEW c \in Places(l, "requested") \cup Places(l, "closed")
    PROVE  c \in 2..Len(l) /\ \E n \in 1..(c - 1) : Decided(First(l, n), l[c])
<1>1. IsLog(l) /\ Len(l) \in Nat /\ c \in 1..Len(l) /\ l[c].kind \in {"requested", "closed"}
  BY LogShape DEF Places, Sequel
<1>2. c # 1
  BY <1>1 DEF Sequel, Started, Event
<1>3. c \in 2..Len(l) /\ c - 1 \in 0..Len(l)
  BY <1>1, <1>2
<1> DEFINE k == First(l, c - 1)
<1>4. Extends(k, l) /\ Len(k) = c - 1
  BY <1>1, <1>3, FirstFacts
<1>5. \E n \in 1..Len(k) : Decided(First(k, n), l[c])
  BY <1>1, <1>3 DEF Sequel, Justified
<1>6. \A n \in 1..Len(k) : First(k, n) = First(l, n)
  BY <1>1, <1>3, <1>4, FirstStays
<1> HIDE DEF k
<1> QED
  BY <1>3, <1>4, <1>5, <1>6

\* A completion answers the latest of the requests before it.
LEMMA WasAnswered ==
    ASSUME NEW l, Sequel(l), NEW w \in Places(l, "written")
    PROVE  LET r == l[w].data.request
           IN  /\ w \in 1..Len(l) /\ r \in Places(l, "requested") /\ r \in 2..(w - 1)
               /\ \A s \in Places(l, "requested") : s < w => s <= r
               /\ l[w].data.action = l[r].data.action /\ l[w].id = <<"written", r>>
<1> DEFINE r == l[w].data.request
           k == First(l, w - 1)
<1>1. IsLog(l) /\ Len(l) \in Nat /\ DOMAIN l = 1..Len(l) /\ w \in 1..Len(l) /\ l[w].kind = "written"
  BY LogShape DEF Places, Sequel
<1>2. w # 1
  BY <1>1 DEF Sequel, Started, Event
<1>3. w \in 2..Len(l) /\ w - 1 \in 0..Len(l)
  BY <1>1, <1>2
<1>4. Answers(k, l[w])
  BY <1>1, <1>3 DEF Sequel, Justified
<1>5. /\ Places(k, "requested") = {i \in Places(l, "requested") : i <= w - 1}
      /\ \A i \in 1..(w - 1) : k[i] = l[i]
  BY <1>1, <1>3, FirstFacts
<1>6. \A i \in Places(l, "requested") : i \in 2..Len(l)
  BY WasDecided
<1>7. r \in Places(k, "requested") /\ \A s \in Places(k, "requested") : s <= r
  BY <1>4 DEF Answers
<1>8. l[w].data.action = k[r].data.action /\ l[w].id = <<"written", r>>
  BY <1>4 DEF Answers
<1> HIDE DEF r, k
<1>9. r \in Places(l, "requested") /\ r <= w - 1 /\ r \in 2..Len(l)
  BY <1>5, <1>6, <1>7
<1>10. r \in 2..(w - 1)
  BY <1>1, <1>9
<1>11. l[w].data.action = l[r].data.action
  BY <1>5, <1>8, <1>10
<1>12. ASSUME NEW s \in Places(l, "requested"), s < w PROVE s <= r
  <2>1. s \in 2..Len(l)
    BY <1>6
  <2>2. s <= w - 1
    BY <1>1, <1>12, <2>1
  <2> QED
    BY <1>5, <1>7, <2>2
<1> QED
  BY <1>1, <1>8, <1>9, <1>10, <1>11, <1>12 DEF r

\* Two requests for the implementation have one id.
LEMMA ImplementationId ==
    ASSUME NEW l, Sequel(l), NEW r \in Places(l, "requested"),
           l[r].data.action = "run-lead-writer"
    PROVE  l[r].id = <<"requested", "run-lead-writer", 1, {}>>
<1>1. PICK n \in 1..(r - 1) : Decided(First(l, n), l[r])
  BY WasDecided
<1>2. l[r].kind = "requested"
  BY DEF Places
<1>3. /\ Places(First(l, n), "written") = {} /\ l[r].data.findings = {}
      /\ l[r].data.round = Cardinality(Places(First(l, n), "written")) + 1
      /\ l[r].id = <<"requested", l[r].data.action, l[r].data.round, l[r].data.findings>>
  BY <1>1, <1>2 DEF Decided
<1>4. Cardinality(Places(First(l, n), "written")) = 0
  BY <1>3, FS_EmptySet, Zenon
<1>5. l[r].data.round = 1
  BY <1>3, <1>4
<1> QED
  BY <1>3, <1>5

\* The writer's first completion is the implementation, and no other is.
LEMMA ImplementationIsFirst ==
    ASSUME NEW l, Sequel(l), NEW i \in Places(l, "written")
    PROVE  /\ l[i].data.action \in {"run-lead-writer", "run-correction"}
           /\ l[i].data.action = "run-lead-writer" <=> \A w \in Places(l, "written") : ~(w < i)
<1>0. /\ IsLog(l) /\ Len(l) \in Nat
      /\ Places(l, "written") \in SUBSET (0..Len(l)) /\ Places(l, "written") \subseteq 1..Len(l)
      /\ \A x, y \in 1..Len(l) : l[x].id = l[y].id => x = y
  BY LogShape, PlacesFinite DEF Sequel
<1>1. ASSUME NEW w \in Places(l, "written")
      PROVE  /\ l[w].data.action \in {"run-lead-writer", "run-correction"}
             /\ (\A v \in Places(l, "written") : ~(v < w)) => l[w].data.action = "run-lead-writer"
  <2> DEFINE r == l[w].data.request
  <2>1. /\ w \in 1..Len(l) /\ r \in Places(l, "requested") /\ r \in 2..(w - 1)
        /\ l[w].data.action = l[r].data.action
    BY WasAnswered
  <2> HIDE DEF r
  <2>2. PICK n \in 1..(r - 1) : Decided(First(l, n), l[r])
    BY <2>1, WasDecided
  <2>3. l[r].kind = "requested"
    BY <2>1, Zenon DEF Places
  <2>4. \/ l[r].data.action = "run-lead-writer"
        \/ l[r].data.action = "run-correction" /\ Places(First(l, n), "written") # {}
    BY <2>2, <2>3 DEF Decided
  <2>5. n \in 0..Len(l) /\ n < w
    BY <1>0, <2>1
  <2>6. Places(First(l, n), "written") = {v \in Places(l, "written") : v <= n}
    BY <1>0, <2>5, FirstFacts
  <2>7. (\A v \in Places(l, "written") : ~(v < w)) => Places(First(l, n), "written") = {}
    <3>1. \A v \in Places(l, "written") : v \in Int
      BY <1>0
    <3>2. n \in Int /\ w \in Int
      BY <2>1, <2>5
    <3>3. \A v \in Places(l, "written") : v <= n => v < w
      BY <2>5, <3>1, <3>2
    <3> QED
      BY <2>6, <3>3, Zenon
  <2> QED
    BY <2>1, <2>4, <2>7
<1>2. ASSUME l[i].data.action = "run-lead-writer", NEW x \in Places(l, "written"), x < i
      PROVE  FALSE
  <2> DEFINE S == {w \in Places(l, "written") : w < i}
  <2>1. S \in SUBSET (0..Len(l)) /\ S # {}
    BY <1>0, <1>2
  <2>2. PICK w \in S : \A y \in S : w <= y
    <3> HIDE DEF S
    <3> QED
      BY <1>0, <2>1, LeastExists
  <2>3. w \in Places(l, "written") /\ w < i /\ w \in 1..Len(l) /\ i \in 1..Len(l)
    BY <1>0, <2>2
  <2>4. \A v \in Places(l, "written") : ~(v < w)
    <3> SUFFICES ASSUME NEW v \in Places(l, "written"), v < w PROVE FALSE
      OBVIOUS
    <3>1. v \in 1..Len(l) /\ v < i
      BY <1>0, <2>3
    <3> QED
      BY <1>0, <2>2, <2>3, <3>1
  <2>5. l[w].data.action = "run-lead-writer"
    BY <1>1, <2>3, <2>4
  <2> DEFINE r == l[w].data.request
             s == l[i].data.request
  <2>6. /\ r \in Places(l, "requested") /\ s \in Places(l, "requested")
        /\ l[r].data.action = "run-lead-writer" /\ l[s].data.action = "run-lead-writer"
        /\ l[w].id = <<"written", r>> /\ l[i].id = <<"written", s>>
    BY <1>2, <2>3, <2>5, WasAnswered
  <2>7. r \in 1..Len(l) /\ s \in 1..Len(l)
    BY <1>0, <2>6, PlacesFinite
  <2> HIDE DEF r, s
  <2>8. l[r].id = l[s].id
    BY <2>6, ImplementationId
  <2>9. r = s
    BY <1>0, <2>7, <2>8
  <2>10. w = i
    BY <1>0, <2>3, <2>6, <2>9
  <2> QED
    BY <1>0, <2>3, <2>10
<1> QED
  BY <1>1, <1>2

\* So the batches are all of the writer's completions but one.
LEMMA RoundsAreCounted ==
    ASSUME NEW l, Sequel(l), NEW n \in 0..Len(l), Places(First(l, n), "written") # {}
    PROVE  /\ Cardinality(Places(First(l, n), "written")) = CorrectionBatches(First(l, n)) + 1
           /\ CorrectionBatches(First(l, n)) \in Nat
<1> DEFINE k == First(l, n)
           S == Places(k, "written")
<1>1. /\ IsLog(l) /\ Len(l) \in Nat /\ n \in Nat
      /\ \A i \in 1..n : k[i] = l[i]
      /\ S = {i \in Places(l, "written") : i <= n}
      /\ IsLog(k) /\ Len(k) = n
  BY FirstFacts, LogShape DEF Sequel, Extends
<1>2. S \in SUBSET (0..n) /\ S \subseteq 1..n /\ IsFiniteSet(S) /\ S # {}
  BY <1>1, PlacesFinite
<1> HIDE DEF k, S
<1>3. PICK first \in S : \A i \in S : first <= i
  BY <1>1, <1>2, LeastExists
<1>4. ASSUME NEW i \in S PROVE k[i].data.action = "run-correction" <=> i # first
  <2>1. i \in Places(l, "written") /\ first \in Places(l, "written") /\ k[i] = l[i]
        /\ i \in 1..n /\ first \in 1..n
    BY <1>1, <1>2, <1>3
  <2>2. Places(l, "written") \subseteq 1..Len(l)
    BY <1>1, PlacesFinite
  <2>3. (\A w \in Places(l, "written") : ~(w < i)) <=> i = first
    <3>1. i = first => \A w \in Places(l, "written") : ~(w < i)
      BY <1>1, <1>3, <2>1, <2>2
    <3>2. i # first => first < i
      BY <1>3, <2>1
    <3> QED
      BY <2>1, <3>1, <3>2
  <2> QED
    BY <2>1, <2>3, ImplementationIsFirst
<1>5. {i \in S : k[i].data.action = "run-correction"} = S \ {first}
  BY <1>4
<1>6. Cardinality(S \ {first}) = Cardinality(S) - 1
  BY <1>2, <1>3, FS_RemoveElement
<1>7. CorrectionBatches(k) = Cardinality(S) - 1
  BY <1>5, <1>6 DEF CorrectionBatches, S
<1>8. Cardinality(S) \in Nat /\ CorrectionBatches(k) \in Nat
  BY <1>1, <1>2, FS_CardinalityType, BatchesAreCounted
<1> QED
  BY <1>7, <1>8 DEF k, S

\* What Written counts.
LEMMA WrittenFacts ==
    ASSUME Sequel(log), NEW c, NEW d
    PROVE  LET W(x) == {w \in Places(log, "written") : w < x}
           IN  /\ IsFiniteSet(W(c)) /\ Written(c) \in Nat /\ Written(c) = Cardinality(W(c))
               /\ W(c) \subseteq W(d) => Written(c) <= Written(d)
               /\ W(c) \subseteq W(d) /\ W(c) # W(d) => Written(c) < Written(d)
               /\ Written(c) = 0 <=> W(c) = {}
<1> DEFINE W(x) == {w \in Places(log, "written") : w < x}
<1>1. \A x : W(x) \subseteq Places(log, "written")
  OBVIOUS
<1>2. IsFiniteSet(Places(log, "written"))
  BY PlacesFinite DEF Sequel
<1>3. \A x : IsFiniteSet(W(x))
  BY <1>1, <1>2, FS_Subset
<1>4. \A x : Written(x) = Cardinality(W(x))
  BY Zenon DEF Written
<1> HIDE DEF W
<1>5. \A x : Cardinality(W(x)) \in Nat
  BY <1>3, FS_CardinalityType
<1>6. W(c) \subseteq W(d) => Cardinality(W(c)) <= Cardinality(W(d))
  BY <1>3, FS_Subset
<1>7. W(c) \subseteq W(d) /\ W(c) # W(d) => Cardinality(W(c)) < Cardinality(W(d))
  BY <1>3, <1>5, <1>6, FS_Subset
<1>8. Cardinality(W(c)) = 0 <=> W(c) = {}
  BY <1>3, FS_EmptySet
<1> QED
  BY <1>3, <1>4, <1>5, <1>6, <1>7, <1>8 DEF W

\* What a request for corrections says of the round it was decided in.
LEMMA CorrectionFacts ==
    ASSUME Sequel(log), NEW c \in Corrections("requested")
    PROVE  \E n \in 1..(c - 1) :
              LET k == First(log, n)
              IN  /\ c \in 2..Len(log) /\ n \in 1..Len(log) /\ Decided(k, log[c])
                  /\ Places(k, "written") # {} /\ Accepted(k) # {}
                  /\ log[c].data.round = Cardinality(Places(k, "written")) + 1
                  /\ log[c].data.round = CorrectionBatches(k) + 2
                  /\ log[c].data.round \in {2, 3}
                  /\ \A f \in log[c].data.findings :
                       \E i \in Places(k, "reviewed") : f \in k[i].data.report.raised
<1>1. c \in Places(log, "requested") /\ log[c].kind = "requested"
      /\ log[c].data.action = "run-correction"
  BY DEF Corrections, Places
<1>2. PICK n \in 1..(c - 1) : c \in 2..Len(log) /\ Decided(First(log, n), log[c])
  BY <1>1, WasDecided
<1> DEFINE k == First(log, n)
<1>3. n \in 1..Len(log) /\ n \in 0..Len(log)
  BY <1>2, LogShape DEF Sequel
<1>4. /\ Places(k, "written") # {} /\ Accepted(k) # {}
      /\ log[c].data.round = Cardinality(Places(k, "written")) + 1
      /\ CorrectionBatches(k) < MaxCorrectionBatches
      /\ \A f \in log[c].data.findings :
            \E i \in Places(k, "reviewed") : f \in k[i].data.report.raised
  BY <1>1, <1>2 DEF Decided
<1>5. /\ Cardinality(Places(k, "written")) = CorrectionBatches(k) + 1
      /\ CorrectionBatches(k) \in Nat
  BY <1>3, <1>4, RoundsAreCounted
<1>6. log[c].data.round = CorrectionBatches(k) + 2 /\ log[c].data.round \in {2, 3}
  BY <1>4, <1>5 DEF MaxCorrectionBatches
<1> QED
  BY <1>2, <1>3, <1>4, <1>6

-----------------------------------------------------------------------------
(* The properties of the runs *)

\* The writer implements once: however many dispatches ask for it, and however
\* late, the request is one event and so is its completion.
THEOREM TheImplementationIsOne == Spec => []ImplementedOnce
<1>1. ASSUME TeamInv PROVE ImplementedOnce
  <2> SUFFICES ASSUME NEW i \in Places(log, "written")
               PROVE  log[i].data.action = "run-lead-writer" <=> Written(i) = 0
    BY DEF ImplementedOnce
  <2>1. Sequel(log)
    BY <1>1 DEF TeamInv
  <2>2. Written(i) = 0 <=> {w \in Places(log, "written") : w < i} = {}
    BY <2>1, WrittenFacts
  <2>3. log[i].data.action = "run-lead-writer" <=> \A w \in Places(log, "written") : ~(w < i)
    BY <2>1, ImplementationIsFirst
  <2> QED
    BY <2>2, <2>3
<1> QED
  BY <1>1, TeamInvariant, PTL

\* Every batch of corrections the writer is asked for answers a review of the
\* round before, whatever the dispatches that race decided and on whichever
\* logs, and names only findings that a review had raised by then.
THEOREM CorrectionsHaveCause == Spec => []CorrectionHasCause
<1>1. ASSUME TeamInv, NEW c \in Corrections("requested")
      PROVE  LET round == log[c].data.round
                 reviews == {i \in Places(log, "reviewed") : i < c /\ Written(i) < round}
             IN  /\ \E i \in reviews : Written(i) = round - 1 /\ log[i].data.round = round - 1
                 /\ \A f \in log[c].data.findings :
                      \E i \in reviews : f \in log[i].data.report.raised
  <2> DEFINE round == log[c].data.round
             W(x) == {w \in Places(log, "written") : w < x}
  <2>1. Sequel(log) /\ IsLog(log) /\ Len(log) \in Nat
    BY <1>1, LogShape DEF TeamInv, Sequel
  <2>2. PICK n \in 1..(c - 1) :
          LET k == First(log, n)
          IN  /\ c \in 2..Len(log) /\ n \in 1..Len(log)
              /\ Places(k, "written") # {} /\ Accepted(k) # {}
              /\ round = Cardinality(Places(k, "written")) + 1
              /\ round = CorrectionBatches(k) + 2 /\ round \in {2, 3}
              /\ \A f \in log[c].data.findings :
                   \E i \in Places(k, "reviewed") : f \in k[i].data.report.raised
    BY <2>1, CorrectionFacts
  <2> DEFINE k == First(log, n)
  <2>3. /\ n \in 0..Len(log) /\ n < c /\ IsLog(k)
        /\ \A i \in 1..n : k[i] = log[i]
        /\ Places(k, "written") = {i \in Places(log, "written") : i <= n}
        /\ Places(k, "reviewed") = {i \in Places(log, "reviewed") : i <= n}
    <3>1. n \in 0..Len(log) /\ n < c
      BY <2>1, <2>2
    <3> QED
      BY <2>1, <3>1, FirstFacts DEF Extends
  <2>4. /\ Places(log, "written") \subseteq 1..Len(log)
        /\ Places(log, "reviewed") \subseteq 1..Len(log)
    BY <2>1, PlacesFinite
  <2> HIDE DEF k
  <2>5. /\ Places(k, "written") # {} /\ Accepted(k) # {}
        /\ round = Cardinality(Places(k, "written")) + 1
        /\ round = CorrectionBatches(k) + 2 /\ round \in {2, 3}
        /\ \A f \in log[c].data.findings :
             \E i \in Places(k, "reviewed") : f \in k[i].data.report.raised
    BY <2>2 DEF k
  <2>6. Places(k, "written") = W(n + 1)
    BY <2>3, <2>4
  <2>7. Written(n + 1) = round - 1
    <3>1. Written(n + 1) = Cardinality(W(n + 1)) /\ Written(n + 1) \in Nat
      BY <2>1, WrittenFacts
    <3> QED
      BY <2>5, <2>6, <3>1
  <2>8. ASSUME NEW i \in Places(k, "reviewed")
        PROVE  /\ i \in Places(log, "reviewed") /\ i < c /\ k[i] = log[i]
               /\ Written(i) \in Nat /\ Written(i) < round
    <3>1. i \in Places(log, "reviewed") /\ i <= n /\ i \in 1..Len(log)
      BY <2>3, <2>4
    <3>2. i < c /\ k[i] = log[i]
      BY <2>2, <2>3, <3>1
    <3>3. W(i) \subseteq W(n + 1)
      BY <2>3, <2>4, <3>1
    <3>4. Written(i) <= Written(n + 1) /\ Written(i) \in Nat /\ Written(n + 1) \in Nat
      BY <2>1, <3>3, WrittenFacts
    <3> HIDE DEF round
    <3> QED
      BY <2>5, <2>7, <3>1, <3>2, <3>4
  <2>9. PICK i \in Accepted(k) : TRUE
    BY <2>5
  <2>10. /\ i \in Places(k, "reviewed") /\ k[i].data.round = CorrectionBatches(k) + 1
         /\ i > LastWritten(k) /\ LastWritten(k) \in Places(k, "written")
    <3>1. i \in Window(k) /\ i \in Places(k, "reviewed") /\ LastWritten(k) \in Places(k, "written")
      BY <2>3, <2>5, ReviewFacts
    <3> QED
      BY <3>1 DEF Accepted, InRound, Window
  <2>11. \A w \in Places(k, "written") : w <= LastWritten(k)
    BY <2>3, <2>5, PlacesFinite, MaxIsGreatest DEF LastWritten
  <2>12. W(i) = W(n + 1)
    <3>1. i \in 1..Len(log) /\ i <= n
      BY <2>3, <2>4, <2>10
    <3>2. \A w \in W(n + 1) : w < i
      <4>1. \A w \in W(n + 1) : w <= LastWritten(k) /\ w \in 1..Len(log)
        BY <2>4, <2>6, <2>11
      <4>2. LastWritten(k) \in 1..Len(log)
        BY <2>4, <2>6, <2>10
      <4>3. i > LastWritten(k)
        BY <2>10
      <4> HIDE DEF W
      <4> QED
        BY <3>1, <4>1, <4>2, <4>3
    <3>3. \A w \in W(i) : w < n + 1
      BY <2>3, <2>4, <3>1
    <3> QED
      BY <3>2, <3>3
  <2>13. Written(i) = round - 1
    BY <2>7, <2>12, Zenon DEF Written
  <2>14. log[i].data.round = round - 1
    <3>1. CorrectionBatches(k) \in Nat /\ round = CorrectionBatches(k) + 2
      BY <2>3, <2>5, BatchesAreCounted
    <3>2. log[i].data.round = CorrectionBatches(k) + 1
      BY <2>8, <2>10
    <3> HIDE DEF round
    <3> QED
      BY <3>1, <3>2
  <2> DEFINE reviews == {x \in Places(log, "reviewed") : x < c /\ Written(x) < round}
  <2>15. \A x \in Places(k, "reviewed") : x \in reviews /\ k[x] = log[x]
    BY <2>8
  <2> HIDE DEF round
  <2>16. \A f \in log[c].data.findings : \E x \in reviews : f \in log[x].data.report.raised
    BY <2>5, <2>15
  <2>17. \E x \in reviews : Written(x) = round - 1 /\ log[x].data.round = round - 1
    BY <2>10, <2>13, <2>14, <2>15
  <2> QED
    BY <2>16, <2>17 DEF round
<1>2. TeamInv => CorrectionHasCause
  BY <1>1, Zenon DEF CorrectionHasCause
<1> QED
  BY <1>2, TeamInvariant, PTL

\* A mission that closes as completed was reviewed and verified when that was
\* decided, at some moment before it closed.
THEOREM CompletionWasReviewed == Spec => []CompletedWasReviewed
<1>1. ASSUME TeamInv, NEW c \in Places(log, "closed"), log[c].data.reason = "completed"
      PROVE  \E k \in 1..(c - 1) : ReviewedAndVerified(SubSeq(log, 1, k))
  <2>1. PICK n \in 1..(c - 1) : Decided(First(log, n), log[c])
    BY <1>1, WasDecided DEF TeamInv
  <2>2. log[c].kind = "closed"
    BY DEF Places
  <2>3. ReviewedAndVerified(First(log, n))
    BY <1>1, <2>1, <2>2 DEF Decided
  <2> QED
    BY <2>3 DEF First
<1>2. TeamInv => CompletedWasReviewed
  BY <1>1, Zenon DEF CompletedWasReviewed
<1> QED
  BY <1>2, TeamInvariant, PTL

\* Of the batches that were asked for in the round they were decided in, the
\* writer completes two at most: one in the second round and one in the third.
THEOREM TimelyCorrectionsStayBounded == Spec => []TimelyCorrectionsAreBounded
<1>1. ASSUME TeamInv PROVE TimelyCorrectionsAreBounded
  <2> DEFINE R(c) == log[c].data.request
             Round(c) == log[R(c)].data.round
             S == {c \in Corrections("written") : log[log[c].data.request].data.round
                                                    = Written(log[c].data.request) + 1}
             W(x) == {w \in Places(log, "written") : w < x}
  <2>1. /\ Sequel(log) /\ IsLog(log) /\ Len(log) \in Nat
        /\ \A x, y \in 1..Len(log) : log[x].id = log[y].id => x = y
        /\ Places(log, "written") \subseteq 1..Len(log)
    BY <1>1, PlacesFinite DEF TeamInv, Sequel
  <2>2. ASSUME NEW c \in S
        PROVE  /\ c \in Places(log, "written") /\ c \in 1..Len(log) /\ log[c].kind = "written"
               /\ R(c) \in Places(log, "requested") /\ R(c) \in 2..(c - 1) /\ R(c) \in 1..Len(log)
               /\ log[R(c)].kind = "requested"
               /\ \A s \in Places(log, "requested") : s < c => s <= R(c)
               /\ log[c].id = <<"written", R(c)>>
               /\ Round(c) = Written(R(c)) + 1 /\ Round(c) \in {2, 3}
    <3>1. c \in Places(log, "written") /\ log[c].data.action = "run-correction"
          /\ Round(c) = Written(R(c)) + 1 /\ log[c].kind = "written"
      BY DEF Corrections, Places
    <3>2. /\ c \in 1..Len(log) /\ R(c) \in Places(log, "requested") /\ R(c) \in 2..(c - 1)
          /\ \A s \in Places(log, "requested") : s < c => s <= R(c)
          /\ log[c].data.action = log[R(c)].data.action /\ log[c].id = <<"written", R(c)>>
      BY <2>1, <3>1, WasAnswered
    <3>3. R(c) \in Corrections("requested")
      BY <3>1, <3>2 DEF Corrections
    <3>4. Round(c) \in {2, 3}
      BY <2>1, <3>3, CorrectionFacts
    <3>5. R(c) \in 1..Len(log) /\ log[R(c)].kind = "requested"
      BY <2>1, <3>2 DEF Places
    <3> QED
      BY <3>1, <3>2, <3>4, <3>5
  <2> HIDE DEF S, R, Round, W
  <2>3. ASSUME NEW c \in S, NEW d \in S, c < d, Round(c) = Round(d) PROVE FALSE
    <3>1. Written(R(c)) = Written(R(d)) /\ Written(R(c)) \in Nat /\ Written(R(d)) \in Nat
      <4>1. Written(R(c)) \in Nat /\ Written(R(d)) \in Nat
        BY <2>1, WrittenFacts
      <4>2. Written(R(c)) + 1 = Written(R(d)) + 1
        BY <2>2, <2>3
      <4> QED
        BY <4>1, <4>2
    <3>2. CASE R(d) < c
      <4>1. R(d) <= R(c)
        BY <2>2, <3>2
      <4>2. R(c) <= R(d)
        BY <2>1, <2>2, <2>3
      <4>3. R(c) = R(d)
        BY <2>2, <4>1, <4>2
      <4>4. log[c].id = log[d].id
        BY <2>2, <4>3
      <4>5. c = d
        BY <2>1, <2>2, <4>4
      <4> QED
        BY <2>2, <2>3, <4>5
    <3>3. CASE R(d) > c
      <4>1. W(R(c)) \subseteq W(R(d)) /\ c \in W(R(d)) /\ c \notin W(R(c))
        BY <2>1, <2>2, <3>3 DEF W
      <4>2. Written(R(c)) < Written(R(d))
        BY <2>1, <4>1, WrittenFacts DEF W
      <4> QED
        BY <3>1, <4>2
    <3>4. R(d) # c
      BY <2>2
    <3> QED
      BY <2>2, <3>2, <3>3, <3>4
  <2>4. \A c, d \in S : Round(c) = Round(d) => c = d
    BY <2>2, <2>3
  <2> DEFINE g == [c \in S |-> Round(c)]
  <2>5. g \in Injection(S, {2, 3})
    BY <2>2, <2>4 DEF Injection, IsInjective
  <2>6. IsFiniteSet({2, 3}) /\ Cardinality({2, 3}) = 2
    <3>1. IsFiniteSet({2}) /\ Cardinality({2}) = 1
      BY FS_Singleton
    <3>2. {2, 3} = {2} \cup {3} /\ 3 \notin {2}
      OBVIOUS
    <3>3. /\ IsFiniteSet({2} \cup {3})
          /\ Cardinality({2} \cup {3}) = Cardinality({2}) + 1
      BY <3>1, <3>2, FS_AddElement
    <3> QED
      BY <3>1, <3>2, <3>3
  <2> HIDE DEF g
  <2>7. Cardinality(S) <= 2
    BY <2>5, <2>6, FS_Injection
  <2> QED
    BY <2>7 DEF TimelyCorrectionsAreBounded, MaxCorrectionBatches, S
<1> QED
  BY <1>1, TeamInvariant, PTL
=============================================================================
