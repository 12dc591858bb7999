------------------------ MODULE MissionLifecycleProofs ------------------------
(***************************************************************************)
(* Theorems about MissionLifecycle, for any number of command processes,   *)
(* reasons, requests and events: every recovery in the log reproduces from *)
(* its own prefix, those who close an episode agree on why, the lead       *)
(* writer's work stays in the episode it was asked for, and the commands   *)
(* together keep to MissionEpisodes.                                       *)
(***************************************************************************)
EXTENDS MissionLifecycle, FiniteSetTheorems, WellFoundedInduction, TLAPS

-----------------------------------------------------------------------------
(* Maxima *)

\* A set of numbers up to D that is not empty has a greatest element: of the
\* intervals that begin in it, one is the smallest.
LEMMA GreatestExists ==
    ASSUME NEW D \in Nat, NEW S \in SUBSET (0..D), S # {}
    PROVE  \E m \in S : \A x \in S : m >= x
<1> DEFINE Above == {x..D : x \in S}
<1>1. Above # {} /\ \A y \in Above : y \subseteq 0..D
  <2>1. Above # {}
    BY Zenon
  <2>2. \A x \in S : x..D \subseteq 0..D
    OBVIOUS
  <2> QED
    BY <2>1, <2>2, Zenon
<1>2. Above \subseteq FiniteSubsetsOf(0..D)
  <2>1. IsFiniteSet(0..D)
    BY FS_Interval
  <2>2. \A y \in Above : IsFiniteSet(y)
    BY <1>1, <2>1, FS_Subset
  <2> QED
    BY <1>1, <2>2 DEF FiniteSubsetsOf
<1>3. PICK y \in Above : \A z \in Above : <<z, y>> \notin StrictSubsetOrdering(0..D)
  <2>1. IsWellFoundedOn(StrictSubsetOrdering(0..D), FiniteSubsetsOf(0..D))
    BY FS_StrictSubsetOrderingWellFounded
  <2> HIDE DEF Above
  <2> QED
    BY <1>1, <1>2, <2>1, WFMin, Zenon
<1>4. PICK m \in S : y = m..D
  OBVIOUS
<1>5. ASSUME NEW x \in S, x > m PROVE FALSE
  <2>1. x..D \in Above /\ x..D \subseteq 0..D /\ y \subseteq 0..D
    BY <1>1
  <2>2. x..D \subseteq y /\ x..D # y
    BY <1>4, <1>5
  <2> QED
    BY <1>3, <2>1, <2>2 DEF StrictSubsetOrdering
<1> QED
  BY <1>5

\* Max is that element, and the only one.
LEMMA MaxIsGreatest ==
    ASSUME NEW D \in Nat, NEW S \in SUBSET (0..D), S # {}
    PROVE  /\ Max(S) \in S /\ \A x \in S : x <= Max(S)
           /\ \A m \in S : (\A x \in S : x <= m) => Max(S) = m
<1>1. PICK m \in S : \A x \in S : m >= x
  BY GreatestExists
<1>2. Max(S) \in S /\ \A x \in S : Max(S) >= x
  BY <1>1, Zenon DEF Max
<1>3. ASSUME NEW g \in S, \A x \in S : x <= g PROVE Max(S) = g
  <2>1. Max(S) <= g /\ Max(S) >= g
    BY <1>2, <1>3, Zenon
  <2>2. \A x \in S : x \in Int
    OBVIOUS
  <2>3. g \in Int /\ Max(S) \in Int
    BY <1>2, <2>2, Zenon
  <2> QED
    BY <2>1, <2>3
<1>4. \A x \in S : x <= Max(S)
  BY <1>2
<1> QED
  BY <1>2, <1>3, <1>4

-----------------------------------------------------------------------------
(* Logs and their prefixes *)

IsLog(l) == \E S : l \in Seq(S)

\* The shape of a log.
LEMMA LogShape ==
    ASSUME NEW l, IsLog(l)
    PROVE  Len(l) \in Nat /\ DOMAIN l = 1..Len(l)
BY DEF IsLog

\* One more event, and every prefix stays.
LEMMA Appended ==
    ASSUME NEW l, IsLog(l), NEW e
    PROVE  /\ IsLog(Append(l, e)) /\ Len(Append(l, e)) = Len(l) + 1
           /\ DOMAIN Append(l, e) = 1..(Len(l) + 1) /\ Append(l, e)[Len(l) + 1] = e
           /\ \A i \in 1..Len(l) : Append(l, e)[i] = l[i]
<1>1. PICK S : l \in Seq(S)
  BY DEF IsLog
<1>2. l \in Seq(S \cup {e}) /\ e \in S \cup {e}
  BY <1>1
<1>3. Append(l, e) \in Seq(S \cup {e})
  BY <1>2
<1> QED
  BY <1>2, <1>3 DEF IsLog

\* The shape of a prefix.
LEMMA Prefix ==
    ASSUME NEW l, IsLog(l), NEW n \in 0..Len(l)
    PROVE  /\ IsLog(SubSeq(l, 1, n)) /\ Len(SubSeq(l, 1, n)) = n
           /\ DOMAIN SubSeq(l, 1, n) = 1..n
           /\ \A i \in 1..n : SubSeq(l, 1, n)[i] = l[i]
<1>1. PICK S : l \in Seq(S)
  BY DEF IsLog
<1>2. SubSeq(l, 1, n) \in Seq(S)
  BY <1>1
<1> QED
  BY <1>1, <1>2 DEF IsLog

\* One more event leaves every prefix as it was.
LEMMA PrefixStays ==
    ASSUME NEW l, IsLog(l), NEW e, NEW n \in 0..Len(l)
    PROVE  SubSeq(Append(l, e), 1, n) = SubSeq(l, 1, n)
<1>1. Len(l) \in Nat
  BY LogShape
<1>2. /\ SubSeq(Append(l, e), 1, n) = [i \in 1..n |-> Append(l, e)[i]]
      /\ SubSeq(l, 1, n) = [i \in 1..n |-> l[i]]
  BY <1>1
<1> QED
  BY <1>1, <1>2, Appended

\* A log is its own longest prefix.
LEMMA WholePrefix ==
    ASSUME NEW l, IsLog(l)
    PROVE  /\ SubSeq(l, 1, Len(l)) = l
           /\ \A e : SubSeq(Append(l, e), 1, Len(l) + 1) = Append(l, e)
BY DEF IsLog

\* What an event adds to the places of its kind.
LEMMA AppendedPlaces ==
    ASSUME NEW l, IsLog(l), NEW e
    PROVE  /\ \A kind : Places(Append(l, e), kind) =
                           Places(l, kind) \cup (IF e.kind = kind THEN {Len(l) + 1} ELSE {})
           /\ \A id : PlacesOf(Append(l, e), id) =
                         PlacesOf(l, id) \cup (IF e.id = id THEN {Len(l) + 1} ELSE {})
           /\ Boundaries(Append(l, e)) = Boundaries(l) \cup
                 (IF e.kind \in {"started", "closed", "recovered"} THEN {Len(l) + 1} ELSE {})
<1>1. /\ DOMAIN Append(l, e) = (DOMAIN l) \cup {Len(l) + 1}
      /\ Append(l, e)[Len(l) + 1] = e /\ Len(l) + 1 \notin DOMAIN l
      /\ \A i \in DOMAIN l : Append(l, e)[i] = l[i]
  BY LogShape, Appended
<1> QED
  BY <1>1 DEF Places, PlacesOf, Boundaries

-----------------------------------------------------------------------------
(* Boundaries of episodes *)

\* A log that begins with the mission's start.
Begins(l) == IsLog(l) /\ Len(l) >= 1 /\ l[1].kind = "started"

\* The last boundary of an episode is one, and the greatest.
LEMMA LastBoundary ==
    ASSUME NEW l, Begins(l)
    PROVE  LET last == Max(Boundaries(l))
           IN  /\ last \in Boundaries(l) /\ last \in 1..Len(l)
               /\ l[last].kind \in {"started", "closed", "recovered"}
               /\ \A i \in Boundaries(l) : i <= last
               /\ \A m \in Boundaries(l) : (\A i \in Boundaries(l) : i <= m) => last = m
<1>1. Len(l) \in Nat /\ DOMAIN l = 1..Len(l) /\ 1 \in Boundaries(l)
  BY LogShape DEF Begins, Boundaries
<1>2. Boundaries(l) \in SUBSET (0..Len(l)) /\ Boundaries(l) \subseteq DOMAIN l
  BY <1>1 DEF Boundaries
<1> QED
  BY <1>1, <1>2, MaxIsGreatest DEF Boundaries

\* So is the last one before a place.
LEMMA BoundaryBefore ==
    ASSUME NEW l, Begins(l), NEW place \in 2..Len(l)
    PROVE  /\ Before(l, place) \in Boundaries(l) /\ Before(l, place) \in 1..(place - 1)
           /\ \A i \in Boundaries(l) : i < place => i <= Before(l, place)
<1> DEFINE S == {i \in Boundaries(l) : i < place}
<1>1. Len(l) \in Nat /\ DOMAIN l = 1..Len(l) /\ 1 \in S /\ S \in SUBSET (0..Len(l))
  BY LogShape DEF Begins, Boundaries
<1>2. Max(S) \in S /\ \A x \in S : x <= Max(S)
  <2> HIDE DEF S
  <2> QED
    BY <1>1, MaxIsGreatest
<1>3. Before(l, place) = Max(S)
  BY DEF Before
<1> QED
  BY <1>1, <1>2, <1>3 DEF Boundaries

\* Two logs that agree up to n agree on the boundaries up to n.
Agree(k, l, n) ==
    /\ Begins(k) /\ Begins(l) /\ n \in 1..Len(k) /\ n \in 1..Len(l)
    /\ \A i \in 1..n : k[i] = l[i]

\* Two logs that agree up to n have the same boundaries up to n.
LEMMA SameBefore ==
    ASSUME NEW k, NEW l, NEW n, Agree(k, l, n), NEW i \in 2..n
    PROVE  /\ Before(k, i) = Before(l, i)
           /\ Closes(k, Before(k, i), i) <=> Closes(l, Before(l, i), i)
           /\ Reopens(k, Before(k, i), i) <=> Reopens(l, Before(l, i), i)
<1>1. /\ DOMAIN k = 1..Len(k) /\ DOMAIN l = 1..Len(l) /\ Len(k) \in Nat /\ Len(l) \in Nat
      /\ n \in 1..Len(k) /\ n \in 1..Len(l) /\ \A j \in 1..n : k[j] = l[j]
      /\ Begins(k) /\ Begins(l)
  BY LogShape DEF Agree, Begins
<1>2. {j \in Boundaries(k) : j < i} = {j \in Boundaries(l) : j < i}
  BY <1>1 DEF Boundaries
<1>3. Before(k, i) = Before(l, i)
  BY <1>2 DEF Before
<1>4. Before(l, i) \in 1..n
  <2>1. i \in 2..Len(l)
    BY <1>1
  <2>2. Before(l, i) \in 1..(i - 1)
    BY <1>1, <2>1, BoundaryBefore
  <2> QED
    BY <1>1, <2>2
<1>5. k[i] = l[i] /\ k[Before(l, i)] = l[Before(l, i)]
  BY <1>1, <1>4
<1> QED
  BY <1>3, <1>5 DEF Closes, Reopens, Stopped

\* Every prefix of a valid log is valid.
LEMMA PrefixValid ==
    ASSUME NEW l, Begins(l), IsValid(l), NEW n \in 1..Len(l)
    PROVE  Begins(SubSeq(l, 1, n)) /\ IsValid(SubSeq(l, 1, n))
<1> DEFINE k == SubSeq(l, 1, n)
<1>1. /\ IsLog(k) /\ Len(k) = n /\ DOMAIN k = 1..n /\ \A i \in 1..n : k[i] = l[i]
      /\ Len(l) \in Nat /\ DOMAIN l = 1..Len(l)
  BY Prefix, LogShape DEF Begins
<1> HIDE DEF k
<1>2. Begins(k) /\ Agree(k, l, n)
  BY <1>1 DEF Begins, Agree
<1>3. Places(k, "started") = {1}
  BY <1>1 DEF IsValid, Places
<1>4. ASSUME NEW i \in 1..n, k[i].kind \in {"closed", "recovered"} PROVE i \in 2..n
  BY <1>1, <1>4 DEF Begins
<1>5. \A i \in Places(k, "closed") : Closes(k, Before(k, i), i)
  BY <1>1, <1>2, <1>4, SameBefore DEF IsValid, Places
<1>6. \A i \in Places(k, "recovered") : Reopens(k, Before(k, i), i)
  BY <1>1, <1>2, <1>4, SameBefore DEF IsValid, Places
<1> QED
  BY <1>2, <1>3, <1>5, <1>6 DEF IsValid, k

\* A valid log stays valid with an event that closes or reopens what is last.
LEMMA AppendValid ==
    ASSUME NEW l, Begins(l), IsValid(l), NEW e, e.kind # "started",
           e.kind = "closed" => /\ l[Max(Boundaries(l))].kind # "closed"
                                /\ e.data.episode = Max(Boundaries(l)),
           e.kind = "recovered" => /\ Stopped(l, Max(Boundaries(l)))
                                   /\ e.data.request.closure = Max(Boundaries(l))
                                   /\ e.data.episode = l[Max(Boundaries(l))].data.episode
                                   /\ e.data.prior = Len(l)
    PROVE  Begins(Append(l, e)) /\ IsValid(Append(l, e))
<1> DEFINE k == Append(l, e)
           m == Len(l) + 1
           last == Max(Boundaries(l))
<1>1. /\ IsLog(k) /\ Len(k) = m /\ DOMAIN k = 1..m /\ \A i \in 1..Len(l) : k[i] = l[i]
      /\ Len(l) \in Nat /\ DOMAIN l = 1..Len(l) /\ k[m] = e /\ Len(l) >= 1
      /\ Boundaries(l) \subseteq 1..Len(l)
  BY Appended, LogShape DEF Begins, Boundaries
<1>2. /\ \A kind : Places(k, kind) = Places(l, kind) \cup (IF e.kind = kind THEN {m} ELSE {})
      /\ Boundaries(k) = Boundaries(l) \cup
            (IF e.kind \in {"started", "closed", "recovered"} THEN {m} ELSE {})
  BY AppendedPlaces DEF Begins
<1>3. last \in 1..Len(l)
  BY LastBoundary
<1> HIDE DEF k
<1>4. Begins(k) /\ Agree(k, l, Len(l))
  BY <1>1 DEF Begins, Agree
<1>5. Before(k, m) = last
  <2>1. {i \in Boundaries(k) : i < m} = Boundaries(l)
    BY <1>1, <1>2
  <2> QED
    BY <2>1 DEF Before
<1>6. m - 1 = Len(l) /\ k[last] = l[last] /\ k[m] = e
  BY <1>1, <1>3
<1> HIDE DEF m, last
<1>7. Places(k, "started") = {1}
  BY <1>2 DEF IsValid
<1>8. ASSUME NEW i \in DOMAIN l, l[i].kind \in {"closed", "recovered"} PROVE i \in 2..Len(l)
  BY <1>1, <1>8 DEF Begins
<1>9. \A i \in Places(k, "closed") : Closes(k, Before(k, i), i)
  <2>1. \A i \in Places(l, "closed") : Closes(k, Before(k, i), i)
    BY <1>4, <1>8, SameBefore DEF IsValid, Places
  <2>2. e.kind = "closed" => Closes(k, Before(k, m), m)
    BY <1>5, <1>6 DEF Closes, m, last
  <2> QED
    BY <1>2, <2>1, <2>2
<1>10. \A i \in Places(k, "recovered") : Reopens(k, Before(k, i), i)
  <2>1. \A i \in Places(l, "recovered") : Reopens(k, Before(k, i), i)
    BY <1>4, <1>8, SameBefore DEF IsValid, Places
  <2>2. e.kind = "recovered" => Reopens(k, Before(k, m), m)
    BY <1>5, <1>6 DEF Reopens, Stopped, m, last
  <2> QED
    BY <1>2, <2>1, <2>2
<1> QED
  BY <1>4, <1>7, <1>9, <1>10 DEF IsValid, k

\* What a life that is open, or closed, says of the log.
LEMMA LifeFacts ==
    ASSUME NEW l
    PROVE  LET life == ProjectMissionLifecycle(l)
               last == Max(Boundaries(l))
           IN  /\ life.status # "invalid" <=> IsValid(l)
               /\ IsOpen(l) <=> IsValid(l) /\ l[last].kind # "closed"
               /\ IsOpen(l) => life.episode = last /\ life.reason = "none"
               /\ life.status = "closed" <=> IsValid(l) /\ l[last].kind = "closed"
               /\ life.status = "closed" =>
                     /\ life.episode = l[last].data.episode /\ life.closure = last
                     /\ life.reason = l[last].data.reason
BY DEF ProjectMissionLifecycle, IsOpen

-----------------------------------------------------------------------------
(* The inductive invariant *)

\* An id says what kind of event it names.
Worded(event) == event.id[1] = event.kind

\* A completion is filed under the request it answers.
Answers(l, event) ==
    event.data.request \in Places(l, "requested") /\ event.id = <<"written", event.data.request>>

\* A receipt is what the log of its expected length admits.
Reproduces(l, event) ==
    LET asked == event.data.request
        prefix == SubSeq(l, 1, asked.expected)
    IN  /\ asked.expected \in 1..Len(l)
        /\ Admitted(prefix, asked)
        /\ event.data = Receipt(prefix, asked, event.data.observation)

\* What is true of the log: the ids are distinct, and with them every recovery
\* reproduces and every completion answers a request before it.
History(l) ==
    /\ Begins(l) /\ l[1] = Started
    /\ \A i, j \in DOMAIN l : l[i].id = l[j].id => i = j
    /\ \A i \in DOMAIN l : Worded(l[i])
    /\ \A i \in Places(l, "hook") : l[i].id = <<"hook", i - 1>>
    /\ IsValid(l)
    /\ RecoveriesReproduce(l)
    /\ \A i \in Places(l, "written") : Answers(l, l[i]) /\ l[i].data.request < i
    /\ \A i \in Places(l, "closed") : l[i].data.reason \in Reasons

DraftKinds == {"resumed", "requested", "written", "closed", "recovered"}

\* What is true of an event that is about to be written to the log.
Sound(l, event) ==
    /\ event.kind \in DraftKinds /\ Worded(event)
    /\ event.kind = "written" => Answers(l, event)
    /\ event.kind = "closed" => event.data.reason \in Reasons
    /\ event.kind = "recovered" => Reproduces(l, event)

\* The episode a place of a log belongs to.
EpisodeIn(l, place) == ProjectMissionLifecycle(SubSeq(l, 1, place)).episode

WorkIn(l) == \A i \in Places(l, "written") : EpisodeIn(l, i) = EpisodeIn(l, l[i].data.request)

Kept(l, closing) ==
    \E i \in Places(l, "closed") : closing = <<l[i].data.episode, l[i].data.reason>>

LifecycleInv ==
    /\ History(log) /\ Len(log) <= MaxEvents
    /\ draft = [p \in Procs |-> draft[p]] /\ request = [p \in Procs |-> request[p]]
    /\ \A p \in Procs : (~Idle(p) => Sound(log, draft[p])) /\ request[p].expected \in 0..Len(log)
    /\ \A closing \in told : Kept(log, closing)
    /\ WorkIn(log)

\* What a log that has grown still says.
LEMMA Grown ==
    ASSUME NEW l, IsLog(l), NEW e, NEW k, k = Append(l, e)
    PROVE  /\ IsLog(k) /\ Len(k) = Len(l) + 1 /\ Len(l) \in Nat
           /\ \A i \in DOMAIN l : k[i] = l[i]
           /\ \A kind : Places(l, kind) \subseteq Places(k, kind)
           /\ \A n \in 0..Len(l) : SubSeq(k, 1, n) = SubSeq(l, 1, n)
           /\ \A n \in 1..Len(l) : EpisodeIn(k, n) = EpisodeIn(l, n)
<1>1. /\ IsLog(k) /\ Len(k) = Len(l) + 1 /\ Len(l) \in Nat
      /\ \A i \in DOMAIN l : k[i] = l[i]
  BY LogShape, Appended
<1>2. \A kind : Places(l, kind) \subseteq Places(k, kind)
  BY AppendedPlaces
<1>3. \A n \in 0..Len(l) : SubSeq(k, 1, n) = SubSeq(l, 1, n)
  BY PrefixStays
<1>4. ASSUME NEW n \in 1..Len(l) PROVE EpisodeIn(k, n) = EpisodeIn(l, n)
  <2>1. SubSeq(k, 1, n) = SubSeq(l, 1, n)
    BY <1>1, <1>3
  <2> QED
    BY <2>1, Zenon DEF EpisodeIn
<1> QED
  BY <1>1, <1>2, <1>3, <1>4

\* Requests and receipts that were well founded stay so, and so does every
\* closure that somebody was told of.
LEMMA StillFounded ==
    ASSUME NEW l, IsLog(l), NEW e, NEW k, k = Append(l, e)
    PROVE  /\ \A d : Answers(l, d) => Answers(k, d)
           /\ \A d : Reproduces(l, d) => Reproduces(k, d)
           /\ \A d : Sound(l, d) => Sound(k, d)
           /\ \A d : Kept(l, d) => Kept(k, d)
<1>1. \A d : Answers(l, d) => Answers(k, d)
  BY Grown DEF Answers
<1>2. ASSUME NEW d, Reproduces(l, d) PROVE Reproduces(k, d)
  <2>1. d.data.request.expected \in 1..Len(l) /\ Len(l) \in Nat /\ Len(k) = Len(l) + 1
    BY <1>2, Grown DEF Reproduces
  <2>2. SubSeq(k, 1, d.data.request.expected) = SubSeq(l, 1, d.data.request.expected)
    BY <2>1, Grown
  <2>3. d.data.request.expected \in 1..Len(k)
    BY <2>1
  <2> QED
    BY <1>2, <2>2, <2>3 DEF Reproduces
<1>3. ASSUME NEW d, Kept(l, d) PROVE Kept(k, d)
  BY <1>3, Grown DEF Kept, Places
<1> QED
  BY <1>1, <1>2, <1>3 DEF Sound

\* A recovery that is written was admitted by the very log it joins.
LEMMA RecoveryIsCurrent ==
    ASSUME NEW l, IsLog(l), NEW e, e.data.request.expected = Len(l), Reproduces(l, e)
    PROVE  /\ Admitted(l, e.data.request)
           /\ e.data = Receipt(l, e.data.request, e.data.observation)
<1>1. SubSeq(l, 1, e.data.request.expected) = l
  BY WholePrefix
<1> QED
  BY <1>1 DEF Reproduces

\* The log keeps its shape with any event that the writer validates.
LEMMA WriteHistory ==
    ASSUME NEW l, History(l), NEW e, NEW k, k = Append(l, e),
           PlacesOf(l, e.id) = {}, Worded(e), e.kind # "started",
           e.kind = "hook" => e.id = <<"hook", Len(l)>>,
           e.kind = "written" => Answers(l, e),
           e.kind = "closed" => /\ IsOpen(l) /\ ProjectMissionLifecycle(l).episode = e.data.episode
                                /\ e.data.reason \in Reasons,
           e.kind = "recovered" => e.data.request.expected = Len(l) /\ Reproduces(l, e)
    PROVE  History(k)
<1> DEFINE m == Len(l) + 1
           last == Max(Boundaries(l))
<1>1. /\ IsLog(l) /\ Begins(l) /\ IsValid(l)
      /\ Len(l) \in Nat /\ Len(l) >= 1 /\ DOMAIN l = 1..Len(l)
      /\ Len(k) = m /\ DOMAIN k = 1..m /\ k[m] = e
      /\ \A i \in 1..Len(l) : k[i] = l[i]
      /\ \A kind : Places(k, kind) = Places(l, kind) \cup (IF e.kind = kind THEN {m} ELSE {})
      /\ \A kind : Places(l, kind) \subseteq 1..Len(l)
  BY LogShape, Appended, AppendedPlaces DEF History, Begins, Places
<1>2. e.kind = "recovered" =>
         /\ Admitted(l, e.data.request)
         /\ e.data = Receipt(l, e.data.request, e.data.observation)
  BY <1>1, RecoveryIsCurrent
<1>3. Begins(k) /\ IsValid(k)
  <2>1. e.kind = "closed" => l[last].kind # "closed" /\ e.data.episode = last
    BY LifeFacts
  <2>2. e.kind = "recovered" => /\ Stopped(l, last)
                                /\ e.data.request.closure = last
                                /\ e.data.episode = l[last].data.episode
                                /\ e.data.prior = Len(l)
    BY <1>2, LifeFacts DEF Admitted, Receipt, Stopped
  <2> QED
    BY <1>1, <2>1, <2>2, AppendValid
<1>4. k[1] = Started /\ \A i \in Places(k, "hook") : k[i].id = <<"hook", i - 1>>
  BY <1>1 DEF History
<1>5. \A i, j \in DOMAIN k : k[i].id = k[j].id => i = j
  <2>1. \A i \in DOMAIN l : l[i].id # e.id
    BY DEF PlacesOf
  <2>2. \A i \in DOMAIN k : i = m \/ i \in DOMAIN l
    BY <1>1
  <2> QED
    BY <1>1, <2>1, <2>2 DEF History
<1>6. \A i \in DOMAIN k : Worded(k[i])
  BY <1>1 DEF History
<1>7. RecoveriesReproduce(k)
  <2> SUFFICES ASSUME NEW i \in Places(k, "recovered")
               PROVE  /\ Admitted(SubSeq(k, 1, i - 1), k[i].data.request)
                      /\ k[i].data = Receipt(SubSeq(k, 1, i - 1), k[i].data.request,
                                                k[i].data.observation)
    BY DEF RecoveriesReproduce
  <2>1. CASE i \in Places(l, "recovered")
    <3>1. i - 1 \in 0..Len(l) /\ k[i] = l[i]
      BY <1>1, <2>1
    <3>2. SubSeq(k, 1, i - 1) = SubSeq(l, 1, i - 1)
      BY <1>1, <3>1, Grown
    <3> QED
      BY <2>1, <3>1, <3>2 DEF History, RecoveriesReproduce
  <2>2. CASE i = m /\ e.kind = "recovered"
    <3>1. i - 1 = Len(l) /\ SubSeq(k, 1, Len(l)) = l
      BY <1>1, <2>2, Grown, WholePrefix
    <3> QED
      BY <1>1, <1>2, <2>2, <3>1
  <2> QED
    BY <1>1, <2>1, <2>2
<1>8. \A i \in Places(k, "written") : Answers(k, k[i]) /\ k[i].data.request < i
  <2> SUFFICES ASSUME NEW i \in Places(k, "written")
               PROVE  Answers(l, k[i]) /\ k[i].data.request < i
    BY <1>1, StillFounded
  <2>1. CASE i \in Places(l, "written")
    BY <1>1, <2>1 DEF History
  <2>2. CASE i = m /\ e.kind = "written"
    <3>1. e.data.request \in 1..Len(l)
      BY <1>1, <2>2 DEF Answers
    <3> QED
      BY <1>1, <2>2, <3>1
  <2> QED
    BY <1>1, <2>1, <2>2
<1>9. \A i \in Places(k, "closed") : k[i].data.reason \in Reasons
  BY <1>1 DEF History
<1> QED
  BY <1>3, <1>4, <1>5, <1>6, <1>7, <1>8, <1>9, Zenon DEF History

\* A completion that is written answers a request of the current episode: had
\* the mission been recovered since, the request would be answered already.
LEMMA WorkIsCurrent ==
    ASSUME NEW l, History(l), NEW e, NEW k, k = Append(l, e), e.kind = "written",
           Answers(l, e), PlacesOf(l, e.id) = {}, IsOpen(l)
    PROVE  EpisodeIn(k, Len(l) + 1) = EpisodeIn(l, e.data.request)
<1> DEFINE last == Max(Boundaries(l))
           asked == e.data.request
           m == Len(l) + 1
<1>1. /\ IsLog(l) /\ Begins(l) /\ IsValid(l)
      /\ Len(l) \in Nat /\ Len(l) >= 1 /\ DOMAIN l = 1..Len(l)
      /\ asked \in 1..Len(l) /\ l[asked].kind = "requested"
      /\ Boundaries(l) \subseteq 1..Len(l)
  BY LogShape DEF History, Begins, Places, Boundaries, Answers
<1>2. /\ last \in Boundaries(l) /\ last \in 1..Len(l) /\ \A i \in Boundaries(l) : i <= last
      /\ l[last].kind \in {"started", "recovered"}
  BY <1>1, LastBoundary, LifeFacts
<1> HIDE DEF last, asked, m
<1>3. last < asked
  <2> SUFFICES ASSUME last > asked PROVE FALSE
    BY <1>1, <1>2
  <2>1. last \in Places(l, "recovered")
    <3>1. last # 1
      BY <1>1, <1>2
    <3>2. l[last].kind # "started"
      BY <1>1, <1>2, <3>1 DEF IsValid, Places
    <3> QED
      BY <1>1, <1>2, <3>2 DEF Places
  <2> DEFINE prefix == SubSeq(l, 1, last - 1)
  <2>2. ~AmbiguousEffects(prefix)
    BY <2>1 DEF History, RecoveriesReproduce, Admitted
  <2>3. DOMAIN prefix = 1..(last - 1) /\ \A i \in 1..(last - 1) : prefix[i] = l[i]
    BY <1>1, <1>2, Prefix
  <2> HIDE DEF prefix
  <2>4. asked \in Places(prefix, "requested")
    BY <1>1, <1>2, <2>3 DEF Places
  <2>5. PICK j \in Places(prefix, "written") : prefix[j].data.request = asked
    BY <2>2, <2>4 DEF AmbiguousEffects
  <2>6. j \in Places(l, "written") /\ l[j].data.request = asked
    BY <1>1, <1>2, <2>3, <2>5 DEF Places
  <2>7. l[j].id = e.id
    BY <2>6 DEF History, Answers, asked
  <2> QED
    BY <2>6, <2>7 DEF PlacesOf, Places
<1>4. EpisodeIn(l, asked) = last
  <2> DEFINE prefix == SubSeq(l, 1, asked)
  <2>1. /\ Begins(prefix) /\ IsValid(prefix) /\ DOMAIN prefix = 1..asked
        /\ \A i \in 1..asked : prefix[i] = l[i]
    BY <1>1, PrefixValid, Prefix
  <2> HIDE DEF prefix
  <2>2. \A i \in Boundaries(l) : i \in 1..asked
    BY <1>1, <1>2, <1>3
  <2>3. \A i \in DOMAIN prefix : i \in DOMAIN l
    BY <1>1, <2>1
  <2>4. Boundaries(prefix) = Boundaries(l)
    BY <2>1, <2>2, <2>3, Zenon DEF Boundaries
  <2>5. prefix[last] = l[last]
    BY <1>2, <2>1, <2>2
  <2>6. IsOpen(prefix) /\ ProjectMissionLifecycle(prefix).episode = last
    BY <1>2, <2>1, <2>4, <2>5, LifeFacts DEF last
  <2> QED
    BY <2>6 DEF EpisodeIn, prefix
<1>5. EpisodeIn(k, m) = last
  <2>1. IsValid(k) /\ Begins(k)
    BY <1>1, AppendValid
  <2>2. Boundaries(k) = Boundaries(l)
    <3>1. Boundaries(Append(l, e)) = Boundaries(l) \cup
              (IF e.kind \in {"started", "closed", "recovered"} THEN {Len(l) + 1} ELSE {})
      BY <1>1, AppendedPlaces, Zenon
    <3>2. e.kind \notin {"started", "closed", "recovered"}
      OBVIOUS
    <3> QED
      BY <3>1, <3>2
  <2>3. k[last] = l[last]
    BY <1>1, <1>2, Appended
  <2>4. IsOpen(k) /\ ProjectMissionLifecycle(k).episode = last
    BY <1>2, <2>1, <2>2, <2>3, LifeFacts DEF last
  <2>5. SubSeq(k, 1, m) = k
    BY <1>1, WholePrefix DEF m
  <2> QED
    BY <2>4, <2>5 DEF EpisodeIn
<1> QED
  BY <1>4, <1>5 DEF m, asked

\* Nothing that is written moves work to another episode.
LEMMA WorkStays ==
    ASSUME NEW l, History(l), WorkIn(l), NEW e, NEW k, k = Append(l, e),
           PlacesOf(l, e.id) = {}, e.kind = "written" => Answers(l, e) /\ IsOpen(l)
    PROVE  WorkIn(k)
<1>1. IsLog(l) /\ Len(l) \in Nat /\ DOMAIN l = 1..Len(l)
  BY LogShape DEF History, Begins
<1>2. /\ \A n \in 1..Len(l) : EpisodeIn(k, n) = EpisodeIn(l, n)
      /\ \A i \in DOMAIN l : k[i] = l[i]
  <2>1. \A n \in 1..Len(l) : EpisodeIn(k, n) = EpisodeIn(l, n)
    BY <1>1, Grown, Zenon
  <2>2. \A i \in DOMAIN l : k[i] = l[i]
    BY <1>1, Grown, Zenon
  <2> QED
    BY <2>1, <2>2
<1>3. ASSUME NEW i \in Places(l, "written")
      PROVE  EpisodeIn(k, i) = EpisodeIn(k, k[i].data.request)
  <2>1. i \in 1..Len(l) /\ l[i].data.request \in 1..Len(l)
    BY <1>1 DEF History, Places, Answers
  <2>2. EpisodeIn(l, i) = EpisodeIn(l, l[i].data.request)
    BY DEF WorkIn
  <2> QED
    BY <1>1, <1>2, <2>1, <2>2
<1>4. ASSUME e.kind = "written"
      PROVE  EpisodeIn(k, Len(l) + 1) = EpisodeIn(k, k[Len(l) + 1].data.request)
  <2>1. EpisodeIn(k, Len(l) + 1) = EpisodeIn(l, e.data.request)
    BY <1>4, WorkIsCurrent
  <2>2. e.data.request \in 1..Len(l) /\ k[Len(l) + 1] = e
    BY <1>1, <1>4, Appended DEF Places, Answers
  <2> QED
    BY <1>2, <2>1, <2>2
<1>5. \A i \in Places(k, "written") : i \in Places(l, "written") \/ (i = Len(l) + 1 /\ e.kind = "written")
  <2>1. k = Append(l, e)
    OBVIOUS
  <2>2. DOMAIN k = 1..(Len(l) + 1) /\ k[Len(l) + 1] = e
    BY <1>1, <2>1, Appended
  <2> QED
    BY <1>1, <1>2, <2>2 DEF Places
<1> QED
  BY <1>3, <1>4, <1>5 DEF WorkIn

-----------------------------------------------------------------------------
(* The steps *)

\* A command that decides on a sound event only changes its own draft.
LEMMA DecidingKeeps ==
    ASSUME LifecycleInv, NEW p \in Procs, NEW e, Sound(log, e), Decide(p, e), UNCHANGED told
    PROVE  LifecycleInv'
<1>1. draft' = [q \in Procs |-> IF q = p THEN e ELSE draft[q]]
  BY DEF LifecycleInv, Decide
<1>2. \A q \in Procs : Sound(log, draft'[q]) \/ (draft'[q] = draft[q])
  BY <1>1
<1>3. \A q \in Procs : ~Idle(q)' => Sound(log, draft[q])'
  BY <1>2 DEF LifecycleInv, Decide, Idle
<1> QED
  BY <1>1, <1>3 DEF LifecycleInv, Decide

\* The log grows by an event the writer has validated, and nobody is told of
\* a closure that it does not keep.
LEMMA GrowingKeeps ==
    ASSUME LifecycleInv, NEW e, log' = Append(log, e), Len(log) < MaxEvents,
           PlacesOf(log, e.id) = {}, Worded(e), e.kind # "started",
           e.kind = "hook" => e.id = <<"hook", Len(log)>>,
           e.kind = "written" => Answers(log, e) /\ IsOpen(log),
           e.kind = "closed" => /\ IsOpen(log) /\ ProjectMissionLifecycle(log).episode = e.data.episode
                                /\ e.data.reason \in Reasons,
           e.kind = "recovered" => e.data.request.expected = Len(log) /\ Reproduces(log, e),
           draft' = [p \in Procs |-> draft'[p]],
           \A p \in Procs : draft'[p] \in {draft[p], NoDraft},
           told' \subseteq told \cup Reported(e), UNCHANGED request
    PROVE  LifecycleInv'
<1>1. IsLog(log) /\ History(log) /\ WorkIn(log)
  BY DEF LifecycleInv, History, Begins
<1>2. History(log')
  BY <1>1, WriteHistory
<1>3. WorkIn(log')
  BY <1>1, WorkStays
<1>4. Len(log') = Len(log) + 1 /\ Len(log) \in Nat /\ log'[Len(log) + 1] = e
      /\ DOMAIN log' = 1..(Len(log) + 1)
  BY <1>1, LogShape, Appended
<1>5. Len(log') <= MaxEvents
  BY <1>4, LengthAssumption
<1>6. ASSUME NEW p \in Procs PROVE ~Idle(p)' => Sound(log, draft[p])'
  <2>1. draft'[p] # NoDraft => Sound(log, draft'[p])
    BY DEF LifecycleInv, Idle
  <2>2. draft'[p] # NoDraft => Sound(log', draft'[p])
    BY <1>1, <2>1, StillFounded
  <2> QED
    BY <2>2 DEF Idle
<1>7. \A p \in Procs : request'[p].expected \in 0..Len(log')
  BY <1>4 DEF LifecycleInv
<1>8. ASSUME NEW closing \in told' PROVE Kept(log', closing)
  <2>1. CASE closing \in told
    BY <1>1, <2>1, StillFounded DEF LifecycleInv
  <2>2. CASE closing \in Reported(e)
    <3>1. e.kind = "closed" /\ closing = <<e.data.episode, e.data.reason>>
      BY <2>2 DEF Reported
    <3>2. Len(log) + 1 \in Places(log', "closed")
      BY <1>4, <3>1 DEF Places
    <3> QED
      BY <1>4, <3>1, <3>2 DEF Kept
  <2> QED
    BY <2>1, <2>2
<1>9. request' = [p \in Procs |-> request'[p]]
  BY DEF LifecycleInv
<1> QED
  BY <1>2, <1>3, <1>5, <1>6, <1>7, <1>8, <1>9 DEF LifecycleInv

\* The facts about the log that every command reads.
LEMMA ReadFacts ==
    ASSUME LifecycleInv
    PROVE  /\ IsLog(log) /\ Begins(log) /\ IsValid(log) /\ History(log)
           /\ Len(log) \in Nat /\ Len(log) >= 1 /\ DOMAIN log = 1..Len(log)
           /\ \A kind : Places(log, kind) \in SUBSET (0..Len(log))
<1>1. /\ IsLog(log) /\ Begins(log) /\ IsValid(log) /\ History(log) /\ Len(log) >= 1
  BY DEF LifecycleInv, History, Begins
<1>2. Len(log) \in Nat /\ DOMAIN log = 1..Len(log)
  BY <1>1, LogShape
<1> QED
  BY <1>1, <1>2 DEF Places

\* A resumption is drafted on the log as read.
LEMMA ResumeKeeps ==
    ASSUME LifecycleInv, NEW p \in Procs, Resume(p)
    PROVE  LifecycleInv'
<1> DEFINE checkpoint == Max(DOMAIN log \ Places(log, "resumed"))
           e == Event("resumed", <<"resumed", checkpoint>>, [checkpoint |-> checkpoint])
<1>1. Decide(p, e) /\ UNCHANGED told
  BY DEF Resume
<1>2. e.kind = "resumed" /\ e.id[1] = "resumed"
  BY DEF Event
<1> HIDE DEF e
<1>3. Sound(log, e)
  BY <1>2 DEF Sound, Worded, DraftKinds
<1> QED
  BY <1>1, <1>3, DecidingKeeps

\* So is a request, in the episode that is open there.
LEMMA RequestWriterKeeps ==
    ASSUME LifecycleInv, NEW p \in Procs, RequestWriter(p)
    PROVE  LifecycleInv'
<1> DEFINE round == Cardinality(Places(log, "written")) + 1
           Asked(action) == Event("requested", <<"requested", round, action>>,
                                  [round |-> round, action |-> action])
<1>1. PICK action \in Actions : Decide(p, Asked(action))
  BY DEF RequestWriter
<1>2. Asked(action).kind = "requested" /\ Asked(action).id[1] = "requested"
  BY DEF Event
<1>3. UNCHANGED told
  BY DEF RequestWriter
<1> HIDE DEF Asked
<1>4. Sound(log, Asked(action))
  BY <1>2 DEF Sound, Worded, DraftKinds
<1> QED
  BY <1>1, <1>3, <1>4, DecidingKeeps

\* A completion answers a request of the log as read.
LEMMA CompleteWriterKeeps ==
    ASSUME LifecycleInv, NEW p \in Procs, CompleteWriter(p)
    PROVE  LifecycleInv'
<1> DEFINE latest == Max(Places(log, "requested"))
           e == Event("written", <<"written", latest>>, [request |-> latest])
<1>1. Decide(p, e) /\ UNCHANGED told /\ Places(log, "requested") # {}
  BY DEF CompleteWriter
<1>2. latest \in Places(log, "requested")
  BY <1>1, ReadFacts, MaxIsGreatest
<1>3. e.kind = "written" /\ e.id = <<"written", latest>> /\ e.data.request = latest
      /\ e.id[1] = "written"
  BY DEF Event
<1> HIDE DEF e, latest
<1>4. Sound(log, e)
  BY <1>2, <1>3 DEF Sound, Worded, DraftKinds, Answers
<1> QED
  BY <1>1, <1>4, DecidingKeeps

\* A closing keeps the reason of the episode it read, or its own.
LEMMA CloseKeeps ==
    ASSUME LifecycleInv, NEW p \in Procs, Close(p)
    PROVE  LifecycleInv'
<1> DEFINE life == ProjectMissionLifecycle(log)
           last == Max(Boundaries(log))
           Ending(reason) == Event("closed", <<"closed", life.episode>>,
                                   [episode |-> life.episode, reason |-> reason])
<1>1. PICK reason \in Reasons :
         \/ /\ life.status = "closed" /\ life.reason = reason
            /\ told' = told \cup {<<life.episode, reason>>}
            /\ UNCHANGED <<log, draft, request>>
         \/ Decide(p, Ending(reason)) /\ UNCHANGED told
  BY Zenon DEF Close
<1>2. CASE /\ life.status = "closed" /\ life.reason = reason
           /\ told' = told \cup {<<life.episode, reason>>}
           /\ UNCHANGED <<log, draft, request>>
  <2>1. /\ last \in Places(log, "closed")
        /\ <<life.episode, reason>> = <<log[last].data.episode, log[last].data.reason>>
    BY <1>2, LifeFacts, ReadFacts, LastBoundary DEF Places
  <2>2. Kept(log, <<life.episode, reason>>)
    BY <2>1, Zenon DEF Kept
  <2> HIDE DEF life
  <2> QED
    BY <1>2, <2>2 DEF LifecycleInv, Idle
<1>3. CASE Decide(p, Ending(reason)) /\ UNCHANGED told
  <2>1. /\ Ending(reason).kind = "closed" /\ Ending(reason).id[1] = "closed"
        /\ Ending(reason).data.reason = reason
    BY DEF Event
  <2> HIDE DEF Ending
  <2>2. Sound(log, Ending(reason))
    BY <2>1 DEF Sound, Worded, DraftKinds
  <2> QED
    BY <1>3, <2>2, DecidingKeeps
<1> QED
  BY <1>1, <1>2, <1>3

\* An operator's request is a file of its own.
LEMMA PrepareRequestKeeps ==
    ASSUME LifecycleInv, NEW p \in Procs, PrepareRequest(p)
    PROVE  LifecycleInv'
<1>1. UNCHANGED <<log, draft, told>>
  BY DEF PrepareRequest
<1>2. PICK closure, disposition :
         request' = [request EXCEPT ![p] =
            [closure |-> closure, expected |-> Len(log), disposition |-> disposition]]
  BY DEF PrepareRequest
<1>3. request' = [q \in Procs |-> IF q = p THEN [closure |-> closure, expected |-> Len(log),
                                                disposition |-> disposition] ELSE request[q]]
  BY <1>2 DEF LifecycleInv
<1>4. \A q \in Procs : request'[q].expected \in 0..Len(log)
  BY <1>3, ReadFacts DEF LifecycleInv
<1> QED
  BY <1>1, <1>3, <1>4 DEF LifecycleInv, Idle

\* A recovery is drafted with the receipt of the log as read.
LEMMA RecoverKeeps ==
    ASSUME LifecycleInv, NEW p \in Procs, Recover(p)
    PROVE  LifecycleInv'
<1> DEFINE Reopening(observation) == Event("recovered", <<"recovered", request[p]>>,
                                           Receipt(log, request[p], observation))
<1>1. PICK observation \in Observations : Decide(p, Reopening(observation))
  BY DEF Recover
<1>2. UNCHANGED told /\ Admitted(log, request[p])
  BY DEF Recover
<1>3. /\ Reopening(observation).kind = "recovered"
      /\ Reopening(observation).id[1] = "recovered"
      /\ Reopening(observation).data = Receipt(log, request[p], observation)
      /\ Reopening(observation).data.request = request[p]
      /\ Reopening(observation).data.observation = observation
  BY DEF Event, Receipt
<1> HIDE DEF Reopening
<1>4. request[p].expected = Len(log) /\ SubSeq(log, 1, Len(log)) = log
  BY <1>2, ReadFacts, WholePrefix DEF Admitted
<1>5. Reproduces(log, Reopening(observation))
  <2>1. Len(log) \in 1..Len(log)
    BY ReadFacts
  <2> QED
    BY <1>2, <1>3, <1>4, <2>1, Zenon DEF Reproduces
<1>6. Sound(log, Reopening(observation))
  BY <1>3, <1>5 DEF Sound, Worded, DraftKinds
<1> QED
  BY <1>1, <1>2, <1>6, DecidingKeeps

\* A draft is written after a validation of the whole log.
LEMMA WriteEventKeeps ==
    ASSUME LifecycleInv, NEW p \in Procs, WriteEvent(p)
    PROVE  LifecycleInv'
<1> DEFINE e == draft[p]
<1>1. /\ log' = Append(log, e) /\ Len(log) < MaxEvents /\ PlacesOf(log, e.id) = {}
      /\ told' \subseteq told \cup Reported(e) /\ UNCHANGED request
      /\ draft' = [q \in Procs |-> IF q = p THEN NoDraft ELSE draft[q]]
  BY DEF WriteEvent, AppendEvent, Ends, LifecycleInv
<1>2. Sound(log, e)
  BY DEF WriteEvent, LifecycleInv
<1>3. Validated(e)
  BY DEF WriteEvent
<1> HIDE DEF e
<1>4. /\ Worded(e) /\ e.kind # "started" /\ e.kind # "hook"
      /\ e.kind = "written" => Answers(log, e) /\ IsOpen(log)
      /\ e.kind = "closed" => /\ IsOpen(log) /\ ProjectMissionLifecycle(log).episode = e.data.episode
                              /\ e.data.reason \in Reasons
      /\ e.kind = "recovered" => e.data.request.expected = Len(log) /\ Reproduces(log, e)
  BY <1>2, <1>3 DEF Sound, DraftKinds, Validated, EpisodeStands, JournalStands
<1>5. /\ draft' = [q \in Procs |-> draft'[q]]
      /\ \A q \in Procs : draft'[q] \in {draft[q], NoDraft}
  BY <1>1
<1> QED
  BY <1>1, <1>4, <1>5, GrowingKeeps

\* An event that is there already is not written again.
LEMMA FindEventKeeps ==
    ASSUME LifecycleInv, NEW p \in Procs, FindEvent(p)
    PROVE  LifecycleInv'
<1> DEFINE e == draft[p]
<1>1. /\ told' = told \cup Reported(e) /\ UNCHANGED <<log, request>>
      /\ draft' = [q \in Procs |-> IF q = p THEN NoDraft ELSE draft[q]]
  BY DEF FindEvent, Ends, LifecycleInv
<1>2. Sound(log, e)
  BY DEF FindEvent, LifecycleInv
<1>3. PICK i \in PlacesOf(log, e.id) : log[i].data = e.data
  BY DEF FindEvent, SameEvent
<1> HIDE DEF e
<1>4. ASSUME NEW closing \in Reported(e) PROVE Kept(log, closing)
  <2>1. e.kind = "closed" /\ closing = <<e.data.episode, e.data.reason>>
    BY <1>4 DEF Reported
  <2>2. i \in DOMAIN log /\ log[i].id = e.id
    BY <1>3 DEF PlacesOf
  <2>3. log[i].kind = "closed"
    BY <1>2, <2>1, <2>2 DEF LifecycleInv, History, Sound, Worded
  <2> QED
    BY <1>3, <2>1, <2>2, <2>3 DEF Kept, Places
<1>5. \A closing \in told' : Kept(log', closing)
  BY <1>1, <1>4 DEF LifecycleInv
<1>6. draft' = [q \in Procs |-> draft'[q]] /\ \A q \in Procs : ~Idle(q)' => Sound(log, draft[q])'
  BY <1>1 DEF LifecycleInv, Idle
<1> QED
  BY <1>1, <1>5, <1>6 DEF LifecycleInv

\* A refused command writes nothing.
LEMMA RefuseKeeps ==
    ASSUME LifecycleInv, NEW p \in Procs, Refuse(p)
    PROVE  LifecycleInv'
<1>1. draft' = [q \in Procs |-> IF q = p THEN NoDraft ELSE draft[q]] /\ UNCHANGED <<log, request, told>>
  BY DEF Refuse, Ends, LifecycleInv
<1>2. draft' = [q \in Procs |-> draft'[q]] /\ \A q \in Procs : ~Idle(q)' => Sound(log, draft[q])'
  BY <1>1 DEF LifecycleInv, Idle
<1> QED
  BY <1>1, <1>2 DEF LifecycleInv

\* A hook event belongs to no episode.
LEMMA RecordHookKeeps ==
    ASSUME LifecycleInv, RecordHook
    PROVE  LifecycleInv'
<1> DEFINE e == Event("hook", <<"hook", Len(log)>>, << >>)
<1>1. log' = Append(log, e) /\ Len(log) < MaxEvents /\ UNCHANGED <<draft, request, told>>
  BY DEF RecordHook, AppendEvent
<1>2. e.kind = "hook" /\ e.id = <<"hook", Len(log)>> /\ e.id[1] = "hook"
  BY DEF Event
<1> HIDE DEF e
<1>3. ASSUME NEW i \in PlacesOf(log, e.id) PROVE FALSE
  <2>1. i \in DOMAIN log /\ log[i].id = e.id
    BY DEF PlacesOf
  <2>2. i \in Places(log, "hook")
    BY <1>2, <2>1, ReadFacts DEF History, Worded, Places
  <2>3. log[i].id = <<"hook", i - 1>> /\ i - 1 < Len(log)
    BY <2>1, <2>2, ReadFacts DEF History
  <2> QED
    BY <1>2, <2>1, <2>3, ReadFacts
<1>4. Worded(e)
  BY <1>2 DEF Worded
<1>5. /\ draft' = [q \in Procs |-> draft'[q]]
      /\ \A q \in Procs : draft'[q] \in {draft[q], NoDraft}
  BY <1>1 DEF LifecycleInv
<1> QED
  BY <1>1, <1>2, <1>3, <1>4, <1>5, GrowingKeeps

\* A mission that has just been created.
LEMMA InitialLifecycle == Init => LifecycleInv
<1> SUFFICES ASSUME Init PROVE LifecycleInv
  OBVIOUS
<1>1. /\ log = <<Started>> /\ Len(log) = 1 /\ DOMAIN log = {1} /\ log[1] = Started
      /\ draft = [p \in Procs |-> NoDraft] /\ request = [p \in Procs |-> NoRequest] /\ told = {}
  BY DEF Init
<1>2. /\ Started.kind = "started" /\ Started.id[1] = "started"
  BY DEF Started, Event
<1>3. IsLog(log) /\ Begins(log)
  <2>1. log \in Seq({Started})
    BY <1>1
  <2>2. IsLog(log)
    BY <2>1, Zenon DEF IsLog
  <2> QED
    BY <1>1, <1>2, <2>2 DEF Begins
<1>4. \A kind \in {"closed", "recovered", "hook", "written"} : Places(log, kind) = {}
  BY <1>1, <1>2 DEF Places
<1>5. Places(log, "started") = {1}
  BY <1>1, <1>2 DEF Places
<1>6. IsValid(log)
  BY <1>4, <1>5 DEF IsValid
<1>7. RecoveriesReproduce(log)
  BY <1>4 DEF RecoveriesReproduce
<1>8. History(log)
  BY <1>1, <1>2, <1>3, <1>4, <1>6, <1>7 DEF History, Worded
<1>9. WorkIn(log)
  BY <1>4 DEF WorkIn
<1>10. Len(log) <= MaxEvents /\ NoRequest.expected \in 0..Len(log)
  BY <1>1, LengthAssumption DEF NoRequest
<1> QED
  BY <1>1, <1>8, <1>9, <1>10 DEF LifecycleInv, Idle

\* Every step keeps the invariant.
LEMMA StepKeeps == LifecycleInv /\ [Next]_vars => LifecycleInv'
<1> SUFFICES ASSUME LifecycleInv, [Next]_vars PROVE LifecycleInv'
  OBVIOUS
<1>1. CASE RecordHook
  BY <1>1, RecordHookKeeps
<1>2. ASSUME NEW p \in Procs,
             \/ Resume(p) \/ RequestWriter(p) \/ CompleteWriter(p) \/ Close(p)
             \/ PrepareRequest(p) \/ Recover(p)
             \/ WriteEvent(p) \/ FindEvent(p) \/ Refuse(p)
      PROVE  LifecycleInv'
  BY <1>2, ResumeKeeps, RequestWriterKeeps, CompleteWriterKeeps, CloseKeeps,
     PrepareRequestKeeps, RecoverKeeps, WriteEventKeeps, FindEventKeeps, RefuseKeeps, Zenon
<1>3. CASE UNCHANGED vars
  BY <1>3 DEF vars, LifecycleInv, Idle
<1> QED
  BY <1>1, <1>2, <1>3 DEF Next

-----------------------------------------------------------------------------
(* The theorems *)

\* The inductive invariant, through every interleaving of the commands of
\* mission.ts and every kill of one of them.
THEOREM LifecycleInvariant == Spec => []LifecycleInv
BY InitialLifecycle, StepKeeps, PTL DEF Spec

\* No race of commands leaves a log that observedMissionLifecycle refuses to
\* read (mission-recovery.ts, validateRecoveries).
THEOREM LogStaysReadable == Spec => []ReceiptsReproduce
<1>1. LifecycleInv => ReceiptsReproduce
  BY LifeFacts DEF LifecycleInv, History, ReceiptsReproduce, Readable
<1> QED
  BY <1>1, LifecycleInvariant, PTL

\* Whoever was told of an ending was told the one the log keeps
\* (recordMissionClosure).
THEOREM EndingsAgree == Spec => []ClosersAgree
<1>1. LifecycleInv => ClosersAgree
  BY DEF LifecycleInv, ClosersAgree, Kept
<1> QED
  BY <1>1, LifecycleInvariant, PTL

\* The lead writer's work counts for the episode it was asked for in
\* (recordLeadWriterCompletion against a stop and a recovery).
THEOREM WorkCountsWhereAsked == Spec => []WorkStaysInItsEpisode
<1>1. LifecycleInv => WorkStaysInItsEpisode
  BY Zenon DEF LifecycleInv, WorkStaysInItsEpisode, WorkIn, EpisodeIn, EpisodeAt
<1> QED
  BY <1>1, LifecycleInvariant, PTL

-----------------------------------------------------------------------------
(* The commands implement MissionEpisodes *)

Recoveries(l) == Cardinality(Places(l, "recovered"))
Reason(l) == ProjectMissionLifecycle(l).reason
Worked(l) == ProgressSince(l, LastRecovery(l))

\* The latest recovery is a place of the log, or nothing.
LEMMA LastRecoveryFacts ==
    ASSUME NEW l, Begins(l)
    PROVE  /\ LastRecovery(l) \in 0..Len(l)
           /\ Places(l, "recovered") # {} => LastRecovery(l) > 0
           /\ IsFiniteSet(Places(l, "recovered")) /\ Recoveries(l) \in Nat
           /\ Recoveries(l) > 0 => Places(l, "recovered") # {}
<1>1. Len(l) \in Nat /\ DOMAIN l = 1..Len(l)
  BY LogShape DEF Begins
<1>2. Places(l, "recovered") \in SUBSET (1..Len(l)) /\ Places(l, "recovered") \in SUBSET (0..Len(l))
  BY <1>1 DEF Places
<1>3. Places(l, "recovered") # {} => Max(Places(l, "recovered")) \in Places(l, "recovered")
  BY <1>1, <1>2, MaxIsGreatest
<1>4. IsFiniteSet(Places(l, "recovered"))
  <2>1. IsFiniteSet(1..Len(l))
    BY <1>1, FS_Interval
  <2> QED
    BY <1>2, <2>1, FS_Subset
<1>5. Recoveries(l) \in Nat /\ (Recoveries(l) > 0 => Places(l, "recovered") # {})
  BY <1>4, FS_CardinalityType, FS_EmptySet DEF Recoveries
<1> QED
  BY <1>1, <1>2, <1>3, <1>4, <1>5 DEF LastRecovery

\* An event that neither ends nor opens an episode leaves the life as it was;
\* only the lead writer's work shows.
LEMMA OrdinaryEvent ==
    ASSUME NEW l, History(l), NEW e, NEW k, k = Append(l, e), History(k),
           e.kind \notin {"started", "closed", "recovered"}
    PROVE  /\ Recoveries(k) = Recoveries(l) /\ Reason(k) = Reason(l)
           /\ e.kind # "written" => (Worked(k) <=> Worked(l))
           /\ e.kind = "written" => Worked(k)
<1> DEFINE last == Max(Boundaries(l))
<1>1. /\ Begins(l) /\ IsLog(l) /\ IsValid(l) /\ IsValid(k) /\ Len(l) \in Nat
      /\ DOMAIN l = 1..Len(l)
  BY LogShape DEF History, Begins
<1>2. /\ DOMAIN k = 1..(Len(l) + 1) /\ k[Len(l) + 1] = e
      /\ \A i \in 1..Len(l) : k[i] = l[i]
  BY <1>1, Appended
<1>3. Boundaries(k) = Boundaries(l)
  BY <1>1, <1>2 DEF Boundaries
<1>4. Places(k, "recovered") = Places(l, "recovered")
  BY <1>1, <1>2 DEF Places
<1>5. k[last] = l[last]
  BY <1>1, <1>2, LastBoundary
<1>6. Reason(k) = Reason(l)
  BY <1>1, <1>3, <1>5 DEF Reason, ProjectMissionLifecycle
<1>7. LastRecovery(k) = LastRecovery(l) /\ LastRecovery(l) \in 0..Len(l)
  BY <1>1, <1>4, LastRecoveryFacts DEF LastRecovery
<1>8. e.kind # "written" => Places(k, "written") = Places(l, "written")
  BY <1>1, <1>2 DEF Places
<1>9. \A i \in Places(l, "written") : i \in Places(k, "written")
  BY <1>1, <1>2 DEF Places
<1>10. e.kind = "written" => Len(l) + 1 \in Places(k, "written") /\ Len(l) + 1 > LastRecovery(l)
  BY <1>1, <1>2, <1>7 DEF Places
<1>11. e.kind # "written" => (Worked(k) <=> Worked(l))
  BY <1>7, <1>8 DEF Worked, ProgressSince
<1>12. e.kind = "written" => Worked(k)
  BY <1>7, <1>10 DEF Worked, ProgressSince
<1> QED
  BY <1>4, <1>6, <1>11, <1>12 DEF Recoveries

\* A closure gives the life its reason, and nothing else.
LEMMA ClosingEvent ==
    ASSUME NEW l, History(l), NEW e, NEW k, k = Append(l, e), History(k), e.kind = "closed"
    PROVE  /\ Recoveries(k) = Recoveries(l) /\ Reason(k) = e.data.reason
           /\ Worked(k) <=> Worked(l)
<1>1. /\ Begins(l) /\ Begins(k) /\ IsLog(l) /\ IsValid(k) /\ Len(l) \in Nat
      /\ DOMAIN l = 1..Len(l)
  BY LogShape DEF History, Begins
<1>2. /\ DOMAIN k = 1..(Len(l) + 1) /\ k[Len(l) + 1] = e
      /\ \A i \in 1..Len(l) : k[i] = l[i]
  BY <1>1, Appended
<1>3. Len(l) + 1 \in Boundaries(k) /\ \A i \in Boundaries(k) : i <= Len(l) + 1
  BY <1>1, <1>2 DEF Boundaries
<1>4. Max(Boundaries(k)) = Len(l) + 1
  BY <1>1, <1>3, LastBoundary
<1>5. Reason(k) = e.data.reason
  BY <1>1, <1>2, <1>4 DEF Reason, ProjectMissionLifecycle
<1>6. /\ Places(k, "recovered") = Places(l, "recovered")
      /\ Places(k, "written") = Places(l, "written")
  BY <1>1, <1>2 DEF Places
<1> QED
  BY <1>5, <1>6 DEF Recoveries, Worked, LastRecovery, ProgressSince

\* A recovery opens an episode without a reason and without work.
LEMMA RecoveringEvent ==
    ASSUME NEW l, History(l), NEW e, NEW k, k = Append(l, e), History(k), e.kind = "recovered"
    PROVE  Recoveries(k) = Recoveries(l) + 1 /\ Reason(k) = "none" /\ ~Worked(k)
<1> DEFINE m == Len(l) + 1
<1>1. /\ Begins(l) /\ Begins(k) /\ IsLog(l) /\ IsValid(k) /\ Len(l) \in Nat
      /\ DOMAIN l = 1..Len(l)
  BY LogShape DEF History, Begins
<1>2. /\ DOMAIN k = 1..m /\ k[m] = e /\ \A i \in 1..Len(l) : k[i] = l[i]
  BY <1>1, Appended
<1>3. m \in Boundaries(k) /\ \A i \in Boundaries(k) : i <= m
  BY <1>1, <1>2 DEF Boundaries
<1>4. Max(Boundaries(k)) = m
  BY <1>1, <1>3, LastBoundary
<1>5. Reason(k) = "none"
  BY <1>1, <1>2, <1>4 DEF Reason, ProjectMissionLifecycle
<1>6. Places(k, "recovered") = Places(l, "recovered") \cup {m} /\ m \notin Places(l, "recovered")
  BY <1>1, <1>2 DEF Places
<1>7. \A i \in Places(k, "recovered") : i <= m
  BY <1>1, <1>2 DEF Places
<1>8. \A i \in Places(k, "written") : ~(i > m)
  BY <1>1, <1>2 DEF Places
<1> HIDE DEF m
<1>9. Recoveries(k) = Recoveries(l) + 1
  BY <1>1, <1>6, LastRecoveryFacts, FS_AddElement DEF Recoveries
<1>10. LastRecovery(k) = m
  <2>1. Len(k) \in Nat /\ Places(k, "recovered") \in SUBSET (0..Len(k))
    BY <1>1, LogShape DEF Begins, Places
  <2>2. Max(Places(k, "recovered")) = m
    BY <1>6, <1>7, <2>1, MaxIsGreatest
  <2> QED
    BY <1>6, <2>2 DEF LastRecovery
<1> QED
  BY <1>5, <1>8, <1>9, <1>10 DEF Worked, ProgressSince

\* An event that the writer validated is a step of the mission's life.
LEMMA EventRefines ==
    ASSUME LifecycleInv, LifecycleInv', NEW p \in Procs, WriteEvent(p)
    PROVE  [Episodes!Work \/ Episodes!Close \/ Episodes!Recover]_<<Recoveries(log), Reason(log), Worked(log)>>
<1> DEFINE e == draft[p]
<1>1. log' = Append(log, e) /\ History(log) /\ History(log') /\ Sound(log, e) /\ Validated(e)
  BY DEF WriteEvent, AppendEvent, LifecycleInv
<1> HIDE DEF e
<1>2. CASE e.kind \in {"resumed", "requested"}
  <2>1. Recoveries(log') = Recoveries(log) /\ Reason(log') = Reason(log) /\ (Worked(log') <=> Worked(log))
    BY <1>1, <1>2, OrdinaryEvent
  <2> QED
    BY <2>1 DEF Worked, Recoveries, Reason, ProgressSince
<1>3. CASE e.kind = "written"
  <2>1. Recoveries(log') = Recoveries(log) /\ Reason(log') = Reason(log) /\ Worked(log')
    BY <1>1, <1>3, OrdinaryEvent
  <2>2. Reason(log) = "none"
    BY <1>1, <1>3, LifeFacts DEF Validated, Reason
  <2>3. Worked(log)' = TRUE
    BY <2>1 DEF Worked, ProgressSince
  <2>4. Episodes!Work
    BY <2>1, <2>2, <2>3 DEF Episodes!Work, Recoveries, Reason, Worked
  <2> QED
    BY <2>4
<1>4. CASE e.kind = "closed"
  <2>1. Recoveries(log') = Recoveries(log) /\ Reason(log') = e.data.reason /\ (Worked(log') <=> Worked(log))
    BY <1>1, <1>4, ClosingEvent
  <2>2. Reason(log) = "none" /\ e.data.reason \in Reasons
    BY <1>1, <1>4, LifeFacts DEF Validated, EpisodeStands, Reason, Sound
  <2>3. Worked(log)' = Worked(log)
    BY <2>1 DEF Worked, ProgressSince
  <2>4. Episodes!Close
    BY <2>1, <2>2, <2>3, ReasonsAssumption DEF Episodes!Close, Recoveries, Reason, Worked
  <2> QED
    BY <2>4
<1>5. CASE e.kind = "recovered"
  <2>1. Recoveries(log') = Recoveries(log) + 1 /\ Reason(log') = "none" /\ ~Worked(log')
    BY <1>1, <1>5, RecoveringEvent
  <2>2. Admitted(log, e.data.request)
    BY <1>1, <1>5, RecoveryIsCurrent DEF Validated, JournalStands, Sound, History, Begins
  <2>3. Reason(log) = "controller-stop" /\ (LastRecovery(log) > 0 => Worked(log))
    BY <2>2 DEF Admitted, Reason, Worked
  <2>4. Recoveries(log) > 0 => Worked(log)
    BY <1>1, <2>3, LastRecoveryFacts DEF History
  <2>5. Worked(log)' = FALSE
    BY <2>1 DEF Worked, ProgressSince
  <2>6. Episodes!Recover
    BY <2>1, <2>3, <2>4, <2>5 DEF Episodes!Recover, Recoveries, Reason, Worked
  <2> QED
    BY <2>6
<1> QED
  BY <1>1, <1>2, <1>3, <1>4, <1>5 DEF Sound, DraftKinds

\* Every step of a command is a step of the mission's life, or none.
LEMMA StepRefines ==
    ASSUME LifecycleInv, LifecycleInv', [Next]_vars
    PROVE  [Episodes!Work \/ Episodes!Close \/ Episodes!Recover]_<<Recoveries(log), Reason(log), Worked(log)>>
<1>1. CASE UNCHANGED log
  BY <1>1 DEF Recoveries, Reason, Worked
<1>2. ASSUME NEW p \in Procs,
             \/ Resume(p) \/ RequestWriter(p) \/ CompleteWriter(p) \/ Close(p)
             \/ PrepareRequest(p) \/ Recover(p) \/ FindEvent(p) \/ Refuse(p)
      PROVE  UNCHANGED log
  BY <1>2, Zenon DEF Resume, RequestWriter, CompleteWriter, Close, PrepareRequest, Recover, Decide,
                     FindEvent, Refuse
<1>3. CASE RecordHook
  <2> DEFINE e == Event("hook", <<"hook", Len(log)>>, << >>)
  <2>1. log' = Append(log, e) /\ e.kind = "hook" /\ History(log) /\ History(log')
    BY <1>3 DEF RecordHook, AppendEvent, Event, LifecycleInv
  <2> HIDE DEF e
  <2>2. Recoveries(log') = Recoveries(log) /\ Reason(log') = Reason(log) /\ (Worked(log') <=> Worked(log))
    BY <2>1, OrdinaryEvent
  <2> QED
    BY <2>2 DEF Worked, Recoveries, Reason, ProgressSince
<1>4. ASSUME NEW p \in Procs, WriteEvent(p)
      PROVE  [Episodes!Work \/ Episodes!Close \/ Episodes!Recover]_<<Recoveries(log), Reason(log), Worked(log)>>
  BY <1>4, EventRefines
<1>5. CASE UNCHANGED vars
  BY <1>1, <1>5 DEF vars
<1> QED
  BY <1>1, <1>2, <1>3, <1>4, <1>5, Zenon DEF Next

\* Together the commands keep to the mission's life: one closure to an
\* episode, and a new one only after a stop and after work.
THEOREM ImplementsEpisodes == Spec => EpisodeSpec
<1>1. Init => Episodes!Init
  <2> SUFFICES ASSUME Init PROVE Episodes!Init
    OBVIOUS
  <2>1. History(log) /\ Places(log, "recovered") = {} /\ Places(log, "written") = {}
        /\ Places(log, "closed") = {}
    BY InitialLifecycle DEF Init, LifecycleInv, Places, Started, Event
  <2>2. Cardinality(Places(log, "recovered")) = 0
    BY <2>1, FS_EmptySet
  <2>3. ProgressSince(log, LastRecovery(log)) = FALSE
    BY <2>1 DEF ProgressSince
  <2>4. ProjectMissionLifecycle(log).reason = "none"
    BY <2>1, LifeFacts, LastBoundary DEF History, Places, Boundaries
  <2> QED
    BY <2>2, <2>3, <2>4 DEF Episodes!Init
<1>2. LifecycleInv /\ LifecycleInv' /\ [Next]_vars =>
         [Episodes!Work \/ Episodes!Close \/ Episodes!Recover]_<<
             Cardinality(Places(log, "recovered")), ProjectMissionLifecycle(log).reason,
             ProgressSince(log, LastRecovery(log))>>
  BY StepRefines DEF Recoveries, Reason, Worked
<1> QED
  BY <1>1, <1>2, LifecycleInvariant, PTL DEF Spec, EpisodeSpec, Episodes!Spec

===============================================================================
