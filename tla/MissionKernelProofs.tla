------------------------- MODULE MissionKernelProofs -------------------------
(***************************************************************************)
(* Theorems about MissionKernel, for any number of processes, steps (1 to  *)
(* 8), contracts and records.  The first part, with or without power loss: *)
(* at most one launch of a step, histories that stay readable, durable     *)
(* records that stay.  The second part is about the answers of executors:  *)
(* which steps are launched after which, what a cancellation guarantees,   *)
(* whose result is paid for, what a reported verdict is worth, and that    *)
(* the processes together implement MissionLedger.                         *)
(***************************************************************************)
EXTENDS MissionInvariant, MissionRefinement, WellFoundedInduction, TLAPS

-----------------------------------------------------------------------------
(* The reducer *)

\* An admitted event leads to a well-formed position, never to "invalid".
LEMMA TargetType ==
    ASSUME NEW state \in States, NEW event \in Events, Admits(state, event)
    PROVE  Target(event) \in States /\ Target(event).kind # "invalid"
BY StepCountAssumption
   DEF States, StateKinds, Events, EventKinds, Admits, Target, At, Settled

\* A transition, legal or not, yields a well-formed state.
LEMMA TransitionType ==
    ASSUME NEW state \in States, NEW event \in Events
    PROVE  Transition(state, event) \in States
BY TargetType, StepCountAssumption DEF Transition, Invalid, At, States, StateKinds

\* The first event opens step 1.
LEMMA OpenedType == Opened \in States
BY StepCountAssumption DEF Opened, At, States, StateKinds

\* A reader's position is a well-formed state.
LEMMA PositionType ==
    ASSUME NEW state \in States
    PROVE  Position(state) \in States
BY StepCountAssumption DEF Position, Settled, At, States, StateKinds

\* The log is a function on its revisions.
LEMMA RecordType ==
    ASSUME TypeOK
    PROVE  /\ Len(log) \in Nat
           /\ DOMAIN log = 1..Len(log)
           /\ \A n \in DOMAIN log : log[n].event \in Events /\ log[n].after \in States
<1>1. log \in Seq(Records)
  BY DEF TypeOK
<1>2. \A n \in DOMAIN log : log[n] \in Records
  BY <1>1
<1> QED
  BY <1>1, <1>2 DEF Records

\* Every receipt a process may derive from a history is well formed.
LEMMA SettleType ==
    ASSUME TypeOK, NEW n \in DOMAIN log
    PROVE  Settle(n) \in Receipts
<1>1. log[n].event \in Events
  BY RecordType
<1> DEFINE last == log[n].event
<1>2. last.kind \in EventKinds /\ last.step \in 0..StepCount /\ 0 \in 0..StepCount
  BY <1>1, StepCountAssumption DEF Events
<1> USE <1>2 DEF Settle, Blocked, Receipt, Receipts, ReceiptKinds, Details
<1>3. CASE last.kind \in {"completed", "stopped", "rejected"}
  BY <1>3
<1>4. CASE last.kind = "discarded"
  BY <1>4
<1>5. CASE last.kind \in {"unconfirmed", "cancelled", "cancel-requested", "abandoned"}
  BY <1>5
<1>6. CASE last.kind \in {"started", "dispatched", "accepted"}
  BY <1>6
<1> QED
  BY <1>3, <1>4, <1>5, <1>6 DEF EventKinds

\* A blocked receipt carries one of the listed reasons.
LEMMA BlockedType ==
    ASSUME NEW reason \in Details
    PROVE  Blocked(reason) \in Receipts
BY StepCountAssumption DEF Blocked, Receipt, Receipts, ReceiptKinds

\* A verdict follows only from a record that decides something.
LEMMA SettleReadable ==
    ASSUME TypeOK, NEW n \in DOMAIN log,
           log[n].event.kind \notin {"started", "dispatched", "accepted"}
    PROVE  Settle(n).detail # "unreadable"
<1> DEFINE last == log[n].event
<1>1. last.kind \in EventKinds
  BY RecordType DEF Events
<1> USE DEF Settle, Blocked, Receipt
<1>2. CASE last.kind \in {"completed", "stopped", "rejected"}
  BY <1>2
<1>3. CASE last.kind = "discarded"
  BY <1>3
<1>4. CASE last.kind \in {"unconfirmed", "cancelled", "cancel-requested", "abandoned"}
  BY <1>4
<1> QED
  BY <1>1, <1>2, <1>3, <1>4 DEF EventKinds

\* A settled or cancelling position comes from such a record.
LEMMA DecidedRecord ==
    ASSUME TypeOK, LegalHistory, NEW n \in DOMAIN log,
           Position(log[n].after).kind \in {"settled", "cancel-requested"}
    PROVE  Settle(n).detail # "unreadable" /\ Settle(n) \in Receipts
<1>1. CASE n = 1
  BY <1>1 DEF LegalHistory, Position, Opened, At
<1>2. CASE n # 1
  <2>1. log[n].after = Target(log[n].event) /\ Admits(log[n - 1].after, log[n].event)
    BY <1>2 DEF LegalHistory
  <2>2. log[n].event.kind \notin {"dispatched", "accepted"}
    BY <2>1 DEF Target, Position, At
  <2>3. log[n].event.kind # "started"
    BY <2>1 DEF Admits
  <2> QED
    BY <2>2, <2>3, SettleReadable, SettleType
<1> QED
  BY <1>1, <1>2

\* Every blocked reason but "unreadable" reports a readable history.
LEMMA BlockedReadable ==
    ASSUME NEW reason \in Details \ {"unreadable"}
    PROVE  Blocked(reason) \in Receipts /\ Blocked(reason).detail # "unreadable"
BY BlockedType DEF Blocked, Receipt

-----------------------------------------------------------------------------
(* Steps that leave the log alone *)

\* The initial state satisfies the inductive invariant.
LEMMA InitIInv == Init => IInv
<1> SUFFICES ASSUME Init PROVE IInv
  OBVIOUS
<1>1. TypeOK
  <2>1. log \in Seq(Records) /\ returned \subseteq Procs \X Steps
    BY DEF Init
  <2>2. NoReceipt \in Receipts /\ 0 \in 0..StepCount /\ 0 \in Nat
    BY StepCountAssumption DEF NoReceipt, Receipt, Receipts, ReceiptKinds, Details
  <2>3. \A p \in Procs : Event("started", 0, p) \in Events
    BY <2>2 DEF Event, Events, EventKinds
  <2> QED
    BY <2>1, <2>2, <2>3 DEF Init, TypeOK, PCs, Commands
<1>2. log = << >> /\ synced = 0 /\ Len(log) = 0 /\ DOMAIN log = {}
  BY DEF Init
<1>3. LegalHistory /\ PositionsCounted /\ NeverOfferedAgain
  BY <1>2 DEF LegalHistory, PositionsCounted, NeverOfferedAgain
<1>4. ASSUME NEW p \in Procs PROVE PendingLegal(p) /\ KnowsPrefix(p)
  BY <1>2 DEF Init, PendingLegal, KnowsPrefix, Event
<1>5. ASSUME NEW s \in Steps PROVE launches[s] <= 1 /\ LaunchCovered(s)
  BY DEF Init, LaunchCovered
<1>6. NoneUnreadable
  BY DEF Init, NoReceipt, Receipt, NoneUnreadable
<1> QED
  BY <1>1, <1>2, <1>3, <1>4, <1>5, <1>6 DEF IInv

\* A step of one process that touches neither the log nor the launches, and
\* does not move to "execute", preserves the invariant if it leaves that
\* process well placed.
LEMMA QuietStep ==
    ASSUME IInv, NEW p \in Procs, TypeOK', NoneUnreadable',
           UNCHANGED <<log, synced, launches>>,
           \A q \in Procs \ {p} : /\ pc'[q] = pc[q] /\ known'[q] = known[q]
                                  /\ pending'[q] = pending[q] /\ command'[q] = command[q],
           known'[p] >= known[p],
           pc'[p] # "execute",
           PendingLegal(p)', KnowsPrefix(p)'
    PROVE  IInv'
<1>1. (synced <= Len(log) /\ LegalHistory /\ PositionsCounted /\ NeverOfferedAgain)'
  BY DEF IInv, LegalHistory, PositionsCounted, NeverOfferedAgain, Dispatched
<1>2. ASSUME NEW q \in Procs PROVE PendingLegal(q)' /\ KnowsPrefix(q)'
  <2>1. CASE q = p
    BY <2>1
  <2>2. CASE q # p
    BY <2>2 DEF IInv, PendingLegal, KnowsPrefix
  <2> QED
    BY <2>1, <2>2
<1>3. ASSUME NEW s \in Steps PROVE (launches[s] <= 1 /\ LaunchCovered(s))'
  <2>1. launches[s] <= 1 /\ LaunchCovered(s)
    BY DEF IInv
  <2>2. known \in [Procs -> Nat] /\ known' \in [Procs -> Nat]
    BY DEF IInv, TypeOK
  <2>3. ASSUME NEW n \in 1..synced, launches[s] > 0
        PROVE  log[n].event.by \in Procs
    <3>1. synced \in Nat /\ synced <= Len(log)
      BY DEF IInv, TypeOK
    <3>2. n \in DOMAIN log
      BY <3>1, RecordType DEF IInv
    <3> QED
      BY <3>2, RecordType DEF IInv, Events
  <2> QED
    BY <2>1, <2>2, <2>3 DEF LaunchCovered, Dispatched
<1> QED
  BY <1>1, <1>2, <1>3 DEF IInv

\* The commands: an idle process has read nothing and has nothing pending.
LEMMA StartStep ==
    ASSUME IInv, NEW p \in Procs, Start(p)
    PROVE  IInv'
<1>1. Event("started", 0, p) \in Events
  BY StepCountAssumption DEF Event, Events, EventKinds
<1>2. TypeOK'
  <2>1. 0..(StepCount - 1) \subseteq 0..StepCount
    BY StepCountAssumption
  <2> QED
    BY <1>1, <2>1 DEF IInv, TypeOK, Start, Write, Goto, jvars, PCs, Active, Commands
<1>3. /\ pc'[p] = "link" /\ pending'[p] = Event("started", 0, p)
      /\ known' = known /\ known[p] = 0 /\ known[p] \in Nat
  BY DEF IInv, TypeOK, Start, Write, Goto, KnowsPrefix
<1>4. PendingLegal(p)' /\ KnowsPrefix(p)'
  BY <1>3 DEF PendingLegal, KnowsPrefix, Event, DecisionKinds
<1>9. \A q \in Procs \ {p} : /\ pc'[q] = pc[q] /\ known'[q] = known[q]
                              /\ pending'[q] = pending[q] /\ command'[q] = command[q]
  BY DEF IInv, TypeOK, Start, Write, Goto
<1>10. UNCHANGED <<log, synced, launches>> /\ known'[p] >= known[p] /\ pc'[p] # "execute"
       /\ NoneUnreadable'
  BY <1>3 DEF Start, jvars, IInv, NoneUnreadable
<1> QED
  BY <1>1, <1>2, <1>3, <1>4, <1>9, <1>10, QuietStep

\* The commands that read first.
LEMMA OpenStep ==
    ASSUME IInv, NEW p \in Procs, Open(p)
    PROVE  IInv'
<1>1. TypeOK'
  BY DEF IInv, TypeOK, Open, Goto, jvars, PCs, Active, Commands
<1>2. /\ pc'[p] \in {"load", "decide"} /\ known' = known /\ known[p] \in Nat
      /\ pending' = pending /\ log' = log /\ pc[p] = "idle"
      /\ (pc'[p] = "decide" => command'[p] \in {"cancel", "abandon"})
  BY DEF IInv, TypeOK, Open, Goto, jvars, Commands
<1>3. PendingLegal(p)' /\ KnowsPrefix(p)'
  BY <1>2 DEF PendingLegal, KnowsPrefix, IInv
<1>9. \A q \in Procs \ {p} : /\ pc'[q] = pc[q] /\ known'[q] = known[q]
                              /\ pending'[q] = pending[q] /\ command'[q] = command[q]
  BY DEF IInv, TypeOK, Open, Goto
<1>10. UNCHANGED <<log, synced, launches>> /\ known'[p] >= known[p] /\ pc'[p] # "execute"
       /\ NoneUnreadable'
  BY <1>2 DEF Open, jvars, IInv, NoneUnreadable
<1> QED
  BY <1>1, <1>2, <1>3, <1>9, <1>10, QuietStep

\* A process that reports or dies keeps only its place among the writers.
LEMMA EndStep ==
    ASSUME IInv, NEW p \in Procs,
           UNCHANGED <<jvars, pvars, known, pending, returned, launches>>,
           \E point \in {"done", "dead"} : Goto(p, point),
           \/ UNCHANGED receipt
           \/ \E r \in Receipts : /\ receipt' = [receipt EXCEPT ![p] = r]
                                 /\ r.detail # "unreadable"
    PROVE  IInv'
<1>1. TypeOK'
  BY DEF IInv, TypeOK, Goto, jvars, pvars, PCs
<1>2. /\ pc'[p] \in {"done", "dead"} /\ known' = known /\ known[p] \in Nat
      /\ pending' = pending
  BY DEF IInv, TypeOK, Goto
<1>3. PendingLegal(p)' /\ KnowsPrefix(p)'
  BY <1>2 DEF PendingLegal, KnowsPrefix, IInv
<1>9. \A q \in Procs \ {p} : /\ pc'[q] = pc[q] /\ known'[q] = known[q]
                              /\ pending'[q] = pending[q] /\ command'[q] = command[q]
  BY DEF IInv, TypeOK, Goto, pvars
<1>10. UNCHANGED <<log, synced, launches>> /\ known'[p] >= known[p] /\ pc'[p] # "execute"
  BY <1>2 DEF jvars
<1>11. NoneUnreadable'
  BY DEF IInv, TypeOK, NoneUnreadable
<1> QED
  BY <1>1, <1>2, <1>3, <1>9, <1>10, <1>11, QuietStep

\* The steps that can only report or die.
LEMMA EndSteps ==
    ASSUME IInv, NEW p \in Procs,
           \/ ReadFails(p) \/ JournalFull(p) \/ AppendFails(p) \/ SyncFails(p)
           \/ Throw(p) \/ AfterConflict(p) \/ Crash(p)
    PROVE  IInv'
<1> USE DEF Finish
<1>1. CASE ReadFails(p)
  BY <1>1, EndStep, BlockedReadable DEF ReadFails, Details
<1>2. CASE JournalFull(p)
  BY <1>2, EndStep, BlockedReadable DEF JournalFull, Details
<1>3. CASE AppendFails(p)
  BY <1>3, EndStep, BlockedReadable DEF AppendFails, Details
<1>4. CASE SyncFails(p)
  BY <1>4, EndStep, BlockedReadable DEF SyncFails, Details
<1>5. CASE Throw(p)
  BY <1>5, EndStep, BlockedReadable DEF Throw, Details
<1>6. CASE AfterConflict(p)
  <2>1. Len(log) \in DOMAIN log
    BY <1>6, RecordType DEF IInv, AfterConflict, KnowsPrefix, TypeOK
  <2>2. /\ Blocked("conflict") \in Receipts /\ Blocked("conflict").detail # "unreadable"
        /\ Settle(Len(log)) \in Receipts
        /\ log[Len(log)].event.kind
             \in {"cancelled", "cancel-requested", "discarded", "abandoned"}
           => Settle(Len(log)).detail # "unreadable"
    BY <2>1, SettleType, SettleReadable, BlockedReadable DEF IInv, Details
  <2>3. CASE log[Len(log)].event.kind
               \in {"cancelled", "cancel-requested", "discarded", "abandoned"}
    BY <1>6, <2>2, <2>3, EndStep DEF AfterConflict
  <2>4. CASE log[Len(log)].event.kind
               \notin {"cancelled", "cancel-requested", "discarded", "abandoned"}
    BY <1>6, <2>2, <2>4, EndStep DEF AfterConflict
  <2> QED
    BY <2>3, <2>4
<1>7. CASE Crash(p)
  BY <1>7, EndStep DEF Crash
<1> QED
  BY <1>1, <1>2, <1>3, <1>4, <1>5, <1>6, <1>7

\* A process that prepares an event legal after the prefix it holds.
LEMMA WriteStep ==
    ASSUME IInv, NEW p \in Procs,
           Goto(p, "link"),
           known' = [known EXCEPT ![p] = known'[p]],
           known'[p] \in DOMAIN log, known'[p] >= known[p],
           pending' = [pending EXCEPT ![p] = pending'[p]],
           pending'[p] \in Events, pending'[p].by = p, pending'[p].kind # "started",
           Admits(log[known'[p]].after, pending'[p]),
           pending'[p].kind \in DecisionKinds => command[p] \in {"cancel", "abandon"},
           returned' \subseteq Procs \X Steps,
           UNCHANGED <<jvars, pvars, receipt, launches>>
    PROVE  IInv'
<1>1. known'[p] \in Nat /\ known'[p] <= Len(log)
  BY RecordType DEF IInv
<1>2. TypeOK'
  BY <1>1 DEF IInv, TypeOK, Goto, jvars, pvars, PCs, Active
<1>3. pc'[p] = "link" /\ log' = log /\ command' = command
  BY DEF IInv, TypeOK, Goto, jvars, pvars
<1>4. PendingLegal(p)' /\ KnowsPrefix(p)'
  BY <1>1, <1>3 DEF PendingLegal, KnowsPrefix
<1>5. \A q \in Procs \ {p} : /\ pc'[q] = pc[q] /\ known'[q] = known[q]
                              /\ pending'[q] = pending[q] /\ command'[q] = command[q]
  BY <1>3 DEF IInv, TypeOK, Goto
<1>6. UNCHANGED <<log, synced, launches>> /\ pc'[p] # "execute" /\ NoneUnreadable'
  BY <1>3 DEF jvars, IInv, NoneUnreadable
<1> QED
  BY <1>2, <1>4, <1>5, <1>6, QuietStep

\* A process that moves on without an event to record.
LEMMA MoveStep ==
    ASSUME IInv, NEW p \in Procs,
           Goto(p, pc'[p]), pc'[p] \in {"advance", "decide", "late", "loser"},
           known' = [known EXCEPT ![p] = known'[p]],
           known'[p] \in Nat, known'[p] >= known[p], known'[p] <= Len(log),
           pc'[p] = "advance" => known'[p] \in DOMAIN log,
           pc'[p] \in {"late", "loser"} => log # << >>,
           pc'[p] = "decide" => command[p] \in {"cancel", "abandon"},
           attempt' \in [Procs -> 0..1],
           UNCHANGED <<jvars, command, contract, stopAfter, pending, returned,
                       receipt, launches>>
    PROVE  IInv'
<1>1. TypeOK'
  BY DEF IInv, TypeOK, Goto, jvars, PCs, Active
<1>2. pending' = pending /\ log' = log
  BY DEF jvars
<1>3. PendingLegal(p)' /\ KnowsPrefix(p)'
  BY <1>2 DEF IInv, PendingLegal, KnowsPrefix
<1>4. \A q \in Procs \ {p} : /\ pc'[q] = pc[q] /\ known'[q] = known[q]
                              /\ pending'[q] = pending[q] /\ command'[q] = command[q]
  BY DEF IInv, TypeOK, Goto
<1>5. UNCHANGED <<log, synced, launches>> /\ pc'[p] # "execute" /\ NoneUnreadable'
  BY DEF jvars, IInv, NoneUnreadable
<1> QED
  BY <1>1, <1>3, <1>4, <1>5, QuietStep

\* The state kept with a record of a legal history is never "invalid".
LEMMA StateReadable ==
    ASSUME IInv, NEW n \in DOMAIN log
    PROVE  log[n].after.kind # "invalid"
<1>1. CASE n = 1
  BY <1>1 DEF IInv, LegalHistory, Opened, At
<1>2. CASE n # 1
  <2>1. n - 1 \in DOMAIN log /\ log[n].event \in Events /\ log[n - 1].after \in States
    BY <1>2, RecordType DEF IInv
  <2>2. Admits(log[n - 1].after, log[n].event) /\ log[n].after = Target(log[n].event)
    BY <1>2 DEF IInv, LegalHistory
  <2> QED
    BY <2>1, <2>2, TargetType
<1> QED
  BY <1>1, <1>2

\* A resume that read the journal holds a prefix of it, or reports.
LEMMA LoadStep ==
    ASSUME IInv, NEW p \in Procs, Load(p)
    PROVE  IInv'
<1>1. CASE log = << >>
  BY <1>1, EndStep, BlockedReadable DEF Load, Finish, Details
<1>2. CASE log # << >>
  <2>1. Len(log) \in DOMAIN log /\ Len(log) \in Nat
    BY <1>2, RecordType DEF IInv, TypeOK
  <2>2. known[p] \in Nat /\ known[p] <= Len(log)
    BY DEF IInv, TypeOK, KnowsPrefix, Load
  <2>3. pc'[p] = "advance" /\ known'[p] = Len(log) /\ attempt' \in [Procs -> 0..1]
    BY <1>2 DEF IInv, TypeOK, Load, Goto, pvars
  <2> QED
    BY <1>2, <2>1, <2>2, <2>3, MoveStep DEF Load, pvars
<1> QED
  BY <1>1, <1>2

\* A lost revision: the process reports, decides again or reads the winner.
LEMMA LinkRefusedStep ==
    ASSUME IInv, NEW p \in Procs, LinkRefused(p)
    PROVE  IInv'
<1>1. /\ pc[p] = "link" /\ known[p] \in Nat /\ known[p] <= Len(log) /\ log # << >>
      /\ known' = [known EXCEPT ![p] = known'[p]] /\ known'[p] = known[p]
  <2>1. Len(log) > known[p] /\ known[p] \in Nat
    <3>1. pc[p] = "link" /\ Len(log) # known[p]
      BY DEF LinkRefused, RevisionFree
    <3>2. known[p] \in Nat /\ known[p] <= Len(log) /\ Len(log) \in Nat
      BY <3>1, RecordType DEF IInv, TypeOK, KnowsPrefix
    <3> QED
      BY <3>1, <3>2
  <2> QED
    BY <2>1 DEF IInv, TypeOK, LinkRefused
<1>2. CASE \E point \in {"late", "loser", "decide"} :
              /\ Goto(p, point) /\ attempt' \in [Procs -> 0..1] /\ UNCHANGED receipt
              /\ point = "decide" => pending[p].kind \in DecisionKinds
  <2>1. pc'[p] \in {"late", "loser", "decide"} /\ Goto(p, pc'[p])
        /\ attempt' \in [Procs -> 0..1] /\ UNCHANGED receipt
        /\ (pc'[p] = "decide" => command[p] \in {"cancel", "abandon"})
    BY <1>1, <1>2 DEF IInv, TypeOK, Goto, KnowsPrefix
  <2> QED
    BY <1>1, <2>1, MoveStep DEF LinkRefused
<1>3. CASE Finish(p, Blocked("conflict")) /\ UNCHANGED attempt
  BY <1>3, EndStep, BlockedReadable DEF LinkRefused, Finish, Details, pvars
<1>4. attempt' = attempt \/ (attempt[p] < 1 /\ attempt' = [attempt EXCEPT ![p] = @ + 1])
      => attempt' \in [Procs -> 0..1]
  BY DEF IInv, TypeOK
<1>5. pending[p].kind \in EventKinds
  BY DEF IInv, TypeOK, Events
<1>6. pending[p].kind \notin OutcomeKinds \cup {"started", "dispatched", "discarded"}
      => pending[p].kind \in DecisionKinds
  BY <1>5 DEF EventKinds, OutcomeKinds, CarriesUsage, DecisionKinds
<1> QED
  BY <1>2, <1>3, <1>4, <1>6 DEF LinkRefused, AfterLoss, AttemptsLeft

\* A turn reports, or prepares the intent of the step its prefix offers.
LEMMA AdvanceStep ==
    ASSUME IInv, NEW p \in Procs, Advance(p)
    PROVE  IInv'
<1> DEFINE at == Position(log[known[p]].after)
<1>1. known[p] \in DOMAIN log /\ known[p] \in Nat /\ log[known[p]].after \in States
  BY RecordType DEF IInv, TypeOK, KnowsPrefix, Advance
<1>2. CASE at.kind = "dispatch" /\ contract[p] = Sealed
  <2>1. Write(p, "dispatched", at.step) /\ UNCHANGED receipt
    BY <1>2 DEF Advance
  <2>2. at = log[known[p]].after /\ at \in States /\ at.kind = "dispatch"
    BY <1>1, <1>2 DEF Position, Settled, At
  <2>3. pending'[p] = Event("dispatched", at.step, p)
    BY <2>1 DEF IInv, TypeOK, Write
  <2>4. /\ Event("dispatched", at.step, p) \in Events
        /\ Admits(log[known[p]].after, Event("dispatched", at.step, p))
    BY <2>2 DEF Event, Events, EventKinds, States, Admits
  <2>5. pending' = [pending EXCEPT ![p] = pending'[p]] /\ Goto(p, "link")
    BY <2>1, <2>3 DEF Write
  <2>6. pending'[p].by = p /\ pending'[p].kind \notin DecisionKinds \cup {"started"}
    BY <2>3 DEF Event, DecisionKinds
  <2>7. known' = [known EXCEPT ![p] = known'[p]] /\ known'[p] = known[p]
    BY DEF IInv, TypeOK, Advance
  <2>8. returned' \subseteq Procs \X Steps
    BY DEF IInv, TypeOK, Advance
  <2> QED
    BY <1>1, <2>1, <2>3, <2>4, <2>5, <2>6, <2>7, <2>8, WriteStep DEF Advance
<1>3. CASE at.kind # "dispatch" \/ contract[p] # Sealed
  <2>1. \E r \in Receipts : Finish(p, r) /\ r.detail # "unreadable"
    <3>1. at.kind # "invalid"
      BY <1>1, StateReadable DEF Position, Settled, At
    <3>2. CASE at.kind \in {"settled", "cancel-requested"}
      BY <1>1, <1>3, <3>2, DecidedRecord DEF Advance, IInv
    <3>3. CASE at.kind \notin {"settled", "cancel-requested"}
      BY <1>3, <3>1, <3>3, BlockedReadable DEF Advance, Details
    <3> QED
      BY <3>2, <3>3
  <2> QED
    BY <1>3, <2>1, EndStep DEF Advance, Finish
<1> QED
  BY <1>2, <1>3

\* The intent a process executes is the last legal record of its prefix.
LEMMA InFlight ==
    ASSUME IInv, NEW p \in Procs, pc[p] \in {"execute", "executing"}
    PROVE  /\ known[p] \in DOMAIN log /\ known[p] \in Nat
           /\ log[known[p]].after = At("in-flight", pending[p].step)
           /\ pending[p].step \in Steps
<1>1. known[p] \in DOMAIN log /\ known[p] \in Nat
  BY RecordType DEF IInv, TypeOK, KnowsPrefix
<1>2. log[known[p]].event = pending[p] /\ pending[p].kind = "dispatched"
  BY DEF IInv, KnowsPrefix
<1>3. log[known[p]].after = Target(pending[p])
  BY <1>1, <1>2 DEF IInv, LegalHistory
<1>4. log[known[p]].after = At("in-flight", pending[p].step)
  BY <1>2, <1>3 DEF Target
<1>5. log[known[p]].after.kind = "in-flight" /\ log[known[p]].after.step = pending[p].step
  BY <1>4 DEF At
<1> QED
  BY <1>1, <1>4, <1>5 DEF IInv, PositionsCounted

\* A refusal or an outcome follows the intent of its own writer.
LEMMA OutcomeStep ==
    ASSUME IInv, NEW p \in Procs, Refuse(p) \/ Return(p)
    PROVE  IInv'
<1> DEFINE step == pending[p].step
<1>1. /\ known[p] \in DOMAIN log /\ known[p] \in Nat /\ step \in Steps
      /\ log[known[p]].after = At("in-flight", step)
  BY InFlight DEF Refuse, Return
<1>2. PICK kind \in OutcomeKinds :
         /\ Write(p, kind, step)
         /\ kind = "accepted" => step # StepCount
         /\ kind = "completed" => step = StepCount
  BY DEF Refuse, Return, OutcomeKinds, CarriesUsage
<1>3. pending'[p] = Event(kind, step, p)
  BY <1>2 DEF IInv, TypeOK, Write
<1>4. Event(kind, step, p) \in Events /\ kind # "started"
  BY <1>1, <1>2, StepCountAssumption
     DEF Event, Events, EventKinds, OutcomeKinds, CarriesUsage, Steps
<1>5. Admits(log[known[p]].after, Event(kind, step, p))
  BY <1>1, <1>2, StepCountAssumption
     DEF Admits, At, Event, Steps, OutcomeKinds, CarriesUsage
<1>6. pending' = [pending EXCEPT ![p] = pending'[p]] /\ Goto(p, "link")
  BY <1>2, <1>3 DEF Write
<1>7. pending'[p].by = p /\ pending'[p].kind \notin DecisionKinds \cup {"started"}
  BY <1>2, <1>3 DEF Event, DecisionKinds, OutcomeKinds, CarriesUsage
<1>8. known' = [known EXCEPT ![p] = known'[p]] /\ known'[p] = known[p]
  BY DEF IInv, TypeOK, Refuse, Return
<1>9. returned' \subseteq Procs \X Steps
  BY <1>1 DEF IInv, TypeOK, Refuse, Return
<1>10. UNCHANGED <<jvars, pvars, receipt, launches>>
  BY DEF Refuse, Return
<1> QED
  BY <1>1, <1>3, <1>4, <1>5, <1>6, <1>7, <1>8, <1>9, <1>10, WriteStep

\* A late cost follows the cancellation request or abandonment of its step.
LEMMA KeepLateCostStep ==
    ASSUME IInv, NEW p \in Procs, KeepLateCost(p)
    PROVE  IInv'
<1> DEFINE end == Len(log)
           last == log[end].event
<1>1. /\ end \in DOMAIN log /\ end \in Nat /\ last \in Events
      /\ known[p] \in Nat /\ known[p] <= end /\ log # << >>
  BY RecordType DEF IInv, TypeOK, KnowsPrefix, KeepLateCost
<1>2. CASE last.kind \in {"cancel-requested", "abandoned"} /\ last.step = pending[p].step
  <2>1. /\ known' = [known EXCEPT ![p] = end] /\ Write(p, "discarded", last.step)
    BY <1>2 DEF KeepLateCost, Superseded
  <2>2. /\ pending'[p] = Event("discarded", last.step, p) /\ known'[p] = end
        /\ known' = [known EXCEPT ![p] = known'[p]]
        /\ pending' = [pending EXCEPT ![p] = pending'[p]] /\ Goto(p, "link")
    BY <2>1 DEF IInv, TypeOK, Write
  <2>3. log[end].after = At(last.kind, last.step)
    BY <1>1, <1>2 DEF IInv, LegalHistory, Target
  <2>4. /\ Admits(log[end].after, pending'[p]) /\ pending'[p] \in Events
        /\ pending'[p].by = p /\ pending'[p].kind \notin DecisionKinds \cup {"started"}
    BY <1>1, <1>2, <2>2, <2>3 DEF Admits, At, Event, Events, EventKinds, DecisionKinds
  <2>5. returned' \subseteq Procs \X Steps
    BY DEF IInv, TypeOK, KeepLateCost
  <2> QED
    BY <1>1, <2>2, <2>4, <2>5, WriteStep DEF KeepLateCost
<1>3. CASE ~(last.kind \in {"cancel-requested", "abandoned"} /\ last.step = pending[p].step)
  <2>1. Goto(p, "loser") /\ UNCHANGED <<known, pending>>
    BY <1>3 DEF KeepLateCost, Superseded
  <2>2. pc'[p] = "loser" /\ known' = [known EXCEPT ![p] = known'[p]]
        /\ known'[p] = known[p] /\ attempt' \in [Procs -> 0..1]
    BY <2>1 DEF IInv, TypeOK, Goto, KeepLateCost, pvars
  <2> QED
    BY <1>1, <2>1, <2>2, MoveStep DEF KeepLateCost, pvars
<1> QED
  BY <1>2, <1>3

\* A decision reports, or prepares an event its own reading allows.
LEMMA DecideStep ==
    ASSUME IInv, NEW p \in Procs, Decide(p)
    PROVE  IInv'
<1> DEFINE end  == Len(log)
           at   == Position(log[end].after)
           kind == IF command[p] = "abandon" THEN "abandoned"
                   ELSE IF at.kind = "dispatch" THEN "cancelled" ELSE "cancel-requested"
<1>1. CASE \E r \in Receipts : /\ Finish(p, r) /\ r.detail # "unreadable"
                              /\ UNCHANGED <<known, pending>>
  BY <1>1, EndStep DEF Decide, Finish
<1>2. CASE log = << >>
  BY <1>1, <1>2, BlockedReadable DEF Decide, Details
<1>3. CASE log # << >>
  <2>1. /\ end \in DOMAIN log /\ end \in Nat /\ log[end].after \in States
        /\ known[p] \in Nat /\ known[p] <= end
    <3>1. end \in DOMAIN log /\ end \in Nat /\ log[end].after \in States
      BY <1>3, RecordType DEF IInv, TypeOK
    <3>2. pc[p] = "decide" /\ known[p] \in Nat /\ known[p] <= end
      BY DEF IInv, TypeOK, KnowsPrefix, Decide
    <3> QED
      BY <3>1, <3>2
  <2>2. /\ at.kind # "invalid"
        /\ at.kind \in {"settled", "cancel-requested"} =>
             Settle(end) \in Receipts /\ Settle(end).detail # "unreadable"
    <3>1. at.kind # "invalid"
      BY <2>1, StateReadable DEF Position, Settled, At
    <3> QED
      BY <2>1, <3>1, DecidedRecord DEF IInv
  <2> DEFINE stays == \/ at.kind \in {"invalid", "settled"}
                      \/ command[p] = "cancel" /\ at.kind = "cancel-requested"
                      \/ command[p] = "abandon" /\ at.kind = "dispatch"
  <2>3. CASE stays
    BY <1>1, <1>3, <2>2, <2>3, BlockedReadable DEF Decide, Details
  <2>4. CASE ~stays
    <3>1. known' = [known EXCEPT ![p] = end] /\ Write(p, kind, at.step) /\ UNCHANGED receipt
      BY <1>3, <2>4 DEF Decide
    <3>2. /\ pending'[p] = Event(kind, at.step, p) /\ known'[p] = end
          /\ known' = [known EXCEPT ![p] = known'[p]]
          /\ pending' = [pending EXCEPT ![p] = pending'[p]] /\ Goto(p, "link")
      BY <3>1 DEF IInv, TypeOK, Write
    <3>3. /\ at.step = log[end].after.step
          /\ at.kind = IF log[end].after.kind = "in-flight" THEN "unknown"
                       ELSE log[end].after.kind
          /\ log[end].after.kind \in {"dispatch", "in-flight", "unknown", "cancel-requested"}
      BY <2>1, <2>4 DEF Position, Settled, At, States, StateKinds
    <3>4. command[p] \in {"cancel", "abandon"}
      BY DEF IInv, KnowsPrefix, Decide
    <3>5. Admits(log[end].after, Event(kind, at.step, p))
      BY <2>4, <3>3, <3>4 DEF Admits, Event
    <3>6. Event(kind, at.step, p) \in Events /\ kind # "started"
      BY <2>1, <3>3 DEF Event, Events, EventKinds, States
    <3>7. pending'[p].by = p /\ pending'[p].kind # "started"
      BY <3>2, <3>6 DEF Event
    <3>8. returned' \subseteq Procs \X Steps
      BY DEF IInv, TypeOK, Decide
    <3> QED
      BY <2>1, <3>1, <3>2, <3>4, <3>5, <3>6, <3>7, <3>8, WriteStep DEF Decide
  <2> QED
    BY <2>3, <2>4
<1> QED
  BY <1>2, <1>3

-----------------------------------------------------------------------------
(* Steps that change the log or launch *)

\* The record a free revision receives is legal after the one before it.
LEMMA LinkedRecord ==
    ASSUME IInv, NEW p \in Procs, Link(p)
    PROVE  LET m == Len(log) + 1
           IN  /\ log' \in Seq(Records) /\ Len(log') = m /\ DOMAIN log' = 1..m
               /\ \A n \in DOMAIN log : n \in 1..(m - 1) /\ log'[n] = log[n]
               /\ m = known[p] + 1 /\ log'[m].event = pending[p] /\ m \in Nat \ {0}
               /\ IF m = 1 THEN pending[p].kind = "started" /\ log'[m].after = Opened
                  ELSE /\ Admits(log[m - 1].after, pending[p])
                       /\ log'[m].after = Target(pending[p])
                       /\ m - 1 \in DOMAIN log
<1> DEFINE m == Len(log) + 1
           before == IF log = << >> THEN Opened ELSE log[Len(log)].after
           after == IF pending[p].kind = "started" THEN Opened
                    ELSE Transition(before, pending[p])
           rec == [event |-> pending[p], after |-> after]
<1>1. log \in Seq(Records) /\ Len(log) \in Nat /\ DOMAIN log = 1..Len(log)
  BY RecordType DEF IInv, TypeOK
<1>2. pending[p] \in Events
  BY DEF IInv, TypeOK
<1>3. before \in States
  BY <1>1, RecordType, OpenedType DEF IInv
<1>4. rec \in Records
  BY <1>2, <1>3, TransitionType, OpenedType DEF Records
<1>5. log' = Append(log, rec)
  BY DEF Link, NewRecord
<1>6. /\ log' \in Seq(Records) /\ Len(log') = m /\ DOMAIN log' = 1..m
      /\ \A n \in DOMAIN log : n \in 1..(m - 1) /\ log'[n] = log[n]
      /\ log'[m] = rec /\ m \in Nat \ {0}
  BY <1>1, <1>4, <1>5
<1>7. m = known[p] + 1 /\ pc[p] = "link"
  BY DEF Link, RevisionFree
<1>8. IF m = 1 THEN pending[p].kind = "started" /\ log'[m].after = Opened
      ELSE /\ Admits(log[m - 1].after, pending[p])
           /\ log'[m].after = Target(pending[p])
           /\ m - 1 \in DOMAIN log
  <2>1. CASE pending[p].kind = "started"
    BY <1>1, <1>6, <1>7, <2>1 DEF IInv, PendingLegal
  <2>2. CASE pending[p].kind # "started"
    <3>1. known[p] \in DOMAIN log /\ Admits(log[known[p]].after, pending[p])
      BY <1>7, <2>2 DEF IInv, PendingLegal
    <3>2. m - 1 = known[p] /\ m # 1 /\ m - 1 = Len(log) /\ log # << >>
      BY <1>1, <1>7, <3>1
    <3>3. log'[m].after = Transition(log[m - 1].after, pending[p])
      BY <1>6, <2>2, <3>2
    <3> QED
      BY <3>1, <3>2, <3>3 DEF Transition
  <2> QED
    BY <2>1, <2>2
<1> QED
  BY <1>6, <1>7, <1>8

\* The link of a legal pending event at a free revision keeps the history legal.
LEMMA LinkStep ==
    ASSUME IInv, NEW p \in Procs, Link(p)
    PROVE  IInv'
<1> DEFINE m == Len(log) + 1
           e == pending[p]
<1>1. /\ log' \in Seq(Records) /\ Len(log') = m /\ DOMAIN log' = 1..m
      /\ \A n \in DOMAIN log : n \in 1..(m - 1) /\ log'[n] = log[n]
      /\ m = known[p] + 1 /\ log'[m].event = e /\ m \in Nat \ {0}
  BY LinkedRecord
<1>2. IF m = 1 THEN e.kind = "started" /\ log'[m].after = Opened
      ELSE /\ Admits(log[m - 1].after, e)
           /\ log'[m].after = Target(e)
           /\ m - 1 \in DOMAIN log
  BY LinkedRecord
<1>3. /\ Len(log) \in Nat /\ DOMAIN log = 1..Len(log) /\ e \in Events
      /\ \A n \in DOMAIN log : log[n].event \in Events /\ log[n].after \in States
  BY RecordType DEF IInv, TypeOK
<1>4. (TypeOK /\ synced <= Len(log))'
  BY <1>1, <1>3 DEF IInv, TypeOK, Link, Goto, PCs, Active, pvars
<1>5. LegalHistory'
  BY <1>1, <1>2, <1>3 DEF IInv, LegalHistory
<1>6. PositionsCounted'
  <2>1. CASE m = 1
    BY <1>1, <1>2, <1>3, <2>1, StepCountAssumption DEF IInv, PositionsCounted, Opened, At, Steps
  <2>2. CASE m # 1
    <3> DEFINE b == log[m - 1].after
               t == Target(e)
    <3>1. /\ b \in States /\ Admits(b, e) /\ b.kind \notin {"settled", "invalid"}
          /\ b.step \in Steps
      BY <1>2, <1>3, <2>2 DEF IInv, PositionsCounted, Admits
    <3>2. /\ b.kind = "dispatch" => m - 1 = 2 * b.step - 1
          /\ b.kind = "in-flight" => m - 1 = 2 * b.step
      BY <1>2, <2>2 DEF IInv, PositionsCounted
    <3>3. /\ t.kind \notin {"settled", "invalid"} => t.step \in Steps
          /\ t.kind = "dispatch" => m = 2 * t.step - 1
          /\ t.kind = "in-flight" => m = 2 * t.step
      <4>0. b.step \in Nat /\ Len(log) \in Nat /\ m = Len(log) + 1
        BY <1>3, <3>1 DEF Steps
      <4> HIDE DEF m
      <4>1. CASE e.kind = "dispatched"
        <5>1. t = At("in-flight", e.step) /\ e.step = b.step /\ m - 1 = 2 * b.step - 1
          BY <3>1, <3>2, <4>1 DEF Admits, Target
        <5>2. t.kind = "in-flight" /\ t.step = b.step
          BY <5>1 DEF At
        <5>3. m - 1 = 2 * b.step - 1
          BY <5>1
        <5> HIDE DEF t, b
        <5>4. m = 2 * t.step /\ t.step \in Steps
          BY <3>1, <4>0, <5>2, <5>3
        <5> QED
          BY <5>2, <5>4
      <4>2. CASE e.kind = "accepted"
        <5>1. /\ t = At("dispatch", e.step + 1) /\ e.step = b.step /\ m - 1 = 2 * b.step
              /\ b.step < StepCount
          BY <3>1, <3>2, <4>2 DEF Admits, Target
        <5>2. t.kind = "dispatch" /\ t.step = b.step + 1
          BY <5>1 DEF At
        <5>3. m - 1 = 2 * b.step /\ b.step < StepCount
          BY <5>1
        <5> HIDE DEF t, b
        <5>4. m = 2 * t.step - 1
          BY <4>0, <5>2, <5>3
        <5>5. t.step \in Steps
          BY <3>1, <4>0, <5>2, <5>3, StepCountAssumption DEF Steps
        <5> QED
          BY <5>2, <5>4, <5>5
      <4>3. CASE e.kind \notin {"dispatched", "accepted"}
        BY <3>1, <4>3 DEF Admits, Target, At, Settled
      <4> QED
        BY <4>1, <4>2, <4>3
    <3> QED
      BY <1>1, <1>2, <1>3, <2>2, <3>3 DEF IInv, PositionsCounted
  <2> QED
    BY <2>1, <2>2
<1>7. NeverOfferedAgain'
  <2> SUFFICES ASSUME NEW i \in DOMAIN log', NEW j \in DOMAIN log', i <= j,
                      log'[i].event.kind = "dispatched"
               PROVE  /\ log'[j].after.kind = "dispatch" =>
                           log'[j].after.step > log'[i].event.step
                      /\ log'[j].after.kind = "in-flight" =>
                           log'[j].after.step >= log'[i].event.step
    BY DEF NeverOfferedAgain, Dispatched
  <2>1. CASE j \in DOMAIN log
    BY <1>1, <1>3, <2>1 DEF IInv, NeverOfferedAgain, Dispatched
  <2>2. CASE j = m /\ i = m
    BY <1>1, <1>2, <1>3, <2>2 DEF Target, At, Events
  <2>3. CASE j = m /\ i \in DOMAIN log
    <3> DEFINE b == log[m - 1].after
    <3>1. m # 1 /\ Admits(b, e) /\ log'[m].after = Target(e) /\ i <= m - 1
      BY <1>1, <1>2, <1>3, <2>3
    <3>2. /\ b.kind = "dispatch" => b.step > log[i].event.step
          /\ b.kind = "in-flight" => b.step >= log[i].event.step
      BY <1>1, <1>2, <2>3, <3>1 DEF IInv, NeverOfferedAgain, Dispatched
    <3>3. b.step \in Int /\ log[i].event.step \in Int /\ log'[i] = log[i]
      BY <1>1, <1>2, <1>3, <2>3, <3>1 DEF States, Events
    <3>4. /\ Target(e).kind = "dispatch" => Target(e).step > log[i].event.step
          /\ Target(e).kind = "in-flight" => Target(e).step >= log[i].event.step
      BY <3>1, <3>2, <3>3 DEF Admits, Target, At, Settled
    <3> QED
      BY <2>3, <3>1, <3>3, <3>4
  <2> QED
    BY <1>1, <1>3, <2>1, <2>2, <2>3
<1>8. ASSUME NEW q \in Procs PROVE PendingLegal(q)' /\ KnowsPrefix(q)'
  <2>1. CASE q = p
    <3>1. /\ pc'[p] = "sync" /\ known' = known /\ pending' = pending /\ command' = command
          /\ synced' = synced /\ pending[p].by = p /\ known[p] \in Nat
      BY DEF IInv, TypeOK, Link, Goto, pvars, KnowsPrefix
    <3>2. PendingLegal(p)'
      BY <3>1 DEF PendingLegal
    <3>3. KnowsPrefix(p)'
      BY <1>1, <3>1 DEF KnowsPrefix
    <3> QED
      BY <2>1, <3>2, <3>3
  <2>2. CASE q # p
    <3>1. /\ pc'[q] = pc[q] /\ known' = known /\ pending' = pending /\ command' = command
          /\ synced' = synced /\ known[q] \in Nat
      BY <2>2 DEF IInv, TypeOK, Link, Goto, pvars
    <3>2. PendingLegal(q) /\ KnowsPrefix(q)
      BY DEF IInv
    <3>3. DOMAIN log \subseteq DOMAIN log' /\ log' # << >>
      BY <1>1, <1>3
    <3>4. PendingLegal(q)'
      BY <1>1, <1>3, <3>1, <3>2, <3>3 DEF PendingLegal
    <3>5. pc[q] \in {"execute", "executing"} => known[q] \in DOMAIN log
      BY InFlight
    <3> QED
      BY <1>1, <1>3, <3>1, <3>2, <3>3, <3>4, <3>5 DEF KnowsPrefix
  <2> QED
    BY <2>1, <2>2
<1>9. ASSUME NEW s \in Steps PROVE (launches[s] <= 1 /\ LaunchCovered(s))'
  <2>1. launches[s] <= 1 /\ LaunchCovered(s)
    BY DEF IInv
  <2>2. UNCHANGED <<launches, synced, known>> /\ synced \in Nat /\ synced <= Len(log)
    BY DEF Link, IInv, TypeOK
  <2>3. \A q \in Procs : pc'[q] = "execute" => pc[q] = "execute"
    BY DEF Link, Goto, IInv, TypeOK
  <2>4. \A n \in 1..synced : n \in DOMAIN log /\ log'[n] = log[n]
                             /\ log[n].event.by \in Procs
    BY <1>1, <1>3, <2>2 DEF Events
  <2> QED
    BY <2>1, <2>2, <2>3, <2>4 DEF LaunchCovered, Dispatched
<1> QED
  BY <1>4, <1>5, <1>6, <1>7, <1>8, <1>9 DEF IInv, Link, NoneUnreadable

\* A completed sync makes its own record, and every earlier one, durable.
LEMMA SyncStep ==
    ASSUME IInv, NEW p \in Procs, Sync(p)
    PROVE  IInv'
<1> DEFINE e == pending[p]
<1>1. /\ known[p] \in Nat /\ known[p] + 1 \in DOMAIN log /\ log[known[p] + 1].event = e
      /\ DOMAIN log = 1..Len(log) /\ Len(log) \in Nat /\ e \in Events /\ e.by = p
      /\ known[p] + 1 <= Len(log)
  <2>1. known[p] + 1 \in DOMAIN log /\ log[known[p] + 1].event = e /\ e.by = p
    BY DEF IInv, KnowsPrefix, Sync
  <2>2. known[p] \in Nat /\ e \in Events
    BY DEF IInv, TypeOK
  <2> QED
    BY <2>1, <2>2, RecordType DEF IInv
<1>2. /\ pc'[p] \in {"advance", "execute", "done"} /\ Goto(p, pc'[p])
      /\ pc'[p] = "execute" => e.kind = "dispatched"
      /\ receipt' \in [Procs -> Receipts] /\ NoneUnreadable'
  <2>1. /\ Settle(known[p] + 1) \in Receipts
        /\ e.kind \notin {"started", "dispatched", "accepted"} =>
             Settle(known[p] + 1).detail # "unreadable"
    BY <1>1, SettleType, SettleReadable DEF IInv
  <2>2. /\ Receipt("paused", "", e.step) \in Receipts
        /\ Receipt("paused", "", e.step).detail # "unreadable"
    BY <1>1 DEF Receipt, Receipts, ReceiptKinds, Details, Events
  <2>3. CASE \E r \in Receipts : Finish(p, r) /\ r.detail # "unreadable"
    BY <2>3 DEF Finish, Goto, IInv, TypeOK, NoneUnreadable
  <2>4. CASE \E point \in {"advance", "execute"} :
               /\ Goto(p, point) /\ UNCHANGED receipt
               /\ point = "execute" => e.kind = "dispatched"
    BY <2>4 DEF Goto, IInv, TypeOK, NoneUnreadable
  <2> QED
    BY <2>1, <2>2, <2>3, <2>4 DEF Sync, AfterWrite
<1>3. /\ known' = [known EXCEPT ![p] = @ + 1] /\ synced' = Len(log)
      /\ UNCHANGED <<log, pvars, pending, returned, launches>>
  BY DEF Sync
<1>4. TypeOK'
  <2>1. pc' \in [Procs -> PCs]
    BY <1>2 DEF IInv, TypeOK, Goto, PCs, Active
  <2>2. known' \in [Procs -> Nat] /\ synced' \in Nat
    BY <1>1, <1>3 DEF IInv, TypeOK
  <2> QED
    BY <1>2, <1>3, <2>1, <2>2 DEF IInv, TypeOK, pvars
<1>5. (synced <= Len(log) /\ LegalHistory /\ PositionsCounted /\ NeverOfferedAgain)'
  BY <1>1, <1>3 DEF IInv, LegalHistory, PositionsCounted, NeverOfferedAgain, Dispatched
<1>6. ASSUME NEW q \in Procs PROVE PendingLegal(q)' /\ KnowsPrefix(q)'
  <2>1. CASE q = p
    <3>1. known'[p] = known[p] + 1 /\ pending' = pending /\ log' = log /\ synced' = Len(log)
      BY <1>3 DEF IInv, TypeOK
    <3>2. PendingLegal(p)'
      BY <1>2 DEF PendingLegal
    <3>3. KnowsPrefix(p)'
      BY <1>1, <1>2, <3>1 DEF KnowsPrefix
    <3> QED
      BY <2>1, <3>2, <3>3
  <2>2. CASE q # p
    <3>1. /\ pc'[q] = pc[q] /\ known'[q] = known[q] /\ pending' = pending /\ log' = log
          /\ command' = command /\ known[q] \in Nat /\ synced \in Nat /\ synced <= synced'
          /\ synced' \in Nat
      BY <1>1, <1>2, <1>3, <2>2 DEF IInv, TypeOK, Goto, pvars
    <3> QED
      BY <3>1 DEF IInv, PendingLegal, KnowsPrefix
  <2> QED
    BY <2>1, <2>2
<1>7. ASSUME NEW s \in Steps PROVE (launches[s] <= 1 /\ LaunchCovered(s))'
  <2>1. launches[s] <= 1 /\ LaunchCovered(s)
    BY DEF IInv
  <2>2. /\ known'[p] = known[p] + 1
        /\ \A q \in Procs \ {p} : pc'[q] = pc[q] /\ known'[q] = known[q]
        /\ \A q \in Procs : known[q] \in Nat
    BY <1>2, <1>3 DEF IInv, TypeOK, Goto
  <2>3. /\ synced \in Nat /\ synced <= synced' /\ synced' \in Nat
        /\ \A n \in 1..synced : n \in 1..synced' /\ log[n].event.by \in Procs
    <3>1. synced \in Nat /\ synced <= Len(log) /\ synced' = Len(log)
      BY <1>3 DEF IInv, TypeOK
    <3>2. \A n \in DOMAIN log : log[n].event.by \in Procs
      BY RecordType DEF IInv, Events
    <3> QED
      BY <1>1, <3>1, <3>2
  <2>4. CASE launches[s] > 0
    <3>1. PICK n \in 1..synced :
             /\ Dispatched(n) /\ log[n].event.step = s
             /\ LET q == log[n].event.by
                IN  known[q] >= n /\ ~(pc[q] = "execute" /\ known[q] = n)
      BY <2>1, <2>4 DEF LaunchCovered
    <3> DEFINE q == log[n].event.by
    <3>2. known'[q] >= n /\ ~(pc'[q] = "execute" /\ known'[q] = n)
      BY <2>2, <2>3, <3>1
    <3> QED
      BY <1>3, <2>1, <2>3, <3>1, <3>2 DEF LaunchCovered, Dispatched
  <2> QED
    BY <1>3, <2>1, <2>4 DEF LaunchCovered
<1> QED
  BY <1>2, <1>4, <1>5, <1>6, <1>7 DEF IInv

\* A step has one intent: the reducer never offers a dispatched step again.
LEMMA OneIntent ==
    ASSUME IInv, NEW i \in DOMAIN log, NEW j \in DOMAIN log,
           Dispatched(i), Dispatched(j), log[i].event.step = log[j].event.step
    PROVE  i = j
<1>1. ASSUME NEW a \in DOMAIN log, NEW b \in DOMAIN log, a < b,
             Dispatched(a), Dispatched(b), log[a].event.step = log[b].event.step
      PROVE  FALSE
  <2>1. b - 1 \in DOMAIN log /\ a <= b - 1 /\ b # 1
    BY <1>1, RecordType DEF IInv
  <2>2. Admits(log[b - 1].after, log[b].event)
    BY <2>1 DEF IInv, LegalHistory
  <2>3. log[b - 1].after.kind = "dispatch" /\ log[b - 1].after.step = log[b].event.step
    BY <1>1, <2>2 DEF Admits, Dispatched
  <2>4. log[b - 1].after.step > log[a].event.step
    BY <1>1, <2>1, <2>3 DEF IInv, NeverOfferedAgain
  <2>5. log[a].event.step \in Int
    BY RecordType DEF IInv, Events
  <2> QED
    BY <1>1, <2>3, <2>4, <2>5
<1>2. i \in Nat /\ j \in Nat
  BY RecordType DEF IInv
<1> QED
  BY <1>1, <1>2

\* The executor is called for a step that was never launched.
LEMMA ExecuteStep ==
    ASSUME IInv, NEW p \in Procs, Execute(p)
    PROVE  IInv' /\ launches[pending[p].step] = 0
<1> DEFINE step == pending[p].step
           k == known[p]
<1>1. /\ pc[p] = "execute" /\ k \in DOMAIN log /\ k \in Nat /\ step \in Steps
      /\ k \in 1..synced /\ log[k].event = pending[p] /\ pending[p].kind = "dispatched"
      /\ pending[p].by = p
  BY InFlight DEF Execute, IInv, KnowsPrefix
<1>2. launches[step] = 0
  <2>1. SUFFICES ASSUME launches[step] > 0 PROVE FALSE
    BY <1>1 DEF IInv, TypeOK
  <2>2. PICK n \in 1..synced :
           /\ Dispatched(n) /\ log[n].event.step = step
           /\ LET q == log[n].event.by
              IN  known[q] >= n /\ ~(pc[q] = "execute" /\ known[q] = n)
    BY <1>1, <2>1 DEF IInv, LaunchCovered
  <2>3. n \in DOMAIN log
    BY RecordType DEF IInv, TypeOK
  <2>4. n = k
    BY <1>1, <2>2, <2>3, OneIntent DEF Dispatched
  <2> QED
    BY <1>1, <2>2, <2>4
<1>3. /\ launches' = [launches EXCEPT ![step] = @ + 1] /\ pc' = [pc EXCEPT ![p] = "executing"]
      /\ UNCHANGED <<log, synced, pvars, known, pending, returned, receipt>>
  BY DEF Execute, Goto, jvars
<1>4. TypeOK'
  BY <1>1, <1>3 DEF IInv, TypeOK, pvars, PCs, Active
<1>5. (synced <= Len(log) /\ LegalHistory /\ PositionsCounted /\ NeverOfferedAgain)'
  BY <1>3 DEF IInv, LegalHistory, PositionsCounted, NeverOfferedAgain, Dispatched
<1>6. ASSUME NEW q \in Procs PROVE PendingLegal(q)' /\ KnowsPrefix(q)'
  <2>1. pc'[q] = pc[q] \/ (q = p /\ pc'[q] = "executing" /\ pc[q] = "execute")
    BY <1>1, <1>3 DEF IInv, TypeOK
  <2> QED
    BY <1>3, <2>1 DEF IInv, PendingLegal, KnowsPrefix, pvars
<1>7. ASSUME NEW s \in Steps PROVE (launches[s] <= 1 /\ LaunchCovered(s))'
  <2>1. CASE s = step
    <3>1. launches'[s] = 1
      BY <1>1, <1>2, <1>3, <2>1 DEF IInv, TypeOK
    <3>2. pc'[p] # "execute"
      BY <1>3 DEF IInv, TypeOK
    <3> QED
      BY <1>1, <1>3, <2>1, <3>1, <3>2 DEF LaunchCovered, Dispatched
  <2>2. CASE s # step
    <3>1. launches'[s] = launches[s] /\ launches[s] <= 1 /\ LaunchCovered(s)
      BY <1>1, <1>3, <2>2 DEF IInv, TypeOK
    <3>2. \A q \in Procs : pc'[q] = "execute" => pc[q] = "execute"
      BY <1>3 DEF IInv, TypeOK
    <3>3. \A n \in 1..synced : log[n].event.by \in Procs
      <4>1. synced \in Nat /\ synced <= Len(log)
        BY DEF IInv, TypeOK
      <4> QED
        BY <4>1, RecordType DEF IInv, Events
    <3> QED
      BY <1>3, <3>1, <3>2, <3>3 DEF LaunchCovered, Dispatched
  <2> QED
    BY <2>1, <2>2
<1>8. NoneUnreadable'
  BY <1>3 DEF IInv, NoneUnreadable
<1> QED
  BY <1>2, <1>4, <1>5, <1>6, <1>7, <1>8 DEF IInv

\* What is durable survives the host; every process is gone.
LEMMA PowerLossStep ==
    ASSUME IInv, PowerLoss
    PROVE  IInv'
<1>1. PICK n \in synced..Len(log) : log' = SubSeq(log, 1, n)
  BY DEF PowerLoss
<1>2. log \in Seq(Records) /\ Len(log) \in Nat /\ DOMAIN log = 1..Len(log)
      /\ synced \in Nat /\ synced <= n /\ n <= Len(log) /\ n \in Nat
  BY RecordType DEF IInv, TypeOK
<1>3. /\ log' \in Seq(Records) /\ Len(log') = n /\ DOMAIN log' = 1..n
      /\ \A i \in 1..n : i \in DOMAIN log /\ log'[i] = log[i]
  BY <1>1, <1>2
<1>4. /\ UNCHANGED <<synced, pvars, known, pending, returned, receipt, launches>>
      /\ pc' = [p \in Procs |-> IF pc[p] \in Active THEN "dead" ELSE pc[p]]
  BY DEF PowerLoss
<1>5. pc' \in [Procs -> {"idle", "done", "dead"}]
  BY <1>4 DEF IInv, TypeOK, PCs
<1>6. (TypeOK /\ synced <= Len(log))'
  BY <1>2, <1>3, <1>4, <1>5 DEF IInv, TypeOK, pvars, PCs
<1>7. LegalHistory'
  BY <1>2, <1>3 DEF IInv, LegalHistory
<1>8. PositionsCounted' /\ NeverOfferedAgain'
  BY <1>3 DEF IInv, PositionsCounted, NeverOfferedAgain, Dispatched
<1>9. ASSUME NEW q \in Procs PROVE PendingLegal(q)' /\ KnowsPrefix(q)'
  <2>1. pc'[q] = "idle" => pc[q] = "idle"
    BY <1>4
  <2>2. known[q] \in Nat /\ pc'[q] \in {"idle", "done", "dead"}
    BY <1>5 DEF IInv, TypeOK
  <2> QED
    BY <1>2, <1>3, <1>4, <2>1, <2>2 DEF IInv, PendingLegal, KnowsPrefix
<1>10. ASSUME NEW s \in Steps PROVE (launches[s] <= 1 /\ LaunchCovered(s))'
  <2>1. launches[s] <= 1 /\ LaunchCovered(s)
    BY DEF IInv
  <2>2. \A i \in 1..synced : log'[i] = log[i] /\ log[i].event.by \in Procs
    BY <1>2, <1>3, RecordType DEF IInv, Events
  <2>3. \A q \in Procs : pc'[q] # "execute"
    BY <1>5
  <2> QED
    BY <1>4, <2>1, <2>2, <2>3 DEF LaunchCovered, Dispatched
<1>11. NoneUnreadable'
  BY <1>4 DEF IInv, NoneUnreadable
<1> QED
  BY <1>6, <1>7, <1>8, <1>9, <1>10, <1>11 DEF IInv

-----------------------------------------------------------------------------
(* The theorems *)

\* Every step, of every process or of the host, preserves the invariant.
LEMMA NextIInv == IInv /\ [Next]_vars => IInv'
<1> SUFFICES ASSUME IInv, [Next]_vars PROVE IInv'
  OBVIOUS
<1>1. CASE \E p \in Procs : Start(p) \/ Open(p)
  BY <1>1, StartStep, OpenStep
<1>2. CASE \E p \in Procs : Load(p) \/ Advance(p) \/ Decide(p)
  BY <1>2, LoadStep, AdvanceStep, DecideStep
<1>3. CASE \E p \in Procs : Link(p) \/ LinkRefused(p) \/ Sync(p)
  BY <1>3, LinkStep, LinkRefusedStep, SyncStep
<1>4. CASE \E p \in Procs : Execute(p) \/ Refuse(p) \/ Return(p) \/ KeepLateCost(p)
  BY <1>4, ExecuteStep, OutcomeStep, KeepLateCostStep
<1>5. CASE \E p \in Procs : \/ ReadFails(p) \/ JournalFull(p) \/ AppendFails(p)
                            \/ SyncFails(p) \/ Throw(p) \/ AfterConflict(p) \/ Crash(p)
  BY <1>5, EndSteps
<1>6. CASE PowerLoss
  BY <1>6, PowerLossStep
<1>7. CASE UNCHANGED vars
  BY <1>7 DEF vars, jvars, pvars, IInv, TypeOK, LegalHistory, PositionsCounted,
              NeverOfferedAgain, Dispatched, PendingLegal, KnowsPrefix, LaunchCovered,
              NoneUnreadable
<1> QED
  BY <1>1, <1>2, <1>3, <1>4, <1>5, <1>6, <1>7 DEF Next, Progress, Fault

\* The inductive invariant holds in every reachable state.
THEOREM InvariantHolds == Spec => []IInv
<1> QED
  BY InitIInv, NextIInv, PTL DEF Spec

\* Every variable keeps its type, whatever fails.
THEOREM TypeCorrect == Spec => []TypeOK
<1>1. IInv => TypeOK
  BY DEF IInv
<1> QED
  BY <1>1, InvariantHolds, PTL

\* No step is handed to an executor twice (runtime/mission.ts dispatch), for
\* any number of racing processes, crashes and power losses.
THEOREM LaunchedAtMostOnce == Spec => []AtMostOneLaunch
<1>1. IInv => AtMostOneLaunch
  BY DEF IInv, AtMostOneLaunch
<1> QED
  BY <1>1, InvariantHolds, PTL

\* The reducer never meets an event it refuses (core/mission.ts transition).
THEOREM HistoryStaysReadable == Spec => []HistoryReadable
<1>1. ASSUME IInv PROVE HistoryReadable
  <2>1. ASSUME NEW n \in DOMAIN log
        PROVE  log[n].after.kind # "invalid" /\ ((log[n].event.kind = "started") <=> (n = 1))
    BY <1>1, <2>1, StateReadable DEF IInv, LegalHistory, Admits
  <2> QED
    BY <1>1, <2>1 DEF HistoryReadable, IInv, NoneUnreadable
<1> QED
  BY <1>1, InvariantHolds, PTL

\* The outcome of a launched step has a revision left unless its intent took
\* the last one of MAX_RECORDS: of the eight steps a mission may have and the
\* 16 records of file-journal.ts, the eighth step lacks it and no other does.
THEOREM OutcomeHasRoom == Spec => []OutcomeFits
<1>1. ASSUME IInv PROVE OutcomeFits
  <2> SUFFICES ASSUME NEW p \in Procs, pc[p] = "executing"
               PROVE  known[p] < MaxRecords <=> 2 * pending[p].step < MaxRecords
    BY DEF OutcomeFits, HasRoom
  <2>1. /\ known[p] \in DOMAIN log
        /\ log[known[p]].after = At("in-flight", pending[p].step)
    BY <1>1, InFlight
  <2>2. known[p] = 2 * pending[p].step
    BY <1>1, <2>1 DEF IInv, PositionsCounted, At
  <2> QED
    BY <2>2
<1> QED
  BY <1>1, InvariantHolds, PTL

-----------------------------------------------------------------------------
(* The fold of a history *)

\* A set of numbers that is not empty has a least element.
LEMMA LeastExists ==
    ASSUME NEW S \in SUBSET Nat, S # {}
    PROVE  \E m \in S : \A n \in S : m <= n
<1>1. PICK m \in S : \A n \in S : <<n, m>> \notin OpToRel(<, Nat)
  BY NatLessThanWellFounded, WFMin, Zenon
<1>2. \A n \in S : ~(n < m)
  BY <1>1 DEF OpToRel
<1> QED
  BY <1>2

\* What the reducer makes of a prefix is the state kept with its last record.
LEMMA ReducedIsKept ==
    ASSUME IInv, NEW n \in DOMAIN log, n <= MissionEventLimit
    PROVE  log[n].after = Reduced([i \in 1..n |-> log[i].event])
<1> DEFINE events == [i \in 1..n |-> log[i].event]
           kept == [i \in 1..n |-> log[i].after]
           IsFold(f) ==
               f = [i \in 1..Len(events) |->
                       IF i = 1 THEN Opened ELSE Transition(f[i - 1], events[i])]
<1>1. /\ n \in Nat /\ n >= 1 /\ 1..n \subseteq DOMAIN log
      /\ \A i \in 1..n : log[i].event \in Events
  BY RecordType DEF IInv
<1>2. events \in Seq(Events) /\ Len(events) = n /\ events # << >>
  BY <1>1
<1>3. \A i \in 1..n : IF i = 1 THEN log[i].event.kind = "started" /\ log[i].after = Opened
                      ELSE log[i].after = Transition(log[i - 1].after, log[i].event)
  BY <1>1 DEF IInv, LegalHistory, Transition
<1>4. IsFold(kept)
  BY <1>1, <1>2, <1>3
<1>5. ASSUME NEW f, IsFold(f) PROVE f = kept
  <2>1. \A i \in 1..n : f[i] = IF i = 1 THEN Opened ELSE Transition(f[i - 1], log[i].event)
    BY <1>2, <1>5
  <2>2. f = [i \in 1..n |-> f[i]]
    BY <1>2, <1>5
  <2>3. ASSUME NEW i \in 1..n, f[i] # kept[i] PROVE FALSE
    <3> DEFINE wrong == {k \in 1..n : f[k] # kept[k]}
    <3>1. PICK m \in wrong : \A k \in wrong : m <= k
      <4>1. wrong \in SUBSET Nat /\ wrong # {}
        BY <1>1, <2>3
      <4> HIDE DEF wrong
      <4> QED
        BY <4>1, LeastExists
    <3>2. m # 1
      BY <1>1, <1>3, <2>1, <3>1
    <3>3. m - 1 \in 1..n /\ m - 1 \notin wrong
      BY <1>1, <3>1, <3>2
    <3>4. f[m] = Transition(kept[m - 1], log[m].event)
      BY <2>1, <3>1, <3>2, <3>3
    <3> QED
      BY <1>1, <1>3, <3>1, <3>2, <3>3, <3>4
  <2> QED
    BY <2>2, <2>3
<1>6. (CHOOSE f : IsFold(f)) = kept
  <2> HIDE DEF IsFold, kept
  <2> QED
    BY <1>4, <1>5
<1>7. events[1].kind = "started"
  BY <1>1, <1>3
<1>8. Reduced(events) = (CHOOSE f : IsFold(f))[Len(events)]
  <2>1. ~(events = << >> \/ Len(events) > MissionEventLimit) /\ ~(events[1].kind # "started")
    BY <1>1, <1>2, <1>7, EventLimitAssumption
  <2> HIDE DEF events
  <2> QED
    BY <2>1, Zenon DEF Reduced
<1>9. Reduced(events) = kept[n]
  <2> HIDE DEF events, kept, IsFold
  <2> QED
    BY <1>2, <1>6, <1>8
<1> QED
  BY <1>1, <1>9

\* A process links its record only while the journal has room for it.
LEMMA LogFits == IInv /\ [Next]_vars /\ Len(log) <= MaxRecords => (Len(log) <= MaxRecords)'
<1> SUFFICES ASSUME IInv, [Next]_vars, Len(log) <= MaxRecords PROVE Len(log') <= MaxRecords
  OBVIOUS
<1>1. Len(log) \in Nat /\ log \in Seq(Records) /\ synced \in Nat
  BY RecordType DEF IInv, TypeOK
<1>2. ASSUME NEW p \in Procs, Link(p) PROVE Len(log') <= MaxRecords
  <2>1. Len(log') = Len(log) + 1
    BY <1>1, <1>2 DEF Link
  <2>2. Len(log) < MaxRecords
    BY <1>2 DEF Link, HasRoom, RevisionFree
  <2> QED
    BY <1>1, <2>1, <2>2, MaxRecordsAssumption
<1>3. CASE PowerLoss
  <2>1. PICK n \in synced..Len(log) : log' = SubSeq(log, 1, n)
    BY <1>3 DEF PowerLoss
  <2>2. Len(log') = n
    BY <1>1, <2>1
  <2> QED
    BY <1>1, <2>1, <2>2, MaxRecordsAssumption
<1>4. CASE UNCHANGED log
  BY <1>4
<1> QED
  BY <1>2, <1>3, <1>4
     DEF Next, Progress, Fault, vars, jvars, Start, Open, Load, ReadFails, Advance,
         Decide, LinkRefused, JournalFull, AppendFails, Sync, SyncFails, Execute,
         Refuse, Return, Throw, KeepLateCost, AfterConflict, Crash

\* The state a record is kept with is what missionPosition computes from the
\* events alone, as long as the journal is not longer than a readable history.
THEOREM KeptStateIsReduced ==
    ASSUME MaxRecords <= MissionEventLimit
    PROVE  Spec => []ReducerAgreement
<1>1. Init => Len(log) <= MaxRecords
  BY MaxRecordsAssumption DEF Init
<1>2. ASSUME IInv, Len(log) <= MaxRecords PROVE ReducerAgreement
  <2>1. \A n \in DOMAIN log : n \in Nat /\ n <= MissionEventLimit
    BY <1>2, RecordType, MaxRecordsAssumption, EventLimitAssumption DEF IInv
  <2> QED
    BY <1>2, <2>1, ReducedIsKept DEF ReducerAgreement
<1> QED
  BY <1>1, <1>2, LogFits, InvariantHolds, PTL DEF Spec

-----------------------------------------------------------------------------
(* The order of a legal history *)

\* A record whose state is in flight is the intent itself.
LEMMA FlightRecord ==
    ASSUME IInv, NEW n \in DOMAIN log, log[n].after.kind = "in-flight"
    PROVE  Dispatched(n) /\ log[n].after.step = log[n].event.step
<1>1. n # 1
  BY DEF IInv, LegalHistory, Opened, At
<1>2. log[n].after = Target(log[n].event)
  BY <1>1 DEF IInv, LegalHistory
<1> QED
  BY <1>2 DEF Target, At, Settled, Dispatched

\* A step other than the first is offered by the acceptance of the one before.
LEMMA OfferedAfterAcceptance ==
    ASSUME IInv, NEW n \in DOMAIN log, log[n].after.kind = "dispatch", log[n].after.step > 1
    PROVE  log[n].event.kind = "accepted" /\ log[n].event.step = log[n].after.step - 1
<1>1. n # 1
  BY DEF IInv, LegalHistory, Opened, At
<1>2. log[n].after = Target(log[n].event) /\ log[n].event \in Events
  BY <1>1, RecordType DEF IInv, LegalHistory
<1>3. log[n].event.step \in 0..StepCount
  BY <1>2 DEF Events
<1> QED
  BY <1>2, <1>3, StepCountAssumption DEF Target, At, Settled

\* Two records in a row: the second was admitted after the first.
LEMMA Successor ==
    ASSUME IInv, NEW n \in DOMAIN log, n + 1 \in DOMAIN log
    PROVE  /\ Admits(log[n].after, log[n + 1].event)
           /\ log[n + 1].after = Target(log[n + 1].event)
           /\ n \in Nat \ {0} /\ n + 1 # 1
<1>1. n \in Nat \ {0} /\ n + 1 # 1 /\ (n + 1) - 1 = n
  BY RecordType DEF IInv
<1> QED
  BY <1>1 DEF IInv, LegalHistory

\* A step is launched only after the previous one was accepted.
LEMMA LaunchedAfterAcceptance == IInv => LaunchAfterAcceptance
<1> SUFFICES ASSUME IInv, NEW s \in Steps, s > 1, launches[s] > 0
             PROVE  \E n \in 1..synced : /\ n \in DOMAIN log
                                         /\ log[n].event.kind = "accepted"
                                         /\ log[n].event.step = s - 1
  BY DEF LaunchAfterAcceptance
<1>1. PICK n \in 1..synced : Dispatched(n) /\ log[n].event.step = s
  BY DEF IInv, LaunchCovered
<1>2. n \in DOMAIN log /\ synced \in Nat /\ synced <= Len(log) /\ DOMAIN log = 1..Len(log)
      /\ Len(log) \in Nat
  BY RecordType DEF IInv, TypeOK
<1>3. n # 1
  BY <1>1, <1>2 DEF IInv, LegalHistory, Dispatched
<1>4. n - 1 \in DOMAIN log /\ n - 1 \in 1..synced
  BY <1>2, <1>3
<1>5. Admits(log[n - 1].after, log[n].event)
  BY <1>2, <1>3 DEF IInv, LegalHistory
<1>6. log[n - 1].after.kind = "dispatch" /\ log[n - 1].after.step = s
  BY <1>1, <1>5 DEF Admits, Dispatched
<1> QED
  BY <1>4, <1>6, OfferedAfterAcceptance

\* A decided history ends there; a cancellation request may be followed by an
\* abandonment, and each of them by the cost of a late result.
LEMMA DecidedEnds ==
    ASSUME IInv, NEW n \in DOMAIN log
    PROVE  LET last == log[Len(log)].event.kind
           IN  /\ log[n].event.kind \in {"completed", "stopped", "rejected", "cancelled",
                                         "discarded"} => n = Len(log)
               /\ log[n].event.kind = "abandoned" => last \in {"abandoned", "discarded"}
               /\ log[n].event.kind = "cancel-requested" =>
                     last \in {"cancel-requested", "abandoned", "discarded"}
<1> DEFINE end == Len(log)
<1>1. end \in Nat /\ DOMAIN log = 1..end /\ n \in 1..end /\ end \in DOMAIN log
  BY RecordType DEF IInv
<1>2. ASSUME NEW m \in DOMAIN log, m # end
      PROVE  /\ m + 1 \in DOMAIN log /\ m + 1 \in Nat
             /\ Admits(log[m].after, log[m + 1].event)
  <2>1. m + 1 \in DOMAIN log
    BY <1>1, <1>2
  <2> QED
    BY <1>1, <2>1, Successor
<1>3. ASSUME NEW m \in DOMAIN log, log[m].event.kind # "started"
      PROVE  log[m].after = Target(log[m].event)
  BY <1>3 DEF IInv, LegalHistory
<1>4. ASSUME NEW m \in DOMAIN log,
             log[m].event.kind \in {"completed", "stopped", "rejected", "cancelled", "discarded"}
      PROVE  m = end
  <2>1. log[m].after.kind \in {"settled", "discarded"}
    <3>1. log[m].after = Target(log[m].event)
      BY <1>3, <1>4
    <3> QED
      BY <1>4, <3>1 DEF Target, At, Settled
  <2> QED
    BY <1>2, <2>1 DEF Admits
<1>5. ASSUME NEW m \in DOMAIN log, log[m].event.kind = "abandoned"
      PROVE  log[end].event.kind \in {"abandoned", "discarded"}
  <2>1. log[m].after.kind = "abandoned"
    <3>1. log[m].after = Target(log[m].event)
      BY <1>3, <1>5
    <3> QED
      BY <1>5, <3>1 DEF Target, At
  <2>2. CASE m # end
    <3>1. log[m + 1].event.kind = "discarded" /\ m + 1 \in DOMAIN log
      BY <1>2, <2>1, <2>2 DEF Admits
    <3> QED
      BY <1>4, <3>1
  <2> QED
    BY <1>5, <2>2
<1>6. ASSUME NEW m \in DOMAIN log, log[m].event.kind = "cancel-requested"
      PROVE  log[end].event.kind \in {"cancel-requested", "abandoned", "discarded"}
  <2>1. log[m].after.kind = "cancel-requested"
    <3>1. log[m].after = Target(log[m].event)
      BY <1>3, <1>6
    <3> QED
      BY <1>6, <3>1 DEF Target, At
  <2>2. CASE m # end
    <3>1. log[m + 1].event.kind \in {"abandoned", "discarded"} /\ m + 1 \in DOMAIN log
      BY <1>2, <2>1, <2>2 DEF Admits
    <3> QED
      BY <1>4, <1>5, <3>1
  <2> QED
    BY <1>6, <2>2
<1> QED
  BY <1>4, <1>5, <1>6

-----------------------------------------------------------------------------
(* The answers of executors *)

\* The first state, and the steps that leave the log and the launches alone:
\* only the process that moves has anything to show.
LEMMA InitAnswer == Init => AnswerInv
<1> SUFFICES ASSUME Init PROVE AnswerInv
  OBVIOUS
<1>1. \A p \in Procs : IntentStands(p) /\ AnswerWasLaunched(p)
  BY DEF Init, IntentStands, AnswerWasLaunched, Unanswered, Answering
<1> QED
  BY <1>1, InitIInv DEF AnswerInv

\* A step that writes nothing and launches nothing concerns its process only.
LEMMA OwnStep ==
    ASSUME AnswerInv, IInv', NEW p \in Procs,
           UNCHANGED <<log, launches>>,
           \A q \in Procs \ {p} : pc'[q] = pc[q] /\ pending'[q] = pending[q],
           IntentStands(p)', AnswerWasLaunched(p)'
    PROVE  AnswerInv'
<1>1. ASSUME NEW q \in Procs \ {p} PROVE IntentStands(q)' /\ AnswerWasLaunched(q)'
  BY <1>1 DEF AnswerInv, IntentStands, Unanswered, Answering, AnswerWasLaunched
<1> QED
  BY <1>1 DEF AnswerInv

\* A process that leaves its answer, or has none.
LEMMA NoAnswerStep ==
    ASSUME AnswerInv, IInv', NEW p \in Procs,
           UNCHANGED <<log, launches>>,
           \A q \in Procs \ {p} : pc'[q] = pc[q] /\ pending'[q] = pending[q],
           ~Unanswered(p)'
    PROVE  AnswerInv'
<1>1. IntentStands(p)' /\ AnswerWasLaunched(p)'
  BY DEF IntentStands, AnswerWasLaunched, Unanswered, Answering, AnswerKinds, CarriesUsage
<1> QED
  BY <1>1, OwnStep

\* Commands, reads, decisions and reports.
LEMMA CommandSteps ==
    ASSUME AnswerInv, IInv', NEW p \in Procs,
           \/ Start(p) \/ Open(p) \/ Load(p) \/ Advance(p) \/ Decide(p)
           \/ ReadFails(p) \/ JournalFull(p) \/ AppendFails(p) \/ SyncFails(p)
           \/ Throw(p) \/ AfterConflict(p) \/ Crash(p)
    PROVE  AnswerInv'
<1>1. pc \in [Procs -> PCs] /\ pending \in [Procs -> Events]
  BY DEF AnswerInv, IInv, TypeOK
<1>2. /\ UNCHANGED <<log, launches>>
      /\ \A q \in Procs \ {p} : pc'[q] = pc[q] /\ pending'[q] = pending[q]
  BY <1>1 DEF Start, Open, Load, Advance, Decide, ReadFails, JournalFull, AppendFails, SyncFails,
              Throw, AfterConflict, Crash, Write, Goto, Finish, jvars
<1>3. \/ pc'[p] \in {"load", "decide", "advance", "done", "dead"}
      \/ pc'[p] = "link" /\ pending'[p].kind \in {"started", "dispatched", "abandoned",
                                                  "cancelled", "cancel-requested"}
  BY <1>1 DEF Start, Open, Load, Advance, Decide, ReadFails, JournalFull, AppendFails, SyncFails,
              Throw, AfterConflict, Crash, Write, Goto, Finish, Event
<1>4. ~Unanswered(p)'
  BY <1>3 DEF Unanswered, Answering, CarriesUsage
<1> QED
  BY <1>2, <1>4, NoAnswerStep

\* The intent of a launched step, the outcome of a call, the late cost: the
\* same step, still unsettled.
LEMMA AnswerSteps ==
    ASSUME AnswerInv, IInv', NEW p \in Procs,
           Sync(p) \/ Refuse(p) \/ Return(p) \/ KeepLateCost(p) \/ LinkRefused(p)
    PROVE  AnswerInv'
<1>1. /\ pc \in [Procs -> PCs] /\ pending \in [Procs -> Events]
      /\ DOMAIN log = 1..Len(log) /\ Len(log) \in Nat
  BY RecordType DEF AnswerInv, IInv, TypeOK
<1>2. /\ UNCHANGED <<log, launches>>
      /\ \A q \in Procs \ {p} : pc'[q] = pc[q] /\ pending'[q] = pending[q]
  BY <1>1 DEF Sync, Refuse, Return, KeepLateCost, LinkRefused, AfterWrite, AfterLoss,
              Write, Goto, Finish, jvars
<1>3. IntentStands(p) /\ AnswerWasLaunched(p)
  BY DEF AnswerInv
<1>4. CASE Sync(p)
  <2>1. UNCHANGED pending /\ pc[p] = "sync"
        /\ \/ pc'[p] = "execute" /\ pending[p].kind = "dispatched"
           \/ pc'[p] \in {"advance", "done"}
    BY <1>1, <1>4 DEF Sync, AfterWrite, Goto, Finish
  <2>2. IntentStands(p)' /\ AnswerWasLaunched(p)'
    BY <1>2, <1>3, <2>1 DEF IntentStands, AnswerWasLaunched, Unanswered, Answering
  <2> QED
    BY <1>2, <2>2, OwnStep
<1>5. CASE Refuse(p) \/ Return(p)
  <2>1. /\ pc'[p] = "link" /\ pending'[p].step = pending[p].step
        /\ \/ pc[p] = "execute" /\ pending'[p].kind = "rejected"
           \/ pc[p] = "executing"
    BY <1>1, <1>5 DEF Refuse, Return, Write, Goto, Event
  <2>2. IntentStands(p)'
    BY <1>2, <1>3, <2>1 DEF IntentStands, Unanswered
  <2>3. AnswerWasLaunched(p)'
    BY <1>2, <1>3, <2>1 DEF AnswerWasLaunched, AnswerKinds
  <2> QED
    BY <1>2, <2>2, <2>3, OwnStep
<1>6. CASE KeepLateCost(p)
  <2>1. \/ pc'[p] = "loser"
        \/ /\ pc'[p] = "link" /\ pending'[p].kind = "discarded"
           /\ pending'[p].step = pending[p].step /\ pc[p] = "late"
    BY <1>1, <1>6 DEF KeepLateCost, Superseded, Write, Goto, Event
  <2>2. IntentStands(p)' /\ AnswerWasLaunched(p)'
    BY <1>2, <1>3, <2>1
       DEF IntentStands, AnswerWasLaunched, Unanswered, Answering, AnswerKinds, CarriesUsage
  <2> QED
    BY <1>2, <2>2, OwnStep
<1>7. CASE LinkRefused(p)
  <2>1. CASE pc'[p] # "late"
    <3>1. ~Unanswered(p)'
      BY <1>1, <1>7, <2>1
         DEF LinkRefused, AfterLoss, Goto, Finish, Unanswered, Answering
    <3> QED
      BY <1>2, <3>1, NoAnswerStep
  <2>2. CASE pc'[p] = "late"
    <3>1. /\ pc[p] = "link" /\ pending[p].kind \in OutcomeKinds /\ UNCHANGED pending
          /\ Len(log) # known[p]
      BY <1>1, <1>7, <2>2
         DEF LinkRefused, AfterLoss, Goto, Finish, RevisionFree
    <3>2. known[p] \in DOMAIN log /\ Admits(log[known[p]].after, pending[p])
      BY <3>1 DEF AnswerInv, IInv, PendingLegal, OutcomeKinds, CarriesUsage
    <3>3. /\ Dispatched(known[p]) /\ log[known[p]].event.step = pending[p].step
          /\ known[p] \in Nat
      BY <1>1, <3>1, <3>2, FlightRecord DEF AnswerInv, Admits, OutcomeKinds, CarriesUsage
    <3>4. PICK d \in DOMAIN log :
             /\ log[d].event = Event("dispatched", pending[p].step, p)
             /\ \A n \in DOMAIN log : n > d =>
                   /\ log[n].event.kind \in {"cancel-requested", "abandoned"}
                   /\ log[n].event.step = pending[p].step
      BY <1>3, <3>1 DEF IntentStands, Unanswered, Answering, OutcomeKinds
    <3>5. d = known[p]
      BY <3>2, <3>3, <3>4, OneIntent DEF AnswerInv, Dispatched, Event
    <3>6. Len(log) \in DOMAIN log /\ Len(log) > d
      BY <1>1, <3>1, <3>2, <3>5
    <3>7. log[Len(log)].event.kind # "dispatched"
      BY <3>4, <3>6
    <3>8. IntentStands(p)' /\ AnswerWasLaunched(p)'
      BY <1>2, <2>2, <3>1, <3>4, <3>7 DEF IntentStands, AnswerWasLaunched
    <3> QED
      BY <1>2, <3>8, OwnStep
  <2> QED
    BY <2>1, <2>2
<1> QED
  BY <1>4, <1>5, <1>6, <1>7

\* What is linked while an intent is unanswered asks for its cancellation or
\* abandons it: any outcome, or late cost, comes from the writer of the intent.
LEMMA LinkedMeanwhile ==
    ASSUME AnswerInv, NEW p \in Procs, NEW q \in Procs \ {p}, Link(q), Unanswered(p)
    PROVE  /\ pending[q].kind \in {"cancel-requested", "abandoned"}
           /\ pending[q].step = pending[p].step
<1> DEFINE end == Len(log)
           e == pending[q]
           s == pending[p].step
<1>1. PICK d \in DOMAIN log :
         /\ log[d].event = Event("dispatched", s, p)
         /\ \A n \in DOMAIN log : n > d =>
               log[n].event.kind \in {"cancel-requested", "abandoned"} /\ log[n].event.step = s
  BY DEF AnswerInv, IntentStands
<1>2. end \in Nat /\ DOMAIN log = 1..end /\ d \in 1..end /\ end \in DOMAIN log
  BY RecordType DEF AnswerInv, IInv
<1>3. log[end].event.step = s
      /\ log[end].event.kind \in {"dispatched", "cancel-requested", "abandoned"}
  <2>1. CASE d = end
    BY <1>1, <2>1 DEF Event
  <2>2. CASE d # end
    BY <1>1, <1>2, <2>2
  <2> QED
    BY <2>1, <2>2
<1>4. log[end].after.step = s
      /\ log[end].after.kind \in {"in-flight", "cancel-requested", "abandoned"}
  <2>1. log[end].after = Target(log[end].event)
    BY <1>2, <1>3 DEF AnswerInv, IInv, LegalHistory
  <2> QED
    BY <1>3, <2>1 DEF Target, At
<1>5. pc[q] = "link" /\ Admits(log[end].after, e)
  <2>1. end + 1 # 1
    BY <1>2
  <2>2. Admits(log[(end + 1) - 1].after, e)
    BY <2>1, LinkedRecord DEF AnswerInv
  <2>3. (end + 1) - 1 = end
    BY <1>2
  <2> QED
    BY <2>2, <2>3 DEF Link
<1>6. e.step = s /\ e.kind \in CarriesUsage \cup {"cancel-requested", "abandoned"}
  BY <1>4, <1>5 DEF Admits, CarriesUsage
<1>7. CASE e.kind \in CarriesUsage
  <2>1. PICK d2 \in DOMAIN log : log[d2].event = Event("dispatched", s, q)
    BY <1>5, <1>6, <1>7 DEF AnswerInv, IntentStands, Unanswered, Answering
  <2>2. d = d2
    BY <1>1, <2>1, OneIntent DEF AnswerInv, Dispatched, Event
  <2> QED
    BY <1>1, <2>1, <2>2 DEF Event
<1> QED
  BY <1>6, <1>7

\* A link: the answer that settles an intent ends what is asked of its writer.
LEMMA LinkAnswer ==
    ASSUME AnswerInv, IInv', NEW p \in Procs, Link(p)
    PROVE  AnswerInv'
<1> DEFINE m == Len(log) + 1
<1>1. /\ DOMAIN log = 1..Len(log) /\ Len(log) \in Nat /\ Len(log') = m /\ DOMAIN log' = 1..m
      /\ \A n \in DOMAIN log : n \in 1..(m - 1) /\ log'[n] = log[n]
      /\ log'[m].event = pending[p] /\ m \in DOMAIN log'
  BY RecordType, LinkedRecord DEF AnswerInv, IInv
<1>2. /\ UNCHANGED <<pending, launches>> /\ pc[p] = "link" /\ pc'[p] = "sync"
      /\ \A q \in Procs \ {p} : pc'[q] = pc[q]
      /\ pending[p].by = p /\ pending[p] \in Events
  BY DEF AnswerInv, IInv, TypeOK, Link, Goto, KnowsPrefix
<1>3. ASSUME NEW q \in Procs PROVE AnswerWasLaunched(q)'
  BY <1>2 DEF AnswerInv, AnswerWasLaunched
<1>4. IntentStands(p)'
  <2>1. ASSUME pending[p].kind = "dispatched"
        PROVE  log'[m].event = Event("dispatched", pending[p].step, p)
    BY <1>1, <1>2, <2>1 DEF Event, Events
  <2>2. \A n \in DOMAIN log' : ~(n > m)
    BY <1>1
  <2> QED
    BY <1>1, <1>2, <2>1, <2>2 DEF IntentStands, Unanswered, Answering
<1>5. ASSUME NEW q \in Procs \ {p} PROVE IntentStands(q)'
  <2> SUFFICES ASSUME Unanswered(q)
               PROVE  /\ \E d \in DOMAIN log' :
                            /\ log'[d].event = Event("dispatched", pending[q].step, q)
                            /\ \A n \in DOMAIN log' : n > d =>
                                  /\ log'[n].event.kind \in {"cancel-requested", "abandoned"}
                                  /\ log'[n].event.step = pending[q].step
                      /\ log'[Len(log')].event.kind # "dispatched"
    BY <1>2 DEF IntentStands, Unanswered, Answering
  <2>1. /\ pending[p].kind \in {"cancel-requested", "abandoned"}
        /\ pending[p].step = pending[q].step
    BY LinkedMeanwhile
  <2>2. PICK d \in DOMAIN log :
           /\ log[d].event = Event("dispatched", pending[q].step, q)
           /\ \A n \in DOMAIN log : n > d =>
                 /\ log[n].event.kind \in {"cancel-requested", "abandoned"}
                 /\ log[n].event.step = pending[q].step
    BY DEF AnswerInv, IntentStands
  <2>3. d \in DOMAIN log' /\ log'[d] = log[d]
    BY <1>1
  <2>4. \A n \in DOMAIN log' : n = m \/ (n \in DOMAIN log /\ log'[n] = log[n])
    BY <1>1
  <2> QED
    BY <1>1, <2>1, <2>2, <2>3, <2>4
<1> QED
  BY <1>3, <1>4, <1>5 DEF AnswerInv

\* The call of an executor.
LEMMA ExecuteAnswer ==
    ASSUME AnswerInv, IInv', NEW p \in Procs, Execute(p)
    PROVE  AnswerInv'
<1>1. /\ UNCHANGED <<pending, log>> /\ pc[p] = "execute"
      /\ pc' = [pc EXCEPT ![p] = "executing"]
      /\ launches' = [launches EXCEPT ![pending[p].step] = @ + 1]
      /\ launches[pending[p].step] = 0 /\ pending[p].step \in Steps
  BY ExecuteStep, InFlight DEF AnswerInv, Execute, Goto, jvars
<1>2. ASSUME NEW q \in Procs PROVE IntentStands(q)'
  <2>1. (Unanswered(q)' => Unanswered(q)) /\ (pc'[q] = "late" => pc[q] = "late")
    BY <1>1 DEF Unanswered, Answering, AnswerInv, IInv, TypeOK
  <2>2. IntentStands(q)
    BY DEF AnswerInv
  <2> QED
    BY <1>1, <2>1, <2>2 DEF IntentStands
<1>3. ASSUME NEW q \in Procs PROVE AnswerWasLaunched(q)'
  BY <1>1 DEF AnswerInv, IInv, TypeOK, AnswerWasLaunched
<1> QED
  BY <1>2, <1>3 DEF AnswerInv

\* Every step preserves the invariant, a loss of power included.
LEMMA NextAnswer == AnswerInv /\ [Next]_vars => AnswerInv'
<1> SUFFICES ASSUME AnswerInv, [Next]_vars PROVE AnswerInv'
  OBVIOUS
<1>1. IInv'
  BY NextIInv DEF AnswerInv
<1>2. CASE PowerLoss
  <2>1. \A p \in Procs : pc'[p] \in {"idle", "done", "dead"}
    BY <1>2 DEF PowerLoss, AnswerInv, IInv, TypeOK, PCs
  <2> QED
    BY <1>1, <2>1 DEF AnswerInv, IntentStands, AnswerWasLaunched, Unanswered, Answering
<1>3. CASE UNCHANGED vars
  BY <1>1, <1>3 DEF vars, jvars, AnswerInv, IntentStands, AnswerWasLaunched, Unanswered,
                    Answering
<1> QED
  BY <1>1, <1>2, <1>3, CommandSteps, AnswerSteps, LinkAnswer, ExecuteAnswer
     DEF Next, Progress, Fault

\* When a mission ends with a cancellation no step is launched from there on.
LEMMA NotLaunchedAtEnd ==
    ASSUME IInv, log # << >>, log[Len(log)].event.kind = "cancelled",
           NEW s \in Steps, s >= log[Len(log)].event.step
    PROVE  launches[s] = 0
<1> DEFINE n == Len(log)
<1>1. /\ n \in Nat /\ DOMAIN log = 1..n /\ n \in DOMAIN log
      /\ \A i \in DOMAIN log : log[i].event.step \in Int
      /\ log[n].event.kind = "cancelled"
  BY RecordType, StepCountAssumption DEF IInv, TypeOK, Events
<1>2. /\ s >= log[n].event.step
      /\ synced \in 0..n /\ launches[s] \in Nat /\ s \in Int
  BY StepCountAssumption DEF IInv, TypeOK, Steps
<1> HIDE DEF n
<1>3. ASSUME launches[s] > 0 PROVE FALSE
  <2>1. PICK i \in 1..synced : Dispatched(i) /\ log[i].event.step = s
    BY <1>3 DEF IInv, LaunchCovered
  <2>2. i \in 1..n /\ i # n
    <3>1. i # n
      BY <1>1, <2>1 DEF Dispatched
    <3> QED
      BY <1>1, <1>2, <3>1
  <2>3. n # 1 /\ n - 1 \in 1..n /\ i <= n - 1
    BY <1>1, <2>2
  <2>4. Admits(log[n - 1].after, log[n].event)
    BY <1>1, <2>3 DEF IInv, LegalHistory
  <2>5. log[n - 1].after.kind = "dispatch" /\ log[n - 1].after.step = log[n].event.step
    BY <1>1, <2>4 DEF Admits
  <2>6. log[n].event.step > s
    BY <1>1, <2>1, <2>2, <2>3, <2>5 DEF IInv, NeverOfferedAgain
  <2>7. log[n].event.step \in Int
    BY <1>1
  <2> QED
    BY <1>1, <1>2, <2>6, <2>7
<1> QED
  BY <1>2, <1>3

\* A recorded cancellation ends the history; nobody holds an intent any more,
\* and no step from it on was launched.
LEMMA CancelIsQuiet == AnswerInv => ConfirmedCancelIsQuiet
<1> SUFFICES ASSUME AnswerInv, NEW n \in DOMAIN log, log[n].event.kind = "cancelled"
             PROVE  /\ n = Len(log)
                    /\ \A s \in Steps : s >= log[n].event.step => launches[s] = 0
                    /\ \A p \in Procs : pc[p] \notin {"execute", "executing"}
  BY DEF ConfirmedCancelIsQuiet
<1>1. IInv /\ DOMAIN log = 1..Len(log) /\ Len(log) \in Nat
  BY RecordType DEF AnswerInv, IInv
<1>2. n = Len(log)
  BY <1>1, DecidedEnds
<1>3. ASSUME NEW p \in Procs, pc[p] \in {"execute", "executing"} PROVE FALSE
  <2>1. PICK d \in DOMAIN log :
           /\ log[d].event = Event("dispatched", pending[p].step, p)
           /\ \A i \in DOMAIN log : i > d =>
                 log[i].event.kind \in {"cancel-requested", "abandoned"}
    BY <1>3 DEF AnswerInv, IntentStands, Unanswered
  <2>2. n > d \/ n = d
    BY <1>1, <1>2
  <2> QED
    BY <2>1, <2>2 DEF Event
<1>4. ASSUME NEW s \in Steps, s >= log[n].event.step PROVE launches[s] = 0
  BY <1>1, <1>2, <1>4, NotLaunchedAtEnd
<1> QED
  BY <1>2, <1>3, <1>4

-----------------------------------------------------------------------------
(* Verdicts and costs, while the storage keeps what it linked *)

\* What a receipt claims of the history.
Stands(r) ==
    LET last == log[Len(log)].event.kind
    IN  r.kind \notin {"none", "blocked"} =>
          /\ log # << >>
          /\ r.kind \in {"completed", "stopped", "rejected"} => last = r.kind
          /\ r.kind = "paused" => Recorded("accepted", r.step)
          /\ r.kind = "cancelled" /\ r.detail = "confirmed" => last = "cancelled"
          /\ r.kind = "cancelled" /\ r.detail = "requested-unconfirmed" =>
                last \in {"cancel-requested", "abandoned", "discarded"}
          /\ r.kind = "abandoned" /\ r.detail = "unknown" => last \in {"abandoned", "discarded"}
          /\ r.detail = "late-result-discarded" => last = "discarded"

\* What a process derives from any prefix of the history stands.
LEMMA SettleStands ==
    ASSUME IInv, NEW n \in DOMAIN log
    PROVE  Stands(Settle(n))
<1> DEFINE kind == log[n].event.kind
           last == log[Len(log)].event.kind
<1>1. /\ kind \in {"completed", "stopped", "rejected", "cancelled", "discarded"} => last = kind
      /\ kind = "abandoned" => last \in {"abandoned", "discarded"}
      /\ kind = "cancel-requested" => last \in {"cancel-requested", "abandoned", "discarded"}
      /\ log # << >>
  BY DecidedEnds
<1> USE DEF Settle, Blocked, Receipt, Stands
<1>2. CASE kind \in {"completed", "stopped", "rejected"}
  BY <1>1, <1>2
<1>3. CASE kind = "discarded"
  BY <1>1, <1>3
<1>4. CASE kind \in {"unconfirmed", "cancelled"}
  BY <1>1, <1>4
<1>5. CASE kind \in {"cancel-requested", "abandoned"}
  BY <1>1, <1>5
<1>6. CASE kind \in {"started", "dispatched", "accepted"}
  BY <1>1, <1>6
<1>7. kind \in EventKinds
  BY RecordType DEF IInv, Events
<1> QED
  BY <1>2, <1>3, <1>4, <1>5, <1>6, <1>7 DEF EventKinds

\* A receipt that stands still does when one more legal record is linked.
LEMMA StandsAfterLink ==
    ASSUME IInv, NEW p \in Procs, Link(p), NEW r, Stands(r)
    PROVE  Stands(r)'
<1> DEFINE m == Len(log) + 1
<1>1. /\ DOMAIN log = 1..Len(log) /\ Len(log) \in Nat /\ Len(log') = m /\ DOMAIN log' = 1..m
      /\ \A n \in DOMAIN log : n \in DOMAIN log' /\ log'[n] = log[n]
      /\ log'[m].event = pending[p]
  BY RecordType, LinkedRecord DEF IInv
<1>2. log' # << >>
  BY <1>1
<1>3. ASSUME NEW step, Recorded("accepted", step) PROVE Recorded("accepted", step)'
  BY <1>1, <1>3 DEF Recorded
<1>4. ASSUME log # << >>
      PROVE  /\ Len(log) \in DOMAIN log
             /\ Admits(log[Len(log)].after, pending[p])
             /\ log[Len(log)].event.kind # "started" =>
                   log[Len(log)].after = Target(log[Len(log)].event)
  <2>1. Len(log) \in DOMAIN log /\ m # 1 /\ m - 1 = Len(log)
    BY <1>1, <1>4
  <2>2. Admits(log[m - 1].after, pending[p])
    BY <2>1, LinkedRecord
  <2> QED
    BY <2>1, <2>2 DEF IInv, LegalHistory
<1>5. ASSUME log # << >>,
             log[Len(log)].event.kind \in {"completed", "stopped", "rejected", "cancelled",
                                          "discarded"}
      PROVE  FALSE
  <2>1. log[Len(log)].after.kind \in {"settled", "discarded"}
    <3>1. log[Len(log)].after = Target(log[Len(log)].event)
      BY <1>4, <1>5
    <3> QED
      BY <1>5, <3>1 DEF Target, At, Settled
  <2> QED
    BY <1>4, <1>5, <2>1 DEF Admits
<1>6. ASSUME log # << >>, log[Len(log)].event.kind = "abandoned"
      PROVE  pending[p].kind = "discarded"
  <2>1. log[Len(log)].after.kind = "abandoned"
    <3>1. log[Len(log)].after = Target(log[Len(log)].event)
      BY <1>4, <1>6
    <3> QED
      BY <1>6, <3>1 DEF Target, At
  <2> QED
    BY <1>4, <1>6, <2>1 DEF Admits
<1>7. ASSUME log # << >>, log[Len(log)].event.kind = "cancel-requested"
      PROVE  pending[p].kind \in {"abandoned", "discarded"}
  <2>1. log[Len(log)].after.kind = "cancel-requested"
    <3>1. log[Len(log)].after = Target(log[Len(log)].event)
      BY <1>4, <1>7
    <3> QED
      BY <1>7, <3>1 DEF Target, At
  <2> QED
    BY <1>4, <1>7, <2>1 DEF Admits
<1> QED
  BY <1>1, <1>2, <1>3, <1>5, <1>6, <1>7 DEF Stands

\* A step that keeps the log and changes one receipt, to one that stands.
LEMMA ReceiptStep ==
    ASSUME IInv, ReceiptStands, UNCHANGED log, NEW p \in Procs,
           \/ UNCHANGED receipt
           \/ \E r \in Receipts : receipt' = [receipt EXCEPT ![p] = r] /\ Stands(r)
    PROVE  ReceiptStands'
<1>1. \A q \in Procs : Stands(receipt[q])
  BY DEF ReceiptStands, Stands
<1>2. \A q \in Procs : Stands(receipt'[q])
  BY <1>1 DEF IInv, TypeOK
<1> QED
  BY <1>2 DEF ReceiptStands, Stands, Recorded

\* A blocked receipt claims nothing of the history.
LEMMA BlockedStands ==
    ASSUME NEW reason \in Details
    PROVE  Blocked(reason) \in Receipts /\ Stands(Blocked(reason))
<1>1. Blocked(reason).kind = "blocked"
  BY DEF Blocked, Receipt
<1> QED
  BY <1>1, BlockedType DEF Stands

\* What anybody reported stays true of the history.
LEMMA NextStands ==
    ASSUME AnswerInv, ReceiptStands, [Next]_vars, PowerLossAllowed = FALSE
    PROVE  ReceiptStands'
<1>1. IInv /\ TypeOK
  BY DEF AnswerInv, IInv
<1>2. CASE \E p \in Procs : \/ Start(p) \/ Open(p) \/ Execute(p) \/ Refuse(p) \/ Return(p)
                            \/ KeepLateCost(p) \/ Crash(p)
  BY <1>1, <1>2, ReceiptStep
     DEF Start, Open, Execute, Refuse, Return, KeepLateCost, Crash, jvars
<1>3. CASE \E p \in Procs : \/ ReadFails(p) \/ JournalFull(p) \/ AppendFails(p) \/ SyncFails(p)
                            \/ Throw(p) \/ LinkRefused(p)
  <2>1. PICK p \in Procs : \/ ReadFails(p) \/ JournalFull(p) \/ AppendFails(p) \/ SyncFails(p)
                           \/ Throw(p) \/ LinkRefused(p)
    BY <1>3
  <2>2. /\ UNCHANGED log
        /\ UNCHANGED receipt \/ \E reason \in Details : Finish(p, Blocked(reason))
    BY <2>1 DEF ReadFails, JournalFull, AppendFails, SyncFails, Throw, LinkRefused, AfterLoss,
                Details, jvars
  <2> QED
    BY <1>1, <2>2, ReceiptStep, BlockedStands DEF Finish
<1>4. CASE \E p \in Procs : Load(p) \/ Advance(p) \/ Decide(p) \/ AfterConflict(p)
  <2>1. PICK p \in Procs : Load(p) \/ Advance(p) \/ Decide(p) \/ AfterConflict(p)
    BY <1>4
  <2>2. /\ pc[p] = "loser" => log # << >>
        /\ pc[p] = "advance" => known[p] \in DOMAIN log
        /\ log # << >> => Len(log) \in DOMAIN log
    BY <1>1, RecordType DEF IInv, KnowsPrefix
  <2>3. /\ UNCHANGED log
        /\ \/ UNCHANGED receipt
           \/ \E reason \in Details : Finish(p, Blocked(reason))
           \/ \E n \in DOMAIN log : Finish(p, Settle(n))
    BY <2>1, <2>2 DEF Load, Advance, Decide, AfterConflict, Write, Details, jvars
  <2> QED
    BY <1>1, <2>3, ReceiptStep, BlockedStands, SettleStands, SettleType DEF Finish
<1>5. CASE \E p \in Procs : Sync(p)
  <2>1. PICK p \in Procs : Sync(p)
    BY <1>5
  <2> DEFINE e == pending[p]
  <2>2. known[p] + 1 \in DOMAIN log /\ log[known[p] + 1].event = e /\ e \in Events
    BY <1>1, <2>1 DEF Sync, IInv, TypeOK, KnowsPrefix
  <2>3. /\ UNCHANGED log
        /\ \/ UNCHANGED receipt
           \/ e.kind = "accepted" /\ Finish(p, Receipt("paused", "", e.step))
           \/ Finish(p, Settle(known[p] + 1))
    BY <2>1 DEF Sync, AfterWrite
  <2>4. /\ Settle(known[p] + 1) \in Receipts
        /\ Stands(Settle(known[p] + 1))
    BY <1>1, <2>2, SettleType, SettleStands
  <2>5. ASSUME e.kind = "accepted"
        PROVE  /\ Receipt("paused", "", e.step) \in Receipts
               /\ Stands(Receipt("paused", "", e.step))
    <3>1. Recorded("accepted", e.step) /\ log # << >>
      BY <2>2, <2>5 DEF Recorded
    <3> QED
      BY <2>2, <3>1 DEF Receipt, Receipts, ReceiptKinds, Details, Stands, Events
  <2> QED
    BY <1>1, <2>3, <2>4, <2>5, ReceiptStep DEF Finish
<1>6. CASE \E p \in Procs : Link(p)
  <2>1. PICK p \in Procs : Link(p)
    BY <1>6
  <2>2. UNCHANGED receipt /\ \A q \in Procs : Stands(receipt[q])
    BY <2>1 DEF Link, ReceiptStands, Stands
  <2>3. \A q \in Procs : Stands(receipt[q])'
    BY <1>1, <2>1, <2>2, StandsAfterLink
  <2> QED
    BY <2>3 DEF ReceiptStands, Stands
<1>7. CASE UNCHANGED vars
  BY <1>7 DEF vars, jvars, ReceiptStands, Recorded
<1>8. ~PowerLoss
  BY DEF PowerLoss
<1> QED
  BY <1>2, <1>3, <1>4, <1>5, <1>6, <1>7, <1>8 DEF Next, Progress, Fault

\* A process reports once: whoever moves has not reported yet.
LEMMA ReportStep ==
    ASSUME TypeOK, [Next]_vars, NEW p \in Procs, ReportIsLast(p)
    PROVE  ReportIsLast(p)'
<1> USE DEF ReportIsLast
<1>1. /\ pc \in [Procs -> PCs] /\ receipt \in [Procs -> Receipts]
  BY DEF TypeOK
<1>2. ASSUME NEW q \in Procs, Start(q) \/ Open(q) \/ Progress(q) \/ Fault(q)
      PROVE  /\ pc[q] # "done"
             /\ UNCHANGED receipt \/ \E r : Finish(q, r)
             /\ \A o \in Procs \ {q} : pc'[o] = pc[o]
  <2>1. pc[q] # "done"
    BY <1>2 DEF Progress, Fault, Start, Open, Load, Advance, Decide, Link, LinkRefused,
                JournalFull, Sync, Execute, Refuse, Return, KeepLateCost, AfterConflict,
                ReadFails, AppendFails, SyncFails, Throw, Crash, Active
  <2>2. CASE \/ Start(q) \/ Open(q) \/ Link(q) \/ Execute(q) \/ Refuse(q) \/ Return(q)
              \/ KeepLateCost(q) \/ Crash(q)
    BY <1>1, <2>1, <2>2 DEF Start, Open, Link, Execute, Refuse, Return, KeepLateCost, Crash,
                            Write, Goto
  <2>3. CASE \/ JournalFull(q) \/ ReadFails(q) \/ AppendFails(q) \/ SyncFails(q) \/ Throw(q)
              \/ AfterConflict(q)
    <3>1. \E r : Finish(q, r)
      BY <2>3 DEF JournalFull, ReadFails, AppendFails, SyncFails, Throw, AfterConflict
    <3> QED
      BY <1>1, <2>1, <3>1 DEF Finish, Goto
  <2>4. CASE Load(q) \/ Advance(q) \/ Decide(q)
    BY <1>1, <2>1, <2>4 DEF Load, Advance, Decide, Write, Finish, Goto
  <2>5. CASE LinkRefused(q)
    BY <1>1, <2>1, <2>5 DEF LinkRefused, AfterLoss, Finish, Goto
  <2>6. CASE Sync(q)
    <3>1. \/ \E r : Finish(q, r)
          \/ UNCHANGED receipt /\ \E at : Goto(q, at)
      BY <2>6, Zenon DEF Sync, AfterWrite
    <3> QED
      BY <1>1, <2>1, <3>1 DEF Finish, Goto
  <2> QED
    BY <1>2, <2>2, <2>3, <2>4, <2>5, <2>6 DEF Progress, Fault
<1>3. CASE PowerLoss
  BY <1>1, <1>3 DEF PowerLoss, Active
<1>4. CASE UNCHANGED vars
  BY <1>4 DEF vars
<1>5. ASSUME NEW q \in Procs, Start(q) \/ Open(q) \/ Progress(q) \/ Fault(q)
      PROVE  ReportIsLast(p)'
  <2>1. CASE q = p
    BY <1>1, <1>2, <1>5, <2>1 DEF Finish, Goto
  <2>2. CASE q # p
    BY <1>1, <1>2, <1>5, <2>2 DEF Finish
  <2> QED
    BY <2>1, <2>2
<1> QED
  BY <1>3, <1>4, <1>5 DEF Next

\* The log only grows, as long as the storage keeps what it linked.
Grows ==
    \A n \in DOMAIN log : n \in DOMAIN log' /\ log'[n] = log[n]

\* Without a loss of power no record is ever taken back.
LEMMA LogGrows ==
    ASSUME IInv, [Next]_vars, PowerLossAllowed = FALSE
    PROVE  Grows
<1>1. UNCHANGED log \/ \E p \in Procs : Link(p)
  BY DEF Next, PowerLoss, vars, jvars, Progress, Fault, Start, Open, Load, Advance, LinkRefused,
         JournalFull, Sync, Execute, Refuse, Return, KeepLateCost, AfterConflict, ReadFails,
         AppendFails, SyncFails, Throw, Crash, Decide
<1>2. ASSUME NEW p \in Procs, Link(p) PROVE Grows
  <2>1. /\ DOMAIN log' = 1..(Len(log) + 1) /\ Len(log) \in Nat /\ DOMAIN log = 1..Len(log)
        /\ \A n \in DOMAIN log : log'[n] = log[n]
    BY <1>2, LinkedRecord, RecordType DEF IInv
  <2> QED
    BY <2>1 DEF Grows
<1> QED
  BY <1>1, <1>2 DEF Grows

\* What is recorded stays recorded.
LEMMA StaysKept ==
    ASSUME Grows, NEW p \in Procs, NEW s \in Steps
    PROVE  /\ UsageKept(p, s) => UsageKept(p, s)'
           /\ \A kind : Recorded(kind, s) => Recorded(kind, s)'
BY DEF Grows, UsageKept, Recorded

\* A late result keeps its cost, unless both revisions it may take are lost to
\* the decisions that stopped its step.
LEMMA LostTwice ==
    ASSUME AnswerInv, NEW p \in Procs, LinkRefused(p), pending[p].kind = "discarded"
    PROVE  /\ Recorded("cancel-requested", pending[p].step)
           /\ Recorded("abandoned", pending[p].step)
<1> DEFINE n == known[p]
           s == pending[p].step
<1>1. /\ pc[p] = "link" /\ n # Len(log) /\ n <= Len(log) /\ n \in Nat
      /\ DOMAIN log = 1..Len(log) /\ Len(log) \in Nat
  BY RecordType DEF AnswerInv, IInv, TypeOK, KnowsPrefix, LinkRefused, RevisionFree
<1>2. n \in DOMAIN log /\ Admits(log[n].after, pending[p])
  BY <1>1 DEF AnswerInv, IInv, PendingLegal
<1>3. log[n].after.step = s /\ log[n].after.kind \in {"cancel-requested", "abandoned"}
  BY <1>2 DEF Admits
<1>4. log[n].event.step = s /\ log[n].event.kind = log[n].after.kind
  <2>1. n # 1
    BY <1>2, <1>3 DEF AnswerInv, IInv, LegalHistory, Opened, At
  <2>2. log[n].after = Target(log[n].event)
    BY <1>2, <2>1 DEF AnswerInv, IInv, LegalHistory
  <2> QED
    BY <1>3, <2>2 DEF Target, At, Settled
<1>5. n + 1 \in DOMAIN log
  BY <1>1
<1>6. Admits(log[n].after, log[n + 1].event)
  BY <1>2, <1>5, Successor DEF AnswerInv
<1>7. /\ log[n + 1].event.step = s
      /\ log[n + 1].event.kind \in {"discarded", "abandoned"}
      /\ log[n + 1].event.kind = "abandoned" => log[n].event.kind = "cancel-requested"
  BY <1>3, <1>4, <1>6 DEF Admits
<1>8. log[n + 1].event.kind # "discarded"
  <2> SUFFICES ASSUME log[n + 1].event.kind = "discarded" PROVE FALSE
    OBVIOUS
  <2>1. PICK d \in DOMAIN log :
           /\ log[d].event = Event("dispatched", s, p)
           /\ \A i \in DOMAIN log : i > d =>
                 log[i].event.kind \in {"cancel-requested", "abandoned"}
    BY <1>1 DEF AnswerInv, IntentStands, Unanswered, Answering, CarriesUsage
  <2>2. n + 1 = Len(log)
    BY <1>5, DecidedEnds DEF AnswerInv
  <2>3. n + 1 > d \/ n + 1 = d
    BY <1>1, <2>2
  <2> QED
    BY <1>5, <2>1, <2>3 DEF Event
<1> QED
  BY <1>2, <1>4, <1>5, <1>7, <1>8 DEF Recorded

\* The verdict that takes the revision of an outcome is about its step.
LEMMA AlwaysSuperseded ==
    ASSUME AnswerInv, NEW p \in Procs, pc[p] = "late"
    PROVE  Superseded(log[Len(log)].event, pending[p].step)
<1>1. /\ DOMAIN log = 1..Len(log) /\ Len(log) \in Nat
      /\ IntentStands(p) /\ Unanswered(p)
  BY RecordType DEF AnswerInv, IInv, Unanswered, Answering
<1>2. PICK d \in DOMAIN log :
         /\ log[d].event = Event("dispatched", pending[p].step, p)
         /\ \A i \in DOMAIN log : i > d =>
               /\ log[i].event.kind \in {"cancel-requested", "abandoned"}
               /\ log[i].event.step = pending[p].step
  BY <1>1 DEF IntentStands
<1>3. log[Len(log)].event.kind # "dispatched"
  BY <1>1 DEF IntentStands
<1>4. Len(log) \in DOMAIN log /\ Len(log) > d
  BY <1>1, <1>2, <1>3 DEF Event
<1> QED
  BY <1>2, <1>4 DEF Superseded

\* A process that is not the one that moves, or that had no answer to give,
\* owes nothing new.
LEMMA OwesNothingNew ==
    ASSUME Grows, NEW p \in Procs, ResultAccounted(p),
           \A s \in Steps : <<p, s>> \in returned' => <<p, s>> \in returned,
           pc[p] = "dead" => pc'[p] = "dead",
           receipt[p].kind = "blocked" => receipt'[p].kind = "blocked",
           Answering(p) => Answering(p)' /\ pending'[p].step = pending[p].step
    PROVE  ResultAccounted(p)'
BY StaysKept DEF ResultAccounted

\* What a step of another process leaves alone.
LEMMA OthersKeep ==
    ASSUME TypeOK, NEW q \in Procs, Start(q) \/ Open(q) \/ Progress(q) \/ Fault(q)
    PROVE  \A p \in Procs \ {q} :
              /\ pc'[p] = pc[p] /\ pending'[p] = pending[p] /\ receipt'[p] = receipt[p]
              /\ \A s \in Steps : <<p, s>> \in returned' => <<p, s>> \in returned
<1>1. /\ pc \in [Procs -> PCs] /\ receipt \in [Procs -> Receipts]
      /\ pending \in [Procs -> Events]
  BY DEF TypeOK
<1>2. CASE \/ Start(q) \/ Open(q) \/ Link(q) \/ Execute(q) \/ Refuse(q) \/ Return(q)
           \/ KeepLateCost(q) \/ Crash(q)
  BY <1>1, <1>2 DEF Start, Open, Link, Execute, Refuse, Return, KeepLateCost, Crash, Write, Goto
<1>3. CASE \/ JournalFull(q) \/ ReadFails(q) \/ AppendFails(q) \/ SyncFails(q) \/ Throw(q)
           \/ AfterConflict(q)
  <2>1. UNCHANGED <<pending, returned>> /\ \E r : Finish(q, r)
    BY <1>3 DEF JournalFull, ReadFails, AppendFails, SyncFails, Throw, AfterConflict
  <2> QED
    BY <1>1, <2>1 DEF Finish, Goto
<1>4. CASE Load(q) \/ Advance(q) \/ Decide(q)
  BY <1>1, <1>4 DEF Load, Advance, Decide, Write, Finish, Goto
<1>5. CASE LinkRefused(q)
  BY <1>1, <1>5 DEF LinkRefused, AfterLoss, Finish, Goto
<1>6. CASE Sync(q)
  <2>1. /\ UNCHANGED <<pending, returned>>
        /\ (\E r : Finish(q, r)) \/ (UNCHANGED receipt /\ \E at : Goto(q, at))
    BY <1>6, Zenon DEF Sync, AfterWrite
  <2> QED
    BY <1>1, <2>1 DEF Finish, Goto
<1> QED
  BY <1>2, <1>3, <1>4, <1>5, <1>6 DEF Progress, Fault

\* A process that moves without an answer to give, and one that has one.
LEMMA MoverAccounted ==
    ASSUME VerdictInv, Grows, NEW p \in Procs, Start(p) \/ Open(p) \/ Progress(p) \/ Fault(p)
    PROVE  ResultAccounted(p)'
<1>1. /\ TypeOK /\ IInv /\ AnswerInv /\ ResultAccounted(p) /\ ReportIsLast(p)
      /\ pc \in [Procs -> PCs] /\ pending \in [Procs -> Events]
      /\ receipt \in [Procs -> Receipts]
  BY DEF VerdictInv, AnswerInv, IInv, TypeOK
<1>2. pc[p] \notin {"done", "dead"}
  BY DEF Progress, Fault, Start, Open, Load, Advance, Decide, Link, LinkRefused, JournalFull, Sync,
         Execute, Refuse, Return, KeepLateCost, AfterConflict, ReadFails, AppendFails, SyncFails,
         Throw, Crash, Active
<1>3. receipt[p].kind # "blocked"
  <2>1. \A kind, detail, step : Receipt(kind, detail, step).kind = kind
    BY DEF Receipt
  <2>2. NoReceipt.kind = "none"
    BY <2>1, Zenon DEF NoReceipt
  <2> QED
    BY <1>1, <1>2, <2>2 DEF ReportIsLast
<1>4. CASE \/ Start(p) \/ Open(p) \/ Load(p) \/ Advance(p) \/ Decide(p) \/ Sync(p) \/ SyncFails(p)
           \/ Execute(p) \/ Refuse(p) \/ Throw(p) \/ AfterConflict(p)
  <2>1. ~Answering(p) /\ UNCHANGED returned
    BY <1>4 DEF Answering, Start, Open, Load, Advance, Decide, Sync, SyncFails, Execute, Refuse,
                Throw, AfterConflict
  <2> QED
    BY <1>1, <1>2, <1>3, <2>1, OwesNothingNew
<1>5. CASE JournalFull(p) \/ AppendFails(p) \/ ReadFails(p)
  <2>1. UNCHANGED returned /\ \E reason : Finish(p, Blocked(reason))
    BY <1>5 DEF JournalFull, AppendFails, ReadFails
  <2>2. receipt'[p].kind = "blocked"
    BY <1>1, <2>1 DEF Finish, Blocked, Receipt
  <2> QED
    BY <2>2 DEF ResultAccounted
<1>6. CASE Crash(p)
  <2>1. pc'[p] = "dead"
    BY <1>1, <1>6 DEF Crash, Goto
  <2> QED
    BY <2>1 DEF ResultAccounted
<1>7. CASE Return(p)
  <2>1. /\ ~Answering(p) /\ returned' = returned \cup {<<p, pending[p].step>>}
        /\ pc'[p] = "link" /\ pending'[p].step = pending[p].step
        /\ pending'[p].kind \in CarriesUsage
    BY <1>1, <1>7 DEF Answering, Return, Write, Goto, Event, CarriesUsage
  <2>2. Answering(p)'
    BY <2>1 DEF Answering
  <2> QED
    BY <1>1, <1>2, <1>3, <2>1, <2>2, StaysKept DEF ResultAccounted
<1>8. CASE KeepLateCost(p)
  <2>1. /\ UNCHANGED <<returned, receipt>>
        /\ pc'[p] = "link" /\ pending'[p].step = pending[p].step
        /\ pending'[p].kind = "discarded"
    BY <1>1, <1>8, AlwaysSuperseded DEF KeepLateCost, Superseded, Write, Goto, Event
  <2>2. Answering(p)'
    BY <2>1 DEF Answering, CarriesUsage
  <2> QED
    BY <1>1, <1>2, <1>3, <2>1, <2>2, OwesNothingNew
<1>9. CASE LinkRefused(p)
  <2>1. /\ pc[p] = "link" /\ UNCHANGED <<pending, returned>>
    BY <1>9 DEF LinkRefused
  <2>2. CASE pending[p].kind \in OutcomeKinds
    <3>1. pc'[p] = "late"
      BY <1>1, <1>9, <2>2 DEF LinkRefused, AfterLoss, Goto, OutcomeKinds, CarriesUsage
    <3> QED
      BY <1>1, <1>2, <1>3, <2>1, <3>1, OwesNothingNew DEF Answering
  <2>3. CASE pending[p].kind = "discarded"
    <3>1. /\ Recorded("cancel-requested", pending[p].step)
          /\ Recorded("abandoned", pending[p].step)
      BY <1>1, <1>9, <2>3, LostTwice
    <3> QED
      BY <1>1, <1>2, <1>3, <2>1, <3>1, StaysKept DEF ResultAccounted
  <2>4. CASE pending[p].kind \notin CarriesUsage
    <3>1. ~Answering(p)
      BY <2>1, <2>4 DEF Answering
    <3> QED
      BY <1>1, <1>2, <1>3, <2>1, <3>1, OwesNothingNew
  <2> QED
    BY <2>2, <2>3, <2>4 DEF OutcomeKinds
<1>10. CASE Link(p)
  <2>1. /\ UNCHANGED <<pending, returned, receipt>>
        /\ pc[p] = "link" /\ pc'[p] = "sync" /\ pending[p].by = p
    BY <1>1, <1>10 DEF Link, Goto, IInv, KnowsPrefix
  <2>2. CASE pending[p].kind \in CarriesUsage
    <3>1. /\ Len(log) + 1 \in DOMAIN log' /\ log'[Len(log) + 1].event = pending[p]
      BY <1>1, <1>10, LinkedRecord, RecordType
    <3>2. ASSUME pending[p].step \in Steps PROVE UsageKept(p, pending[p].step)'
      BY <2>1, <2>2, <3>1 DEF UsageKept
    <3> QED
      BY <1>1, <1>2, <1>3, <2>1, <3>2, StaysKept DEF ResultAccounted
  <2>3. CASE pending[p].kind \notin CarriesUsage
    <3>1. ~Answering(p)
      BY <2>1, <2>3 DEF Answering
    <3> QED
      BY <1>1, <1>2, <1>3, <2>1, <3>1, OwesNothingNew
  <2> QED
    BY <2>2, <2>3
<1> QED
  BY <1>4, <1>5, <1>6, <1>7, <1>8, <1>9, <1>10 DEF Progress, Fault

\* Every step keeps the verdicts and the costs.
LEMMA NextVerdict ==
    ASSUME VerdictInv, [Next]_vars, PowerLossAllowed = FALSE
    PROVE  VerdictInv'
<1>1. AnswerInv /\ IInv /\ TypeOK
  BY DEF VerdictInv, AnswerInv, IInv
<1>2. AnswerInv' /\ ReceiptStands' /\ Grows
  BY <1>1, NextAnswer, NextStands, LogGrows DEF VerdictInv
<1>3. \A p \in Procs : ReportIsLast(p)'
  BY <1>1, ReportStep DEF VerdictInv
<1>4. ASSUME NEW p \in Procs PROVE ResultAccounted(p)'
  <2>1. ResultAccounted(p)
    BY DEF VerdictInv
  <2>2. CASE UNCHANGED vars
    <3>1. Answering(p) => Answering(p)'
      BY <2>2 DEF vars, Answering
    <3> QED
      BY <1>2, <2>1, <2>2, <3>1, OwesNothingNew DEF vars
  <2>3. ASSUME NEW q \in Procs, Start(q) \/ Open(q) \/ Progress(q) \/ Fault(q)
        PROVE  ResultAccounted(p)'
    <3>1. CASE q = p
      BY <1>2, <2>3, <3>1, MoverAccounted
    <3>2. CASE q # p
      <4>1. /\ pc'[p] = pc[p] /\ pending'[p] = pending[p] /\ receipt'[p] = receipt[p]
            /\ \A s \in Steps : <<p, s>> \in returned' => <<p, s>> \in returned
        BY <1>1, <2>3, <3>2, OthersKeep
      <4>2. Answering(p) => Answering(p)'
        BY <4>1 DEF Answering
      <4> QED
        BY <1>2, <2>1, <4>1, <4>2, OwesNothingNew
    <3> QED
      BY <3>1, <3>2
  <2> QED
    BY <2>2, <2>3 DEF Next, PowerLoss
<1> QED
  BY <1>2, <1>3, <1>4 DEF VerdictInv

\* What the verdict invariant says of a process that is done.
LEMMA AccountedWhenDone == VerdictInv => CostAccounted
<1> SUFFICES ASSUME VerdictInv, NEW p \in Procs, NEW s \in Steps, <<p, s>> \in returned,
                    pc[p] = "done", receipt[p].kind # "blocked"
             PROVE  \/ UsageKept(p, s)
                    \/ Recorded("cancel-requested", s) /\ Recorded("abandoned", s)
  BY DEF CostAccounted
<1>1. ResultAccounted(p) /\ ~Answering(p)
  BY DEF VerdictInv, Answering
<1> QED
  BY <1>1 DEF ResultAccounted

\* Nothing is reported, returned or recorded yet.
LEMMA InitVerdict == Init => VerdictInv
<1> SUFFICES ASSUME Init PROVE VerdictInv
  OBVIOUS
<1>1. \A kind, detail, step : Receipt(kind, detail, step).kind = kind
  BY DEF Receipt
<1>2. \A p \in Procs : receipt[p] = NoReceipt /\ NoReceipt.kind = "none"
  <2>1. NoReceipt.kind = "none"
    BY <1>1, Zenon DEF NoReceipt
  <2> QED
    BY <2>1 DEF Init
<1>3. \A p \in Procs : ReportIsLast(p) /\ ResultAccounted(p)
  BY <1>2 DEF Init, ReportIsLast, ResultAccounted
<1>4. ReceiptStands
  <2>1. \A p \in Procs : receipt[p].kind = "none"
    BY <1>2
  <2> QED
    BY <2>1 DEF ReceiptStands
<1> QED
  BY <1>3, <1>4, InitAnswer DEF VerdictInv

-----------------------------------------------------------------------------
(* The theorems about answers *)

\* The invariant of the answers holds whatever fails, a power loss included.
THEOREM AnswerInvariant == Spec => []AnswerInv
<1>1. Init => AnswerInv
  BY InitAnswer
<1>2. AnswerInv /\ [Next]_vars => AnswerInv'
  BY NextAnswer
<1> QED
  BY <1>1, <1>2, PTL DEF Spec

\* A step is launched only after the previous one was accepted, in a record
\* that is durable (runtime/mission.ts advance and dispatch over core/mission.ts
\* transition).
THEOREM LaunchFollowsAcceptance == Spec => []LaunchAfterAcceptance
<1>1. IInv => LaunchAfterAcceptance
  BY LaunchedAfterAcceptance
<1> QED
  BY <1>1, InvariantHolds, PTL

\* A confirmed cancellation is final: nothing is launched at or after it and
\* nobody holds an intent to launch (runtime/mission.ts decide).
THEOREM CancellationIsQuiet == Spec => []ConfirmedCancelIsQuiet
<1>1. AnswerInv => ConfirmedCancelIsQuiet
  BY CancelIsQuiet
<1> QED
  BY <1>1, AnswerInvariant, PTL

\* The invariant of the verdicts and costs, while the storage keeps what it
\* linked (a power loss takes back records that other processes saw).
THEOREM VerdictInvariant ==
    ASSUME PowerLossAllowed = FALSE
    PROVE  Spec => []VerdictInv
<1>1. Init => VerdictInv
  BY InitVerdict
<1>2. VerdictInv /\ [Next]_vars => VerdictInv'
  BY NextVerdict
<1> QED
  BY <1>1, <1>2, PTL DEF Spec

\* While the storage keeps what it linked, what any process reported stays true
\* of the history (runtime/mission.ts settle and afterConflict).
THEOREM ReportsStand ==
    ASSUME PowerLossAllowed = FALSE
    PROVE  Spec => []ReceiptStands
<1>1. VerdictInv => ReceiptStands
  BY DEF VerdictInv
<1>2. Spec => []VerdictInv
  BY VerdictInvariant
<1> QED
  BY <1>1, <1>2, PTL

\* While the storage keeps what it linked, a result that returned is paid for
\* in the journal, unless its step was both cancelled and abandoned under it
\* (runtime/mission.ts dispatch and keepLateCost).
THEOREM CostsAreAccounted ==
    ASSUME PowerLossAllowed = FALSE
    PROVE  Spec => []CostAccounted
<1>1. VerdictInv => CostAccounted
  BY AccountedWhenDone
<1>2. Spec => []VerdictInv
  BY VerdictInvariant
<1> QED
  BY <1>1, <1>2, PTL

-----------------------------------------------------------------------------
(* The refinement of MissionLedger *)

\* A record linked after another moves the ledger along the reducer.
LEMMA RecordStep ==
    ASSUME NEW event, Admits(LedgerState, event), LedgerState' = Target(event),
           UNCHANGED launches
    PROVE  Ledger!Record(event.kind)
<1>1. event.step = LedgerState.step
  BY DEF Admits
<1> DEFINE recorded == [kind |-> event.kind, step |-> LedgerState.step]
<1>2. recorded.kind = event.kind /\ recorded.step = event.step
  BY <1>1
<1>3. Ledger!Admits(LedgerState, recorded)
  BY <1>1, <1>2 DEF Admits, Ledger!Admits
<1>4. LedgerState' = Ledger!Target(recorded)
  BY <1>2 DEF Target, At, Settled, Ledger!Target, Ledger!At, Ledger!Settled
<1> QED
  BY <1>3, <1>4 DEF Ledger!Record

\* Linking a record is one step of the ledger.
LEMMA LinkRefines ==
    ASSUME AnswerInv, NEW p \in Procs, Link(p)
    PROVE  Ledger!Next
<1> DEFINE m == Len(log) + 1
           e == pending[p]
<1>1. /\ IInv /\ DOMAIN log = 1..Len(log) /\ Len(log) \in Nat
      /\ Len(log') = m /\ DOMAIN log' = 1..m /\ log' # << >> /\ UNCHANGED launches
  BY LinkedRecord, RecordType DEF AnswerInv, IInv, Link
<1>2. LedgerState' = log'[m].after
  BY <1>1 DEF LedgerState
<1>3. CASE log = << >>
  <2>1. m = 1
    BY <1>1, <1>3
  <2>2. log'[m].after = Opened
    BY <1>1, <2>1, LinkedRecord
  <2>3. Opened = Ledger!Opened /\ Invalid = Ledger!Absent
    BY DEF Opened, Ledger!Opened, Invalid, Ledger!Absent, At, Ledger!At
  <2> QED
    BY <1>1, <1>2, <1>3, <2>2, <2>3 DEF LedgerState, Ledger!Next, Ledger!Create
<1>4. CASE log # << >>
  <2>1. m # 1 /\ m - 1 = Len(log)
    BY <1>1, <1>4
  <2>2. Admits(LedgerState, e) /\ LedgerState' = Target(e)
    BY <1>1, <1>2, <1>4, <2>1, LinkedRecord DEF LedgerState
  <2>3. Ledger!Record(e.kind)
    BY <1>1, <2>2, RecordStep
  <2>4. CASE e.kind \in AnswerKinds
    <3>1. LedgerState.step \in Steps
      <4>1. LedgerState = log[Len(log)].after /\ Len(log) \in DOMAIN log
        BY <1>1, <1>4, <2>1 DEF LedgerState
      <4>2. LedgerState.kind = "in-flight"
        BY <2>2, <2>4 DEF Admits, AnswerKinds
      <4> QED
        BY <1>1, <4>1, <4>2 DEF IInv, PositionsCounted
    <3>2. launches[LedgerState.step] = 1
      BY <2>2, <2>4 DEF Admits, AnswerInv, AnswerWasLaunched, Link
    <3>3. LedgerState.step > 0
      BY <3>1, StepCountAssumption DEF Steps
    <3> QED
      BY <2>3, <2>4, <3>2, <3>3 DEF AnswerKinds, Ledger!Next, Ledger!Answer
  <2>5. CASE e.kind \in {"dispatched", "cancelled", "cancel-requested", "abandoned", "rejected",
                         "discarded"}
    BY <2>3, <2>5 DEF Ledger!Next, Ledger!Intend, Ledger!CancelIdle, Ledger!RequestCancel,
                      Ledger!Abandon, Ledger!Reject, Ledger!KeepCost
  <2> QED
    BY <2>2, <2>4, <2>5 DEF Admits, AnswerKinds
<1> QED
  BY <1>3, <1>4

\* The call of an executor is the launch of the ledger.
LEMMA ExecuteRefines ==
    ASSUME AnswerInv, NEW p \in Procs, Execute(p)
    PROVE  Ledger!Next
<1> DEFINE s == pending[p].step
           end == Len(log)
<1>1. /\ IInv /\ DOMAIN log = 1..end /\ end \in Nat /\ UNCHANGED log
      /\ launches[s] = 0 /\ launches' = [launches EXCEPT ![s] = @ + 1] /\ s \in Steps
      /\ IntentStands(p) /\ Unanswered(p)
  BY ExecuteStep, InFlight, RecordType DEF AnswerInv, IInv, Execute, jvars, Unanswered
<1>2. PICK d \in DOMAIN log :
         /\ log[d].event = Event("dispatched", s, p)
         /\ \A n \in DOMAIN log : n > d =>
               /\ log[n].event.kind \in {"cancel-requested", "abandoned"}
               /\ log[n].event.step = s
  BY <1>1 DEF IntentStands
<1>3. log # << >> /\ end \in DOMAIN log
  BY <1>1, <1>2
<1>4. /\ log[end].event.kind \in {"dispatched", "cancel-requested", "abandoned"}
      /\ log[end].event.step = s
  <2>1. end = d \/ end > d
    BY <1>1, <1>2
  <2> QED
    BY <1>2, <1>3, <2>1 DEF Event
<1>5. log[end].after = Target(log[end].event)
  BY <1>1, <1>3, <1>4 DEF IInv, LegalHistory
<1>6. LedgerState.kind \in {"in-flight", "cancel-requested", "abandoned"} /\ LedgerState.step = s
  BY <1>3, <1>4, <1>5 DEF LedgerState, Target, At
<1>7. launches' = [launches EXCEPT ![s] = 1]
  BY <1>1
<1>8. UNCHANGED LedgerState
  BY <1>1 DEF LedgerState
<1> QED
  BY <1>1, <1>6, <1>7, <1>8 DEF Ledger!Next, Ledger!Launch

\* The processes of a mission together behave as one ledger: the history moves
\* along the reducer, and an executor is called at most once per step, under
\* an unsettled intent (runtime/mission.ts over runtime/journal.ts).
THEOREM ImplementsLedger ==
    ASSUME PowerLossAllowed = FALSE
    PROVE  Spec => LedgerSpec
<1>1. Init => Ledger!Init
  BY DEF Init, Ledger!Init, LedgerState, Invalid, At, Ledger!Absent, Ledger!At, Steps, Ledger!Steps
<1>2. AnswerInv /\ [Next]_vars => [Ledger!Next]_<<LedgerState, launches>>
  <2> SUFFICES ASSUME AnswerInv, [Next]_vars
               PROVE  Ledger!Next \/ UNCHANGED <<LedgerState, launches>>
    OBVIOUS
  <2>1. \/ \E p \in Procs : Link(p) \/ Execute(p)
        \/ UNCHANGED <<log, launches>>
    BY DEF Next, PowerLoss, vars, jvars, Progress, Fault, Start, Open, Load, Advance, LinkRefused,
           JournalFull, Sync, Refuse, Return, KeepLateCost, AfterConflict, ReadFails, AppendFails,
           SyncFails, Throw, Crash, Decide
  <2> QED
    BY <2>1, LinkRefines, ExecuteRefines DEF LedgerState
<1> QED
  BY <1>1, <1>2, AnswerInvariant, PTL DEF Spec, LedgerSpec, Ledger!Spec, Ledger!lvars

=============================================================================
