---------------------------- MODULE MissionKernel ----------------------------
(***************************************************************************)
(* packages/void-machine/src/runtime/mission.ts: processes that start,     *)
(* resume, cancel and abandon ONE mission through its append-only journal. *)
(*                                                                         *)
(* The journal is used through its two operations.  A read is a snapshot   *)
(* of the records or is refused (FileJournal).  An append has two visible  *)
(* points, the link that claims the next revision and the directory sync   *)
(* that makes it durable; a writer that loses the claim gets "conflict".   *)
(*                                                                         *)
(* A record is kept with the reducer state after it: the fold of a prefix  *)
(* never changes once the prefix is linked, so `after` memoises what every *)
(* reader recomputes (ReducerAgreement checks it against the fold).        *)
(***************************************************************************)
EXTENDS MissionReducer

CONSTANTS
    Procs,              \* operating-system processes, one command each
    Contracts,          \* execution contract digests a binary may carry
    MaxRecords,         \* MAX_RECORDS of the file journal
    PowerLossAllowed    \* whether the host may lose what was not synced

ASSUME MaxRecordsAssumption == MaxRecords \in Nat \ {0}
ASSUME PowerLossAssumption == PowerLossAllowed \in BOOLEAN

Commands == {"start", "resume", "cancel", "abandon"}

\* pc of a process.  "link" and "sync" are the two points of an append.
Active == {"load", "decide", "advance", "link", "sync", "execute",
           "executing", "late", "loser"}
PCs == Active \cup {"idle", "done", "dead"}

\* by is the writer; on "dispatched" it stands for the execution id.
Events == [kind : EventKinds, step : 0..StepCount, by : Procs]
Records == [event : Events, after : States]

ReceiptKinds == {"none", "completed", "paused", "stopped", "cancelled",
                 "abandoned", "rejected", "blocked"}
Details == {"", "confirmed", "requested-unconfirmed", "late-result-discarded",
            "unknown", "missing", "conflict", "storage", "unlisted", "unrecordable",
            "unreadable", "context-changed", "outcome-unknown", "not-abandonable"}
Receipts == [kind : ReceiptKinds, detail : Details, step : 0..StepCount]

VARIABLES
    log,        \* the linked records, in revision order
    synced,     \* how many of them a completed directory sync covers
    pc,         \* control point of each process
    command,    \* the command each process runs, "none" before it begins
    known,      \* Len(events): the prefix of log each process holds
    pending,    \* the event each process is appending
    returned,   \* <<process, step>> of every executor call that returned
    attempt,    \* loop counter of decide
    contract,   \* contract digest of each process; the digest recorded in
                \* the "started" event is its writer's
    stopAfter,  \* step after which `start` pauses, 0 for never
    receipt,    \* what each process reported
    launches    \* how often each step was handed to an executor

jvars == <<log, synced>>
pvars == <<command, attempt, contract, stopAfter>>
vars == <<jvars, pc, pvars, known, pending, returned, receipt, launches>>

Event(kind, step, p) == [kind |-> kind, step |-> step, by |-> p]
Receipt(kind, detail, step) == [kind |-> kind, detail |-> detail, step |-> step]
NoReceipt == Receipt("none", "", 0)
Blocked(reason) == Receipt("blocked", reason, 0)

Init ==
    /\ log = << >>
    /\ synced = 0
    /\ pc = [p \in Procs |-> "idle"]
    /\ command = [p \in Procs |-> "none"]
    /\ contract \in [Procs -> Contracts]
    /\ stopAfter = [p \in Procs |-> 0]
    /\ known = [p \in Procs |-> 0]
    /\ pending = [p \in Procs |-> Event("started", 0, p)]
    /\ returned = {}
    /\ attempt = [p \in Procs |-> 0]
    /\ receipt = [p \in Procs |-> NoReceipt]
    /\ launches = [s \in Steps |-> 0]

-----------------------------------------------------------------------------
Goto(p, point) == pc' = [pc EXCEPT ![p] = point]

Finish(p, r) ==
    /\ Goto(p, "done")
    /\ receipt' = [receipt EXCEPT ![p] = r]

\* writeMission(store, description, events, event), up to the append.
Write(p, kind, step) ==
    /\ pending' = [pending EXCEPT ![p] = Event(kind, step, p)]
    /\ Goto(p, "link")

\* The events whose type has a usage field ('usage' in event).
CarriesUsage == {"accepted", "completed", "stopped", "unconfirmed", "rejected", "discarded"}
OutcomeKinds == CarriesUsage \ {"discarded"}

(***************************************************************************)
(* settle(store, events) for the first n records.  A history ending in     *)
(* "discarded" is told apart by the record before it.                      *)
(***************************************************************************)
Settle(n) ==
    LET last == log[n].event
    IN  CASE last.kind \in {"completed", "stopped", "rejected"} ->
               Receipt(last.kind, "", last.step)
          [] last.kind = "unconfirmed" -> Blocked("outcome-unknown")
          [] last.kind = "cancelled" -> Receipt("cancelled", "confirmed", last.step)
          [] last.kind = "cancel-requested" ->
               Receipt("cancelled", "requested-unconfirmed", last.step)
          [] last.kind = "discarded" ->
               Receipt(IF n > 1 /\ log[n - 1].event.kind = "abandoned"
                       THEN "abandoned" ELSE "cancelled",
                       "late-result-discarded", last.step)
          [] last.kind = "abandoned" -> Receipt("abandoned", "unknown", last.step)
          [] OTHER -> Blocked("unreadable")

\* started.contract of the recorded mission.
Sealed == contract[log[1].event.by]

-----------------------------------------------------------------------------
(* Commands *)

\* startMission: the first event goes to revision 1 whatever is recorded.
\* (A pause after the last step never happens: that step is "completed".)
Start(p) ==
    /\ pc[p] = "idle"
    /\ command' = [command EXCEPT ![p] = "start"]
    /\ \E s \in 0..(StepCount - 1) : stopAfter' = [stopAfter EXCEPT ![p] = s]
    /\ Write(p, "started", 0)
    /\ UNCHANGED <<jvars, known, returned, attempt, contract, receipt, launches>>

\* resumeMission, cancelMission and abandonMission read first.
Open(p) ==
    /\ pc[p] = "idle"
    /\ \E c \in Commands \ {"start"} :
          /\ command' = [command EXCEPT ![p] = c]
          /\ Goto(p, IF c = "resume" THEN "load" ELSE "decide")
    /\ UNCHANGED <<jvars, known, pending, returned, attempt, contract, stopAfter,
                   receipt, launches>>

\* readMission of a resume.
Load(p) ==
    /\ pc[p] = "load"
    /\ IF log = << >>
       THEN Finish(p, Blocked("missing")) /\ UNCHANGED known
       ELSE /\ known' = [known EXCEPT ![p] = Len(log)]
            /\ Goto(p, "advance")
            /\ UNCHANGED receipt
    /\ UNCHANGED <<jvars, pvars, pending, returned, launches>>

\* A read that throws ("storage") or that the journal refuses is reported as
\* itself, except after a lost revision, where the conflict stands
\* (afterConflict).  The code reports a refused listing as "unreadable" with
\* the journal's reason; it is called "unlisted" here to keep it apart from a
\* history the reducer cannot read.
ReadFails(p) ==
    /\ pc[p] \in {"load", "decide", "late", "loser"}
    /\ \E reason \in {"storage", "unlisted"} :
          Finish(p, Blocked(IF pc[p] = "loser" THEN "conflict" ELSE reason))
    /\ UNCHANGED <<jvars, pvars, known, pending, returned, launches>>

(***************************************************************************)
(* One turn of advance: the position decides between a receipt and the     *)
(* dispatch intent of the next step (dispatch, up to its first write).     *)
(***************************************************************************)
Advance(p) ==
    /\ pc[p] = "advance"
    /\ LET at == Position(log[known[p]].after)
       IN  \/ /\ at.kind = "invalid"
              /\ Finish(p, Blocked("unreadable")) /\ UNCHANGED pending
           \/ /\ at.kind = "unknown"
              /\ Finish(p, Blocked("outcome-unknown")) /\ UNCHANGED pending
           \/ /\ at.kind \in {"settled", "cancel-requested"}
              /\ Finish(p, Settle(known[p])) /\ UNCHANGED pending
           \/ /\ at.kind = "dispatch" /\ contract[p] # Sealed
              /\ Finish(p, Blocked("context-changed")) /\ UNCHANGED pending
           \/ /\ at.kind = "dispatch" /\ contract[p] = Sealed
              /\ Write(p, "dispatched", at.step) /\ UNCHANGED receipt
    /\ UNCHANGED <<jvars, pvars, known, returned, launches>>

-----------------------------------------------------------------------------
(* One append *)

(***************************************************************************)
(* What a caller of writeMission does once its event is recorded: launch   *)
(* an intended step, take the next turn, or report.                        *)
(***************************************************************************)
AfterWrite(p) ==
    LET e == pending[p]
    IN  CASE e.kind = "started" -> Goto(p, "advance") /\ UNCHANGED receipt
          [] e.kind = "dispatched" -> Goto(p, "execute") /\ UNCHANGED receipt
          [] e.kind = "accepted" ->
               IF stopAfter[p] = e.step THEN Finish(p, Receipt("paused", "", e.step))
               ELSE Goto(p, "advance") /\ UNCHANGED receipt
          [] OTHER -> Finish(p, Settle(known[p] + 1))

\* for (let attempt = 0; attempt < 2; ...): one more decision after a loss.
AttemptsLeft(p) == attempt[p] < 1

AfterLossBelieved(p) ==
    /\ UNCHANGED attempt
    /\ IF pending[p].kind = "cancelled"
       THEN Finish(p, Receipt("cancelled", "confirmed", pending[p].step))
       ELSE Goto(p, "loser") /\ UNCHANGED receipt

(***************************************************************************)
(* What it does when another writer holds the revision: `start` gives up,  *)
(* a decision is taken once more, an outcome tries to keep its cost, and a *)
(* lost intent or cost reads the winner's verdict.                         *)
(***************************************************************************)
AfterLoss(p) ==
    LET k == pending[p].kind
    IN  CASE k = "started" -> Finish(p, Blocked("conflict")) /\ UNCHANGED attempt
          [] k \in OutcomeKinds -> Goto(p, "late") /\ UNCHANGED <<receipt, attempt>>
          [] k \in {"dispatched", "discarded"} ->
               Goto(p, "loser") /\ UNCHANGED <<receipt, attempt>>
          [] OTHER ->
               IF AttemptsLeft(p)
               THEN /\ attempt' = [attempt EXCEPT ![p] = @ + 1]
                    /\ Goto(p, "decide") /\ UNCHANGED receipt
               ELSE Finish(p, Blocked("conflict")) /\ UNCHANGED attempt

\* The revision after the prefix a process holds is free, and below the
\* record limit of the journal.
RevisionUnchecked(p) == Len(log) >= known[p]
RevisionFree(p) == Len(log) = known[p]

HasRoom(p) == known[p] < MaxRecords

NewRecord(p) ==
    LET before == IF log = << >> THEN Opened ELSE log[Len(log)].after
    IN  [event |-> pending[p],
         after |-> IF pending[p].kind = "started" THEN Opened
                   ELSE Transition(before, pending[p])]

\* The link of revision known + 1: the compare-and-swap of the journal.
Link(p) ==
    /\ pc[p] = "link" /\ HasRoom(p)
    /\ RevisionFree(p)
    /\ log' = Append(log, NewRecord(p))
    /\ Goto(p, "sync")
    /\ UNCHANGED <<synced, pvars, known, pending, returned, receipt, launches>>

LinkRefused(p) ==
    /\ pc[p] = "link" /\ HasRoom(p)
    /\ ~RevisionFree(p)
    /\ AfterLoss(p)
    /\ UNCHANGED <<jvars, command, contract, stopAfter, known, pending, returned,
                   launches>>

\* append refuses an expected revision at the record limit.
JournalFull(p) ==
    /\ pc[p] = "link" /\ ~HasRoom(p)
    /\ Finish(p, Blocked("storage"))
    /\ UNCHANGED <<jvars, pvars, known, pending, returned, launches>>

\* The record does not encode, has no execution id to carry ("unrecordable"),
\* or its temporary cannot be written or linked ("storage").
AppendFails(p) ==
    /\ pc[p] = "link"
    /\ \E reason \in {"storage", "unrecordable"} : Finish(p, Blocked(reason))
    /\ UNCHANGED <<jvars, pvars, known, pending, returned, launches>>

\* syncDirectory makes every entry of the directory durable.
Sync(p) ==
    /\ pc[p] = "sync"
    /\ synced' = Len(log)
    /\ known' = [known EXCEPT ![p] = @ + 1]
    /\ AfterWrite(p)
    /\ UNCHANGED <<log, pvars, pending, returned, launches>>

UnconfirmedIsWritten(p) ==
    /\ pc[p] = "sync"
    /\ known' = [known EXCEPT ![p] = @ + 1]
    /\ AfterWrite(p)
    /\ UNCHANGED <<jvars, pvars, pending, returned, launches>>

\* "unconfirmed": linked and visible, and the process stops there.
SyncFails(p) ==
    /\ pc[p] = "sync"
    /\ Finish(p, Blocked("storage"))
    /\ UNCHANGED <<jvars, pvars, known, pending, returned, launches>>

-----------------------------------------------------------------------------
(* The dispatched step *)

\* runner.execute is called.
Execute(p) ==
    /\ pc[p] = "execute"
    /\ launches' = [launches EXCEPT ![pending[p].step] = @ + 1]
    /\ Goto(p, "executing")
    /\ UNCHANGED <<jvars, pvars, known, pending, returned, receipt>>

\* The vertical refuses the step locally, before launching anything.
Refuse(p) ==
    /\ pc[p] = "execute"
    /\ Write(p, "rejected", pending[p].step)
    /\ UNCHANGED <<jvars, pvars, known, returned, receipt, launches>>

\* An outcome with its usage; outcomeEvent names the event that records it.
Return(p) ==
    /\ pc[p] = "executing"
    /\ LET step == pending[p].step
       IN  \E kind \in {"stopped", "unconfirmed", "rejected",
                        IF step = StepCount THEN "completed" ELSE "accepted"} :
              Write(p, kind, step)
    /\ returned' = returned \cup {<<p, pending[p].step>>}
    /\ UNCHANGED <<jvars, pvars, known, receipt, launches>>

ThrowRetries(p) ==
    /\ pc[p] = "executing"
    /\ Goto(p, "execute")
    /\ UNCHANGED <<jvars, pvars, known, pending, returned, receipt, launches>>

\* runner.execute throws.
Throw(p) ==
    /\ pc[p] = "executing"
    /\ Finish(p, Blocked("outcome-unknown"))
    /\ UNCHANGED <<jvars, pvars, known, pending, returned, launches>>

\* The winner took the revision of this step's outcome to stop the step.
SupersededByCancel(last, step) == last.kind = "cancel-requested" /\ last.step = step
Superseded(last, step) == last.kind \in {"cancel-requested", "abandoned"} /\ last.step = step

(***************************************************************************)
(* keepLateCost: an outcome that lost its revision to a cancellation       *)
(* request or an abandonment of its step records its cost only.            *)
(***************************************************************************)
KeepLateCost(p) ==
    /\ pc[p] = "late"
    /\ LET last == log[Len(log)].event
       IN  IF Superseded(last, pending[p].step)
           THEN /\ known' = [known EXCEPT ![p] = Len(log)]
                /\ Write(p, "discarded", last.step)
           ELSE Goto(p, "loser") /\ UNCHANGED <<known, pending>>
    /\ UNCHANGED <<jvars, pvars, returned, receipt, launches>>

AfterConflictWaits(p) ==
    /\ pc[p] = "loser" /\ log[Len(log)].event.kind \in {"cancelled", "abandoned"}
    /\ Finish(p, Settle(Len(log)))
    /\ UNCHANGED <<jvars, pvars, known, pending, returned, launches>>

\* afterConflict: a cancellation or an abandonment is reported as itself.
AfterConflict(p) ==
    /\ pc[p] = "loser"
    /\ Finish(p, IF log[Len(log)].event.kind
                      \in {"cancelled", "cancel-requested", "discarded", "abandoned"}
                 THEN Settle(Len(log)) ELSE Blocked("conflict"))
    /\ UNCHANGED <<jvars, pvars, known, pending, returned, launches>>

-----------------------------------------------------------------------------
(* One attempt of decide(store, description, mode) *)
Decide(p) ==
    /\ pc[p] = "decide"
    /\ IF log = << >>
       THEN Finish(p, Blocked("missing")) /\ UNCHANGED <<known, pending>>
       ELSE
         LET at   == Position(log[Len(log)].after)
             idle == at.kind = "dispatch"
             kind == IF command[p] = "abandon" THEN "abandoned"
                     ELSE IF idle THEN "cancelled" ELSE "cancel-requested"
         IN  CASE at.kind = "invalid" ->
                    Finish(p, Blocked("unreadable")) /\ UNCHANGED <<known, pending>>
               [] \/ at.kind = "settled"
                  \/ command[p] = "cancel" /\ at.kind = "cancel-requested" ->
                    Finish(p, Settle(Len(log))) /\ UNCHANGED <<known, pending>>
               [] command[p] = "abandon" /\ idle ->
                    Finish(p, Blocked("not-abandonable")) /\ UNCHANGED <<known, pending>>
               [] OTHER ->
                    /\ known' = [known EXCEPT ![p] = Len(log)]
                    /\ Write(p, kind, at.step)
                    /\ UNCHANGED receipt
    /\ UNCHANGED <<jvars, pvars, returned, launches>>

-----------------------------------------------------------------------------
(* Faults *)

\* The operating-system process dies between two steps.
Crash(p) ==
    /\ pc[p] \in Active
    /\ Goto(p, "dead")
    /\ UNCHANGED <<jvars, pvars, known, pending, returned, receipt, launches>>

\* The host stops: every process dies and unsynced records may be lost.
PowerLoss ==
    /\ PowerLossAllowed
    /\ pc' = [p \in Procs |-> IF pc[p] \in Active THEN "dead" ELSE pc[p]]
    /\ \E n \in synced..Len(log) : log' = SubSeq(log, 1, n)
    /\ UNCHANGED <<synced, pvars, known, pending, returned, receipt, launches>>

(***************************************************************************)
(* Progress is what a process does when nothing fails; the deadline of     *)
(* executeBounded makes every executor call return (StepExecution).        *)
(***************************************************************************)
Progress(p) ==
    \/ Load(p) \/ Advance(p) \/ Decide(p)
    \/ Link(p) \/ LinkRefused(p) \/ JournalFull(p) \/ Sync(p)
    \/ Execute(p) \/ Refuse(p) \/ Return(p)
    \/ KeepLateCost(p) \/ AfterConflict(p)

Fault(p) == ReadFails(p) \/ AppendFails(p) \/ SyncFails(p) \/ Throw(p) \/ Crash(p)

Next ==
    \/ \E p \in Procs : Start(p) \/ Open(p) \/ Progress(p) \/ Fault(p)
    \/ PowerLoss

Spec == Init /\ [][Next]_vars

FairSpec == Spec /\ \A p \in Procs : WF_vars(Progress(p))

-----------------------------------------------------------------------------
(* Properties *)

TypeOK ==
    /\ log \in Seq(Records)
    /\ synced \in Nat
    /\ pc \in [Procs -> PCs]
    /\ command \in [Procs -> Commands \cup {"none"}]
    /\ known \in [Procs -> Nat]
    /\ pending \in [Procs -> Events]
    /\ returned \subseteq Procs \X Steps
    /\ attempt \in [Procs -> 0..1]
    /\ contract \in [Procs -> Contracts]
    /\ stopAfter \in [Procs -> 0..StepCount]
    /\ receipt \in [Procs -> Receipts]
    /\ launches \in [Steps -> Nat]

Recorded(kind, step) ==
    \E n \in DOMAIN log : log[n].event.kind = kind /\ log[n].event.step = step

\* No interleaving of writers, crashes and retries ever records an event the
\* reducer refuses: the history stays readable (it begins with "started" and
\* no prefix folds to "invalid"), so no process is ever blocked "unreadable".
HistoryReadable ==
    /\ \A n \in DOMAIN log :
          /\ log[n].after.kind # "invalid"
          /\ (log[n].event.kind = "started") <=> (n = 1)
    /\ \A p \in Procs : receipt[p].detail # "unreadable"

\* The state kept with a record is the position every reader computes from
\* the events alone (missionPosition over the same prefix).
ReducerAgreement ==
    \A n \in DOMAIN log :
        log[n].after = Reduced([i \in 1..n |-> log[i].event])

\* A step is handed to an executor at most once, whatever processes resume,
\* crash or lose power: an intent is launched by its own writer only, and
\* only once it is durable (README: "never launched again").
AtMostOneLaunch == \A s \in Steps : launches[s] <= 1

\* A step is launched only after the previous one was accepted, in a record
\* no later failure can take back.
LaunchAfterAcceptance ==
    \A s \in Steps : s > 1 /\ launches[s] > 0 =>
        \E n \in 1..synced : /\ n \in DOMAIN log
                             /\ log[n].event.kind = "accepted"
                             /\ log[n].event.step = s - 1

\* A recorded "cancelled" (stop: confirmed) is final and quiet: no step at or
\* after it was launched, and no process still holds an intent to launch.
ConfirmedCancelIsQuiet ==
    \A n \in DOMAIN log : log[n].event.kind = "cancelled" =>
        /\ n = Len(log)
        /\ \A s \in Steps : s >= log[n].event.step => launches[s] = 0
        /\ \A p \in Procs : pc[p] \notin {"execute", "executing"}

\* What a process reported stays true of the journal, whichever process asks
\* later; a requested cancellation or an abandonment may only be refined by
\* the late result it waits for (settle, afterConflict).
ReceiptStands ==
    \A p \in Procs :
        LET r == receipt[p]
            last == log[Len(log)].event.kind
        IN  r.kind \notin {"none", "blocked"} =>
              /\ log # << >>
              /\ r.kind \in {"completed", "stopped", "rejected"} => last = r.kind
              /\ r.kind = "paused" => Recorded("accepted", r.step)
              /\ r.kind = "cancelled" /\ r.detail = "confirmed" => last = "cancelled"
              /\ r.kind = "cancelled" /\ r.detail = "requested-unconfirmed" =>
                    last \in {"cancel-requested", "abandoned", "discarded"}
              /\ r.kind = "abandoned" /\ r.detail = "unknown" =>
                    last \in {"abandoned", "discarded"}
              /\ r.detail = "late-result-discarded" => last = "discarded"

UsageKept(p, step) ==
    \E n \in DOMAIN log : /\ log[n].event.kind \in CarriesUsage
                          /\ log[n].event.step = step
                          /\ log[n].event.by = p

\* A result that returned is paid for: its cost is in the journal, or the
\* process says it could not record it, or the step was both cancelled and
\* abandoned under it (the two revisions keepLateCost can lose).
CostAccounted ==
    \A p \in Procs, s \in Steps :
        /\ <<p, s>> \in returned
        /\ pc[p] = "done"
        /\ receipt[p].kind # "blocked"
        => \/ UsageKept(p, s)
           \/ Recorded("cancel-requested", s) /\ Recorded("abandoned", s)

\* README.md:274-276 and 284-286: when the call returns after a cancellation
\* or an abandonment, its writer records "discarded" and the cost is kept.
\* A writer that reports a verdict on the mission has kept its cost.
LateCostKept ==
    \A p \in Procs, s \in Steps :
        /\ <<p, s>> \in returned
        /\ pc[p] = "done"
        /\ receipt[p].kind # "blocked"
        => UsageKept(p, s)

\* Every step before took two revisions, however many writers raced for them:
\* a launched step has a revision left for its outcome unless its intent took
\* the last one (MAX_RECORDS of file-journal.ts).
OutcomeFits ==
    \A p \in Procs : pc[p] = "executing" => (HasRoom(p) <=> 2 * pending[p].step < MaxRecords)

\* Every command that is not killed reports, whatever the others do.
CommandsReport ==
    \A p \in Procs : pc[p] \in Active ~> pc[p] \in {"done", "dead"}
=============================================================================
