-------------------------- MODULE MissionInvariant --------------------------
(***************************************************************************)
(* The inductive invariants of MissionKernel: why the compare-and-swap on  *)
(* revisions, the sync before a launch and the reducer together keep every *)
(* step from being launched twice (IInv), and why the answer of a call     *)
(* finds its intent standing and its cost recorded (AnswerInv, VerdictInv).*)
(* TLC checks IInv on a small instance; MissionKernelProofs proves all of  *)
(* them for every number of processes and steps.                           *)
(***************************************************************************)
EXTENDS MissionKernel

\* Every record was legal where it was linked.
LegalHistory ==
    \A n \in DOMAIN log :
        IF n = 1 THEN log[n].event.kind = "started" /\ log[n].after = Opened
        ELSE /\ Admits(log[n - 1].after, log[n].event)
             /\ log[n].after = Target(log[n].event)

\* An unsettled position names a step, and its revision follows from it.
PositionsCounted ==
    \A n \in DOMAIN log :
        /\ log[n].after.kind \notin {"settled", "invalid"} => log[n].after.step \in Steps
        /\ log[n].after.kind = "dispatch" => n = 2 * log[n].after.step - 1
        /\ log[n].after.kind = "in-flight" => n = 2 * log[n].after.step

Dispatched(n) == log[n].event.kind = "dispatched"

\* Once a step is dispatched the history never offers it again.
NeverOfferedAgain ==
    \A i, j \in DOMAIN log : i <= j /\ Dispatched(i) =>
        /\ log[j].after.kind = "dispatch" => log[j].after.step > log[i].event.step
        /\ log[j].after.kind = "in-flight" => log[j].after.step >= log[i].event.step

\* The event a process is about to link is legal after the prefix it read,
\* so it stays legal if the revision is still free.
PendingLegal(p) ==
    pc[p] = "link" =>
        IF pending[p].kind = "started" THEN known[p] = 0
        ELSE known[p] \in DOMAIN log /\ Admits(log[known[p]].after, pending[p])

DecisionKinds == {"cancelled", "cancel-requested", "abandoned"}

\* What a process may assume of the log at each control point.
KnowsPrefix(p) ==
    /\ pending[p].by = p
    /\ pc[p] = "idle" => known[p] = 0
    /\ pc[p] \notin {"done", "dead"} => known[p] <= Len(log)
    /\ (pc[p] = "decide" \/ (pc[p] = "link" /\ pending[p].kind \in DecisionKinds)) =>
          command[p] \in {"cancel", "abandon"}
    /\ pc[p] = "advance" => known[p] \in DOMAIN log
    /\ pc[p] = "sync" => known[p] + 1 \in DOMAIN log /\ log[known[p] + 1].event = pending[p]
    /\ pc[p] \in {"late", "loser"} => log # << >>
    /\ pc[p] \in {"execute", "executing"} =>
          /\ known[p] \in 1..synced
          /\ log[known[p]].event = pending[p]
          /\ pending[p].kind = "dispatched"

\* A launch is covered by one durable intent, whose writer is past it.
LaunchCovered(s) ==
    launches[s] > 0 =>
        \E n \in 1..synced :
            /\ Dispatched(n) /\ log[n].event.step = s
            /\ LET q == log[n].event.by
               IN  known[q] >= n /\ ~(pc[q] = "execute" /\ known[q] = n)

\* No process was ever told that the history is out of order.
NoneUnreadable == \A p \in Procs : receipt[p].detail # "unreadable"

\* The inductive invariant.
IInv ==
    /\ TypeOK
    /\ synced <= Len(log)
    /\ LegalHistory
    /\ PositionsCounted
    /\ NeverOfferedAgain
    /\ NoneUnreadable
    /\ \A p \in Procs : PendingLegal(p) /\ KnowsPrefix(p)
    /\ \A s \in Steps : launches[s] <= 1 /\ LaunchCovered(s)
-----------------------------------------------------------------------------
(* What the answer of an executor meets when it is recorded *)

\* A process that holds the result of an intent, not yet recorded.
Answering(p) ==
    pc[p] = "late" \/ (pc[p] = "link" /\ pending[p].kind \in CarriesUsage)

\* A process whose intent is linked and has no recorded outcome.
Unanswered(p) ==
    \/ pc[p] = "sync" /\ pending[p].kind = "dispatched"
    \/ pc[p] \in {"execute", "executing"}
    \/ Answering(p)

\* Nobody but its writer can settle an intent: until then the others can only
\* ask for its cancellation or abandon it.
IntentStands(p) ==
    Unanswered(p) =>
        /\ \E d \in DOMAIN log :
              /\ log[d].event = Event("dispatched", pending[p].step, p)
              /\ \A n \in DOMAIN log : n > d =>
                    /\ log[n].event.kind \in {"cancel-requested", "abandoned"}
                    /\ log[n].event.step = pending[p].step
        /\ pc[p] = "late" => log[Len(log)].event.kind # "dispatched"

\* The answers that only an executor gives.
AnswerKinds == {"accepted", "completed", "stopped", "unconfirmed"}

\* Such an answer comes from a call that was made.
AnswerWasLaunched(p) ==
    pc[p] = "executing" \/ (pc[p] = "link" /\ pending[p].kind \in AnswerKinds)
        => launches[pending[p].step] = 1

AnswerInv == IInv /\ \A p \in Procs : IntentStands(p) /\ AnswerWasLaunched(p)

\* A process reports once, and is over then.
ReportIsLast(p) == receipt[p] # NoReceipt => pc[p] = "done"

\* A result that returned is paid for, or still on its way to the journal.
ResultAccounted(p) ==
    \A s \in Steps : <<p, s>> \in returned =>
        \/ pc[p] = "dead" \/ receipt[p].kind = "blocked"
        \/ UsageKept(p, s)
        \/ Recorded("cancel-requested", s) /\ Recorded("abandoned", s)
        \/ Answering(p) /\ pending[p].step = s

\* Holds as long as the storage keeps what it linked.
VerdictInv ==
    /\ AnswerInv
    /\ ReceiptStands
    /\ \A p \in Procs : ReportIsLast(p) /\ ResultAccounted(p)
=============================================================================
