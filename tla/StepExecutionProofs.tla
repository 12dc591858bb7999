------------------------- MODULE StepExecutionProofs -------------------------
(***************************************************************************)
(* Theorems about StepExecution, for every order in which the deadline,    *)
(* the child's end, its streams and the promises may be observed.          *)
(***************************************************************************)
EXTENDS StepExecution, TLAPS

\* What the executor can only have observed once no child runs any more.
Ended == {"failed", "unavailable", "result"}

\* The deadline is armed exactly while the call is open.
DeadlineOK ==
    /\ phase = "arming" => timer = "unarmed"
    /\ phase = "calling" => timer = "armed"
    /\ timer = "armed" => phase \in {"calling", "waiting"} /\ outcome = "none"
    /\ phase = "over" => outcome # "none"

\* Nothing was launched or observed before the call.
CallOK ==
    phase \in {"arming", "calling"} =>
        outcome = "none" /\ observed = "none" /\ child = "none"

\* An outcome comes from an observation, except where the call never began.
OutcomeOK ==
    /\ outcome # "none" => observed # "none" \/ (child = "none" /\ phase = "over")
    /\ observed \in Ended => child \in {"none", "exited"}
    /\ outcome \in Ended => child \in {"none", "exited"}

VerdictOK ==
    /\ verdict # "none" => outcome # "none"
    /\ verdict \in {"accepted", "stopped"} => outcome \in Ended

ExecutionInv ==
    TypeOK /\ DeadlineOK /\ CallOK /\ OutcomeOK /\ VerdictOK /\ NoUsageAfterVerdict

-----------------------------------------------------------------------------
\* A call that has not begun.
LEMMA InitInv == Init => ExecutionInv
<1> QED
  BY DEF Init, ExecutionInv, TypeOK, DeadlineOK, CallOK, OutcomeOK, VerdictOK,
         NoUsageAfterVerdict, Ended, Outcomes, Stops

\* The caller: executeBounded and noteRunner.
LEMMA CallerStep ==
    ASSUME ExecutionInv, Caller \/ ElapseAtOnce \/ ScheduleThrows \/ Elapse
    PROVE  ExecutionInv'
<1> USE DEF ExecutionInv, TypeOK, DeadlineOK, CallOK, OutcomeOK, VerdictOK,
            NoUsageAfterVerdict, Ended, Outcomes, Stops,
            bounded, executor, system, runner, Finish, Resolve, Terminate
<1>1. CASE Arm
  BY <1>1 DEF Arm
<1>2. CASE Spawn
  <2>1. stdinBad' \in BOOLEAN /\ killTimer' \in BOOLEAN
    BY <1>2, Zenon DEF Spawn
  <2>2. /\ phase = "calling" /\ phase' = "waiting"
        /\ child' \in {"running", "unstarted"}
        /\ UNCHANGED <<timer, outcome, observed, aborted, output, closed, killed, runner>>
    BY <1>2 DEF Spawn
  <2> QED
    BY <2>1, <2>2
<1>3. CASE SpawnRefused
  BY <1>3 DEF SpawnRefused
<1>4. CASE Observe
  BY <1>4 DEF Observe
<1>5. CASE Report
  BY <1>5 DEF Report, StopVerdict, Unconfirmed
<1>6. CASE ElapseAtOnce
  BY <1>6 DEF ElapseAtOnce, NotArmed
<1>7. CASE ScheduleThrows
  BY <1>7 DEF ScheduleThrows
<1>8. CASE Elapse
  <2>1. killTimer' \in BOOLEAN
    BY <1>8, Zenon DEF Elapse, Abort
  <2>2. aborted' \in BOOLEAN /\ observed' # "none" /\ observed' \in Stops \cup {"none", "result"}
        /\ (observed' = observed \/ observed' = "interrupted")
    BY <1>8 DEF Elapse, Abort
  <2> QED
    BY <1>8, <2>1, <2>2 DEF Elapse
<1> QED
  BY <1>1, <1>2, <1>3, <1>4, <1>5, <1>6, <1>7, <1>8 DEF Caller

\* The child process, its streams and its signals.
LEMMA ChildStep ==
    ASSUME ExecutionInv,
           SpawnError \/ OutputExceeds \/ OutputBreaks \/ StdinError \/ Kill \/ Exit \/ Close
    PROVE  ExecutionInv'
<1> USE DEF ExecutionInv, TypeOK, DeadlineOK, CallOK, OutcomeOK, VerdictOK,
            NoUsageAfterVerdict, Ended, Outcomes, Stops,
            bounded, executor, system, runner, Resolve, Terminate
<1>1. CASE SpawnError
  BY <1>1 DEF SpawnError
<1>2. CASE OutputExceeds
  BY <1>2 DEF OutputExceeds
<1>3. CASE OutputBreaks
  BY <1>3 DEF OutputBreaks
<1>4. CASE StdinError
  BY <1>4 DEF StdinError
<1>5. CASE Kill
  <2>1. killed' \in BOOLEAN /\ killTimer' \in BOOLEAN
    BY <1>5, Zenon DEF Kill, KillsChild
  <2> QED
    BY <1>5, <2>1 DEF Kill
<1>6. CASE Exit
  BY <1>6 DEF Exit
<1>7. CASE Close
  <2>1. TypeOK'
    <3>1. closed' \in BOOLEAN /\ killTimer' \in BOOLEAN
      BY <1>7, Zenon DEF Close
    <3> QED
      BY <1>7, <3>1 DEF Close
  <2>2. OutcomeOK' /\ VerdictOK' /\ DeadlineOK' /\ CallOK'
    BY <1>7 DEF Close, CloseSettled
  <2>3. NoUsageAfterVerdict'
    BY <1>7 DEF Close, CloseSettled
  <2> QED
    BY <2>1, <2>2, <2>3
<1> QED
  BY <1>1, <1>2, <1>3, <1>4, <1>5, <1>6, <1>7

\* Every step keeps the invariant.
LEMMA NextInv == ExecutionInv /\ [Next]_vars => ExecutionInv'
<1> SUFFICES ASSUME ExecutionInv, [Next]_vars PROVE ExecutionInv'
  OBVIOUS
<1>1. CASE UNCHANGED vars
  BY <1>1 DEF vars, bounded, executor, system, runner, ExecutionInv, TypeOK, DeadlineOK,
              CallOK, OutcomeOK, VerdictOK, NoUsageAfterVerdict
<1> QED
  BY <1>1, CallerStep, ChildStep DEF Next

-----------------------------------------------------------------------------
(* The theorems *)

\* The inductive invariant holds in every reachable state.
THEOREM ExecutionInvariant == Spec => []ExecutionInv
<1> QED
  BY InitInv, NextInv, PTL DEF Spec

\* A step recorded as accepted or stopped has no running child: only
\* "unconfirmed" leaves one behind (executeBounded, noteRunner).
THEOREM SettledIsOver == Spec => []SettledStepIsOver
<1>1. ExecutionInv => SettledStepIsOver
  BY DEF ExecutionInv, VerdictOK, OutcomeOK, SettledStepIsOver
<1> QED
  BY <1>1, ExecutionInvariant, PTL

\* No usage is reported after the verdict that drained it (the close handler of
\* the executor).
THEOREM UsageBeforeVerdict == Spec => []NoUsageAfterVerdict
<1>1. ExecutionInv => NoUsageAfterVerdict
  BY DEF ExecutionInv
<1> QED
  BY <1>1, ExecutionInvariant, PTL

\* A deadline that elapsed, inside schedule or later, launches nothing.
THEOREM DeadlineLaunchesNothing == Spec => NoLaunchAfterDeadline
<1>1. ExecutionInv /\ [Next]_vars =>
        [child = "none" /\ child' # "none" => outcome = "none" /\ timer = "armed"]_vars
  BY DEF ExecutionInv, DeadlineOK, CallOK, Next, Caller, Arm, Spawn, SpawnRefused, Observe,
         Report, ElapseAtOnce, ScheduleThrows, Elapse, SpawnError, OutputExceeds, OutputBreaks,
         StdinError, Kill, Exit, Close, bounded, executor, system, runner, vars
<1> QED
  BY <1>1, ExecutionInvariant, PTL DEF Spec, NoLaunchAfterDeadline

\* The first outcome and the first verdict are the last ones, whatever arrives
\* late (finish of executeBounded).
THEOREM FirstOutcomeIsFinal == Spec => OutcomeIsFinal
<1>1. ExecutionInv /\ [Next]_vars =>
        [/\ outcome # "none" => outcome' = outcome
         /\ verdict # "none" => verdict' = verdict]_vars
  BY DEF ExecutionInv, DeadlineOK, CallOK, Next, Caller, Arm, Spawn, SpawnRefused, Observe,
         Report, ElapseAtOnce, ScheduleThrows, Finish, Elapse, SpawnError, OutputExceeds,
         OutputBreaks, StdinError, Kill, Exit, Close, bounded, executor, system, runner, vars
<1> QED
  BY <1>1, ExecutionInvariant, PTL DEF Spec, OutcomeIsFinal
=============================================================================
