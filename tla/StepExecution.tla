---------------------------- MODULE StepExecution ----------------------------
(***************************************************************************)
(* One call of runner.execute: runtime/execution.ts (executeBounded, the   *)
(* caller's deadline), adapters/runtime/claude.ts (the executor, one child *)
(* process) and the verdict application/note-mission.ts derives from them. *)
(* It is what MissionKernel's Execute and Return stand for.                *)
(*                                                                         *)
(* Synchronous code is one step.  Promise callbacks are steps of their     *)
(* own, so any clock may run between a result and its observation.         *)
(***************************************************************************)
EXTENDS Integers

VARIABLES
    \* executeBounded
    phase,      \* "arming", "calling", "waiting" for the executor, "over"
    timer,      \* the caller's deadline
    outcome,    \* what the promise resolved with, "none" before
    \* createClaudeExecutor
    observed,   \* the observation the executor resolved with, "none" before
    aborted,    \* its abort listener ran
    stdinBad,   \* stdinFailed or inputWriteFailed
    output,     \* the two captured streams: "ok", "over" a limit, "failed"
    killTimer,  \* whether the SIGKILL timer is armed
    closed,     \* the "close" event was delivered
    \* the operating system
    child,      \* "none", "running", "exited", or "unstarted"
    killed,     \* SIGKILL was sent
    \* noteRunner
    usage,      \* "none", "seen" by onUsage, "drained" with the verdict
    verdict     \* the StepOutcome, "none" before

bounded == <<phase, timer, outcome>>
executor == <<observed, aborted, stdinBad, output, killTimer, closed>>
system == <<child, killed>>
runner == <<usage, verdict>>
vars == <<bounded, executor, system, runner>>

Stops == {"failed", "unavailable", "interrupted"}
Outcomes == Stops \cup {"none", "result", "timeout"}

Init ==
    /\ phase = "arming" /\ timer = "unarmed" /\ outcome = "none"
    /\ observed = "none" /\ aborted = FALSE
    /\ stdinBad = FALSE /\ output = "ok"
    /\ killTimer = FALSE /\ closed = FALSE
    /\ child = "none" /\ killed = FALSE
    /\ usage = "none" /\ verdict = "none"

-----------------------------------------------------------------------------
(* executeBounded *)

FinishAgain(o) ==
    /\ outcome' = o
    /\ timer' = IF timer = "armed" THEN "cancelled" ELSE timer

\* finish: the first outcome is kept and the deadline is cancelled.
Finish(o) ==
    IF outcome # "none" THEN UNCHANGED <<outcome, timer>>
    ELSE /\ outcome' = o
         /\ timer' = IF timer = "armed" THEN "cancelled" ELSE timer

ArmNothing ==
    /\ phase = "arming"
    /\ phase' = "calling"
    /\ UNCHANGED <<timer, outcome, executor, system, runner>>

Arm ==
    /\ phase = "arming"
    /\ timer' = "armed" /\ phase' = "calling"
    /\ UNCHANGED <<outcome, executor, system, runner>>

StillArmed == timer' = "armed" /\ phase' = "calling"
NotArmed == timer' = "cancelled" /\ phase' = "over"

\* The clock elapses inside schedule, before it has returned its canceller.
ElapseAtOnce ==
    /\ phase = "arming"
    /\ outcome' = "timeout"
    /\ NotArmed
    /\ UNCHANGED <<executor, system, runner>>

ScheduleThrows ==
    /\ phase = "arming"
    /\ Finish("failed")
    /\ phase' = "over"
    /\ UNCHANGED <<executor, system, runner>>

-----------------------------------------------------------------------------
(* createClaudeExecutor *)

\* finish of the executor: the first observation is kept.
Resolve(value) == observed' = IF observed = "none" THEN value ELSE observed

\* terminate: SIGTERM, which a child may ignore, and SIGKILL 100 ms later.
Terminate == killTimer' = (killTimer \/ ~closed)

\* The execution identifier is refused or spawn throws: nothing was launched.
SpawnRefused ==
    /\ phase = "calling"
    /\ \E value \in {"failed", "unavailable"} : Resolve(value)
    /\ phase' = "waiting"
    /\ UNCHANGED <<timer, outcome, aborted, stdinBad, output, killTimer, closed,
                   system, runner>>

\* The child is spawned and the request written; one too large for the input
\* bound is not written and the child is terminated.
Spawn ==
    /\ phase = "calling"
    /\ child' \in {"running", "unstarted"}
    /\ \/ stdinBad' = TRUE /\ Terminate
       \/ UNCHANGED <<stdinBad, killTimer>>
    /\ phase' = "waiting"
    /\ UNCHANGED <<timer, outcome, observed, aborted, output, closed, killed, runner>>

\* "error": the executable could not be started.
SpawnError ==
    /\ child = "unstarted"
    /\ child' = "exited"
    /\ IF aborted THEN UNCHANGED observed ELSE Resolve("unavailable")
    /\ UNCHANGED <<bounded, aborted, stdinBad, output, killTimer, closed, killed,
                   runner>>

\* A stream exceeds its limit (the child is terminated) or breaks.
OutputExceeds ==
    /\ child = "running" /\ output = "ok"
    /\ output' = "over" /\ Terminate
    /\ UNCHANGED <<bounded, observed, aborted, stdinBad, closed, system, runner>>

OutputBreaks ==
    /\ child = "running" /\ output = "ok"
    /\ output' = "failed"
    /\ UNCHANGED <<bounded, observed, aborted, stdinBad, killTimer, closed, system,
                   runner>>

\* The child closes its standard input before the request is read.
StdinError ==
    /\ child = "running" /\ ~stdinBad
    /\ stdinBad' = TRUE /\ Terminate
    /\ UNCHANGED <<bounded, observed, aborted, output, closed, system, runner>>

SparesChild == killed
KillsChild == killed \/ ~closed

\* The 100 ms after SIGTERM are over.
Kill ==
    /\ killTimer
    /\ killTimer' = FALSE
    /\ killed' = KillsChild
    /\ UNCHANGED <<bounded, observed, aborted, stdinBad, output, closed, child, runner>>

Exit ==
    /\ child = "running"
    /\ child' = "exited"
    /\ UNCHANGED <<bounded, executor, killed, runner>>

LateCloseSettles == FALSE
CloseSettled == aborted \/ observed # "none"

(***************************************************************************)
(* "close": the captured streams and the exit code decide.  Only a child   *)
(* that was sent its input, ended without an error code and printed an     *)
(* accepted answer gives a result, whose usage is reported first.          *)
(***************************************************************************)
Close ==
    /\ child = "exited" /\ ~closed
    /\ closed' = TRUE
    /\ killTimer' = FALSE
    /\ \/ CloseSettled /\ UNCHANGED <<observed, usage>>
       \/ ~CloseSettled /\ Resolve("failed") /\ UNCHANGED usage
       \/ /\ ~CloseSettled /\ output = "ok" /\ ~stdinBad
          /\ Resolve("result")
          /\ usage' = "seen"
    /\ UNCHANGED <<bounded, aborted, stdinBad, output, system, verdict>>

-----------------------------------------------------------------------------
(* The two promises, and the deadline *)

\* The executor's promise reaches executeBounded.
Observe ==
    /\ phase = "waiting" /\ observed # "none"
    /\ phase' = "over"
    /\ Finish(observed)
    /\ UNCHANGED <<executor, system, runner>>

\* abort, the listener of the executor, runs inside controller.abort().
Abort ==
    IF observed # "none" THEN UNCHANGED <<aborted, observed, killTimer>>
    ELSE aborted' = TRUE /\ Resolve("interrupted") /\ Terminate

\* The deadline elapses: settled first, then the executor is aborted.
Elapse ==
    /\ timer = "armed" /\ phase # "calling"
    /\ outcome' = "timeout"
    /\ timer' = "fired"
    /\ Abort
    /\ UNCHANGED <<phase, stdinBad, output, closed, system, runner>>

-----------------------------------------------------------------------------
(* noteRunner.execute *)

TimeoutIsAStop == outcome = "interrupted"
Unconfirmed == outcome \in {"timeout", "interrupted"}

StopVerdict == IF Unconfirmed THEN "unconfirmed" ELSE "stopped"

\* The usage is drained and the verdict returned; an observed payload is
\* admitted by the vertical or stopped.
Report ==
    /\ outcome # "none" /\ verdict = "none"
    /\ \/ outcome = "result" /\ verdict' \in {"accepted", "stopped"}
       \/ outcome # "result" /\ verdict' = StopVerdict
    /\ usage' = IF usage = "seen" THEN "drained" ELSE usage
    /\ UNCHANGED <<bounded, executor, system>>

Caller == Arm \/ Spawn \/ SpawnRefused \/ Observe \/ Report

Next ==
    \/ Caller \/ ElapseAtOnce \/ ScheduleThrows \/ Elapse
    \/ SpawnError \/ OutputExceeds \/ OutputBreaks \/ StdinError
    \/ Kill \/ Exit \/ Close

Spec == Init /\ [][Next]_vars

(***************************************************************************)
(* The event loop runs what is ready and its timers; the operating system  *)
(* ends a killed process.  Nothing makes a child answer, obey SIGTERM or   *)
(* close its streams.                                                      *)
(***************************************************************************)
FairSpec ==
    /\ Spec
    /\ WF_vars(Caller) /\ WF_vars(Elapse) /\ WF_vars(Kill)
    /\ WF_vars(SpawnError) /\ WF_vars(killed /\ Exit)

-----------------------------------------------------------------------------
(* Properties *)

TypeOK ==
    /\ phase \in {"arming", "calling", "waiting", "over"}
    /\ timer \in {"unarmed", "armed", "cancelled", "fired"}
    /\ outcome \in Outcomes
    /\ observed \in Stops \cup {"none", "result"}
    /\ output \in {"ok", "over", "failed"}
    /\ aborted \in BOOLEAN /\ stdinBad \in BOOLEAN /\ killTimer \in BOOLEAN
    /\ closed \in BOOLEAN /\ killed \in BOOLEAN
    /\ child \in {"none", "unstarted", "running", "exited"}
    /\ usage \in {"none", "seen", "drained"}
    /\ verdict \in {"none", "accepted", "stopped", "unconfirmed"}

\* A step recorded as stopped or accepted has ended: its child process no
\* longer runs.  Only "unconfirmed" leaves one behind (README.md:107).
SettledStepIsOver ==
    verdict \in {"accepted", "stopped"} => child \in {"none", "exited"}

\* No cost is observed after the verdict that should have carried it.
NoUsageAfterVerdict == verdict # "none" => usage # "seen"

\* A deadline that elapsed, at once or later, never launches anything.
NoLaunchAfterDeadline ==
    [][child = "none" /\ child' # "none" => outcome = "none" /\ timer = "armed"]_vars

\* A late observation never replaces the outcome, nor a late outcome the
\* verdict.
OutcomeIsFinal ==
    [][/\ outcome # "none" => outcome' = outcome
       /\ verdict # "none" => verdict' = verdict]_vars

\* The caller always gets a verdict, even from a child that never answers.
CallReturns == <>(verdict # "none")

\* A child that was told to terminate ends, even if it ignores SIGTERM
\* (claude-runtime-contract.test.ts:138).
TerminatedChildEnds == killTimer ~> child = "exited"
=============================================================================
