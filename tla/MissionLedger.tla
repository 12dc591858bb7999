---------------------------- MODULE MissionLedger ----------------------------
(***************************************************************************)
(* What the void-machine promises of one mission, whatever its processes   *)
(* do: a single history whose position moves along the reducer, and an     *)
(* executor that is called for a step at most once, only while the intent  *)
(* for that step is the latest undecided one, and whose outcome is         *)
(* recorded only if it was called.  There are no processes, revisions or   *)
(* conflicts here; MissionRefinement shows that MissionKernel implements   *)
(* it as long as the storage keeps what it linked.                         *)
(***************************************************************************)
EXTENDS MissionReducer

VARIABLES
    state,      \* the position of the history
    launched    \* how often each step was handed to an executor

Absent == At("invalid", 0)
lvars == <<state, launched>>

Init ==
    /\ state = Absent
    /\ launched = [s \in Steps |-> 0]

Create ==
    /\ state = Absent
    /\ state' = Opened
    /\ UNCHANGED launched

Record(kind) ==
    /\ LET event == [kind |-> kind, step |-> state.step]
       IN  Admits(state, event) /\ state' = Target(event)
    /\ UNCHANGED launched

\* The intent, and the decisions a person takes without an executor.
Intend == Record("dispatched")
CancelIdle == Record("cancelled")
RequestCancel == Record("cancel-requested")
Abandon == Record("abandoned")

\* The executor is called under an intent nobody has settled.
Launch ==
    /\ state.kind \in {"in-flight", "cancel-requested", "abandoned"}
    /\ launched[state.step] = 0
    /\ launched' = [launched EXCEPT ![state.step] = 1]
    /\ UNCHANGED state

\* Outcomes only an executor can have produced.
Answer ==
    /\ state.step > 0 /\ launched[state.step] = 1
    /\ \E kind \in {"accepted", "completed", "stopped", "unconfirmed"} : Record(kind)

\* A refusal, local or of a returned value, and the cost of a late result.
Reject == Record("rejected")
KeepCost == Record("discarded")

Next ==
    \/ Create \/ Intend \/ Launch \/ Answer \/ Reject
    \/ CancelIdle \/ RequestCancel \/ Abandon \/ KeepCost

Spec == Init /\ [][Next]_lvars
=============================================================================
