--------------------------- MODULE MissionReducer ---------------------------
(***************************************************************************)
(* The pure mission history of packages/void-machine/src/core/mission.ts:  *)
(* the reducer that turns a sequence of recorded events into the one       *)
(* position a process may act from.  Steps are the indices of the list     *)
(* `steps` of a mission description (the code requires 1 to 8 distinct     *)
(* names); values, issues and configuration are not part of the position   *)
(* and are left out.                                                       *)
(***************************************************************************)
EXTENDS Integers, Sequences, SequencesExt

CONSTANTS
    StepCount,          \* steps.length
    MissionEventLimit   \* MISSION_EVENT_LIMIT: the longest readable history

ASSUME StepCountAssumption == StepCount \in 1..8
ASSUME EventLimitAssumption == MissionEventLimit \in Nat \ {0}

Steps == 1..StepCount

EventKinds == {"started", "dispatched", "accepted", "completed", "stopped",
               "unconfirmed", "cancelled", "cancel-requested", "abandoned",
               "rejected", "discarded"}

StateKinds == {"dispatch", "in-flight", "unknown", "cancel-requested",
               "abandoned", "discarded", "settled", "invalid"}

\* A reducer state; "settled" and "invalid" carry no step (0).
States == [kind : StateKinds, step : 0..StepCount]

At(kind, step) == [kind |-> kind, step |-> step]
Settled == At("settled", 0)
Invalid == At("invalid", 0)

\* The state after events[0], which must be "started".
Opened == At("dispatch", 1)

(***************************************************************************)
(* transition(state, event, steps): each event kind is legal from the      *)
(* listed states of its own step only.  "completed" carries no step in the *)
(* code, which compares the index with the last step; here its step is     *)
(* StepCount.                                                              *)
(***************************************************************************)
Admits(state, event) ==
    /\ event.step = state.step
    /\ \/ event.kind \in {"dispatched", "cancelled"} /\ state.kind = "dispatch"
       \/ event.kind = "accepted" /\ state.kind = "in-flight" /\ state.step < StepCount
       \/ event.kind = "completed" /\ state.kind = "in-flight" /\ state.step = StepCount
       \/ event.kind \in {"stopped", "rejected", "unconfirmed"} /\ state.kind = "in-flight"
       \/ event.kind = "cancel-requested" /\ state.kind \in {"in-flight", "unknown"}
       \/ event.kind = "discarded" /\ state.kind \in {"cancel-requested", "abandoned"}
       \/ /\ event.kind = "abandoned"
          /\ state.kind \in {"in-flight", "unknown", "cancel-requested"}

Target(event) ==
    CASE event.kind = "dispatched"  -> At("in-flight", event.step)
      [] event.kind = "accepted"    -> At("dispatch", event.step + 1)
      [] event.kind = "unconfirmed" -> At("unknown", event.step)
      [] event.kind \in {"cancel-requested", "discarded", "abandoned"}
                                    -> At(event.kind, event.step)
      [] OTHER                      -> Settled

Transition(state, event) ==
    IF Admits(state, event) THEN Target(event) ELSE Invalid

(***************************************************************************)
(* missionPosition(events, steps): the fold of the history, and what a     *)
(* state means to a process that reads it.  An in-flight step is unknown   *)
(* to every reader: a dispatch intent without an outcome is never replayed.*)
(***************************************************************************)
ReducedKeepsFirst(events) ==
    IF events = << >> \/ Len(events) > MissionEventLimit THEN Invalid
    ELSE FoldLeft(Transition, Opened, events)

Reduced(events) ==
    IF events = << >> \/ Len(events) > MissionEventLimit THEN Invalid
    ELSE IF events[1].kind # "started" THEN Invalid
    ELSE LET after[n \in 1..Len(events)] ==
                 IF n = 1 THEN Opened ELSE Transition(after[n - 1], events[n])
         IN  after[Len(events)]

PositionReplays(state) ==
    CASE state.kind = "in-flight" -> At("dispatch", state.step)
      [] state.kind \in {"discarded", "abandoned"} -> Settled
      [] OTHER -> state

Position(state) ==
    CASE state.kind = "in-flight" -> At("unknown", state.step)
      [] state.kind \in {"discarded", "abandoned"} -> Settled
      [] OTHER -> state
=============================================================================
