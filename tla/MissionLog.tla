------------------------------ MODULE MissionLog ------------------------------
(***************************************************************************)
(* What the writers of one mission's events.jsonl promise their callers: a *)
(* log that only grows, one numbered event at a time, in which a stable id *)
(* names one event and a validated event is judged by the very log it is   *)
(* appended to.  SequencedWriter is shown to implement it, and             *)
(* MissionLifecycle is written against it.                                 *)
(***************************************************************************)
EXTENDS Integers, Sequences

CONSTANTS
    Stable(_),          \* whether an event's id is stable and its draft validated
    Admits(_, _),       \* whether a log admits a draft
    FirstLogs           \* the logs a mission may begin with

VARIABLE events

Taken(id) == \E i \in DOMAIN events : events[i].id = id

Recorded(e) ==
    /\ e.seq = Len(events) + 1
    /\ ~Taken(e.id)
    /\ Stable(e) => Admits(events, e.draft)

\* The log grows by the one event that was just recorded.
Record ==
    /\ Len(events') = Len(events) + 1
    /\ events' = Append(events, events'[Len(events')])
    /\ Recorded(events'[Len(events')])

Spec == events \in FirstLogs /\ [][Record]_events
=============================================================================
