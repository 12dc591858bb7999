--------------------------- MODULE MissionEpisodes ---------------------------
(***************************************************************************)
(* What a mission's event log tells of its life, without processes: the    *)
(* mission runs in episodes; each ends in one closure, for one reason; only *)
(* an episode the controller stopped is followed by another, and only once *)
(* the lead writer has worked since the recovery before.                   *)
(* MissionLifecycle is shown to implement it.                              *)
(***************************************************************************)
EXTENDS Integers

VARIABLES
    episode,    \* how often the mission was recovered
    reason,     \* why the current episode was closed, "none" while it is open
    worked      \* whether the lead writer completed something since the
                \* mission was last recovered

Init == episode = 0 /\ reason = "none" /\ worked = FALSE

Work == reason = "none" /\ worked' = TRUE /\ UNCHANGED <<episode, reason>>

Close ==
    /\ reason = "none"
    /\ reason' \in {"completed", "controller-stop", "interrupted", "abandoned"}
    /\ UNCHANGED <<episode, worked>>

Recover ==
    /\ reason = "controller-stop"
    /\ episode > 0 => worked
    /\ episode' = episode + 1 /\ reason' = "none" /\ worked' = FALSE

Spec == Init /\ [][Work \/ Close \/ Recover]_<<episode, reason, worked>>
=============================================================================
