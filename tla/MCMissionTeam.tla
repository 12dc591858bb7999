----------------------------- MODULE MCMissionTeam -----------------------------
EXTENDS MissionTeam

CONSTANT f          \* a finding

\* A review raises the finding, or resolves it.
MCReports ==
    {[raised |-> {f}, resolved |-> {}, unresolved |-> {}],
     [raised |-> {}, resolved |-> {f}, unresolved |-> {}]}

\* The inputs of a review change once.
CONSTANTS i1, i2
MCInputs == <<i1, i2>>

\* A closed mission is not followed, since nothing is written to its log any
\* more, and one that somebody has committed to or verified only up to this
\* many events.  A commit and a change of the inputs are not followed together.
MaxDisturbedEvents == 11
Explored ==
    /\ Open(log)
    /\ head > 0 \/ Places(log, "evidence") # {} => Len(log) < MaxDisturbedEvents
    /\ head = 0 \/ inputs = 1
=============================================================================
