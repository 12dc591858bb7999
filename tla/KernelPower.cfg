CONSTANTS
    Procs = {p1, p2}
    Contracts = {c1}
    StepCount = 2
    MissionEventLimit = 32
    MaxRecords = 4
    PowerLossAllowed = TRUE
SPECIFICATION FairSpec
INVARIANT IInv
INVARIANT LaunchAfterAcceptance
INVARIANT OutcomeFits
PROPERTY CommandsReport
CHECK_DEADLOCK FALSE
