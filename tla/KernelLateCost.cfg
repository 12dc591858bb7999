CONSTANTS
    Procs = {p1, p2, p3}
    Contracts = {c1}
    StepCount = 1
    MissionEventLimit = 32
    MaxRecords = 16
    PowerLossAllowed = FALSE
SPECIFICATION Spec
SYMMETRY Symmetry
VIEW View
INVARIANT LateCostKept
CHECK_DEADLOCK FALSE
