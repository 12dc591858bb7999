SPECIFICATION Spec
CONSTANTS
    Procs = {p1}
    f = f
    Reports <- MCReports
    i1 = i1
    i2 = i2
    Inputs <- MCInputs
    MaxEvents = 20
    MaxCommits = 1
    MaxEvidence = 0
INVARIANT StopIsRecoverable
CHECK_DEADLOCK FALSE
