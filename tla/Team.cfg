SPECIFICATION Spec
CONSTANTS
    Procs = {p1}
    f = f
    Reports <- MCReports
    i1 = i1
    i2 = i2
    Inputs <- MCInputs
    MaxEvents = 30
    MaxCommits = 1
    MaxEvidence = 1
CONSTRAINT Explored
 
INVARIANT CorrectionHasCause
INVARIANT ImplementedOnce
INVARIANT CompletedWasReviewed
CHECK_DEADLOCK FALSE
