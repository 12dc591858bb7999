CONSTANTS
    Procs = {p1, p2, p3}
    Contracts = {c1, c2}
    StepCount = 2
    MissionEventLimit = 32
    MaxRecords = 16
    PowerLossAllowed = FALSE
SPECIFICATION Spec
SYMMETRY Symmetry
VIEW View
INVARIANT ReducerAgreement
INVARIANT AtMostOneLaunch
INVARIANT ConfirmedCancelIsQuiet
INVARIANT ReceiptStands
INVARIANT CostAccounted
PROPERTY LedgerSpec
CHECK_DEADLOCK FALSE
