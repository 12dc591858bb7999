CONSTANTS
    Procs = {p1, p2, p3}
    MaxCalls = 1
    MaxSize = 6
    LockAttempts = 2
    Reasons = {r1}
    LocksAge = "orphaned"
SPECIFICATION Spec
SYMMETRY Symmetry
INVARIANT NoSequenceDuplicated
CHECK_DEADLOCK FALSE
