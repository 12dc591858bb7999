CONSTANTS
    Procs = {p1, p2}
    MaxCalls = 1
    MaxSize = 6
    LockAttempts = 2
    Reasons = {r1, r2}
    LocksAge = "orphaned"
SPECIFICATION FairSpec
INVARIANT WriterIsAlone
INVARIANT EventsReadable
 
PROPERTY LogSpec
PROPERTY CallsEnd
CHECK_DEADLOCK FALSE
