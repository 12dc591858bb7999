CONSTANTS
    Count = 3
    Depth = 2
SPECIFICATION Spec
INVARIANT AllOrPrevious
INVARIANT PreviousRecoverable
INVARIANT DirectoriesKept
CHECK_DEADLOCK FALSE
