CONSTANTS
    Hooks = {h1, h2, h3}
    Inodes = {i1, i2, i3, i4}
    MaxGenerations = 1
    MaxClock = 3
    Suspends = FALSE
SPECIFICATION Spec
SYMMETRY Symmetry
INVARIANT OneHolder
PROPERTY MergeSpec
PROPERTY LoneCallRecovers
CHECK_DEADLOCK FALSE
