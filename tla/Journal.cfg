CONSTANTS
    Procs = {p1, p2, p3}
    MaxRecords = 3
SPECIFICATION Spec
SYMMETRY Symmetry
VIEW View
INVARIANT HeldIsPrefix
INVARIANT GrantedPrefixDurable
PROPERTY JournalSpec
