SPECIFICATION Spec
CONSTANTS
    Procs = {p1, p2}
    Actions = {a1, a2}
    Dispositions = {d1}
    Observations = {o1}
    Reasons = {"controller-stop", "interrupted"}
    MaxEvents = 7
    MaxNotes = 1
SYMMETRY Symmetric
INVARIANT ReceiptsReproduce
INVARIANT ClosersAgree
INVARIANT WorkStaysInItsEpisode
PROPERTY EpisodeSpec
CHECK_DEADLOCK FALSE
