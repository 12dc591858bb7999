-------------------------- MODULE MCMissionLifecycle --------------------------
EXTENDS MissionLifecycle, TLC

\* Processes, and the values a request carries, are interchangeable.
Symmetric == Permutations(Procs) \cup Permutations(Dispositions) \cup Permutations(Actions)
=============================================================================
