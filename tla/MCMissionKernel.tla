-------------------------- MODULE MCMissionKernel --------------------------
(***************************************************************************)
(* Instances of MissionKernel for TLC.                                     *)
(***************************************************************************)
EXTENDS MissionRefinement, MissionInvariant

\* Processes are interchangeable, and so are the contracts of two binaries.
Symmetry == Permutations(Procs) \cup Permutations(Contracts)

(***************************************************************************)
(* What the properties and the remaining steps depend on.  A process that  *)
(* has ended no longer reads its locals, and no property tells the reasons *)
(* of a blocked receipt apart, "unreadable" excepted; a killed process     *)
(* counts as one that reported blocked.                                    *)
(***************************************************************************)
Ended(p) == pc[p] \in {"done", "dead"}

Live(f, other) == [p \in Procs |-> IF Ended(p) THEN other ELSE f[p]]

View ==
    <<log, synced, returned, launches, contract,
      Live(pc, "done"), Live(command, "none"), Live(known, 0), Live(attempt, 0),
      Live(stopAfter, 0), Live(pending, NoReceipt),
      [p \in Procs |-> IF \/ pc[p] = "dead"
                          \/ receipt[p].kind = "blocked" /\ receipt[p].detail # "unreadable"
                       THEN Blocked("") ELSE receipt[p]]>>
=============================================================================
