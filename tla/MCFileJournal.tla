---------------------------- MODULE MCFileJournal ----------------------------
(***************************************************************************)
(* Instances of FileJournal for TLC.                                       *)
(***************************************************************************)
EXTENDS FileJournal, TLC

Symmetry == Permutations(Procs)

\* No step and no property reads `answer`; `held` and `granted` record what
\* the answers meant.
View == <<files, pc, held, seen, granted>>
=============================================================================
