-------------------------- MODULE MCSequencedWriter --------------------------
(***************************************************************************)
(* Instances of SequencedWriter for TLC.                                   *)
(***************************************************************************)
EXTENDS SequencedWriter, TLC

Symmetry == Permutations(Procs) \cup Permutations(Reasons)
=============================================================================
