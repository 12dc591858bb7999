--------------------------- MODULE MCContinuityLock ---------------------------
(***************************************************************************)
(* Instances of ContinuityLock for TLC.                                    *)
(***************************************************************************)
EXTENDS ContinuityLock

Symmetry == Permutations(Hooks) \cup Permutations(Inodes)
=============================================================================
