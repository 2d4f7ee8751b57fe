--------------------------- MODULE MCQualification ---------------------------
(***************************************************************************)
(* Two processes and two materials, so that a change back is possible.     *)
(***************************************************************************)
EXTENDS Qualification, TLC

Symmetry == Permutations(Procs) \cup Permutations(Materials)
=============================================================================
