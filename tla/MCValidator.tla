---------------------------- MODULE MCValidator ----------------------------
(* Instances of Validator for TLC.                                         *)
EXTENDS Validator, TLC

Symmetry ==
  Permutations(Procs) \cup Permutations(Keys) \cup Permutations(Exts)
=============================================================================
