---------------------------- MODULE MCKeyRotation ----------------------------
(* Symmetry for model-checking KeyRotation.                                 *)
EXTENDS KeyRotation, TLC

Symmetry == Permutations(Rotator)
=============================================================================
