---------------------------- MODULE MCMembership ----------------------------
(* Symmetry for model-checking Membership.                                  *)
EXTENDS Membership, TLC

Symmetry == Permutations(User) \cup Permutations(Slot)
=============================================================================
