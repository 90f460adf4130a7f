--------------------------- MODULE MCRefreshSession ---------------------------
(* Symmetry for model-checking RefreshSession.                               *)
EXTENDS RefreshSession, TLC

Symmetry == Permutations(Token) \cup Permutations(Load)
=============================================================================
