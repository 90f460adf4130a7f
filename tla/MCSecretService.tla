--------------------------- MODULE MCSecretService ---------------------------
(* Constants for model-checking SecretService.                              *)
EXTENDS SecretService, TLC

CONSTANTS editor, reader

MCRole == editor :> "member" @@ reader :> "viewer"

\* Requests are interchangeable, and so are the ids not in use at the start
\* and the values.
Symmetry == Permutations(Request) \cup Permutations(Secret \ Seeded)
              \cup Permutations(Value)
=============================================================================
