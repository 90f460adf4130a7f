--------------------------- MODULE MCTokenService ---------------------------
(* Constants and symmetry for model-checking TokenService: a workspace that  *)
(* may get two projects and an environment beside the default ones.          *)
EXTENDS TokenService, TLC

CONSTANTS alice, bob, dev, prod, ci

MCRole == alice :> "owner" @@ bob :> "member"
MCKinds ==
    {[scopes |-> {"secrets:read"}, allow |-> {}, expires |-> TRUE],
     [scopes |-> {"secrets:read"}, allow |-> {ci}, expires |-> FALSE],
     [scopes |-> {"secrets:write"}, allow |-> {}, expires |-> FALSE]}

Symmetry == Permutations(Request) \cup Permutations(Project)
              \cup Permutations(Slug) \cup Permutations(DefaultEnvironments)
=============================================================================
