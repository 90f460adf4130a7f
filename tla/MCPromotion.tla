----------------------------- MODULE MCPromotion -----------------------------
(* Constants for model-checking Promotion: two environments, two keys.       *)
EXTENDS Promotion, TLC

CONSTANTS editor, dev, prod, k1, k2, s1, s2, s3, s4, s5

MCRole == editor :> "member"
MCEnvRank == dev :> 0 @@ prod :> 10
MCKeyRank == [k \in Key |-> IF k = k1 THEN 1 ELSE 2]

\* The initial states differ in which of the seeded secrets is which; one order
\* of them stands for all.  Liveness rules out a SYMMETRY instead.
Place(s) == EnvRank[secrets[s].env] * 10 + KeyRank[secrets[s].key]
Ordered == Place(s1) < Place(s2) /\ Place(s2) < Place(s3)

MCInit == PromotionInit /\ Ordered
MCSpec == MCInit /\ [][PromotionNext]_allVars /\ PromotionFairness
=============================================================================
