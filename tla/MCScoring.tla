----------------------------- MODULE MCScoring -----------------------------
(***************************************************************************)
(* Scoring with the weights of the code, in millionths.  The counts of a   *)
(* repository lie on both sides of the thresholds of 4 commits and 2       *)
(* contributors, and on both sides of a page of 2.                         *)
(***************************************************************************)
EXTENDS Scoring

MCTruths == [commits : {0, 3, 4, 5}, contributors : {1, 2, 3}, licensed : BOOLEAN]

MCWeights ==
  [f \in Features |-> CASE f = "commit_cadence_30d" -> 93318
                        [] f = "contributor_count"  -> 16129
                        [] f = "has_license"        -> 9649]
=============================================================================
