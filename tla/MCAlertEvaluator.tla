--------------------------- MODULE MCAlertEvaluator ---------------------------
(* Instances of AlertEvaluator for TLC: one asset, one rule.               *)
EXTENDS AlertEvaluator, TLC

CONSTANTS p1, p2, cpu

OneReplica == {p1}
TwoReplicas == {p1, p2}
OneRule == {cpu}
Swap == Permutations(TwoReplicas)
==============================================================================
