-------------------------- MODULE MCCorrugatorPlan --------------------------
(* CorrugatorPlan for TLC: two concurrent requests, two solves.            *)
EXTENDS CorrugatorPlan, TLC

Symmetry == Permutations(Clients) \cup Permutations(Runs)
=============================================================================
