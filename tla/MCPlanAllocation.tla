-------------------------- MODULE MCPlanAllocation --------------------------
(* PlanAllocation for TLC: two plans with a line of the same order, which   *)
(* needs two sheets and a half.                                             *)
EXTENDS PlanAllocation, TLC

TwoAndAHalf == [o \in Orders |-> 5]
TenPercent == [o \in Orders |-> 10]
ThirtyPercent == [o \in Orders |-> 30]
OneLine == {<<CHOOSE p \in Plans : TRUE, CHOOSE o \in Orders : TRUE>>}
Symmetry == Permutations(Requests)
=============================================================================
