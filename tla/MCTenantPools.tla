--------------------------- MODULE MCTenantPools ---------------------------
(* TenantPools for TLC: up to two dedicated companies, of different pool   *)
(* sizes, and one shared-target company, on one server whose budget holds  *)
(* the larger pool or two of the smaller but not both companies' at once.  *)
EXTENDS TenantPools, TLC

CONSTANTS a, b, c, srv

MCServerOf == [t \in Tenants |-> srv]
MCPoolMax == [t \in Tenants |-> IF t = b THEN 2 ELSE 1]
MCBudget == [s \in Servers |-> 2]

Symmetry == Permutations(Requests) \cup Permutations(Pools)
=============================================================================
