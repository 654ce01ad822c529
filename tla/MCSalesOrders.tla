---------------------------- MODULE MCSalesOrders ----------------------------
(* SalesOrders for TLC: it takes two production orders to cover an order.  *)
EXTENDS SalesOrders, FiniteSets, TLC

MCCovering == {<<s, os>> \in Sales \X SUBSET Ops : Cardinality(os) >= 2}
Symmetry == Permutations(Ops) \cup Permutations(Requests)
=============================================================================
