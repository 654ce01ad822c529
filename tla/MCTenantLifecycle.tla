-------------------------- MODULE MCTenantLifecycle --------------------------
(* TenantLifecycle for TLC: requests are interchangeable, and so are the   *)
(* servers, but not with each other.                                       *)
EXTENDS TenantLifecycle, TLC

Interchangeable == Permutations(Requests) \cup Permutations(Servers)
=============================================================================
