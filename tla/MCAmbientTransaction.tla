------------------------ MODULE MCAmbientTransaction ------------------------
(* AmbientTransaction for TLC: core and a tenant's database, two statements *)
(* and one transaction of a DAO.                                            *)
EXTENDS AmbientTransaction
=============================================================================
