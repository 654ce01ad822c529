--------------------------- MODULE MCNodeFilesRuns ---------------------------
(* NodeFilesRuns for TLC: a run in each of two companies, the second one's *)
(* under review; two processes, one of which may die.                      *)
EXTENDS NodeFilesRuns

MCCompanies == <<1, 2>>
MCCompanyOf == [r \in Runs |-> r]
=============================================================================
