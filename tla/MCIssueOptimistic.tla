-------------------------- MODULE MCIssueOptimistic --------------------------
(* The optimistic strategy on small instances.                             *)
EXTENDS IssueOptimistic, TLC

Symmetry == Permutations(Requests) \cup Permutations(Users)
=============================================================================
