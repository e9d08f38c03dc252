--------------------------- MODULE MCIssueRouter ---------------------------
(* Every mixture of strategies on small instances.                         *)
EXTENDS IssueRouter, TLC

Symmetry == Permutations(Requests) \cup Permutations(Users)
=============================================================================
