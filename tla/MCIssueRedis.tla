---------------------------- MODULE MCIssueRedis ----------------------------
(* The redis and redis-lua strategies on small instances.                  *)
EXTENDS IssueRedis, TLC

Symmetry == Permutations(Requests) \cup Permutations(Users)
=============================================================================
