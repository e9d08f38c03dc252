--------------------------- MODULE MCIssueAtomic ---------------------------
(* The atomic strategy on small instances.  Requests and users are         *)
(* interchangeable: the specification names none of them.                  *)
EXTENDS IssueAtomic, TLC

Symmetry == Permutations(Requests) \cup Permutations(Users)
=============================================================================
