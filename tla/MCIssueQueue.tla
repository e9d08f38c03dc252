---------------------------- MODULE MCIssueQueue ----------------------------
EXTENDS IssueQueue

(* Who shares a userKey with whom is all that matters of userKey: one       *)
(* assignment for each way of sharing, instead of a symmetry set, which     *)
(* would not be sound for the liveness property.                            *)
SameSharing(f, g) == \A r, s \in Requests : f[r] = f[s] <=> g[r] = g[s]
Sharings ==
  {CHOOSE g \in [Requests -> Users] : SameSharing(f, g) : f \in [Requests -> Users]}

MCInit == userKey \in Sharings /\ Init
MCFairSpec ==
  MCInit /\ [][Next]_vars /\ \A w \in Workers : WF_vars(WorkerStep(w))
=============================================================================
