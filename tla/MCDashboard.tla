---------------------------- MODULE MCDashboard ----------------------------
EXTENDS Dashboard

CONSTANTS u1, u2, c1, c2, p1, p2

(* Two users and one campaign, where what one user sees must not reach the *)
(* other; one user and two campaigns, where clicks overlap; or one user    *)
(* and one campaign, for polls that overlap.                               *)
Overlapping == accounts = {u2}
MCInit ==
  /\ TabInit
  /\ \/ accounts = {u1, u2} /\ left = {c1}
     \/ accounts = {u1} /\ left = {c1, c2}
     \/ Overlapping /\ left = {c1}

(* The second poll and all but one change of stock are for the last.       *)
InBounds == Overlapping \/ (poll[p2].at = "idle" /\ changes <= 1)
MCSpec ==
  /\ MCInit /\ [][TabNext /\ InBounds']_tabVars
  /\ \A p \in Polls : WF_tabVars(PollStep(p) /\ InBounds')
=============================================================================
