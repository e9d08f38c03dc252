---------------------------- MODULE MCIssueRoute ----------------------------
EXTENDS IssueRoute

CONSTANTS r1, r2, r3, u1, u2, k1

(* Requests r1 and r2 carry the same key: copies of one request, or        *)
(* requests of two users, or one of them with a bad body or strategy.  r3  *)
(* carries that key, another one or none.                                  *)
Scenario ==
  /\ key[r1] = k1 /\ key[r2] = k1
  /\ userKey[r1] = u1
  /\ form[r1] = "ok" /\ form[r3] = "ok"

MCInit == RouteInit /\ Scenario
MCSpec ==
  /\ MCInit /\ [][RouteNext]_allVars
  /\ WF_allVars(Elapse)
  /\ \A r \in Requests : WF_allVars(SetExpiry(r))
=============================================================================
