------------------------------- MODULE MCAuth -------------------------------
EXTENDS Auth, TLC

CONSTANTS c1, c2, c3, c4, p1, p2

(* Two calls that make or enter an account, then one more of them, or one  *)
(* that creates a campaign, and one that does create one: the calls are    *)
(* told apart by what they ask, so their names need not be permuted.       *)
MCInit ==
  /\ Init
  /\ call[c1].kind = "register"
  /\ call[c2].kind = "login"
  /\ call[c4].kind = "create"
  /\ call[c4].server = "express"
  /\ call[c1].password = p1
  /\ \A c \in Calls : call[c].kind = "create" =>
       call[c].password = p1 /\ call[c].email = AdminEmail
MCSpec == MCInit /\ [][Next]_vars /\ \A c \in Calls : WF_vars(Expire(c))
=============================================================================
