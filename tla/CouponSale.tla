----------------------------- MODULE CouponSale -----------------------------
(***************************************************************************)
(* What a first-come-first-served coupon sale promises, whichever strategy *)
(* of apps/server/src/services carries it out.  A request asks for one     *)
(* coupon of one campaign on behalf of one user; the sale hands out at     *)
(* most Stock coupons, at most one per user, never takes one back, and     *)
(* answers a request at most once and truthfully.                          *)
(*                                                                         *)
(* Every strategy module maps its own state onto this one (the coupon rows *)
(* onto winners, the control points that are answers onto answer) and is   *)
(* checked, or proved, to implement Spec.                                  *)
(***************************************************************************)
EXTENDS Naturals, FiniteSets

CONSTANTS
  Requests,      \* the requests that are ever made
  Users,         \* the users they are made for
  Stock,         \* the number of coupons that may be handed out
  ExactRefusal   \* TRUE: SOLD_OUT is answered only when nothing is left
                 \* FALSE: a request may be refused while another one is
                 \*        still holding a coupon it will give back

VARIABLES
  userKey,       \* the user of each request
  winners,       \* the requests whose coupon exists
  answer         \* what each request was told, "none" until it is told

vars == <<userKey, winners, answer>>

Served(r) == \E w \in winners : userKey[w] = userKey[r]

Init ==
  /\ userKey \in [Requests -> Users]
  /\ winners = {}
  /\ answer = [r \in Requests |-> "none"]

Tell(r, a) ==
  /\ answer[r] = "none"
  /\ answer' = [answer EXCEPT ![r] = a]
  /\ UNCHANGED userKey

(* A coupon comes into existence.  The requester learns it in the same     *)
(* step, later (Confirm), or, when the acknowledgement is lost, is told of *)
(* an error.                                                               *)
Grant(r) ==
  /\ answer[r] = "none"
  /\ ~Served(r)
  /\ Cardinality(winners) < Stock
  /\ winners' = winners \cup {r}
  /\ \/ UNCHANGED <<userKey, answer>>
     \/ \E a \in {"ISSUED", "ERROR"} : Tell(r, a)

Confirm(r) == r \in winners /\ Tell(r, "ISSUED") /\ UNCHANGED winners

RefuseRepeat(r) ==
  /\ r \notin winners
  /\ Served(r)
  /\ Tell(r, "ALREADY_ISSUED")
  /\ UNCHANGED winners

RefuseSoldOut(r) ==
  /\ r \notin winners
  /\ ExactRefusal => Cardinality(winners) = Stock
  /\ Tell(r, "SOLD_OUT")
  /\ UNCHANGED winners

GiveUp(r) ==
  /\ \E a \in {"ERROR", "NOT_FOUND", "RETRY_EXHAUSTED"} : Tell(r, a)
  /\ UNCHANGED winners

Next ==
  \E r \in Requests :
    \/ Grant(r)
    \/ Confirm(r)
    \/ RefuseRepeat(r)
    \/ RefuseSoldOut(r)
    \/ GiveUp(r)

Spec == Init /\ [][Next]_vars
=============================================================================
