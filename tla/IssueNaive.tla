---------------------------- MODULE IssueNaive ----------------------------
(***************************************************************************)
(* services/issue.naive.ts: read, check, increment, insert, each its own   *)
(* await.  It is meant to oversell (docs/02-race-condition.md); by how     *)
(* much it can, and what it still keeps, is stated in IssueRouter, which   *)
(* runs it alone and beside the others.                                    *)
(*                                                                         *)
(* Control points: "increment" before campaign.update, "create" before     *)
(* coupon.create, "rollback" before the decrement in the catch clause,     *)
(* which does not look at what it caught.                                  *)
(***************************************************************************)
EXTENDS CouponDb

Labels == {"increment", "create", "rollback"}

Catches == [start     |-> "ERROR",
            increment |-> "ERROR",
            create    |-> "rollback",
            rollback  |-> "ERROR"]

(* Mutant of Lookup: the check moved into the try block, throwing.         *)
LookupInTry(r) ==
  FindCampaign(r, IF issuedCount >= TotalStock THEN "rollback" ELSE "increment")

(* Mutant of Lookup: the check let through at the limit.                   *)
LookupOneMore(r) ==
  FindCampaign(r, IF issuedCount > TotalStock THEN "SOLD_OUT" ELSE "increment")

(* findUnique and the check on the value it returned.                      *)
Lookup(r) ==
  FindCampaign(r, IF issuedCount >= TotalStock THEN "SOLD_OUT" ELSE "increment")

Increment(r) ==
  /\ pc[r] = "increment"
  /\ AddIssued(r, 1)
  /\ Settle(r, "create", "ERROR")

Create(r) ==
  /\ pc[r] = "create"
  /\ \/ InsertCoupon(r) /\ Settle(r, "ISSUED", "rollback")
     \/ Duplicate(r) /\ Resolve(r, "rollback") /\ UNCHANGED dbVars

(* Mutant of Rollback: the count is not taken back.                        *)
RollbackNothing(r) ==
  /\ pc[r] = "rollback"
  /\ AddIssued(r, 0)
  /\ Settle(r, "ALREADY_ISSUED", "ERROR")

(* catch { decrement; return ALREADY_ISSUED }                              *)
Rollback(r) ==
  /\ pc[r] = "rollback"
  /\ AddIssued(r, -1)
  /\ Settle(r, "ALREADY_ISSUED", "ERROR")

Step(r) ==
  \/ Lookup(r)
  \/ Increment(r)
  \/ Create(r)
  \/ Rollback(r)
  \/ Reject(r, Catches)
=============================================================================
