---------------------------- MODULE IssueAtomic ----------------------------
(***************************************************************************)
(* services/issue.atomic.ts: check and increment are one conditional       *)
(* UPDATE, the coupon row is a second statement, and a failed insert is    *)
(* compensated by a third that gives the slot back.                        *)
(*                                                                         *)
(* Control points: "reserve" before $executeRaw, "create" before           *)
(* coupon.create, "rollbackDup" and "rollbackError" before the decrement   *)
(* in the catch clause, which remembers what kind of error it caught.      *)
(***************************************************************************)
EXTENDS CouponDb

Labels == {"reserve", "create", "rollbackDup", "rollbackError"}

Catches == [start         |-> "ERROR",
            reserve       |-> "ERROR",
            create        |-> "rollbackError",
            rollbackDup   |-> "ERROR",
            rollbackError |-> "ERROR"]

Lookup(r) == FindCampaign(r, "reserve")

(* Mutants of Reserve: the comparison off by one in either direction, and  *)
(* the check taken out of the UPDATE's WHERE clause.                       *)
ReserveOneMore(r) ==
  /\ pc[r] = "reserve"
  /\ IF issuedCount <= TotalStock
     THEN AddIssued(r, 1) /\ Settle(r, "create", "ERROR")
     ELSE Resolve(r, "SOLD_OUT") /\ UNCHANGED dbVars
ReserveOneLess(r) ==
  /\ pc[r] = "reserve"
  /\ IF issuedCount < TotalStock - 1
     THEN AddIssued(r, 1) /\ Settle(r, "create", "ERROR")
     ELSE Resolve(r, "SOLD_OUT") /\ UNCHANGED dbVars

(* UPDATE ... SET issuedCount + 1 WHERE issuedCount < totalStock.  Where   *)
(* the committed row does not match there is no row to wait for.           *)
Reserve(r) ==
  /\ pc[r] = "reserve"
  /\ IF issuedCount < TotalStock
     THEN AddIssued(r, 1) /\ Settle(r, "create", "ERROR")
     ELSE Resolve(r, "SOLD_OUT") /\ UNCHANGED dbVars

(* Mutant of Create: a repeated request is told so without the catch       *)
(* clause giving its slot back.                                            *)
CreateKeepsSlot(r) ==
  /\ pc[r] = "create"
  /\ \/ InsertCoupon(r) /\ Settle(r, "ISSUED", "rollbackError")
     \/ Duplicate(r) /\ Resolve(r, "ALREADY_ISSUED") /\ UNCHANGED dbVars

Create(r) ==
  /\ pc[r] = "create"
  /\ \/ InsertCoupon(r) /\ Settle(r, "ISSUED", "rollbackError")
     \/ Duplicate(r) /\ Resolve(r, "rollbackDup") /\ UNCHANGED dbVars

(* Mutant of Rollback: the catch clause answers ALREADY_ISSUED whatever it *)
(* caught, as issue.naive.ts does.                                         *)
RollbackAnyError(r) ==
  /\ pc[r] \in {"rollbackDup", "rollbackError"}
  /\ AddIssued(r, -1)
  /\ Settle(r, "ALREADY_ISSUED", "ERROR")

(* The catch clause: decrement, then rethrow or ALREADY_ISSUED.            *)
Rollback(r) ==
  /\ pc[r] \in {"rollbackDup", "rollbackError"}
  /\ AddIssued(r, -1)
  /\ Settle(r, IF pc[r] = "rollbackDup" THEN "ALREADY_ISSUED" ELSE "ERROR",
            "ERROR")

Step(r) ==
  \/ Lookup(r)
  \/ Reserve(r)
  \/ Create(r)
  \/ Rollback(r)
  \/ Reject(r, Catches)

Next ==
  \/ CreateCampaign
  \/ ServerStops
  \/ \E r \in Requests : Step(r)
  \/ AllEnded

Init == DbInit
Spec == Init /\ [][Next]_couponDbVars

-----------------------------------------------------------------------------
(* The requests that hold a slot and have not answered yet.                *)
Holding == At({"create", "rollbackDup", "rollbackError"})

(* Every variable stays in its type; the row lock is never taken.          *)
TypeOK == DbTypeOK(Labels) /\ rowLock = NoOne

(* The conditional UPDATE keeps issuedCount between the slots still held   *)
(* and totalStock, whatever the interleaving and however calls fail        *)
(* (issue.atomic.ts:22-29, 37-41).                                         *)
CounterBounded ==
  /\ issuedCount <= TotalStock
  /\ issuedCount >= Cardinality(Holding)

(* Every coupon and every slot in hand is counted in issuedCount, except   *)
(* that each create whose acknowledgement was lost is rolled back although *)
(* its coupon exists, which uncounts one (issue.atomic.ts:31-43).          *)
SlotsCounted ==
  Cardinality(coupons) + Cardinality(Holding) <= issuedCount + lostAcks

(* The sale oversells by at most the number of lost acknowledgements, and  *)
(* not at all when there were none (docs/03-db-locking.md:45-48).          *)
NotOversold == Cardinality(coupons) <= TotalStock + lostAcks

(* What the control points say about the coupon table: a request that has  *)
(* not inserted has no row, one that was refused as a repeat stays one.    *)
ControlAgrees ==
  \A r \in Requests :
    /\ pc[r] \in {"start", "reserve", "create", "rollbackDup",
                  "ALREADY_ISSUED", "SOLD_OUT", "NOT_FOUND"} => r \notin coupons
    /\ pc[r] \in {"rollbackDup", "ALREADY_ISSUED"} => Duplicate(r)
    /\ pc[r] = "ISSUED" => r \in coupons

(* The inductive invariant: the accounting of slots and coupons together   *)
(* with what each control point knows (issue.atomic.ts:13-46).             *)
IInv == TypeOK /\ CounterBounded /\ SlotsCounted /\ ControlAgrees

(* The atomic strategy implements the sale of TotalStock coupons, widened  *)
(* by the acknowledgements that may be lost; a refusal need not be final.  *)
Sale == INSTANCE CouponSale WITH
  winners <- coupons,
  answer <- [r \in Requests |-> IF pc[r] \in Answers THEN pc[r] ELSE "none"],
  Stock <- TotalStock + MaxLostAcks,
  ExactRefusal <- FALSE
ImplementsSale == Sale!Spec
=============================================================================
