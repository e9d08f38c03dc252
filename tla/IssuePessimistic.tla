-------------------------- MODULE IssuePessimistic --------------------------
(***************************************************************************)
(* services/issue.pessimistic.ts: one interactive transaction that locks   *)
(* the Campaign row, checks it, inserts the coupon and increments.         *)
(*                                                                         *)
(* What a transaction has written is seen by nobody else until it commits, *)
(* so the steps before Commit move only the control point; Commit applies  *)
(* the insert and the increment together and releases the row.  Control    *)
(* points: "lock" before SELECT ... FOR UPDATE, "insert" before            *)
(* tx.coupon.create, "increment" before tx.campaign.update, and before the *)
(* COMMIT that follows the callback: "commitIssued" after both writes,     *)
(* "commitSoldOut" after neither, "commitRepeat" after the insert failed.  *)
(***************************************************************************)
EXTENDS CouponDb

Locked == {"insert", "increment", "commitIssued", "commitSoldOut", "commitRepeat"}
Labels == {"lock"} \cup Locked

(* prisma.$transaction: BEGIN                                              *)
Begin(r) ==
  /\ pc[r] = "start"
  /\ Resolve(r, "lock")
  /\ UNCHANGED dbVars

(* Mutant of Lock: the SELECT without FOR UPDATE.                          *)
LockShared(r) ==
  /\ pc[r] = "lock"
  /\ IF origin = "none"
     THEN Resolve(r, "NOT_FOUND") /\ UNCHANGED dbVars
     ELSE /\ Resolve(r, IF issuedCount >= TotalStock THEN "commitSoldOut" ELSE "insert")
          /\ UNCHANGED dbVars

(* Mutant of Lock: the last coupon is never handed out.                    *)
LockOneLess(r) ==
  /\ pc[r] = "lock"
  /\ rowLock = NoOne
  /\ rowLock' = r
  /\ Resolve(r, IF issuedCount >= TotalStock - 1 THEN "commitSoldOut" ELSE "insert")
  /\ UNCHANGED <<origin, issuedCount, version, coupons>>

(* SELECT ... FOR UPDATE waits for the row; when there is none it does not *)
(* wait, and the callback throws.                                          *)
Lock(r) ==
  /\ pc[r] = "lock"
  /\ IF origin = "none"
     THEN Resolve(r, "NOT_FOUND") /\ UNCHANGED dbVars
     ELSE /\ rowLock = NoOne
          /\ rowLock' = r
          /\ Resolve(r, IF issuedCount >= TotalStock THEN "commitSoldOut" ELSE "insert")
          /\ UNCHANGED <<origin, issuedCount, version, coupons>>

(* tx.coupon.create: a unique violation is caught, the callback returns.   *)
Insert(r) ==
  /\ pc[r] = "insert"
  /\ MayWrite(r)
  /\ Resolve(r, IF Duplicate(r) THEN "commitRepeat" ELSE "increment")
  /\ UNCHANGED dbVars

Increment(r) ==
  /\ pc[r] = "increment"
  /\ MayWrite(r)
  /\ Resolve(r, "commitIssued")
  /\ UNCHANGED dbVars

(* Mutant of CommitIssued: the increment left out of the transaction.      *)
CommitUncounted(r) ==
  /\ pc[r] = "commitIssued"
  /\ coupons' = coupons \cup {r}
  /\ rowLock' = NoOne
  /\ Settle(r, "ISSUED", "ERROR")
  /\ UNCHANGED <<origin, issuedCount, version>>

CommitIssued(r) ==
  /\ pc[r] = "commitIssued"
  /\ coupons' = coupons \cup {r}
  /\ issuedCount' = issuedCount + 1
  /\ rowLock' = NoOne
  /\ Settle(r, "ISSUED", "ERROR")
  /\ UNCHANGED <<origin, version>>

(* COMMIT of a transaction that wrote nothing, or that the failed insert   *)
(* had aborted and PostgreSQL rolls back: only the lock goes.              *)
CommitRefusal(r) ==
  /\ pc[r] \in {"commitSoldOut", "commitRepeat"}
  /\ rowLock' = NoOne
  /\ Settle(r, IF pc[r] = "commitSoldOut" THEN "SOLD_OUT" ELSE "ALREADY_ISSUED",
            "ERROR")
  /\ UNCHANGED <<origin, issuedCount, version, coupons>>

(* Mutant of Abort: the time limit leaves the row locked.                  *)
AbortKeepsLock(r) ==
  /\ InFlight(r)
  /\ rejects < MaxRejects
  /\ rejects' = rejects + 1
  /\ Goto(r, "ERROR")
  /\ UNCHANGED <<dbVars, lostAcks>>

(* A statement rejects, or the transaction outlives its time limit (waiting *)
(* for a connection or for the row counts): it is rolled back.             *)
Abort(r) ==
  /\ InFlight(r)
  /\ rejects < MaxRejects
  /\ rejects' = rejects + 1
  /\ Goto(r, "ERROR")
  /\ rowLock' = IF rowLock = r THEN NoOne ELSE rowLock
  /\ UNCHANGED <<origin, issuedCount, version, coupons, lostAcks>>

Step(r) ==
  \/ Begin(r)
  \/ Lock(r)
  \/ Insert(r)
  \/ Increment(r)
  \/ CommitIssued(r)
  \/ CommitRefusal(r)
  \/ Abort(r)

Next ==
  \/ CreateCampaign
  \/ ServerStops
  \/ \E r \in Requests : Step(r)
  \/ AllEnded

Init == DbInit
Spec == Init /\ [][Next]_couponDbVars

(* A statement the database can execute is executed: the event loop and    *)
(* the connection make progress.  No request has to be sent, and nothing   *)
(* has to fail.                                                            *)
Progress(r) ==
  \/ Lock(r)
  \/ Insert(r)
  \/ Increment(r)
  \/ CommitIssued(r)
  \/ CommitRefusal(r)
FairSpec == Spec /\ \A r \in Requests : WF_couponDbVars(Progress(r))

-----------------------------------------------------------------------------
TypeOK == DbTypeOK(Labels)

(* The lock is held by exactly the request inside the critical section,    *)
(* and what it read there stays true until it commits                      *)
(* (issue.pessimistic.ts:17-40).                                           *)
LockProtects ==
  \A r \in Requests :
    /\ pc[r] \in Locked <=> rowLock = r
    /\ pc[r] \in {"insert", "increment", "commitIssued"} => issuedCount < TotalStock
    /\ pc[r] = "commitSoldOut" => issuedCount = TotalStock
    /\ pc[r] = "commitRepeat" => Duplicate(r)
    /\ pc[r] \in {"increment", "commitIssued"} => ~Duplicate(r)

(* In every state, after any failure, issuedCount is the number of coupons *)
(* and never above totalStock: insert and increment share a transaction    *)
(* (issue.pessimistic.ts:31-40).                                           *)
NeverDrifts ==
  /\ issuedCount = Cardinality(coupons)
  /\ issuedCount <= TotalStock

(* What the control points say about the coupon table.                     *)
ControlAgrees ==
  \A r \in Requests :
    /\ pc[r] \in Labels \cup {"start", "SOLD_OUT", "ALREADY_ISSUED", "NOT_FOUND"}
         => r \notin coupons
    /\ pc[r] = "ALREADY_ISSUED" => Duplicate(r)
    /\ pc[r] = "ISSUED" => r \in coupons

(* The inductive invariant.                                                *)
IInv == TypeOK /\ LockProtects /\ NeverDrifts /\ ControlAgrees

(* The pessimistic strategy implements the sale of exactly TotalStock      *)
(* coupons in which SOLD_OUT is only ever answered when all of them exist, *)
(* faults or no faults (docs/03-db-locking.md:45-48).                      *)
Sale == INSTANCE CouponSale WITH
  winners <- coupons,
  answer <- [r \in Requests |-> IF pc[r] \in Answers THEN pc[r] ELSE "none"],
  Stock <- TotalStock,
  ExactRefusal <- TRUE
ImplementsSale == Sale!Spec

(* A request that has entered the transaction is not left waiting for the  *)
(* row for ever: whoever holds it commits, aborts or dies                  *)
(* (issue.pessimistic.ts:6-8).                                             *)
NobodyWaitsForever == \A r \in Requests : InFlight(r) ~> Ended(r)
=============================================================================
