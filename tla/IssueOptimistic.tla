-------------------------- MODULE IssueOptimistic --------------------------
(***************************************************************************)
(* services/issue.optimistic.ts: read the row with its version, then       *)
(* compare-and-swap on the version, again and again up to MAX_RETRY times; *)
(* the coupon is inserted after the swap and compensated as in the atomic  *)
(* strategy, without taking the version back.                              *)
(*                                                                         *)
(* Control points: "read" before the findUnique of a later attempt, "cas"  *)
(* before updateMany, "create" before coupon.create, "rollbackDup" and     *)
(* "rollbackError" before the decrement in the catch clause.               *)
(***************************************************************************)
EXTENDS CouponDb

CONSTANT MaxRetry     \* MAX_RETRY
ASSUME MaxRetryAssumption == MaxRetry \in Nat \ {0}

VARIABLES
  seen,          \* c.version of each request's last read
  attempt        \* the loop variable of each request

loopVars == <<seen, attempt>>
vars == <<couponDbVars, loopVars>>

Labels == {"read", "cas", "create", "rollbackDup", "rollbackError"}

Catches == [start         |-> "ERROR",
            read          |-> "ERROR",
            cas           |-> "ERROR",
            create        |-> "rollbackError",
            rollbackDup   |-> "ERROR",
            rollbackError |-> "ERROR"]

Init ==
  /\ DbInit
  /\ seen = [r \in Requests |-> 0]
  /\ attempt = [r \in Requests |-> 0]

(* findUnique and the check on what it returned.                           *)
Read(r) ==
  /\ pc[r] \in {"start", "read"}
  /\ Resolve(r, IF origin = "none" THEN "NOT_FOUND"
                ELSE IF issuedCount >= TotalStock THEN "SOLD_OUT"
                ELSE "cas")
  /\ seen' = [seen EXCEPT ![r] = version]
  /\ UNCHANGED <<dbVars, attempt>>

(* Mutant of Swap: the version left out of the WHERE clause.               *)
SwapUnconditional(r) ==
  /\ pc[r] = "cas"
  /\ MayWrite(r)
  /\ issuedCount' = issuedCount + 1
  /\ version' = version + 1
  /\ Settle(r, "create", "ERROR")
  /\ UNCHANGED <<origin, coupons, rowLock, loopVars>>

(* updateMany where version = c.version: one row is updated ...            *)
Swap(r) ==
  /\ pc[r] = "cas"
  /\ MayWrite(r)
  /\ version = seen[r]
  /\ issuedCount' = issuedCount + 1
  /\ version' = version + 1
  /\ Settle(r, "create", "ERROR")
  /\ UNCHANGED <<origin, coupons, rowLock, loopVars>>

(* Mutant of Retry: the loop bound off by one.                             *)
RetryOneLess(r) ==
  /\ pc[r] = "cas"
  /\ version # seen[r]
  /\ attempt' = [attempt EXCEPT ![r] = @ + 1]
  /\ Resolve(r, IF attempt'[r] < MaxRetry - 1 THEN "read" ELSE "RETRY_EXHAUSTED")
  /\ UNCHANGED <<dbVars, seen>>

(* ... or none, without waiting for the row, and the loop goes on or runs  *)
(* out.                                                                    *)
Retry(r) ==
  /\ pc[r] = "cas"
  /\ version # seen[r]
  /\ attempt' = [attempt EXCEPT ![r] = @ + 1]
  /\ Resolve(r, IF attempt'[r] < MaxRetry THEN "read" ELSE "RETRY_EXHAUSTED")
  /\ UNCHANGED <<dbVars, seen>>

Create(r) ==
  /\ pc[r] = "create"
  /\ \/ InsertCoupon(r) /\ Settle(r, "ISSUED", "rollbackError")
     \/ Duplicate(r) /\ Resolve(r, "rollbackDup") /\ UNCHANGED dbVars
  /\ UNCHANGED loopVars

(* Mutant of Rollback: the version goes back with the count, which the     *)
(* comment in the code warns against.                                      *)
RollbackVersion(r) ==
  /\ pc[r] \in {"rollbackDup", "rollbackError"}
  /\ issuedCount' = issuedCount - 1
  /\ version' = version - 1
  /\ Settle(r, IF pc[r] = "rollbackDup" THEN "ALREADY_ISSUED" ELSE "ERROR",
            "ERROR")
  /\ UNCHANGED <<origin, coupons, rowLock, loopVars>>

(* Mutant of Rollback: any error called a repeat.                          *)
RollbackAnyError(r) ==
  /\ pc[r] \in {"rollbackDup", "rollbackError"}
  /\ AddIssued(r, -1)
  /\ Settle(r, "ALREADY_ISSUED", "ERROR")
  /\ UNCHANGED loopVars

(* The catch clause: decrement by id, then rethrow or ALREADY_ISSUED.      *)
Rollback(r) ==
  /\ pc[r] \in {"rollbackDup", "rollbackError"}
  /\ AddIssued(r, -1)
  /\ Settle(r, IF pc[r] = "rollbackDup" THEN "ALREADY_ISSUED" ELSE "ERROR",
            "ERROR")
  /\ UNCHANGED loopVars

Step(r) ==
  \/ Read(r)
  \/ Swap(r)
  \/ Retry(r)
  \/ Create(r)
  \/ Rollback(r)
  \/ Reject(r, Catches) /\ UNCHANGED loopVars

Next ==
  \/ CreateCampaign /\ UNCHANGED loopVars
  \/ ServerStops /\ UNCHANGED loopVars
  \/ \E r \in Requests : Step(r)
  \/ AllEnded /\ UNCHANGED loopVars

Spec == Init /\ [][Next]_vars

-----------------------------------------------------------------------------
TypeOK ==
  /\ DbTypeOK(Labels)
  /\ rowLock = NoOne
  /\ seen \in [Requests -> Nat]
  /\ attempt \in [Requests -> 0 .. MaxRetry]

Holding == At({"create", "rollbackDup", "rollbackError"})

(* A compare-and-swap that can still succeed was read when there was stock *)
(* and there is stock now: the version has moved whenever the count has    *)
(* gone up, and a rollback only lowers the count                           *)
(* (issue.optimistic.ts:19-27, 38-43).                                     *)
SwapIsSafe ==
  \A r \in Requests :
    /\ seen[r] <= version
    /\ pc[r] = "cas" /\ seen[r] = version => issuedCount < TotalStock

(* The accounting of slots and coupons, as for the atomic strategy.        *)
SlotsCounted ==
  /\ issuedCount <= TotalStock
  /\ issuedCount >= Cardinality(Holding)
  /\ Cardinality(coupons) + Cardinality(Holding) <= issuedCount + lostAcks

(* Every failed attempt of a request was paid for by another request's     *)
(* successful one, so RETRY_EXHAUSTED is answered only after MaxRetry      *)
(* others got through: the loop is lock-free (issue.optimistic.ts:18-29,   *)
(* 55).                                                                    *)
RetriesArePaidFor ==
  \A r \in Requests :
    /\ pc[r] = "cas" => attempt[r] <= seen[r]
    /\ attempt[r] <= version
    /\ pc[r] = "RETRY_EXHAUSTED" => version >= MaxRetry

(* What the control points say about the coupon table.                     *)
ControlAgrees ==
  \A r \in Requests :
    /\ pc[r] \in {"start", "read", "cas", "create", "rollbackDup", "SOLD_OUT",
                  "ALREADY_ISSUED", "NOT_FOUND", "RETRY_EXHAUSTED"} => r \notin coupons
    /\ pc[r] \in {"rollbackDup", "ALREADY_ISSUED"} => Duplicate(r)
    /\ pc[r] = "ISSUED" => r \in coupons

(* The inductive invariant.                                                *)
IInv == TypeOK /\ SwapIsSafe /\ SlotsCounted /\ RetriesArePaidFor /\ ControlAgrees

(* The optimistic strategy implements the sale, widened like the atomic    *)
(* one by the acknowledgements that may be lost.                           *)
Sale == INSTANCE CouponSale WITH
  winners <- coupons,
  answer <- [r \in Requests |-> IF pc[r] \in Answers THEN pc[r] ELSE "none"],
  Stock <- TotalStock + MaxLostAcks,
  ExactRefusal <- FALSE
ImplementsSale == Sale!Spec
=============================================================================
