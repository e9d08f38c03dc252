---------------------------- MODULE IssueRedis ----------------------------
(***************************************************************************)
(* services/issue.redis.ts and issue.redisLua.ts: a slot is taken from the *)
(* Redis counter, the coupon row is inserted and issuedCount follows.  The *)
(* two differ in how they take the slot and may run against the same       *)
(* counter: each request takes one of Paths.                               *)
(*                                                                         *)
(* Control points: "decr" before redis.decr, "eval" before redis.eval,     *)
(* "create" before coupon.create, "count" before campaign.update,          *)
(* "giveBack" before the incr after a unique violation, "undo" before the  *)
(* incr after a negative DECR.                                             *)
(***************************************************************************)
EXTENDS RedisStock

CONSTANT Paths           \* how a slot is taken: "decr" (redis), "eval" (redis-lua)
ASSUME PathsAssumption == Paths \subseteq {"decr", "eval"}

VARIABLE stranded        \* history: DECRs below zero whose server died before the INCR

redisVars == <<stockVars, stranded>>
vars == <<couponDbVars, redisVars>>

Labels == {"decr", "eval", "create", "count", "giveBack", "undo"}

(* An error that is not a unique violation is rethrown: the slot stays     *)
(* taken, and a row that was inserted stays uncounted.                     *)
Catches == [start |-> "ERROR", create |-> "ERROR", count |-> "ERROR"]

Init == DbInit /\ StockInit /\ stranded = 0

Lookup(r) == (\E p \in Paths : FindCampaign(r, p)) /\ UNCHANGED redisVars

(* Mutant of TakeByDecr: the last slot is refused.                         *)
TakeByDecrStrict(r) ==
  /\ pc[r] = "decr"
  /\ stock' = stock - 1
  /\ Resolve(r, IF stock' > 0 THEN "create" ELSE "undo")
  /\ UNCHANGED <<dbVars, resent, stranded>>

TakeByDecr(r) ==
  /\ pc[r] = "decr"
  /\ Decr(r, "create", "undo")
  /\ UNCHANGED <<dbVars, stranded>>

(* Mutant of TakeByScript: GET and DECR without the test in between.       *)
TakeByScriptUntested(r) ==
  /\ pc[r] = "eval"
  /\ stock' = stock - 1
  /\ Resolve(r, IF stock > 0 THEN "create" ELSE "SOLD_OUT")
  /\ UNCHANGED <<dbVars, resent, stranded>>

TakeByScript(r) ==
  /\ pc[r] = "eval"
  /\ EvalScript(r, "create", "SOLD_OUT")
  /\ UNCHANGED <<dbVars, stranded>>

Create(r) ==
  /\ pc[r] = "create"
  /\ \/ InsertCoupon(r) /\ Settle(r, "count", "ERROR")
     \/ Duplicate(r) /\ Resolve(r, "giveBack") /\ UNCHANGED dbVars
  /\ UNCHANGED redisVars

(* Mutant of Count: the increment left out.                                *)
CountForgotten(r) ==
  /\ pc[r] = "count"
  /\ Settle(r, "ISSUED", "ERROR")
  /\ UNCHANGED <<dbVars, redisVars>>

Count(r) ==
  /\ pc[r] = "count"
  /\ AddIssued(r, 1)
  /\ Settle(r, "ISSUED", "ERROR")
  /\ UNCHANGED redisVars

(* Mutant of GiveBack: every failed insert is taken for a repeat, a row    *)
(* that is there included.                                                 *)
GiveBackAny(r) ==
  /\ pc[r] \in {"giveBack", "undo", "count"}
  /\ Incr
  /\ Resolve(r, IF pc[r] = "undo" THEN "SOLD_OUT" ELSE "ALREADY_ISSUED")
  /\ UNCHANGED <<dbVars, stranded>>

(* redis.incr, after a repeat or after a DECR below zero.                  *)
GiveBack(r) ==
  /\ pc[r] \in {"giveBack", "undo"}
  /\ Incr
  /\ Resolve(r, IF pc[r] = "undo" THEN "SOLD_OUT" ELSE "ALREADY_ISSUED")
  /\ UNCHANGED <<dbVars, stranded>>

(* A server that dies takes with it the INCR that requests at "undo" owe.  *)
Crash ==
  /\ ServerStops
  /\ stranded' = stranded + Cardinality(At({"undo"}))
  /\ UNCHANGED stockVars

Step(r) ==
  \/ Lookup(r)
  \/ TakeByDecr(r)
  \/ TakeByScript(r)
  \/ Create(r)
  \/ Count(r)
  \/ GiveBack(r)
  \/ Reject(r, Catches) /\ UNCHANGED redisVars

Next ==
  \/ CreateCampaign /\ UNCHANGED redisVars
  \/ Crash
  \/ \E r \in Requests : Step(r)
  \/ AllEnded /\ UNCHANGED redisVars

Spec == Init /\ [][Next]_vars

-----------------------------------------------------------------------------
TypeOK ==
  /\ DbTypeOK(Labels)
  /\ rowLock = NoOne
  /\ StockTypeOK
  /\ stranded \in Nat

(* The requests that have taken a slot and neither used nor returned it.   *)
Taken == At({"create", "giveBack", "undo"})

(* What is left of the counter, the slots in hand and the coupons never    *)
(* add up to more than the counter was set to - totalStock by the seed,    *)
(* nothing by the API - except by an INCR that ran twice; a crash or an    *)
(* error can only lose slots (issue.redis.ts:59-78, issue.redisLua.ts:     *)
(* 66-83, campaigns.ts:50, prisma/seed.ts:37).                             *)
SlotsCounted ==
  stock + Cardinality(Taken) + Cardinality(coupons) + resent["DECR"]
    + stranded <= InitialStock + resent["INCR"]

(* The counter is below zero by no more than the DECRs that have still to  *)
(* be undone, ran twice, or died undone, so never on the script's account  *)
(* (issue.redis.ts:22, issue.redisLua.ts:11-16, docs/04-redis.md:72).      *)
StockFloor == stock + Cardinality(At({"undo"})) + resent["DECR"] + stranded >= 0

(* At most totalStock coupons, and one more per INCR that ran twice; none  *)
(* of a campaign made by the API, which has no counter.                    *)
NotOversold == Cardinality(coupons) <= InitialStock + resent["INCR"]

(* Without faults no slot leaks: when all is answered, counter and coupons *)
(* add up to what the counter was set to (docs/04-redis.md:31-32).         *)
NoLeak ==
  Quiet /\ Faultless /\ NothingResent =>
    stock + Cardinality(coupons) = InitialStock

(* A DECR below zero, or a slot that a repeat holds for a moment, may make *)
(* another request read SOLD_OUT early; but what is left unsold in the end *)
(* is never more than the repeats gave back (issue.redis.ts:59-78).        *)
UnsoldReturned == origin = "seed" /\ NothingResent => UnsoldExplained

(* When the increment after an insert rejects, or its server dies, the     *)
(* coupon stays uncounted and its request is answered 500 or nothing.      *)
(* issuedCount is then behind the coupons, never ahead of them, and by no  *)
(* more than such coupons: whoever was told ISSUED is counted, whatever    *)
(* fails (issue.redis.ts:63-70, issue.redisLua.ts:71-80).                  *)
CountTrails ==
  /\ issuedCount + Cardinality(At({"count"})) <= Cardinality(coupons)
  /\ Cardinality(At({"ISSUED"})) <= issuedCount

(* What the control points say about the coupon table.                     *)
ControlAgrees ==
  \A r \in Requests :
    /\ pc[r] \in {"start", "decr", "eval", "create", "giveBack", "undo",
                  "SOLD_OUT", "ALREADY_ISSUED", "NOT_FOUND"} => r \notin coupons
    /\ pc[r] \in {"giveBack", "ALREADY_ISSUED"} => Duplicate(r)
    /\ pc[r] \in {"count", "ISSUED"} => r \in coupons

(* The inductive invariant.                                                *)
IInv == TypeOK /\ SlotsCounted /\ StockFloor /\ NotOversold /\ ControlAgrees

(* Both strategies implement the sale, widened by the commands that may    *)
(* run twice.                                                              *)
Sale == INSTANCE CouponSale WITH
  winners <- coupons,
  answer <- [r \in Requests |-> IF pc[r] \in Answers THEN pc[r] ELSE "none"],
  Stock <- TotalStock + MaxResends,
  ExactRefusal <- FALSE
ImplementsSale == Sale!Spec
=============================================================================
