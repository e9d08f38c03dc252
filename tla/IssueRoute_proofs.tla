------------------------- MODULE IssueRoute_proofs --------------------------
(***************************************************************************)
(* The atomic strategy for any number of requests, users, coupons in stock *)
(* and failures: it never counts more than totalStock, it oversells by at  *)
(* most the number of lost acknowledgements, it answers truthfully, and it *)
(* implements the sale of CouponSale.  Behind the middlewares of           *)
(* POST /api/campaigns/:id/issue all of this still holds, an answer        *)
(* replayed under an Idempotency-Key is true of a user who sent that key,  *)
(* and a request whose key was answered runs the handler only when that    *)
(* answer is gone.                                                         *)
(***************************************************************************)
EXTENDS IssueRoute, CouponDb_lemmas, SequenceTheorems

(* Where a request ends up after each of the calls it makes.               *)
LEMMA Moves ==
  ASSUME TypeOK, NEW r \in Requests, NEW l, NEW c,
         Settle(r, l, c),
         l \in Labels \cup Outcomes, c \in Labels \cup Outcomes
  PROVE  /\ userKey' = userKey /\ rejects' = rejects
         /\ pc' \in [Requests -> Labels \cup Outcomes \cup {"start"}]
         /\ \/ Goto(r, l) /\ lostAcks' = lostAcks
            \/ /\ Goto(r, c) /\ lostAcks' = lostAcks + 1
               /\ lostAcks < MaxLostAcks
         /\ lostAcks' \in 0 .. MaxLostAcks
BY FaultAssumption
   DEF TypeOK, DbTypeOK, Settle, Resolve, LoseAck, Goto

-----------------------------------------------------------------------------
(* Type correctness.                                                       *)

LEMMA InitType == Init => TypeOK
BY StockAssumption, FaultAssumption DEF Init, DbInit, TypeOK, DbTypeOK

LEMMA NextType == TypeOK /\ [Next]_couponDbVars => TypeOK'
<1> SUFFICES ASSUME TypeOK, [Next]_couponDbVars PROVE TypeOK'
  OBVIOUS
<1> USE DEF TypeOK, DbTypeOK
<1>1. CASE CreateCampaign
  BY <1>1 DEF CreateCampaign, requestVars
<1>2. CASE ServerStops
  BY <1>2 DEF ServerStops, InFlight, Ended, Outcomes
<1>3. ASSUME NEW r \in Requests, Step(r) PROVE TypeOK'
  <2>1. CASE Lookup(r)
    BY <2>1 DEF Lookup, FindCampaign, Resolve, Goto, dbVars, Labels, Outcomes,
                Answers
  <2>2. CASE Reserve(r)
    <3>1. CASE issuedCount < TotalStock
      BY <2>2, <3>1, Moves, "create" \in Labels, "ERROR" \in Outcomes
      DEF Reserve, AddIssued, Labels, Outcomes, Answers
    <3>2. CASE ~(issuedCount < TotalStock)
      BY <2>2, <3>2, "SOLD_OUT" \in Outcomes
      DEF Reserve, Resolve, Goto, dbVars, Outcomes, Answers
    <3>3. QED  BY <3>1, <3>2
  <2>3. CASE Create(r)
    <3>1. CASE InsertCoupon(r) /\ Settle(r, "ISSUED", "rollbackError")
      BY <2>3, <3>1, Moves, InsertAddsOne
      DEF InsertCoupon, Labels, Outcomes, Answers
    <3>2. CASE Resolve(r, "rollbackDup") /\ UNCHANGED dbVars
      BY <2>3, <3>2 DEF Resolve, Goto, dbVars, Labels
    <3>3. QED  BY <2>3, <3>1, <3>2 DEF Create
  <2>4. CASE Rollback(r)
    BY <2>4, Moves DEF Rollback, AddIssued, Labels, Outcomes, Answers
  <2>5. CASE Reject(r, Catches)
    <3>1. Catches[pc[r]] \in Labels \cup Outcomes
      BY <2>5 DEF Reject, Catches, Labels, Outcomes, Answers
    <3>2. QED
      BY <2>5, <3>1, FaultAssumption DEF Reject, Goto, dbVars
  <2>6. QED  BY <1>3, <2>1, <2>2, <2>3, <2>4, <2>5 DEF Step
<1>4. CASE AllEnded \/ UNCHANGED couponDbVars
  BY <1>4 DEF AllEnded, couponDbVars, dbVars, requestVars
<1>5. QED  BY <1>1, <1>2, <1>3, <1>4 DEF Next

(* Every reachable state of the atomic strategy is well typed, for every   *)
(* set of requests and users (issue.atomic.ts:13-46).                      *)
THEOREM TypeCorrect == Spec => []TypeOK
<1>1. QED  BY InitType, NextType, PTL DEF Spec

-----------------------------------------------------------------------------
(* The accounting of slots and coupons.                                    *)

SlotLabels == {"create", "rollbackDup", "rollbackError"}

(* How a move changes the number of slots in hand.                         *)
LEMMA HoldingMoves ==
  ASSUME TypeOK, NEW r \in Requests, NEW l, Goto(r, l)
  PROVE  /\ Cardinality(Holding) \in Nat
         /\ Cardinality(Holding') \in Nat
         /\ pc[r] \notin SlotLabels /\ l \in SlotLabels =>
              Cardinality(Holding') = Cardinality(Holding) + 1
         /\ pc[r] \in SlotLabels /\ l \notin SlotLabels =>
              Cardinality(Holding') = Cardinality(Holding) - 1
         /\ (pc[r] \in SlotLabels <=> l \in SlotLabels) =>
              Cardinality(Holding') = Cardinality(Holding)
<1>1. Holding = Where(pc, SlotLabels) /\ Holding' = Where(pc', SlotLabels)
  BY DEF Holding, At, SlotLabels
<1>2. DOMAIN pc = Requests
  BY DEF TypeOK, DbTypeOK
<1>3. pc' = [pc EXCEPT ![r] = l]
  BY DEF Goto
<1>4. QED  BY <1>1, <1>2, <1>3, WhereFinite, WhereJoin, WhereLeave, WhereKeep

LEMMA HoldingCount ==
  /\ Cardinality(Holding) \in Nat
  /\ Cardinality(Holding') \in Nat
<1>1. Holding = Where(pc, SlotLabels) /\ Holding' = Where(pc', SlotLabels)
  BY DEF Holding, At, SlotLabels
<1>2. QED  BY <1>1, WhereFinite

Accounting == CounterBounded /\ SlotsCounted

LEMMA InitAccounting == Init => Accounting
<1> SUFFICES ASSUME Init PROVE Accounting
  OBVIOUS
<1>1. Holding = {} /\ coupons = {} /\ issuedCount = 0 /\ lostAcks = 0
  BY DEF Init, DbInit, Holding, At, Where
<1>2. QED
  BY <1>1, FS_EmptySet, StockAssumption
  DEF Accounting, CounterBounded, SlotsCounted

LEMMA NextAccounting ==
  ASSUME TypeOK, TypeOK', Accounting, [Next]_couponDbVars
  PROVE  Accounting'
<1> USE DEF Accounting, CounterBounded, SlotsCounted
<1>0. /\ issuedCount \in Int /\ lostAcks \in Nat
      /\ coupons \subseteq Requests /\ Cardinality(coupons) \in Nat
      /\ TotalStock \in Nat
  BY CouponsFinite, StockAssumption, FaultAssumption DEF TypeOK, DbTypeOK
<1>1. CASE CreateCampaign \/ AllEnded \/ UNCHANGED couponDbVars
  <2>1. UNCHANGED <<pc, coupons, issuedCount, lostAcks>>
    BY <1>1
    DEF CreateCampaign, AllEnded, couponDbVars, dbVars, requestVars
  <2>2. QED  BY <2>1 DEF Holding, At
<1>2. CASE ServerStops
  <2>1. Holding' = {}
    BY <1>2 DEF ServerStops, Holding, At, Where, InFlight, Ended, Outcomes,
                Answers, TypeOK, DbTypeOK
  <2>2. UNCHANGED <<coupons, issuedCount, lostAcks>>
    BY <1>2 DEF ServerStops
  <2>3. QED  BY <1>0, <2>1, <2>2, HoldingCount, FS_EmptySet
<1>3. ASSUME NEW r \in Requests, Step(r) PROVE Accounting'
  <2> USE DEF SlotLabels, Labels, Outcomes, Answers
  <2>1. CASE Lookup(r)
    <3>1. PICK l \in {"NOT_FOUND", "reserve"} :
            /\ pc[r] = "start" /\ Goto(r, l)
            /\ UNCHANGED <<coupons, issuedCount, lostAcks>>
      BY <2>1 DEF Lookup, FindCampaign, Resolve, dbVars
    <3>2. QED  BY <1>0, <3>1, HoldingMoves
  <2>2. CASE Reserve(r)
    (* A slot is taken, and counted, or taken and forgotten, or refused.   *)
    <3>1. CASE issuedCount < TotalStock
      <4>1. PICK l \in {"create", "ERROR"} :
              /\ pc[r] = "reserve" /\ Goto(r, l)
              /\ lostAcks' >= lostAcks /\ lostAcks' \in Nat
        BY <1>0, <2>2, <3>1, Moves DEF Reserve
      <4>2. issuedCount' = issuedCount + 1 /\ coupons' = coupons
        BY <2>2, <3>1 DEF Reserve, AddIssued
      <4>3. Cardinality(Holding') <= Cardinality(Holding) + 1
        BY <4>1, HoldingMoves, HoldingCount
      <4>4. QED  BY <1>0, <3>1, <4>1, <4>2, <4>3, HoldingCount
    <3>2. CASE ~(issuedCount < TotalStock)
      BY <1>0, <2>2, <3>2, HoldingMoves DEF Reserve, Resolve, dbVars
    <3>3. QED  BY <3>1, <3>2
  <2>3. CASE Create(r)
    (* The coupon replaces the slot in hand; when its acknowledgement is   *)
    (* lost the slot stays in hand and lostAcks makes up for it.           *)
    <3>1. CASE InsertCoupon(r) /\ Settle(r, "ISSUED", "rollbackError")
      <4>0. pc[r] = "create"
        BY <2>3 DEF Create
      <4>1. /\ Cardinality(coupons') = Cardinality(coupons) + 1
            /\ issuedCount' = issuedCount
        BY <1>0, <3>1, InsertAddsOne DEF InsertCoupon
      <4>2. CASE Goto(r, "ISSUED") /\ lostAcks' = lostAcks
        <5>1. Cardinality(Holding') = Cardinality(Holding) - 1
          BY <4>0, <4>2, HoldingMoves
        <5>2. QED  BY <1>0, <4>1, <4>2, <5>1, HoldingCount
      <4>3. CASE /\ Goto(r, "rollbackError")
                 /\ lostAcks' = lostAcks + 1
        <5>1. Cardinality(Holding') = Cardinality(Holding)
          BY <4>0, <4>3, HoldingMoves
        <5>2. QED  BY <1>0, <4>1, <4>3, <5>1, HoldingCount
      <4>4. QED  BY <3>1, <4>2, <4>3, Moves
    <3>2. CASE Resolve(r, "rollbackDup") /\ UNCHANGED dbVars
      BY <1>0, <2>3, <3>2, HoldingMoves DEF Create, Resolve, dbVars
    <3>3. QED  BY <2>3, <3>1, <3>2 DEF Create
  <2>4. CASE Rollback(r)
    (* The slot in hand and its count go together.                         *)
    <3>1. PICK l \in {"ALREADY_ISSUED", "ERROR"} :
            /\ pc[r] \in SlotLabels /\ Goto(r, l)
            /\ lostAcks' >= lostAcks /\ lostAcks' \in Nat
      BY <1>0, <2>4, Moves DEF Rollback
    <3>2. issuedCount' = issuedCount - 1 /\ coupons' = coupons
      BY <2>4 DEF Rollback, AddIssued
    <3>3. Cardinality(Holding') = Cardinality(Holding) - 1
      BY <3>1, HoldingMoves
    <3>4. QED  BY <1>0, <3>1, <3>2, <3>3, HoldingCount
  <2>5. CASE Reject(r, Catches)
    (* The catch clause keeps the slot, or loses it uncounted.             *)
    <3>1. /\ Goto(r, Catches[pc[r]])
          /\ UNCHANGED <<coupons, issuedCount, lostAcks>>
      BY <2>5 DEF Reject, dbVars
    <3>2. Cardinality(Holding') <= Cardinality(Holding)
      <4>1. Catches[pc[r]] \in SlotLabels => pc[r] \in SlotLabels
        BY <2>5 DEF Reject, Catches
      <4>2. QED  BY <3>1, <4>1, HoldingMoves, HoldingCount
    <3>3. QED  BY <1>0, <3>1, <3>2, HoldingCount
  <2>6. QED  BY <1>3, <2>1, <2>2, <2>3, <2>4, <2>5 DEF Step
<1>4. QED  BY <1>1, <1>2, <1>3 DEF Next

-----------------------------------------------------------------------------
(* What each control point knows about the coupon table.                   *)

LEMMA NextControl ==
  ASSUME TypeOK, ControlAgrees, [Next]_couponDbVars
  PROVE  ControlAgrees'
<1> USE DEF ControlAgrees, Duplicate
<1>1. CASE CreateCampaign \/ AllEnded \/ UNCHANGED couponDbVars
  BY <1>1 DEF CreateCampaign, AllEnded, couponDbVars, dbVars, requestVars
<1>2. CASE ServerStops
  BY <1>2 DEF ServerStops, InFlight, Ended, Outcomes, Answers, TypeOK, DbTypeOK
<1>3. ASSUME NEW r \in Requests, Step(r) PROVE ControlAgrees'
  <2> USE DEF TypeOK, DbTypeOK, Labels, Outcomes, Answers
  <2>1. CASE Lookup(r)
    BY <2>1 DEF Lookup, FindCampaign, Resolve, Goto, dbVars
  <2>2. CASE Reserve(r)
    BY <2>2 DEF Reserve, AddIssued, Settle, Resolve, LoseAck, Goto, dbVars
  <2>3. CASE Create(r)
    BY <2>3 DEF Create, InsertCoupon, Settle, Resolve, LoseAck, Goto, dbVars
  <2>4. CASE Rollback(r)
    BY <2>4 DEF Rollback, AddIssued, Settle, Resolve, LoseAck, Goto
  <2>5. CASE Reject(r, Catches)
    <3>1. Catches[pc[r]] \in {"ERROR", "rollbackError"}
      BY <2>5 DEF Reject, Catches
    <3>2. QED  BY <2>5, <3>1 DEF Reject, Goto, dbVars
  <2>6. QED  BY <1>3, <2>1, <2>2, <2>3, <2>4, <2>5 DEF Step
<1>4. QED  BY <1>1, <1>2, <1>3 DEF Next

(* IInv is inductive.                                                      *)
LEMMA InitInv == Init => IInv
BY InitType, InitAccounting
   DEF IInv, Accounting, Init, DbInit, ControlAgrees, Duplicate

LEMMA NextInv == IInv /\ [Next]_couponDbVars => IInv'
BY NextType, NextAccounting, NextControl DEF IInv, Accounting

(* IInv holds of every reachable state (issue.atomic.ts:13-46).            *)
THEOREM Invariance == Spec => []IInv
<1>1. QED  BY InitInv, NextInv, PTL DEF Spec

(* However requests interleave and calls fail, there are never more        *)
(* coupons than totalStock plus one per create whose acknowledgement was   *)
(* lost: without such a loss the campaign does not oversell                *)
(* (issue.atomic.ts:22-46, docs/03-db-locking.md:45-48).                   *)
THEOREM NeverOversold == Spec => []NotOversold
<1>1. IInv => NotOversold
  <2> SUFFICES ASSUME IInv PROVE NotOversold
    OBVIOUS
  <2>1. /\ issuedCount \in Int /\ lostAcks \in Nat
        /\ Cardinality(coupons) \in Nat
    BY CouponsFinite, FaultAssumption DEF IInv, TypeOK, DbTypeOK
  <2>2. QED
    BY <2>1, HoldingCount, StockAssumption
    DEF IInv, CounterBounded, SlotsCounted, NotOversold
<1>2. QED  BY <1>1, Invariance, PTL

(* A request told ISSUED has its coupon, and one told ALREADY_ISSUED has   *)
(* none while its user does (issue.atomic.ts:35, 45).                      *)
THEOREM AnswersTruthful == Spec => []TruthfulAnswers
<1>1. IInv => TruthfulAnswers
  BY DEF IInv, ControlAgrees, TruthfulAnswers
<1>2. QED  BY <1>1, Invariance, PTL

-----------------------------------------------------------------------------
(* The atomic strategy implements the sale.                                *)

SaleAnswer == [r \in Requests |-> IF pc[r] \in Answers THEN pc[r] ELSE "none"]

LEMMA InitRefines == Init => Sale!Init
BY DEF Init, DbInit, Sale!Init, Answers

(* A request that goes from one control point to another tells nobody      *)
(* anything, and one that comes to an answer tells exactly that.           *)
LEMMA Telling ==
  ASSUME TypeOK, NEW r \in Requests, NEW l, Goto(r, l)
  PROVE  /\ userKey' = userKey
         /\ pc[r] \notin Answers /\ l \notin Answers => SaleAnswer' = SaleAnswer
         /\ pc[r] \notin Answers /\ l \in Answers => Sale!Tell(r, l)
BY DEF Goto, TypeOK, DbTypeOK, SaleAnswer, Sale!Tell, Answers

(* Before its insert a request in hand of a slot finds room in the sale.   *)
LEMMA RoomForOne ==
  ASSUME IInv, NEW r \in Requests, pc[r] = "create"
  PROVE  Cardinality(coupons) < TotalStock + MaxLostAcks
<1>1. /\ issuedCount \in Int /\ lostAcks \in 0 .. MaxLostAcks
      /\ Cardinality(coupons) \in Nat /\ TotalStock \in Nat
  BY CouponsFinite, StockAssumption DEF IInv, TypeOK, DbTypeOK
<1>2. Cardinality(Holding) >= 1
  <2>1. r \in Holding /\ Holding = Where(pc, SlotLabels)
    BY DEF Holding, At, Where, SlotLabels
  <2>2. Cardinality(Holding) # 0
    BY <2>1, WhereFinite, FS_EmptySet
  <2>3. QED  BY <2>2, HoldingCount
<1>3. QED
  BY <1>1, <1>2, HoldingCount, FaultAssumption
  DEF IInv, CounterBounded, SlotsCounted

(* The sale counts coupons the way the strategy does.                      *)
LEMMA SameCount == Sale!Cardinality(coupons) = Cardinality(coupons)
BY DEF Sale!Cardinality, Cardinality

(* Every step of the strategy is a step of the sale or invisible to it.    *)
LEMMA NextRefines ==
  ASSUME IInv, [Next]_couponDbVars
  PROVE  [Sale!Next]_Sale!vars
<1>0. TypeOK
  BY DEF IInv
<1>1. ASSUME UNCHANGED <<userKey, coupons>>, SaleAnswer' = SaleAnswer
      PROVE  UNCHANGED Sale!vars
  BY <1>1 DEF Sale!vars, SaleAnswer
<1>2. CASE CreateCampaign \/ AllEnded \/ UNCHANGED couponDbVars
  <2>1. UNCHANGED <<userKey, coupons, pc>>
    BY <1>2 DEF CreateCampaign, AllEnded, couponDbVars, dbVars, requestVars
  <2>2. QED  BY <1>1, <2>1 DEF SaleAnswer
<1>3. CASE ServerStops
  <2>1. UNCHANGED <<userKey, coupons>> /\ SaleAnswer' = SaleAnswer
    BY <1>0, <1>3 DEF ServerStops, SaleAnswer, InFlight, Ended, Outcomes,
                      Answers, TypeOK, DbTypeOK
  <2>2. QED  BY <1>1, <2>1
<1>4. ASSUME NEW r \in Requests, Step(r) PROVE [Sale!Next]_Sale!vars
  <2> USE DEF Answers
  <2>1. ASSUME UNCHANGED coupons, pc[r] \notin Answers,
               NEW l, l \notin Answers, Goto(r, l)
        PROVE  [Sale!Next]_Sale!vars
    BY <1>0, <1>1, <2>1, Telling
  <2>2. ASSUME UNCHANGED coupons, pc[r] \notin Answers,
               NEW l \in {"ERROR", "NOT_FOUND"}, Goto(r, l)
        PROVE  [Sale!Next]_Sale!vars
    BY <1>0, <2>2, Telling DEF Sale!Next, Sale!GiveUp
  <2>3. CASE Lookup(r)
    BY <2>1, <2>2, <2>3 DEF Lookup, FindCampaign, Resolve, dbVars
  <2>4. CASE Reserve(r)
    <3>1. UNCHANGED coupons /\ pc[r] = "reserve"
      BY <2>4 DEF Reserve, AddIssued, dbVars
    <3>2. CASE issuedCount < TotalStock
      <4>1. Goto(r, "create") \/ Goto(r, "ERROR")
        BY <2>4, <3>2 DEF Reserve, Settle, Resolve, LoseAck
      <4>2. QED  BY <2>1, <2>2, <3>1, <4>1
    <3>3. CASE ~(issuedCount < TotalStock)
      <4>1. Goto(r, "SOLD_OUT") /\ r \notin coupons
        BY <2>4, <3>1, <3>3 DEF Reserve, Resolve, IInv, ControlAgrees
      <4>2. Sale!RefuseSoldOut(r)
        BY <1>0, <3>1, <4>1, Telling DEF Sale!RefuseSoldOut
      <4>3. QED  BY <4>2 DEF Sale!Next
    <3>4. QED  BY <3>2, <3>3
  <2>5. CASE Create(r)
    <3>0. pc[r] = "create"
      BY <2>5 DEF Create
    <3>1. CASE InsertCoupon(r) /\ Settle(r, "ISSUED", "rollbackError")
      <4>1. /\ coupons' = coupons \cup {r} /\ ~Sale!Served(r)
            /\ Cardinality(coupons) < TotalStock + MaxLostAcks
        BY <3>0, <3>1, RoomForOne DEF InsertCoupon, Duplicate, Sale!Served
      <4>2. SaleAnswer[r] = "none"
        BY <3>0 DEF SaleAnswer
      <4>3. CASE Goto(r, "ISSUED")
        <5>1. Sale!Tell(r, "ISSUED")
          BY <1>0, <3>0, <4>3, Telling
        <5>2. Sale!Grant(r)
          BY <4>1, <4>2, <5>1, SameCount DEF Sale!Grant, SaleAnswer
        <5>3. QED  BY <5>2 DEF Sale!Next
      <4>4. CASE Goto(r, "rollbackError")
        <5>1. UNCHANGED <<userKey, SaleAnswer>>
          BY <1>0, <3>0, <4>4, Telling
        <5>2. Sale!Grant(r)
          BY <4>1, <4>2, <5>1, SameCount DEF Sale!Grant, SaleAnswer
        <5>3. QED  BY <5>2 DEF Sale!Next
      <4>5. QED  BY <3>1, <4>3, <4>4 DEF Settle, Resolve, LoseAck
    <3>2. CASE Resolve(r, "rollbackDup") /\ UNCHANGED dbVars
      BY <2>1, <3>0, <3>2 DEF Resolve, dbVars
    <3>3. QED  BY <2>5, <3>1, <3>2 DEF Create
  <2>6. CASE Rollback(r)
    <3>1. UNCHANGED coupons
      BY <2>6 DEF Rollback, AddIssued
    <3>2. CASE Goto(r, "ERROR")
      BY <2>2, <2>6, <3>1, <3>2 DEF Rollback
    <3>3. CASE pc[r] = "rollbackDup" /\ Goto(r, "ALREADY_ISSUED")
      <4>1. r \notin coupons /\ Sale!Served(r)
        BY <3>3 DEF IInv, ControlAgrees, Duplicate, Sale!Served
      <4>2. Sale!RefuseRepeat(r)
        BY <1>0, <3>1, <3>3, <4>1, Telling DEF Sale!RefuseRepeat
      <4>3. QED  BY <4>2 DEF Sale!Next
    <3>4. QED
      BY <2>6, <3>2, <3>3 DEF Rollback, Settle, Resolve, LoseAck
  <2>7. CASE Reject(r, Catches)
    <3>1. /\ UNCHANGED coupons /\ pc[r] \in DOMAIN Catches
          /\ Goto(r, Catches[pc[r]])
      BY <2>7 DEF Reject, dbVars
    <3>2. pc[r] \notin Answers /\ Catches[pc[r]] \in {"ERROR", "rollbackError"}
      BY <3>1 DEF Catches
    <3>3. QED  BY <2>1, <2>2, <3>1, <3>2
  <2>8. QED  BY <1>4, <2>3, <2>4, <2>5, <2>6, <2>7 DEF Step
<1>5. QED  BY <1>2, <1>3, <1>4 DEF Next

(* The atomic strategy implements the sale of TotalStock + MaxLostAcks     *)
(* coupons, one per user, every answer given once and truthful             *)
(* (issue.atomic.ts:13-46).                                                *)
THEOREM Refinement == Spec => ImplementsSale
<1>1. QED
  BY InitRefines, NextRefines, Invariance, PTL DEF Spec, ImplementsSale, Sale!Spec

-----------------------------------------------------------------------------
(* When nothing has failed.                                                *)

Repeats == Cardinality(Where(pc, {"ALREADY_ISSUED"}))

(* As long as nothing has failed every slot that is counted is a coupon or *)
(* in somebody's hand, and whoever was refused met a sale whose slots were *)
(* all taken, some of them by repeats that have given them back since.     *)
Balanced ==
  Faultless =>
    /\ issuedCount = Cardinality(coupons) + Cardinality(Holding)
    /\ \A r \in Requests : pc[r] \notin {"rollbackError", "ERROR", "QUEUED", "RETRY_EXHAUSTED"}
    /\ \A c \in coupons : pc[c] = "ISSUED"
    /\ (\E r \in Requests : pc[r] = "SOLD_OUT") => issuedCount + Repeats >= TotalStock

(* What a step can be when nothing has failed after it.                    *)
Takes(r, l) ==
  /\ pc[r] = "reserve" /\ UNCHANGED coupons
  /\ \/ l = "create" /\ issuedCount' = issuedCount + 1
     \/ l = "SOLD_OUT" /\ issuedCount >= TotalStock /\ UNCHANGED issuedCount

Makes(r, l) ==
  /\ pc[r] = "create" /\ UNCHANGED issuedCount
  /\ \/ l = "ISSUED" /\ InsertCoupon(r)
     \/ l = "rollbackDup" /\ UNCHANGED coupons

GivesBack(r, l) ==
  /\ pc[r] = "rollbackDup" /\ l = "ALREADY_ISSUED"
  /\ issuedCount' = issuedCount - 1 /\ UNCHANGED coupons

Succeeds(r, l) ==
  /\ Goto(r, l)
  /\ \/ /\ pc[r] = "start" /\ l \in {"reserve", "NOT_FOUND"}
        /\ UNCHANGED <<coupons, issuedCount>>
     \/ Takes(r, l)
     \/ Makes(r, l)
     \/ GivesBack(r, l)

LEMMA FaultlessSteps ==
  ASSUME TypeOK, Balanced, NEW r \in Requests, Step(r), Faultless'
  PROVE  Faultless /\ \E l : Succeeds(r, l)
<1>0. /\ rejects \in Nat /\ lostAcks \in Nat /\ rejects' = 0 /\ lostAcks' = 0
      /\ \A q \in Requests : pc'[q] # "DEAD"
      /\ issuedCount \in Int /\ TotalStock \in Nat
  BY StockAssumption DEF TypeOK, DbTypeOK, Faultless
<1>1. \E l : pc[r] \notin Outcomes /\ Goto(r, l)
  BY DEF Step, Lookup, FindCampaign, Reserve, Create, Rollback, Reject, Catches, Settle,
         Resolve, LoseAck, Outcomes, Answers
<1>2. \A q \in Requests : pc[q] = "DEAD" => pc'[q] = "DEAD"
  BY <1>1 DEF Goto, TypeOK, DbTypeOK, Outcomes
<1>3. rejects' \in {rejects, rejects + 1} /\ lostAcks' \in {lostAcks, lostAcks + 1}
  BY DEF Step, Lookup, FindCampaign, Reserve, Create, Rollback, Reject, Settle, Resolve, LoseAck
<1>4. Faultless /\ rejects' = rejects /\ lostAcks' = lostAcks
  BY <1>0, <1>2, <1>3 DEF Faultless
<1>5. pc[r] # "rollbackError"
  BY <1>4 DEF Balanced
<1>6. ~Reject(r, Catches)
  BY <1>0, <1>4 DEF Reject
<1>7. \A l, c : Settle(r, l, c) => Goto(r, l)
  BY <1>0, <1>4 DEF Settle, Resolve, LoseAck
<1>8. CASE Lookup(r)
  <2>1. PICK l \in {"reserve", "NOT_FOUND"} : Goto(r, l)
    BY <1>8 DEF Lookup, FindCampaign, Resolve
  <2>2. Succeeds(r, l)
    BY <1>8, <2>1 DEF Lookup, FindCampaign, dbVars, Succeeds
  <2>3. QED  BY <1>4, <2>2
<1>9. CASE Reserve(r)
  <2>1. CASE issuedCount < TotalStock
    <3>1. Succeeds(r, "create")
      BY <1>7, <1>9, <2>1 DEF Reserve, AddIssued, Succeeds, Takes
    <3>2. QED  BY <1>4, <3>1
  <2>2. CASE ~(issuedCount < TotalStock)
    <3>1. Succeeds(r, "SOLD_OUT")
      BY <1>0, <1>9, <2>2 DEF Reserve, Resolve, dbVars, Succeeds, Takes
    <3>2. QED  BY <1>4, <3>1
  <2>3. QED  BY <2>1, <2>2
<1>10. CASE Create(r)
  <2>1. CASE InsertCoupon(r) /\ Settle(r, "ISSUED", "rollbackError")
    <3>1. Succeeds(r, "ISSUED")
      BY <1>7, <1>10, <2>1 DEF Create, InsertCoupon, Succeeds, Makes
    <3>2. QED  BY <1>4, <3>1
  <2>2. CASE Resolve(r, "rollbackDup") /\ UNCHANGED dbVars
    <3>1. Succeeds(r, "rollbackDup")
      BY <1>10, <2>2 DEF Create, Resolve, dbVars, Succeeds, Makes
    <3>2. QED  BY <1>4, <3>1
  <2>3. QED  BY <1>10, <2>1, <2>2 DEF Create
<1>11. CASE Rollback(r)
  <2>1. Succeeds(r, "ALREADY_ISSUED")
    BY <1>5, <1>7, <1>11 DEF Rollback, AddIssued, Succeeds, GivesBack
  <2>2. QED  BY <1>4, <2>1
<1>12. QED  BY <1>6, <1>8, <1>9, <1>10, <1>11 DEF Step

LEMMA NextBalanced ==
  ASSUME IInv, Balanced, [Next]_couponDbVars
  PROVE  Balanced'
<1>0. /\ TypeOK /\ issuedCount \in Int /\ TotalStock \in Nat
      /\ coupons \subseteq Requests /\ Cardinality(coupons) \in Nat
      /\ pc \in [Requests -> Labels \cup Outcomes \cup {"start"}]
  BY CouponsFinite, StockAssumption DEF IInv, TypeOK, DbTypeOK
<1>1. CASE CreateCampaign \/ AllEnded \/ UNCHANGED couponDbVars
  BY <1>1 DEF CreateCampaign, AllEnded, couponDbVars, dbVars, requestVars, Balanced,
              Faultless, Holding, At, Where, Repeats
<1>2. CASE ServerStops
  BY <1>2 DEF ServerStops, Balanced, Faultless
<1>3. ASSUME NEW r \in Requests, Step(r), Faultless' PROVE Balanced'
  <2>1. PICK l : Succeeds(r, l)
    BY <1>0, <1>3, FaultlessSteps
  <2>2. Faultless
    BY <1>0, <1>3, FaultlessSteps
  <2> DEFINE h == Cardinality(Holding)
             h1 == Cardinality(Holding')
             m == Cardinality(coupons)
             m1 == Cardinality(coupons')
             d == Repeats
             d1 == Cardinality(Where(pc', {"ALREADY_ISSUED"}))
             e == issuedCount
             e1 == issuedCount'
  <2>3. /\ pc' = [pc EXCEPT ![r] = l] /\ Goto(r, l)
        /\ pc[r] \in {"start", "reserve", "create", "rollbackDup"}
        /\ l \in {"reserve", "NOT_FOUND", "create", "SOLD_OUT", "ISSUED", "rollbackDup",
                  "ALREADY_ISSUED"}
    BY <2>1 DEF Succeeds, Goto, Takes, Makes, GivesBack
  <2>4. /\ e = m + h
        /\ \A q \in Requests : pc[q] \notin {"rollbackError", "ERROR", "QUEUED", "RETRY_EXHAUSTED"}
        /\ \A c \in coupons : pc[c] = "ISSUED"
        /\ (\E q \in Requests : pc[q] = "SOLD_OUT") => e + d >= TotalStock
    BY <2>2 DEF Balanced
  <2>5. /\ h \in Nat /\ h1 \in Nat
        /\ pc[r] \notin SlotLabels /\ l \in SlotLabels => h1 = h + 1
        /\ pc[r] \in SlotLabels /\ l \notin SlotLabels => h1 = h - 1
        /\ (pc[r] \in SlotLabels <=> l \in SlotLabels) => h1 = h
    BY <1>0, <2>3, HoldingMoves
  <2>6. /\ d \in Nat /\ d1 \in Nat
        /\ l \in {"ALREADY_ISSUED"} => d1 = d + 1
        /\ l \notin {"ALREADY_ISSUED"} => d1 = d
    <3>1. DOMAIN pc = Requests /\ pc[r] \notin {"ALREADY_ISSUED"}
      BY <1>0, <2>3
    <3>2. QED  BY <2>3, <3>1, AtMoves DEF Repeats
  <2>7. /\ \A q \in Requests : pc'[q] \notin {"rollbackError", "ERROR", "QUEUED", "RETRY_EXHAUSTED"}
        /\ (\E q \in Requests : pc'[q] = "SOLD_OUT") =>
              l = "SOLD_OUT" \/ \E q \in Requests : pc[q] = "SOLD_OUT"
    BY <1>0, <2>3, <2>4
  <2>8. \A c \in coupons' : pc'[c] = "ISSUED"
    BY <1>0, <2>1, <2>3, <2>4 DEF Succeeds, Takes, Makes, GivesBack, InsertCoupon
  <2>9. /\ e1 = m1 + h1 /\ m1 \in Nat
        /\ (\E q \in Requests : pc'[q] = "SOLD_OUT") => e1 + d1 >= TotalStock
    <3>1. CASE pc[r] = "start" /\ UNCHANGED <<coupons, issuedCount>>
      BY <1>0, <2>1, <2>4, <2>5, <2>6, <2>7, <3>1 DEF Succeeds, SlotLabels, Takes, Makes, GivesBack
    <3>2. CASE Takes(r, l)
      <4>1. m1 = m /\ pc[r] = "reserve"
        BY <3>2 DEF Takes
      <4>2. \/ l = "create" /\ h1 = h + 1 /\ d1 = d /\ e1 = e + 1
            \/ l = "SOLD_OUT" /\ h1 = h /\ d1 = d /\ e1 = e /\ e >= TotalStock
        BY <2>5, <2>6, <3>2 DEF Takes, SlotLabels
      <4> HIDE DEF h, h1, m, m1, d, d1, e, e1
      <4>3. QED  BY <1>0, <2>4, <2>5, <2>6, <2>7, <4>1, <4>2 DEF e, m
    <3>3. CASE Makes(r, l)
      <4>1. \/ l = "ISSUED" /\ m1 = m + 1 /\ h1 = h - 1 /\ d1 = d
            \/ l = "rollbackDup" /\ m1 = m /\ h1 = h /\ d1 = d
        BY <1>0, <2>5, <2>6, <3>3, InsertAddsOne DEF Makes, SlotLabels
      <4>2. e1 = e
        BY <3>3 DEF Makes
      <4> HIDE DEF h, h1, m, m1, d, d1, e, e1
      <4>3. QED  BY <1>0, <2>4, <2>5, <2>6, <2>7, <4>1, <4>2 DEF e, m
    <3>4. CASE GivesBack(r, l)
      <4>1. m1 = m /\ h1 = h - 1 /\ d1 = d + 1 /\ e1 = e - 1 /\ l # "SOLD_OUT"
        BY <2>5, <2>6, <3>4 DEF GivesBack, SlotLabels
      <4> HIDE DEF h, h1, m, m1, d, d1, e, e1
      <4>2. QED  BY <1>0, <2>4, <2>5, <2>6, <2>7, <4>1 DEF e, m
    <3>5. QED  BY <2>1, <3>1, <3>2, <3>3, <3>4 DEF Succeeds
  <2>10. QED  BY <2>7, <2>8, <2>9 DEF Balanced, Repeats
<1>4. CASE ~Faultless'
  BY <1>4 DEF Balanced
<1>5. QED  BY <1>1, <1>2, <1>3, <1>4 DEF Next

LEMMA BalancedHolds == Spec => [](IInv /\ Balanced)
<1>1. Init => Balanced
  <2> SUFFICES ASSUME Init PROVE Balanced
    OBVIOUS
  <2>1. Holding = {} /\ coupons = {} /\ issuedCount = 0 /\ pc = [r \in Requests |-> "start"]
    BY DEF Init, DbInit, Holding, At, Where
  <2>2. Cardinality({}) = 0
    BY FS_EmptySet
  <2>3. QED  BY <2>1, <2>2 DEF Balanced
<1>2. Balanced /\ IInv /\ [Next]_couponDbVars => Balanced'
  BY NextBalanced
<1>3. QED  BY <1>1, <1>2, Invariance, PTL DEF Spec

(* What has been balanced, once every request has its answer.              *)
LEMMA InTheEnd ==
  ASSUME IInv, Balanced, Quiet, Faultless
  PROVE  /\ issuedCount = Cardinality(coupons) /\ Cardinality(coupons) \in Nat
         /\ \A c \in coupons : pc[c] = "ISSUED"
         /\ \A r \in Requests :
              pc[r] \in {"ISSUED", "SOLD_OUT", "ALREADY_ISSUED", "NOT_FOUND"}
<1>1. Holding = {}
  BY DEF Quiet, Ended, Outcomes, Answers, Holding, At, Where
<1>2. Cardinality({}) = 0
  BY FS_EmptySet
<1>3. Cardinality(coupons) \in Nat /\ issuedCount \in Int
  BY CouponsFinite DEF IInv, TypeOK, DbTypeOK
<1>4. issuedCount = Cardinality(coupons) + 0
  BY <1>1, <1>2 DEF Balanced
<1>5. \A r \in Requests : pc[r] # "DEAD"
  BY DEF Faultless
<1>6. QED
  BY <1>3, <1>4, <1>5 DEF Balanced, Quiet, Ended, Outcomes, Answers

(* What `npm run count` is run for: once every request has been answered   *)
(* and nothing has failed, issuedCount is the number of coupons, and each  *)
(* belongs to a request that was told so (prisma/count.ts:22-35).          *)
THEOREM CountsAgreeInTheEnd == Spec => []CountsAgree
<1>1. IInv /\ Balanced => CountsAgree
  BY InTheEnd DEF CountsAgree
<1>2. QED  BY <1>1, BalancedHolds, PTL

(* A refusal that was not final is explained: no more coupons are left     *)
(* over than repeats held a slot for a moment (issue.atomic.ts:21-41).     *)
THEOREM UnsoldByRepeats == Spec => []UnsoldExplained
<1>1. IInv /\ Balanced => UnsoldExplained
  <2> SUFFICES ASSUME IInv, Balanced, Quiet, Faultless, At({"SOLD_OUT"}) # {}
               PROVE  Cardinality(coupons) + Cardinality(At({"ALREADY_ISSUED"})) >= TotalStock
    BY DEF UnsoldExplained
  <2>1. \E r \in Requests : pc[r] = "SOLD_OUT"
    BY DEF At, Where
  <2>2. issuedCount + Repeats >= TotalStock
    BY <2>1 DEF Balanced
  <2>3. QED  BY <2>2, InTheEnd DEF Repeats, At
<1>2. QED  BY <1>1, BalancedHolds, PTL

(* The k6 experiment for any number of requests, each from a user of its   *)
(* own: exactly min(requests, totalStock) coupons in the end, neither      *)
(* oversold nor undersold (load/issue.k6.js:1-15, issue.atomic.ts:13-46).  *)
THEOREM SaleIsExact == Spec => []ExactSale
<1>1. IInv /\ Balanced => ExactSale
  <2> SUFFICES ASSUME IInv, Balanced, Quiet, Faultless,
                      \A r, s \in Requests : userKey[r] = userKey[s] => r = s,
                      At({"RETRY_EXHAUSTED", "NOT_FOUND"}) = {}
               PROVE  Cardinality(coupons) = IF Cardinality(Requests) < TotalStock
                                             THEN Cardinality(Requests) ELSE TotalStock
    BY DEF ExactSale
  <2>1. /\ coupons \subseteq Requests /\ IsFiniteSet(Requests)
        /\ Cardinality(Requests) \in Nat /\ TotalStock \in Nat
    BY RequestsAssumption, StockAssumption, FS_CardinalityType DEF IInv, TypeOK, DbTypeOK
  <2>2. /\ Cardinality(coupons) \in Nat /\ Cardinality(coupons) <= TotalStock
        /\ Cardinality(coupons) <= Cardinality(Requests)
    BY <2>1, InTheEnd, FS_Subset DEF IInv, CounterBounded
  <2>3. \A r \in Requests : pc[r] # "ALREADY_ISSUED"
    BY <2>1 DEF IInv, ControlAgrees, Duplicate
  <2>4. CASE \E r \in Requests : pc[r] = "SOLD_OUT"
    <3>1. issuedCount + Repeats >= TotalStock
      BY <2>4 DEF Balanced
    <3>2. Where(pc, {"ALREADY_ISSUED"}) = {}
      BY <2>3 DEF Where
    <3>3. Repeats = 0
      BY <3>2, FS_EmptySet DEF Repeats
    <3>4. Cardinality(coupons) >= TotalStock
      BY <2>2, <3>1, <3>3, InTheEnd
    <3>5. QED  BY <2>1, <2>2, <3>4
  <2>5. CASE \A r \in Requests : pc[r] # "SOLD_OUT"
    <3>1. \A r \in Requests : pc[r] = "ISSUED"
      BY <2>3, <2>5, InTheEnd DEF At, Where
    <3>2. coupons = Requests
      BY <2>1, <3>1 DEF IInv, ControlAgrees
    <3>3. QED  BY <2>1, <2>2, <3>2
  <2>6. QED  BY <2>4, <2>5
<1>2. QED  BY <1>1, BalancedHolds, PTL

-----------------------------------------------------------------------------
(* The route around the strategy, for any number of requests, copies, keys *)
(* and windows.                                                            *)

(* A step of the strategy moves one request, keeps every coupon, and never *)
(* ends in "DEAD".                                                         *)
LEMMA StepMoves ==
  ASSUME TypeOK, NEW r \in Requests, Step(r)
  PROVE  /\ userKey' = userKey /\ coupons \subseteq coupons'
         /\ \A q \in Requests : q # r => pc'[q] = pc[q]
         /\ pc'[r] \in Labels \cup Answers
<1> USE DEF TypeOK, DbTypeOK, Labels, Answers
<1>1. CASE Lookup(r)
  BY <1>1 DEF Lookup, FindCampaign, Resolve, Goto, dbVars
<1>2. CASE Reserve(r)
  BY <1>2 DEF Reserve, AddIssued, Settle, Resolve, LoseAck, Goto, dbVars
<1>3. CASE Create(r)
  BY <1>3 DEF Create, InsertCoupon, Settle, Resolve, LoseAck, Goto, dbVars
<1>4. CASE Rollback(r)
  BY <1>4 DEF Rollback, AddIssued, Settle, Resolve, LoseAck, Goto
<1>5. CASE Reject(r, Catches)
  BY <1>5 DEF Reject, Catches, Goto, dbVars
<1>6. QED  BY <1>1, <1>2, <1>3, <1>4, <1>5 DEF Step

(* Every step of the route is a step of the strategy, or none of its.      *)
LEMMA RouteStepsAreSteps == [RouteNext]_allVars => [Next]_couponDbVars
<1> SUFFICES ASSUME [RouteNext]_allVars PROVE [Next]_couponDbVars
  OBVIOUS
<1>1. ASSUME NEW r \in Requests, RouteStep(r) PROVE [Next]_couponDbVars
  <2>1. Step(r) \/ UNCHANGED couponDbVars
    BY <1>1 DEF RouteStep, Hit, SetExpiry, Replay, RejectForm, Handle
  <2>2. QED  BY <2>1 DEF Next
<1>2. CASE RouteStops
  BY <1>2 DEF RouteStops, Next
<1>3. CASE CreateCampaign
  BY <1>3 DEF Next
<1>4. CASE UNCHANGED couponDbVars
  BY <1>4
<1>5. QED
  BY <1>1, <1>2, <1>3, <1>4 DEF RouteNext, Done, allVars

(* What the middlewares do, they do around the atomic strategy: a          *)
(* behaviour of the route is one of the strategy, so all that is proved of *)
(* the strategy holds behind them (campaigns.ts:94-122).                   *)
THEOREM RouteImplementsStrategy == RouteSpec => Spec
<1>1. RouteInit => Init
  BY DEF RouteInit
<1>2. QED  BY <1>1, RouteStepsAreSteps, PTL DEF RouteSpec, Spec

-----------------------------------------------------------------------------
(* The parts of RouteInv about keys and answers, and those about time.     *)

RouteTypes ==
  /\ key \in [Requests -> Keys \cup {NoKey}]
  /\ gate \in [Requests -> Gates]
  /\ reply \in [Requests -> Replies]
  /\ CacheTypeOK(Stored)

Answering == RouteTypes /\ GateAgrees /\ CacheAgrees /\ AnswersKept

Timing == LimitTypeOK /\ TimerAgrees

LEMMA RouteInvParts == RouteInv <=> TypeOK /\ Answering /\ Timing
BY DEF RouteInv, RouteTypeOK, RouteTypes, Answering, Timing

LEMMA StoredAnswers ==
  /\ "none" \notin Stored /\ Stored \subseteq Replies
  /\ {"LIMITED", "UNAUTHORIZED", "ERROR"} \cap Stored = {}
BY DEF Stored, Replies, Answers

(* The SETs on their way, one by one.                                      *)
LEMMA UnsentFits ==
  ASSUME RouteTypes
  PROVE  /\ Len(unsent) \in Nat /\ DOMAIN unsent = 1 .. Len(unsent)
         /\ \A i \in DOMAIN unsent : unsent[i] \in [key : Keys, answer : Stored]
<1>1. unsent \in Seq([key : Keys, answer : Stored])
  BY DEF RouteTypes, CacheTypeOK
<1>2. QED  BY <1>1, LenProperties

(* A request that goes on to the next middleware.                          *)
LEMMA PassKeeps ==
  ASSUME Answering, NEW r \in Requests, NEW g \in {"expire", "get", "in"}, Pass(r, g),
         gate[r] # "closed", pc[r] # "start" => g = "in",
         g = "get" => key[r] # NoKey,
         UNCHANGED <<couponDbVars, cacheVars>>
  PROVE  Answering'
<1> USE DEF Answering, RouteTypes
<1>1. /\ gate' = [gate EXCEPT ![r] = g] /\ reply[r] = "none"
      /\ UNCHANGED <<key, reply, cache, unsent, forgotten, pc, userKey>>
  BY DEF Pass, couponDbVars, requestVars, cacheVars, GateAgrees
<1>2. RouteTypes'
  BY <1>1 DEF Gates, CacheTypeOK
<1>3. GateAgrees'
  BY <1>1 DEF GateAgrees
<1>4. CacheAgrees' /\ AnswersKept'
  BY <1>1 DEF CacheAgrees, AnswersKept, Backed
<1>5. QED  BY <1>2, <1>3, <1>4

(* A request that is answered: its answer is on its way to the cache, or   *)
(* it came from there, or it is not to be kept.                            *)
LEMMA CloseKeeps ==
  ASSUME Answering, NEW r \in Requests, NEW a \in Replies \ {"none"}, Close(r, a),
         gate[r] # "closed", userKey' = userKey,
         \A q \in Requests : q # r => pc'[q] = pc[q],
         \/ Store(key[r], a) /\ a \in Stored \cup {"ERROR"}
         \/ /\ UNCHANGED cacheVars
            /\ a \in Stored => key[r] \in Keys /\ cache[key[r]] = a
  PROVE  Answering'
<1> USE DEF Answering, RouteTypes
<1>1. /\ gate' = [gate EXCEPT ![r] = "closed"] /\ reply' = [reply EXCEPT ![r] = a]
      /\ key' = key /\ reply[r] = "none"
  BY DEF Close, GateAgrees
<1>2. \A k, x : x # "none" /\ Backed(k, x) =>
                \E s \in Requests : key'[s] = k /\ reply'[s] = x
  BY <1>1 DEF Backed
<1>3. \E s \in Requests : key'[s] = key[r] /\ reply'[s] = a
  BY <1>1
<1>0. \A i \in DOMAIN unsent : unsent[i] \in [key : Keys, answer : Stored]
  BY UnsentFits
<1>4. GateAgrees'
  BY <1>1 DEF GateAgrees
<1>5. CASE UNCHANGED cacheVars /\ (a \in Stored => key[r] \in Keys /\ cache[key[r]] = a)
  <2>1. UNCHANGED <<cache, unsent, forgotten>>
    BY <1>5 DEF cacheVars
  <2>2. RouteTypes'
    BY <1>1, <2>1 DEF Gates, CacheTypeOK
  <2>3. CacheAgrees'
    <3>1. \A k \in Keys : cache[k] # "none" =>
                          \E s \in Requests : key'[s] = k /\ reply'[s] = cache[k]
      BY <1>2 DEF CacheAgrees
    <3>2. \A i \in DOMAIN unsent :
            \E s \in Requests : key'[s] = unsent[i].key /\ reply'[s] = unsent[i].answer
      BY <1>0, <1>2, StoredAnswers DEF CacheAgrees
    <3>3. QED  BY <2>1, <3>1, <3>2 DEF CacheAgrees, Backed
  <2>4. AnswersKept'
    BY <1>1, <1>5, <2>1, StoredAnswers DEF AnswersKept
  <2>5. QED  BY <1>4, <2>2, <2>3, <2>4
<1>6. CASE /\ Store(key[r], a) /\ a \in Stored \cup {"ERROR"}
           /\ key[r] = NoKey \/ a = "ERROR"
  <2>1. UNCHANGED <<cache, unsent, forgotten>>
    BY <1>6 DEF Store
  <2>2. RouteTypes'
    BY <1>1, <2>1 DEF Gates, CacheTypeOK
  <2>3. CacheAgrees'
    <3>1. \A k \in Keys : cache[k] # "none" =>
                          \E s \in Requests : key'[s] = k /\ reply'[s] = cache[k]
      BY <1>2 DEF CacheAgrees
    <3>2. \A i \in DOMAIN unsent :
            \E s \in Requests : key'[s] = unsent[i].key /\ reply'[s] = unsent[i].answer
      BY <1>0, <1>2, StoredAnswers DEF CacheAgrees
    <3>3. QED  BY <2>1, <3>1, <3>2 DEF CacheAgrees, Backed
  <2>4. AnswersKept'
    BY <1>1, <1>6, <2>1, StoredAnswers DEF AnswersKept
  <2>5. QED  BY <1>4, <2>2, <2>3, <2>4
<1>7. CASE /\ Store(key[r], a) /\ a \in Stored
           /\ key[r] # NoKey
  <2> DEFINE new == [key |-> key[r], answer |-> a]
  <2>1. /\ unsent' = Append(unsent, new) /\ UNCHANGED <<cache, forgotten>>
        /\ new \in [key : Keys, answer : Stored]
    BY <1>7, StoredAnswers DEF Store
  <2>2. /\ unsent' \in Seq([key : Keys, answer : Stored])
        /\ DOMAIN unsent = 1 .. Len(unsent) /\ Len(unsent) \in Nat
        /\ DOMAIN unsent' = 1 .. Len(unsent) + 1
        /\ \A i \in DOMAIN unsent : unsent'[i] = unsent[i]
        /\ unsent'[Len(unsent) + 1] = new
    BY <2>1 DEF CacheTypeOK
  <2>3. new.key = key[r] /\ new.answer = a
    OBVIOUS
  <2> HIDE DEF new
  <2>4. RouteTypes'
    BY <1>1, <2>1, <2>2 DEF Gates, CacheTypeOK
  <2>5. CacheAgrees'
    <3>1. \A k \in Keys : cache[k] # "none" =>
                          \E s \in Requests : key'[s] = k /\ reply'[s] = cache[k]
      BY <1>2 DEF CacheAgrees
    <3>2. ASSUME NEW i \in DOMAIN unsent'
          PROVE  \E s \in Requests : key'[s] = unsent'[i].key /\ reply'[s] = unsent'[i].answer
      <4>1. CASE i \in DOMAIN unsent
        <5>1. unsent[i].answer # "none" /\ Backed(unsent[i].key, unsent[i].answer)
          BY <1>0, <4>1, StoredAnswers DEF CacheAgrees
        <5>2. QED  BY <1>2, <2>2, <4>1, <5>1
      <4>2. CASE i = Len(unsent) + 1
        BY <1>3, <2>2, <2>3, <4>2
      <4>3. QED  BY <2>2, <4>1, <4>2
    <3>3. QED  BY <2>1, <3>1, <3>2 DEF CacheAgrees, Backed
  <2>6. AnswersKept'
    <3> SUFFICES ASSUME NEW s \in Requests, key[s] # NoKey, reply'[s] \in Stored
                 PROVE  \/ cache[key[s]] # "none"
                        \/ \E i \in DOMAIN unsent' : unsent'[i].key = key[s]
                        \/ key[s] \in forgotten
      BY <1>1, <2>1 DEF AnswersKept
    <3>1. CASE s = r
      BY <2>2, <2>3, <3>1
    <3>2. CASE s # r
      BY <1>1, <2>2, <3>2 DEF AnswersKept
    <3>3. QED  BY <3>1, <3>2
  <2>7. QED  BY <1>4, <2>4, <2>5, <2>6
<1>8. QED  BY <1>5, <1>6, <1>7, StoredAnswers

(* What the cache does by itself: the oldest SET lands, an answer expires. *)
LEMMA CacheKeeps ==
  ASSUME Answering, Land \/ \E k \in Keys : Lapse(k),
         UNCHANGED <<couponDbVars, routeVars>>
  PROVE  Answering'
<1> USE DEF Answering, RouteTypes
<1>1. UNCHANGED <<key, gate, reply, pc, userKey>>
  BY DEF couponDbVars, requestVars, routeVars
<1>2. GateAgrees'
  BY <1>1 DEF GateAgrees
<1>3. CASE Land
  <2>1. /\ unsent # <<>> /\ unsent' = Tail(unsent) /\ forgotten' = forgotten
        /\ cache' = [cache EXCEPT ![Head(unsent).key] = Head(unsent).answer]
    BY <1>3 DEF Land
  <2>2. /\ unsent' \in Seq([key : Keys, answer : Stored])
        /\ Head(unsent) = unsent[1] /\ 1 \in DOMAIN unsent
        /\ DOMAIN unsent = 1 .. Len(unsent) /\ Len(unsent) \in Nat \ {0}
        /\ DOMAIN unsent' = 1 .. Len(unsent) - 1
        /\ \A i \in DOMAIN unsent' : i + 1 \in DOMAIN unsent /\ unsent'[i] = unsent[i + 1]
    BY <2>1 DEF CacheTypeOK
  <2>3. unsent[1].key \in Keys /\ unsent[1].answer \in Stored
    BY <2>2, UnsentFits
  <2>4. RouteTypes'
    BY <1>1, <2>1, <2>2, <2>3 DEF CacheTypeOK
  <2>5. \A k \in Keys : cache'[k] = IF k = unsent[1].key THEN unsent[1].answer ELSE cache[k]
    BY <2>1, <2>2, <2>3 DEF CacheTypeOK
  <2>6. CacheAgrees'
    <3>1. ASSUME NEW k \in Keys, cache'[k] # "none" PROVE Backed(k, cache'[k])
      BY <2>2, <2>5, <3>1 DEF CacheAgrees
    <3>2. ASSUME NEW i \in DOMAIN unsent' PROVE Backed(unsent'[i].key, unsent'[i].answer)
      BY <2>2 DEF CacheAgrees
    <3>3. QED  BY <1>1, <3>1, <3>2 DEF CacheAgrees, Backed
  <2>7. AnswersKept'
    <3> SUFFICES ASSUME NEW s \in Requests, key[s] # NoKey, reply[s] \in Stored
                 PROVE  \/ cache'[key[s]] # "none"
                        \/ \E i \in DOMAIN unsent' : unsent'[i].key = key[s]
                        \/ key[s] \in forgotten
      BY <1>1, <2>1 DEF AnswersKept
    <3>1. key[s] \in Keys
      OBVIOUS
    <3>2. CASE cache[key[s]] # "none"
      BY <2>3, <2>5, <3>1, <3>2, StoredAnswers
    <3>3. ASSUME NEW i \in DOMAIN unsent, unsent[i].key = key[s] PROVE  \/ cache'[key[s]] # "none"
                 \/ \E j \in DOMAIN unsent' : unsent'[j].key = key[s]
      <4>1. CASE i = 1
        BY <2>3, <2>5, <3>1, <3>3, <4>1, StoredAnswers
      <4>2. CASE i # 1
        <5>1. i - 1 \in DOMAIN unsent' /\ (i - 1) + 1 = i
          BY <2>2, <4>2
        <5>2. QED  BY <2>2, <3>3, <5>1
      <4>3. QED  BY <4>1, <4>2
    <3>4. QED  BY <3>2, <3>3 DEF AnswersKept
  <2>8. QED  BY <1>2, <2>4, <2>6, <2>7
<1>4. ASSUME NEW k \in Keys, Lapse(k) PROVE Answering'
  <2>1. /\ cache' = [cache EXCEPT ![k] = "none"] /\ unsent' = unsent
        /\ forgotten' = forgotten \cup {k}
    BY <1>4 DEF Lapse
  <2>2. RouteTypes'
    BY <1>1, <2>1 DEF CacheTypeOK
  <2>3. CacheAgrees'
    BY <1>1, <2>1 DEF CacheAgrees, Backed, CacheTypeOK
  <2>4. AnswersKept'
    BY <1>1, <2>1 DEF AnswersKept, CacheTypeOK
  <2>5. QED  BY <1>2, <2>2, <2>3, <2>4
<1>5. QED  BY <1>3, <1>4

(* The process ends: what was on its way to the cache counts as forgotten. *)
LEMMA StopKeepsAnswers ==
  ASSUME Answering, TypeOK, RouteStops
  PROVE  Answering'
<1> USE DEF Answering, RouteTypes
<1>1. /\ gate' = [r \in Requests |-> IF Inside(r) THEN "closed" ELSE gate[r]]
      /\ unsent' = <<>> /\ cache' = cache
      /\ forgotten' = forgotten \cup {unsent[i].key : i \in DOMAIN unsent}
      /\ UNCHANGED <<key, reply>>
  BY DEF RouteStops, LoseUnsent
<1>2. userKey' = userKey /\ \A r \in Requests : pc[r] = "start" => pc'[r] = "start"
  BY DEF RouteStops, ServerStops, InFlight, couponDbVars, requestVars, TypeOK, DbTypeOK
<1>3. RouteTypes'
  <2>1. forgotten' \subseteq Keys
    BY <1>1, UnsentFits DEF CacheTypeOK
  <2>2. <<>> \in Seq([key : Keys, answer : Stored])
    BY EmptySeq
  <2>3. QED  BY <1>1, <2>1, <2>2 DEF CacheTypeOK, Gates
<1>4. GateAgrees'
  BY <1>1, <1>2 DEF GateAgrees, Inside
<1>5. CacheAgrees'
  <2>1. DOMAIN unsent' = {}
    BY <1>1
  <2>2. QED  BY <1>1, <2>1 DEF CacheAgrees, Backed
<1>6. AnswersKept'
  BY <1>1 DEF AnswersKept
<1>7. QED  BY <1>3, <1>4, <1>5, <1>6

(* A step of the strategy that does not answer yet.                        *)
LEMMA HandlingKeeps ==
  ASSUME Answering, NEW r \in Requests, gate[r] = "in", userKey' = userKey,
         \A q \in Requests : q # r => pc'[q] = pc[q],
         UNCHANGED <<routeVars, cacheVars>>
  PROVE  Answering'
BY DEF Answering, RouteTypes, CacheTypeOK, GateAgrees, CacheAgrees, AnswersKept, Backed, routeVars, cacheVars

-----------------------------------------------------------------------------
(* The rate limiter's counter.                                             *)

(* A step that neither touches the counter nor moves anybody to or from    *)
(* the EXPIRE.                                                             *)
LEMMA TimingStays ==
  ASSUME Timing, UNCHANGED limitVars,
         \A q \in Requests : gate'[q] = "expire" <=> gate[q] = "expire"
  PROVE  Timing'
BY DEF Timing, LimitTypeOK, TimerAgrees, limitVars

(* What the limiter lets through goes on, what it stops is answered.       *)
LEMMA Admission ==
  ASSUME RouteTypes, NEW r \in Requests, NEW count, Admit(r, count)
  PROVE  /\ \/ \E a \in {"LIMITED", "UNAUTHORIZED"} : Close(r, a)
            \/ \E g \in {"in", "get"} : Pass(r, g) /\ (g = "get" => key[r] # NoKey)
         /\ gate'[r] \in {"closed", "in", "get"}
         /\ \A q \in Requests : q # r => gate'[q] = gate[q]
BY DEF RouteTypes, Admit, Close, Pass

LEMMA HitKeepsTiming ==
  ASSUME RouteTypes, Timing, NEW r \in Requests, Hit(r)
  PROVE  Timing'
<1> USE DEF Timing, LimitTypeOK
<1>1. /\ gate[r] = "out" /\ UNCHANGED <<timed, orphaned>>
      /\ \/ hits' = hits + 1 /\ doubleHits' = doubleHits
         \/ hits' = hits + 2 /\ doubleHits' = doubleHits + 1 /\ doubleHits < MaxDoubleHits
      /\ hits \in Nat /\ orphaned \in Nat /\ doubleHits \in 0 .. MaxDoubleHits
      /\ MaxDoubleHits \in Nat
  BY LimitAssumption DEF Hit, Incr
<1>2. LimitTypeOK'
  BY <1>1
<1>3. \A q \in Requests : q # r => gate'[q] = gate[q]
  BY Admission DEF Hit, Pass, RouteTypes
<1>4. CASE hits' = 1
  <2>1. /\ hits = 0 /\ ~timed /\ gate'[r] = "expire"
        /\ \A q \in Requests : gate[q] # "expire"
    BY <1>1, <1>4 DEF Hit, Pass, RouteTypes, TimerAgrees
  <2>2. TimerAgrees'
    BY <1>1, <1>3, <1>4, <2>1 DEF TimerAgrees
  <2>3. QED  BY <1>2, <2>2
<1>5. CASE hits' # 1
  <2>1. gate'[r] # "expire"
    BY <1>5, Admission DEF Hit
  <2>2. \A q \in Requests : gate'[q] = "expire" <=> gate[q] = "expire"
    BY <1>1, <1>3, <2>1
  <2>3. TimerAgrees'
    BY <1>1, <1>5, <2>2 DEF TimerAgrees
  <2>4. QED  BY <1>2, <2>3
<1>6. QED  BY <1>4, <1>5

LEMMA ExpiryKeepsTiming ==
  ASSUME RouteTypes, Timing, NEW r \in Requests, SetExpiry(r)
  PROVE  Timing'
<1>1. /\ gate[r] = "expire" /\ timed' = TRUE /\ UNCHANGED <<hits, doubleHits, orphaned>>
      /\ gate'[r] # "expire" /\ \A q \in Requests : q # r => gate'[q] = gate[q]
  BY Admission DEF SetExpiry, Expire
<1>2. QED  BY <1>1 DEF Timing, LimitTypeOK, TimerAgrees

LEMMA StopKeepsTiming ==
  ASSUME RouteTypes, Timing, RouteStops
  PROVE  Timing'
<1> DEFINE waiting == {r \in Requests : gate[r] = "expire"}
<1>1. /\ orphaned' = orphaned + Cardinality(waiting) /\ UNCHANGED <<hits, timed, doubleHits>>
      /\ \A r \in Requests : gate'[r] # "expire"
  BY DEF RouteStops, Orphan, Inside
<1>2. IsFiniteSet(waiting)
  BY FS_Subset, RequestsAssumption
<1>3. (\E r \in Requests : gate[r] = "expire") => waiting # {}
  OBVIOUS
<1> HIDE DEF waiting
<1>4. Cardinality(waiting) \in Nat /\ (waiting # {} => Cardinality(waiting) > 0)
  BY <1>2, FS_CardinalityType, FS_EmptySet
<1>5. QED  BY <1>1, <1>3, <1>4 DEF Timing, LimitTypeOK, TimerAgrees

LEMMA WindowKeepsTiming ==
  ASSUME RouteTypes, Timing, WindowEnds, UNCHANGED routeVars
  PROVE  Timing'
<1>1. /\ timed /\ hits' = 0 /\ timed' = FALSE
      /\ UNCHANGED <<doubleHits, orphaned, gate>>
  BY DEF WindowEnds, routeVars
<1>2. \A r \in Requests : gate[r] # "expire"
  BY <1>1 DEF Timing, TimerAgrees
<1>3. LimitTypeOK'
  BY <1>1 DEF Timing, LimitTypeOK
<1>4. TimerAgrees'
  BY <1>1, <1>2 DEF TimerAgrees
<1>5. QED  BY <1>3, <1>4 DEF Timing

-----------------------------------------------------------------------------
(* The answers that are told are true of somebody who asked.               *)

(* An answer told before stays true; a new one has to be.                  *)
Backs(r, a) ==
  /\ a = "ISSUED" => \E s \in Askers(r) : s \in coupons
  /\ a = "ALREADY_ISSUED" => \E s \in Askers(r) : Duplicate(s)

LEMMA TruthStays ==
  ASSUME TypeOK, RepliesTruthful, userKey' = userKey, coupons \subseteq coupons',
         \/ UNCHANGED <<reply, key>>
         \/ \E r \in Requests, a \in Replies :
              Close(r, a) /\ reply \in [Requests -> Replies] /\ Backs(r, a)'
  PROVE  RepliesTruthful'
<1>0. key' = key
  BY DEF Close
<1>1. ASSUME NEW q \in Requests, NEW a, Backs(q, a) PROVE Backs(q, a)'
  <2>1. Askers(q)' = Askers(q)
    BY <1>0 DEF Askers, SameKey
  <2>2. \A s \in Requests : Duplicate(s) => Duplicate(s)'
    BY DEF Duplicate
  <2>3. Askers(q) \subseteq Requests
    BY DEF Askers
  <2>4. QED  BY <1>1, <2>1, <2>2, <2>3 DEF Backs
<1>2. \A q \in Requests : Backs(q, reply[q])
  BY DEF RepliesTruthful, Backs
<1>3. ASSUME NEW q \in Requests, NEW b, reply'[q] = b PROVE Backs(q, b)'
  <2>1. CASE reply'[q] = reply[q]
    BY <1>1, <1>2, <1>3, <2>1
  <2>2. CASE reply'[q] # reply[q]
    <3>1. PICK r \in Requests, a \in Replies :
            Close(r, a) /\ reply \in [Requests -> Replies] /\ Backs(r, a)'
      BY <2>2
    <3>2. q = r /\ b = a
      BY <1>3, <2>2, <3>1 DEF Close
    <3>3. QED  BY <3>1, <3>2
  <2>3. QED  BY <2>1, <2>2
<1>4. QED  BY <1>3 DEF RepliesTruthful, Backs

(* What another was answered under the same key is as true of this one.    *)
LEMMA TruthShared ==
  ASSUME RepliesTruthful, NEW r \in Requests, NEW s \in Requests, SameKey(r, s)
  PROVE  Backs(r, reply[s])
<1>1. Askers(s) \subseteq Askers(r)
  BY DEF Askers, SameKey
<1>2. QED  BY <1>1 DEF RepliesTruthful, Backs

(* The invariant of the route: what the strategy keeps, what the           *)
(* middlewares keep, and the truth of what they tell.                      *)
Whole == IInv /\ Answering /\ Timing /\ RepliesTruthful

LEMMA WholeInit == RouteInit => Whole
<1> SUFFICES ASSUME RouteInit PROVE Whole
  OBVIOUS
<1>1. IInv
  BY InitInv DEF RouteInit
<1>2. Answering
  <2>1. <<>> \in Seq([key : Keys, answer : Stored]) /\ DOMAIN unsent = {}
    BY EmptySeq DEF RouteInit, CacheInit
  <2>2. QED
    BY <2>1 DEF RouteInit, CacheInit, Init, DbInit, Answering, RouteTypes, CacheTypeOK, Gates,
       Replies, GateAgrees, CacheAgrees, AnswersKept, Stored, Answers
<1>3. Timing /\ RepliesTruthful
  <2>1. /\ hits = 0 /\ timed = FALSE /\ doubleHits = 0 /\ orphaned = 0
        /\ gate = [r \in Requests |-> "out"] /\ reply = [r \in Requests |-> "none"]
    BY DEF RouteInit, LimitInit
  <2>2. LimitTypeOK
    <3>1. timed \in BOOLEAN
      BY <2>1
    <3>2. hits \in Nat /\ doubleHits \in 0 .. MaxDoubleHits /\ orphaned \in Nat
      BY <2>1, LimitAssumption
    <3>3. QED  BY <3>1, <3>2 DEF LimitTypeOK
  <2>3. TimerAgrees
    BY <2>1 DEF TimerAgrees
  <2>4. RepliesTruthful
    BY <2>1 DEF RepliesTruthful
  <2>5. QED  BY <2>2, <2>3, <2>4 DEF Timing
<1>4. QED  BY <1>1, <1>2, <1>3 DEF Whole

(* One request's step through the middlewares.                             *)
LEMMA RequestKeeps ==
  ASSUME Whole, NEW r \in Requests, RouteStep(r), IInv'
  PROVE  Answering' /\ Timing' /\ RepliesTruthful'
<1> USE DEF Whole
<1>0. TypeOK /\ RouteTypes /\ GateAgrees /\ CacheAgrees
  BY DEF IInv, Answering
<1>1. CASE Hit(r) \/ SetExpiry(r)
  <2>1. /\ gate[r] \in {"out", "expire"} /\ UNCHANGED <<couponDbVars, cacheVars>>
        /\ \/ Pass(r, "expire")
           \/ \E a \in {"LIMITED", "UNAUTHORIZED"} : Close(r, a)
           \/ \E g \in {"in", "get"} : Pass(r, g) /\ (g = "get" => key[r] # NoKey)
    BY <1>0, <1>1, Admission DEF Hit, SetExpiry
  <2>2. pc[r] = "start" /\ UNCHANGED <<userKey, pc, coupons>>
    BY <1>0, <2>1 DEF GateAgrees, couponDbVars, dbVars, requestVars
  <2>3. CASE \E a \in {"LIMITED", "UNAUTHORIZED"} : Close(r, a)
    <3>1. PICK a \in {"LIMITED", "UNAUTHORIZED"} : Close(r, a)
      BY <2>3
    <3>2. a \in Replies \ {"none"} /\ a \notin Stored
      BY StoredAnswers DEF Replies
    <3>3. Answering'
      BY <2>1, <2>2, <3>1, <3>2, CloseKeeps
    <3>4. Backs(r, a)'
      BY <3>1 DEF Backs
    <3>5. RepliesTruthful'
      BY <1>0, <2>2, <3>1, <3>2, <3>4, TruthStays DEF RouteTypes
    <3>6. QED  BY <1>0, <1>1, <3>3, <3>5, HitKeepsTiming, ExpiryKeepsTiming
  <2>4. CASE \E g \in {"in", "get", "expire"} : Pass(r, g) /\ (g = "get" => key[r] # NoKey)
    <3>1. Answering'
      BY <2>1, <2>2, <2>4, PassKeeps
    <3>2. RepliesTruthful'
      BY <1>0, <2>2, <2>4, TruthStays DEF Pass
    <3>3. QED  BY <1>0, <1>1, <3>1, <3>2, HitKeepsTiming, ExpiryKeepsTiming
  <2>5. QED  BY <2>1, <2>3, <2>4
<1>2. CASE Replay(r)
  <2>1. /\ gate[r] = "get" /\ key[r] \in Keys /\ key[r] # NoKey /\ pc[r] = "start"
        /\ UNCHANGED <<limitVars, cacheVars, userKey, pc, coupons, couponDbVars>>
    BY <1>0, <1>2 DEF Replay, GateAgrees, RouteTypes, couponDbVars, dbVars, requestVars
  <2>2. CASE cache[key[r]] = "none"
    <3>1. Pass(r, "in")
      BY <1>2, <2>2 DEF Replay
    <3>2. Answering'
      BY <2>1, <3>1, PassKeeps
    <3>3. RepliesTruthful'
      BY <1>0, <2>1, <3>1, TruthStays DEF Pass
    <3>4. Timing'
      BY <1>0, <2>1, <3>1, TimingStays DEF Pass, RouteTypes
    <3>5. QED  BY <3>2, <3>3, <3>4
  <2>3. CASE cache[key[r]] # "none"
    <3>0. PICK a : a = cache[key[r]]
      OBVIOUS
    <3>1. Close(r, a) /\ a \in Stored /\ a \in Replies \ {"none"}
      BY <1>0, <1>2, <2>1, <2>3, <3>0, StoredAnswers DEF Replay, RouteTypes, CacheTypeOK
    <3>2. PICK s \in Requests : key[s] = key[r] /\ reply[s] = a
      BY <1>0, <2>1, <2>3, <3>0 DEF CacheAgrees, Backed
    <3>3. SameKey(r, s)
      BY <2>1, <3>2 DEF SameKey
    <3>4. Answering'
      BY <2>1, <3>0, <3>1, CloseKeeps
    <3>5. RepliesTruthful'
      <4>1. Backs(r, a)
        BY <3>2, <3>3, TruthShared
      <4>2. UNCHANGED <<userKey, key, coupons>>
        BY <2>1, <3>1 DEF Close
      <4>3. Backs(r, a)'
        BY <4>1, <4>2 DEF Backs, Askers, SameKey, Duplicate
      <4>4. QED  BY <1>0, <2>1, <3>1, <4>3, TruthStays DEF RouteTypes
    <3>6. Timing'
      BY <1>0, <2>1, <3>1, TimingStays DEF Close, RouteTypes
    <3>7. QED  BY <3>4, <3>5, <3>6
  <2>4. QED  BY <2>2, <2>3
<1>3. CASE RejectForm(r)
  <2>1. PICK a \in {"BAD_REQUEST", "ERROR"} :
          /\ gate[r] = "in" /\ Close(r, a) /\ Store(key[r], a)
          /\ UNCHANGED <<couponDbVars, limitVars>>
    BY <1>3 DEF RejectForm
  <2>2. /\ UNCHANGED <<userKey, pc, coupons>>
        /\ a \in Replies \ {"none"} /\ a \in Stored \cup {"ERROR"}
    BY <2>1 DEF couponDbVars, dbVars, requestVars, Replies, Stored, Answers
  <2>3. Answering'
    BY <2>1, <2>2, CloseKeeps
  <2>4. Backs(r, a)'
    BY <2>1 DEF Backs
  <2>5. RepliesTruthful'
    BY <1>0, <2>1, <2>2, <2>4, TruthStays DEF RouteTypes
  <2>6. Timing'
    BY <1>0, <2>1, TimingStays DEF Close, RouteTypes
  <2>7. QED  BY <2>3, <2>5, <2>6
<1>4. CASE Handle(r)
  <2>1. gate[r] = "in" /\ Step(r) /\ UNCHANGED limitVars
    BY <1>4 DEF Handle
  <2>2. /\ userKey' = userKey /\ coupons \subseteq coupons'
        /\ \A q \in Requests : q # r => pc'[q] = pc[q]
        /\ pc'[r] \in Labels \cup Answers
    BY <1>0, <2>1, StepMoves
  <2>3. CASE pc'[r] \in Outcomes
    <3>0. PICK a : a = pc'[r]
      OBVIOUS
    <3>1. /\ Close(r, a) /\ Store(key[r], a)
          /\ a \in Replies \ {"none"} /\ a \in Stored \cup {"ERROR"}
      BY <1>4, <2>2, <2>3, <3>0 DEF Handle, Labels, Outcomes, Answers, Replies, Stored
    <3>2. Backs(r, a)'
      <4>1. /\ a = "ISSUED" => r \in coupons'
            /\ a = "ALREADY_ISSUED" => Duplicate(r)'
        BY <3>0 DEF IInv, ControlAgrees
      <4>2. r \in Askers(r)'
        BY DEF Askers
      <4>3. QED  BY <4>1, <4>2 DEF Backs
    <3>3. Answering'
      BY <2>1, <2>2, <3>1, CloseKeeps
    <3>4. RepliesTruthful'
      BY <1>0, <2>2, <3>1, <3>2, TruthStays DEF RouteTypes
    <3>5. Timing'
      BY <1>0, <2>1, <3>1, TimingStays DEF Close, RouteTypes
    <3>6. QED  BY <3>3, <3>4, <3>5
  <2>4. CASE pc'[r] \notin Outcomes
    <3>1. UNCHANGED <<routeVars, cacheVars>>
      BY <1>4, <2>4 DEF Handle
    <3>2. Answering'
      BY <2>1, <2>2, <3>1, HandlingKeeps
    <3>3. RepliesTruthful'
      BY <1>0, <2>2, <3>1, TruthStays DEF routeVars
    <3>4. Timing'
      BY <2>1, <3>1, TimingStays DEF routeVars
    <3>5. QED  BY <3>2, <3>3, <3>4
  <2>5. QED  BY <2>3, <2>4
<1>5. QED  BY <1>1, <1>2, <1>3, <1>4 DEF RouteStep

LEMMA WholeNext == Whole /\ [RouteNext]_allVars => Whole'
<1> SUFFICES ASSUME Whole, [RouteNext]_allVars PROVE Whole'
  OBVIOUS
<1> USE DEF Whole
<1>0. IInv' /\ TypeOK /\ RouteTypes
  BY RouteStepsAreSteps, NextInv DEF IInv, Answering
<1>1. ASSUME NEW r \in Requests, RouteStep(r) PROVE Whole'
  BY <1>0, <1>1, RequestKeeps
<1>2. CASE RouteStops
  <2>1. UNCHANGED <<userKey, coupons, reply, key>>
    BY <1>2 DEF RouteStops, ServerStops, couponDbVars, dbVars, requestVars
  <2>2. QED  BY <1>0, <1>2, <2>1, StopKeepsAnswers, StopKeepsTiming, TruthStays
<1>3. CASE CreateCampaign /\ UNCHANGED <<limitVars, cacheVars, routeVars>>
  <2>1. UNCHANGED <<userKey, pc, coupons, key, gate, reply, cache, unsent, forgotten>>
    BY <1>3 DEF CreateCampaign, requestVars, routeVars, cacheVars
  <2>2. Answering'
    BY <2>1 DEF Answering, RouteTypes, CacheTypeOK, GateAgrees, CacheAgrees, AnswersKept,
       Backed
  <2>3. QED  BY <1>0, <1>3, <2>1, <2>2, TimingStays, TruthStays
<1>4. CASE /\ Land \/ \E k \in Keys : Lapse(k)
           /\ UNCHANGED <<couponDbVars, limitVars, routeVars>>
  <2>1. UNCHANGED <<userKey, coupons, gate, reply, key>>
    BY <1>4 DEF couponDbVars, dbVars, requestVars, routeVars
  <2>2. QED  BY <1>0, <1>4, <2>1, CacheKeeps, TimingStays, TruthStays
<1>5. CASE WindowEnds /\ UNCHANGED <<couponDbVars, cacheVars, routeVars>>
  <2>1. UNCHANGED <<userKey, pc, coupons, key, gate, reply, cache, unsent, forgotten>>
    BY <1>5 DEF couponDbVars, dbVars, requestVars, routeVars, cacheVars
  <2>2. Answering'
    BY <2>1 DEF Answering, RouteTypes, CacheTypeOK, GateAgrees, CacheAgrees, AnswersKept,
       Backed
  <2>3. QED  BY <1>0, <1>5, <2>1, <2>2, WindowKeepsTiming, TruthStays
<1>6. CASE UNCHANGED allVars
  <2>1. UNCHANGED <<userKey, pc, coupons, key, gate, reply, cache, unsent, forgotten, limitVars>>
    BY <1>6 DEF allVars, couponDbVars, dbVars, requestVars, routeVars, cacheVars
  <2>2. Answering'
    BY <2>1 DEF Answering, RouteTypes, CacheTypeOK, GateAgrees, CacheAgrees, AnswersKept,
       Backed
  <2>3. QED  BY <1>0, <2>1, <2>2, TimingStays, TruthStays
<1>7. QED
  BY <1>1, <1>2, <1>3, <1>4, <1>5, <1>6 DEF RouteNext, Done

LEMMA WholeHolds == RouteSpec => []Whole
<1>1. QED  BY WholeInit, WholeNext, PTL DEF RouteSpec

(* The counter has a time to live or somebody about to give it one, the    *)
(* handler runs behind the gate only, and what is kept under a key was     *)
(* answered to that key (rateLimit.ts:33-35, idempotency.ts:24-52).        *)
THEOREM RouteInvariance == RouteSpec => []RouteInv
<1>1. Whole => RouteInv
  BY RouteInvParts DEF Whole, IInv
<1>2. QED  BY <1>1, WholeHolds, PTL

(* Whoever sends a key, and whichever keys are shared: fresh or replayed,  *)
(* a 201 stands for a coupon of a request with that key and a 409 for a    *)
(* coupon of a user who sent it (idempotency.ts:22, 33-38;                 *)
(* campaigns.ts:106-122).                                                  *)
THEOREM RepliesAreTruthful == RouteSpec => []RepliesTruthful
<1>1. Whole => RepliesTruthful
  BY DEF Whole
<1>2. QED  BY <1>1, WholeHolds, PTL

(* A request is let through to the handler after another with its key was  *)
(* answered only if that answer has expired or was lost                    *)
(* (idempotency.ts:24-38).                                                 *)
THEOREM CopiesReplayed == RouteSpec => ReplayProtects
<1>1. Whole /\ [RouteNext]_allVars => [RunsAgainIfForgotten]_allVars
  <2> SUFFICES ASSUME Whole, RouteNext, NEW r \in Requests, NEW s \in Requests,
                      SameKey(r, s), gate[r] = "get", gate'[r] = "in", reply[s] \in Stored
               PROVE  key[r] \in forgotten
    BY DEF RunsAgainIfForgotten
  <2>0. RouteTypes /\ AnswersKept
    BY DEF Whole, Answering
  <2>1. Replay(r)
    <3>1. ASSUME NEW q \in Requests, RouteStep(q), q # r PROVE gate'[r] = gate[r]
      BY <2>0, <3>1, Admission
      DEF RouteStep, Hit, SetExpiry, Replay, RejectForm, Handle, Pass, Close, RouteTypes, routeVars
    <3>2. RouteStep(r) => Replay(r)
      BY DEF RouteStep, Hit, SetExpiry, RejectForm, Handle
    <3>3. RouteStops => gate'[r] # "in"
      BY DEF RouteStops, Inside
    <3>4. UNCHANGED routeVars => gate'[r] = gate[r]
      BY DEF routeVars
    <3>5. QED  BY <3>1, <3>2, <3>3, <3>4 DEF RouteNext, Done, allVars
  <2>2. unsent = <<>> /\ cache[key[r]] = "none"
    BY <2>0, <2>1 DEF Replay, Close, RouteTypes
  <2>3. DOMAIN unsent = {}
    BY <2>2
  <2>4. QED  BY <2>0, <2>2, <2>3 DEF AnswersKept, SameKey
<1>2. QED  BY <1>1, WholeHolds, PTL DEF RouteSpec, ReplayProtects
=============================================================================
