----------------------- MODULE IssueOptimistic_proofs -----------------------
(***************************************************************************)
(* The optimistic strategy for any number of requests, users, coupons in   *)
(* stock, attempts and failures: a swap that succeeds is safe, it oversells *)
(* by at most the lost acknowledgements, RETRY_EXHAUSTED is paid for by    *)
(* the success of others, and it implements the sale of CouponSale.        *)
(***************************************************************************)
EXTENDS IssueOptimistic, CouponDb_lemmas

(* The loop goes round again only while attempts are left.                 *)
AttemptsLeft ==
  \A r \in Requests : pc[r] \in {"start", "read", "cas"} => attempt[r] < MaxRetry

SlotLabels == {"create", "rollbackDup", "rollbackError"}

(* The parts of the invariant that are about one request at a time, and    *)
(* the accounting.                                                         *)
Loop == SwapIsSafe /\ RetriesArePaidFor /\ AttemptsLeft

LEMMA InitInv == Init => IInv /\ AttemptsLeft
<1> SUFFICES ASSUME Init PROVE IInv /\ AttemptsLeft
  OBVIOUS
<1>1. Holding = {} /\ coupons = {} /\ issuedCount = 0 /\ lostAcks = 0
  BY DEF Init, DbInit, Holding, At, Where
<1>2. TypeOK
  BY MaxRetryAssumption, StockAssumption, FaultAssumption
  DEF Init, DbInit, TypeOK, DbTypeOK
<1>3. SlotsCounted
  BY <1>1, FS_EmptySet, StockAssumption DEF SlotsCounted
<1>4. SwapIsSafe /\ RetriesArePaidFor /\ ControlAgrees /\ AttemptsLeft
  BY MaxRetryAssumption
  DEF Init, DbInit, SwapIsSafe, RetriesArePaidFor, ControlAgrees, Duplicate,
      AttemptsLeft
<1>5. QED  BY <1>2, <1>3, <1>4 DEF IInv

-----------------------------------------------------------------------------
(* Type correctness and the loop.                                          *)

LEMMA NextLoop ==
  ASSUME TypeOK, Loop, SlotsCounted, [Next]_vars
  PROVE  TypeOK' /\ Loop'
<1> USE DEF TypeOK, Loop, SwapIsSafe, RetriesArePaidFor, AttemptsLeft
<1>0. /\ TotalStock \in Nat /\ MaxRetry \in Nat \ {0}
      /\ DOMAIN pc = Requests /\ version \in Nat /\ issuedCount \in Int
  BY StockAssumption, MaxRetryAssumption DEF DbTypeOK
<1>1. CASE CreateCampaign /\ UNCHANGED loopVars
  BY <1>1 DEF CreateCampaign, requestVars, loopVars, DbTypeOK
<1>2. CASE ServerStops /\ UNCHANGED loopVars
  BY <1>2 DEF ServerStops, InFlight, Ended, Outcomes, Answers, loopVars, DbTypeOK
<1>3. ASSUME NEW r \in Requests, Step(r) PROVE TypeOK' /\ Loop'
  <2> USE DEF Labels, Outcomes, Answers
  <2>1. CASE Read(r)
    BY <1>0, <2>1 DEF Read, Resolve, Goto, dbVars, DbTypeOK
  <2>2. CASE Swap(r)
    <3>1. /\ pc[r] = "cas" /\ version' = version + 1
          /\ issuedCount' = issuedCount + 1
          /\ UNCHANGED <<origin, coupons, rowLock, seen, attempt>>
      BY <2>2 DEF Swap, loopVars
    <3>2. PICK l \in {"create", "ERROR"} : Goto(r, l)
      BY <2>2 DEF Swap, Settle, Resolve, LoseAck
    <3>3. rejects' = rejects /\ lostAcks' \in 0 .. MaxLostAcks
      BY <2>2, FaultAssumption DEF Swap, Settle, Resolve, LoseAck, DbTypeOK
    <3>4. QED  BY <1>0, <3>1, <3>2, <3>3 DEF Goto, DbTypeOK
  <2>3. CASE Retry(r)
    BY <1>0, <2>3 DEF Retry, Resolve, Goto, dbVars, DbTypeOK
  <2>4. CASE Create(r)
    <3>1. PICK l \in {"ISSUED", "rollbackDup", "rollbackError"} : Goto(r, l)
      BY <2>4 DEF Create, Settle, Resolve, LoseAck
    <3>2. /\ pc[r] = "create"
          /\ UNCHANGED <<origin, version, issuedCount, rowLock, seen, attempt>>
          /\ coupons' \subseteq Requests
      BY <2>4 DEF Create, InsertCoupon, dbVars, loopVars, DbTypeOK
    <3>3. rejects' = rejects /\ lostAcks' \in 0 .. MaxLostAcks
      BY <2>4, FaultAssumption DEF Create, Settle, Resolve, LoseAck, DbTypeOK
    <3>4. QED  BY <1>0, <3>1, <3>2, <3>3 DEF Goto, DbTypeOK
  <2>5. CASE Rollback(r)
    <3>1. PICK l \in {"ALREADY_ISSUED", "ERROR"} : Goto(r, l)
      BY <2>5 DEF Rollback, Settle, Resolve, LoseAck
    <3>2. /\ pc[r] \in SlotLabels /\ issuedCount' = issuedCount - 1
          /\ UNCHANGED <<origin, version, coupons, rowLock, seen, attempt>>
      BY <2>5 DEF Rollback, AddIssued, loopVars, SlotLabels
    <3>3. rejects' = rejects /\ lostAcks' \in 0 .. MaxLostAcks
      BY <2>5, FaultAssumption DEF Rollback, Settle, Resolve, LoseAck, DbTypeOK
    <3>4. QED  BY <1>0, <3>1, <3>2, <3>3 DEF Goto, DbTypeOK
  <2>6. CASE Reject(r, Catches) /\ UNCHANGED loopVars
    <3>1. Catches[pc[r]] \in {"ERROR", "rollbackError"}
      BY <2>6 DEF Reject, Catches
    <3>2. QED
      BY <1>0, <2>6, <3>1, FaultAssumption
      DEF Reject, Goto, dbVars, loopVars, DbTypeOK
  <2>7. QED  BY <1>3, <2>1, <2>2, <2>3, <2>4, <2>5, <2>6 DEF Step
<1>4. CASE (AllEnded /\ UNCHANGED loopVars) \/ UNCHANGED vars
  BY <1>4 DEF AllEnded, vars, couponDbVars, dbVars, requestVars, loopVars, DbTypeOK
<1>5. QED  BY <1>1, <1>2, <1>3, <1>4 DEF Next

-----------------------------------------------------------------------------
(* The accounting of slots and coupons.                                    *)

LEMMA HoldingMoves ==
  ASSUME TypeOK, NEW r \in Requests, NEW l, Goto(r, l)
  PROVE  /\ Cardinality(Holding) \in Nat
         /\ Cardinality(Holding') \in Nat
         /\ pc[r] \notin SlotLabels /\ l \in SlotLabels =>
              Cardinality(Holding') = Cardinality(Holding) + 1
         /\ pc[r] \in SlotLabels /\ l \notin SlotLabels =>
              Cardinality(Holding') = Cardinality(Holding) - 1
         /\ (pc[r] \in SlotLabels <=> l \in SlotLabels) =>
              Cardinality(Holding') = Cardinality(Holding)
<1>1. Holding = Where(pc, SlotLabels) /\ Holding' = Where(pc', SlotLabels)
  BY DEF Holding, At, SlotLabels
<1>2. QED  BY <1>1, AtMoves DEF TypeOK, DbTypeOK

LEMMA HoldingCount ==
  Cardinality(Holding) \in Nat /\ Cardinality(Holding') \in Nat
BY WhereFinite DEF Holding, At

LEMMA NextAccounting ==
  ASSUME TypeOK, TypeOK', SwapIsSafe, SlotsCounted, [Next]_vars
  PROVE  SlotsCounted'
<1> USE DEF SlotsCounted
<1>0. /\ issuedCount \in Int /\ lostAcks \in Nat
      /\ coupons \subseteq Requests /\ Cardinality(coupons) \in Nat
      /\ TotalStock \in Nat
  BY CouponsFinite, StockAssumption, FaultAssumption DEF TypeOK, DbTypeOK
<1>1. ASSUME UNCHANGED <<pc, coupons, issuedCount, lostAcks>>
      PROVE  SlotsCounted'
  BY <1>1 DEF Holding, At
<1>2. CASE ServerStops
  <2>1. Holding' = {}
    BY <1>2 DEF ServerStops, Holding, At, Where, InFlight, Ended, Outcomes,
                Answers, TypeOK, DbTypeOK
  <2>2. UNCHANGED <<coupons, issuedCount, lostAcks>>
    BY <1>2 DEF ServerStops
  <2>3. QED  BY <1>0, <2>1, <2>2, HoldingCount, FS_EmptySet
<1>3. ASSUME NEW r \in Requests, Step(r) PROVE SlotsCounted'
  <2> USE DEF SlotLabels
  <2>1. CASE Read(r) \/ Retry(r)
    <3>1. PICK l \in {"NOT_FOUND", "SOLD_OUT", "cas", "read", "RETRY_EXHAUSTED"} :
            /\ pc[r] \in {"start", "read", "cas"} /\ Goto(r, l)
            /\ UNCHANGED <<coupons, issuedCount, lostAcks>>
      BY <2>1 DEF Read, Retry, Resolve, dbVars
    <3>2. QED  BY <1>0, <3>1, HoldingMoves
  <2>2. CASE Swap(r)
    (* The count was below totalStock, since the version had not moved.    *)
    <3>1. issuedCount < TotalStock
      BY <2>2 DEF Swap, SwapIsSafe
    <3>2. PICK l \in {"create", "ERROR"} :
            /\ pc[r] = "cas" /\ Goto(r, l)
            /\ lostAcks' >= lostAcks /\ lostAcks' \in Nat
      BY <1>0, <2>2 DEF Swap, Settle, Resolve, LoseAck
    <3>3. issuedCount' = issuedCount + 1 /\ coupons' = coupons
      BY <2>2 DEF Swap
    <3>4. Cardinality(Holding') <= Cardinality(Holding) + 1
      BY <3>2, HoldingMoves, HoldingCount
    <3>5. QED  BY <1>0, <3>1, <3>2, <3>3, <3>4, HoldingCount
  <2>3. CASE Create(r)
    <3>0. pc[r] = "create"
      BY <2>3 DEF Create
    <3>1. CASE InsertCoupon(r) /\ Settle(r, "ISSUED", "rollbackError")
      <4>1. /\ Cardinality(coupons') = Cardinality(coupons) + 1
            /\ issuedCount' = issuedCount
        BY <1>0, <3>1, InsertAddsOne DEF InsertCoupon
      <4>2. CASE Goto(r, "ISSUED") /\ lostAcks' = lostAcks
        <5>1. Cardinality(Holding') = Cardinality(Holding) - 1
          BY <3>0, <4>2, HoldingMoves
        <5>2. QED  BY <1>0, <4>1, <4>2, <5>1, HoldingCount
      <4>3. CASE Goto(r, "rollbackError") /\ lostAcks' = lostAcks + 1
        <5>1. Cardinality(Holding') = Cardinality(Holding)
          BY <3>0, <4>3, HoldingMoves
        <5>2. QED  BY <1>0, <4>1, <4>3, <5>1, HoldingCount
      <4>4. QED  BY <3>1, <4>2, <4>3 DEF Settle, Resolve, LoseAck
    <3>2. CASE Resolve(r, "rollbackDup") /\ UNCHANGED dbVars
      BY <1>0, <3>0, <3>2, HoldingMoves DEF Resolve, dbVars
    <3>3. QED  BY <2>3, <3>1, <3>2 DEF Create
  <2>4. CASE Rollback(r)
    <3>1. PICK l \in {"ALREADY_ISSUED", "ERROR"} :
            /\ pc[r] \in SlotLabels /\ Goto(r, l)
            /\ lostAcks' >= lostAcks /\ lostAcks' \in Nat
      BY <1>0, <2>4 DEF Rollback, Settle, Resolve, LoseAck
    <3>2. issuedCount' = issuedCount - 1 /\ coupons' = coupons
      BY <2>4 DEF Rollback, AddIssued
    <3>3. Cardinality(Holding') = Cardinality(Holding) - 1
      BY <3>1, HoldingMoves
    <3>4. QED  BY <1>0, <3>1, <3>2, <3>3, HoldingCount
  <2>5. CASE Reject(r, Catches)
    <3>1. /\ Goto(r, Catches[pc[r]])
          /\ UNCHANGED <<coupons, issuedCount, lostAcks>>
      BY <2>5 DEF Reject, dbVars
    <3>2. Catches[pc[r]] \in SlotLabels => pc[r] \in SlotLabels
      BY <2>5 DEF Reject, Catches
    <3>3. Cardinality(Holding') <= Cardinality(Holding)
      BY <3>1, <3>2, HoldingMoves, HoldingCount
    <3>4. QED  BY <1>0, <3>1, <3>3, HoldingCount
  <2>6. QED  BY <1>3, <2>1, <2>2, <2>3, <2>4, <2>5 DEF Step
<1>4. CASE CreateCampaign \/ AllEnded \/ UNCHANGED vars
  BY <1>1, <1>4
  DEF CreateCampaign, AllEnded, vars, couponDbVars, dbVars, requestVars
<1>5. QED  BY <1>2, <1>3, <1>4 DEF Next

-----------------------------------------------------------------------------
(* What each control point knows about the coupon table.                   *)

LEMMA NextControl ==
  ASSUME TypeOK, ControlAgrees, [Next]_vars
  PROVE  ControlAgrees'
<1> USE DEF ControlAgrees, Duplicate, TypeOK, DbTypeOK
<1>1. ASSUME UNCHANGED <<userKey, pc, coupons>> PROVE ControlAgrees'
  BY <1>1
<1>2. CASE ServerStops
  BY <1>2 DEF ServerStops, InFlight, Ended, Outcomes, Answers
<1>3. ASSUME NEW r \in Requests, Step(r) PROVE ControlAgrees'
  <2> USE DEF Settle, Resolve, LoseAck, Goto, dbVars
  <2>1. CASE Read(r)
    BY <2>1 DEF Read
  <2>2. CASE Swap(r)
    BY <2>2 DEF Swap
  <2>3. CASE Retry(r)
    BY <2>3 DEF Retry
  <2>4. CASE Create(r)
    BY <2>4 DEF Create, InsertCoupon
  <2>5. CASE Rollback(r)
    BY <2>5 DEF Rollback, AddIssued
  <2>6. CASE Reject(r, Catches)
    <3>1. Catches[pc[r]] \in {"ERROR", "rollbackError"}
      BY <2>6 DEF Reject, Catches
    <3>2. QED  BY <2>6, <3>1 DEF Reject
  <2>7. QED  BY <1>3, <2>1, <2>2, <2>3, <2>4, <2>5, <2>6 DEF Step
<1>4. CASE CreateCampaign \/ AllEnded \/ UNCHANGED vars
  BY <1>1, <1>4
  DEF CreateCampaign, AllEnded, vars, couponDbVars, dbVars, requestVars
<1>5. QED  BY <1>2, <1>3, <1>4 DEF Next

LEMMA Inductive == Spec => [](IInv /\ AttemptsLeft)
<1>1. IInv /\ AttemptsLeft /\ [Next]_vars => (IInv /\ AttemptsLeft)'
  BY NextLoop, NextAccounting, NextControl DEF IInv, Loop
<1>2. QED  BY InitInv, <1>1, PTL DEF Spec

(* The swap is safe, slots and coupons are accounted for and every attempt *)
(* is paid for in every reachable state (issue.optimistic.ts:17-56).       *)
THEOREM Invariance == Spec => []IInv
<1>1. QED  BY Inductive, PTL

(* RETRY_EXHAUSTED is answered only after MAX_RETRY others got through:    *)
(* the loop is lock-free, however many requests there are                  *)
(* (issue.optimistic.ts:18-29, 55).                                        *)
THEOREM LockFree == Spec => []RetriesArePaidFor
<1>1. QED  BY Inductive, PTL DEF IInv

(* A request told ISSUED has its coupon, one told ALREADY_ISSUED has none  *)
(* while its user does (issue.optimistic.ts:35, 52).                       *)
THEOREM AnswersTruthful == Spec => []TruthfulAnswers
<1>1. IInv => TruthfulAnswers
  BY DEF IInv, ControlAgrees, TruthfulAnswers
<1>2. QED  BY <1>1, Invariance, PTL

-----------------------------------------------------------------------------
(* The optimistic strategy implements the sale.                            *)

SaleAnswer == [r \in Requests |-> IF pc[r] \in Answers THEN pc[r] ELSE "none"]

LEMMA InitRefines == Init => Sale!Init
BY DEF Init, DbInit, Sale!Init, Answers

(* A request that goes from one control point to another tells nobody      *)
(* anything, and one that comes to an answer tells exactly that.           *)
LEMMA Telling ==
  ASSUME TypeOK, NEW r \in Requests, NEW l, Goto(r, l)
  PROVE  /\ userKey' = userKey
         /\ pc[r] \notin Answers /\ l \notin Answers => SaleAnswer' = SaleAnswer
         /\ pc[r] \notin Answers /\ l \in Answers => Sale!Tell(r, l)
BY DEF Goto, TypeOK, DbTypeOK, SaleAnswer, Sale!Tell, Answers

(* Whoever is about to insert has a slot, so there is room in the sale.    *)
LEMMA RoomForOne ==
  ASSUME IInv, NEW r \in Requests, pc[r] = "create"
  PROVE  Cardinality(coupons) < TotalStock + MaxLostAcks
<1>1. /\ issuedCount \in Int /\ lostAcks \in 0 .. MaxLostAcks
      /\ Cardinality(coupons) \in Nat /\ TotalStock \in Nat
  BY CouponsFinite, StockAssumption DEF IInv, TypeOK, DbTypeOK
<1>2. Cardinality(Holding) >= 1
  <2>1. r \in Holding /\ Holding = Where(pc, SlotLabels)
    BY DEF Holding, At, Where, SlotLabels
  <2>2. Cardinality(Holding) # 0
    BY <2>1, WhereFinite, FS_EmptySet
  <2>3. QED  BY <2>2, HoldingCount
<1>3. QED  BY <1>1, <1>2, HoldingCount, FaultAssumption DEF IInv, SlotsCounted

(* The sale counts coupons the way the strategy does.                      *)
LEMMA SameCount == Sale!Cardinality(coupons) = Cardinality(coupons)
BY DEF Sale!Cardinality, Cardinality

(* Every step of the strategy is a step of the sale or invisible to it.    *)
LEMMA NextRefines ==
  ASSUME IInv, [Next]_vars
  PROVE  [Sale!Next]_Sale!vars
<1>0. TypeOK
  BY DEF IInv
<1>1. ASSUME UNCHANGED <<userKey, coupons>>, SaleAnswer' = SaleAnswer
      PROVE  UNCHANGED Sale!vars
  BY <1>1 DEF Sale!vars, SaleAnswer
<1>2. CASE CreateCampaign \/ AllEnded \/ UNCHANGED vars
  <2>1. UNCHANGED <<userKey, coupons, pc>>
    BY <1>2 DEF CreateCampaign, AllEnded, vars, couponDbVars, dbVars, requestVars
  <2>2. QED  BY <1>1, <2>1 DEF SaleAnswer
<1>3. CASE ServerStops
  <2>1. UNCHANGED <<userKey, coupons>> /\ SaleAnswer' = SaleAnswer
    BY <1>0, <1>3 DEF ServerStops, SaleAnswer, InFlight, Ended, Outcomes,
                      Answers, TypeOK, DbTypeOK
  <2>2. QED  BY <1>1, <2>1
<1>4. ASSUME NEW r \in Requests, Step(r) PROVE [Sale!Next]_Sale!vars
  <2> USE DEF Answers
  <2>1. ASSUME UNCHANGED coupons, pc[r] \notin Answers,
               NEW l, l \notin Answers, Goto(r, l)
        PROVE  [Sale!Next]_Sale!vars
    BY <1>0, <1>1, <2>1, Telling
  <2>2. ASSUME UNCHANGED coupons, pc[r] \notin Answers,
               NEW l \in {"ERROR", "NOT_FOUND", "RETRY_EXHAUSTED"}, Goto(r, l)
        PROVE  [Sale!Next]_Sale!vars
    BY <1>0, <2>2, Telling DEF Sale!Next, Sale!GiveUp
  <2>3. CASE Read(r) \/ Retry(r)
    <3>1. PICK l \in {"NOT_FOUND", "SOLD_OUT", "cas", "read", "RETRY_EXHAUSTED"} :
            /\ pc[r] \in {"start", "read", "cas"} /\ Goto(r, l)
            /\ UNCHANGED coupons
      BY <2>3 DEF Read, Retry, Resolve, dbVars
    <3>2. CASE l = "SOLD_OUT"
      <4>1. r \notin coupons
        BY <3>1 DEF IInv, ControlAgrees
      <4>2. Sale!RefuseSoldOut(r)
        BY <1>0, <3>1, <3>2, <4>1, Telling DEF Sale!RefuseSoldOut
      <4>3. QED  BY <4>2 DEF Sale!Next
    <3>3. QED  BY <2>1, <2>2, <3>1, <3>2
  <2>4. CASE Swap(r)
    <3>1. /\ UNCHANGED coupons /\ pc[r] = "cas"
          /\ Goto(r, "create") \/ Goto(r, "ERROR")
      BY <2>4 DEF Swap, Settle, Resolve, LoseAck
    <3>2. QED  BY <2>1, <2>2, <3>1
  <2>5. CASE Create(r)
    <3>0. pc[r] = "create" /\ SaleAnswer[r] = "none"
      BY <2>5 DEF Create, SaleAnswer
    <3>1. CASE InsertCoupon(r) /\ Settle(r, "ISSUED", "rollbackError")
      <4>1. /\ coupons' = coupons \cup {r} /\ ~Sale!Served(r)
            /\ Cardinality(coupons) < TotalStock + MaxLostAcks
        BY <3>0, <3>1, RoomForOne DEF InsertCoupon, Duplicate, Sale!Served
      <4>2. CASE Goto(r, "ISSUED")
        <5>1. Sale!Tell(r, "ISSUED")
          BY <1>0, <3>0, <4>2, Telling
        <5>2. Sale!Grant(r)
          BY <3>0, <4>1, <5>1, SameCount DEF Sale!Grant, SaleAnswer
        <5>3. QED  BY <5>2 DEF Sale!Next
      <4>3. CASE Goto(r, "rollbackError")
        <5>1. UNCHANGED <<userKey, SaleAnswer>>
          BY <1>0, <3>0, <4>3, Telling
        <5>2. Sale!Grant(r)
          BY <3>0, <4>1, <5>1, SameCount DEF Sale!Grant, SaleAnswer
        <5>3. QED  BY <5>2 DEF Sale!Next
      <4>4. QED  BY <3>1, <4>2, <4>3 DEF Settle, Resolve, LoseAck
    <3>2. CASE Resolve(r, "rollbackDup") /\ UNCHANGED dbVars
      BY <2>1, <3>0, <3>2 DEF Resolve, dbVars
    <3>3. QED  BY <2>5, <3>1, <3>2 DEF Create
  <2>6. CASE Rollback(r)
    <3>1. UNCHANGED coupons /\ pc[r] \in {"rollbackDup", "rollbackError"}
      BY <2>6 DEF Rollback, AddIssued
    <3>2. CASE Goto(r, "ERROR")
      BY <2>2, <3>1, <3>2
    <3>3. CASE pc[r] = "rollbackDup" /\ Goto(r, "ALREADY_ISSUED")
      <4>1. r \notin coupons /\ Sale!Served(r)
        BY <3>3 DEF IInv, ControlAgrees, Duplicate, Sale!Served
      <4>2. Sale!RefuseRepeat(r)
        BY <1>0, <3>1, <3>3, <4>1, Telling DEF Sale!RefuseRepeat
      <4>3. QED  BY <4>2 DEF Sale!Next
    <3>4. QED  BY <2>6, <3>2, <3>3 DEF Rollback, Settle, Resolve, LoseAck
  <2>7. CASE Reject(r, Catches)
    <3>1. /\ UNCHANGED coupons /\ pc[r] \in DOMAIN Catches
          /\ Goto(r, Catches[pc[r]])
      BY <2>7 DEF Reject, dbVars
    <3>2. pc[r] \notin Answers /\ Catches[pc[r]] \in {"ERROR", "rollbackError"}
      BY <3>1 DEF Catches
    <3>3. QED  BY <2>1, <2>2, <3>1, <3>2
  <2>8. QED  BY <1>4, <2>3, <2>4, <2>5, <2>6, <2>7 DEF Step
<1>5. QED  BY <1>2, <1>3, <1>4 DEF Next

(* The optimistic strategy implements the sale of TotalStock + MaxLostAcks *)
(* coupons, one per user, every answer given once and truthful             *)
(* (issue.optimistic.ts:17-56).                                            *)
THEOREM Refinement == Spec => ImplementsSale
<1>1. QED
  BY InitRefines, NextRefines, Invariance, PTL DEF Spec, ImplementsSale, Sale!Spec
=============================================================================
