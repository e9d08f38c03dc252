---------------------- MODULE IssuePessimistic_proofs ----------------------
(***************************************************************************)
(* The pessimistic strategy for any number of requests, users, coupons and *)
(* failures: the lock excludes, count and coupons never drift apart, the   *)
(* sale is exact, SOLD_OUT included.                                       *)
(***************************************************************************)
EXTENDS IssuePessimistic, CouponDb_lemmas

(* The inductive invariant, one conjunct at a time.  Every step moves one  *)
(* request to one control point, and what it does to the row depends on    *)
(* the row lock alone.                                                     *)
LEMMA InitInv == Init => IInv
<1> SUFFICES ASSUME Init PROVE IInv
  OBVIOUS
<1>1. TypeOK
  BY StockAssumption, FaultAssumption DEF Init, DbInit, TypeOK, DbTypeOK
<1>2. LockProtects
  BY RequestsAssumption DEF Init, DbInit, LockProtects, Locked
<1>3. NeverDrifts
  BY FS_EmptySet, StockAssumption DEF Init, DbInit, NeverDrifts
<1>4. ControlAgrees
  BY DEF Init, DbInit, ControlAgrees
<1>5. QED  BY <1>1, <1>2, <1>3, <1>4 DEF IInv

LEMMA NextType == ASSUME TypeOK, [Next]_couponDbVars PROVE TypeOK'
<1> USE DEF TypeOK, DbTypeOK
<1>1. CASE CreateCampaign
  BY <1>1 DEF CreateCampaign, requestVars
<1>2. CASE ServerStops
  BY <1>2 DEF ServerStops, InFlight, Ended, Outcomes
<1>3. ASSUME NEW r \in Requests, Step(r) PROVE TypeOK'
  <2> USE FaultAssumption
      DEF Goto, Resolve, LoseAck, Settle, dbVars, Labels, Locked, Outcomes, Answers
  <2>1. CASE Begin(r)
    BY <2>1 DEF Begin
  <2>2. CASE Lock(r)
    BY <2>2 DEF Lock
  <2>3. CASE Insert(r)
    BY <2>3 DEF Insert
  <2>4. CASE Increment(r)
    BY <2>4 DEF Increment
  <2>5. CASE CommitIssued(r)
    BY <2>5 DEF CommitIssued
  <2>6. CASE CommitRefusal(r)
    BY <2>6 DEF CommitRefusal
  <2>7. CASE Abort(r)
    BY <2>7 DEF Abort
  <2>8. QED  BY <1>3, <2>1, <2>2, <2>3, <2>4, <2>5, <2>6, <2>7 DEF Step
<1>4. CASE AllEnded \/ UNCHANGED couponDbVars
  BY <1>4 DEF AllEnded, couponDbVars, dbVars, requestVars
<1>5. QED  BY <1>1, <1>2, <1>3, <1>4 DEF Next

LEMMA NextLock == ASSUME IInv, [Next]_couponDbVars PROVE LockProtects'
<1> USE RequestsAssumption
    DEF IInv, TypeOK, DbTypeOK, LockProtects, Duplicate, Labels, Locked,
        Outcomes, Answers
<1>1. CASE CreateCampaign \/ AllEnded \/ UNCHANGED couponDbVars
  BY <1>1 DEF CreateCampaign, AllEnded, couponDbVars, dbVars, requestVars
<1>2. CASE ServerStops
  BY <1>2 DEF ServerStops, InFlight, Ended
<1>3. ASSUME NEW r \in Requests, Step(r) PROVE LockProtects'
  <2> USE DEF Goto, Resolve, LoseAck, Settle, dbVars
  <2>1. CASE Begin(r)
    BY <2>1 DEF Begin
  <2>2. CASE Lock(r)
    (* The row was free, so nobody else is inside.                         *)
    BY <2>2, StockAssumption DEF Lock, NeverDrifts
  <2>3. CASE Insert(r)
    BY <2>3 DEF Insert
  <2>4. CASE Increment(r)
    BY <2>4 DEF Increment
  <2>5. CASE CommitIssued(r)
    BY <2>5 DEF CommitIssued
  <2>6. CASE CommitRefusal(r)
    BY <2>6 DEF CommitRefusal
  <2>7. CASE Abort(r)
    BY <2>7 DEF Abort, InFlight, Ended
  <2>8. QED  BY <1>3, <2>1, <2>2, <2>3, <2>4, <2>5, <2>6, <2>7 DEF Step
<1>4. QED  BY <1>1, <1>2, <1>3 DEF Next

(* What COMMIT makes visible, or nothing else does.                        *)
LEMMA OnlyCommitWrites ==
  ASSUME [Next]_couponDbVars
  PROVE  \/ \E r \in Requests : CommitIssued(r)
         \/ UNCHANGED <<issuedCount, coupons>>
BY DEF Next, Step, CreateCampaign, ServerStops, AllEnded, Begin, Lock, Insert,
       Increment, CommitRefusal, Abort, couponDbVars, dbVars, requestVars

LEMMA NextCount == ASSUME IInv, [Next]_couponDbVars PROVE NeverDrifts'
<1>1. CASE UNCHANGED <<issuedCount, coupons>>
  BY <1>1 DEF IInv, NeverDrifts
<1>2. ASSUME NEW r \in Requests, CommitIssued(r) PROVE NeverDrifts'
  <2>1. r \notin coupons /\ issuedCount < TotalStock
    BY <1>2 DEF CommitIssued, IInv, LockProtects, ControlAgrees, Labels, Locked
  <2>2. Cardinality(coupons') = Cardinality(coupons) + 1
    BY <1>2, <2>1, CouponsFinite, FS_AddElement
    DEF CommitIssued, IInv, TypeOK, DbTypeOK
  <2>3. QED
    BY <1>2, <2>1, <2>2, StockAssumption, CouponsFinite
    DEF CommitIssued, IInv, TypeOK, DbTypeOK, NeverDrifts
<1>3. QED  BY <1>1, <1>2, OnlyCommitWrites

LEMMA NextControl == ASSUME IInv, [Next]_couponDbVars PROVE ControlAgrees'
<1> USE DEF IInv, TypeOK, DbTypeOK, ControlAgrees, Duplicate, Labels, Locked,
            Outcomes, Answers
<1>1. CASE CreateCampaign \/ AllEnded \/ UNCHANGED couponDbVars
  BY <1>1 DEF CreateCampaign, AllEnded, couponDbVars, dbVars, requestVars
<1>2. CASE ServerStops
  BY <1>2 DEF ServerStops, InFlight, Ended
<1>3. ASSUME NEW r \in Requests, Step(r) PROVE ControlAgrees'
  <2> USE DEF Goto, Resolve, LoseAck, Settle, dbVars
  <2>1. CASE Begin(r)
    BY <2>1 DEF Begin
  <2>2. CASE Lock(r)
    BY <2>2 DEF Lock
  <2>3. CASE Insert(r)
    BY <2>3 DEF Insert
  <2>4. CASE Increment(r)
    BY <2>4 DEF Increment
  <2>5. CASE CommitIssued(r)
    BY <2>5 DEF CommitIssued
  <2>6. CASE CommitRefusal(r)
    BY <2>6 DEF CommitRefusal, LockProtects
  <2>7. CASE Abort(r)
    BY <2>7 DEF Abort, InFlight, Ended
  <2>8. QED  BY <1>3, <2>1, <2>2, <2>3, <2>4, <2>5, <2>6, <2>7 DEF Step
<1>4. QED  BY <1>1, <1>2, <1>3 DEF Next

(* IInv holds of every reachable state: the row lock excludes, issuedCount *)
(* is the number of coupons after any failure, and never above totalStock  *)
(* (issue.pessimistic.ts:15-46).                                           *)
THEOREM Invariance == Spec => []IInv
<1>1. IInv /\ [Next]_couponDbVars => IInv'
  <2> SUFFICES ASSUME IInv, [Next]_couponDbVars PROVE IInv'
    OBVIOUS
  <2>1. TypeOK'
    BY NextType DEF IInv
  <2>2. QED  BY <2>1, NextLock, NextCount, NextControl DEF IInv
<1>2. QED  BY InitInv, <1>1, PTL DEF Spec

(* A request told ISSUED has its coupon, and one told ALREADY_ISSUED has   *)
(* none while its user does (issue.pessimistic.ts:40-43).                  *)
THEOREM AnswersTruthful == Spec => []TruthfulAnswers
<1>1. IInv => TruthfulAnswers
  BY DEF IInv, ControlAgrees, TruthfulAnswers
<1>2. QED  BY <1>1, Invariance, PTL

-----------------------------------------------------------------------------
(* The pessimistic strategy implements the exact sale.                     *)

SaleAnswer == [r \in Requests |-> IF pc[r] \in Answers THEN pc[r] ELSE "none"]

LEMMA InitRefines == Init => Sale!Init
BY DEF Init, DbInit, Sale!Init, Answers

(* A request that goes from one control point to another tells nobody      *)
(* anything, and one that comes to an answer tells exactly that.           *)
LEMMA Telling ==
  ASSUME TypeOK, NEW r \in Requests, NEW l, Goto(r, l), pc[r] \notin Answers
  PROVE  /\ SaleAnswer[r] = "none" /\ userKey' = userKey
         /\ l \notin Answers => SaleAnswer' = SaleAnswer
         /\ l \in Answers => Sale!Tell(r, l)
BY DEF Goto, TypeOK, DbTypeOK, SaleAnswer, Sale!Tell, Answers

(* The sale counts coupons the way the strategy does.                      *)
LEMMA SameCount == Sale!Cardinality(coupons) = Cardinality(coupons)
BY DEF Sale!Cardinality, Cardinality

(* Every step of the strategy is a step of the sale or invisible to it.    *)
LEMMA NextRefines ==
  ASSUME IInv, [Next]_couponDbVars
  PROVE  [Sale!Next]_Sale!vars
<1>0. TypeOK /\ issuedCount \in Int
  BY DEF IInv, TypeOK, DbTypeOK
<1>1. ASSUME UNCHANGED <<userKey, coupons>>, SaleAnswer' = SaleAnswer
      PROVE  UNCHANGED Sale!vars
  BY <1>1 DEF Sale!vars, SaleAnswer
<1>2. CASE CreateCampaign \/ AllEnded \/ UNCHANGED couponDbVars
  <2>1. UNCHANGED <<userKey, coupons, pc>>
    BY <1>2 DEF CreateCampaign, AllEnded, couponDbVars, dbVars, requestVars
  <2>2. QED  BY <1>1, <2>1 DEF SaleAnswer
<1>3. CASE ServerStops
  <2>1. UNCHANGED <<userKey, coupons>> /\ SaleAnswer' = SaleAnswer
    BY <1>0, <1>3 DEF ServerStops, SaleAnswer, InFlight, Ended, Outcomes,
                      Answers, TypeOK, DbTypeOK
  <2>2. QED  BY <1>1, <2>1
<1>4. ASSUME NEW r \in Requests, Step(r) PROVE [Sale!Next]_Sale!vars
  <2> USE DEF Answers
  <2>1. ASSUME UNCHANGED coupons, pc[r] \notin Answers,
               NEW l \in Labels, Goto(r, l)
        PROVE  [Sale!Next]_Sale!vars
    BY <1>0, <1>1, <2>1, Telling DEF Labels, Locked
  <2>2. ASSUME UNCHANGED coupons, pc[r] \notin Answers,
               NEW l \in {"ERROR", "NOT_FOUND"}, Goto(r, l)
        PROVE  [Sale!Next]_Sale!vars
    BY <1>0, <2>2, Telling DEF Sale!Next, Sale!GiveUp
  <2>3. CASE Begin(r)
    BY <2>1, <2>3 DEF Begin, Resolve, dbVars, Labels
  <2>4. CASE Lock(r)
    <3>1. UNCHANGED coupons /\ pc[r] \notin Answers
      BY <2>4 DEF Lock, dbVars
    <3>2. PICK l \in {"NOT_FOUND", "commitSoldOut", "insert"} : Goto(r, l)
      BY <2>4 DEF Lock, Resolve
    <3>3. QED  BY <2>1, <2>2, <3>1, <3>2 DEF Labels, Locked
  <2>5. CASE Insert(r) \/ Increment(r)
    <3>1. UNCHANGED coupons /\ pc[r] \notin Answers
      BY <2>5 DEF Insert, Increment, dbVars
    <3>2. PICK l \in {"commitRepeat", "increment", "commitIssued"} : Goto(r, l)
      BY <2>5 DEF Insert, Increment, Resolve
    <3>3. QED  BY <2>1, <3>1, <3>2 DEF Labels, Locked
  <2>6. CASE CommitIssued(r)
    (* The commit is the grant, whether its acknowledgement arrives or not. *)
    <3>1. /\ coupons' = coupons \cup {r} /\ pc[r] \notin Answers
          /\ Goto(r, "ISSUED") \/ Goto(r, "ERROR")
      BY <2>6 DEF CommitIssued, Settle, Resolve, LoseAck
    <3>2. ~Sale!Served(r) /\ Cardinality(coupons) < TotalStock
      BY <2>6 DEF CommitIssued, IInv, LockProtects, NeverDrifts, Duplicate,
                  Sale!Served
    <3>3. SaleAnswer[r] = "none" /\ \E a \in {"ISSUED", "ERROR"} : Sale!Tell(r, a)
      BY <1>0, <3>1, Telling
    <3>4. Sale!Grant(r)
      BY <3>1, <3>2, <3>3, SameCount DEF Sale!Grant, SaleAnswer
    <3>5. QED  BY <3>4 DEF Sale!Next
  <2>7. CASE CommitRefusal(r)
    <3>1. /\ UNCHANGED coupons /\ pc[r] \notin Answers
          /\ r \notin coupons
      BY <2>7 DEF CommitRefusal, IInv, ControlAgrees, Labels, Locked
    <3>2. CASE Goto(r, "ERROR")
      BY <2>2, <3>1, <3>2
    <3>3. CASE pc[r] = "commitSoldOut" /\ Goto(r, "SOLD_OUT")
      (* Under the lock nothing was given back since it was read.          *)
      <4>1. Cardinality(coupons) = TotalStock
        BY <3>3 DEF IInv, LockProtects, NeverDrifts
      <4>2. Sale!RefuseSoldOut(r)
        BY <1>0, <3>1, <3>3, <4>1, Telling, SameCount DEF Sale!RefuseSoldOut
      <4>3. QED  BY <4>2 DEF Sale!Next
    <3>4. CASE pc[r] = "commitRepeat" /\ Goto(r, "ALREADY_ISSUED")
      <4>1. Sale!Served(r)
        BY <3>4 DEF IInv, LockProtects, Duplicate, Sale!Served
      <4>2. Sale!RefuseRepeat(r)
        BY <1>0, <3>1, <3>4, <4>1, Telling DEF Sale!RefuseRepeat
      <4>3. QED  BY <4>2 DEF Sale!Next
    <3>5. QED
      BY <2>7, <3>2, <3>3, <3>4 DEF CommitRefusal, Settle, Resolve, LoseAck
  <2>8. CASE Abort(r)
    BY <2>2, <2>8 DEF Abort, InFlight, Ended, Outcomes
  <2>9. QED  BY <1>4, <2>3, <2>4, <2>5, <2>6, <2>7, <2>8 DEF Step
<1>5. QED  BY <1>2, <1>3, <1>4 DEF Next

(* The pessimistic strategy implements the sale of exactly TotalStock      *)
(* coupons in which SOLD_OUT means that all of them exist                  *)
(* (issue.pessimistic.ts:15-46, docs/03-db-locking.md:45-48).              *)
THEOREM Refinement == Spec => ImplementsSale
<1>1. QED
  BY InitRefines, NextRefines, Invariance, PTL DEF Spec, ImplementsSale, Sale!Spec

-----------------------------------------------------------------------------
(* Refusals are final: whoever was told SOLD_OUT, or is about to be, leaves *)
(* a campaign with no coupon left; and a request ends without a yes or no   *)
(* only when something failed.                                              *)
Final ==
  /\ \A r \in Requests : pc[r] = "SOLD_OUT" => issuedCount = TotalStock
  /\ \A r \in Requests : pc[r] \notin {"QUEUED", "RETRY_EXHAUSTED"}
  /\ Faultless => \A r \in Requests : pc[r] \notin {"ERROR", "DEAD"}

LEMMA NextFinal == ASSUME IInv, Final, [Next]_couponDbVars PROVE Final'
<1> USE DEF IInv, TypeOK, DbTypeOK, Final, Faultless
<1>1. CASE CreateCampaign \/ AllEnded \/ UNCHANGED couponDbVars
  BY <1>1 DEF CreateCampaign, AllEnded, couponDbVars, dbVars, requestVars
<1>2. CASE ServerStops
  BY <1>2 DEF ServerStops, InFlight, Ended, Outcomes, Answers
<1>3. ASSUME NEW r \in Requests, Step(r) PROVE Final'
  <2> USE DEF Goto, Resolve, LoseAck, Settle, dbVars, Labels, Locked
  <2>1. CASE Begin(r)
    BY <2>1 DEF Begin
  <2>2. CASE Lock(r)
    BY <2>2 DEF Lock
  <2>3. CASE Insert(r)
    BY <2>3 DEF Insert
  <2>4. CASE Increment(r)
    BY <2>4 DEF Increment
  <2>5. CASE CommitIssued(r)
    (* There was room, so nobody has been refused.                         *)
    BY <2>5 DEF CommitIssued, LockProtects
  <2>6. CASE CommitRefusal(r)
    BY <2>6 DEF CommitRefusal, LockProtects
  <2>7. CASE Abort(r)
    BY <2>7 DEF Abort
  <2>8. QED  BY <1>3, <2>1, <2>2, <2>3, <2>4, <2>5, <2>6, <2>7 DEF Step
<1>4. QED  BY <1>1, <1>2, <1>3 DEF Next

(* The k6 experiment for any number of requests, each from a user of its   *)
(* own: exactly min(requests, totalStock) coupons in the end               *)
(* (issue.pessimistic.ts:15-46, docs/03-db-locking.md:45-48).              *)
THEOREM SaleIsExact == Spec => []ExactSale
<1>1. Init => Final
  BY DEF Init, DbInit, Final
<1>2. IInv /\ Final => ExactSale
  <2> SUFFICES ASSUME IInv, Final, Quiet, Faultless,
                      \A r, s \in Requests : userKey[r] = userKey[s] => r = s,
                      At({"RETRY_EXHAUSTED", "NOT_FOUND"}) = {}
               PROVE  Cardinality(coupons) = IF Cardinality(Requests) < TotalStock
                                             THEN Cardinality(Requests) ELSE TotalStock
    BY DEF ExactSale
  <2>1. /\ coupons \subseteq Requests /\ IsFiniteSet(Requests)
        /\ Cardinality(Requests) \in Nat /\ TotalStock \in Nat
        /\ issuedCount = Cardinality(coupons) /\ issuedCount <= TotalStock
    BY RequestsAssumption, StockAssumption, FS_CardinalityType
    DEF IInv, TypeOK, DbTypeOK, NeverDrifts
  <2>2. Cardinality(coupons) \in Nat /\ Cardinality(coupons) <= Cardinality(Requests)
    BY <2>1, FS_Subset, CouponsFinite
  <2>3. \A r \in Requests : pc[r] \in {"ISSUED", "SOLD_OUT"}
    BY DEF Quiet, Ended, Outcomes, Answers, Final, IInv, TypeOK, DbTypeOK, ControlAgrees,
           Duplicate, At, Where
  <2>4. CASE \E r \in Requests : pc[r] = "SOLD_OUT"
    BY <2>1, <2>2, <2>4 DEF Final
  <2>5. CASE \A r \in Requests : pc[r] = "ISSUED"
    <3>1. coupons = Requests
      BY <2>1, <2>5 DEF IInv, ControlAgrees
    <3>2. QED  BY <2>1, <2>2, <3>1
  <2>6. QED  BY <2>3, <2>4, <2>5
<1>3. IInv /\ Final /\ [Next]_couponDbVars => Final'
  BY NextFinal
<1>4. QED  BY <1>1, <1>2, <1>3, Invariance, PTL DEF Spec
=============================================================================
