-------------------------- MODULE IssueRedis_proofs --------------------------
(***************************************************************************)
(* The redis and redis-lua strategies on one counter, for any number of    *)
(* requests, users and coupons in stock, and any number of failures and    *)
(* commands that run twice: the slots of the counter are accounted for, it *)
(* oversells by at most the INCRs that ran twice, and both strategies      *)
(* implement the sale of CouponSale.                                       *)
(***************************************************************************)
EXTENDS IssueRedis, CouponDb_lemmas

(* Taken is made of those who owe an INCR for a DECR below zero, and those *)
(* whose slot is above zero.                                               *)
Hands == {"create", "giveBack"}
Owing == {"undo"}
Accounting == SlotsCounted /\ StockFloor

LEMMA TakenCount ==
  /\ Cardinality(Where(pc, Hands)) \in Nat /\ Cardinality(Where(pc', Hands)) \in Nat
  /\ Cardinality(Where(pc, Owing)) \in Nat /\ Cardinality(Where(pc', Owing)) \in Nat
  /\ Cardinality(Taken) = Cardinality(Where(pc, Hands)) + Cardinality(Where(pc, Owing))
  /\ Cardinality(Taken') = Cardinality(Where(pc', Hands)) + Cardinality(Where(pc', Owing))
  /\ At({"undo"}) = Where(pc, Owing) /\ At({"undo"})' = Where(pc', Owing)
<1>1. /\ {"create", "giveBack", "undo"} = Hands \cup Owing
      /\ Hands \cap Owing = {}
  BY DEF Hands, Owing
<1>2. Taken = Where(pc, Hands \cup Owing) /\ Taken' = Where(pc', Hands \cup Owing)
  BY <1>1 DEF Taken, At
<1>3. QED  BY <1>1, <1>2, WhereFinite, WhereUnion DEF At, Owing

(* A command runs once or twice, and the second time is on record.         *)
LEMMA SendMoves ==
  ASSUME StockTypeOK, NEW c \in Commands, NEW again \in {0, 1}, Send(c, again)
  PROVE  /\ resent' \in [Commands -> 0 .. MaxResends]
         /\ resent' = [resent EXCEPT ![c] = @ + again]
BY ResendAssumption DEF StockTypeOK, Send, Resends, Commands

LEMMA InitInv == Init => IInv
<1> SUFFICES ASSUME Init PROVE IInv
  OBVIOUS
<1>1. Taken = {} /\ At({"undo"}) = {} /\ coupons = {}
  BY DEF Init, DbInit, Taken, At, Where
<1>2. TypeOK
  BY StockAssumption, FaultAssumption, ResendAssumption
  DEF Init, DbInit, StockInit, InitialStock, TypeOK, DbTypeOK, StockTypeOK
<1>3. SlotsCounted /\ StockFloor /\ NotOversold
  BY <1>1, FS_EmptySet, StockAssumption
  DEF Init, StockInit, InitialStock, SlotsCounted, StockFloor, NotOversold, Commands
<1>4. ControlAgrees
  BY DEF Init, DbInit, ControlAgrees, Duplicate
<1>5. QED  BY <1>2, <1>3, <1>4 DEF IInv

-----------------------------------------------------------------------------
(* Type correctness.                                                       *)

(* The steps of a request that sends a command to Redis.                   *)
LEMMA CommandSteps ==
  ASSUME TypeOK, NEW r \in Requests, TakeByDecr(r) \/ TakeByScript(r) \/ GiveBack(r)
  PROVE  \E again \in {0, 1}, c \in Commands,
            l \in {"create", "undo", "SOLD_OUT", "ALREADY_ISSUED"} :
           /\ resent' = [resent EXCEPT ![c] = @ + again]
           /\ resent' \in [Commands -> 0 .. MaxResends]
           /\ stock' \in Int
           /\ Resolve(r, l)
           /\ UNCHANGED <<dbVars, stranded>>
<1> USE DEF TypeOK, StockTypeOK
<1>1. CASE TakeByDecr(r)
  <2>1. PICK again \in {0, 1} :
          /\ Send("DECR", again) /\ stock' = stock - 1 - again
          /\ Resolve(r, IF stock' >= 0 THEN "create" ELSE "undo")
          /\ UNCHANGED <<dbVars, stranded>>
    BY <1>1 DEF TakeByDecr, Decr
  <2>2. "DECR" \in Commands
    BY DEF Commands
  <2>3. QED  BY <2>1, <2>2, SendMoves
<1>2. CASE TakeByScript(r)
  <2>1. PICK again \in {0, 1} :
          LET before == IF again = 1 THEN AfterScript(stock) ELSE stock
          IN  /\ Send("EVAL", again) /\ stock' = AfterScript(before)
              /\ Resolve(r, IF before > 0 THEN "create" ELSE "SOLD_OUT")
              /\ UNCHANGED <<dbVars, stranded>>
    BY <1>2 DEF TakeByScript, EvalScript
  <2>2. "EVAL" \in Commands /\ stock' \in Int
    BY <2>1 DEF Commands, AfterScript
  <2>3. QED  BY <2>1, <2>2, SendMoves
<1>3. CASE GiveBack(r)
  <2>1. PICK again \in {0, 1} :
          /\ Send("INCR", again) /\ stock' = stock + 1 + again
          /\ Resolve(r, IF pc[r] = "undo" THEN "SOLD_OUT" ELSE "ALREADY_ISSUED")
          /\ UNCHANGED <<dbVars, stranded>>
    BY <1>3 DEF GiveBack, Incr
  <2>2. "INCR" \in Commands
    BY DEF Commands
  <2>3. QED  BY <2>1, <2>2, SendMoves
<1>4. QED  BY <1>1, <1>2, <1>3

LEMMA NextType == TypeOK /\ [Next]_vars => TypeOK'
<1> SUFFICES ASSUME TypeOK, [Next]_vars PROVE TypeOK'
  OBVIOUS
<1> USE DEF TypeOK, DbTypeOK, StockTypeOK
<1>1. CASE CreateCampaign /\ UNCHANGED redisVars
  BY <1>1 DEF CreateCampaign, requestVars, redisVars, stockVars
<1>2. CASE Crash
  BY <1>2, TakenCount
  DEF Crash, ServerStops, InFlight, Ended, Outcomes, Answers, stockVars
<1>3. ASSUME NEW r \in Requests, Step(r) PROVE TypeOK'
  <2> USE DEF Labels, Outcomes, Answers
  <2>1. CASE Lookup(r)
    <3>1. PICK p \in Paths : FindCampaign(r, p)
      BY <2>1 DEF Lookup
    <3>2. p \in Labels
      BY PathsAssumption
    <3>3. QED
      BY <2>1, <3>1, <3>2
      DEF Lookup, FindCampaign, Resolve, Goto, dbVars, redisVars, stockVars
  <2>2. CASE TakeByDecr(r) \/ TakeByScript(r) \/ GiveBack(r)
    BY <2>2, CommandSteps DEF Resolve, Goto, dbVars
  <2>3. CASE Create(r) \/ Count(r)
    <3>1. PICK l \in {"count", "ERROR", "giveBack", "ISSUED"} : Goto(r, l)
      BY <2>3 DEF Create, Count, Settle, Resolve, LoseAck
    <3>2. /\ UNCHANGED <<origin, version, rowLock, stock, resent, stranded>>
          /\ coupons' \subseteq Requests /\ issuedCount' \in Int
      BY <2>3 DEF Create, Count, AddIssued, InsertCoupon, dbVars, redisVars, stockVars
    <3>3. rejects' = rejects /\ lostAcks' \in 0 .. MaxLostAcks
      BY <2>3, FaultAssumption DEF Create, Count, Settle, Resolve, LoseAck
    <3>4. QED  BY <3>1, <3>2, <3>3 DEF Goto
  <2>4. CASE Reject(r, Catches) /\ UNCHANGED redisVars
    <3>1. Catches[pc[r]] = "ERROR"
      BY <2>4 DEF Reject, Catches
    <3>2. QED
      BY <2>4, <3>1, FaultAssumption DEF Reject, Goto, dbVars, redisVars, stockVars
  <2>5. QED  BY <1>3, <2>1, <2>2, <2>3, <2>4 DEF Step
<1>4. CASE (AllEnded /\ UNCHANGED redisVars) \/ UNCHANGED vars
  BY <1>4 DEF AllEnded, vars, couponDbVars, dbVars, requestVars, redisVars, stockVars
<1>5. QED  BY <1>1, <1>2, <1>3, <1>4 DEF Next

-----------------------------------------------------------------------------
(* The accounting of slots.                                                *)

(* How a move changes the number of slots in hand and of INCRs owed.       *)
LEMMA TakenMoves ==
  ASSUME TypeOK, NEW r \in Requests, NEW l, Goto(r, l), NEW S \in {Hands, Owing}
  PROVE  LET n == Cardinality(Where(pc, S))
             m == Cardinality(Where(pc', S))
         IN  /\ pc[r] \notin S /\ l \in S => m = n + 1
             /\ pc[r] \in S /\ l \notin S => m = n - 1
             /\ (pc[r] \in S <=> l \in S) => m = n
BY AtMoves DEF TypeOK, DbTypeOK

LEMMA NextAccounting ==
  ASSUME TypeOK, TypeOK', Accounting, [Next]_vars
  PROVE  Accounting'
<1> DEFINE h == Cardinality(Where(pc, Hands))
           o == Cardinality(Where(pc, Owing))
           h1 == Cardinality(Where(pc', Hands))
           o1 == Cardinality(Where(pc', Owing))
           k == Cardinality(coupons)
           k1 == Cardinality(coupons')
           d == resent["DECR"]
           d1 == resent'["DECR"]
           i == resent["INCR"]
           i1 == resent'["INCR"]
           s1 == stock'
           t1 == stranded'
<1>0. /\ h \in Nat /\ o \in Nat /\ h1 \in Nat /\ o1 \in Nat
      /\ k \in Nat /\ k1 \in Nat /\ d \in Nat /\ i \in Nat
      /\ d1 \in Nat /\ i1 \in Nat
      /\ stock \in Int /\ s1 \in Int
      /\ stranded \in Nat /\ t1 \in Nat
      /\ InitialStock \in Nat /\ TotalStock \in Nat
  <2>1. k \in Nat
    BY CouponsFinite DEF TypeOK, DbTypeOK
  <2>2. k1 \in Nat
    BY FS_Subset, FS_CardinalityType, RequestsAssumption DEF TypeOK, DbTypeOK
  <2>3. d \in Nat /\ i \in Nat /\ d1 \in Nat /\ i1 \in Nat
    BY ResendAssumption DEF TypeOK, StockTypeOK, Commands
  <2>4. QED
    BY <2>1, <2>2, <2>3, TakenCount, StockAssumption
    DEF TypeOK, StockTypeOK, InitialStock
<1>1. Accounting <=> /\ stock + (h + o) + k + d + stranded <= InitialStock + i
                     /\ stock + o + d + stranded >= 0
  BY TakenCount DEF Accounting, SlotsCounted, StockFloor
<1>2. Accounting' <=> /\ s1 + (h1 + o1) + k1 + d1 + t1 <= InitialStock' + i1
                      /\ s1 + o1 + d1 + t1 >= 0
  BY TakenCount DEF Accounting, SlotsCounted, StockFloor
<1>3. InitialStock' = InitialStock
  BY DEF Next, CreateCampaign, Crash, ServerStops, Step, Lookup, FindCampaign,
         TakeByDecr, TakeByScript, Create, Count, GiveBack, InsertCoupon,
         AddIssued, Reject, AllEnded, vars, couponDbVars, dbVars, InitialStock
<1> HIDE DEF h, o, h1, o1, k, k1, d, d1, i, i1, s1, t1
<1>4. ASSUME UNCHANGED <<pc, coupons, stock, resent, stranded>> PROVE Accounting'
  BY <1>1, <1>2, <1>3, <1>4 DEF h, o, h1, o1, k, k1, d, d1, i, i1, s1, t1
<1>5. CASE Crash
  (* The INCRs that are owed become stranded, the other slots are lost.    *)
  <2>1. h1 = 0 /\ o1 = 0
    <3>1. Where(pc', Hands) = {} /\ Where(pc', Owing) = {}
      BY <1>5 DEF Crash, ServerStops, Where, Hands, Owing, InFlight, Ended,
                  Outcomes, Answers
    <3>2. QED  BY <3>1, FS_EmptySet DEF h1, o1
  <2>2. t1 = stranded + o
    BY <1>5, TakenCount DEF Crash, o, t1
  <2>3. k1 = k /\ s1 = stock /\ d1 = d /\ i1 = i
    BY <1>5 DEF Crash, ServerStops, stockVars, k, k1, d, d1, i, i1, s1, t1
  <2>4. QED  BY <1>0, <1>1, <1>2, <1>3, <2>1, <2>2, <2>3
<1>6. ASSUME NEW r \in Requests, Step(r) PROVE Accounting'
  <2>1. ASSUME NEW l, Goto(r, l)
        PROVE  /\ pc[r] \notin Hands /\ l \in Hands => h1 = h + 1
               /\ pc[r] \in Hands /\ l \notin Hands => h1 = h - 1
               /\ (pc[r] \in Hands <=> l \in Hands) => h1 = h
               /\ pc[r] \notin Owing /\ l \in Owing => o1 = o + 1
               /\ pc[r] \in Owing /\ l \notin Owing => o1 = o - 1
               /\ (pc[r] \in Owing <=> l \in Owing) => o1 = o
    BY <2>1, TakenMoves DEF h, h1, o, o1
  <2> USE DEF Hands, Owing
  <2>2. CASE Lookup(r)
    <3>1. PICK l \in Paths \cup {"NOT_FOUND"} :
            pc[r] = "start" /\ Goto(r, l)
      BY <2>2 DEF Lookup, FindCampaign, Resolve
    <3>2. l \notin Hands /\ l \notin Owing
      BY PathsAssumption
    <3>3. k1 = k /\ s1 = stock /\ t1 = stranded /\ d1 = d /\ i1 = i
      BY <2>2 DEF Lookup, FindCampaign, redisVars, stockVars, dbVars, k, k1, d, d1, i, i1, s1, t1
    <3>4. QED  BY <1>0, <1>1, <1>2, <1>3, <2>1, <3>1, <3>2, <3>3
  <2>3. CASE TakeByDecr(r)
    <3>1. PICK again \in {0, 1} :
            /\ Send("DECR", again) /\ s1 = stock - 1 - again
            /\ Goto(r, IF s1 >= 0 THEN "create" ELSE "undo")
            /\ pc[r] = "decr" /\ k1 = k /\ t1 = stranded
      BY <2>3 DEF TakeByDecr, Decr, Resolve, dbVars, k, k1, s1, t1
    <3>2. d1 = d + again /\ i1 = i
      BY <3>1, SendMoves DEF TypeOK, StockTypeOK, Commands, d, d1, i, i1
    <3>3. CASE s1 >= 0
      <4>1. h1 = h + 1 /\ o1 = o
        BY <2>1, <3>1, <3>3
      <4>2. QED  BY <1>0, <1>1, <1>2, <1>3, <3>1, <3>2, <3>3, <4>1
    <3>4. CASE ~(s1 >= 0)
      <4>1. h1 = h /\ o1 = o + 1
        BY <2>1, <3>1, <3>4
      <4>2. QED  BY <1>0, <1>1, <1>2, <1>3, <3>1, <3>2, <4>1
    <3>5. QED  BY <3>3, <3>4
  <2>4. CASE TakeByScript(r)
    <3>1. PICK again \in {0, 1} :
            LET before == IF again = 1 THEN AfterScript(stock) ELSE stock
            IN  /\ Send("EVAL", again) /\ stock' = AfterScript(before)
                /\ Goto(r, IF before > 0 THEN "create" ELSE "SOLD_OUT")
      BY <2>4 DEF TakeByScript, EvalScript, Resolve
    <3>2. pc[r] = "eval" /\ k1 = k /\ t1 = stranded
      BY <2>4 DEF TakeByScript, dbVars, k, k1, t1
    <3>3. d1 = d /\ i1 = i
      BY <3>1, SendMoves DEF TypeOK, StockTypeOK, Commands, d, d1, i, i1
    <3>4. CASE Goto(r, "create") /\ s1 >= 0 /\ s1 <= stock - 1
      <4>0. s1 >= 0 /\ s1 <= stock - 1
        BY <3>4
      <4>1. h1 = h + 1 /\ o1 = o
        BY <2>1, <3>2, <3>4
      <4>2. s1 + (h1 + o1) + k1 + d1 + t1 <= InitialStock' + i1
        BY <1>0, <1>1, <1>3, <3>2, <3>3, <4>0, <4>1
      <4>3. s1 + o1 + d1 + t1 >= 0
        BY <1>0, <1>1, <3>2, <3>3, <4>0, <4>1
      <4>4. QED  BY <1>2, <4>2, <4>3
    <3>5. CASE /\ Goto(r, "SOLD_OUT")
               /\ s1 = stock \/ (s1 >= 0 /\ s1 <= stock)
      <4>0. s1 = stock \/ (s1 >= 0 /\ s1 <= stock)
        BY <3>5
      <4>1. h1 = h /\ o1 = o
        BY <2>1, <3>2, <3>5
      <4>2. s1 + (h1 + o1) + k1 + d1 + t1 <= InitialStock' + i1
        BY <1>0, <1>1, <1>3, <3>2, <3>3, <4>0, <4>1
      <4>3. s1 + o1 + d1 + t1 >= 0
        BY <1>0, <1>1, <3>2, <3>3, <4>0, <4>1
      <4>4. QED  BY <1>2, <4>2, <4>3
    <3>6. QED  BY <1>0, <3>1, <3>4, <3>5 DEF AfterScript, s1
  <2>5. CASE Create(r)
    <3>0. /\ pc[r] = "create" /\ s1 = stock /\ t1 = stranded
          /\ d1 = d /\ i1 = i
      BY <2>5 DEF Create, redisVars, stockVars, d, d1, i, i1, s1, t1
    <3>1. CASE InsertCoupon(r) /\ Settle(r, "count", "ERROR")
      <4>1. PICK l \in {"count", "ERROR"} : Goto(r, l)
        BY <3>1 DEF Settle, Resolve, LoseAck
      <4>2. h1 = h - 1 /\ o1 = o
        BY <2>1, <3>0, <4>1
      <4>3. k1 = k + 1
        BY <3>1, InsertAddsOne DEF TypeOK, DbTypeOK, k, k1
      <4>4. QED  BY <1>0, <1>1, <1>2, <1>3, <3>0, <4>2, <4>3
    <3>2. CASE Resolve(r, "giveBack") /\ UNCHANGED dbVars
      <4>1. h1 = h /\ o1 = o /\ k1 = k
        BY <2>1, <3>0, <3>2 DEF Resolve, dbVars, k, k1
      <4>2. QED  BY <1>0, <1>1, <1>2, <1>3, <3>0, <4>1
    <3>3. QED  BY <2>5, <3>1, <3>2 DEF Create
  <2>6. CASE Count(r)
    <3>1. PICK l \in {"ISSUED", "ERROR"} : pc[r] = "count" /\ Goto(r, l)
      BY <2>6 DEF Count, Settle, Resolve, LoseAck
    <3>2. /\ k1 = k /\ s1 = stock /\ t1 = stranded
          /\ d1 = d /\ i1 = i
      BY <2>6 DEF Count, AddIssued, redisVars, stockVars, k, k1, d, d1, i, i1, s1, t1
    <3>3. QED  BY <1>0, <1>1, <1>2, <1>3, <2>1, <3>1, <3>2
  <2>7. CASE GiveBack(r)
    <3>1. PICK again \in {0, 1} :
            /\ Send("INCR", again) /\ s1 = stock + 1 + again
            /\ \/ pc[r] = "undo" /\ Goto(r, "SOLD_OUT")
               \/ pc[r] = "giveBack" /\ Goto(r, "ALREADY_ISSUED")
            /\ k1 = k /\ t1 = stranded
      BY <2>7 DEF GiveBack, Incr, Resolve, dbVars, k, k1, s1, t1
    <3>2. i1 = i + again /\ d1 = d
      BY <3>1, SendMoves DEF TypeOK, StockTypeOK, Commands, d, d1, i, i1
    <3>3. h1 + o1 = h + o - 1 /\ o1 >= o - 1
      BY <1>0, <2>1, <3>1
    <3>4. QED  BY <1>0, <1>1, <1>2, <1>3, <3>1, <3>2, <3>3
  <2>8. CASE Reject(r, Catches) /\ UNCHANGED redisVars
    <3>1. pc[r] \in {"start", "create", "count"} /\ Goto(r, "ERROR")
      BY <2>8 DEF Reject, Catches
    <3>2. /\ k1 = k /\ s1 = stock /\ t1 = stranded
          /\ d1 = d /\ i1 = i
      BY <2>8 DEF Reject, dbVars, redisVars, stockVars, k, k1, d, d1, i, i1, s1, t1
    <3>3. h1 <= h /\ o1 = o
      BY <1>0, <2>1, <3>1
    <3>4. QED  BY <1>0, <1>1, <1>2, <1>3, <3>2, <3>3
  <2>9. QED  BY <1>6, <2>2, <2>3, <2>4, <2>5, <2>6, <2>7, <2>8 DEF Step
<1>7. CASE ((CreateCampaign \/ AllEnded) /\ UNCHANGED redisVars) \/ UNCHANGED vars
  BY <1>4, <1>7
  DEF CreateCampaign, AllEnded, vars, couponDbVars, dbVars, requestVars,
      redisVars, stockVars
<1>8. QED  BY <1>5, <1>6, <1>7 DEF Next

(* A counter that is low by what is owed at most cannot have sold more.    *)
LEMMA AccountingBounds ==
  ASSUME TypeOK, Accounting
  PROVE  /\ NotOversold
         /\ Cardinality(coupons) + Cardinality(Where(pc, Hands))
              <= InitialStock + resent["INCR"]
<1>1. /\ stock \in Int /\ stranded \in Nat /\ InitialStock \in Nat
      /\ resent["DECR"] \in Nat /\ resent["INCR"] \in Nat
      /\ Cardinality(coupons) \in Nat
  BY CouponsFinite, ResendAssumption, StockAssumption
  DEF TypeOK, DbTypeOK, StockTypeOK, Commands, InitialStock
<1>2. QED
  BY <1>1, TakenCount DEF Accounting, SlotsCounted, StockFloor, NotOversold

-----------------------------------------------------------------------------
(* What each control point knows about the coupon table.                   *)

LEMMA NextControl ==
  ASSUME TypeOK, ControlAgrees, [Next]_vars
  PROVE  ControlAgrees'
<1> USE DEF ControlAgrees, Duplicate, TypeOK, DbTypeOK
<1>1. ASSUME UNCHANGED <<userKey, pc, coupons>> PROVE ControlAgrees'
  BY <1>1
<1>2. CASE Crash
  BY <1>2 DEF Crash, ServerStops, InFlight, Ended, Outcomes, Answers
<1>3. ASSUME NEW r \in Requests, Step(r) PROVE ControlAgrees'
  <2> USE DEF Goto
  (* Who has no row goes on without one, and is told of a repeat only      *)
  (* where the insert found one.                                           *)
  <2>1. ASSUME UNCHANGED coupons, r \notin coupons,
               NEW l \in {"decr", "eval", "create", "undo", "SOLD_OUT", "NOT_FOUND"},
               Goto(r, l)
        PROVE  ControlAgrees'
    BY <2>1
  <2>2. CASE Lookup(r)
    <3>1. PICK l \in {"decr", "eval", "NOT_FOUND"} :
            pc[r] = "start" /\ Goto(r, l) /\ UNCHANGED coupons
      BY <2>2, PathsAssumption DEF Lookup, FindCampaign, Resolve, dbVars
    <3>2. QED  BY <2>1, <3>1
  <2>3. CASE TakeByDecr(r) \/ TakeByScript(r)
    <3>1. PICK l \in {"create", "undo", "SOLD_OUT"} :
            pc[r] \in {"decr", "eval"} /\ Goto(r, l) /\ UNCHANGED coupons
      BY <2>3 DEF TakeByDecr, TakeByScript, Decr, EvalScript, Resolve, dbVars
    <3>2. QED  BY <2>1, <3>1
  <2>4. CASE Create(r)
    <3>1. CASE InsertCoupon(r) /\ Settle(r, "count", "ERROR")
      <4>1. PICK l \in {"count", "ERROR"} : Goto(r, l)
        BY <3>1 DEF Settle, Resolve, LoseAck
      <4>2. coupons' = coupons \cup {r}
        BY <3>1 DEF InsertCoupon
      <4>3. QED  BY <4>1, <4>2
    <3>2. CASE Duplicate(r) /\ Resolve(r, "giveBack") /\ UNCHANGED dbVars
      <4>1. pc[r] = "create"
        BY <2>4 DEF Create
      <4>2. QED  BY <3>2, <4>1 DEF Resolve, dbVars
    <3>3. QED  BY <2>4, <3>1, <3>2 DEF Create
  <2>5. CASE Count(r)
    <3>1. PICK l \in {"ISSUED", "ERROR"} :
            pc[r] = "count" /\ Goto(r, l) /\ UNCHANGED coupons
      BY <2>5 DEF Count, Settle, Resolve, LoseAck, AddIssued
    <3>2. QED  BY <3>1
  <2>6. CASE GiveBack(r)
    <3>1. /\ UNCHANGED coupons
          /\ \/ pc[r] = "undo" /\ Goto(r, "SOLD_OUT")
             \/ pc[r] = "giveBack" /\ Goto(r, "ALREADY_ISSUED")
      BY <2>6 DEF GiveBack, Resolve, dbVars
    <3>2. QED  BY <2>1, <3>1
  <2>7. CASE Reject(r, Catches)
    <3>1. Catches[pc[r]] = "ERROR"
      BY <2>7 DEF Reject, Catches
    <3>2. UNCHANGED coupons /\ Goto(r, "ERROR")
      BY <2>7, <3>1 DEF Reject, dbVars
    <3>3. QED  BY <3>2
  <2>8. QED  BY <1>3, <2>2, <2>3, <2>4, <2>5, <2>6, <2>7 DEF Step
<1>4. CASE CreateCampaign \/ AllEnded \/ UNCHANGED vars
  BY <1>1, <1>4
  DEF CreateCampaign, AllEnded, vars, couponDbVars, dbVars, requestVars
<1>5. QED  BY <1>2, <1>3, <1>4 DEF Next

(* The slots of the counter are accounted for in every reachable state:    *)
(* the counter oversells by at most the INCRs that ran twice, and is below *)
(* zero only on account of DECRs that are or never will be undone          *)
(* (issue.redis.ts:20-78, issue.redisLua.ts:33-83).                        *)
THEOREM Invariance == Spec => []IInv
<1>1. IInv /\ [Next]_vars => IInv'
  <2> SUFFICES ASSUME IInv, [Next]_vars PROVE IInv'
    OBVIOUS
  <2>1. TypeOK'
    BY NextType DEF IInv
  <2>2. Accounting'
    BY <2>1, NextAccounting DEF IInv, Accounting
  <2>3. NotOversold'
    BY <2>1, <2>2, AccountingBounds, PTL
  <2>4. ControlAgrees'
    BY NextControl DEF IInv
  <2>5. QED  BY <2>1, <2>2, <2>3, <2>4 DEF IInv, Accounting
<1>2. QED  BY InitInv, <1>1, PTL DEF Spec

(* A request told ISSUED has its coupon, one told ALREADY_ISSUED has none  *)
(* while its user does (issue.redis.ts:59-78, issue.redisLua.ts:66-83).    *)
THEOREM AnswersTruthful == Spec => []TruthfulAnswers
<1>1. IInv => TruthfulAnswers
  BY DEF IInv, ControlAgrees, TruthfulAnswers
<1>2. QED  BY <1>1, Invariance, PTL

-----------------------------------------------------------------------------
(* Both strategies implement the sale.                                     *)

SaleAnswer == [r \in Requests |-> IF pc[r] \in Answers THEN pc[r] ELSE "none"]

LEMMA InitRefines == Init => Sale!Init
BY DEF Init, DbInit, Sale!Init, Answers

(* A request that goes from one control point to another tells nobody      *)
(* anything, and one that comes to an answer tells exactly that.           *)
LEMMA Telling ==
  ASSUME TypeOK, NEW r \in Requests, NEW l, Goto(r, l)
  PROVE  /\ userKey' = userKey
         /\ pc[r] \notin Answers /\ l \notin Answers => SaleAnswer' = SaleAnswer
         /\ pc[r] \notin Answers /\ l \in Answers => Sale!Tell(r, l)
BY DEF Goto, TypeOK, DbTypeOK, SaleAnswer, Sale!Tell, Answers

(* Whoever is about to insert has a slot, so there is room in the sale.    *)
LEMMA RoomForOne ==
  ASSUME IInv, NEW r \in Requests, pc[r] = "create"
  PROVE  Cardinality(coupons) < TotalStock + MaxResends
<1>1. /\ resent["INCR"] \in 0 .. MaxResends
      /\ InitialStock \in Nat /\ InitialStock <= TotalStock
      /\ Cardinality(coupons) \in Nat /\ TotalStock \in Nat
  BY CouponsFinite, StockAssumption
  DEF IInv, TypeOK, DbTypeOK, StockTypeOK, Commands, InitialStock
<1>2. Cardinality(Where(pc, Hands)) >= 1
  BY WhereSomebody DEF Hands
<1>3. Cardinality(coupons) + Cardinality(Where(pc, Hands))
        <= InitialStock + resent["INCR"]
  BY AccountingBounds DEF IInv, Accounting
<1>4. QED  BY <1>1, <1>2, <1>3, TakenCount, ResendAssumption

(* The sale counts coupons the way the strategies do.                      *)
LEMMA SameCount == Sale!Cardinality(coupons) = Cardinality(coupons)
BY DEF Sale!Cardinality, Cardinality

(* Every step of the strategies is a step of the sale or invisible to it.  *)
LEMMA NextRefines ==
  ASSUME IInv, [Next]_vars
  PROVE  [Sale!Next]_Sale!vars
<1>0. TypeOK
  BY DEF IInv
<1>1. ASSUME UNCHANGED <<userKey, coupons>>, SaleAnswer' = SaleAnswer
      PROVE  UNCHANGED Sale!vars
  BY <1>1 DEF Sale!vars, SaleAnswer
<1>2. CASE CreateCampaign \/ AllEnded \/ UNCHANGED vars
  <2>1. UNCHANGED <<userKey, coupons, pc>>
    BY <1>2 DEF CreateCampaign, AllEnded, vars, couponDbVars, dbVars, requestVars
  <2>2. QED  BY <1>1, <2>1 DEF SaleAnswer
<1>3. CASE Crash
  <2>1. UNCHANGED <<userKey, coupons>> /\ SaleAnswer' = SaleAnswer
    BY <1>0, <1>3 DEF Crash, ServerStops, SaleAnswer, InFlight, Ended, Outcomes,
                      Answers, TypeOK, DbTypeOK
  <2>2. QED  BY <1>1, <2>1
<1>4. ASSUME NEW r \in Requests, Step(r) PROVE [Sale!Next]_Sale!vars
  <2> USE DEF Answers
  <2>1. ASSUME UNCHANGED coupons, pc[r] \notin Answers,
               NEW l, l \notin Answers, Goto(r, l)
        PROVE  [Sale!Next]_Sale!vars
    BY <1>0, <1>1, <2>1, Telling
  <2>2. ASSUME UNCHANGED coupons, pc[r] \notin Answers,
               NEW l \in {"ERROR", "NOT_FOUND"}, Goto(r, l)
        PROVE  [Sale!Next]_Sale!vars
    BY <1>0, <2>2, Telling DEF Sale!Next, Sale!GiveUp
  <2>3. ASSUME UNCHANGED coupons, pc[r] \in {"eval", "undo"}, Goto(r, "SOLD_OUT")
        PROVE  [Sale!Next]_Sale!vars
    <3>1. r \notin coupons
      BY <2>3 DEF IInv, ControlAgrees
    <3>2. Sale!RefuseSoldOut(r)
      BY <1>0, <2>3, <3>1, Telling DEF Sale!RefuseSoldOut
    <3>3. QED  BY <3>2 DEF Sale!Next
  <2>4. CASE Lookup(r)
    <3>1. PICK l \in {"decr", "eval", "NOT_FOUND"} :
            pc[r] = "start" /\ Goto(r, l) /\ UNCHANGED coupons
      BY <2>4, PathsAssumption DEF Lookup, FindCampaign, Resolve, dbVars
    <3>2. QED  BY <2>1, <2>2, <3>1
  <2>5. CASE TakeByDecr(r)
    <3>1. PICK l \in {"create", "undo"} :
            pc[r] = "decr" /\ Goto(r, l) /\ UNCHANGED coupons
      BY <2>5 DEF TakeByDecr, Decr, Resolve, dbVars
    <3>2. QED  BY <2>1, <3>1
  <2>6. CASE TakeByScript(r)
    <3>1. PICK l \in {"create", "SOLD_OUT"} :
            pc[r] = "eval" /\ Goto(r, l) /\ UNCHANGED coupons
      BY <2>6 DEF TakeByScript, EvalScript, Resolve, dbVars
    <3>2. QED  BY <2>1, <2>3, <3>1
  <2>7. CASE Create(r)
    <3>0. pc[r] = "create" /\ SaleAnswer[r] = "none"
      BY <2>7 DEF Create, SaleAnswer
    <3>1. CASE InsertCoupon(r) /\ Settle(r, "count", "ERROR")
      <4>1. /\ coupons' = coupons \cup {r} /\ ~Sale!Served(r)
            /\ Cardinality(coupons) < TotalStock + MaxResends
        BY <3>0, <3>1, RoomForOne DEF InsertCoupon, Duplicate, Sale!Served
      <4>2. CASE Goto(r, "ERROR")
        <5>1. Sale!Tell(r, "ERROR")
          BY <1>0, <3>0, <4>2, Telling
        <5>2. Sale!Grant(r)
          BY <3>0, <4>1, <5>1, SameCount DEF Sale!Grant, SaleAnswer
        <5>3. QED  BY <5>2 DEF Sale!Next
      <4>3. CASE Goto(r, "count")
        <5>1. UNCHANGED <<userKey, SaleAnswer>>
          BY <1>0, <3>0, <4>3, Telling
        <5>2. Sale!Grant(r)
          BY <3>0, <4>1, <5>1, SameCount DEF Sale!Grant, SaleAnswer
        <5>3. QED  BY <5>2 DEF Sale!Next
      <4>4. QED  BY <3>1, <4>2, <4>3 DEF Settle, Resolve, LoseAck
    <3>2. CASE Resolve(r, "giveBack") /\ UNCHANGED dbVars
      BY <2>1, <3>0, <3>2 DEF Resolve, dbVars
    <3>3. QED  BY <2>7, <3>1, <3>2 DEF Create
  <2>8. CASE Count(r)
    <3>1. UNCHANGED coupons /\ pc[r] = "count"
      BY <2>8 DEF Count, AddIssued
    <3>2. CASE Goto(r, "ERROR")
      BY <2>2, <3>1, <3>2
    <3>3. CASE Goto(r, "ISSUED")
      <4>1. r \in coupons
        BY <3>1 DEF IInv, ControlAgrees
      <4>2. Sale!Confirm(r)
        BY <1>0, <3>1, <3>3, <4>1, Telling DEF Sale!Confirm
      <4>3. QED  BY <4>2 DEF Sale!Next
    <3>4. QED  BY <2>8, <3>2, <3>3 DEF Count, Settle, Resolve, LoseAck
  <2>9. CASE GiveBack(r)
    <3>1. /\ UNCHANGED coupons
          /\ \/ pc[r] = "undo" /\ Goto(r, "SOLD_OUT")
             \/ pc[r] = "giveBack" /\ Goto(r, "ALREADY_ISSUED")
      BY <2>9 DEF GiveBack, Resolve, dbVars
    <3>2. CASE pc[r] = "giveBack" /\ Goto(r, "ALREADY_ISSUED")
      <4>1. r \notin coupons /\ Sale!Served(r)
        BY <3>2 DEF IInv, ControlAgrees, Duplicate, Sale!Served
      <4>2. Sale!RefuseRepeat(r)
        BY <1>0, <3>1, <3>2, <4>1, Telling DEF Sale!RefuseRepeat
      <4>3. QED  BY <4>2 DEF Sale!Next
    <3>3. QED  BY <2>3, <3>1, <3>2
  <2>10. CASE Reject(r, Catches)
    <3>1. UNCHANGED coupons /\ pc[r] \notin Answers /\ Goto(r, "ERROR")
      BY <2>10 DEF Reject, Catches, dbVars
    <3>2. QED  BY <2>2, <3>1
  <2>11. QED
    BY <1>4, <2>4, <2>5, <2>6, <2>7, <2>8, <2>9, <2>10 DEF Step
<1>5. QED  BY <1>2, <1>3, <1>4 DEF Next

(* The redis and redis-lua strategies implement, on one counter, the sale  *)
(* of TotalStock + MaxResends coupons, one per user, every answer given    *)
(* once and truthful (issue.redis.ts:20-78, issue.redisLua.ts:33-83).      *)
THEOREM Refinement == Spec => ImplementsSale
<1>1. QED
  BY InitRefines, NextRefines, Invariance, PTL DEF Spec, ImplementsSale, Sale!Spec

-----------------------------------------------------------------------------
(* When nothing has failed or run twice.                                   *)

Sound == Faultless /\ NothingResent
Repeats == Cardinality(Where(pc, {"ALREADY_ISSUED"}))
Refused == \E r \in Requests : pc[r] \in {"undo", "SOLD_OUT"}

(* Every slot the counter was set to is on the counter, in somebody's hand *)
(* or a coupon; and whoever was refused met a counter whose slots were all *)
(* taken, some of them by repeats that have given them back since.         *)
Balanced ==
  Sound =>
    /\ stock + Cardinality(Where(pc, Hands)) + Cardinality(Where(pc, Owing))
         + Cardinality(coupons) = InitialStock
    /\ Refused => Cardinality(Where(pc, Hands)) + Cardinality(coupons) + Repeats >= InitialStock

(* What a step can be when nothing has failed or run twice after it.       *)
Tries(r, l) ==
  /\ pc[r] \in {"decr", "eval"} /\ UNCHANGED coupons
  /\ \/ l = "create" /\ stock' = stock - 1
     \/ pc[r] = "decr" /\ l = "undo" /\ stock <= 0 /\ stock' = stock - 1
     \/ pc[r] = "eval" /\ l = "SOLD_OUT" /\ stock <= 0 /\ stock' = stock

Makes(r, l) ==
  /\ pc[r] = "create" /\ UNCHANGED stock
  /\ \/ l = "count" /\ InsertCoupon(r)
     \/ l = "giveBack" /\ UNCHANGED coupons

Returns(r, l) ==
  /\ stock' = stock + 1 /\ UNCHANGED coupons
  /\ \/ pc[r] = "undo" /\ l = "SOLD_OUT"
     \/ pc[r] = "giveBack" /\ l = "ALREADY_ISSUED"

GoesOn(r, l) ==
  /\ UNCHANGED <<stock, coupons>>
  /\ \/ pc[r] = "start" /\ l \in {"decr", "eval", "NOT_FOUND"}
     \/ pc[r] = "count" /\ l = "ISSUED"

Succeeds(r, l) ==
  /\ Goto(r, l)
  /\ Tries(r, l) \/ Makes(r, l) \/ Returns(r, l) \/ GoesOn(r, l)

(* A command that ran once.                                                *)
LEMMA SentOnce ==
  ASSUME TypeOK, TypeOK', NothingResent', NEW c \in Commands, NEW again \in {0, 1}, Send(c, again)
  PROVE  again = 0 /\ resent' = resent
<1> DEFINE d == resent'["DECR"]
           e == resent'["EVAL"]
           i == resent'["INCR"]
           p == resent'["LPUSH"]
<1>1. d \in Nat /\ e \in Nat /\ i \in Nat /\ p \in Nat
  BY ResendAssumption DEF TypeOK, StockTypeOK, Commands
<1>2. d + e + i + p = 0
  BY DEF NothingResent, Resends
<1>3. d = 0 /\ e = 0 /\ i = 0 /\ p = 0
  <2> HIDE DEF d, e, i, p
  <2>1. QED  BY <1>1, <1>2
<1>4. resent'[c] = 0
  BY <1>3 DEF Commands
<1>5. again = 1 => resent'[c] = resent[c] + 1 /\ resent[c] \in Nat
  BY ResendAssumption DEF Send, TypeOK, StockTypeOK
<1>6. again # 1
  BY <1>4, <1>5
<1>7. QED  BY <1>6 DEF Send

LEMMA SoundSteps ==
  ASSUME TypeOK, TypeOK', NEW r \in Requests, Step(r), Sound'
  PROVE  Sound /\ \E l : Succeeds(r, l)
<1>0. /\ rejects \in Nat /\ lostAcks \in Nat /\ rejects' = 0 /\ lostAcks' = 0
      /\ \A q \in Requests : pc'[q] # "DEAD"
      /\ stock \in Int
  BY DEF TypeOK, DbTypeOK, StockTypeOK, Sound, Faultless
<1>1. \E l : pc[r] \notin Outcomes /\ Goto(r, l)
  BY DEF Step, Lookup, FindCampaign, TakeByDecr, TakeByScript, Decr, EvalScript, Create, Count,
         GiveBack, Incr, Reject, Catches, Settle, Resolve, LoseAck, Outcomes, Answers
<1>2. \A q \in Requests : pc[q] = "DEAD" => pc'[q] = "DEAD"
  BY <1>1 DEF Goto, TypeOK, DbTypeOK, Outcomes
<1>3. rejects' \in {rejects, rejects + 1} /\ lostAcks' \in {lostAcks, lostAcks + 1}
  BY DEF Step, Lookup, FindCampaign, TakeByDecr, TakeByScript, Decr, EvalScript, Create, Count,
         GiveBack, Incr, Reject, Settle, Resolve, LoseAck
<1>4. Faultless /\ rejects' = rejects /\ lostAcks' = lostAcks
  BY <1>0, <1>2, <1>3 DEF Faultless
<1>5. \A l, c : Settle(r, l, c) => Goto(r, l)
  BY <1>0, <1>4 DEF Settle, Resolve, LoseAck
<1>6. NothingResent' /\ (resent' = resent => NothingResent)
  BY DEF Sound, NothingResent, Resends
<1>7. CASE Lookup(r)
  <2>1. PICK l \in {"decr", "eval", "NOT_FOUND"} : pc[r] = "start" /\ Goto(r, l)
    BY <1>7, PathsAssumption DEF Lookup, FindCampaign, Resolve
  <2>2. Succeeds(r, l) /\ resent' = resent
    BY <1>7, <2>1 DEF Lookup, FindCampaign, dbVars, redisVars, stockVars, Succeeds, GoesOn
  <2>3. QED  BY <1>4, <1>6, <2>2 DEF Sound
<1>8. CASE TakeByDecr(r)
  <2>1. PICK again \in {0, 1} :
          /\ Send("DECR", again) /\ stock' = stock - 1 - again
          /\ Resolve(r, IF stock' >= 0 THEN "create" ELSE "undo")
          /\ pc[r] = "decr" /\ UNCHANGED coupons
    BY <1>8 DEF TakeByDecr, Decr, dbVars
  <2>2. again = 0 /\ resent' = resent
    BY <1>6, <2>1, SentOnce DEF Commands
  <2>3. PICK l \in {"create", "undo"} : Succeeds(r, l)
    BY <1>0, <2>1, <2>2 DEF Resolve, Succeeds, Tries
  <2>4. QED  BY <1>4, <1>6, <2>2, <2>3 DEF Sound
<1>9. CASE TakeByScript(r)
  <2>1. PICK again \in {0, 1} :
          LET before == IF again = 1 THEN AfterScript(stock) ELSE stock
          IN  /\ Send("EVAL", again) /\ stock' = AfterScript(before)
              /\ Resolve(r, IF before > 0 THEN "create" ELSE "SOLD_OUT")
              /\ pc[r] = "eval" /\ UNCHANGED coupons
    BY <1>9 DEF TakeByScript, EvalScript, dbVars
  <2>2. again = 0 /\ resent' = resent
    BY <1>6, <2>1, SentOnce DEF Commands
  <2>3. PICK l \in {"create", "SOLD_OUT"} : Succeeds(r, l)
    BY <1>0, <2>1, <2>2 DEF Resolve, AfterScript, Succeeds, Tries
  <2>4. QED  BY <1>4, <1>6, <2>2, <2>3 DEF Sound
<1>10. CASE Create(r)
  <2>1. PICK l \in {"count", "giveBack"} : Succeeds(r, l)
    BY <1>5, <1>10 DEF Create, Resolve, InsertCoupon, dbVars, redisVars, stockVars, Succeeds, Makes
  <2>2. resent' = resent
    BY <1>10 DEF Create, redisVars, stockVars
  <2>3. QED  BY <1>4, <1>6, <2>1, <2>2 DEF Sound
<1>11. CASE Count(r)
  <2>1. Succeeds(r, "ISSUED") /\ resent' = resent
    BY <1>5, <1>11 DEF Count, AddIssued, redisVars, stockVars, Succeeds, GoesOn
  <2>2. QED  BY <1>4, <1>6, <2>1 DEF Sound
<1>12. CASE GiveBack(r)
  <2>1. PICK again \in {0, 1} :
          /\ Send("INCR", again) /\ stock' = stock + 1 + again
          /\ \/ pc[r] = "undo" /\ Goto(r, "SOLD_OUT")
             \/ pc[r] = "giveBack" /\ Goto(r, "ALREADY_ISSUED")
          /\ UNCHANGED coupons
    BY <1>12 DEF GiveBack, Incr, Resolve, dbVars
  <2>2. again = 0 /\ resent' = resent
    BY <1>6, <2>1, SentOnce DEF Commands
  <2>3. PICK l \in {"SOLD_OUT", "ALREADY_ISSUED"} : Succeeds(r, l)
    BY <1>0, <2>1, <2>2 DEF Succeeds, Returns
  <2>4. QED  BY <1>4, <1>6, <2>2, <2>3 DEF Sound
<1>13. ~Reject(r, Catches)
  BY <1>0, <1>4 DEF Reject
<1>14. QED  BY <1>7, <1>8, <1>9, <1>10, <1>11, <1>12, <1>13 DEF Step

LEMMA NextBalanced ==
  ASSUME TypeOK, TypeOK', Balanced, [Next]_vars
  PROVE  Balanced'
<1>0. /\ stock \in Int /\ stock' \in Int /\ InitialStock \in Nat
      /\ coupons \subseteq Requests /\ Cardinality(coupons) \in Nat
      /\ DOMAIN pc = Requests
  BY CouponsFinite, StockAssumption DEF TypeOK, DbTypeOK, StockTypeOK, InitialStock
<1>1. CASE ((CreateCampaign \/ AllEnded) /\ UNCHANGED redisVars) \/ UNCHANGED vars
  BY <1>1 DEF CreateCampaign, AllEnded, vars, couponDbVars, dbVars, requestVars, redisVars,
              stockVars, Balanced, Sound, Faultless, NothingResent, Resends, Refused, Repeats,
              InitialStock, Where
<1>2. CASE Crash
  BY <1>2 DEF Crash, ServerStops, Balanced, Sound, Faultless
<1>3. ASSUME NEW r \in Requests, Step(r), Sound' PROVE Balanced'
  <2>1. PICK l : Succeeds(r, l)
    BY <1>3, SoundSteps
  <2>2. Sound
    BY <1>3, SoundSteps
  <2> DEFINE h == Cardinality(Where(pc, Hands))
             h1 == Cardinality(Where(pc', Hands))
             o == Cardinality(Where(pc, Owing))
             o1 == Cardinality(Where(pc', Owing))
             m == Cardinality(coupons)
             m1 == Cardinality(coupons')
             d == Repeats
             d1 == Cardinality(Where(pc', {"ALREADY_ISSUED"}))
             s == stock
             s1 == stock'
  <2>3. Goto(r, l) /\ pc[r] \in {"start", "decr", "eval", "create", "count", "giveBack", "undo"}
    BY <2>1 DEF Succeeds, Tries, Makes, Returns, GoesOn
  <2>4. s + h + o + m = InitialStock /\ (Refused => h + m + d >= InitialStock)
    BY <2>2 DEF Balanced
  <2>5. /\ pc[r] \notin Hands /\ l \in Hands => h1 = h + 1
        /\ pc[r] \in Hands /\ l \notin Hands => h1 = h - 1
        /\ (pc[r] \in Hands <=> l \in Hands) => h1 = h
        /\ pc[r] \notin Owing /\ l \in Owing => o1 = o + 1
        /\ pc[r] \in Owing /\ l \notin Owing => o1 = o - 1
        /\ (pc[r] \in Owing <=> l \in Owing) => o1 = o
    BY <2>3, TakenMoves
  <2>6. /\ d \in Nat /\ d1 \in Nat
        /\ l = "ALREADY_ISSUED" => d1 = d + 1
        /\ l # "ALREADY_ISSUED" => d1 = d
    <3>1. pc[r] \notin {"ALREADY_ISSUED"}
      BY <2>3
    <3>2. QED  BY <1>0, <2>3, <3>1, AtMoves DEF Repeats
  <2>7. h \in Nat /\ h1 \in Nat /\ o \in Nat /\ o1 \in Nat
    BY TakenCount
  <2>8. (o # 0 \/ pc[r] = "undo") => Refused
    <3>1. o # 0 => Where(pc, Owing) # {}
      BY FS_EmptySet
    <3>2. QED  BY <3>1 DEF Where, Owing, Refused
  <2>9. Refused' => Refused \/ l \in {"undo", "SOLD_OUT"}
    BY <1>0, <2>3 DEF Refused, Goto
  <2>10. /\ m1 \in Nat /\ s1 + h1 + o1 + m1 = InitialStock
         /\ Refused' => h1 + m1 + d1 >= InitialStock
    <3>1. CASE Tries(r, l)
      <4>1. /\ m1 = m /\ d1 = d
            /\ \/ h1 = h + 1 /\ o1 = o /\ s1 = s - 1 /\ l = "create"
               \/ h1 = h /\ o1 = o + 1 /\ s1 = s - 1 /\ s <= 0
               \/ h1 = h /\ o1 = o /\ s1 = s /\ s <= 0
        BY <2>5, <2>6, <3>1 DEF Tries, Hands, Owing
      <4>2. (Refused' => Refused) \/ (s <= 0 /\ h1 = h)
        BY <2>9, <4>1
      <4>3. (Refused => h + m + d >= InitialStock) /\ (o # 0 => Refused)
        BY <2>4, <2>8
      <4>4. d \in Nat /\ m \in Nat /\ s \in Int /\ s + h + o + m = InitialStock
        BY <1>0, <2>4, <2>6
      <4>5. h1 >= h
        <5> HIDE DEF h, h1
        <5>1. QED  BY <2>7, <4>1
      <4> HIDE DEF h, h1, o, o1, m, m1, d, d1, s, s1
      <4>6. s1 + h1 + o1 + m1 = InitialStock
        BY <2>7, <4>1, <4>4
      <4>7. Refused => h1 + m1 + d1 >= InitialStock
        BY <1>0, <2>7, <4>1, <4>3, <4>4, <4>5
      <4>8. s <= 0 => h + m + d >= InitialStock
        BY <1>0, <2>7, <4>3, <4>4
      <4>9. QED  BY <4>1, <4>2, <4>4, <4>6, <4>7, <4>8
    <3>2. CASE Makes(r, l)
      <4>1. /\ d1 = d /\ o1 = o /\ s1 = s /\ l \notin {"undo", "SOLD_OUT"}
            /\ \/ m1 = m + 1 /\ h1 = h - 1
               \/ m1 = m /\ h1 = h
        BY <1>0, <2>5, <2>6, <3>2, InsertAddsOne DEF Makes, Hands, Owing
      <4> HIDE DEF h, h1, o, o1, m, m1, d, d1, s, s1
      <4>2. QED  BY <1>0, <2>4, <2>6, <2>7, <2>9, <4>1 DEF m, s
    <3>3. CASE Returns(r, l)
      <4>1. /\ m1 = m /\ s1 = s + 1
            /\ \/ pc[r] = "undo" /\ o1 = o - 1 /\ h1 = h /\ d1 = d
               \/ l = "ALREADY_ISSUED" /\ o1 = o /\ h1 = h - 1 /\ d1 = d + 1
        BY <2>5, <2>6, <3>3 DEF Returns, Hands, Owing
      <4>2. Refused' => h + m + d >= InitialStock
        BY <2>4, <2>8, <2>9, <4>1
      <4>3. d \in Nat /\ m \in Nat /\ s \in Int /\ s + h + o + m = InitialStock
        BY <1>0, <2>4, <2>6
      <4> HIDE DEF h, h1, o, o1, m, m1, d, d1, s, s1
      <4>4. QED  BY <1>0, <2>7, <4>1, <4>2, <4>3
    <3>4. CASE GoesOn(r, l)
      <4>1. /\ m1 = m /\ s1 = s /\ o1 = o /\ h1 = h /\ d1 = d
            /\ l \notin {"undo", "SOLD_OUT"}
        BY <2>5, <2>6, <3>4 DEF GoesOn, Hands, Owing
      <4> HIDE DEF h, h1, o, o1, m, m1, d, d1, s, s1
      <4>2. QED  BY <1>0, <2>4, <2>6, <2>7, <2>9, <4>1 DEF m, s
    <3>5. QED  BY <2>1, <3>1, <3>2, <3>3, <3>4 DEF Succeeds
  <2>11. InitialStock' = InitialStock
    BY <1>3 DEF Step, Lookup, FindCampaign, TakeByDecr, TakeByScript, Create, Count, GiveBack,
                InsertCoupon, AddIssued, Reject, dbVars, InitialStock
  <2>12. QED  BY <2>10, <2>11 DEF Balanced, Repeats
<1>4. CASE ~Sound'
  BY <1>4 DEF Balanced
<1>5. QED  BY <1>1, <1>2, <1>3, <1>4 DEF Next

LEMMA BalancedHolds == Spec => [](IInv /\ Balanced)
<1>1. Init => Balanced
  <2> SUFFICES ASSUME Init PROVE Balanced
    OBVIOUS
  <2>1. /\ Where(pc, Hands) = {} /\ Where(pc, Owing) = {} /\ coupons = {} /\ ~Refused
        /\ stock = InitialStock /\ InitialStock \in Nat
    BY StockAssumption
    DEF Init, DbInit, StockInit, InitialStock, Where, Hands, Owing, Refused
  <2>2. Cardinality({}) = 0
    BY FS_EmptySet
  <2>3. QED  BY <2>1, <2>2 DEF Balanced
<1>2. Balanced /\ IInv /\ IInv' /\ [Next]_vars => Balanced'
  BY NextBalanced DEF IInv
<1>3. QED  BY <1>1, <1>2, Invariance, PTL DEF Spec

(* Once everything is answered nobody holds a slot or owes an INCR.        *)
LEMMA InTheEnd ==
  ASSUME Quiet, Faultless
  PROVE  Cardinality(Where(pc, Hands)) = 0 /\ Cardinality(Where(pc, Owing)) = 0
<1>1. Where(pc, Hands) = {} /\ Where(pc, Owing) = {}
  BY DEF Quiet, Ended, Outcomes, Answers, Hands, Owing, Where
<1>2. QED  BY <1>1, FS_EmptySet

(* Without faults no slot leaks: when all is answered, what is left on the *)
(* counter and the coupons are what the counter was set to                 *)
(* (docs/04-redis.md:31-32, issue.redis.ts:20-78, issue.redisLua.ts:33-83).*)
THEOREM NoSlotLeaks == Spec => []NoLeak
<1>1. IInv /\ Balanced => NoLeak
  <2> SUFFICES ASSUME IInv, Balanced, Quiet, Sound
               PROVE  stock + Cardinality(coupons) = InitialStock
    BY DEF NoLeak, Sound
  <2>1. stock \in Int /\ Cardinality(coupons) \in Nat
    BY CouponsFinite DEF IInv, TypeOK, DbTypeOK, StockTypeOK
  <2>2. stock + 0 + 0 + Cardinality(coupons) = InitialStock
    BY InTheEnd DEF Balanced, Sound
  <2>3. QED  BY <2>1, <2>2
<1>2. QED  BY <1>1, BalancedHolds, PTL

(* A refusal that was not final is explained: no more coupons are left     *)
(* over than repeats held a slot for a moment and gave it back             *)
(* (issue.redis.ts:59-78, issue.redisLua.ts:66-83).                        *)
THEOREM UnsoldByRepeats == Spec => []UnsoldReturned
<1>1. IInv /\ Balanced => UnsoldReturned
  <2> SUFFICES ASSUME IInv, Balanced, origin = "seed", NothingResent, Quiet, Faultless,
                      At({"SOLD_OUT"}) # {}
               PROVE  Cardinality(coupons) + Cardinality(At({"ALREADY_ISSUED"})) >= TotalStock
    BY DEF UnsoldReturned, UnsoldExplained
  <2>1. Refused
    BY DEF Refused, At, Where
  <2>2. 0 + Cardinality(coupons) + Repeats >= TotalStock
    BY <2>1, InTheEnd DEF Balanced, Sound, InitialStock
  <2>3. Cardinality(coupons) \in Nat
    BY CouponsFinite DEF IInv, TypeOK, DbTypeOK
  <2>4. QED  BY <2>2, <2>3 DEF Repeats, At
<1>2. QED  BY <1>1, BalancedHolds, PTL
-----------------------------------------------------------------------------
(* issuedCount and the coupons.                                            *)

LEMMA NextCount ==
  ASSUME TypeOK, CountTrails, [Next]_vars
  PROVE  CountTrails'
<1> DEFINE c == Cardinality(Where(pc, {"count"}))
           c1 == Cardinality(Where(pc', {"count"}))
           a == Cardinality(Where(pc, {"ISSUED"}))
           a1 == Cardinality(Where(pc', {"ISSUED"}))
           k == Cardinality(coupons)
           k1 == Cardinality(coupons')
<1>0. /\ c \in Nat /\ c1 \in Nat /\ a \in Nat /\ a1 \in Nat /\ k \in Nat
      /\ issuedCount \in Int
  BY CouponsFinite, WhereFinite DEF TypeOK, DbTypeOK
<1>1. issuedCount + c <= k /\ a <= issuedCount
  BY DEF CountTrails, At
<1>2. SUFFICES issuedCount' + c1 <= k1 /\ a1 <= issuedCount'
  BY DEF CountTrails, At
<1>3. ASSUME NEW r \in Requests, NEW l, Goto(r, l)
      PROVE  /\ pc[r] # "count" /\ l = "count" => c1 = c + 1
             /\ pc[r] = "count" /\ l # "count" => c1 = c - 1
             /\ pc[r] # "count" /\ l # "count" => c1 = c
             /\ pc[r] # "ISSUED" /\ l = "ISSUED" => a1 = a + 1
             /\ pc[r] # "ISSUED" /\ l # "ISSUED" => a1 = a
  BY <1>3, AtMoves DEF TypeOK, DbTypeOK
<1>4. CASE CreateCampaign \/ AllEnded \/ UNCHANGED vars
  <2>1. UNCHANGED <<pc, coupons, issuedCount>>
    BY <1>4 DEF CreateCampaign, AllEnded, vars, couponDbVars, dbVars, requestVars
  <2>2. QED  BY <1>1, <2>1
<1>5. CASE Crash
  (* Nobody is about to count any more; who was told ISSUED stays told.    *)
  <2>1. /\ UNCHANGED <<coupons, issuedCount>>
        /\ Where(pc', {"count"}) = {} /\ Where(pc', {"ISSUED"}) = Where(pc, {"ISSUED"})
    BY <1>5 DEF Crash, ServerStops, Where, InFlight, Ended, Outcomes, Answers, TypeOK, DbTypeOK
  <2>2. c1 = 0
    BY <2>1, FS_EmptySet
  <2>3. a1 = a
    BY <2>1
  <2> HIDE DEF c, c1, a, a1
  <2>4. QED  BY <1>0, <1>1, <2>1, <2>2, <2>3
<1>6. ASSUME NEW r \in Requests, Step(r) PROVE issuedCount' + c1 <= k1 /\ a1 <= issuedCount'
  <2>1. CASE Create(r)
    <3>1. pc[r] = "create" /\ issuedCount' = issuedCount
      BY <2>1 DEF Create, InsertCoupon, dbVars
    <3>2. CASE InsertCoupon(r)
      <4>1. k1 = k + 1
        BY <3>2, InsertAddsOne DEF TypeOK, DbTypeOK
      <4>2. PICK l \in {"count", "ERROR", "giveBack"} : Goto(r, l)
        BY <2>1 DEF Create, Settle, Resolve, LoseAck
      <4>3. c1 <= c + 1 /\ a1 = a
        BY <1>0, <1>3, <3>1, <4>2
      <4> HIDE DEF c, c1, a, a1, k, k1
      <4>4. QED  BY <1>0, <1>1, <3>1, <4>1, <4>3
    <3>3. CASE ~InsertCoupon(r)
      <4>1. Goto(r, "giveBack") /\ coupons' = coupons
        BY <2>1, <3>3 DEF Create, Resolve, dbVars
      <4>2. c1 = c /\ a1 = a
        BY <1>3, <3>1, <4>1
      <4>3. QED  BY <1>1, <3>1, <4>1, <4>2
    <3>4. QED  BY <3>2, <3>3
  <2>2. CASE Count(r)
    <3>1. /\ pc[r] = "count" /\ issuedCount' = issuedCount + 1 /\ coupons' = coupons
          /\ Goto(r, "ISSUED") \/ Goto(r, "ERROR")
      BY <2>2 DEF Count, AddIssued, Settle, Resolve, LoseAck
    <3>2. c1 = c - 1 /\ a1 <= a + 1
      BY <1>0, <1>3, <3>1
    <3> HIDE DEF c, c1, a, a1
    <3>3. QED  BY <1>0, <1>1, <3>1, <3>2
  <2>3. CASE ~Create(r) /\ ~Count(r)
    <3>1. /\ UNCHANGED <<coupons, issuedCount>> /\ pc[r] \notin {"ISSUED"}
          /\ \E l : Goto(r, l) /\ l \notin {"count", "ISSUED"}
      <4>1. CASE Lookup(r)
        <5>1. PICK p \in Paths : FindCampaign(r, p)
          BY <4>1 DEF Lookup
        <5>2. /\ pc[r] = "start" /\ UNCHANGED dbVars
              /\ Goto(r, "NOT_FOUND") \/ Goto(r, p)
          BY <5>1 DEF FindCampaign, Resolve
        <5>3. p \notin {"count", "ISSUED"}
          BY PathsAssumption
        <5>4. QED  BY <5>2, <5>3 DEF dbVars
      <4>2. CASE TakeByDecr(r) \/ TakeByScript(r) \/ GiveBack(r)
        <5>1. pc[r] \in {"decr", "eval", "giveBack", "undo"}
          BY <4>2 DEF TakeByDecr, TakeByScript, GiveBack
        <5>2. QED  BY <4>2, <5>1, CommandSteps DEF Resolve, dbVars
      <4>3. CASE Reject(r, Catches)
        <5>1. pc[r] \in DOMAIN Catches /\ Catches[pc[r]] = "ERROR"
          BY <4>3 DEF Reject, Catches
        <5>2. QED  BY <4>3, <5>1 DEF Reject, dbVars, Catches
      <4>4. QED  BY <1>6, <2>3, <4>1, <4>2, <4>3 DEF Step
    <3>2. c1 <= c /\ a1 = a
      BY <1>0, <1>3, <3>1
    <3>3. k1 = k
      BY <3>1
    <3> HIDE DEF c, c1, a, a1, k, k1
    <3>4. QED  BY <1>0, <1>1, <3>1, <3>2, <3>3
  <2>4. QED  BY <2>1, <2>2, <2>3
<1>7. QED  BY <1>4, <1>5, <1>6 DEF Next

(* Whatever fails between an insert and its increment, issuedCount never   *)
(* runs ahead of the coupons, and whoever was told ISSUED is counted       *)
(* (issue.redis.ts:63-70, issue.redisLua.ts:71-80).                        *)
THEOREM CountFollows == Spec => []CountTrails
<1>1. Init => CountTrails
  <2> SUFFICES ASSUME Init PROVE CountTrails
    OBVIOUS
  <2>1. At({"count"}) = {} /\ At({"ISSUED"}) = {} /\ coupons = {} /\ issuedCount = 0
    BY DEF Init, DbInit, At, Where
  <2>2. QED  BY <2>1, FS_EmptySet DEF CountTrails
<1>2. IInv /\ CountTrails /\ [Next]_vars => CountTrails'
  BY NextCount DEF IInv
<1>3. QED  BY <1>1, <1>2, Invariance, PTL DEF Spec
=============================================================================
