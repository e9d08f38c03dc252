-------------------------- MODULE IssueRouter_proofs --------------------------
(***************************************************************************)
(* Every mixture of strategies on one campaign, for any number of requests,*)
(* users, workers, coupons in stock, virtual users and failures: by how    *)
(* much the database strategies and the Redis counter can oversell, that   *)
(* both count the coupons once all is done, and who is told a falsehood.   *)
(*                                                                         *)
(* The steps of all seven strategies are first sorted by what they do to   *)
(* the books - five kinds for the database strategies - and each kind is   *)
(* then shown, once, to keep them within their bounds.  They are gone      *)
(* through a second time for what they tell and what they leave exact.     *)
(***************************************************************************)
EXTENDS IssueRouter, CouponDb_lemmas, SequenceTheorems

(* The requests of some strategies at some control points.                 *)
Number(f, S, labels) == Cardinality({r \in Requests : strategy[r] \in S /\ f[r] \in labels})

Holders == OnDatabase \ {"pessimistic"}
HeldLabels == {"create", "rollback", "rollbackDup", "rollbackError"}
OnTheWay == {"insert", "increment", "commitIssued"}

(* The parts of TypeOK that the books need.                                *)
CoreType ==
  /\ issuedCount \in Int /\ version \in Nat /\ coupons \subseteq Requests
  /\ rowLock \in Requests \cup {NoOne}
  /\ pc \in [Requests -> Labels \cup Outcomes \cup {"start"}]
  /\ rejects \in 0 .. MaxRejects /\ lostAcks \in 0 .. MaxLostAcks
  /\ strategy \in [Requests -> Strategies]
  /\ seen \in [Requests -> Nat]

-----------------------------------------------------------------------------
(* Counting.                                                               *)

(* How a move changes the number of requests at some control points.       *)
LEMMA NumberMoves ==
  ASSUME CoreType, NEW r \in Requests, NEW l, Goto(r, l), NEW S, NEW labels
  PROVE  LET n == Number(pc, S, labels)
             m == Number(pc', S, labels)
         IN  /\ n \in Nat /\ m \in Nat
             /\ strategy[r] \in S /\ pc[r] \notin labels /\ l \in labels => m = n + 1
             /\ strategy[r] \in S /\ pc[r] \in labels /\ l \notin labels => m = n - 1
             /\ strategy[r] \notin S \/ (pc[r] \in labels <=> l \in labels) => m = n
<1> DEFINE X == {q \in Requests : strategy[q] \in S /\ pc[q] \in labels}
           Y == {q \in Requests : strategy[q] \in S /\ pc'[q] \in labels}
<1>1. IsFiniteSet(X) /\ IsFiniteSet(Y)
  BY FS_Subset, RequestsAssumption
<1>2. /\ strategy[r] \in S /\ pc[r] \notin labels /\ l \in labels =>
           r \notin X /\ Y = X \cup {r}
      /\ strategy[r] \in S /\ pc[r] \in labels /\ l \notin labels =>
           r \in X /\ Y = X \ {r}
      /\ strategy[r] \notin S \/ (pc[r] \in labels <=> l \in labels) => Y = X
  BY DEF Goto, CoreType
<1>3. Number(pc, S, labels) = Cardinality(X) /\ Number(pc', S, labels) = Cardinality(Y)
  BY DEF Number
<1> HIDE DEF X, Y
<1>4. Cardinality(X) \in Nat /\ Cardinality(Y) \in Nat
  BY <1>1, FS_CardinalityType
<1>5. r \notin X /\ Y = X \cup {r} => Cardinality(Y) = Cardinality(X) + 1
  BY <1>1, FS_AddElement
<1>6. r \in X /\ Y = X \ {r} => Cardinality(Y) = Cardinality(X) - 1
  BY <1>1, FS_RemoveElement
<1>7. QED  BY <1>2, <1>3, <1>4, <1>5, <1>6

(* Fewer at the control points, or as many when none is there.             *)
LEMMA NumberNat ==
  ASSUME NEW f, NEW S, NEW labels
  PROVE  /\ Number(f, S, labels) \in Nat
         /\ (\A r \in Requests : f[r] \notin labels) => Number(f, S, labels) = 0
<1> DEFINE X == {r \in Requests : strategy[r] \in S /\ f[r] \in labels}
<1>1. IsFiniteSet(X)
  BY FS_Subset, RequestsAssumption
<1>2. (\A r \in Requests : f[r] \notin labels) => X = {}
  OBVIOUS
<1> HIDE DEF X
<1>3. Cardinality(X) \in Nat /\ (X = {} => Cardinality(X) = 0)
  BY <1>1, FS_CardinalityType, FS_EmptySet
<1>4. QED  BY <1>2, <1>3 DEF Number, X

(* No control point is also an outcome.                                    *)
LEMMA LabelsApart ==
  /\ Labels \cap (Outcomes \cup {"start"}) = {}
  /\ HeldLabels \subseteq Labels /\ OnTheWay \subseteq Labels
  /\ {"cas", "push", "giveBack", "undo"} \subseteq Labels
BY DEF Labels, Naive!Labels, Atomic!Labels, Pessimistic!Labels, Pessimistic!Locked,
       Optimistic!Labels, Redis!Labels, Queue!Labels, Outcomes, Answers,
       HeldLabels, OnTheWay

Sold == Cardinality(CouponsOf(OnDatabase))
Chance == IF Swappable = {} THEN 0 ELSE 1

Books(sold, issued, acks, f, chance) ==
  /\ Number(f, Strategies, Labels) <= VUs
  /\ sold + Number(f, Holders, HeldLabels) - acks <= issued
  /\ sold + Number(f, Holders, HeldLabels) - acks
       + Number(f, {"naive"}, {"increment"}) + chance <= TotalStock + Excess

BooksNow == Books(Sold, issuedCount, lostAcks, pc, Chance)

(* What SlotsBounded says, in numbers.                                     *)
LEMMA SlotsMeaning ==
  ASSUME CoreType
  PROVE  /\ SlotsBounded <=> BooksNow
         /\ Sold \in Nat /\ Excess \in 0 .. VUs
<1>1. {r \in Requests : InFlight(r)} = {r \in Requests : strategy[r] \in Strategies /\ pc[r] \in Labels}
  BY LabelsApart DEF InFlight, Ended, CoreType
<1>2. /\ Held = {r \in Requests : strategy[r] \in Holders /\ pc[r] \in HeldLabels}
      /\ Stale = {r \in Requests : strategy[r] \in {"naive"} /\ pc[r] \in {"increment"}}
  BY DEF Held, Stale, AtOf, At, Where, Holders, HeldLabels
<1>3. Sold \in Nat
  <2>1. IsFiniteSet(CouponsOf(OnDatabase))
    BY FS_Subset, RequestsAssumption DEF CouponsOf, CoreType
  <2>2. QED  BY <2>1, FS_CardinalityType DEF Sold
<1>4. Excess \in 0 .. VUs
  BY RouterAssumption DEF Excess
<1>5. QED  BY <1>1, <1>2, <1>3, <1>4
           DEF SlotsBounded, Slots, BooksNow, Books, Sold, Chance, Number

(* The same for the state after a step, whose mixture is the same.         *)
LEMMA SlotsMeaningNext ==
  ASSUME CoreType', UNCHANGED strategy
  PROVE  /\ SlotsBounded' <=> Books(Sold', issuedCount', lostAcks', pc', Chance')
         /\ Sold' \in Nat
<1>1. (SlotsBounded <=> BooksNow)' /\ (Sold \in Nat)'
  BY SlotsMeaning, PTL
<1>2. BooksNow' <=> Books(Sold', issuedCount', lostAcks', pc', Chance')
  BY DEF BooksNow, Books, Number, Excess, Used
<1>3. QED  BY <1>1, <1>2

(* The requests that are sure to take a slot are all in flight, and so is  *)
(* anybody else who is about to.                                           *)
LEMMA SureInFlight ==
  ASSUME CoreType
  PROVE  /\ Number(pc, {"naive"}, {"increment"}) + Chance
              <= Number(pc, Strategies, Labels)
         /\ \A r \in Requests :
              pc[r] \in Labels /\ strategy[r] \notin {"naive", "optimistic"} =>
                Number(pc, {"naive"}, {"increment"}) + Chance + 1
                  <= Number(pc, Strategies, Labels)
<1> DEFINE X == {r \in Requests : strategy[r] \in {"naive"} /\ pc[r] \in {"increment"}}
           F == {r \in Requests : strategy[r] \in Strategies /\ pc[r] \in Labels}
           Y == IF Swappable = {} THEN X ELSE X \cup {CHOOSE o \in Swappable : TRUE}
<1>1. IsFiniteSet(X) /\ IsFiniteSet(F)
  BY FS_Subset, RequestsAssumption
<1>2. X \subseteq F /\ Swappable \subseteq F /\ X \cap Swappable = {}
  BY LabelsApart DEF Swappable, AtOf, At, Where, OnTheWay, CoreType
<1>3. \A r \in Requests :
        pc[r] \in Labels /\ strategy[r] \notin {"naive", "optimistic"} =>
          r \in F /\ r \notin X /\ r \notin Swappable
  BY DEF Swappable, AtOf, CoreType
<1>4. /\ Number(pc, {"naive"}, {"increment"}) = Cardinality(X)
      /\ Number(pc, Strategies, Labels) = Cardinality(F)
  BY DEF Number
<1> HIDE DEF X, F
<1>5. /\ IsFiniteSet(Y) /\ Cardinality(Y) = Cardinality(X) + Chance
      /\ Y \subseteq F /\ Y \subseteq X \cup Swappable
      /\ Cardinality(X) \in Nat
  <2>1. CASE Swappable = {}
    BY <1>1, <1>2, <2>1, FS_CardinalityType DEF Chance
  <2>2. CASE Swappable # {}
    <3>1. PICK o \in Swappable : Y = X \cup {o}
      BY <2>2
    <3>2. o \notin X
      BY <1>2, <3>1
    <3>3. QED  BY <1>1, <1>2, <2>2, <3>1, <3>2, FS_AddElement, FS_CardinalityType DEF Chance
  <2>3. QED  BY <2>1, <2>2
<1> HIDE DEF Y
<1>6. Cardinality(Y) <= Cardinality(F)
  BY <1>1, <1>5, FS_Subset
<1>7. ASSUME NEW r \in Requests, pc[r] \in Labels, strategy[r] \notin {"naive", "optimistic"}
      PROVE  Cardinality(Y) + 1 <= Cardinality(F)
  <2>1. r \notin Y /\ Y \cup {r} \subseteq F
    BY <1>3, <1>5, <1>7
  <2>2. Cardinality(Y \cup {r}) = Cardinality(Y) + 1
    BY <1>5, <2>1, FS_AddElement
  <2>3. Cardinality(Y \cup {r}) <= Cardinality(F)
    BY <1>1, <2>1, FS_Subset
  <2>4. QED  BY <2>2, <2>3
<1>8. QED  BY <1>4, <1>5, <1>6, <1>7

-----------------------------------------------------------------------------
(* What a step of a database strategy does to the books.                   *)

(* It reads: a check on issuedCount is what lets a naive request go on to  *)
(* increment and an optimistic one to swap.                                *)
Walks(r, l) ==
  /\ UNCHANGED <<coupons, issuedCount, version>>
  /\ lostAcks' \in {lostAcks, lostAcks + 1}
  /\ l \in HeldLabels => pc[r] \in HeldLabels
  /\ strategy[r] = "naive" /\ l = "increment" => issuedCount < TotalStock
  /\ strategy[r] = "optimistic" /\ l = "cas" => issuedCount < TotalStock

(* It takes a slot: blindly, by a swap of the version, or by a check in    *)
(* the same statement.                                                     *)
Takes(r, l) ==
  /\ MayWrite(r)
  /\ issuedCount' = issuedCount + 1
  /\ UNCHANGED coupons
  /\ \/ l = "create" /\ lostAcks' = lostAcks
     \/ l = "ERROR" /\ lostAcks' = lostAcks + 1
  /\ \/ strategy[r] = "naive" /\ pc[r] = "increment" /\ version' = version
     \/ /\ strategy[r] = "optimistic" /\ pc[r] = "cas"
        /\ seen[r] = version /\ version' = version + 1
     \/ /\ strategy[r] = "atomic" /\ pc[r] = "reserve"
        /\ issuedCount < TotalStock /\ version' = version

(* It turns a slot into a coupon; when that is not acknowledged, the slot  *)
(* will go back all the same.                                              *)
Inserts(r, l) ==
  /\ UNCHANGED <<issuedCount, version>>
  /\ r \notin coupons /\ coupons' = coupons \cup {r}
  /\ pc[r] = "create"
  /\ \/ l = "ISSUED" /\ lostAcks' = lostAcks
     \/ l \in {"rollback", "rollbackError"} /\ lostAcks' = lostAcks + 1

(* It gives a slot back.                                                   *)
Returns(r, l) ==
  /\ MayWrite(r)
  /\ issuedCount' = issuedCount - 1
  /\ UNCHANGED <<coupons, version>>
  /\ pc[r] \in HeldLabels /\ l \in Answers
  /\ lostAcks' \in {lostAcks, lostAcks + 1}

(* It commits coupon and count at once.                                    *)
Commits(r, l) ==
  /\ strategy[r] = "pessimistic" /\ pc[r] = "commitIssued" /\ l \in Answers
  /\ issuedCount' = issuedCount + 1
  /\ coupons' = coupons \cup {r}
  /\ UNCHANGED version
  /\ lostAcks' \in {lostAcks, lostAcks + 1}

(* The row lock moves only with the requests of pessimistic.               *)
LockStep(r, l) ==
  LET Locked == Pessimistic!Locked
  IN  IF strategy[r] # "pessimistic"
      THEN UNCHANGED rowLock
      ELSE \/ /\ pc[r] \notin Locked /\ l \notin Locked
              /\ (rowLock # r => UNCHANGED rowLock) /\ UNCHANGED issuedCount
           \/ /\ pc[r] \notin Locked /\ rowLock = NoOne /\ rowLock' = r
              /\ l \in {"insert", "commitSoldOut"} /\ UNCHANGED issuedCount
              /\ l = "insert" => issuedCount < TotalStock
           \/ /\ pc[r] \in Locked /\ l \in Locked /\ UNCHANGED <<rowLock, issuedCount>>
              /\ l \in OnTheWay => pc[r] \in OnTheWay
           \/ pc[r] \in Locked /\ l \notin Locked /\ (rowLock = r => rowLock' = NoOne)

DatabaseStep(r, l) ==
  /\ Goto(r, l)
  /\ pc[r] \notin Outcomes /\ l \in Labels \cup Outcomes /\ l # "undo"
  /\ UNCHANGED <<origin, strategy>>
  /\ rejects' \in 0 .. MaxRejects /\ lostAcks' \in 0 .. MaxLostAcks
  /\ LockStep(r, l)
  /\ \/ Walks(r, l)
     \/ strategy[r] \in Holders /\ Takes(r, l)
     \/ strategy[r] \in Holders /\ Inserts(r, l)
     \/ strategy[r] \in Holders /\ Returns(r, l)
     \/ Commits(r, l)

(* A step that only moves the request, or fails on the way.                *)
LEMMA WalksOn ==
  ASSUME CoreType, NEW r \in Requests, NEW l \in Labels \cup Outcomes,
         pc[r] \notin Outcomes, l # "undo",
         Goto(r, l), UNCHANGED <<strategy, origin, coupons, issuedCount, version, lostAcks>>,
         rejects' \in 0 .. MaxRejects,
         LockStep(r, l),
         l \in HeldLabels => pc[r] \in HeldLabels,
         strategy[r] = "naive" /\ l = "increment" => issuedCount < TotalStock,
         strategy[r] = "optimistic" /\ l = "cas" => issuedCount < TotalStock
  PROVE  DatabaseStep(r, l)
BY DEF DatabaseStep, Walks, CoreType

(* The naive strategy.                                                     *)
LEMMA NaiveSteps ==
  ASSUME CoreType, NEW r \in Requests, strategy[r] = "naive", UNCHANGED strategy,
         Naive!Step(r)
  PROVE  \E l : DatabaseStep(r, l)
<1>0. /\ {"increment", "create", "rollback", "NOT_FOUND", "SOLD_OUT", "ERROR",
          "ISSUED", "ALREADY_ISSUED"} \subseteq Labels \cup Outcomes
      /\ {"start", "increment", "create", "rollback"} \cap Outcomes = {}
  BY LabelsApart DEF HeldLabels, OnTheWay, Outcomes, Answers
<1>1. CASE Naive!Lookup(r)
  <2> DEFINE l == IF origin = "none" THEN "NOT_FOUND"
                  ELSE IF issuedCount >= TotalStock THEN "SOLD_OUT" ELSE "increment"
  <2>1. /\ pc[r] = "start" /\ Goto(r, l) /\ UNCHANGED <<rejects, lostAcks>>
        /\ l \in {"NOT_FOUND", "SOLD_OUT", "increment"}
        /\ l = "increment" => issuedCount < TotalStock
    BY <1>1, StockAssumption DEF Naive!Lookup, Naive!FindCampaign, Naive!Resolve, Naive!Goto, Goto, CoreType
  <2> HIDE DEF l
  <2>2. UNCHANGED <<origin, issuedCount, version, coupons, rowLock>>
    BY <1>1 DEF Naive!Lookup, Naive!FindCampaign, Naive!dbVars
  <2>3. DatabaseStep(r, l)
    BY <1>0, <2>1, <2>2, WalksOn DEF LockStep, HeldLabels, CoreType
  <2>4. QED  BY <2>3
<1>2. CASE Naive!Increment(r)
  <2>1. PICK l \in {"create", "ERROR"} :
          /\ pc[r] = "increment" /\ Goto(r, l) /\ rejects' = rejects
          /\ \/ l = "create" /\ lostAcks' = lostAcks
             \/ l = "ERROR" /\ lostAcks' = lostAcks + 1 /\ lostAcks < MaxLostAcks
    BY <1>2 DEF Naive!Increment, Naive!Settle, Naive!Resolve, Naive!LoseAck, Naive!Goto, Goto
  <2>2. /\ MayWrite(r) /\ issuedCount' = issuedCount + 1
        /\ UNCHANGED <<origin, version, coupons, rowLock>>
    BY <1>2 DEF Naive!Increment, Naive!AddIssued, Naive!MayWrite, MayWrite
  <2>3. Takes(r, l)
    BY <2>1, <2>2 DEF Takes
  <2>4. lostAcks' \in 0 .. MaxLostAcks
    BY <2>1, FaultAssumption DEF CoreType
  <2>5. DatabaseStep(r, l)
    BY <1>0, <2>1, <2>2, <2>3, <2>4 DEF DatabaseStep, LockStep, CoreType, Holders, OnDatabase
  <2>6. QED  BY <2>5

<1>3. CASE Naive!Create(r)
  <2>0. pc[r] = "create" /\ rejects' = rejects
    BY <1>3 DEF Naive!Create, Naive!Settle, Naive!Resolve, Naive!LoseAck
  <2>1. CASE Naive!InsertCoupon(r) /\ Naive!Settle(r, "ISSUED", "rollback")
    <3>1. PICK l \in {"ISSUED", "rollback"} :
            /\ Goto(r, l)
            /\ \/ l = "ISSUED" /\ lostAcks' = lostAcks
               \/ l = "rollback" /\ lostAcks' = lostAcks + 1 /\ lostAcks < MaxLostAcks
      BY <2>1 DEF Naive!Settle, Naive!Resolve, Naive!LoseAck, Naive!Goto, Goto
    <3>2. /\ r \notin coupons /\ coupons' = coupons \cup {r}
          /\ UNCHANGED <<origin, issuedCount, version, rowLock>>
      BY <2>1 DEF Naive!InsertCoupon, Naive!Duplicate
    <3>3. Inserts(r, l)
      BY <2>0, <3>1, <3>2 DEF Inserts
    <3>4. lostAcks' \in 0 .. MaxLostAcks
      BY <3>1, FaultAssumption DEF CoreType
    <3>5. DatabaseStep(r, l)
      BY <1>0, <2>0, <3>1, <3>2, <3>3, <3>4 DEF DatabaseStep, LockStep, CoreType, Holders, OnDatabase
    <3>6. QED  BY <3>5
  <2>2. CASE Naive!Resolve(r, "rollback") /\ UNCHANGED Naive!dbVars
    <3>1. Goto(r, "rollback") /\ UNCHANGED <<rejects, lostAcks>>
      BY <2>2 DEF Naive!Resolve, Naive!Goto, Goto
    <3>2. UNCHANGED <<origin, issuedCount, version, coupons, rowLock>>
      BY <2>2 DEF Naive!dbVars
    <3>3. DatabaseStep(r, "rollback")
      BY <1>0, <2>0, <3>1, <3>2, WalksOn DEF LockStep, HeldLabels, CoreType
    <3>4. QED  BY <3>3
  <2>3. QED  BY <1>3, <2>1, <2>2 DEF Naive!Create
<1>4. CASE Naive!Rollback(r)
  <2>1. PICK l \in {"ALREADY_ISSUED", "ERROR"} :
          /\ pc[r] = "rollback" /\ Goto(r, l) /\ rejects' = rejects
          /\ \/ l = "ALREADY_ISSUED" /\ lostAcks' = lostAcks
             \/ l = "ERROR" /\ lostAcks' = lostAcks + 1 /\ lostAcks < MaxLostAcks
    BY <1>4 DEF Naive!Rollback, Naive!Settle, Naive!Resolve, Naive!LoseAck, Naive!Goto, Goto
  <2>2. /\ MayWrite(r) /\ issuedCount' = issuedCount - 1
        /\ UNCHANGED <<origin, version, coupons, rowLock>>
    BY <1>4 DEF Naive!Rollback, Naive!AddIssued, Naive!MayWrite, MayWrite, CoreType
  <2>3. Returns(r, l)
    BY <2>1, <2>2 DEF Returns, HeldLabels, Answers
  <2>4. lostAcks' \in 0 .. MaxLostAcks
    BY <2>1, FaultAssumption DEF CoreType
  <2>5. DatabaseStep(r, l)
    BY <1>0, <2>1, <2>2, <2>3, <2>4 DEF DatabaseStep, LockStep, CoreType, Holders, OnDatabase
  <2>6. QED  BY <2>5
<1>5. CASE Naive!Reject(r, Naive!Catches)
  <2>1. /\ pc[r] \in {"start", "increment", "create", "rollback"}
        /\ Naive!Catches[pc[r]] = IF pc[r] = "create" THEN "rollback" ELSE "ERROR"
        /\ rejects' \in 0 .. MaxRejects
    BY <1>5, FaultAssumption DEF Naive!Reject, Naive!Catches, CoreType
  <2>2. PICK l \in {"rollback", "ERROR"} :
          Goto(r, l) /\ (l = "rollback" => pc[r] = "create")
    BY <1>5, <2>1 DEF Naive!Reject, Naive!Goto, Goto
  <2>3. UNCHANGED <<origin, issuedCount, version, coupons, rowLock, lostAcks>>
    BY <1>5 DEF Naive!Reject, Naive!dbVars
  <2>4. DatabaseStep(r, l)
    BY <1>0, <2>1, <2>2, <2>3, WalksOn DEF LockStep, HeldLabels, CoreType
  <2>5. QED  BY <2>4
<1>6. QED  BY <1>1, <1>2, <1>3, <1>4, <1>5 DEF Naive!Step

(* The atomic strategy.                                                  *)
LEMMA AtomicSteps ==
  ASSUME CoreType, NEW r \in Requests, strategy[r] = "atomic", UNCHANGED strategy,
         Atomic!Step(r)
  PROVE  \E l : DatabaseStep(r, l)
<1>0. /\ {"reserve", "create", "rollbackDup", "rollbackError", "NOT_FOUND",
          "SOLD_OUT", "ERROR", "ISSUED", "ALREADY_ISSUED"} \subseteq Labels \cup Outcomes
      /\ {"start", "reserve", "create", "rollbackDup", "rollbackError"} \cap Outcomes = {}
  BY DEF Labels, Atomic!Labels, Outcomes, Answers
<1>1. CASE Atomic!Lookup(r)
  <2>1. PICK l \in {"NOT_FOUND", "reserve"} :
          pc[r] = "start" /\ Goto(r, l) /\ UNCHANGED <<rejects, lostAcks>>
    BY <1>1 DEF Atomic!Lookup, Atomic!FindCampaign, Atomic!Resolve, Atomic!Goto, Goto
  <2>2. UNCHANGED <<origin, issuedCount, version, coupons, rowLock>>
    BY <1>1 DEF Atomic!Lookup, Atomic!FindCampaign, Atomic!dbVars
  <2>3. DatabaseStep(r, l)
    BY <1>0, <2>1, <2>2, WalksOn DEF LockStep, HeldLabels, CoreType
  <2>4. QED  BY <2>3
<1>2. CASE Atomic!Reserve(r)
  <2>0. pc[r] = "reserve" /\ rejects' = rejects
    BY <1>2 DEF Atomic!Reserve, Atomic!Settle, Atomic!Resolve, Atomic!LoseAck
  <2>1. CASE issuedCount < TotalStock
    <3>1. PICK l \in {"create", "ERROR"} :
            /\ Goto(r, l)
            /\ \/ l = "create" /\ lostAcks' = lostAcks
               \/ l = "ERROR" /\ lostAcks' = lostAcks + 1 /\ lostAcks < MaxLostAcks
      BY <1>2, <2>1 DEF Atomic!Reserve, Atomic!Settle, Atomic!Resolve, Atomic!LoseAck, Atomic!Goto, Goto
    <3>2. /\ MayWrite(r) /\ issuedCount' = issuedCount + 1
          /\ UNCHANGED <<origin, version, coupons, rowLock>>
      BY <1>2, <2>1 DEF Atomic!Reserve, Atomic!AddIssued, Atomic!MayWrite, MayWrite
    <3>3. Takes(r, l)
      BY <2>0, <2>1, <3>1, <3>2 DEF Takes
    <3>4. lostAcks' \in 0 .. MaxLostAcks
      BY <3>1, FaultAssumption DEF CoreType
    <3>5. DatabaseStep(r, l)
      BY <1>0, <2>0, <3>1, <3>2, <3>3, <3>4 DEF DatabaseStep, LockStep, CoreType, Holders, OnDatabase
    <3>6. QED  BY <3>5
  <2>2. CASE ~(issuedCount < TotalStock)
    <3>1. /\ Goto(r, "SOLD_OUT") /\ UNCHANGED lostAcks
          /\ UNCHANGED <<origin, issuedCount, version, coupons, rowLock>>
      BY <1>2, <2>2 DEF Atomic!Reserve, Atomic!Resolve, Atomic!Goto, Goto, Atomic!dbVars
    <3>2. DatabaseStep(r, "SOLD_OUT")
      BY <1>0, <2>0, <3>1, WalksOn DEF LockStep, HeldLabels, CoreType
    <3>3. QED  BY <3>2
  <2>3. QED  BY <2>1, <2>2
<1>3. CASE Atomic!Create(r)
  <2>0. pc[r] = "create" /\ rejects' = rejects
    BY <1>3 DEF Atomic!Create, Atomic!Settle, Atomic!Resolve, Atomic!LoseAck
  <2>1. CASE Atomic!InsertCoupon(r) /\ Atomic!Settle(r, "ISSUED", "rollbackError")
    <3>1. PICK l \in {"ISSUED", "rollbackError"} :
            /\ Goto(r, l)
            /\ \/ l = "ISSUED" /\ lostAcks' = lostAcks
               \/ l = "rollbackError" /\ lostAcks' = lostAcks + 1 /\ lostAcks < MaxLostAcks
      BY <2>1 DEF Atomic!Settle, Atomic!Resolve, Atomic!LoseAck, Atomic!Goto, Goto
    <3>2. /\ r \notin coupons /\ coupons' = coupons \cup {r}
          /\ UNCHANGED <<origin, issuedCount, version, rowLock>>
      BY <2>1 DEF Atomic!InsertCoupon, Atomic!Duplicate
    <3>3. Inserts(r, l)
      BY <2>0, <3>1, <3>2 DEF Inserts
    <3>4. lostAcks' \in 0 .. MaxLostAcks
      BY <3>1, FaultAssumption DEF CoreType
    <3>5. DatabaseStep(r, l)
      BY <1>0, <2>0, <3>1, <3>2, <3>3, <3>4 DEF DatabaseStep, LockStep, CoreType, Holders, OnDatabase
    <3>6. QED  BY <3>5
  <2>2. CASE Atomic!Resolve(r, "rollbackDup") /\ UNCHANGED Atomic!dbVars
    <3>1. Goto(r, "rollbackDup") /\ UNCHANGED <<rejects, lostAcks>>
      BY <2>2 DEF Atomic!Resolve, Atomic!Goto, Goto
    <3>2. UNCHANGED <<origin, issuedCount, version, coupons, rowLock>>
      BY <2>2 DEF Atomic!dbVars
    <3>3. DatabaseStep(r, "rollbackDup")
      BY <1>0, <2>0, <3>1, <3>2, WalksOn DEF LockStep, HeldLabels, CoreType
    <3>4. QED  BY <3>3
  <2>3. QED  BY <1>3, <2>1, <2>2 DEF Atomic!Create
<1>4. CASE Atomic!Rollback(r)
  <2> DEFINE told == IF pc[r] = "rollbackDup" THEN "ALREADY_ISSUED" ELSE "ERROR"
  <2>1. /\ pc[r] \in {"rollbackDup", "rollbackError"} /\ rejects' = rejects
        /\ \/ Goto(r, told) /\ lostAcks' = lostAcks
           \/ Goto(r, "ERROR") /\ lostAcks' = lostAcks + 1 /\ lostAcks < MaxLostAcks
    BY <1>4 DEF Atomic!Rollback, Atomic!Settle, Atomic!Resolve, Atomic!LoseAck, Atomic!Goto, Goto
  <2>2. /\ MayWrite(r) /\ issuedCount' = issuedCount - 1
        /\ UNCHANGED <<origin, version, coupons, rowLock>>
    BY <1>4 DEF Atomic!Rollback, Atomic!AddIssued, Atomic!MayWrite, MayWrite, CoreType
  <2>3. told \in {"ALREADY_ISSUED", "ERROR"}
    OBVIOUS
  <2> HIDE DEF told
  <2>4. PICK l \in {told, "ERROR"} :
          \/ Goto(r, l) /\ lostAcks' = lostAcks
          \/ Goto(r, l) /\ lostAcks' = lostAcks + 1 /\ lostAcks < MaxLostAcks
    BY <2>1
  <2>5. Returns(r, l)
    BY <2>1, <2>2, <2>3, <2>4 DEF Returns, HeldLabels, Answers
  <2>6. lostAcks' \in 0 .. MaxLostAcks
    BY <2>4, FaultAssumption DEF CoreType
  <2>7. DatabaseStep(r, l)
    BY <1>0, <2>1, <2>2, <2>3, <2>4, <2>5, <2>6 DEF DatabaseStep, LockStep, CoreType, Holders, OnDatabase
  <2>8. QED  BY <2>7
<1>5. CASE Atomic!Reject(r, Atomic!Catches)
  <2>1. /\ pc[r] \in {"start", "reserve", "create", "rollbackDup", "rollbackError"}
        /\ Atomic!Catches[pc[r]] = IF pc[r] = "create" THEN "rollbackError" ELSE "ERROR"
        /\ rejects' \in 0 .. MaxRejects
    BY <1>5, FaultAssumption DEF Atomic!Reject, Atomic!Catches, CoreType
  <2>2. PICK l \in {"rollbackError", "ERROR"} :
          Goto(r, l) /\ (l = "rollbackError" => pc[r] = "create")
    BY <1>5, <2>1 DEF Atomic!Reject, Atomic!Goto, Goto
  <2>3. UNCHANGED <<origin, issuedCount, version, coupons, rowLock, lostAcks>>
    BY <1>5 DEF Atomic!Reject, Atomic!dbVars
  <2>4. DatabaseStep(r, l)
    BY <1>0, <2>1, <2>2, <2>3, WalksOn DEF LockStep, HeldLabels, CoreType
  <2>5. QED  BY <2>4
<1>6. QED  BY <1>1, <1>2, <1>3, <1>4, <1>5 DEF Atomic!Step

(* The optimistic strategy.                                              *)
LEMMA OptimisticSteps ==
  ASSUME CoreType, NEW r \in Requests, strategy[r] = "optimistic", UNCHANGED strategy,
         Optimistic!Step(r)
  PROVE  \E l : DatabaseStep(r, l)
<1>0. /\ {"read", "cas", "create", "rollbackDup", "rollbackError", "NOT_FOUND",
          "SOLD_OUT", "ERROR", "ISSUED", "ALREADY_ISSUED", "RETRY_EXHAUSTED"} \subseteq Labels \cup Outcomes
      /\ {"start", "read", "cas", "create", "rollbackDup", "rollbackError"} \cap Outcomes = {}
  BY DEF Labels, Optimistic!Labels, Outcomes, Answers
<1>1. CASE Optimistic!Read(r)
  <2> DEFINE l == IF origin = "none" THEN "NOT_FOUND"
                  ELSE IF issuedCount >= TotalStock THEN "SOLD_OUT" ELSE "cas"
  <2>1. /\ pc[r] \in {"start", "read"} /\ Goto(r, l) /\ UNCHANGED <<rejects, lostAcks>>
        /\ l \in {"NOT_FOUND", "SOLD_OUT", "cas"}
        /\ l = "cas" => issuedCount < TotalStock
    BY <1>1, StockAssumption DEF Optimistic!Read, Optimistic!Resolve, Optimistic!Goto, Goto, CoreType
  <2> HIDE DEF l
  <2>2. UNCHANGED <<origin, issuedCount, version, coupons, rowLock>>
    BY <1>1 DEF Optimistic!Read, Optimistic!dbVars
  <2>3. DatabaseStep(r, l)
    BY <1>0, <2>1, <2>2, WalksOn DEF LockStep, HeldLabels, CoreType
  <2>4. QED  BY <2>3
<1>2. CASE Optimistic!Swap(r)
  <2>1. PICK l \in {"create", "ERROR"} :
          /\ pc[r] = "cas" /\ Goto(r, l) /\ rejects' = rejects
          /\ \/ l = "create" /\ lostAcks' = lostAcks
             \/ l = "ERROR" /\ lostAcks' = lostAcks + 1 /\ lostAcks < MaxLostAcks
    BY <1>2 DEF Optimistic!Swap, Optimistic!Settle, Optimistic!Resolve, Optimistic!LoseAck, Optimistic!Goto, Goto
  <2>2. /\ MayWrite(r) /\ issuedCount' = issuedCount + 1
        /\ seen[r] = version /\ version' = version + 1
        /\ UNCHANGED <<origin, coupons, rowLock>>
    BY <1>2 DEF Optimistic!Swap, Optimistic!MayWrite, MayWrite
  <2>3. Takes(r, l)
    BY <2>1, <2>2 DEF Takes
  <2>4. lostAcks' \in 0 .. MaxLostAcks
    BY <2>1, FaultAssumption DEF CoreType
  <2>5. DatabaseStep(r, l)
    BY <1>0, <2>1, <2>2, <2>3, <2>4 DEF DatabaseStep, LockStep, CoreType, Holders, OnDatabase
  <2>6. QED  BY <2>5
<1>3. CASE Optimistic!Create(r)
  <2>0. pc[r] = "create" /\ rejects' = rejects
    BY <1>3 DEF Optimistic!Create, Optimistic!Settle, Optimistic!Resolve, Optimistic!LoseAck
  <2>1. CASE Optimistic!InsertCoupon(r) /\ Optimistic!Settle(r, "ISSUED", "rollbackError")
    <3>1. PICK l \in {"ISSUED", "rollbackError"} :
            /\ Goto(r, l)
            /\ \/ l = "ISSUED" /\ lostAcks' = lostAcks
               \/ l = "rollbackError" /\ lostAcks' = lostAcks + 1 /\ lostAcks < MaxLostAcks
      BY <2>1 DEF Optimistic!Settle, Optimistic!Resolve, Optimistic!LoseAck, Optimistic!Goto, Goto
    <3>2. /\ r \notin coupons /\ coupons' = coupons \cup {r}
          /\ UNCHANGED <<origin, issuedCount, version, rowLock>>
      BY <2>1 DEF Optimistic!InsertCoupon, Optimistic!Duplicate
    <3>3. Inserts(r, l)
      BY <2>0, <3>1, <3>2 DEF Inserts
    <3>4. lostAcks' \in 0 .. MaxLostAcks
      BY <3>1, FaultAssumption DEF CoreType
    <3>5. DatabaseStep(r, l)
      BY <1>0, <2>0, <3>1, <3>2, <3>3, <3>4 DEF DatabaseStep, LockStep, CoreType, Holders, OnDatabase
    <3>6. QED  BY <3>5
  <2>2. CASE Optimistic!Resolve(r, "rollbackDup") /\ UNCHANGED Optimistic!dbVars
    <3>1. Goto(r, "rollbackDup") /\ UNCHANGED <<rejects, lostAcks>>
      BY <2>2 DEF Optimistic!Resolve, Optimistic!Goto, Goto
    <3>2. UNCHANGED <<origin, issuedCount, version, coupons, rowLock>>
      BY <2>2 DEF Optimistic!dbVars
    <3>3. DatabaseStep(r, "rollbackDup")
      BY <1>0, <2>0, <3>1, <3>2, WalksOn DEF LockStep, HeldLabels, CoreType
    <3>4. QED  BY <3>3
  <2>3. QED  BY <1>3, <2>1, <2>2 DEF Optimistic!Create
<1>4. CASE Optimistic!Rollback(r)
  <2> DEFINE told == IF pc[r] = "rollbackDup" THEN "ALREADY_ISSUED" ELSE "ERROR"
  <2>1. /\ pc[r] \in {"rollbackDup", "rollbackError"} /\ rejects' = rejects
        /\ \/ Goto(r, told) /\ lostAcks' = lostAcks
           \/ Goto(r, "ERROR") /\ lostAcks' = lostAcks + 1 /\ lostAcks < MaxLostAcks
    BY <1>4 DEF Optimistic!Rollback, Optimistic!Settle, Optimistic!Resolve, Optimistic!LoseAck, Optimistic!Goto, Goto
  <2>2. /\ MayWrite(r) /\ issuedCount' = issuedCount - 1
        /\ UNCHANGED <<origin, version, coupons, rowLock>>
    BY <1>4 DEF Optimistic!Rollback, Optimistic!AddIssued, Optimistic!MayWrite, MayWrite, CoreType
  <2>3. told \in {"ALREADY_ISSUED", "ERROR"}
    OBVIOUS
  <2> HIDE DEF told
  <2>4. PICK l \in {told, "ERROR"} :
          \/ Goto(r, l) /\ lostAcks' = lostAcks
          \/ Goto(r, l) /\ lostAcks' = lostAcks + 1 /\ lostAcks < MaxLostAcks
    BY <2>1
  <2>5. Returns(r, l)
    BY <2>1, <2>2, <2>3, <2>4 DEF Returns, HeldLabels, Answers
  <2>6. lostAcks' \in 0 .. MaxLostAcks
    BY <2>4, FaultAssumption DEF CoreType
  <2>7. DatabaseStep(r, l)
    BY <1>0, <2>1, <2>2, <2>3, <2>4, <2>5, <2>6 DEF DatabaseStep, LockStep, CoreType, Holders, OnDatabase
  <2>8. QED  BY <2>7
<1>5. CASE Optimistic!Reject(r, Optimistic!Catches)
  <2>1. /\ pc[r] \in {"start", "read", "cas", "create", "rollbackDup", "rollbackError"}
        /\ Optimistic!Catches[pc[r]] = IF pc[r] = "create" THEN "rollbackError" ELSE "ERROR"
        /\ rejects' \in 0 .. MaxRejects
    BY <1>5, FaultAssumption DEF Optimistic!Reject, Optimistic!Catches, CoreType
  <2>2. PICK l \in {"rollbackError", "ERROR"} :
          Goto(r, l) /\ (l = "rollbackError" => pc[r] = "create")
    BY <1>5, <2>1 DEF Optimistic!Reject, Optimistic!Goto, Goto
  <2>3. UNCHANGED <<origin, issuedCount, version, coupons, rowLock, lostAcks>>
    BY <1>5 DEF Optimistic!Reject, Optimistic!dbVars
  <2>4. DatabaseStep(r, l)
    BY <1>0, <2>1, <2>2, <2>3, WalksOn DEF LockStep, HeldLabels, CoreType
  <2>5. QED  BY <2>4
<1>6. CASE Optimistic!Retry(r)
  <2> DEFINE l == IF attempt'[r] < MaxRetry THEN "read" ELSE "RETRY_EXHAUSTED"
  <2>1. /\ pc[r] = "cas" /\ Goto(r, l) /\ UNCHANGED <<rejects, lostAcks>>
        /\ l \in {"read", "RETRY_EXHAUSTED"}
    BY <1>6 DEF Optimistic!Retry, Optimistic!Resolve, Optimistic!Goto, Goto
  <2> HIDE DEF l
  <2>2. UNCHANGED <<origin, issuedCount, version, coupons, rowLock>>
    BY <1>6 DEF Optimistic!Retry, Optimistic!dbVars
  <2>3. DatabaseStep(r, l)
    BY <1>0, <2>1, <2>2, WalksOn DEF LockStep, HeldLabels, CoreType
  <2>4. QED  BY <2>3
<1>7. QED  BY <1>1, <1>2, <1>3, <1>4, <1>5, <1>6 DEF Optimistic!Step

(* The pessimistic strategy.                                               *)
LEMMA PessimisticSteps ==
  ASSUME CoreType, NEW r \in Requests, strategy[r] = "pessimistic", UNCHANGED strategy,
         Pessimistic!Step(r)
  PROVE  \E l : DatabaseStep(r, l)
<1>0. /\ Pessimistic!Locked \cup {"lock", "NOT_FOUND", "SOLD_OUT", "ERROR", "ISSUED",
            "ALREADY_ISSUED"} \subseteq Labels \cup Outcomes
      /\ (Pessimistic!Locked \cup {"start", "lock"}) \cap Outcomes = {}
      /\ Pessimistic!Locked = OnTheWay \cup {"commitSoldOut", "commitRepeat"}
  BY DEF Labels, Pessimistic!Labels, Pessimistic!Locked, Outcomes, Answers, OnTheWay
<1>1. CASE Pessimistic!Begin(r)
  <2>1. /\ pc[r] = "start" /\ Goto(r, "lock") /\ UNCHANGED <<rejects, lostAcks>>
        /\ UNCHANGED <<origin, issuedCount, version, coupons, rowLock>>
    BY <1>1 DEF Pessimistic!Begin, Pessimistic!Resolve, Pessimistic!Goto, Goto, Pessimistic!dbVars
  <2>2. LockStep(r, "lock")
    BY <1>0, <2>1 DEF LockStep, OnTheWay
  <2>3. DatabaseStep(r, "lock")
    BY <1>0, <2>1, <2>2, WalksOn DEF HeldLabels, CoreType
  <2>4. QED  BY <2>3
<1>2. CASE Pessimistic!Lock(r)
  <2>0. pc[r] = "lock"
    BY <1>2 DEF Pessimistic!Lock
  <2>1. CASE origin = "none"
    <3>1. /\ Goto(r, "NOT_FOUND") /\ UNCHANGED <<rejects, lostAcks>>
          /\ UNCHANGED <<origin, issuedCount, version, coupons, rowLock>>
      BY <1>2, <2>1 DEF Pessimistic!Lock, Pessimistic!Resolve, Pessimistic!Goto, Goto, Pessimistic!dbVars
    <3>2. LockStep(r, "NOT_FOUND")
      BY <1>0, <2>0, <3>1 DEF LockStep, OnTheWay
    <3>3. DatabaseStep(r, "NOT_FOUND")
      BY <1>0, <2>0, <3>1, <3>2, WalksOn DEF HeldLabels, CoreType
    <3>4. QED  BY <3>3
  <2>2. CASE origin # "none"
    <3> DEFINE l == IF issuedCount >= TotalStock THEN "commitSoldOut" ELSE "insert"
    <3>1. /\ Goto(r, l) /\ UNCHANGED <<rejects, lostAcks>>
          /\ rowLock = NoOne /\ rowLock' = r
          /\ UNCHANGED <<origin, issuedCount, version, coupons>>
          /\ l \in {"commitSoldOut", "insert"}
          /\ l = "insert" => issuedCount < TotalStock
      BY <1>2, <2>2, StockAssumption DEF Pessimistic!Lock, Pessimistic!Resolve, Pessimistic!Goto, Goto, CoreType
    <3> HIDE DEF l
    <3>2. LockStep(r, l)
      BY <1>0, <2>0, <3>1 DEF LockStep, OnTheWay
    <3>3. DatabaseStep(r, l)
      BY <1>0, <2>0, <3>1, <3>2, WalksOn DEF HeldLabels, CoreType, OnTheWay
    <3>4. QED  BY <3>3
  <2>3. QED  BY <2>1, <2>2
<1>3. CASE Pessimistic!Insert(r) \/ Pessimistic!Increment(r)
  <2> DEFINE l == IF pc[r] = "increment" THEN "commitIssued"
                  ELSE IF Pessimistic!Duplicate(r) THEN "commitRepeat" ELSE "increment"
  <2>1. /\ pc[r] \in {"insert", "increment"}
        /\ Goto(r, l) /\ UNCHANGED <<rejects, lostAcks>>
        /\ UNCHANGED <<origin, issuedCount, version, coupons, rowLock>>
        /\ l \in {"commitIssued", "commitRepeat", "increment"}
    BY <1>3 DEF Pessimistic!Insert, Pessimistic!Increment, Pessimistic!Resolve,
                Pessimistic!Goto, Goto, Pessimistic!dbVars
  <2> HIDE DEF l
  <2>2. LockStep(r, l)
    BY <1>0, <2>1 DEF LockStep, OnTheWay
  <2>3. DatabaseStep(r, l)
    BY <1>0, <2>1, <2>2, WalksOn DEF HeldLabels, CoreType, OnTheWay
  <2>4. QED  BY <2>3
<1>4. CASE Pessimistic!CommitIssued(r)
  <2>1. PICK l \in {"ISSUED", "ERROR"} :
          /\ pc[r] = "commitIssued" /\ Goto(r, l) /\ rejects' = rejects
          /\ \/ l = "ISSUED" /\ lostAcks' = lostAcks
             \/ l = "ERROR" /\ lostAcks' = lostAcks + 1 /\ lostAcks < MaxLostAcks
    BY <1>4 DEF Pessimistic!CommitIssued, Pessimistic!Settle, Pessimistic!Resolve,
                Pessimistic!LoseAck, Pessimistic!Goto, Goto
  <2>2. /\ coupons' = coupons \cup {r} /\ issuedCount' = issuedCount + 1
        /\ rowLock' = NoOne /\ UNCHANGED <<origin, version>>
    BY <1>4 DEF Pessimistic!CommitIssued
  <2>3. Commits(r, l)
    BY <2>1, <2>2 DEF Commits, Answers
  <2>4. LockStep(r, l)
    BY <1>0, <2>1, <2>2 DEF LockStep, OnTheWay, Outcomes, Answers
  <2>5. lostAcks' \in 0 .. MaxLostAcks
    BY <2>1, FaultAssumption DEF CoreType
  <2>6. DatabaseStep(r, l)
    BY <1>0, <2>1, <2>2, <2>3, <2>4, <2>5 DEF DatabaseStep, CoreType, OnTheWay
  <2>7. QED  BY <2>6
<1>5. CASE Pessimistic!CommitRefusal(r)
  <2> DEFINE told == IF pc[r] = "commitSoldOut" THEN "SOLD_OUT" ELSE "ALREADY_ISSUED"
  <2>1. /\ pc[r] \in {"commitSoldOut", "commitRepeat"} /\ rejects' = rejects
        /\ \/ Goto(r, told) /\ lostAcks' = lostAcks
           \/ Goto(r, "ERROR") /\ lostAcks' = lostAcks + 1 /\ lostAcks < MaxLostAcks
    BY <1>5 DEF Pessimistic!CommitRefusal, Pessimistic!Settle, Pessimistic!Resolve,
                Pessimistic!LoseAck, Pessimistic!Goto, Goto
  <2>2. rowLock' = NoOne /\ UNCHANGED <<origin, issuedCount, version, coupons>>
    BY <1>5 DEF Pessimistic!CommitRefusal
  <2>3. told \in {"SOLD_OUT", "ALREADY_ISSUED"}
    OBVIOUS
  <2> HIDE DEF told
  <2>4. PICK l \in {told, "ERROR"} :
          \/ Goto(r, l) /\ lostAcks' = lostAcks
          \/ Goto(r, l) /\ lostAcks' = lostAcks + 1 /\ lostAcks < MaxLostAcks
    BY <2>1
  <2>5. LockStep(r, l)
    BY <1>0, <2>1, <2>2, <2>3, <2>4 DEF LockStep, OnTheWay, Outcomes, Answers
  <2>6. lostAcks' \in 0 .. MaxLostAcks
    BY <2>4, FaultAssumption DEF CoreType
  <2>7. DatabaseStep(r, l)
    BY <1>0, <2>1, <2>2, <2>3, <2>4, <2>5, <2>6
    DEF DatabaseStep, Walks, CoreType, HeldLabels
  <2>8. QED  BY <2>7
<1>6. CASE Pessimistic!Abort(r)
  <2>1. /\ pc[r] \notin Outcomes /\ Goto(r, "ERROR") /\ UNCHANGED lostAcks
        /\ rejects' \in 0 .. MaxRejects
        /\ rowLock' = IF rowLock = r THEN NoOne ELSE rowLock
        /\ UNCHANGED <<origin, issuedCount, version, coupons>>
    BY <1>6, FaultAssumption
    DEF Pessimistic!Abort, Pessimistic!InFlight, Pessimistic!Ended,
        Pessimistic!Outcomes, Pessimistic!Answers, Outcomes, Answers,
        Pessimistic!Goto, Goto, CoreType
  <2>2. LockStep(r, "ERROR")
    BY <1>0, <2>1 DEF LockStep, OnTheWay
  <2>3. DatabaseStep(r, "ERROR")
    BY <1>0, <2>1, <2>2, WalksOn DEF HeldLabels
  <2>4. QED  BY <2>3
<1>7. QED
  BY <1>1, <1>2, <1>3, <1>4, <1>5, <1>6 DEF Pessimistic!Step

-----------------------------------------------------------------------------
(* Every kind of step keeps the books.                                     *)

SeenBefore == \A q \in Requests : seen[q] <= version

(* A version that was read stays current only while no swap is made.       *)
LEMMA ChanceMoves ==
  ASSUME CoreType, SeenBefore, NEW r \in Requests, NEW l, Goto(r, l), UNCHANGED strategy,
         seen' \in {seen, [seen EXCEPT ![r] = version]}
  PROVE  /\ Chance \in {0, 1} /\ Chance' \in {0, 1}
         /\ version' = version /\ ~(strategy[r] = "optimistic" /\ l = "cas") => Chance' <= Chance
         /\ version' = version + 1 => Chance' = 0
         /\ strategy[r] = "optimistic" /\ pc[r] = "cas" /\ seen[r] = version => Chance = 1
<1>1. version' = version /\ ~(strategy[r] = "optimistic" /\ l = "cas") => Swappable' \subseteq Swappable
  BY DEF Swappable, AtOf, At, Where, Goto, CoreType
<1>2. version' = version + 1 => Swappable' = {}
  <2> SUFFICES ASSUME version' = version + 1, NEW q \in Requests, seen'[q] = version'
               PROVE  FALSE
    BY DEF Swappable, AtOf, At, Where
  <2>1. seen'[q] <= version /\ seen'[q] \in Nat
    BY DEF SeenBefore, CoreType
  <2>2. QED  BY <2>1 DEF CoreType
<1>3. strategy[r] = "optimistic" /\ pc[r] = "cas" /\ seen[r] = version => r \in Swappable
  BY DEF Swappable, AtOf, At, Where
<1>4. QED  BY <1>1, <1>2, <1>3 DEF Chance

LEMMA BooksKept ==
  ASSUME CoreType, CoreType', SlotsBounded, LockProtects, SeenBefore,
         NEW r \in Requests, NEW l, DatabaseStep(r, l),
         strategy[r] \in OnDatabase,
         pc[r] = "start" => Number(pc, Strategies, Labels) < VUs,
         seen' \in {seen, [seen EXCEPT ![r] = version]}
  PROVE  SlotsBounded'
<1> DEFINE f == Number(pc, Strategies, Labels)
           f1 == Number(pc', Strategies, Labels)
           h == Number(pc, Holders, HeldLabels)
           h1 == Number(pc', Holders, HeldLabels)
           s == Number(pc, {"naive"}, {"increment"})
           s1 == Number(pc', {"naive"}, {"increment"})
           b == Chance
           b1 == Chance'
           k == Sold
           k1 == Sold'
           n1 == issuedCount'
           a1 == lostAcks'
<1>1. Goto(r, l) /\ UNCHANGED strategy /\ pc[r] \notin Outcomes /\ l \in Labels \cup Outcomes
  BY DEF DatabaseStep
<1>2. /\ f \in Nat /\ f1 \in Nat /\ h \in Nat /\ h1 \in Nat /\ s \in Nat /\ s1 \in Nat
      /\ b \in {0, 1} /\ b1 \in {0, 1} /\ k \in Nat /\ k1 \in Nat
      /\ Excess \in 0 .. VUs /\ TotalStock \in Nat /\ VUs \in Nat
      /\ issuedCount \in Int /\ n1 \in Int /\ lostAcks \in Nat /\ a1 \in Nat
  <2>1. f \in Nat /\ f1 \in Nat /\ h \in Nat /\ h1 \in Nat /\ s \in Nat /\ s1 \in Nat
    BY NumberNat
  <2>2. b \in {0, 1} /\ b1 \in {0, 1}
    BY <1>1, ChanceMoves
  <2>3. k \in Nat /\ k1 \in Nat /\ Excess \in 0 .. VUs
    BY <1>1, SlotsMeaning, SlotsMeaningNext
  <2>4. QED  BY <2>1, <2>2, <2>3, StockAssumption, RouterAssumption DEF CoreType
<1>3. f <= VUs /\ k + h - lostAcks <= issuedCount
      /\ k + h - lostAcks + s + b <= TotalStock + Excess
  BY SlotsMeaning DEF BooksNow, Books
<1>4. SlotsBounded' <=> /\ f1 <= VUs
                        /\ k1 + h1 - a1 <= n1
                        /\ k1 + h1 - a1 + s1 + b1 <= TotalStock + Excess
  BY <1>1, SlotsMeaningNext DEF Books
<1>5. f1 <= VUs
  <2>1. strategy[r] \in Strategies /\ (pc[r] \in Labels \/ pc[r] = "start")
    BY <1>1 DEF CoreType
  <2>2. pc[r] \in Labels => f1 <= f
    BY <1>1, <1>2, <2>1, NumberMoves
  <2>3. pc[r] = "start" => f1 <= f + 1
    BY <1>1, <1>2, <2>1, NumberMoves
  <2> HIDE DEF f, f1
  <2>4. QED  BY <1>2, <1>3, <2>1, <2>2, <2>3 DEF f
<1>6. /\ strategy[r] \in Holders /\ pc[r] \notin HeldLabels /\ l \in HeldLabels => h1 = h + 1
      /\ strategy[r] \in Holders /\ pc[r] \in HeldLabels /\ l \notin HeldLabels => h1 = h - 1
      /\ strategy[r] \notin Holders \/ (pc[r] \in HeldLabels <=> l \in HeldLabels) => h1 = h
      /\ strategy[r] = "naive" /\ pc[r] # "increment" /\ l = "increment" => s1 = s + 1
      /\ strategy[r] = "naive" /\ pc[r] = "increment" /\ l # "increment" => s1 = s - 1
      /\ strategy[r] # "naive" \/ (pc[r] = "increment" <=> l = "increment") => s1 = s
  BY <1>1, NumberMoves
<1>7. /\ strategy[r] = "optimistic" /\ pc[r] = "cas" /\ seen[r] = version => b = 1
      /\ version' = version + 1 => b1 = 0
      /\ version' = version /\ ~(strategy[r] = "optimistic" /\ l = "cas") => b1 <= b
  BY <1>1, ChanceMoves
<1>8. s + b <= f /\ s1 + b1 <= f1
  <2>1. (Number(pc, {"naive"}, {"increment"}) + Chance
           <= Number(pc, Strategies, Labels))'
    BY SureInFlight, PTL
  <2>2. s1 + b1 <= f1
    BY <1>1, <2>1 DEF Number
  <2>3. QED  BY <2>2, SureInFlight
<1>9. /\ strategy[r] \in {"atomic", "pessimistic"} /\ pc[r] \in Labels => s + b + 1 <= f
      /\ "naive" \notin Used => s = 0 /\ s1 = 0
      /\ "naive" \in Used => Excess = VUs - 1
      /\ strategy[r] \in {"atomic", "pessimistic"} /\ b = 1 /\ "naive" \notin Used => Excess = 1
  <2>1. strategy[r] \in {"atomic", "pessimistic"} /\ pc[r] \in Labels => s + b + 1 <= f
    BY SureInFlight
  <2>2. "naive" \notin Used => s = 0 /\ s1 = 0
    <3>1. ASSUME "naive" \notin Used PROVE \A q \in Requests : strategy[q] \notin {"naive"}
      BY <3>1 DEF Used
    <3>2. ASSUME NEW F, \A q \in Requests : strategy[q] \notin {"naive"}
          PROVE  Number(F, {"naive"}, {"increment"}) = 0
      <4>1. {q \in Requests : strategy[q] \in {"naive"} /\ F[q] \in {"increment"}} = {}
        BY <3>2
      <4>2. QED  BY <4>1, FS_EmptySet DEF Number
    <3>3. QED  BY <3>1, <3>2
  <2>3. strategy[r] \in {"atomic", "pessimistic"} /\ b = 1 /\ "naive" \notin Used => Excess = 1
    <3>1. ASSUME b = 1 PROVE "optimistic" \in Used
      BY <3>1 DEF Chance, Swappable, AtOf, At, Where, Used
    <3>2. strategy[r] \in Used
      BY DEF Used
    <3>3. QED  BY <3>1, <3>2 DEF Excess
  <2>4. QED  BY <2>1, <2>2, <2>3 DEF Excess
<1>10. /\ UNCHANGED coupons => k1 = k
       /\ coupons' = coupons \cup {r} => k1 <= k + 1
       /\ coupons' = coupons \cup {r} /\ r \notin coupons => k1 = k + 1
  <2>1. IsFiniteSet(CouponsOf(OnDatabase))
    BY FS_Subset, RequestsAssumption DEF CouponsOf, CoreType
  <2>2. UNCHANGED coupons => CouponsOf(OnDatabase)' = CouponsOf(OnDatabase)
    BY <1>1 DEF CouponsOf
  <2>3. coupons' = coupons \cup {r} =>
          CouponsOf(OnDatabase)' = CouponsOf(OnDatabase) \cup {r}
    BY <1>1 DEF CouponsOf
  <2>4. r \notin coupons => r \notin CouponsOf(OnDatabase)
    BY DEF CouponsOf
  <2>5. r \in CouponsOf(OnDatabase) => CouponsOf(OnDatabase) \cup {r} = CouponsOf(OnDatabase)
    OBVIOUS
  <2>6. r \notin CouponsOf(OnDatabase) =>
          Cardinality(CouponsOf(OnDatabase) \cup {r}) = k + 1
    BY <2>1, FS_AddElement DEF Sold
  <2>7. QED  BY <1>2, <2>2, <2>3, <2>4, <2>5, <2>6 DEF Sold
<1> HIDE DEF f, f1, h, h1, s, s1, b, b1, k, k1, n1, a1
<1>11. CASE Walks(r, l)
  <2>1. n1 = issuedCount /\ a1 \in {lostAcks, lostAcks + 1} /\ k1 = k /\ h1 <= h
    BY <1>2, <1>6, <1>10, <1>11 DEF Walks, n1, a1
  <2>2. CASE \/ strategy[r] = "naive" /\ l = "increment"
             \/ strategy[r] = "optimistic" /\ l = "cas"
    (* Whoever passed the check did so when there was stock left.          *)
    <3>1. issuedCount < TotalStock
      BY <1>11, <2>2 DEF Walks
    <3>2. "naive" \in Used => s1 + b1 <= VUs /\ Excess = VUs - 1
      BY <1>2, <1>5, <1>8, <1>9
    <3>3. s1 + b1 <= Excess + 1
      BY <1>2, <1>9, <3>2
    <3>4. QED  BY <1>2, <1>3, <1>4, <1>5, <2>1, <3>1, <3>3
  <2>3. CASE ~(strategy[r] = "naive" /\ l = "increment") /\ ~(strategy[r] = "optimistic" /\ l = "cas")
    <3>1. s1 <= s /\ b1 <= b
      BY <1>2, <1>6, <1>7, <1>11, <2>3 DEF Walks
    <3>2. QED  BY <1>2, <1>3, <1>4, <1>5, <2>1, <3>1
  <2>4. QED  BY <2>2, <2>3
<1>12. CASE strategy[r] \in Holders /\ Takes(r, l)
  <2>1. n1 = issuedCount + 1 /\ k1 = k /\ h1 - a1 <= h - lostAcks + 1
    BY <1>2, <1>6, <1>10, <1>12 DEF Takes, n1, a1, HeldLabels
  <2>2. CASE strategy[r] = "naive" \/ strategy[r] = "optimistic"
    (* Its slot was allowed for.                                           *)
    <3>1. s1 + b1 + 1 <= s + b
      <4>1. CASE strategy[r] = "naive"
        BY <1>2, <1>6, <1>7, <1>12, <4>1 DEF Takes
      <4>2. CASE strategy[r] = "optimistic"
        BY <1>2, <1>6, <1>7, <1>12, <4>2 DEF Takes
      <4>3. QED  BY <2>2, <4>1, <4>2
    <3>2. QED  BY <1>2, <1>3, <1>4, <1>5, <2>1, <3>1
  <2>3. CASE strategy[r] = "atomic"
    (* The check and the increment are one statement.                      *)
    <3>1. issuedCount < TotalStock /\ pc[r] \in Labels /\ s1 = s /\ b1 <= b
      BY <1>1, <1>6, <1>7, <1>12, <2>3 DEF Takes, CoreType
    <3>2. s + b <= Excess
      BY <1>2, <1>3, <1>9, <2>3, <3>1
    <3>3. QED  BY <1>2, <1>3, <1>4, <1>5, <2>1, <3>1, <3>2
  <2>4. QED  BY <1>12, <2>2, <2>3 DEF Takes
<1>13. CASE strategy[r] \in Holders /\ Inserts(r, l)
  <2>1. n1 = issuedCount /\ k1 = k + 1
    BY <1>10, <1>13 DEF Inserts, n1
  <2>2. h1 - a1 = h - lostAcks - 1
    <3>1. CASE l = "ISSUED"
      BY <1>2, <1>6, <1>13, <3>1 DEF Inserts, HeldLabels, a1
    <3>2. CASE l \in {"rollback", "rollbackError"}
      <4>1. h1 = h /\ a1 = lostAcks + 1
        BY <1>6, <1>13, <3>2 DEF Inserts, HeldLabels, a1
      <4>2. QED  BY <1>2, <4>1
    <3>3. QED  BY <1>13, <3>1, <3>2 DEF Inserts
  <2>3. s1 = s /\ b1 <= b
    BY <1>6, <1>7, <1>13 DEF Inserts
  <2>4. QED  BY <1>2, <1>3, <1>4, <1>5, <2>1, <2>2, <2>3
<1>14. CASE strategy[r] \in Holders /\ Returns(r, l)
  <2>1. n1 = issuedCount - 1 /\ k1 = k /\ a1 >= lostAcks
    BY <1>2, <1>10, <1>14 DEF Returns, n1, a1
  <2>2. h1 = h - 1
    BY <1>6, <1>14 DEF Returns, HeldLabels, Answers
  <2>3. s1 <= s /\ b1 <= b
    BY <1>2, <1>6, <1>7, <1>14 DEF Returns, HeldLabels, Answers
  <2>4. QED  BY <1>2, <1>3, <1>4, <1>5, <2>1, <2>2, <2>3
<1>15. CASE Commits(r, l)
  (* The row has been locked since its check.                              *)
  <2>1. n1 = issuedCount + 1 /\ k1 <= k + 1 /\ h1 = h /\ a1 >= lostAcks
        /\ s1 = s /\ b1 <= b
    BY <1>2, <1>6, <1>7, <1>10, <1>15 DEF Commits, Holders, n1, a1
  <2>2. issuedCount < TotalStock
    BY <1>15 DEF Commits, LockProtects, Pessimistic!Locked
  <2>3. pc[r] \in Labels
    BY <1>15, LabelsApart DEF Commits, OnTheWay
  <2>4. s + b <= Excess
    BY <1>2, <1>3, <1>9, <1>15, <2>3 DEF Commits
  <2>5. QED  BY <1>2, <1>3, <1>4, <1>5, <2>1, <2>2, <2>4
<1>16. QED
  BY <1>11, <1>12, <1>13, <1>14, <1>15 DEF DatabaseStep

(* The row stays locked by whoever is inside the transaction, and what the *)
(* transaction read stays true.                                            *)
LEMMA LockKept ==
  ASSUME CoreType, LockProtects, NEW r \in Requests, NEW l, DatabaseStep(r, l),
         strategy[r] \in OnDatabase
  PROVE  LockProtects'
<1> DEFINE Locked == Pessimistic!Locked
<1>1. /\ Goto(r, l) /\ UNCHANGED strategy /\ LockStep(r, l)
      /\ pc[r] \notin Outcomes /\ l \in Labels \cup Outcomes
  BY DEF DatabaseStep
<1>2. \A q \in Requests : pc'[q] = IF q = r THEN l ELSE pc[q]
  BY <1>1 DEF Goto, CoreType
<1>3. LockProtects <=>
        \A q \in Requests :
          /\ strategy[q] = "pessimistic" /\ pc[q] \in Locked <=> rowLock = q
          /\ rowLock = q /\ pc[q] \in OnTheWay => issuedCount < TotalStock
  BY DEF LockProtects, OnTheWay
<1>4. LockProtects' <=>
        \A q \in Requests :
          /\ strategy[q] = "pessimistic" /\ pc'[q] \in Locked <=> rowLock' = q
          /\ rowLock' = q /\ pc'[q] \in OnTheWay => issuedCount' < TotalStock
  BY <1>1 DEF LockProtects, OnTheWay, Pessimistic!Locked
<1>5. OnTheWay \subseteq Locked /\ "commitSoldOut" \in Locked
  BY DEF OnTheWay, Pessimistic!Locked
<1> HIDE DEF Locked
<1>6. NoOne \notin Requests
  BY RequestsAssumption
<1>7. CASE strategy[r] # "pessimistic"
  <2>1. UNCHANGED rowLock
    BY <1>1, <1>7 DEF LockStep
  <2>2. rowLock # r
    BY <1>3, <1>7
  <2>3. issuedCount' = issuedCount \/ rowLock = NoOne
    BY <1>7, <2>2 DEF DatabaseStep, Walks, Takes, Inserts, Returns, Commits, MayWrite
  <2>4. QED  BY <1>2, <1>3, <1>4, <1>6, <1>7, <2>1, <2>2, <2>3
<1>8. CASE strategy[r] = "pessimistic"
  <2>1. \/ /\ pc[r] \notin Locked /\ l \notin Locked
           /\ (rowLock # r => UNCHANGED rowLock) /\ UNCHANGED issuedCount
        \/ /\ pc[r] \notin Locked /\ rowLock = NoOne /\ rowLock' = r
           /\ l \in {"insert", "commitSoldOut"} /\ UNCHANGED issuedCount
           /\ l = "insert" => issuedCount < TotalStock
        \/ /\ pc[r] \in Locked /\ l \in Locked /\ UNCHANGED <<rowLock, issuedCount>>
           /\ l \in OnTheWay => pc[r] \in OnTheWay
        \/ pc[r] \in Locked /\ l \notin Locked /\ (rowLock = r => rowLock' = NoOne)
    BY <1>1, <1>8 DEF LockStep, Locked
  <2>2. CASE /\ pc[r] \notin Locked /\ l \notin Locked
             /\ (rowLock # r => UNCHANGED rowLock) /\ UNCHANGED issuedCount
    BY <1>2, <1>3, <1>4, <1>5, <1>8, <2>2
  <2>3. CASE /\ pc[r] \notin Locked /\ rowLock = NoOne /\ rowLock' = r
             /\ l \in {"insert", "commitSoldOut"} /\ UNCHANGED issuedCount
             /\ l = "insert" => issuedCount < TotalStock
    <3>1. l \in Locked /\ (l \in OnTheWay => issuedCount < TotalStock)
      BY <1>5, <2>3 DEF OnTheWay
    <3>2. QED  BY <1>2, <1>3, <1>4, <1>5, <1>6, <1>8, <2>3, <3>1
  <2>4. CASE /\ pc[r] \in Locked /\ l \in Locked /\ UNCHANGED <<rowLock, issuedCount>>
             /\ l \in OnTheWay => pc[r] \in OnTheWay
    BY <1>2, <1>3, <1>4, <1>8, <2>4
  <2>5. CASE pc[r] \in Locked /\ l \notin Locked /\ (rowLock = r => rowLock' = NoOne)
    BY <1>2, <1>3, <1>4, <1>6, <1>8, <2>5
  <2>6. QED  BY <2>1, <2>2, <2>3, <2>4, <2>5
<1>9. QED  BY <1>7, <1>8

(* Nothing leaves its type, and no version that was read is ahead.         *)
LEMMA CoreKept ==
  ASSUME CoreType, SeenBefore, NEW r \in Requests, NEW l, DatabaseStep(r, l),
         strategy[r] \in OnDatabase,
         rowLock' \in Requests \cup {NoOne},
         seen' \in {seen, [seen EXCEPT ![r] = version]}
  PROVE  CoreType' /\ SeenBefore'
<1>1. pc' \in [Requests -> Labels \cup Outcomes \cup {"start"}]
  BY DEF DatabaseStep, Goto, CoreType
<1>2. issuedCount' \in Int /\ version' \in {version, version + 1} /\ coupons' \subseteq Requests
  BY DEF DatabaseStep, Walks, Takes, Inserts, Returns, Commits, CoreType
<1>3. seen' \in [Requests -> Nat] /\ \A q \in Requests : seen'[q] <= version
  BY DEF CoreType, SeenBefore
<1>4. CoreType'
  BY <1>1, <1>2, <1>3 DEF DatabaseStep, CoreType, Labels
<1>5. SeenBefore'
  BY <1>2, <1>3 DEF SeenBefore, CoreType
<1>6. QED  BY <1>4, <1>5

(* What the redis strategies and the workers do touches the books of the   *)
(* database strategies only where it raises issuedCount, and it does not   *)
(* touch that while the row is locked.                                     *)
Elsewhere ==
  /\ UNCHANGED <<strategy, seen, version, rowLock>>
  /\ CouponsOf(OnDatabase)' = CouponsOf(OnDatabase)
  /\ \/ issuedCount' = issuedCount
     \/ issuedCount' = issuedCount + 1 /\ rowLock = NoOne
  /\ lostAcks' \in {lostAcks, lostAcks + 1}
  /\ \/ UNCHANGED pc
     \/ \E r \in Requests, l \in Labels \cup Outcomes :
          /\ strategy[r] \in OnCounter /\ Goto(r, l)
          /\ pc[r] \in Labels \cup {"start"}
          /\ pc[r] = "start" => Number(pc, Strategies, Labels) < VUs

LEMMA ElsewhereKept ==
  ASSUME CoreType, CoreType', SlotsBounded, LockProtects, SeenBefore, Elsewhere
  PROVE  SlotsBounded' /\ LockProtects' /\ SeenBefore'
<1> DEFINE f == Number(pc, Strategies, Labels)
           f1 == Number(pc', Strategies, Labels)
           h == Number(pc, Holders, HeldLabels)
           h1 == Number(pc', Holders, HeldLabels)
           s == Number(pc, {"naive"}, {"increment"})
           s1 == Number(pc', {"naive"}, {"increment"})
           k == Sold
           k1 == Sold'
           n1 == issuedCount'
           a1 == lostAcks'
<1>0. /\ UNCHANGED <<strategy, seen, version, rowLock>>
      /\ \/ n1 = issuedCount
         \/ n1 = issuedCount + 1 /\ rowLock = NoOne
      /\ a1 \in {lostAcks, lostAcks + 1}
      /\ k1 = k
  BY DEF Elsewhere, Sold
<1>1. /\ f \in Nat /\ f1 \in Nat /\ h \in Nat /\ h1 \in Nat /\ s \in Nat /\ s1 \in Nat
      /\ Chance \in {0, 1} /\ Chance' \in {0, 1} /\ k \in Nat
      /\ Excess \in 0 .. VUs /\ TotalStock \in Nat /\ VUs \in Nat
      /\ issuedCount \in Int /\ n1 \in Int /\ lostAcks \in Nat /\ a1 \in Nat
  BY NumberNat, SlotsMeaning, StockAssumption, RouterAssumption DEF CoreType, Chance
<1>2. f <= VUs /\ k + h - lostAcks <= issuedCount
      /\ k + h - lostAcks + s + Chance <= TotalStock + Excess
  BY SlotsMeaning DEF BooksNow, Books
<1>3. SlotsBounded' <=> /\ f1 <= VUs
                        /\ k1 + h1 - a1 <= n1
                        /\ k1 + h1 - a1 + s1 + Chance' <= TotalStock + Excess
  BY <1>0, SlotsMeaningNext DEF Books
<1>4. CASE UNCHANGED pc
  <2>1. f1 = f /\ h1 = h /\ s1 = s
    BY <1>4
  <2>2. Chance' = Chance
    BY <1>0, <1>4 DEF Chance, Swappable, AtOf, At, Where
  <2>3. SlotsBounded'
    <3> HIDE DEF f, f1, h, h1, s, s1, k, k1, n1, a1
    <3>1. QED  BY <1>0, <1>1, <1>2, <1>3, <2>1, <2>2
  <2>4. LockProtects'
    BY <1>0, <1>4, RequestsAssumption DEF LockProtects, Pessimistic!Locked
  <2>5. SeenBefore'
    BY <1>0 DEF SeenBefore
  <2>6. QED  BY <2>3, <2>4, <2>5
<1>5. ASSUME NEW r \in Requests, NEW l \in Labels \cup Outcomes,
             strategy[r] \in OnCounter, Goto(r, l),
             pc[r] \in Labels \cup {"start"},
             pc[r] = "start" => f < VUs
      PROVE  SlotsBounded' /\ LockProtects' /\ SeenBefore'
  <2>1. strategy[r] \notin OnDatabase /\ strategy[r] \notin Holders
        /\ strategy[r] # "naive" /\ strategy[r] # "optimistic"
        /\ strategy[r] # "pessimistic"
    BY <1>5 DEF OnCounter, OnDatabase, Holders
  <2>2. h1 = h /\ s1 = s
    BY <1>5, <2>1, NumberMoves
  <2>3. f1 <= VUs
    <3>1. pc[r] \in Labels => f1 <= f
      BY <1>1, <1>5, NumberMoves DEF Strategies
    <3>2. pc[r] = "start" => f1 <= f + 1
      BY <1>1, <1>5, NumberMoves DEF Strategies
    <3> HIDE DEF f, f1
    <3>3. QED  BY <1>1, <1>2, <1>5, <3>1, <3>2
  <2>4. Chance' = Chance
    <3>1. Swappable' = Swappable
      BY <1>0, <1>5, <2>1 DEF Swappable, AtOf, At, Where, Goto, CoreType
    <3>2. QED  BY <3>1 DEF Chance
  <2>5. SlotsBounded'
    <3> HIDE DEF f, f1, h, h1, s, s1, k, k1, n1, a1
    <3>1. QED  BY <1>0, <1>1, <1>2, <1>3, <2>2, <2>3, <2>4
  <2>6. LockProtects'
    <3>1. \A q \in Requests : q = r \/ pc'[q] = pc[q]
      BY <1>5 DEF Goto, CoreType
    <3>2. rowLock # r
      BY <2>1 DEF LockProtects
    <3>3. QED
      BY <1>0, <2>1, <3>1, <3>2, RequestsAssumption DEF LockProtects, Pessimistic!Locked
  <2>7. SeenBefore'
    BY <1>0 DEF SeenBefore
  <2>8. QED  BY <2>5, <2>6, <2>7
<1>6. QED  BY <1>4, <1>5 DEF Elsewhere

-----------------------------------------------------------------------------
(* What a step of a redis strategy does to the counter.                    *)

(* What may be in the queue and in a worker's hands.                       *)
Jobs == {r \in Requests : strategy[r] = "redis-queue"}

CounterType ==
  /\ stock \in Int /\ stranded \in Nat
  /\ resent \in [Commands -> 0 .. MaxResends]
  /\ queue \in Seq(Jobs)
  /\ wpc \in [Workers -> Queue!WorkerLabels]
  /\ job \in [Workers -> Jobs \cup {NoOne}]
  /\ \A w \in Workers : wpc[w] \notin Queue!Waiting => job[w] \in Jobs
  /\ lostJobs \in 0 .. MaxLostJobs
  /\ \A r \in Requests : pc[r] = "undo" => strategy[r] \in {"redis", "redis-lua"}

(* A command ran once more than it was meant to, or not.                   *)
Ran(c, again) == resent' = [resent EXCEPT ![c] = @ + again]

LEMMA SendRan ==
  ASSUME CounterType, NEW c \in Commands, NEW again \in {0, 1}, Send(c, again)
  PROVE  Ran(c, again) /\ resent' \in [Commands -> 0 .. MaxResends]
BY ResendAssumption DEF CounterType, Send, Resends, Commands, Ran

OnOwn == {"redis", "redis-lua"}

(* It goes on, perhaps to return its slot or to lose it.                   *)
Passes(r, l) ==
  /\ UNCHANGED <<stock, resent, queue, coupons>>
  /\ pc[r] \notin {"undo", "push", "giveBack"} /\ l \notin {"create", "undo", "push"}
  /\ l = "giveBack" => pc[r] = "create"

(* It takes a slot: by DECR, with a debt below zero, or by the script.     *)
Decrements(r, l) ==
  /\ strategy[r] \in OnOwn /\ pc[r] = "decr"
  /\ \E again \in {0, 1} : Ran("DECR", again) /\ stock' = stock - 1 - again
  /\ l = IF stock' >= 0 THEN "create" ELSE "undo"
  /\ UNCHANGED <<queue, coupons>>

Evaluates(r, l) ==
  /\ pc[r] = "eval"
  /\ \E again \in {0, 1} : Ran("EVAL", again)
  /\ stock' \in Int
  /\ \/ /\ l = IF strategy[r] = "redis-queue" THEN "push" ELSE "create"
        /\ stock' >= 0 /\ stock' <= stock - 1
     \/ l = "SOLD_OUT" /\ (stock' = stock \/ (stock' >= 0 /\ stock' <= stock))
  /\ UNCHANGED <<queue, coupons>>

(* It turns the slot into a coupon, gives it back, or hands it on.         *)
Mints(r, l) ==
  /\ strategy[r] \in OnOwn /\ pc[r] = "create" /\ l \in {"count", "ERROR"}
  /\ r \notin coupons /\ coupons' = coupons \cup {r}
  /\ UNCHANGED <<stock, resent, queue>>

Increments(r, l) ==
  /\ strategy[r] \in OnOwn /\ pc[r] \in {"giveBack", "undo"} /\ l \in Answers
  /\ \E again \in {0, 1} : Ran("INCR", again) /\ stock' = stock + 1 + again
  /\ UNCHANGED <<queue, coupons>>

Pushes(r, l) ==
  /\ strategy[r] = "redis-queue" /\ pc[r] = "push" /\ l = "QUEUED"
  /\ \E again \in {0, 1} : Ran("LPUSH", again) /\ Len(queue') = Len(queue) + 1 + again
  /\ queue' \in Seq(Jobs)
  /\ UNCHANGED <<stock, coupons>>

CounterStep(r, l) ==
  /\ Goto(r, l) /\ pc[r] \in Labels \cup {"start"} /\ l \in Labels \cup Outcomes
  /\ UNCHANGED <<origin, version, rowLock>>
  /\ \/ issuedCount' = issuedCount
     \/ issuedCount' = issuedCount + 1 /\ MayWrite(r)
  /\ rejects' \in 0 .. MaxRejects /\ lostAcks' \in 0 .. MaxLostAcks
  /\ lostAcks' \in {lostAcks, lostAcks + 1}
  /\ resent' \in [Commands -> 0 .. MaxResends]
  /\ \/ Passes(r, l)
     \/ Decrements(r, l)
     \/ Evaluates(r, l)
     \/ Mints(r, l)
     \/ Increments(r, l)
     \/ Pushes(r, l)

(* A step that leaves Redis alone.                                         *)
LEMMA PassesOn ==
  ASSUME CoreType, CounterType, NEW r \in Requests, NEW l \in Labels \cup Outcomes,
         Goto(r, l), pc[r] \in Labels \cup {"start"},
         UNCHANGED <<origin, version, rowLock, coupons, issuedCount, lostAcks,
                     stock, resent, queue>>,
         rejects' \in 0 .. MaxRejects,
         pc[r] \notin {"undo", "push", "giveBack"}, l \notin {"create", "undo", "push"},
         l = "giveBack" => pc[r] = "create"
  PROVE  CounterStep(r, l)
BY DEF CounterStep, Passes, CoreType, CounterType

(* The redis strategy; redis-lua is the same after its lookup.             *)
LEMMA RedisSteps ==
  ASSUME CoreType, CounterType, NEW r \in Requests, strategy[r] \in OnOwn,
         Redis!Step(r) \/ RedisLua!Lookup(r), UNCHANGED queue
  PROVE  \E l : CounterStep(r, l)
<1>0. /\ {"decr", "eval", "create", "count", "giveBack", "undo", "NOT_FOUND", "SOLD_OUT",
          "ERROR", "ISSUED", "ALREADY_ISSUED"} \subseteq Labels \cup Outcomes
      /\ {"decr", "eval", "create", "count", "giveBack", "undo"} \subseteq Labels
      /\ {"DECR", "EVAL", "INCR"} \subseteq Commands
      /\ {"SOLD_OUT", "ALREADY_ISSUED"} \subseteq Answers
  BY DEF Labels, Redis!Labels, Outcomes, Answers, Commands
<1>1. CASE Redis!Lookup(r) \/ RedisLua!Lookup(r)
  <2>1. PICK l \in {"decr", "eval", "NOT_FOUND"} :
          pc[r] = "start" /\ Goto(r, l) /\ UNCHANGED <<rejects, lostAcks>>
    BY <1>1 DEF Redis!Lookup, Redis!FindCampaign, Redis!Resolve, Redis!Goto, Goto,
                RedisLua!Lookup, RedisLua!FindCampaign, RedisLua!Resolve, RedisLua!Goto
  <2>2. UNCHANGED <<origin, issuedCount, version, coupons, rowLock, stock, resent>>
    BY <1>1 DEF Redis!Lookup, Redis!FindCampaign, Redis!dbVars, Redis!redisVars, Redis!stockVars,
                RedisLua!Lookup, RedisLua!FindCampaign, RedisLua!dbVars,
                RedisLua!redisVars, RedisLua!stockVars
  <2>3. CounterStep(r, l)
    BY <1>0, <2>1, <2>2, PassesOn DEF CoreType
  <2>4. QED  BY <2>3
<1>2. CASE Redis!TakeByDecr(r)
  <2> DEFINE l == IF stock' >= 0 THEN "create" ELSE "undo"
  <2>1. PICK again \in {0, 1} : Send("DECR", again) /\ stock' = stock - 1 - again
    BY <1>2 DEF Redis!TakeByDecr, Redis!Decr, Redis!Send, Redis!Resends, Send, Resends
  <2>2. pc[r] = "decr" /\ Goto(r, l) /\ UNCHANGED <<rejects, lostAcks>>
    BY <1>2 DEF Redis!TakeByDecr, Redis!Decr, Redis!Resolve, Redis!Goto, Goto
  <2>3. UNCHANGED <<origin, issuedCount, version, coupons, rowLock>>
    BY <1>2 DEF Redis!TakeByDecr, Redis!dbVars
  <2>4. Ran("DECR", again) /\ resent' \in [Commands -> 0 .. MaxResends]
    BY <1>0, <2>1, SendRan
  <2>5. Decrements(r, l)
    BY <2>1, <2>2, <2>3, <2>4 DEF Decrements, OnOwn
  <2>6. CounterStep(r, l)
    BY <1>0, <2>2, <2>3, <2>4, <2>5 DEF CounterStep, CoreType
  <2>7. QED  BY <2>6
<1>3. CASE Redis!TakeByScript(r)
  <2>1. PICK again \in {0, 1} :
          LET before == IF again = 1 THEN AfterScript(stock) ELSE stock
          IN  /\ Send("EVAL", again) /\ stock' = AfterScript(before)
              /\ Goto(r, IF before > 0 THEN "create" ELSE "SOLD_OUT")
    BY <1>3 DEF Redis!TakeByScript, Redis!EvalScript, Redis!AfterScript, AfterScript,
                Redis!Send, Redis!Resends, Send, Resends, Redis!Resolve, Redis!Goto, Goto
  <2>2. pc[r] = "eval" /\ UNCHANGED <<rejects, lostAcks>>
    BY <1>3 DEF Redis!TakeByScript, Redis!EvalScript, Redis!Resolve
  <2>3. UNCHANGED <<origin, issuedCount, version, coupons, rowLock>>
    BY <1>3 DEF Redis!TakeByScript, Redis!dbVars
  <2>4. Ran("EVAL", again) /\ resent' \in [Commands -> 0 .. MaxResends]
    BY <1>0, <2>1, SendRan
  <2>5. /\ stock' \in Int
        /\ \/ Goto(r, "create") /\ stock' >= 0 /\ stock' <= stock - 1
           \/ Goto(r, "SOLD_OUT") /\ (stock' = stock \/ (stock' >= 0 /\ stock' <= stock))
    BY <2>1 DEF AfterScript, CounterType
  <2>6. PICK l \in {"create", "SOLD_OUT"} : Goto(r, l) /\ Evaluates(r, l)
    BY <2>2, <2>3, <2>4, <2>5 DEF Evaluates, OnOwn
  <2>7. CounterStep(r, l)
    BY <1>0, <2>2, <2>3, <2>4, <2>6 DEF CounterStep, CoreType
  <2>8. QED  BY <2>7
<1>4. CASE Redis!Create(r)
  <2>0. pc[r] = "create" /\ rejects' = rejects /\ UNCHANGED <<stock, resent>>
    BY <1>4 DEF Redis!Create, Redis!Settle, Redis!Resolve, Redis!LoseAck,
                Redis!redisVars, Redis!stockVars
  <2>1. CASE Redis!InsertCoupon(r) /\ Redis!Settle(r, "count", "ERROR")
    <3>1. PICK l \in {"count", "ERROR"} :
            /\ Goto(r, l)
            /\ \/ l = "count" /\ lostAcks' = lostAcks
               \/ l = "ERROR" /\ lostAcks' = lostAcks + 1 /\ lostAcks < MaxLostAcks
      BY <2>1 DEF Redis!Settle, Redis!Resolve, Redis!LoseAck, Redis!Goto, Goto
    <3>2. /\ r \notin coupons /\ coupons' = coupons \cup {r}
          /\ UNCHANGED <<origin, issuedCount, version, rowLock>>
      BY <2>1 DEF Redis!InsertCoupon, Redis!Duplicate
    <3>3. Mints(r, l)
      BY <2>0, <3>1, <3>2 DEF Mints, OnOwn
    <3>4. lostAcks' \in 0 .. MaxLostAcks
      BY <3>1, FaultAssumption DEF CoreType
    <3>5. CounterStep(r, l)
      BY <1>0, <2>0, <3>1, <3>2, <3>3, <3>4 DEF CounterStep, CoreType, CounterType
    <3>6. QED  BY <3>5
  <2>2. CASE Redis!Resolve(r, "giveBack") /\ UNCHANGED Redis!dbVars
    <3>1. /\ Goto(r, "giveBack") /\ UNCHANGED lostAcks
          /\ UNCHANGED <<origin, issuedCount, version, coupons, rowLock>>
      BY <2>2 DEF Redis!Resolve, Redis!Goto, Goto, Redis!dbVars
    <3>2. CounterStep(r, "giveBack")
      BY <1>0, <2>0, <3>1, PassesOn DEF CoreType
    <3>3. QED  BY <3>2
  <2>3. QED  BY <1>4, <2>1, <2>2 DEF Redis!Create
<1>5. CASE Redis!Count(r)
  <2>1. PICK l \in {"ISSUED", "ERROR"} :
          /\ pc[r] = "count" /\ Goto(r, l) /\ rejects' = rejects
          /\ \/ l = "ISSUED" /\ lostAcks' = lostAcks
             \/ l = "ERROR" /\ lostAcks' = lostAcks + 1 /\ lostAcks < MaxLostAcks
    BY <1>5 DEF Redis!Count, Redis!Settle, Redis!Resolve, Redis!LoseAck, Redis!Goto, Goto
  <2>2. /\ MayWrite(r) /\ issuedCount' = issuedCount + 1
        /\ UNCHANGED <<origin, version, coupons, rowLock, stock, resent>>
    BY <1>5 DEF Redis!Count, Redis!AddIssued, Redis!MayWrite, MayWrite,
                Redis!redisVars, Redis!stockVars
  <2>3. lostAcks' \in 0 .. MaxLostAcks
    BY <2>1, FaultAssumption DEF CoreType
  <2>4. CounterStep(r, l)
    BY <1>0, <2>1, <2>2, <2>3 DEF CounterStep, Passes, CoreType, CounterType
  <2>5. QED  BY <2>4
<1>6. CASE Redis!GiveBack(r)
  <2> DEFINE l == IF pc[r] = "undo" THEN "SOLD_OUT" ELSE "ALREADY_ISSUED"
  <2>1. PICK again \in {0, 1} : Send("INCR", again) /\ stock' = stock + 1 + again
    BY <1>6 DEF Redis!GiveBack, Redis!Incr, Redis!Send, Redis!Resends, Send, Resends
  <2>2. pc[r] \in {"giveBack", "undo"} /\ Goto(r, l) /\ UNCHANGED <<rejects, lostAcks>>
    BY <1>6 DEF Redis!GiveBack, Redis!Resolve, Redis!Goto, Goto
  <2>3. UNCHANGED <<origin, issuedCount, version, coupons, rowLock>>
    BY <1>6 DEF Redis!GiveBack, Redis!dbVars
  <2>4. Ran("INCR", again) /\ resent' \in [Commands -> 0 .. MaxResends]
    BY <1>0, <2>1, SendRan
  <2>5. Increments(r, l)
    BY <1>0, <2>1, <2>2, <2>3, <2>4 DEF Increments, OnOwn
  <2>6. CounterStep(r, l)
    BY <1>0, <2>2, <2>3, <2>4, <2>5 DEF CounterStep, CoreType
  <2>7. QED  BY <2>6
<1>7. CASE Redis!Reject(r, Redis!Catches) /\ UNCHANGED Redis!redisVars
  <2>1. /\ pc[r] \in {"start", "create", "count"} /\ Redis!Catches[pc[r]] = "ERROR"
        /\ rejects' \in 0 .. MaxRejects
    BY <1>7, FaultAssumption DEF Redis!Reject, Redis!Catches, CoreType
  <2>2. /\ Goto(r, "ERROR")
        /\ UNCHANGED <<origin, issuedCount, version, coupons, rowLock, lostAcks, stock, resent>>
    BY <1>7, <2>1 DEF Redis!Reject, Redis!Goto, Goto, Redis!dbVars, Redis!redisVars, Redis!stockVars
  <2>3. CounterStep(r, "ERROR")
    BY <1>0, <2>1, <2>2, PassesOn DEF CoreType
  <2>4. QED  BY <2>3
<1>8. QED
  BY <1>1, <1>2, <1>3, <1>4, <1>5, <1>6, <1>7 DEF Redis!Step

(* After the lookup, the two Redis strategies take the same steps.          *)
LEMMA SameSteps ==
  ASSUME NEW r \in Requests, RedisLua!Step(r)
  PROVE  Redis!Step(r) \/ RedisLua!Lookup(r)
<1>1. RedisLua!TakeByDecr(r) => Redis!TakeByDecr(r)
  BY DEF RedisLua!TakeByDecr, Redis!TakeByDecr, RedisLua!Decr, Redis!Decr,
         RedisLua!Send, Redis!Send, RedisLua!Resends, Redis!Resends,
         RedisLua!Resolve, Redis!Resolve, RedisLua!Goto, Redis!Goto,
         RedisLua!dbVars, Redis!dbVars
<1>2. RedisLua!TakeByScript(r) => Redis!TakeByScript(r)
  BY DEF RedisLua!TakeByScript, Redis!TakeByScript, RedisLua!EvalScript, Redis!EvalScript,
         RedisLua!AfterScript, Redis!AfterScript,
         RedisLua!Send, Redis!Send, RedisLua!Resends, Redis!Resends,
         RedisLua!Resolve, Redis!Resolve, RedisLua!Goto, Redis!Goto,
         RedisLua!dbVars, Redis!dbVars
<1>3. RedisLua!Create(r) => Redis!Create(r)
  BY DEF RedisLua!Create, Redis!Create, RedisLua!InsertCoupon, Redis!InsertCoupon,
         RedisLua!MayWrite, Redis!MayWrite, RedisLua!Duplicate, Redis!Duplicate,
         RedisLua!Settle, Redis!Settle, RedisLua!LoseAck, Redis!LoseAck,
         RedisLua!Resolve, Redis!Resolve, RedisLua!Goto, Redis!Goto,
         RedisLua!dbVars, Redis!dbVars, RedisLua!redisVars, Redis!redisVars,
         RedisLua!stockVars, Redis!stockVars
<1>4. RedisLua!Count(r) => Redis!Count(r)
  BY DEF RedisLua!Count, Redis!Count, RedisLua!AddIssued, Redis!AddIssued,
         RedisLua!MayWrite, Redis!MayWrite,
         RedisLua!Settle, Redis!Settle, RedisLua!LoseAck, Redis!LoseAck,
         RedisLua!Resolve, Redis!Resolve, RedisLua!Goto, Redis!Goto,
         RedisLua!redisVars, Redis!redisVars, RedisLua!stockVars, Redis!stockVars
<1>5. RedisLua!GiveBack(r) => Redis!GiveBack(r)
  BY DEF RedisLua!GiveBack, Redis!GiveBack, RedisLua!Incr, Redis!Incr,
         RedisLua!Send, Redis!Send, RedisLua!Resends, Redis!Resends,
         RedisLua!Resolve, Redis!Resolve, RedisLua!Goto, Redis!Goto,
         RedisLua!dbVars, Redis!dbVars
<1>6. RedisLua!Reject(r, RedisLua!Catches) /\ UNCHANGED RedisLua!redisVars =>
        Redis!Reject(r, Redis!Catches) /\ UNCHANGED Redis!redisVars
  BY DEF RedisLua!Reject, Redis!Reject, RedisLua!Catches, Redis!Catches,
         RedisLua!Goto, Redis!Goto, RedisLua!dbVars, Redis!dbVars,
         RedisLua!redisVars, Redis!redisVars, RedisLua!stockVars, Redis!stockVars
<1>7. QED
  BY <1>1, <1>2, <1>3, <1>4, <1>5, <1>6 DEF RedisLua!Step, Redis!Step

(* The queue strategy, up to the queue.                                    *)
LEMMA QueueSteps ==
  ASSUME CoreType, CounterType, NEW r \in Requests, strategy[r] = "redis-queue",
         \/ Queue!RequestStep(r)
         \/ Reject(r, Queue!Catches) /\ UNCHANGED <<stockVars, workerVars>>
  PROVE  (\E l : CounterStep(r, l)) /\ UNCHANGED <<wpc, job, lostJobs>>
<1>0. /\ {"eval", "push", "NOT_FOUND", "SOLD_OUT", "ERROR", "QUEUED"} \subseteq Labels \cup Outcomes
      /\ {"eval", "push"} \subseteq Labels
      /\ {"EVAL", "LPUSH"} \subseteq Commands
  BY DEF Labels, Queue!Labels, Outcomes, Answers, Commands
<1>1. CASE Queue!Lookup(r)
  <2>1. PICK l \in {"eval", "NOT_FOUND"} :
          pc[r] = "start" /\ Goto(r, l) /\ UNCHANGED <<rejects, lostAcks>>
    BY <1>1 DEF Queue!Lookup, Queue!FindCampaign, Queue!Resolve, Queue!Goto, Goto
  <2>2. /\ UNCHANGED <<origin, issuedCount, version, coupons, rowLock, stock, resent>>
        /\ UNCHANGED <<queue, wpc, job, lostJobs>>
    BY <1>1 DEF Queue!Lookup, Queue!FindCampaign, Queue!dbVars, Queue!stockVars, Queue!workerVars
  <2>3. CounterStep(r, l)
    BY <1>0, <2>1, <2>2, PassesOn DEF CoreType
  <2>4. QED  BY <2>2, <2>3
<1>2. CASE Queue!Take(r)
  <2>1. PICK again \in {0, 1} :
          LET before == IF again = 1 THEN AfterScript(stock) ELSE stock
          IN  /\ Send("EVAL", again) /\ stock' = AfterScript(before)
              /\ Goto(r, IF before > 0 THEN "push" ELSE "SOLD_OUT")
    BY <1>2 DEF Queue!Take, Queue!EvalScript, Queue!AfterScript, AfterScript,
                Queue!Send, Queue!Resends, Send, Resends, Queue!Resolve, Queue!Goto, Goto
  <2>2. pc[r] = "eval" /\ UNCHANGED <<rejects, lostAcks>>
    BY <1>2 DEF Queue!Take, Queue!EvalScript, Queue!Resolve
  <2>3. /\ UNCHANGED <<origin, issuedCount, version, coupons, rowLock>>
        /\ UNCHANGED <<queue, wpc, job, lostJobs>>
    BY <1>2 DEF Queue!Take, Queue!dbVars, Queue!workerVars
  <2>4. Ran("EVAL", again) /\ resent' \in [Commands -> 0 .. MaxResends]
    BY <1>0, <2>1, SendRan
  <2>5. /\ stock' \in Int
        /\ \/ Goto(r, "push") /\ stock' >= 0 /\ stock' <= stock - 1
           \/ Goto(r, "SOLD_OUT") /\ (stock' = stock \/ (stock' >= 0 /\ stock' <= stock))
    BY <2>1 DEF AfterScript, CounterType
  <2>6. PICK l \in {"push", "SOLD_OUT"} : Goto(r, l) /\ Evaluates(r, l)
    BY <2>2, <2>3, <2>4, <2>5 DEF Evaluates
  <2>7. CounterStep(r, l)
    BY <1>0, <2>2, <2>3, <2>4, <2>6 DEF CounterStep, CoreType
  <2>8. QED  BY <2>3, <2>7
<1>3. CASE Queue!Push(r)
  <2>1. PICK again \in {0, 1} :
          Send("LPUSH", again) /\ queue' = queue \o IF again = 1 THEN <<r, r>> ELSE <<r>>
    BY <1>3 DEF Queue!Push, Queue!Send, Queue!Resends, Send, Resends
  <2>2. pc[r] = "push" /\ Goto(r, "QUEUED") /\ UNCHANGED <<rejects, lostAcks>>
    BY <1>3 DEF Queue!Push, Queue!Resolve, Queue!Goto, Goto
  <2>3. /\ UNCHANGED <<origin, issuedCount, version, coupons, rowLock, stock>>
        /\ UNCHANGED <<wpc, job, lostJobs>>
    BY <1>3 DEF Queue!Push, Queue!dbVars
  <2>4. Ran("LPUSH", again) /\ resent' \in [Commands -> 0 .. MaxResends]
    BY <1>0, <2>1, SendRan
  <2>5. queue' \in Seq(Jobs) /\ Len(queue') = Len(queue) + 1 + again
    <3>1. r \in Jobs /\ queue \in Seq(Jobs)
      BY DEF Jobs, CounterType
    <3>2. CASE again = 0
      <4>1. <<r>> \in Seq(Jobs) /\ Len(<<r>>) = 1 /\ queue' = queue \o <<r>>
        BY <2>1, <3>1, <3>2
      <4>2. QED  BY <3>1, <3>2, <4>1, ConcatProperties
    <3>3. CASE again = 1
      <4>1. <<r, r>> \in Seq(Jobs) /\ Len(<<r, r>>) = 2 /\ queue' = queue \o <<r, r>>
        BY <2>1, <3>1, <3>3
      <4>2. QED  BY <3>1, <3>3, <4>1, ConcatProperties
    <3>4. QED  BY <3>2, <3>3
  <2>6. Pushes(r, "QUEUED")
    BY <2>2, <2>3, <2>4, <2>5 DEF Pushes
  <2>7. CounterStep(r, "QUEUED")
    BY <1>0, <2>2, <2>3, <2>4, <2>6 DEF CounterStep, CoreType
  <2>8. QED  BY <2>3, <2>7
<1>4. CASE Reject(r, Queue!Catches) /\ UNCHANGED <<stockVars, workerVars>>
  <2>1. /\ pc[r] = "start" /\ Queue!Catches[pc[r]] = "ERROR"
        /\ rejects' \in 0 .. MaxRejects
    BY <1>4, FaultAssumption DEF Reject, Queue!Catches, CoreType
  <2>2. /\ Goto(r, "ERROR")
        /\ UNCHANGED <<origin, issuedCount, version, coupons, rowLock, lostAcks, stock, resent>>
        /\ UNCHANGED <<queue, wpc, job, lostJobs>>
    BY <1>4, <2>1 DEF Reject, dbVars, stockVars, workerVars
  <2>3. CounterStep(r, "ERROR")
    BY <1>0, <2>1, <2>2, PassesOn DEF CoreType
  <2>4. QED  BY <2>2, <2>3
<1>5. QED  BY <1>1, <1>2, <1>3, <1>4 DEF Queue!RequestStep

-----------------------------------------------------------------------------
(* The ledger of the counter.                                              *)

Hand(f) == Number(f, OnOwn, {"create", "giveBack", "undo"})
Owed(f) == Number(f, OnOwn, {"undo"})
Pushing(f) == Number(f, {"redis-queue"}, {"push"})
AtWork(g) == Cardinality({w \in Workers : g[w] \in {"create", "giveBack"}})
Minted == Cardinality(CouponsOf(OnCounter))

(* Below zero by no more than DECRs that are not undone.                   *)
CounterFloor == stock + Owed(pc) + resent["DECR"] + stranded >= 0

LedgerNow ==
  stock + resent["DECR"] + stranded + Len(queue) + Hand(pc) + Pushing(pc)
    + AtWork(wpc) + Minted
  <= InitialStock + resent["INCR"] + resent["LPUSH"]

(* What CounterBounded says, in numbers.                                   *)
LEMMA LedgerMeaning == CounterBounded <=> LedgerNow
<1>1. /\ AtOf({"redis", "redis-lua"}, {"create", "giveBack", "undo"})
           = {r \in Requests : strategy[r] \in OnOwn /\ pc[r] \in {"create", "giveBack", "undo"}}
      /\ AtOf({"redis-queue"}, {"push"})
           = {r \in Requests : strategy[r] \in {"redis-queue"} /\ pc[r] \in {"push"}}
  BY DEF AtOf, At, Where, OnOwn
<1>2. QED  BY <1>1 DEF CounterBounded, LedgerNow, Hand, Pushing, AtWork, Minted, Number

LEMMA LedgerNumbers ==
  ASSUME CoreType, CounterType
  PROVE  /\ Hand(pc) \in Nat /\ Owed(pc) \in Nat /\ Pushing(pc) \in Nat
         /\ Owed(pc) <= Hand(pc)
         /\ AtWork(wpc) \in Nat /\ Minted \in Nat /\ Len(queue) \in Nat
         /\ stock \in Int /\ stranded \in Nat /\ InitialStock \in Nat
         /\ resent["DECR"] \in Nat /\ resent["INCR"] \in Nat /\ resent["LPUSH"] \in Nat
<1>1. Hand(pc) \in Nat /\ Owed(pc) \in Nat /\ Pushing(pc) \in Nat
  BY NumberNat DEF Hand, Owed, Pushing
<1>2. Owed(pc) <= Hand(pc)
  <2> DEFINE X == {r \in Requests : strategy[r] \in OnOwn /\ pc[r] \in {"undo"}}
             Y == {r \in Requests : strategy[r] \in OnOwn /\ pc[r] \in {"create", "giveBack", "undo"}}
  <2>1. X \subseteq Y /\ IsFiniteSet(Y)
    BY FS_Subset, RequestsAssumption
  <2> HIDE DEF X, Y
  <2>2. Cardinality(X) <= Cardinality(Y)
    BY <2>1, FS_Subset
  <2>3. QED  BY <2>2 DEF Owed, Hand, Number, X, Y
<1>3. AtWork(wpc) \in Nat
  <2>1. IsFiniteSet({w \in Workers : wpc[w] \in {"create", "giveBack"}})
    BY FS_Subset, RouterAssumption
  <2>2. QED  BY <2>1, FS_CardinalityType DEF AtWork
<1>4. Minted \in Nat
  <2>1. IsFiniteSet(CouponsOf(OnCounter))
    BY FS_Subset, RequestsAssumption DEF CouponsOf, CoreType
  <2>2. QED  BY <2>1, FS_CardinalityType DEF Minted
<1>5. Len(queue) \in Nat
  BY LenProperties DEF CounterType
<1>6. /\ stock \in Int /\ stranded \in Nat /\ InitialStock \in Nat
      /\ resent["DECR"] \in Nat /\ resent["INCR"] \in Nat /\ resent["LPUSH"] \in Nat
  BY ResendAssumption, StockAssumption DEF CounterType, Commands, InitialStock
<1>7. QED  BY <1>1, <1>2, <1>3, <1>4, <1>5, <1>6

(* The same for the state after a step.                                    *)
LEMMA LedgerNext ==
  ASSUME CoreType', CounterType', UNCHANGED strategy
  PROVE  /\ CounterBounded' <=>
              stock' + resent'["DECR"] + stranded' + Len(queue') + Hand(pc') + Pushing(pc')
                + AtWork(wpc') + Minted'
              <= InitialStock' + resent'["INCR"] + resent'["LPUSH"]
         /\ CounterFloor' <=> stock' + Owed(pc') + resent'["DECR"] + stranded' >= 0
         /\ Hand(pc') \in Nat /\ Owed(pc') \in Nat /\ Pushing(pc') \in Nat
         /\ AtWork(wpc') \in Nat /\ Minted' \in Nat /\ Len(queue') \in Nat
         /\ stock' \in Int /\ stranded' \in Nat /\ InitialStock' \in Nat
         /\ resent'["DECR"] \in Nat /\ resent'["INCR"] \in Nat /\ resent'["LPUSH"] \in Nat
<1>1. (CounterBounded <=> LedgerNow)'
  BY LedgerMeaning, PTL
<1>2. Hand(pc)' = Hand(pc') /\ Owed(pc)' = Owed(pc') /\ Pushing(pc)' = Pushing(pc')
      /\ AtWork(wpc)' = AtWork(wpc')
  BY DEF Hand, Owed, Pushing, AtWork, Number
<1>3. /\ CounterBounded' <=>
           stock' + resent'["DECR"] + stranded' + Len(queue') + Hand(pc') + Pushing(pc')
             + AtWork(wpc') + Minted'
           <= InitialStock' + resent'["INCR"] + resent'["LPUSH"]
      /\ CounterFloor' <=> stock' + Owed(pc') + resent'["DECR"] + stranded' >= 0
  BY <1>1, <1>2 DEF LedgerNow, CounterFloor
<1>4. Hand(pc') \in Nat /\ Owed(pc') \in Nat /\ Pushing(pc') \in Nat
  BY NumberNat DEF Hand, Owed, Pushing
<1>5. AtWork(wpc') \in Nat
  <2>1. IsFiniteSet({w \in Workers : wpc'[w] \in {"create", "giveBack"}})
    BY FS_Subset, RouterAssumption
  <2>2. QED  BY <2>1, FS_CardinalityType DEF AtWork
<1>6. Minted' \in Nat
  <2>1. IsFiniteSet(CouponsOf(OnCounter)')
    BY FS_Subset, RequestsAssumption DEF CouponsOf, CoreType
  <2>2. QED  BY <2>1, FS_CardinalityType DEF Minted
<1>7. Len(queue') \in Nat
  BY LenProperties DEF CounterType
<1>8. /\ stock' \in Int /\ stranded' \in Nat /\ InitialStock' \in Nat
      /\ resent'["DECR"] \in Nat /\ resent'["INCR"] \in Nat /\ resent'["LPUSH"] \in Nat
  BY ResendAssumption, StockAssumption DEF CounterType, Commands, InitialStock
<1>9. QED  BY <1>3, <1>4, <1>5, <1>6, <1>7, <1>8

(* A coupon of a redis strategy is one more in the ledger.                 *)
LEMMA MintedMoves ==
  ASSUME CoreType, NEW r \in Requests, UNCHANGED strategy
  PROVE  /\ CouponsOf(OnCounter)' = CouponsOf(OnCounter) => Minted' = Minted
         /\ strategy[r] \in OnCounter /\ r \notin coupons /\ coupons' = coupons \cup {r} =>
              Minted' = Minted + 1
<1>1. IsFiniteSet(CouponsOf(OnCounter))
  BY FS_Subset, RequestsAssumption DEF CouponsOf, CoreType
<1>2. strategy[r] \in OnCounter /\ r \notin coupons /\ coupons' = coupons \cup {r} =>
        /\ CouponsOf(OnCounter)' = CouponsOf(OnCounter) \cup {r}
        /\ r \notin CouponsOf(OnCounter)
  BY DEF CouponsOf
<1>3. r \notin CouponsOf(OnCounter) =>
        Cardinality(CouponsOf(OnCounter) \cup {r}) = Cardinality(CouponsOf(OnCounter)) + 1
  BY <1>1, FS_AddElement
<1>4. QED  BY <1>2, <1>3 DEF Minted

(* Every kind of step of a request keeps the ledger.                       *)
LEMMA LedgerKept ==
  ASSUME CoreType, CoreType', CounterType, CounterType', CounterBounded, CounterFloor,
         NEW r \in Requests, NEW l, CounterStep(r, l), strategy[r] \in OnCounter,
         UNCHANGED <<strategy, stranded, wpc>>
  PROVE  CounterBounded' /\ CounterFloor'
<1> DEFINE d == resent["DECR"]
           d1 == resent'["DECR"]
           i == resent["INCR"]
           i1 == resent'["INCR"]
           p == resent["LPUSH"]
           p1 == resent'["LPUSH"]
           q == Len(queue)
           q1 == Len(queue')
           h == Hand(pc)
           h1 == Hand(pc')
           o == Owed(pc)
           o1 == Owed(pc')
           u == Pushing(pc)
           u1 == Pushing(pc')
           w == AtWork(wpc)
           m == Minted
           m1 == Minted'
           s1 == stock'
           n == InitialStock
           t == stranded
<1>1. Goto(r, l)
  BY DEF CounterStep
<1>2. /\ d \in Nat /\ d1 \in Nat /\ i \in Nat /\ i1 \in Nat /\ p \in Nat /\ p1 \in Nat
      /\ q \in Nat /\ q1 \in Nat /\ h \in Nat /\ h1 \in Nat /\ o \in Nat /\ o1 \in Nat
      /\ u \in Nat /\ u1 \in Nat /\ w \in Nat /\ m \in Nat /\ m1 \in Nat
      /\ stock \in Int /\ s1 \in Int /\ n \in Nat /\ t \in Nat
  BY LedgerNumbers, LedgerNext
<1>3. /\ stock + d + t + q + h + u + w + m <= n + i + p
      /\ stock + o + d + t >= 0
  BY LedgerMeaning DEF LedgerNow, CounterFloor
<1>4. CounterBounded' /\ CounterFloor' <=>
        /\ s1 + d1 + t + q1 + h1 + u1 + w + m1 <= n + i1 + p1
        /\ s1 + o1 + d1 + t >= 0
  <2>1. UNCHANGED <<stranded, wpc, InitialStock>>
    BY DEF CounterStep, InitialStock
  <2>2. QED  BY <2>1, LedgerNext
<1>5. ASSUME NEW S, NEW labels, strategy[r] \in S
      PROVE  LET a == Number(pc, S, labels)
                 b == Number(pc', S, labels)
             IN  /\ pc[r] \notin labels /\ l \in labels => b = a + 1
                 /\ pc[r] \in labels /\ l \notin labels => b = a - 1
                 /\ (pc[r] \in labels <=> l \in labels) => b = a
  BY <1>1, <1>5, NumberMoves
<1>6. ASSUME NEW S, NEW labels, strategy[r] \notin S
      PROVE  Number(pc', S, labels) = Number(pc, S, labels)
  BY <1>1, <1>6, NumberMoves
<1>7. /\ strategy[r] \in OnOwn =>
           /\ u1 = u
           /\ pc[r] \notin {"create", "giveBack", "undo"} /\ l \in {"create", "giveBack", "undo"} => h1 = h + 1
           /\ pc[r] \in {"create", "giveBack", "undo"} /\ l \notin {"create", "giveBack", "undo"} => h1 = h - 1
           /\ (pc[r] \in {"create", "giveBack", "undo"} <=> l \in {"create", "giveBack", "undo"}) => h1 = h
           /\ pc[r] # "undo" /\ l = "undo" => o1 = o + 1
           /\ pc[r] = "undo" /\ l # "undo" => o1 = o - 1
           /\ (pc[r] = "undo" <=> l = "undo") => o1 = o
      /\ strategy[r] = "redis-queue" =>
           /\ h1 = h /\ o1 = o
           /\ pc[r] # "push" /\ l = "push" => u1 = u + 1
           /\ pc[r] = "push" /\ l # "push" => u1 = u - 1
           /\ (pc[r] = "push" <=> l = "push") => u1 = u
  BY <1>5, <1>6 DEF Hand, Owed, Pushing, OnOwn
<1>8. strategy[r] \in OnOwn \/ strategy[r] = "redis-queue"
  BY DEF OnOwn, OnCounter
<1>9. ASSUME NEW c \in Commands, NEW again \in {0, 1}, Ran(c, again)
      PROVE  /\ d1 = IF c = "DECR" THEN d + again ELSE d
             /\ i1 = IF c = "INCR" THEN i + again ELSE i
             /\ p1 = IF c = "LPUSH" THEN p + again ELSE p
  BY <1>9 DEF Ran, CounterType, Commands
<1>10. {"DECR", "EVAL", "INCR", "LPUSH"} = Commands
  BY DEF Commands
<1>11. /\ UNCHANGED coupons => m1 = m
       /\ r \notin coupons /\ coupons' = coupons \cup {r} => m1 = m + 1
  BY MintedMoves DEF CouponsOf
<1> HIDE DEF d, d1, i, i1, p, p1, q, q1, h, h1, o, o1, u, u1, w, m, m1, s1, n, t
<1>12. CASE Passes(r, l)
  <2>1. s1 = stock /\ d1 = d /\ i1 = i /\ p1 = p /\ q1 = q /\ m1 = m
    BY <1>11, <1>12 DEF Passes, s1, d, d1, i, i1, p, p1, q, q1
  <2>2. h1 <= h /\ o1 = o /\ u1 = u
    BY <1>2, <1>7, <1>8, <1>12 DEF Passes
  <2>3. QED  BY <1>2, <1>3, <1>4, <2>1, <2>2
<1>13. CASE Decrements(r, l)
  <2>1. PICK again \in {0, 1} : Ran("DECR", again) /\ s1 = stock - 1 - again
    BY <1>13 DEF Decrements, s1
  <2>2. d1 = d + again /\ i1 = i /\ p1 = p /\ q1 = q /\ m1 = m /\ u1 = u
    BY <1>7, <1>9, <1>10, <1>11, <1>13, <2>1 DEF Decrements, q, q1
  <2>3. /\ s1 >= 0 => h1 = h + 1 /\ o1 = o
        /\ ~(s1 >= 0) => h1 = h + 1 /\ o1 = o + 1
    BY <1>7, <1>13 DEF Decrements, s1
  <2>4. QED  BY <1>2, <1>3, <1>4, <2>1, <2>2, <2>3
<1>14. CASE Evaluates(r, l)
  <2>1. d1 = d /\ i1 = i /\ p1 = p /\ q1 = q /\ m1 = m
    BY <1>9, <1>10, <1>11, <1>14 DEF Evaluates, q, q1
  <2>2. o1 = o
    BY <1>7, <1>8, <1>14 DEF Evaluates
  <2>3. CASE l = "SOLD_OUT"
    <3>1. h1 = h /\ u1 = u
      BY <1>7, <1>8, <1>14, <2>3 DEF Evaluates
    <3>2. s1 = stock \/ (s1 >= 0 /\ s1 <= stock)
      BY <1>14, <2>3 DEF Evaluates, s1
    <3>3. QED  BY <1>2, <1>3, <1>4, <2>1, <2>2, <3>1, <3>2
  <2>4. CASE l # "SOLD_OUT"
    <3>1. h1 + u1 = h + u + 1
      <4>1. CASE strategy[r] = "redis-queue"
        BY <1>2, <1>7, <1>14, <2>4, <4>1 DEF Evaluates
      <4>2. CASE strategy[r] \in OnOwn
        BY <1>2, <1>7, <1>14, <2>4, <4>2 DEF Evaluates, OnOwn
      <4>3. QED  BY <1>8, <4>1, <4>2
    <3>2. s1 >= 0 /\ s1 <= stock - 1
      BY <1>14, <2>4 DEF Evaluates, s1
    <3>3. QED  BY <1>2, <1>3, <1>4, <2>1, <2>2, <3>1, <3>2
  <2>5. QED  BY <2>3, <2>4
<1>15. CASE Mints(r, l)
  <2>1. s1 = stock /\ d1 = d /\ i1 = i /\ p1 = p /\ q1 = q /\ m1 = m + 1
    BY <1>11, <1>15 DEF Mints, s1, d, d1, i, i1, p, p1, q, q1
  <2>2. h1 = h - 1 /\ o1 = o /\ u1 = u
    BY <1>7, <1>15 DEF Mints
  <2>3. QED  BY <1>2, <1>3, <1>4, <2>1, <2>2
<1>16. CASE Increments(r, l)
  <2>1. PICK again \in {0, 1} : Ran("INCR", again) /\ s1 = stock + 1 + again
    BY <1>16 DEF Increments, s1
  <2>2. d1 = d /\ i1 = i + again /\ p1 = p /\ q1 = q /\ m1 = m /\ u1 = u
    BY <1>7, <1>9, <1>10, <1>11, <1>16, <2>1 DEF Increments, q, q1
  <2>3. h1 = h - 1 /\ (o1 = o \/ o1 = o - 1)
    <3>1. l \notin {"create", "giveBack", "undo"}
      BY <1>16 DEF Increments, Answers
    <3>2. QED  BY <1>7, <1>16, <3>1 DEF Increments
  <2>4. QED  BY <1>2, <1>3, <1>4, <2>1, <2>2, <2>3
<1>17. CASE Pushes(r, l)
  <2>1. PICK again \in {0, 1} : Ran("LPUSH", again) /\ q1 = q + 1 + again
    BY <1>17 DEF Pushes, q, q1
  <2>2. s1 = stock /\ d1 = d /\ i1 = i /\ p1 = p + again /\ m1 = m
    BY <1>9, <1>10, <1>11, <1>17, <2>1 DEF Pushes, s1
  <2>3. h1 = h /\ o1 = o /\ u1 = u - 1
    BY <1>7, <1>17 DEF Pushes
  <2>4. QED  BY <1>2, <1>3, <1>4, <2>1, <2>2, <2>3
<1>18. QED
  BY <1>12, <1>13, <1>14, <1>15, <1>16, <1>17 DEF CounterStep

LEMMA CounterStepKeeps ==
  ASSUME CoreType, CounterType, LockProtects,
         NEW r \in Requests, NEW l, CounterStep(r, l), strategy[r] \in OnCounter,
         UNCHANGED <<strategy, stranded, wpc, job, lostJobs, seen>>,
         pc[r] = "start" => Number(pc, Strategies, Labels) < VUs
  PROVE  CoreType' /\ CounterType' /\ Elsewhere
<1>1. /\ Goto(r, l) /\ pc[r] \in Labels \cup {"start"} /\ l \in Labels \cup Outcomes
      /\ UNCHANGED <<origin, version, rowLock>>
      /\ \/ issuedCount' = issuedCount
         \/ issuedCount' = issuedCount + 1 /\ MayWrite(r)
      /\ rejects' \in 0 .. MaxRejects /\ lostAcks' \in 0 .. MaxLostAcks
      /\ lostAcks' \in {lostAcks, lostAcks + 1}
      /\ resent' \in [Commands -> 0 .. MaxResends]
  BY DEF CounterStep
<1>2. coupons' = coupons \/ coupons' = coupons \cup {r}
  BY DEF CounterStep, Passes, Decrements, Evaluates, Mints, Increments, Pushes
<1>3. CoreType'
  <2>1. pc' \in [Requests -> Labels \cup Outcomes \cup {"start"}]
    BY <1>1 DEF Goto, CoreType
  <2>2. issuedCount' \in Int /\ coupons' \subseteq Requests
    BY <1>1, <1>2 DEF CoreType
  <2>3. QED  BY <1>1, <2>1, <2>2 DEF CoreType, Labels
<1>4. CounterType'
  <2>1. stock' \in Int
    <3>1. CASE Decrements(r, l) \/ Increments(r, l)
      BY <3>1 DEF Decrements, Increments, CounterType
    <3>2. CASE ~(Decrements(r, l) \/ Increments(r, l))
      BY <3>2 DEF CounterStep, Passes, Evaluates, Mints, Pushes, CounterType
    <3>3. QED  BY <3>1, <3>2
  <2>2. Jobs' = Jobs /\ queue' \in Seq(Jobs)
    BY DEF CounterStep, Passes, Decrements, Evaluates, Mints, Increments, Pushes, CounterType, Jobs
  <2>3. l = "undo" => strategy[r] \in {"redis", "redis-lua"}
    BY DEF CounterStep, Passes, Decrements, Evaluates, Mints, Increments, Pushes, OnOwn, Answers
  <2>4. \A q \in Requests : pc'[q] = "undo" => strategy[q] \in {"redis", "redis-lua"}
    BY <1>1, <2>3 DEF Goto, CoreType, CounterType
  <2>5. QED  BY <1>1, <2>1, <2>2, <2>4 DEF CounterType, Queue!WorkerLabels
<1>5. Elsewhere
  <2>1. strategy[r] \notin OnDatabase /\ strategy[r] # "pessimistic"
    BY DEF OnCounter, OnDatabase
  <2>2. CouponsOf(OnDatabase)' = CouponsOf(OnDatabase)
    BY <1>2, <2>1 DEF CouponsOf
  <2>3. issuedCount' = issuedCount \/ (issuedCount' = issuedCount + 1 /\ rowLock = NoOne)
    BY <1>1, <2>1 DEF LockProtects, MayWrite
  <2>4. QED  BY <1>1, <2>2, <2>3 DEF Elsewhere
<1>6. QED  BY <1>3, <1>4, <1>5

-----------------------------------------------------------------------------
(* The workers.                                                            *)

WorkerDoes(w, l) ==
  /\ wpc' = [wpc EXCEPT ![w] = l] /\ l \in Queue!WorkerLabels
  /\ UNCHANGED <<origin, version, rowLock, pc, userKey, rejects, lostAcks>>
  /\ lostJobs' \in 0 .. MaxLostJobs
  /\ \/ l \in Queue!Waiting /\ job' = [job EXCEPT ![w] = NoOne]
     \/ (wpc[w] \in Queue!Waiting <=> l \in Queue!Waiting) /\ UNCHANGED job
     \/ wpc[w] = "pop" /\ queue # <<>> /\ job' = [job EXCEPT ![w] = Head(queue)]
  (* It takes a job, turns it into a coupon, ends or loses it, returns the *)
  (* slot of a repeat, or stops or starts without a job.                   *)
  /\ \/ /\ wpc[w] = "pop" /\ l \in {"create"} \cup Queue!Waiting
        /\ queue # <<>> /\ queue' = Tail(queue)
        /\ UNCHANGED <<stock, resent, coupons, issuedCount>>
     \/ /\ wpc[w] = "create" /\ l \in {"count"} \cup Queue!Waiting
        /\ job[w] \notin coupons /\ coupons' = coupons \cup {job[w]}
        /\ UNCHANGED <<stock, resent, queue, issuedCount>>
     \/ /\ l \in {"giveBack"} \cup Queue!Waiting
        /\ l = "giveBack" => wpc[w] = "create"
        /\ \/ issuedCount' = issuedCount
           \/ /\ issuedCount' = issuedCount + 1 /\ MayWrite(job[w])
              /\ wpc[w] \notin Queue!Waiting
        /\ UNCHANGED <<stock, resent, queue, coupons>>
     \/ /\ wpc[w] = "giveBack" /\ l = "pop"
        /\ \E again \in {0, 1} : Ran("INCR", again) /\ stock' = stock + 1 + again
        /\ resent' \in [Commands -> 0 .. MaxResends]
        /\ UNCHANGED <<queue, coupons, issuedCount>>

LEMMA WorkerSteps ==
  ASSUME CoreType, CounterType, NEW w \in Workers,
         Queue!WorkerStep(w) \/ Queue!WorkerEvent(w)
  PROVE  \E l : WorkerDoes(w, l)
<1> USE DEF Queue!WorkerAt, Queue!NextJob
<1>0. /\ {"pop", "stopped", "create", "count", "giveBack"} = Queue!WorkerLabels
      /\ {"pop", "stopped"} = Queue!Waiting
  BY DEF Queue!WorkerLabels, Queue!Waiting
<1>1. Queue!LoseJob(w) => /\ \E l \in Queue!Waiting : wpc' = [wpc EXCEPT ![w] = l]
                          /\ job' = [job EXCEPT ![w] = NoOne]
                          /\ lostJobs' \in 0 .. MaxLostJobs
  BY <1>0, RouterAssumption DEF Queue!LoseJob, CounterType
<1>2. CASE Queue!Pop(w)
  <2>1. PICK l \in {"create"} \cup Queue!Waiting :
          /\ wpc' = [wpc EXCEPT ![w] = l] /\ lostJobs' \in 0 .. MaxLostJobs
          /\ \/ l \in Queue!Waiting /\ job' = [job EXCEPT ![w] = NoOne]
             \/ job' = [job EXCEPT ![w] = Head(queue)]
    BY <1>0, <1>1, <1>2 DEF Queue!Pop, CounterType
  <2>2. wpc[w] = "pop" /\ queue # <<>> /\ queue' = Tail(queue)
    BY <1>2 DEF Queue!Pop
  <2>3. UNCHANGED <<origin, issuedCount, version, coupons, rowLock, pc, userKey,
                    rejects, lostAcks, stock, resent>>
    BY <1>2 DEF Queue!Pop, Queue!couponDbVars, Queue!dbVars, Queue!requestVars, Queue!stockVars
  <2>4. WorkerDoes(w, l)
    BY <1>0, <2>1, <2>2, <2>3 DEF WorkerDoes
  <2>5. QED  BY <2>4
<1>3. CASE Queue!WorkerCreate(w)
  <2>0. /\ wpc[w] = "create"
        /\ UNCHANGED <<pc, userKey, rejects, lostAcks, stock, resent, queue>>
    BY <1>3 DEF Queue!WorkerCreate, Queue!requestVars, Queue!stockVars
  <2>1. CASE Queue!InsertCoupon(job[w])
    <3>1. /\ job[w] \notin coupons /\ coupons' = coupons \cup {job[w]}
          /\ UNCHANGED <<origin, issuedCount, version, rowLock>>
      BY <2>1 DEF Queue!InsertCoupon, Queue!Duplicate
    <3>2. CASE Queue!WorkerAt(w, "count") /\ UNCHANGED <<job, lostJobs>>
      <4>1. WorkerDoes(w, "count")
        BY <1>0, <2>0, <3>1, <3>2 DEF WorkerDoes, CounterType
      <4>2. QED  BY <4>1
    <3>3. CASE Queue!LoseJob(w)
      <4>1. PICK l \in Queue!Waiting : WorkerDoes(w, l)
        BY <1>0, <1>1, <2>0, <3>1, <3>3 DEF WorkerDoes
      <4>2. QED  BY <4>1
    <3>4. CASE ~Queue!LoseJob(w) /\ ~(Queue!WorkerAt(w, "count") /\ UNCHANGED <<job, lostJobs>>)
      <4>1. Queue!Duplicate(job[w]) /\ UNCHANGED Queue!dbVars
        BY <1>3, <3>4 DEF Queue!WorkerCreate
      <4>2. QED  BY <2>1, <4>1 DEF Queue!InsertCoupon
    <3>5. QED  BY <3>2, <3>3, <3>4
  <2>2. CASE /\ UNCHANGED Queue!dbVars /\ Queue!WorkerAt(w, "giveBack")
             /\ UNCHANGED <<job, lostJobs>>
    <3>1. WorkerDoes(w, "giveBack")
      BY <1>0, <2>0, <2>2 DEF WorkerDoes, Queue!dbVars, CounterType
    <3>2. QED  BY <3>1
  <2>3. QED  BY <1>3, <2>1, <2>2 DEF Queue!WorkerCreate
<1>4. CASE Queue!WorkerCount(w)
  <2>1. /\ wpc[w] = "count" /\ lostJobs' \in 0 .. MaxLostJobs
        /\ \E l \in Queue!Waiting : wpc' = [wpc EXCEPT ![w] = l]
        /\ job' = [job EXCEPT ![w] = NoOne]
        /\ MayWrite(job[w]) /\ issuedCount' = issuedCount + 1
    BY <1>0, <1>1, <1>4 DEF Queue!WorkerCount, Queue!AddIssued, Queue!MayWrite, MayWrite, CounterType
  <2>2. UNCHANGED <<origin, version, coupons, rowLock, pc, userKey, rejects, lostAcks,
                    stock, resent, queue>>
    BY <1>4 DEF Queue!WorkerCount, Queue!AddIssued, Queue!requestVars, Queue!stockVars
  <2>3. PICK l \in Queue!Waiting : WorkerDoes(w, l)
    BY <1>0, <2>1, <2>2 DEF WorkerDoes
  <2>4. QED  BY <2>3
<1>5. CASE Queue!WorkerGiveBack(w)
  <2>1. PICK again \in {0, 1} : Send("INCR", again) /\ stock' = stock + 1 + again
    BY <1>5 DEF Queue!WorkerGiveBack, Queue!Incr, Queue!Send, Queue!Resends, Send, Resends
  <2>2. Ran("INCR", again) /\ resent' \in [Commands -> 0 .. MaxResends]
    BY <2>1, SendRan DEF Commands
  <2>3. /\ wpc[w] = "giveBack" /\ Queue!NextJob(w)
        /\ UNCHANGED <<origin, issuedCount, version, coupons, rowLock, pc, userKey,
                       rejects, lostAcks, queue, lostJobs>>
    BY <1>5 DEF Queue!WorkerGiveBack, Queue!couponDbVars, Queue!dbVars, Queue!requestVars
  <2>4. WorkerDoes(w, "pop")
    BY <1>0, <2>1, <2>2, <2>3 DEF WorkerDoes, CounterType
  <2>5. QED  BY <2>4
<1>6. CASE Queue!JobLost(w)
  <2>1. /\ wpc[w] \notin Queue!Waiting /\ lostJobs' \in 0 .. MaxLostJobs
        /\ \E l \in Queue!Waiting : wpc' = [wpc EXCEPT ![w] = l]
        /\ job' = [job EXCEPT ![w] = NoOne]
    BY <1>1, <1>6 DEF Queue!JobLost
  <2>2. UNCHANGED <<origin, issuedCount, version, coupons, rowLock, pc, userKey,
                    rejects, lostAcks, stock, resent, queue>>
    BY <1>6 DEF Queue!JobLost, Queue!couponDbVars, Queue!dbVars, Queue!requestVars, Queue!stockVars
  <2>3. PICK l \in Queue!Waiting : WorkerDoes(w, l)
    BY <1>0, <2>1, <2>2 DEF WorkerDoes
  <2>4. QED  BY <2>3
<1>7. CASE Queue!WorkerStops(w) \/ Queue!StartWorker(w)
  <2>1. PICK l \in Queue!Waiting : wpc' = [wpc EXCEPT ![w] = l] /\ wpc[w] \in Queue!Waiting
    BY <1>0, <1>7 DEF Queue!WorkerStops, Queue!StartWorker
  <2>2. UNCHANGED <<origin, issuedCount, version, coupons, rowLock, pc, userKey,
                    rejects, lostAcks, stock, resent, queue, job, lostJobs>>
    BY <1>7 DEF Queue!WorkerStops, Queue!StartWorker, Queue!couponDbVars, Queue!dbVars,
                Queue!requestVars, Queue!stockVars
  <2>3. WorkerDoes(w, l)
    BY <1>0, <2>1, <2>2 DEF WorkerDoes, CounterType
  <2>4. QED  BY <2>3
<1>8. QED  BY <1>2, <1>3, <1>4, <1>5, <1>6, <1>7 DEF Queue!WorkerStep, Queue!WorkerEvent

(* How a step of a worker changes the number of jobs at work.              *)
LEMMA AtWorkMoves ==
  ASSUME CounterType, NEW w \in Workers, NEW l, wpc' = [wpc EXCEPT ![w] = l]
  PROVE  LET busy == {"create", "giveBack"}
         IN  /\ wpc[w] \notin busy /\ l \in busy => AtWork(wpc') = AtWork(wpc) + 1
             /\ wpc[w] \in busy /\ l \notin busy => AtWork(wpc') = AtWork(wpc) - 1
             /\ (wpc[w] \in busy <=> l \in busy) => AtWork(wpc') = AtWork(wpc)
<1> DEFINE busy == {"create", "giveBack"}
           X == {v \in Workers : wpc[v] \in busy}
           Y == {v \in Workers : wpc'[v] \in busy}
<1>1. IsFiniteSet(X)
  BY FS_Subset, RouterAssumption
<1>2. /\ wpc[w] \notin busy /\ l \in busy => w \notin X /\ Y = X \cup {w}
      /\ wpc[w] \in busy /\ l \notin busy => w \in X /\ Y = X \ {w}
      /\ (wpc[w] \in busy <=> l \in busy) => Y = X
  BY DEF CounterType
<1>3. AtWork(wpc) = Cardinality(X) /\ AtWork(wpc') = Cardinality(Y)
  BY DEF AtWork
<1> HIDE DEF X, Y
<1>4. /\ w \notin X /\ Y = X \cup {w} => Cardinality(Y) = Cardinality(X) + 1
      /\ w \in X /\ Y = X \ {w} => Cardinality(Y) = Cardinality(X) - 1
  BY <1>1, FS_AddElement, FS_RemoveElement
<1>5. QED  BY <1>2, <1>3, <1>4

(* A worker leaves everything in its type, and touches the books of the    *)
(* database strategies only where it counts a coupon of its own.           *)
LEMMA WorkerKeepsTypes ==
  ASSUME CoreType, CounterType, LockProtects, NEW w \in Workers, NEW l, WorkerDoes(w, l),
         UNCHANGED <<strategy, seen, stranded>>
  PROVE  CoreType' /\ CounterType' /\ Elsewhere
<1>1. /\ wpc' = [wpc EXCEPT ![w] = l] /\ l \in Queue!WorkerLabels
      /\ UNCHANGED <<origin, version, rowLock, pc, userKey, rejects, lostAcks>>
      /\ lostJobs' \in 0 .. MaxLostJobs
  BY DEF WorkerDoes
<1>2. \/ coupons' = coupons
      \/ wpc[w] \notin Queue!Waiting /\ coupons' = coupons \cup {job[w]}
  BY DEF WorkerDoes, Queue!Waiting
<1>3. wpc[w] \notin Queue!Waiting =>
        /\ job[w] \in Requests /\ strategy[job[w]] = "redis-queue"
        /\ rowLock # job[w]
  BY DEF CounterType, Jobs, LockProtects
<1>4. \/ issuedCount' = issuedCount
      \/ issuedCount' = issuedCount + 1 /\ rowLock = NoOne
  BY <1>3 DEF WorkerDoes, MayWrite
<1>5. CoreType'
  <2>1. issuedCount' \in Int /\ coupons' \subseteq Requests
    BY <1>2, <1>3, <1>4 DEF CoreType
  <2>2. QED  BY <1>1, <2>1 DEF CoreType, Labels
<1>6. CounterType'
  <2>0. Jobs' = Jobs
    BY DEF Jobs
  <2>1. /\ queue' \in Seq(Jobs)
        /\ queue # <<>> => Head(queue) \in Jobs
    <3>1. queue \in Seq(Jobs)
      BY DEF CounterType
    <3>2. queue # <<>> => Head(queue) \in Jobs /\ Tail(queue) \in Seq(Jobs)
      BY <3>1, HeadTailProperties
    <3>3. QED  BY <3>1, <3>2 DEF WorkerDoes
  <2>2. /\ wpc' \in [Workers -> Queue!WorkerLabels]
        /\ job' \in [Workers -> Jobs \cup {NoOne}]
        /\ \A v \in Workers : wpc'[v] \notin Queue!Waiting => job'[v] \in Jobs
    <3>1. CASE l \in Queue!Waiting /\ job' = [job EXCEPT ![w] = NoOne]
      BY <1>1, <3>1 DEF CounterType
    <3>2. CASE (wpc[w] \in Queue!Waiting <=> l \in Queue!Waiting) /\ UNCHANGED job
      BY <1>1, <3>2 DEF CounterType
    <3>3. CASE wpc[w] = "pop" /\ queue # <<>> /\ job' = [job EXCEPT ![w] = Head(queue)]
      <4>1. Head(queue) \in Jobs
        BY <2>1, <3>3
      <4>2. QED  BY <1>1, <3>3, <4>1 DEF CounterType
    <3>4. QED  BY <3>1, <3>2, <3>3 DEF WorkerDoes
  <2>3. stock' \in Int /\ resent' \in [Commands -> 0 .. MaxResends]
    <3>1. CASE UNCHANGED <<stock, resent>>
      BY <3>1 DEF CounterType
    <3>2. CASE /\ \E again \in {0, 1} : Ran("INCR", again) /\ stock' = stock + 1 + again
               /\ resent' \in [Commands -> 0 .. MaxResends]
      BY <3>2 DEF CounterType
    <3>3. QED  BY <3>1, <3>2 DEF WorkerDoes
  <2>4. \A r \in Requests : pc'[r] = "undo" => strategy'[r] \in {"redis", "redis-lua"}
    BY <1>1 DEF CounterType
  <2>5. stranded' \in Nat
    BY DEF CounterType
  <2>6. Queue!WorkerLabels' = Queue!WorkerLabels
    BY DEF Queue!WorkerLabels
  <2>7. QED  BY <1>1, <2>0, <2>1, <2>2, <2>3, <2>4, <2>5, <2>6 DEF CounterType, Commands, Queue!Waiting
<1>7. Elsewhere
  <2>1. CouponsOf(OnDatabase)' = CouponsOf(OnDatabase)
    BY <1>2, <1>3 DEF CouponsOf, OnDatabase
  <2>2. QED  BY <1>1, <1>4, <2>1 DEF Elsewhere
<1>8. QED  BY <1>5, <1>6, <1>7

(* A worker keeps the ledger: a job that leaves the queue is at work or    *)
(* lost, and work ends in a coupon, in an INCR or in a loss.               *)
LEMMA WorkerKeepsLedger ==
  ASSUME CoreType, CoreType', CounterType, CounterType', CounterBounded, CounterFloor,
         NEW w \in Workers, NEW l, WorkerDoes(w, l),
         UNCHANGED <<strategy, seen, stranded>>
  PROVE  CounterBounded' /\ CounterFloor'
<1> DEFINE d == resent["DECR"]
           d1 == resent'["DECR"]
           i == resent["INCR"]
           i1 == resent'["INCR"]
           p == resent["LPUSH"]
           p1 == resent'["LPUSH"]
           q == Len(queue)
           q1 == Len(queue')
           h == Hand(pc)
           o == Owed(pc)
           u == Pushing(pc)
           k == AtWork(wpc)
           k1 == AtWork(wpc')
           m == Minted
           m1 == Minted'
           s1 == stock'
           n == InitialStock
           t == stranded
<1>1. /\ d \in Nat /\ d1 \in Nat /\ i \in Nat /\ i1 \in Nat /\ p \in Nat /\ p1 \in Nat
      /\ q \in Nat /\ q1 \in Nat /\ h \in Nat /\ o \in Nat /\ u \in Nat
      /\ k \in Nat /\ k1 \in Nat /\ m \in Nat /\ m1 \in Nat
      /\ stock \in Int /\ s1 \in Int /\ n \in Nat /\ t \in Nat
  BY LedgerNumbers, LedgerNext
<1>2. /\ stock + d + t + q + h + u + k + m <= n + i + p
      /\ stock + o + d + t >= 0
  BY LedgerMeaning DEF LedgerNow, CounterFloor
<1>3. CounterBounded' /\ CounterFloor' <=>
        /\ s1 + d1 + t + q1 + h + u + k1 + m1 <= n + i1 + p1
        /\ s1 + o + d1 + t >= 0
  <2>1. UNCHANGED <<stranded, pc, InitialStock>>
    BY DEF WorkerDoes, InitialStock
  <2>2. QED  BY <2>1, LedgerNext
<1>4. LET busy == {"create", "giveBack"}
      IN  /\ wpc[w] \notin busy /\ l \in busy => k1 = k + 1
          /\ wpc[w] \in busy /\ l \notin busy => k1 = k - 1
          /\ (wpc[w] \in busy <=> l \in busy) => k1 = k
  BY AtWorkMoves DEF WorkerDoes
<1>5. CASE /\ wpc[w] = "pop" /\ l \in {"create"} \cup Queue!Waiting
           /\ queue # <<>> /\ queue' = Tail(queue)
           /\ UNCHANGED <<stock, resent, coupons, issuedCount>>
  <2>1. q1 = q - 1
    BY <1>5, HeadTailProperties, LenProperties DEF CounterType
  <2>2. d1 = d /\ i1 = i /\ p1 = p /\ s1 = stock
    BY <1>5
  <2>3. m1 = m
    BY <1>5 DEF Minted, CouponsOf
  <2>4. k1 <= k + 1
    BY <1>1, <1>4, <1>5 DEF Queue!Waiting
  <2> HIDE DEF d, d1, i, i1, p, p1, q, q1, h, o, u, k, k1, m, m1, s1, n, t
  <2>5. QED  BY <1>1, <1>2, <1>3, <2>1, <2>2, <2>3, <2>4
<1>6. CASE /\ wpc[w] = "create" /\ l \in {"count"} \cup Queue!Waiting
           /\ job[w] \notin coupons /\ coupons' = coupons \cup {job[w]}
           /\ UNCHANGED <<stock, resent, queue, issuedCount>>
  <2>1. d1 = d /\ i1 = i /\ p1 = p /\ s1 = stock /\ q1 = q
    BY <1>6
  <2>2. m1 = m + 1
    <3>1. job[w] \in Requests /\ strategy[job[w]] \in OnCounter
      BY <1>6 DEF CounterType, Jobs, OnCounter, Queue!Waiting
    <3>2. QED  BY <1>6, <3>1, MintedMoves
  <2>3. k1 = k - 1
    BY <1>4, <1>6 DEF Queue!Waiting
  <2> HIDE DEF d, d1, i, i1, p, p1, q, q1, h, o, u, k, k1, m, m1, s1, n, t
  <2>4. QED  BY <1>1, <1>2, <1>3, <2>1, <2>2, <2>3
<1>7. CASE /\ l \in {"giveBack"} \cup Queue!Waiting
           /\ l = "giveBack" => wpc[w] = "create"
           /\ UNCHANGED <<stock, resent, queue, coupons>>
  <2>1. d1 = d /\ i1 = i /\ p1 = p /\ s1 = stock /\ q1 = q
    BY <1>7
  <2>2. m1 = m
    BY <1>7 DEF Minted, CouponsOf
  <2>3. k1 <= k
    BY <1>1, <1>4, <1>7 DEF Queue!Waiting
  <2> HIDE DEF d, d1, i, i1, p, p1, q, q1, h, o, u, k, k1, m, m1, s1, n, t
  <2>4. QED  BY <1>1, <1>2, <1>3, <2>1, <2>2, <2>3
<1>8. CASE /\ wpc[w] = "giveBack" /\ l = "pop"
           /\ \E again \in {0, 1} : Ran("INCR", again) /\ stock' = stock + 1 + again
           /\ UNCHANGED <<queue, coupons, issuedCount>>
  <2>1. PICK again \in {0, 1} : Ran("INCR", again) /\ s1 = stock + 1 + again
    BY <1>8
  <2>2. d1 = d /\ i1 = i + again /\ p1 = p /\ q1 = q
    BY <1>8, <2>1 DEF Ran, CounterType, Commands
  <2>3. m1 = m
    BY <1>8 DEF Minted, CouponsOf
  <2>4. k1 = k - 1
    BY <1>4, <1>8
  <2> HIDE DEF d, d1, i, i1, p, p1, q, q1, h, o, u, k, k1, m, m1, s1, n, t
  <2>5. QED  BY <1>1, <1>2, <1>3, <2>1, <2>2, <2>3, <2>4
<1>9. QED  BY <1>5, <1>6, <1>7, <1>8 DEF WorkerDoes

-----------------------------------------------------------------------------
(* The bounds, with what the steps need to keep them: what the counter     *)
(* owes, that no version is read before it was written, and how far the    *)
(* loop of optimistic has come at each of its control points.              *)

Attempts ==
  /\ origin \in {"none", "seed", "api"}
  /\ userKey \in [Requests -> Users]
  /\ attempt \in [Requests -> 0 .. MaxRetry]
  /\ \A r \in Requests :
       strategy[r] = "optimistic" /\ pc[r] \in {"start", "read", "cas"} => attempt[r] < MaxRetry

Inner ==
  /\ CoreType /\ CounterType /\ Attempts
  /\ SlotsBounded /\ LockProtects /\ SeenBefore
  /\ CounterBounded /\ CounterFloor

(* A request of another strategy than optimistic has no loop.              *)
LEMMA OthersKeepAttempts ==
  ASSUME Inner, NEW r \in Requests, strategy[r] # "optimistic", NEW l, Goto(r, l),
         UNCHANGED <<origin, strategy, attempt>>
  PROVE  Attempts'
BY DEF Inner, Attempts, CoreType, Goto

(* The loop ends before the attempts run over.                             *)
LEMMA OptimisticKeepsAttempts ==
  ASSUME Inner, NEW r \in Requests, strategy[r] = "optimistic", UNCHANGED strategy,
         Optimistic!Step(r)
  PROVE  Attempts' /\ seen' \in {seen, [seen EXCEPT ![r] = version]}
<1>0. /\ pc \in [Requests -> Labels \cup Outcomes \cup {"start"}]
      /\ attempt \in [Requests -> 0 .. MaxRetry] /\ attempt[r] \in Nat /\ MaxRetry \in Nat
      /\ pc[r] \in {"start", "read", "cas"} => attempt[r] < MaxRetry
  BY RouterAssumption DEF Inner, Attempts, CoreType
<1>1. SUFFICES
        /\ UNCHANGED <<origin, userKey>>
        /\ seen' \in {seen, [seen EXCEPT ![r] = version]}
        /\ attempt' \in [Requests -> 0 .. MaxRetry]
        /\ \A q \in Requests : q # r => pc'[q] = pc[q] /\ attempt'[q] = attempt[q]
        /\ pc'[r] \in {"start", "read", "cas"} => attempt'[r] < MaxRetry
  BY DEF Inner, Attempts
<1>2. CASE Optimistic!Read(r)
  <2>1. /\ pc[r] \in {"start", "read"} /\ UNCHANGED <<origin, userKey, attempt>>
        /\ seen' = [seen EXCEPT ![r] = version]
        /\ \E l : pc' = [pc EXCEPT ![r] = l]
    BY <1>2 DEF Optimistic!Read, Optimistic!Resolve, Optimistic!Goto, Optimistic!dbVars
  <2>2. QED  BY <1>0, <2>1
<1>3. CASE Optimistic!Retry(r)
  <2> DEFINE next == IF attempt'[r] < MaxRetry THEN "read" ELSE "RETRY_EXHAUSTED"
  <2>1. /\ pc[r] = "cas" /\ UNCHANGED <<origin, userKey, seen>>
        /\ attempt' = [attempt EXCEPT ![r] = @ + 1]
        /\ pc' = [pc EXCEPT ![r] = next]
    BY <1>3 DEF Optimistic!Retry, Optimistic!Resolve, Optimistic!Goto, Optimistic!dbVars
  <2>2. attempt'[r] = attempt[r] + 1 /\ attempt'[r] \in 0 .. MaxRetry
    BY <1>0, <2>1
  <2>3. pc'[r] = next /\ \A q \in Requests : q # r => pc'[q] = pc[q] /\ attempt'[q] = attempt[q]
    BY <1>0, <2>1
  <2>4. attempt' \in [Requests -> 0 .. MaxRetry]
    BY <1>0, <2>1, <2>2
  <2>5. pc'[r] \in {"start", "read", "cas"} => attempt'[r] < MaxRetry
    BY <2>3
  <2>6. QED  BY <2>1, <2>3, <2>4, <2>5
<1>4. CASE \/ Optimistic!Swap(r) \/ Optimistic!Create(r) \/ Optimistic!Rollback(r)
           \/ Optimistic!Reject(r, Optimistic!Catches) /\ UNCHANGED Optimistic!loopVars
  <2>1. UNCHANGED <<origin, userKey, seen, attempt>>
    BY <1>4 DEF Optimistic!Swap, Optimistic!Create, Optimistic!Rollback, Optimistic!Reject,
                Optimistic!InsertCoupon, Optimistic!AddIssued, Optimistic!dbVars,
                Optimistic!loopVars, Optimistic!Settle, Optimistic!Resolve,
                Optimistic!LoseAck, Optimistic!Goto
  <2>2. \E l : pc' = [pc EXCEPT ![r] = l] /\ l \notin {"start", "read", "cas"}
    <3>1. CASE Optimistic!Swap(r) \/ Optimistic!Create(r)
      BY <3>1 DEF Optimistic!Swap, Optimistic!Create, Optimistic!Settle,
                  Optimistic!Resolve, Optimistic!LoseAck, Optimistic!Goto
    <3>2. CASE Optimistic!Rollback(r)
      <4> DEFINE told == IF pc[r] = "rollbackDup" THEN "ALREADY_ISSUED" ELSE "ERROR"
      <4>1. pc' = [pc EXCEPT ![r] = told] \/ pc' = [pc EXCEPT ![r] = "ERROR"]
        BY <3>2 DEF Optimistic!Rollback, Optimistic!Settle, Optimistic!Resolve,
                    Optimistic!LoseAck, Optimistic!Goto
      <4>2. told \in {"ALREADY_ISSUED", "ERROR"}
        OBVIOUS
      <4> HIDE DEF told
      <4>3. QED  BY <4>1, <4>2
    <3>3. CASE Optimistic!Reject(r, Optimistic!Catches)
      <4>1. Optimistic!Catches[pc[r]] \in {"ERROR", "rollbackError"}
        BY <3>3 DEF Optimistic!Reject, Optimistic!Catches
      <4>2. pc' = [pc EXCEPT ![r] = Optimistic!Catches[pc[r]]]
        BY <3>3 DEF Optimistic!Reject, Optimistic!Goto
      <4> HIDE DEF Optimistic!Catches
      <4>3. QED  BY <4>1, <4>2
    <3>4. QED  BY <1>4, <3>1, <3>2, <3>3
  <2>3. QED  BY <1>0, <2>1, <2>2
<1>5. QED
  BY <1>2, <1>3, <1>4 DEF Optimistic!Step

-----------------------------------------------------------------------------
(* Every step keeps the invariant.                                         *)

(* A database strategy leaves Redis, the queue and the workers alone.      *)
LEMMA DatabaseKeeps ==
  ASSUME Inner, NEW r \in Requests, strategy[r] \in OnDatabase,
         NEW l, DatabaseStep(r, l),
         pc[r] = "start" => Number(pc, Strategies, Labels) < VUs,
         seen' \in {seen, [seen EXCEPT ![r] = version]},
         UNCHANGED <<stockVars, stranded, workerVars>>, Attempts'
  PROVE  Inner'
<1>0. /\ CoreType /\ CounterType /\ SlotsBounded /\ LockProtects /\ SeenBefore
      /\ CounterBounded /\ CounterFloor
  BY DEF Inner
<1>1. /\ Goto(r, l) /\ l # "undo" /\ UNCHANGED <<origin, strategy>>
      /\ UNCHANGED <<stock, resent, stranded, queue, wpc, job, lostJobs>>
  BY DEF DatabaseStep, stockVars, workerVars
<1>2. rowLock' \in Requests \cup {NoOne}
  BY <1>0 DEF DatabaseStep, LockStep, LockProtects, CoreType
<1>3. CoreType' /\ SeenBefore'
  BY <1>0, <1>2, CoreKept
<1>4. SlotsBounded' /\ LockProtects'
  BY <1>0, <1>3, BooksKept, LockKept
<1>5. CounterType'
  <2>1. \A q \in Requests : pc'[q] = "undo" => strategy'[q] \in {"redis", "redis-lua"}
    BY <1>0, <1>1 DEF Goto, CoreType, CounterType
  <2>2. Jobs' = Jobs /\ Queue!WorkerLabels' = Queue!WorkerLabels
    BY <1>1 DEF Jobs, Queue!WorkerLabels
  <2>3. QED  BY <1>0, <1>1, <2>1, <2>2 DEF CounterType, Commands
<1>6. CounterBounded' /\ CounterFloor'
  <2>1. strategy[r] \notin OnOwn /\ strategy[r] \notin {"redis-queue"} /\ strategy[r] \notin OnCounter
    BY DEF OnDatabase, OnOwn, OnCounter
  <2>2. Hand(pc') = Hand(pc) /\ Owed(pc') = Owed(pc) /\ Pushing(pc') = Pushing(pc)
    BY <1>0, <1>1, <2>1, NumberMoves DEF Hand, Owed, Pushing
  <2>3. Minted' = Minted
    <3>1. coupons' = coupons \/ coupons' = coupons \cup {r}
      BY DEF DatabaseStep, Walks, Takes, Inserts, Returns, Commits
    <3>2. CouponsOf(OnCounter)' = CouponsOf(OnCounter)
      BY <1>1, <2>1, <3>1 DEF CouponsOf
    <3>3. QED  BY <3>2 DEF Minted
  <2>4. InitialStock' = InitialStock
    BY <1>1 DEF InitialStock
  <2>5. LedgerNow /\ CounterFloor
    BY <1>0, LedgerMeaning
  <2>6. QED
    BY <1>1, <1>3, <1>5, <2>2, <2>3, <2>4, <2>5, LedgerNext DEF LedgerNow, CounterFloor
<1>7. QED  BY <1>3, <1>4, <1>5, <1>6 DEF Inner

(* A redis strategy leaves the loop and the workers alone.                 *)
LEMMA CounterKeeps ==
  ASSUME Inner, NEW r \in Requests, strategy[r] \in OnCounter,
         NEW l, CounterStep(r, l),
         pc[r] = "start" => Number(pc, Strategies, Labels) < VUs,
         UNCHANGED <<strategy, stranded, wpc, job, lostJobs, loopVars>>
  PROVE  Inner'
<1>0. /\ CoreType /\ CounterType /\ SlotsBounded /\ LockProtects /\ SeenBefore
      /\ CounterBounded /\ CounterFloor
      /\ UNCHANGED <<strategy, stranded, wpc, job, lostJobs, seen, attempt>>
  BY DEF Inner, loopVars
<1>1. CoreType' /\ CounterType' /\ Elsewhere
  BY <1>0, CounterStepKeeps
<1>2. SlotsBounded' /\ LockProtects' /\ SeenBefore'
  BY <1>0, <1>1, ElsewhereKept
<1>3. CounterBounded' /\ CounterFloor'
  BY <1>0, <1>1, LedgerKept
<1>4. Attempts'
  <2>1. strategy[r] # "optimistic" /\ Goto(r, l) /\ UNCHANGED origin
    BY DEF OnCounter, CounterStep
  <2>2. QED  BY <1>0, <2>1, OthersKeepAttempts
<1>5. QED  BY <1>1, <1>2, <1>3, <1>4 DEF Inner

LEMMA IterationKeeps ==
  ASSUME Inner, NEW r \in Requests, Iteration(r)
  PROVE  Inner'
<1>0. CoreType /\ CounterType /\ UNCHANGED strategy /\ Issue(r)
  BY DEF Inner, Iteration, Issue
<1>1. pc[r] = "start" => Number(pc, Strategies, Labels) < VUs
  <2>1. {s \in Requests : InFlight(s)}
          = {s \in Requests : strategy[s] \in Strategies /\ pc[s] \in Labels}
    BY <1>0, LabelsApart DEF InFlight, Ended, CoreType
  <2>2. QED  BY <2>1 DEF Iteration, Number
<1>2. CASE /\ \/ strategy[r] = "naive" /\ Naive!Step(r)
              \/ strategy[r] = "atomic" /\ Atomic!Step(r)
              \/ strategy[r] = "pessimistic" /\ Pessimistic!Step(r)
           /\ UNCHANGED <<stockVars, stranded, loopVars, workerVars>>
  <2>1. strategy[r] \in OnDatabase /\ strategy[r] # "optimistic"
    BY <1>2 DEF OnDatabase
  <2>2. PICK l : DatabaseStep(r, l)
    BY <1>0, <1>2, NaiveSteps, AtomicSteps, PessimisticSteps
  <2>3. UNCHANGED <<seen, attempt>> /\ UNCHANGED <<stockVars, stranded, workerVars>>
    BY <1>2 DEF loopVars
  <2>4. Attempts'
    BY <1>0, <2>1, <2>2, <2>3, OthersKeepAttempts DEF DatabaseStep
  <2>5. QED  BY <1>1, <2>1, <2>2, <2>3, <2>4, DatabaseKeeps
<1>3. CASE strategy[r] = "optimistic" /\ Optimistic!Step(r)
           /\ UNCHANGED <<stockVars, stranded, workerVars>>
  <2>1. strategy[r] \in OnDatabase
    BY <1>3 DEF OnDatabase
  <2>2. PICK l : DatabaseStep(r, l)
    BY <1>0, <1>3, OptimisticSteps
  <2>3. Attempts' /\ seen' \in {seen, [seen EXCEPT ![r] = version]}
    BY <1>0, <1>3, OptimisticKeepsAttempts
  <2>4. QED  BY <1>1, <1>3, <2>1, <2>2, <2>3, DatabaseKeeps
<1>4. CASE /\ \/ strategy[r] = "redis" /\ Redis!Step(r)
              \/ strategy[r] = "redis-lua" /\ RedisLua!Step(r)
           /\ UNCHANGED <<loopVars, workerVars>>
  <2>1. strategy[r] \in OnOwn /\ strategy[r] \in OnCounter
    BY <1>4 DEF OnOwn, OnCounter
  <2>2. UNCHANGED <<queue, wpc, job, lostJobs>>
    BY <1>4 DEF workerVars
  <2>3. Redis!Step(r) \/ RedisLua!Lookup(r)
    BY <1>4, SameSteps
  <2>4. UNCHANGED stranded
    BY <2>3 DEF Redis!Step, Redis!Lookup, RedisLua!Lookup, Redis!TakeByDecr,
                Redis!TakeByScript, Redis!Create, Redis!Count, Redis!GiveBack,
                Redis!redisVars, RedisLua!redisVars
  <2>5. PICK l : CounterStep(r, l)
    BY <1>0, <2>1, <2>2, <2>3, RedisSteps
  <2>6. QED  BY <1>0, <1>1, <1>4, <2>1, <2>2, <2>4, <2>5, CounterKeeps
<1>5. CASE /\ strategy[r] = "redis-queue"
           /\ \/ Queue!RequestStep(r)
              \/ Reject(r, Queue!Catches) /\ UNCHANGED <<stockVars, workerVars>>
           /\ UNCHANGED <<stranded, loopVars>>
  <2>1. strategy[r] \in OnCounter
    BY <1>5 DEF OnCounter
  <2>2. (\E l : CounterStep(r, l)) /\ UNCHANGED <<wpc, job, lostJobs>>
    BY <1>0, <1>5, QueueSteps
  <2>3. QED  BY <1>0, <1>1, <1>5, <2>1, <2>2, CounterKeeps
<1>6. QED  BY <1>0, <1>2, <1>3, <1>4, <1>5 DEF Issue

LEMMA WorkKeeps ==
  ASSUME Inner, NEW w \in Workers, Work(w)
  PROVE  Inner'
<1>0. /\ CoreType /\ CounterType /\ SlotsBounded /\ LockProtects /\ SeenBefore
      /\ CounterBounded /\ CounterFloor
      /\ UNCHANGED <<strategy, stranded, seen, attempt>>
  BY DEF Inner, Work, loopVars
<1>1. PICK l : WorkerDoes(w, l)
  BY <1>0, WorkerSteps DEF Work
<1>2. CoreType' /\ CounterType' /\ Elsewhere
  BY <1>0, <1>1, WorkerKeepsTypes
<1>3. SlotsBounded' /\ LockProtects' /\ SeenBefore'
  BY <1>0, <1>2, ElsewhereKept
<1>4. CounterBounded' /\ CounterFloor'
  BY <1>0, <1>1, <1>2, WorkerKeepsLedger
<1>5. Attempts'
  BY <1>0, <1>1 DEF Inner, Attempts, WorkerDoes
<1>6. QED  BY <1>2, <1>3, <1>4, <1>5 DEF Inner

(* A crash empties the control points; what was owed to the counter is     *)
(* stranded.                                                               *)
LEMMA CrashKeeps ==
  ASSUME Inner, Redis!Crash, UNCHANGED <<strategy, loopVars, workerVars>>
  PROVE  Inner'
<1>0. /\ CoreType /\ CounterType /\ SlotsBounded /\ LockProtects /\ SeenBefore
      /\ CounterBounded /\ CounterFloor
      /\ UNCHANGED <<strategy, seen, attempt, queue, wpc, job, lostJobs>>
  BY DEF Inner, loopVars, workerVars
<1>1. /\ pc' = [r \in Requests |-> IF InFlight(r) THEN "DEAD" ELSE pc[r]]
      /\ rowLock' = NoOne
      /\ UNCHANGED <<origin, issuedCount, version, coupons, userKey, rejects, lostAcks>>
      /\ stranded' = stranded + Cardinality(At({"undo"}))
      /\ UNCHANGED <<stock, resent>>
  <2>1. /\ pc' = [r \in Requests |-> IF InFlight(r) THEN "DEAD" ELSE pc[r]]
        /\ rowLock' = NoOne
        /\ UNCHANGED <<origin, issuedCount, version, coupons, userKey, rejects, lostAcks>>
    BY DEF Redis!Crash, Redis!ServerStops, Redis!InFlight, Redis!Ended, Redis!Outcomes,
           Redis!Answers, InFlight, Ended, Outcomes, Answers
  <2>2. Redis!At({"undo"}) = At({"undo"})
    BY DEF Redis!At, Redis!Where, At, Where
  <2>3. stranded' = stranded + Cardinality(At({"undo"})) /\ UNCHANGED <<stock, resent>>
    <3>1. Redis!Cardinality(At({"undo"})) = Cardinality(At({"undo"}))
      BY DEF Redis!Cardinality, Cardinality
    <3>2. QED  BY <2>2, <3>1 DEF Redis!Crash, Redis!stockVars
  <2>4. QED  BY <2>1, <2>3
<1>2. \A r \in Requests : pc'[r] \in Outcomes \cup {"start"} /\ (pc'[r] = pc[r] \/ pc'[r] = "DEAD")
  BY <1>0, <1>1 DEF InFlight, Ended, Outcomes, CoreType
<1>3. \A r \in Requests : pc'[r] \notin Labels
  BY <1>2, LabelsApart
<1>4. ASSUME NEW S, NEW labels, labels \subseteq Labels
      PROVE  Number(pc', S, labels) = 0
  BY <1>3, <1>4, NumberNat
<1>5. At({"undo"}) = {r \in Requests : strategy[r] \in OnOwn /\ pc[r] \in {"undo"}}
  BY <1>0 DEF At, Where, OnOwn, CounterType
<1>6. stranded' = stranded + Owed(pc) /\ Owed(pc) \in Nat
  <2>1. Cardinality(At({"undo"})) = Owed(pc)
    BY <1>5 DEF Owed, Number
  <2>2. Owed(pc) \in Nat
    BY NumberNat DEF Owed
  <2>3. QED  BY <1>1, <2>1, <2>2
<1>7. CoreType'
  <2>1. pc' \in [Requests -> Labels \cup Outcomes \cup {"start"}]
    BY <1>1, <1>2
  <2>2. QED  BY <1>0, <1>1, <2>1 DEF CoreType, Labels
<1>8. CounterType'
  <2>1. \A r \in Requests : pc'[r] # "undo"
    BY <1>3, LabelsApart
  <2>2. Jobs' = Jobs /\ Queue!WorkerLabels' = Queue!WorkerLabels
    BY <1>0 DEF Jobs, Queue!WorkerLabels
  <2>3. stranded' \in Nat
    BY <1>0, <1>6 DEF CounterType
  <2>4. QED  BY <1>0, <1>1, <2>1, <2>2, <2>3 DEF CounterType, Commands
<1>9. SlotsBounded'
  <2> DEFINE h == Number(pc, Holders, HeldLabels)
             s == Number(pc, {"naive"}, {"increment"})
             b == Chance
             k == Sold
             e == Excess
  <2>1. /\ Number(pc', Strategies, Labels) = 0 /\ Number(pc', Holders, HeldLabels) = 0
        /\ Number(pc', {"naive"}, {"increment"}) = 0
    BY <1>4, LabelsApart DEF OnTheWay
  <2>2. Chance' = 0
    BY <1>3, LabelsApart DEF Chance, Swappable, AtOf, At, Where
  <2>3. Sold' = Sold
    BY <1>0, <1>1 DEF Sold, CouponsOf
  <2>4. /\ h \in Nat /\ s \in Nat /\ b \in {0, 1} /\ k \in Nat /\ e \in Nat
        /\ VUs \in Nat /\ TotalStock \in Nat /\ issuedCount \in Int /\ lostAcks \in Nat
    BY <1>0, NumberNat, SlotsMeaning, RouterAssumption, StockAssumption DEF Chance, CoreType
  <2>5. k + h - lostAcks <= issuedCount /\ k + h - lostAcks + s + b <= TotalStock + e
    BY <1>0, SlotsMeaning DEF BooksNow, Books
  <2>6. SlotsBounded' <=> 0 <= VUs /\ k + 0 - lostAcks <= issuedCount
                            /\ k + 0 - lostAcks + 0 + 0 <= TotalStock + e
    BY <1>0, <1>1, <1>7, <2>1, <2>2, <2>3, SlotsMeaningNext DEF Books
  <2> HIDE DEF h, s, b, k, e
  <2>7. QED  BY <2>4, <2>5, <2>6
<1>10. LockProtects'
  BY <1>1, <1>3, RequestsAssumption DEF LockProtects, Labels, Pessimistic!Labels
<1>11. SeenBefore'
  BY <1>0, <1>1 DEF SeenBefore
<1>12. CounterBounded' /\ CounterFloor'
  <2> DEFINE d == resent["DECR"]
             i == resent["INCR"]
             p == resent["LPUSH"]
             q == Len(queue)
             h == Hand(pc)
             o == Owed(pc)
             u == Pushing(pc)
             k == AtWork(wpc)
             m == Minted
             n == InitialStock
             t1 == stranded'
  <2>1. Hand(pc') = 0 /\ Owed(pc') = 0 /\ Pushing(pc') = 0
    BY <1>4, LabelsApart DEF Hand, Owed, Pushing, HeldLabels
  <2>2. UNCHANGED <<Minted, InitialStock>>
    BY <1>0, <1>1 DEF Minted, CouponsOf, InitialStock
  <2>3. /\ d \in Nat /\ i \in Nat /\ p \in Nat /\ q \in Nat /\ h \in Nat /\ o \in Nat
        /\ u \in Nat /\ k \in Nat /\ m \in Nat /\ n \in Nat /\ stranded \in Nat /\ stock \in Int
        /\ o <= h
    BY <1>0, LedgerNumbers
  <2>4. /\ stock + d + stranded + q + h + u + k + m <= n + i + p
        /\ stock + o + d + stranded >= 0
    BY <1>0, LedgerMeaning DEF LedgerNow, CounterFloor
  <2>5. CounterBounded' /\ CounterFloor' <=>
          /\ stock + d + t1 + q + 0 + 0 + k + m <= n + i + p
          /\ stock + 0 + d + t1 >= 0
    BY <1>0, <1>1, <1>7, <1>8, <2>1, <2>2, LedgerNext
  <2>6. t1 = stranded + o
    BY <1>6
  <2> HIDE DEF d, i, p, q, h, o, u, k, m, n, t1
  <2>7. QED  BY <2>3, <2>4, <2>5, <2>6
<1>13. Attempts'
  BY <1>0, <1>1, <1>2 DEF Inner, Attempts, Outcomes, Answers
<1>14. QED  BY <1>7, <1>8, <1>9, <1>10, <1>11, <1>12, <1>13 DEF Inner

(* Nothing depends on who made the campaign but what the counter starts at.*)
LEMMA NothingMoves ==
  ASSUME Inner,
         UNCHANGED <<issuedCount, version, coupons, rowLock, requestVars, stockVars,
                     strategy, stranded, loopVars, workerVars>>,
         origin' = origin \/ (origin = "none" /\ origin' = "api")
  PROVE  Inner'
<1>0. UNCHANGED <<issuedCount, version, coupons, rowLock, userKey, pc, rejects, lostAcks,
                  stock, resent, strategy, stranded, seen, attempt, queue, wpc, job, lostJobs>>
  BY DEF requestVars, stockVars, loopVars, workerVars
<1>1. UNCHANGED InitialStock /\ origin' \in {"none", "seed", "api"}
  BY DEF InitialStock, Inner, Attempts
<1>2. CoreType' /\ Attempts' /\ SeenBefore'
  BY <1>0, <1>1 DEF Inner, CoreType, Attempts, SeenBefore, Labels
<1>3. CounterType'
  BY <1>0 DEF Inner, CounterType, Jobs, Commands, Queue!WorkerLabels
<1>4. SlotsBounded'
  BY <1>0 DEF Inner, SlotsBounded, InFlight, Ended, Slots, CouponsOf, Held, AtOf, At, Where,
              Stale, Swappable, Excess, Used
<1>5. LockProtects'
  BY <1>0 DEF Inner, LockProtects, Pessimistic!Locked
<1>6. CounterBounded' /\ CounterFloor'
  BY <1>0, <1>1 DEF Inner, CounterBounded, CounterFloor, Owed, Number, AtOf, At, Where, CouponsOf
<1>7. QED  BY <1>2, <1>3, <1>4, <1>5, <1>6 DEF Inner

LEMMA StepKeeps == Inner /\ [Next]_vars => Inner'
<1> SUFFICES ASSUME Inner, [Next]_vars PROVE Inner'
  OBVIOUS
<1>1. CASE CreateCampaign /\ UNCHANGED <<stockVars, strategy, stranded, loopVars, workerVars>>
  BY <1>1, NothingMoves DEF CreateCampaign
<1>2. CASE Redis!Crash /\ UNCHANGED <<strategy, loopVars, workerVars>>
  BY <1>2, CrashKeeps
<1>3. CASE \E r \in Requests : Iteration(r)
  BY <1>3, IterationKeeps
<1>4. CASE \E w \in Workers : Work(w)
  BY <1>4, WorkKeeps
<1>5. CASE Queue!Finished /\ UNCHANGED <<strategy, stranded, loopVars>>
  <2>1. UNCHANGED <<couponDbVars, stockVars, workerVars>>
    BY <1>5 DEF Queue!Finished, Queue!AllEnded, Queue!couponDbVars, Queue!dbVars,
                Queue!requestVars, Queue!stockVars, Queue!workerVars,
                couponDbVars, dbVars, requestVars, stockVars, workerVars
  <2>2. QED  BY <1>5, <2>1, NothingMoves DEF couponDbVars, dbVars
<1>6. CASE UNCHANGED vars
  BY <1>6, NothingMoves DEF vars, couponDbVars, dbVars
<1>7. QED  BY <1>1, <1>2, <1>3, <1>4, <1>5, <1>6 DEF Next

LEMMA InitKeeps == Init => Inner
<1> SUFFICES ASSUME Init PROVE Inner
  OBVIOUS
<1>0. /\ origin \in {"none", "seed"} /\ issuedCount = 0 /\ version = 0 /\ coupons = {}
      /\ rowLock = NoOne /\ userKey \in [Requests -> Users]
      /\ pc = [r \in Requests |-> "start"] /\ rejects = 0 /\ lostAcks = 0
      /\ stock = InitialStock /\ resent = [c \in Commands |-> 0]
      /\ queue = <<>> /\ wpc = [w \in Workers |-> "pop"]
      /\ job = [w \in Workers |-> NoOne] /\ lostJobs = 0
      /\ strategy \in [Requests -> Strategies]
      /\ seen = [r \in Requests |-> 0] /\ attempt = [r \in Requests |-> 0] /\ stranded = 0
  BY DEF Init, Queue!Init, Queue!DbInit, Queue!StockInit, Queue!InitialStock, InitialStock,
         Queue!Commands, Commands
<1>1. CoreType
  BY <1>0, FaultAssumption DEF CoreType
<1>2. CounterType
  <2>1. stock \in Int /\ queue \in Seq(Jobs)
    BY <1>0, StockAssumption DEF InitialStock
  <2>2. QED
    BY <1>0, <2>1, ResendAssumption, RouterAssumption DEF CounterType, Queue!WorkerLabels, Queue!Waiting
<1>3. Attempts
  BY <1>0, RouterAssumption DEF Attempts
<1>4. \A r \in Requests : pc[r] \notin Labels
  BY <1>0, LabelsApart
<1>5. ASSUME NEW S, NEW labels, labels \subseteq Labels
      PROVE  Number(pc, S, labels) = 0
  BY <1>4, <1>5, NumberNat
<1>6. SlotsBounded
  <2>1. /\ Number(pc, Strategies, Labels) = 0 /\ Number(pc, Holders, HeldLabels) = 0
        /\ Number(pc, {"naive"}, {"increment"}) = 0
    BY <1>5, LabelsApart DEF OnTheWay
  <2>2. Chance = 0
    BY <1>4, LabelsApart DEF Chance, Swappable, AtOf, At, Where
  <2>3. Sold = 0
    BY <1>0, FS_EmptySet DEF Sold, CouponsOf
  <2>4. Excess \in Nat /\ TotalStock \in Nat /\ VUs \in Nat
    BY <1>1, SlotsMeaning, StockAssumption, RouterAssumption
  <2>5. BooksNow
    <3> HIDE DEF Excess, Chance, Sold
    <3>1. QED  BY <1>0, <2>1, <2>2, <2>3, <2>4 DEF BooksNow, Books
  <2>6. QED  BY <1>1, <2>5, SlotsMeaning
<1>7. LockProtects
  BY <1>0, <1>4, RequestsAssumption DEF LockProtects, Labels, Pessimistic!Labels
<1>8. SeenBefore
  BY <1>0 DEF SeenBefore
<1>9. CounterBounded /\ CounterFloor
  <2>1. Hand(pc) = 0 /\ Owed(pc) = 0 /\ Pushing(pc) = 0
    BY <1>5, LabelsApart DEF Hand, Owed, Pushing, HeldLabels
  <2>2. AtWork(wpc) = 0
    <3>1. {w \in Workers : wpc[w] \in {"create", "giveBack"}} = {}
      BY <1>0
    <3>2. QED  BY <3>1, FS_EmptySet DEF AtWork
  <2>3. Minted = 0
    BY <1>0, FS_EmptySet DEF Minted, CouponsOf
  <2>4. /\ Len(queue) = 0 /\ resent["DECR"] = 0 /\ resent["INCR"] = 0 /\ resent["LPUSH"] = 0
    BY <1>0 DEF Commands
  <2>5. InitialStock \in Nat
    BY StockAssumption DEF InitialStock
  <2>6. LedgerNow /\ CounterFloor
    BY <1>0, <2>1, <2>2, <2>3, <2>4, <2>5 DEF LedgerNow, CounterFloor
  <2>7. QED  BY <2>6, LedgerMeaning
<1>10. QED  BY <1>1, <1>2, <1>3, <1>6, <1>7, <1>8, <1>9 DEF Inner

-----------------------------------------------------------------------------
(* What a step tells of the coupon table, and what it leaves exact as long *)
(* as nothing fails.                                                       *)

Works == rejects' = rejects /\ lostAcks' = lostAcks
Fails ==
  \/ rejects' = rejects + 1 /\ lostAcks' = lostAcks
  \/ rejects' = rejects /\ lostAcks' = lostAcks + 1
Served == {"ISSUED", "QUEUED", "count"}
Adds(r) == r \notin coupons /\ coupons' = coupons \cup {r}

(* What ControlAgrees says of one request.                                 *)
Claims(r) ==
  /\ pc[r] \in Unserved => r \notin coupons
  /\ pc[r] \in {"ISSUED", "count"} => r \in coupons
  /\ pc[r] \in Repeat \/ (pc[r] = "ALREADY_ISSUED" /\ strategy[r] # "naive")
       => r \notin coupons /\ Duplicate(r)

(* What it claims after the step is true; only a naive request can take    *)
(* itself for a repeat wrongly, and when nothing failed in this step, it   *)
(* did so before.                                                          *)
Tells(r, l) ==
  /\ Goto(r, l) /\ pc[r] \notin Outcomes
  /\ Works \/ Fails
  /\ coupons' = coupons \/ Adds(r)
  /\ l \in Unserved => r \notin coupons'
  /\ l \in {"ISSUED", "count"} => r \in coupons'
  /\ l \in Repeat \/ (l = "ALREADY_ISSUED" /\ strategy[r] # "naive")
       => r \notin coupons' /\ Duplicate(r)
  /\ Works /\ strategy[r] = "naive" /\ l \in {"rollback", "ALREADY_ISSUED"}
       => \/ r \notin coupons' /\ Duplicate(r)
          \/ pc[r] = "rollback" /\ coupons' = coupons
  /\ Works /\ r \in coupons'
       => l \in Served \/ (r \in coupons /\ pc[r] \notin Served)

(* A unit of issuedCount stays where it is or moves with the request.      *)
Exact(r, l) ==
  Works =>
    \/ /\ UNCHANGED <<issuedCount, coupons>>
       /\ strategy[r] \in Holders => (pc[r] \in HeldLabels <=> l \in HeldLabels)
       /\ strategy[r] \in OnOwn => (pc[r] = "count" <=> l = "count")
    \/ /\ strategy[r] \in Holders /\ pc[r] \notin HeldLabels /\ l \in HeldLabels
       /\ issuedCount' = issuedCount + 1 /\ UNCHANGED coupons
    \/ /\ strategy[r] \in Holders /\ pc[r] \in HeldLabels /\ l \notin HeldLabels
       /\ \/ UNCHANGED issuedCount /\ Adds(r)
          \/ issuedCount' = issuedCount - 1 /\ UNCHANGED coupons
    \/ strategy[r] = "pessimistic" /\ issuedCount' = issuedCount + 1 /\ Adds(r)
    \/ /\ strategy[r] \in OnOwn /\ pc[r] # "count" /\ l = "count"
       /\ UNCHANGED issuedCount /\ Adds(r)
    \/ /\ strategy[r] \in OnOwn /\ pc[r] = "count" /\ l # "count"
       /\ issuedCount' = issuedCount + 1 /\ UNCHANGED coupons

(* The naive strategy.                                                     *)
LEMMA NaiveTells ==
  ASSUME CoreType, NEW r \in Requests, strategy[r] = "naive", Claims(r), Naive!Step(r)
  PROVE  \E l : Tells(r, l) /\ Exact(r, l)
<1> USE DEF Naive!Settle, Naive!Resolve, Naive!LoseAck, Naive!Goto, Naive!dbVars, Goto
<1>0. strategy[r] \in Holders /\ strategy[r] \notin OnOwn
  BY DEF Holders, OnDatabase, OnOwn
<1>1. CASE Naive!Lookup(r)
  <2>1. PICK l \in {"NOT_FOUND", "SOLD_OUT", "increment"} :
          /\ pc[r] = "start" /\ Goto(r, l)
          /\ UNCHANGED <<rejects, lostAcks, coupons, issuedCount>>
    BY <1>1 DEF Naive!Lookup, Naive!FindCampaign
  <2>2. Tells(r, l) /\ Exact(r, l)
    BY <1>0, <2>1 DEF Tells, Exact, Claims, Works, Unserved, Repeat, Served, HeldLabels, Outcomes, Answers
  <2>3. QED  BY <2>2
<1>2. CASE Naive!Increment(r)
  <2>1. PICK l \in {"create", "ERROR"} :
          /\ pc[r] = "increment" /\ Goto(r, l) /\ rejects' = rejects
          /\ \/ l = "create" /\ lostAcks' = lostAcks
             \/ l = "ERROR" /\ lostAcks' = lostAcks + 1
          /\ issuedCount' = issuedCount + 1 /\ UNCHANGED coupons
    BY <1>2 DEF Naive!Increment, Naive!AddIssued
  <2>2. Tells(r, l)
    BY <2>1 DEF Tells, Claims, Works, Fails, Unserved, Repeat, Served, Outcomes, Answers
  <2>3. Exact(r, l)
    BY <1>0, <2>1 DEF Exact, Works, HeldLabels, CoreType
  <2>4. QED  BY <2>2, <2>3
<1>3. CASE Naive!Create(r)
  <2>1. pc[r] = "create" /\ rejects' = rejects /\ UNCHANGED issuedCount
    BY <1>3 DEF Naive!Create, Naive!InsertCoupon
  <2>2. CASE Naive!InsertCoupon(r) /\ Naive!Settle(r, "ISSUED", "rollback")
    <3>1. PICK l \in {"ISSUED", "rollback"} :
            /\ Goto(r, l)
            /\ \/ l = "ISSUED" /\ lostAcks' = lostAcks
               \/ l = "rollback" /\ lostAcks' = lostAcks + 1
      BY <2>2
    <3>2. Adds(r)
      BY <2>2 DEF Naive!InsertCoupon, Naive!Duplicate, Adds
    <3>3. Tells(r, l)
      BY <2>1, <3>1, <3>2 DEF Tells, Adds, Works, Fails, Unserved, Repeat, Served, Outcomes, Answers, CoreType
    <3>4. Exact(r, l)
      BY <1>0, <2>1, <3>1, <3>2 DEF Exact, Works, HeldLabels, CoreType
    <3>5. QED  BY <3>3, <3>4
  <2>3. CASE Naive!Duplicate(r) /\ Naive!Resolve(r, "rollback") /\ UNCHANGED Naive!dbVars
    <3>1. Goto(r, "rollback") /\ Works /\ UNCHANGED coupons /\ Duplicate(r)
      BY <2>1, <2>3 DEF Works, Naive!Duplicate, Duplicate
    <3>2. Tells(r, "rollback")
      BY <2>1, <3>1 DEF Tells, Claims, Unserved, Repeat, Served, Outcomes, Answers
    <3>3. Exact(r, "rollback")
      BY <1>0, <2>1, <3>1 DEF Exact, HeldLabels
    <3>4. QED  BY <3>2, <3>3
  <2>4. QED  BY <1>3, <2>2, <2>3 DEF Naive!Create
<1>4. CASE Naive!Rollback(r)
  <2>1. PICK l \in {"ALREADY_ISSUED", "ERROR"} :
          /\ pc[r] = "rollback" /\ Goto(r, l) /\ rejects' = rejects
          /\ \/ l = "ALREADY_ISSUED" /\ lostAcks' = lostAcks
             \/ l = "ERROR" /\ lostAcks' = lostAcks + 1
          /\ issuedCount' = issuedCount + (-1) /\ UNCHANGED coupons
    BY <1>4 DEF Naive!Rollback, Naive!AddIssued
  <2>2. Tells(r, l)
    BY <2>1 DEF Tells, Claims, Works, Fails, Unserved, Repeat, Served, Outcomes, Answers
  <2>3. Exact(r, l)
    BY <1>0, <2>1 DEF Exact, Works, HeldLabels, CoreType
  <2>4. QED  BY <2>2, <2>3
<1>5. CASE Naive!Reject(r, Naive!Catches)
  <2> DEFINE l == Naive!Catches[pc[r]]
  <2>1. /\ pc[r] \in {"start", "increment", "create", "rollback"} /\ l \in {"ERROR", "rollback"}
        /\ l = "rollback" => pc[r] = "create"
    BY <1>5 DEF Naive!Reject, Naive!Catches
  <2>2. Goto(r, l) /\ rejects' = rejects + 1 /\ UNCHANGED <<lostAcks, coupons>>
    BY <1>5 DEF Naive!Reject
  <2> HIDE DEF l
  <2>3. Tells(r, l) /\ ~Works
    BY <2>1, <2>2 DEF Tells, Claims, Works, Fails, Unserved, Repeat, Served, Outcomes, Answers, CoreType
  <2>4. QED  BY <2>3 DEF Exact
<1>6. QED  BY <1>1, <1>2, <1>3, <1>4, <1>5 DEF Naive!Step

(* The atomic strategy.                                                    *)
LEMMA AtomicTells ==
  ASSUME CoreType, NEW r \in Requests, strategy[r] = "atomic", Claims(r), Atomic!Step(r)
  PROVE  \E l : Tells(r, l) /\ Exact(r, l)
<1> USE DEF Atomic!Settle, Atomic!Resolve, Atomic!LoseAck, Atomic!Goto, Atomic!dbVars, Goto
<1>0. strategy[r] \in Holders /\ strategy[r] \notin OnOwn /\ strategy[r] # "naive"
  BY DEF Holders, OnDatabase, OnOwn
<1>1. CASE Atomic!Lookup(r)
  <2>1. PICK l \in {"NOT_FOUND", "reserve"} :
          /\ pc[r] = "start" /\ Goto(r, l)
          /\ UNCHANGED <<rejects, lostAcks, coupons, issuedCount>>
    BY <1>1 DEF Atomic!Lookup, Atomic!FindCampaign
  <2>2. Tells(r, l) /\ Exact(r, l)
    BY <1>0, <2>1 DEF Tells, Exact, Claims, Works, Unserved, Repeat, Served, HeldLabels, Outcomes, Answers
  <2>3. QED  BY <2>2
<1>2. CASE Atomic!Reserve(r)
  <2>1. PICK l \in {"create", "ERROR", "SOLD_OUT"} :
          /\ pc[r] = "reserve" /\ Goto(r, l) /\ rejects' = rejects /\ UNCHANGED coupons
          /\ \/ l = "create" /\ lostAcks' = lostAcks /\ issuedCount' = issuedCount + 1
             \/ l = "ERROR" /\ lostAcks' = lostAcks + 1 /\ issuedCount' = issuedCount + 1
             \/ l = "SOLD_OUT" /\ lostAcks' = lostAcks /\ UNCHANGED issuedCount
    BY <1>2 DEF Atomic!Reserve, Atomic!AddIssued
  <2>2. Tells(r, l)
    BY <1>0, <2>1 DEF Tells, Claims, Works, Fails, Unserved, Repeat, Served, Outcomes, Answers
  <2>3. Exact(r, l)
    BY <1>0, <2>1 DEF Exact, Works, HeldLabels, CoreType
  <2>4. QED  BY <2>2, <2>3
<1>3. CASE Atomic!Create(r)
  <2>1. pc[r] = "create" /\ rejects' = rejects /\ UNCHANGED issuedCount
    BY <1>3 DEF Atomic!Create, Atomic!InsertCoupon
  <2>2. CASE Atomic!InsertCoupon(r) /\ Atomic!Settle(r, "ISSUED", "rollbackError")
    <3>1. PICK l \in {"ISSUED", "rollbackError"} :
            /\ Goto(r, l)
            /\ \/ l = "ISSUED" /\ lostAcks' = lostAcks
               \/ l = "rollbackError" /\ lostAcks' = lostAcks + 1
      BY <2>2
    <3>2. Adds(r)
      BY <2>2 DEF Atomic!InsertCoupon, Atomic!Duplicate, Adds
    <3>3. Tells(r, l)
      BY <1>0, <2>1, <3>1, <3>2 DEF Tells, Adds, Works, Fails, Unserved, Repeat, Served, Outcomes, Answers, CoreType
    <3>4. Exact(r, l)
      BY <1>0, <2>1, <3>1, <3>2 DEF Exact, Works, HeldLabels, CoreType
    <3>5. QED  BY <3>3, <3>4
  <2>3. CASE Atomic!Duplicate(r) /\ Atomic!Resolve(r, "rollbackDup") /\ UNCHANGED Atomic!dbVars
    <3>1. Goto(r, "rollbackDup") /\ Works /\ UNCHANGED coupons /\ Duplicate(r)
      BY <2>1, <2>3 DEF Works, Atomic!Duplicate, Duplicate
    <3>2. Tells(r, "rollbackDup")
      BY <1>0, <2>1, <3>1 DEF Tells, Claims, Unserved, Repeat, Served, Outcomes, Answers
    <3>3. Exact(r, "rollbackDup")
      BY <1>0, <2>1, <3>1 DEF Exact, HeldLabels
    <3>4. QED  BY <3>2, <3>3
  <2>4. QED  BY <1>3, <2>2, <2>3 DEF Atomic!Create
<1>4. CASE Atomic!Rollback(r)
  <2> DEFINE told == IF pc[r] = "rollbackDup" THEN "ALREADY_ISSUED" ELSE "ERROR"
  <2>1. PICK l \in {told, "ERROR"} :
          /\ pc[r] \in {"rollbackDup", "rollbackError"} /\ Goto(r, l) /\ rejects' = rejects
          /\ \/ l = told /\ lostAcks' = lostAcks
             \/ l = "ERROR" /\ lostAcks' = lostAcks + 1
          /\ issuedCount' = issuedCount + (-1) /\ UNCHANGED coupons
    BY <1>4 DEF Atomic!Rollback, Atomic!AddIssued
  <2>2. /\ l \in {"ALREADY_ISSUED", "ERROR"}
        /\ l = "ALREADY_ISSUED" => pc[r] = "rollbackDup"
    BY <2>1
  <2> HIDE DEF told
  <2>3. Tells(r, l)
    BY <1>0, <2>1, <2>2 DEF Tells, Claims, Works, Fails, Unserved, Repeat, Served, Outcomes, Answers
  <2>4. Exact(r, l)
    BY <1>0, <2>1, <2>2 DEF Exact, Works, HeldLabels, CoreType
  <2>5. QED  BY <2>3, <2>4
<1>5. CASE Atomic!Reject(r, Atomic!Catches)
  <2> DEFINE l == Atomic!Catches[pc[r]]
  <2>1. /\ pc[r] \in DOMAIN Atomic!Catches /\ Goto(r, l)
        /\ rejects' = rejects + 1 /\ UNCHANGED <<lostAcks, coupons>>
    BY <1>5 DEF Atomic!Reject
  <2>2. l \in {"ERROR", "rollbackError"} /\ pc[r] \notin Outcomes
    BY <2>1 DEF Atomic!Catches, Outcomes, Answers
  <2> HIDE DEF l
  <2>3. Tells(r, l) /\ ~Works
    BY <1>0, <2>1, <2>2 DEF Tells, Claims, Works, Fails, Unserved, Repeat, Served, CoreType
  <2>4. QED  BY <2>3 DEF Exact
<1>6. QED  BY <1>1, <1>2, <1>3, <1>4, <1>5 DEF Atomic!Step

(* The optimistic strategy.                                                *)
LEMMA OptimisticTells ==
  ASSUME CoreType, NEW r \in Requests, strategy[r] = "optimistic", Claims(r), Optimistic!Step(r)
  PROVE  \E l : Tells(r, l) /\ Exact(r, l)
<1> USE DEF Optimistic!Settle, Optimistic!Resolve, Optimistic!LoseAck, Optimistic!Goto, Optimistic!dbVars, Goto
<1>0. strategy[r] \in Holders /\ strategy[r] \notin OnOwn /\ strategy[r] # "naive"
  BY DEF Holders, OnDatabase, OnOwn
<1>1. CASE Optimistic!Read(r) \/ Optimistic!Retry(r)
  <2>1. PICK l \in {"NOT_FOUND", "SOLD_OUT", "cas", "read", "RETRY_EXHAUSTED"} :
          /\ pc[r] \in {"start", "read", "cas"} /\ Goto(r, l)
          /\ UNCHANGED <<rejects, lostAcks, coupons, issuedCount>>
    BY <1>1 DEF Optimistic!Read, Optimistic!Retry
  <2>2. Tells(r, l) /\ Exact(r, l)
    BY <1>0, <2>1 DEF Tells, Exact, Claims, Works, Unserved, Repeat, Served, HeldLabels, Outcomes, Answers
  <2>3. QED  BY <2>2
<1>2. CASE Optimistic!Swap(r)
  <2>1. PICK l \in {"create", "ERROR"} :
          /\ pc[r] = "cas" /\ Goto(r, l) /\ rejects' = rejects
          /\ \/ l = "create" /\ lostAcks' = lostAcks
             \/ l = "ERROR" /\ lostAcks' = lostAcks + 1
          /\ issuedCount' = issuedCount + 1 /\ UNCHANGED coupons
    BY <1>2 DEF Optimistic!Swap
  <2>2. Tells(r, l)
    BY <1>0, <2>1 DEF Tells, Claims, Works, Fails, Unserved, Repeat, Served, Outcomes, Answers
  <2>3. Exact(r, l)
    BY <1>0, <2>1 DEF Exact, Works, HeldLabels, CoreType
  <2>4. QED  BY <2>2, <2>3
<1>3. CASE Optimistic!Create(r)
  <2>1. pc[r] = "create" /\ rejects' = rejects /\ UNCHANGED issuedCount
    BY <1>3 DEF Optimistic!Create, Optimistic!InsertCoupon
  <2>2. CASE Optimistic!InsertCoupon(r) /\ Optimistic!Settle(r, "ISSUED", "rollbackError")
    <3>1. PICK l \in {"ISSUED", "rollbackError"} :
            /\ Goto(r, l)
            /\ \/ l = "ISSUED" /\ lostAcks' = lostAcks
               \/ l = "rollbackError" /\ lostAcks' = lostAcks + 1
      BY <2>2
    <3>2. Adds(r)
      BY <2>2 DEF Optimistic!InsertCoupon, Optimistic!Duplicate, Adds
    <3>3. Tells(r, l)
      BY <1>0, <2>1, <3>1, <3>2 DEF Tells, Adds, Works, Fails, Unserved, Repeat, Served, Outcomes, Answers, CoreType
    <3>4. Exact(r, l)
      BY <1>0, <2>1, <3>1, <3>2 DEF Exact, Works, HeldLabels, CoreType
    <3>5. QED  BY <3>3, <3>4
  <2>3. CASE Optimistic!Duplicate(r) /\ Optimistic!Resolve(r, "rollbackDup") /\ UNCHANGED Optimistic!dbVars
    <3>1. Goto(r, "rollbackDup") /\ Works /\ UNCHANGED coupons /\ Duplicate(r)
      BY <2>1, <2>3 DEF Works, Optimistic!Duplicate, Duplicate
    <3>2. Tells(r, "rollbackDup")
      BY <1>0, <2>1, <3>1 DEF Tells, Claims, Unserved, Repeat, Served, Outcomes, Answers
    <3>3. Exact(r, "rollbackDup")
      BY <1>0, <2>1, <3>1 DEF Exact, HeldLabels
    <3>4. QED  BY <3>2, <3>3
  <2>4. QED  BY <1>3, <2>2, <2>3 DEF Optimistic!Create
<1>4. CASE Optimistic!Rollback(r)
  <2> DEFINE told == IF pc[r] = "rollbackDup" THEN "ALREADY_ISSUED" ELSE "ERROR"
  <2>1. PICK l \in {told, "ERROR"} :
          /\ pc[r] \in {"rollbackDup", "rollbackError"} /\ Goto(r, l) /\ rejects' = rejects
          /\ \/ l = told /\ lostAcks' = lostAcks
             \/ l = "ERROR" /\ lostAcks' = lostAcks + 1
          /\ issuedCount' = issuedCount + (-1) /\ UNCHANGED coupons
    BY <1>4 DEF Optimistic!Rollback, Optimistic!AddIssued
  <2>2. /\ l \in {"ALREADY_ISSUED", "ERROR"}
        /\ l = "ALREADY_ISSUED" => pc[r] = "rollbackDup"
    BY <2>1
  <2> HIDE DEF told
  <2>3. Tells(r, l)
    BY <1>0, <2>1, <2>2 DEF Tells, Claims, Works, Fails, Unserved, Repeat, Served, Outcomes, Answers
  <2>4. Exact(r, l)
    BY <1>0, <2>1, <2>2 DEF Exact, Works, HeldLabels, CoreType
  <2>5. QED  BY <2>3, <2>4
<1>5. CASE Optimistic!Reject(r, Optimistic!Catches)
  <2> DEFINE l == Optimistic!Catches[pc[r]]
  <2>1. /\ pc[r] \in DOMAIN Optimistic!Catches /\ Goto(r, l)
        /\ rejects' = rejects + 1 /\ UNCHANGED <<lostAcks, coupons>>
    BY <1>5 DEF Optimistic!Reject
  <2>2. l \in {"ERROR", "rollbackError"} /\ pc[r] \notin Outcomes
    BY <2>1 DEF Optimistic!Catches, Outcomes, Answers
  <2> HIDE DEF l
  <2>3. Tells(r, l) /\ ~Works
    BY <1>0, <2>1, <2>2 DEF Tells, Claims, Works, Fails, Unserved, Repeat, Served, CoreType
  <2>4. QED  BY <2>3 DEF Exact
<1>6. QED  BY <1>1, <1>2, <1>3, <1>4, <1>5 DEF Optimistic!Step

(* The pessimistic strategy, whose check for a repeat holds until COMMIT,  *)
(* as long as its request has no coupon of its own.                        *)
LEMMA PessimisticTells ==
  ASSUME CoreType, NEW r \in Requests, strategy[r] = "pessimistic", Claims(r),
         Pessimistic!Step(r)
  PROVE  \E l : Tells(r, l) /\ Exact(r, l)
<1> USE DEF Pessimistic!Settle, Pessimistic!Resolve, Pessimistic!LoseAck, Pessimistic!Goto,
            Pessimistic!dbVars, Goto
<1>0. strategy[r] \notin Holders /\ strategy[r] \notin OnOwn /\ strategy[r] # "naive"
  BY DEF Holders, OnDatabase, OnOwn
<1>1. CASE \/ Pessimistic!Begin(r) \/ Pessimistic!Lock(r) \/ Pessimistic!Increment(r)
           \/ Pessimistic!Insert(r)
  <2>1. PICK l \in {"NOT_FOUND", "lock", "commitSoldOut", "insert", "commitRepeat",
                    "increment", "commitIssued"} :
          /\ pc[r] \in {"start", "lock", "insert", "increment"} /\ Goto(r, l)
          /\ UNCHANGED <<rejects, lostAcks, coupons, issuedCount>>
          /\ l = "commitRepeat" => Duplicate(r)
    BY <1>1 DEF Pessimistic!Begin, Pessimistic!Lock, Pessimistic!Insert, Pessimistic!Increment,
                Pessimistic!Duplicate, Duplicate
  <2>2. Tells(r, l)
    BY <1>0, <2>1 DEF Tells, Claims, Works, Unserved, Repeat, Served, Outcomes, Answers
  <2>3. Exact(r, l)
    BY <1>0, <2>1 DEF Exact
  <2>4. QED  BY <2>2, <2>3
<1>2. CASE Pessimistic!CommitIssued(r)
  <2>1. PICK l \in {"ISSUED", "ERROR"} :
          /\ pc[r] = "commitIssued" /\ Goto(r, l) /\ rejects' = rejects
          /\ \/ l = "ISSUED" /\ lostAcks' = lostAcks
             \/ l = "ERROR" /\ lostAcks' = lostAcks + 1
          /\ issuedCount' = issuedCount + 1 /\ coupons' = coupons \cup {r}
    BY <1>2 DEF Pessimistic!CommitIssued
  <2>2. Adds(r)
    BY <2>1 DEF Adds, Claims, Unserved
  <2>3. Tells(r, l)
    BY <1>0, <2>1, <2>2 DEF Tells, Works, Fails, Unserved, Repeat, Served, Outcomes, Answers, CoreType
  <2>4. Exact(r, l)
    BY <2>1, <2>2 DEF Exact
  <2>5. QED  BY <2>3, <2>4
<1>3. CASE Pessimistic!CommitRefusal(r)
  <2> DEFINE told == IF pc[r] = "commitSoldOut" THEN "SOLD_OUT" ELSE "ALREADY_ISSUED"
  <2>1. PICK l \in {told, "ERROR"} :
          /\ pc[r] \in {"commitSoldOut", "commitRepeat"} /\ Goto(r, l) /\ rejects' = rejects
          /\ lostAcks' = lostAcks \/ lostAcks' = lostAcks + 1
          /\ UNCHANGED <<issuedCount, coupons>>
    BY <1>3 DEF Pessimistic!CommitRefusal
  <2>2. /\ l \in {"SOLD_OUT", "ALREADY_ISSUED", "ERROR"}
        /\ l = "ALREADY_ISSUED" => pc[r] = "commitRepeat"
    BY <2>1
  <2> HIDE DEF told
  <2>3. Tells(r, l)
    BY <1>0, <2>1, <2>2 DEF Tells, Claims, Works, Fails, Unserved, Repeat, Served, Outcomes, Answers
  <2>4. Exact(r, l)
    BY <1>0, <2>1 DEF Exact
  <2>5. QED  BY <2>3, <2>4
<1>4. CASE Pessimistic!Abort(r)
  <2>1. /\ Goto(r, "ERROR") /\ rejects' = rejects + 1 /\ UNCHANGED <<lostAcks, coupons>>
        /\ pc[r] \notin Outcomes
    BY <1>4 DEF Pessimistic!Abort, Pessimistic!InFlight, Pessimistic!Ended,
                Pessimistic!Outcomes, Pessimistic!Answers, Outcomes, Answers
  <2>2. Tells(r, "ERROR") /\ ~Works
    BY <1>0, <2>1 DEF Tells, Claims, Works, Fails, Unserved, Repeat, Served, CoreType
  <2>3. QED  BY <2>2 DEF Exact
<1>5. QED  BY <1>1, <1>2, <1>3, <1>4 DEF Pessimistic!Step

(* A slot of the counter stays where it is or moves with the request.      *)
HandLabels == {"create", "giveBack", "undo"}
SlotExact(r, l) ==
  Works /\ NothingResent' =>
    \/ /\ UNCHANGED <<stock, queue, coupons>>
       /\ strategy[r] \in OnOwn => (pc[r] \in HandLabels <=> l \in HandLabels)
       /\ strategy[r] = "redis-queue" => (pc[r] = "push" <=> l = "push")
    \/ /\ strategy[r] \in OnOwn /\ pc[r] \notin HandLabels /\ l \in HandLabels
       /\ stock' = stock - 1 /\ UNCHANGED <<queue, coupons>>
    \/ /\ strategy[r] \in OnOwn /\ pc[r] \in HandLabels /\ l \notin HandLabels
       /\ UNCHANGED queue
       /\ \/ UNCHANGED stock /\ Adds(r)
          \/ stock' = stock + 1 /\ UNCHANGED coupons
    \/ /\ strategy[r] = "redis-queue" /\ pc[r] # "push" /\ l = "push"
       /\ stock' = stock - 1 /\ UNCHANGED <<queue, coupons>>
    \/ /\ strategy[r] = "redis-queue" /\ pc[r] = "push" /\ l # "push"
       /\ Len(queue') = Len(queue) + 1 /\ UNCHANGED <<stock, coupons>>

(* When nothing has run twice after the step, it did not in the step.      *)
LEMMA RanOnce ==
  ASSUME CounterType, NEW c \in Commands, NEW again \in {0, 1}, Ran(c, again), NothingResent'
  PROVE  again = 0
<1> DEFINE d == resent["DECR"]
           e == resent["EVAL"]
           i == resent["INCR"]
           p == resent["LPUSH"]
           d1 == resent'["DECR"]
           e1 == resent'["EVAL"]
           i1 == resent'["INCR"]
           p1 == resent'["LPUSH"]
<1>1. d \in Nat /\ e \in Nat /\ i \in Nat /\ p \in Nat
  BY ResendAssumption DEF CounterType, Commands
<1>2. /\ d1 \in {d, d + again} /\ e1 \in {e, e + again} /\ i1 \in {i, i + again}
      /\ p1 \in {p, p + again}
      /\ \/ d1 = d + again \/ e1 = e + again \/ i1 = i + again \/ p1 = p + again
  BY <1>1 DEF Ran, CounterType, Commands
<1>3. d1 + e1 + i1 + p1 = 0
  BY DEF NothingResent, Resends
<1> HIDE DEF d, e, i, p, d1, e1, i1, p1
<1>4. QED  BY <1>1, <1>2, <1>3

(* The strategies on the counter.                                          *)
LEMMA RedisTells ==
  ASSUME CoreType, CounterType, NEW r \in Requests, strategy[r] \in OnOwn, Claims(r),
         Redis!Step(r) \/ RedisLua!Lookup(r), UNCHANGED queue
  PROVE  \E l : Tells(r, l) /\ Exact(r, l) /\ SlotExact(r, l)
<1> USE DEF Redis!Settle, Redis!Resolve, Redis!LoseAck, Redis!Goto, Redis!dbVars,
            Redis!redisVars, Redis!stockVars, Goto
<1>0. /\ strategy[r] \notin Holders /\ strategy[r] # "naive"
      /\ strategy[r] # "redis-queue" /\ strategy[r] # "pessimistic"
  BY DEF Holders, OnDatabase, OnOwn
<1>1. CASE Redis!Lookup(r) \/ RedisLua!Lookup(r)
  <2>1. PICK l \in {"decr", "eval", "NOT_FOUND"} :
          /\ pc[r] = "start" /\ Goto(r, l)
          /\ UNCHANGED <<rejects, lostAcks, coupons, issuedCount, stock>>
    BY <1>1 DEF Redis!Lookup, Redis!FindCampaign, RedisLua!Lookup, RedisLua!FindCampaign,
                RedisLua!Resolve, RedisLua!Goto, RedisLua!dbVars, RedisLua!redisVars,
                RedisLua!stockVars
  <2>2. Tells(r, l)
    BY <1>0, <2>1 DEF Tells, Claims, Works, Unserved, Repeat, Served, Outcomes, Answers
  <2>3. Exact(r, l) /\ SlotExact(r, l)
    BY <1>0, <2>1 DEF Exact, SlotExact, HandLabels
  <2>4. QED  BY <2>2, <2>3
<1>2. CASE Redis!TakeByDecr(r)
  <2>1. PICK again \in {0, 1} : Send("DECR", again) /\ stock' = stock - 1 - again
    BY <1>2 DEF Redis!TakeByDecr, Redis!Decr, Redis!Send, Redis!Resends, Send, Resends
  <2>2. PICK l \in {"create", "undo"} :
          /\ pc[r] = "decr" /\ Goto(r, l)
          /\ UNCHANGED <<rejects, lostAcks, coupons, issuedCount>>
    BY <1>2 DEF Redis!TakeByDecr, Redis!Decr
  <2>3. NothingResent' => stock' = stock - 1
    BY <2>1, SendRan, RanOnce DEF Commands, CounterType
  <2>4. Tells(r, l)
    BY <1>0, <2>2 DEF Tells, Claims, Works, Unserved, Repeat, Served, Outcomes, Answers
  <2>5. Exact(r, l) /\ SlotExact(r, l)
    BY <1>0, <2>2, <2>3 DEF Exact, SlotExact, HandLabels
  <2>6. QED  BY <2>4, <2>5
<1>3. CASE Redis!TakeByScript(r)
  <2>1. PICK again \in {0, 1} :
          LET before == IF again = 1 THEN AfterScript(stock) ELSE stock
          IN  /\ Send("EVAL", again) /\ stock' = AfterScript(before)
              /\ Goto(r, IF before > 0 THEN "create" ELSE "SOLD_OUT")
    BY <1>3 DEF Redis!TakeByScript, Redis!EvalScript, Redis!AfterScript, AfterScript,
                Redis!Send, Redis!Resends, Send, Resends
  <2>2. NothingResent' => again = 0
    BY <2>1, SendRan, RanOnce DEF Commands
  <2>3. PICK l \in {"create", "SOLD_OUT"} :
          /\ Goto(r, l)
          /\ NothingResent' /\ l = "create" => stock' = stock - 1
          /\ NothingResent' /\ l = "SOLD_OUT" => stock' = stock
    <3>1. CASE again = 0
      <4>1. CASE stock > 0
        <5>1. Goto(r, "create") /\ stock' = stock - 1
          BY <2>1, <3>1, <4>1 DEF AfterScript
        <5>2. QED  BY <5>1
      <4>2. CASE ~(stock > 0)
        <5>1. Goto(r, "SOLD_OUT") /\ stock' = stock
          BY <2>1, <3>1, <4>2 DEF AfterScript
        <5>2. QED  BY <5>1
      <4>3. QED  BY <4>1, <4>2
    <3>2. CASE again = 1
      <4>1. ~NothingResent'
        BY <2>2, <3>2
      <4>2. \E l \in {"create", "SOLD_OUT"} : Goto(r, l)
        BY <2>1
      <4>3. QED  BY <4>1, <4>2
    <3>3. QED  BY <3>1, <3>2
  <2>4. pc[r] = "eval" /\ UNCHANGED <<rejects, lostAcks, coupons, issuedCount>>
    BY <1>3 DEF Redis!TakeByScript, Redis!EvalScript
  <2>5. Tells(r, l)
    BY <1>0, <2>3, <2>4 DEF Tells, Claims, Works, Unserved, Repeat, Served, Outcomes, Answers
  <2>6. Exact(r, l) /\ SlotExact(r, l)
    BY <1>0, <2>3, <2>4 DEF Exact, SlotExact, HandLabels
  <2>7. QED  BY <2>5, <2>6
<1>4. CASE Redis!Create(r)
  <2>1. pc[r] = "create" /\ rejects' = rejects /\ UNCHANGED <<issuedCount, stock>>
    BY <1>4 DEF Redis!Create, Redis!InsertCoupon
  <2>2. CASE Redis!InsertCoupon(r) /\ Redis!Settle(r, "count", "ERROR")
    <3>1. PICK l \in {"count", "ERROR"} :
            /\ Goto(r, l)
            /\ \/ l = "count" /\ lostAcks' = lostAcks
               \/ l = "ERROR" /\ lostAcks' = lostAcks + 1
      BY <2>2
    <3>2. Adds(r)
      BY <2>2 DEF Redis!InsertCoupon, Redis!Duplicate, Adds
    <3>3. Tells(r, l)
      BY <1>0, <2>1, <3>1, <3>2 DEF Tells, Adds, Works, Fails, Unserved, Repeat, Served, Outcomes, Answers, CoreType
    <3>4. Exact(r, l) /\ SlotExact(r, l)
      BY <1>0, <2>1, <3>1, <3>2 DEF Exact, SlotExact, HandLabels, Works, CoreType
    <3>5. QED  BY <3>3, <3>4
  <2>3. CASE Redis!Duplicate(r) /\ Redis!Resolve(r, "giveBack") /\ UNCHANGED Redis!dbVars
    <3>1. Goto(r, "giveBack") /\ Works /\ UNCHANGED coupons /\ Duplicate(r)
      BY <2>1, <2>3 DEF Works, Redis!Duplicate, Duplicate
    <3>2. Tells(r, "giveBack")
      BY <1>0, <2>1, <3>1 DEF Tells, Claims, Unserved, Repeat, Served, Outcomes, Answers
    <3>3. Exact(r, "giveBack") /\ SlotExact(r, "giveBack")
      BY <1>0, <2>1, <3>1 DEF Exact, SlotExact, HandLabels
    <3>4. QED  BY <3>2, <3>3
  <2>4. QED  BY <1>4, <2>2, <2>3 DEF Redis!Create
<1>5. CASE Redis!Count(r)
  <2>1. PICK l \in {"ISSUED", "ERROR"} :
          /\ pc[r] = "count" /\ Goto(r, l) /\ rejects' = rejects
          /\ \/ l = "ISSUED" /\ lostAcks' = lostAcks
             \/ l = "ERROR" /\ lostAcks' = lostAcks + 1
          /\ issuedCount' = issuedCount + 1 /\ UNCHANGED <<coupons, stock>>
    BY <1>5 DEF Redis!Count, Redis!AddIssued
  <2>2. Tells(r, l)
    BY <1>0, <2>1 DEF Tells, Claims, Works, Fails, Unserved, Repeat, Served, Outcomes, Answers, CoreType
  <2>3. Exact(r, l) /\ SlotExact(r, l)
    BY <1>0, <2>1 DEF Exact, SlotExact, HandLabels
  <2>4. QED  BY <2>2, <2>3
<1>6. CASE Redis!GiveBack(r)
  <2>1. PICK again \in {0, 1} : Send("INCR", again) /\ stock' = stock + 1 + again
    BY <1>6 DEF Redis!GiveBack, Redis!Incr, Redis!Send, Redis!Resends, Send, Resends
  <2>2. PICK l \in {"SOLD_OUT", "ALREADY_ISSUED"} :
          /\ pc[r] \in {"giveBack", "undo"} /\ Goto(r, l)
          /\ l = "ALREADY_ISSUED" => pc[r] = "giveBack"
          /\ UNCHANGED <<rejects, lostAcks, coupons, issuedCount>>
    BY <1>6 DEF Redis!GiveBack
  <2>3. NothingResent' => stock' = stock + 1
    BY <2>1, SendRan, RanOnce DEF Commands, CounterType
  <2>4. Tells(r, l)
    BY <1>0, <2>2 DEF Tells, Claims, Works, Unserved, Repeat, Served, Outcomes, Answers
  <2>5. Exact(r, l) /\ SlotExact(r, l)
    BY <1>0, <2>2, <2>3 DEF Exact, SlotExact, HandLabels
  <2>6. QED  BY <2>4, <2>5
<1>7. CASE Redis!Reject(r, Redis!Catches) /\ UNCHANGED Redis!redisVars
  <2>1. pc[r] \in {"start", "create", "count"} /\ Redis!Catches[pc[r]] = "ERROR"
    BY <1>7 DEF Redis!Reject, Redis!Catches
  <2>2. Goto(r, "ERROR") /\ rejects' = rejects + 1 /\ UNCHANGED <<lostAcks, coupons>>
    BY <1>7, <2>1 DEF Redis!Reject
  <2>3. Tells(r, "ERROR") /\ ~Works
    BY <1>0, <2>1, <2>2 DEF Tells, Claims, Works, Fails, Unserved, Repeat, Served, Outcomes, Answers, CoreType
  <2>4. QED  BY <2>3 DEF Exact, SlotExact
<1>8. QED
  BY <1>1, <1>2, <1>3, <1>4, <1>5, <1>6, <1>7 DEF Redis!Step

(* The queue strategy, up to the queue, into which only what was accepted  *)
(* goes.                                                                   *)
LEMMA QueueTells ==
  ASSUME CoreType, CounterType, NEW r \in Requests, strategy[r] = "redis-queue", Claims(r),
         queue \in Seq(At({"QUEUED"})),
         \/ Queue!RequestStep(r)
         \/ Reject(r, Queue!Catches) /\ UNCHANGED <<stockVars, workerVars>>
  PROVE  /\ \E l : Tells(r, l) /\ Exact(r, l) /\ SlotExact(r, l)
         /\ \/ UNCHANGED queue
            \/ queue' \in Seq(At({"QUEUED"}) \cup {r}) /\ pc'[r] = "QUEUED"
<1> USE DEF Queue!Settle, Queue!Resolve, Queue!LoseAck, Queue!Goto, Queue!dbVars,
            Queue!stockVars, Queue!workerVars, Goto
<1>0. /\ strategy[r] \notin Holders /\ strategy[r] # "naive"
      /\ strategy[r] \notin OnOwn /\ strategy[r] # "pessimistic"
  BY DEF Holders, OnDatabase, OnOwn
<1>1. CASE Queue!Lookup(r)
  <2>1. PICK l \in {"eval", "NOT_FOUND"} :
          /\ pc[r] = "start" /\ Goto(r, l)
          /\ UNCHANGED <<rejects, lostAcks, coupons, issuedCount, stock, queue>>
    BY <1>1 DEF Queue!Lookup, Queue!FindCampaign
  <2>2. Tells(r, l)
    BY <1>0, <2>1 DEF Tells, Claims, Works, Unserved, Repeat, Served, Outcomes, Answers
  <2>3. Exact(r, l) /\ SlotExact(r, l)
    BY <1>0, <2>1 DEF Exact, SlotExact, HandLabels
  <2>4. UNCHANGED queue
    BY <2>1
  <2> HIDE DEF Goto
  <2>5. QED  BY <2>2, <2>3, <2>4
<1>2. CASE Queue!Take(r)
  <2>1. PICK again \in {0, 1} :
          LET before == IF again = 1 THEN AfterScript(stock) ELSE stock
          IN  /\ Send("EVAL", again) /\ stock' = AfterScript(before)
              /\ Goto(r, IF before > 0 THEN "push" ELSE "SOLD_OUT")
    BY <1>2 DEF Queue!Take, Queue!EvalScript, Queue!AfterScript, AfterScript,
                Queue!Send, Queue!Resends, Send, Resends
  <2>2. NothingResent' => again = 0
    BY <2>1, SendRan, RanOnce DEF Commands
  <2>3. PICK l \in {"push", "SOLD_OUT"} :
          /\ Goto(r, l)
          /\ NothingResent' /\ l = "push" => stock' = stock - 1
          /\ NothingResent' /\ l = "SOLD_OUT" => stock' = stock
    <3>1. CASE again = 0
      <4>1. CASE stock > 0
        <5>1. Goto(r, "push") /\ stock' = stock - 1
          BY <2>1, <3>1, <4>1 DEF AfterScript
        <5>2. QED  BY <5>1
      <4>2. CASE ~(stock > 0)
        <5>1. Goto(r, "SOLD_OUT") /\ stock' = stock
          BY <2>1, <3>1, <4>2 DEF AfterScript
        <5>2. QED  BY <5>1
      <4>3. QED  BY <4>1, <4>2
    <3>2. CASE again = 1
      <4>1. ~NothingResent'
        BY <2>2, <3>2
      <4>2. \E l \in {"push", "SOLD_OUT"} : Goto(r, l)
        BY <2>1
      <4>3. QED  BY <4>1, <4>2
    <3>3. QED  BY <3>1, <3>2
  <2>4. pc[r] = "eval" /\ UNCHANGED <<rejects, lostAcks, coupons, issuedCount, queue>>
    BY <1>2 DEF Queue!Take, Queue!EvalScript
  <2>5. Tells(r, l)
    BY <1>0, <2>3, <2>4 DEF Tells, Claims, Works, Unserved, Repeat, Served, Outcomes, Answers
  <2>6. Exact(r, l) /\ SlotExact(r, l)
    BY <1>0, <2>3, <2>4 DEF Exact, SlotExact, HandLabels
  <2>7. UNCHANGED queue
    BY <2>4
  <2> HIDE DEF Goto
  <2>8. QED  BY <2>5, <2>6, <2>7
<1>3. CASE Queue!Push(r)
  <2>1. PICK again \in {0, 1} :
          Send("LPUSH", again) /\ queue' = queue \o IF again = 1 THEN <<r, r>> ELSE <<r>>
    BY <1>3 DEF Queue!Push, Queue!Send, Queue!Resends, Send, Resends
  <2>2. /\ pc[r] = "push" /\ Goto(r, "QUEUED")
        /\ UNCHANGED <<rejects, lostAcks, coupons, issuedCount, stock>>
    BY <1>3 DEF Queue!Push
  <2>3. queue' \in Seq(At({"QUEUED"}) \cup {r}) /\ Len(queue') = Len(queue) + 1 + again
    <3> DEFINE S == At({"QUEUED"}) \cup {r}
    <3>1. r \in S /\ queue \in Seq(S)
      BY SeqMonotonic
    <3> HIDE DEF S
    <3>2. CASE again = 0
      <4>1. <<r>> \in Seq(S) /\ Len(<<r>>) = 1 /\ queue' = queue \o <<r>>
        BY <2>1, <3>1, <3>2
      <4>2. QED  BY <3>1, <3>2, <4>1, ConcatProperties DEF S
    <3>3. CASE again = 1
      <4>1. <<r, r>> \in Seq(S) /\ Len(<<r, r>>) = 2 /\ queue' = queue \o <<r, r>>
        BY <2>1, <3>1, <3>3
      <4>2. QED  BY <3>1, <3>3, <4>1, ConcatProperties DEF S
    <3>4. QED  BY <3>2, <3>3
  <2>4. NothingResent' => Len(queue') = Len(queue) + 1
    <3>1. NothingResent' => again = 0
      BY <2>1, SendRan, RanOnce DEF Commands
    <3>2. Len(queue) \in Nat
      BY LenProperties DEF CounterType
    <3>3. QED  BY <2>3, <3>1, <3>2
  <2>5. Tells(r, "QUEUED")
    BY <1>0, <2>2 DEF Tells, Claims, Works, Unserved, Repeat, Served, Outcomes, Answers
  <2>6. Exact(r, "QUEUED") /\ SlotExact(r, "QUEUED")
    BY <1>0, <2>2, <2>4 DEF Exact, SlotExact
  <2>7. pc'[r] = "QUEUED"
    BY <2>2 DEF CoreType
  <2>8. QED  BY <2>3, <2>5, <2>6, <2>7
<1>4. CASE Reject(r, Queue!Catches) /\ UNCHANGED <<stockVars, workerVars>>
  <2>1. pc[r] = "start" /\ Queue!Catches[pc[r]] = "ERROR"
    BY <1>4 DEF Reject, Queue!Catches
  <2>2. Goto(r, "ERROR") /\ rejects' = rejects + 1 /\ UNCHANGED <<lostAcks, coupons, queue>>
    BY <1>4, <2>1 DEF Reject, dbVars, workerVars
  <2>3. Tells(r, "ERROR") /\ ~Works
    BY <1>0, <2>1, <2>2 DEF Tells, Claims, Works, Fails, Unserved, Repeat, Served, Outcomes, Answers, CoreType
  <2>4. UNCHANGED queue /\ Exact(r, "ERROR") /\ SlotExact(r, "ERROR")
    BY <2>2, <2>3 DEF Exact, SlotExact
  <2>5. QED  BY <2>3, <2>4
<1>5. QED  BY <1>1, <1>2, <1>3, <1>4 DEF Queue!RequestStep

(* A worker, as long as it loses no job: it takes one, turns it into a     *)
(* coupon or finds a repeat, counts, returns the slot, or stops or starts. *)
WorkExact(w, l) ==
  lostJobs' = lostJobs =>
    \/ /\ wpc[w] = "pop" /\ l = "create" /\ queue # <<>> /\ queue' = Tail(queue)
       /\ UNCHANGED <<stock, coupons, issuedCount>>
    \/ /\ wpc[w] = "create" /\ l = "count" /\ Adds(job[w])
       /\ UNCHANGED <<stock, queue, issuedCount>>
    \/ /\ wpc[w] = "create" /\ l = "giveBack"
       /\ UNCHANGED <<stock, queue, coupons, issuedCount>>
    \/ /\ wpc[w] = "count" /\ l \in Queue!Waiting /\ issuedCount' = issuedCount + 1
       /\ UNCHANGED <<stock, queue, coupons>>
    \/ /\ wpc[w] = "giveBack" /\ l = "pop"
       /\ NothingResent' => stock' = stock + 1
       /\ UNCHANGED <<queue, coupons, issuedCount>>
    \/ /\ wpc[w] \in Queue!Waiting /\ l \in Queue!Waiting
       /\ UNCHANGED <<stock, queue, coupons, issuedCount>>

WorkTells(w, l) ==
  /\ wpc' = [wpc EXCEPT ![w] = l]
  /\ UNCHANGED <<origin, pc, userKey, rejects, lostAcks>>
  /\ lostJobs' = lostJobs \/ lostJobs' = lostJobs + 1
  /\ coupons' = coupons \/ (wpc[w] = "create" /\ Adds(job[w]))
  /\ queue' = queue \/ (queue # <<>> /\ queue' = Tail(queue))
  /\ \/ l \in Queue!Waiting /\ job' = [job EXCEPT ![w] = NoOne]
     \/ (wpc[w] \in Queue!Waiting <=> l \in Queue!Waiting) /\ UNCHANGED job
     \/ queue # <<>> /\ job' = [job EXCEPT ![w] = Head(queue)]

LEMMA WorkersTell ==
  ASSUME CoreType, CounterType, NEW w \in Workers,
         Queue!WorkerStep(w) \/ Queue!WorkerEvent(w)
  PROVE  \E l : WorkTells(w, l) /\ WorkExact(w, l)
<1> USE DEF Queue!WorkerAt, Queue!NextJob, Queue!dbVars, Queue!requestVars,
            Queue!couponDbVars, Queue!stockVars
<1>0. Queue!Waiting = {"pop", "stopped"}
  BY DEF Queue!Waiting
<1>1. Queue!LoseJob(w) =>
        /\ \E l \in Queue!Waiting : wpc' = [wpc EXCEPT ![w] = l]
        /\ job' = [job EXCEPT ![w] = NoOne]
        /\ lostJobs' = lostJobs + 1 /\ lostJobs' # lostJobs
  BY <1>0 DEF Queue!LoseJob, CounterType
<1>2. CASE Queue!Pop(w)
  <2>1. /\ wpc[w] = "pop" /\ queue # <<>> /\ queue' = Tail(queue)
        /\ UNCHANGED <<origin, pc, userKey, rejects, lostAcks, stock, coupons, issuedCount>>
    BY <1>2 DEF Queue!Pop
  <2>2. CASE Queue!LoseJob(w)
    <3>1. PICK l \in Queue!Waiting : WorkTells(w, l) /\ WorkExact(w, l)
      BY <1>1, <2>1, <2>2 DEF WorkTells, WorkExact
    <3>2. QED  BY <3>1
  <2>3. CASE ~Queue!LoseJob(w)
    <3>1. /\ wpc' = [wpc EXCEPT ![w] = "create"] /\ job' = [job EXCEPT ![w] = Head(queue)]
          /\ UNCHANGED lostJobs
      BY <1>2, <2>3 DEF Queue!Pop
    <3>2. WorkTells(w, "create") /\ WorkExact(w, "create")
      BY <1>0, <2>1, <3>1 DEF WorkTells, WorkExact
    <3>3. QED  BY <3>2
  <2>4. QED  BY <2>2, <2>3
<1>3. CASE Queue!WorkerCreate(w)
  <2>1. /\ wpc[w] = "create"
        /\ UNCHANGED <<origin, pc, userKey, rejects, lostAcks, stock, queue, issuedCount>>
    BY <1>3 DEF Queue!WorkerCreate, Queue!InsertCoupon
  <2>2. CASE Queue!LoseJob(w) /\ Queue!InsertCoupon(job[w])
    <3>1. Adds(job[w])
      BY <2>2 DEF Queue!InsertCoupon, Queue!Duplicate, Adds
    <3>2. PICK l \in Queue!Waiting : WorkTells(w, l) /\ WorkExact(w, l)
      BY <1>1, <2>1, <2>2, <3>1 DEF WorkTells, WorkExact
    <3>3. QED  BY <3>2
  <2>3. CASE Queue!InsertCoupon(job[w]) /\ Queue!WorkerAt(w, "count") /\ UNCHANGED <<job, lostJobs>>
    <3>1. Adds(job[w])
      BY <2>3 DEF Queue!InsertCoupon, Queue!Duplicate, Adds
    <3>2. WorkTells(w, "count") /\ WorkExact(w, "count")
      BY <1>0, <2>1, <2>3, <3>1 DEF WorkTells, WorkExact
    <3>3. QED  BY <3>2
  <2>4. CASE /\ UNCHANGED Queue!dbVars /\ Queue!WorkerAt(w, "giveBack")
             /\ UNCHANGED <<job, lostJobs>>
    <3>1. WorkTells(w, "giveBack") /\ WorkExact(w, "giveBack")
      BY <1>0, <2>1, <2>4 DEF WorkTells, WorkExact
    <3>2. QED  BY <3>1
  <2>5. QED  BY <1>3, <2>2, <2>3, <2>4 DEF Queue!WorkerCreate
<1>4. CASE Queue!WorkerCount(w)
  <2>1. /\ wpc[w] = "count" /\ issuedCount' = issuedCount + 1
        /\ \E l \in Queue!Waiting : wpc' = [wpc EXCEPT ![w] = l]
        /\ job' = [job EXCEPT ![w] = NoOne]
        /\ lostJobs' = lostJobs \/ lostJobs' = lostJobs + 1
        /\ UNCHANGED <<origin, pc, userKey, rejects, lostAcks, stock, queue, coupons>>
    BY <1>0, <1>1, <1>4 DEF Queue!WorkerCount, Queue!AddIssued
  <2>2. PICK l \in Queue!Waiting : WorkTells(w, l) /\ WorkExact(w, l)
    BY <2>1 DEF WorkTells, WorkExact
  <2>3. QED  BY <2>2
<1>5. CASE Queue!WorkerGiveBack(w)
  <2>1. PICK again \in {0, 1} : Send("INCR", again) /\ stock' = stock + 1 + again
    BY <1>5 DEF Queue!WorkerGiveBack, Queue!Incr, Queue!Send, Queue!Resends, Send, Resends
  <2>2. NothingResent' => stock' = stock + 1
    BY <2>1, SendRan, RanOnce DEF Commands, CounterType
  <2>3. /\ wpc[w] = "giveBack"
        /\ wpc' = [wpc EXCEPT ![w] = "pop"] /\ job' = [job EXCEPT ![w] = NoOne]
        /\ UNCHANGED <<origin, pc, userKey, rejects, lostAcks, queue, coupons, issuedCount, lostJobs>>
    BY <1>5 DEF Queue!WorkerGiveBack
  <2>4. WorkTells(w, "pop") /\ WorkExact(w, "pop")
    BY <1>0, <2>2, <2>3 DEF WorkTells, WorkExact
  <2>5. QED  BY <2>4
<1>6. CASE Queue!JobLost(w)
  <2>1. /\ Queue!LoseJob(w)
        /\ UNCHANGED <<origin, pc, userKey, rejects, lostAcks, queue, coupons>>
    BY <1>6 DEF Queue!JobLost
  <2>2. PICK l \in Queue!Waiting : WorkTells(w, l) /\ WorkExact(w, l)
    BY <1>1, <2>1 DEF WorkTells, WorkExact
  <2>3. QED  BY <2>2
<1>7. CASE Queue!WorkerStops(w) \/ Queue!StartWorker(w)
  <2>1. PICK l \in Queue!Waiting : wpc' = [wpc EXCEPT ![w] = l] /\ wpc[w] \in Queue!Waiting
    BY <1>0, <1>7 DEF Queue!WorkerStops, Queue!StartWorker
  <2>2. UNCHANGED <<origin, pc, userKey, rejects, lostAcks, stock, queue, coupons,
                    issuedCount, job, lostJobs>>
    BY <1>7 DEF Queue!WorkerStops, Queue!StartWorker
  <2>3. WorkTells(w, l) /\ WorkExact(w, l)
    BY <2>1, <2>2 DEF WorkTells, WorkExact
  <2>4. QED  BY <2>3
<1>8. QED  BY <1>2, <1>3, <1>4, <1>5, <1>6, <1>7 DEF Queue!WorkerStep, Queue!WorkerEvent

(* A command that has run twice has not run once.                          *)
LEMMA ResentBefore ==
  ASSUME CounterType, NothingResent',
         \/ resent' = resent
         \/ \E c \in Commands, again \in {0, 1} : Ran(c, again)
  PROVE  NothingResent
<1>1. CASE resent' = resent
  BY <1>1 DEF NothingResent, Resends
<1>2. ASSUME NEW c \in Commands, NEW again \in {0, 1}, Ran(c, again)
      PROVE  NothingResent
  <2>1. again = 0
    BY <1>2, RanOnce
  <2>2. \A d \in Commands : resent'[d] = resent[d]
    BY <1>2, <2>1, ResendAssumption DEF Ran, CounterType
  <2>3. QED  BY <2>2 DEF NothingResent, Resends, Commands
<1>3. QED  BY <1>1, <1>2

-----------------------------------------------------------------------------
(* What is told stays true.                                                *)

(* Coupons are only added, so a repeat stays one.                          *)
LEMMA RepeatsStay ==
  ASSUME coupons \subseteq coupons', UNCHANGED userKey, NEW q, Duplicate(q)
  PROVE  Duplicate(q)'
BY DEF Duplicate

LEMMA ControlKept ==
  ASSUME CoreType, ControlAgrees, NEW r \in Requests, NEW l, Tells(r, l),
         UNCHANGED <<strategy, wpc, job>>,
         \/ UNCHANGED queue
         \/ queue' \in Seq(At({"QUEUED"}) \cup {r}) /\ pc'[r] = "QUEUED"
  PROVE  ControlAgrees'
<1>1. /\ pc'[r] = l /\ \A q \in Requests : q # r => pc'[q] = pc[q]
      /\ UNCHANGED userKey /\ coupons \subseteq coupons'
      /\ \A q \in Requests : q # r => (q \in coupons' <=> q \in coupons)
      /\ pc[r] \notin Outcomes
  BY DEF Tells, Goto, CoreType, Adds
<1>2. \A q \in Requests : Claims(q)'
  <2>1. SUFFICES ASSUME NEW q \in Requests PROVE Claims(q)'
    OBVIOUS
  <2>2. CASE q = r
    <3>1. Duplicate(r) => Duplicate(r)'
      BY <1>1, RepeatsStay
    <3>2. QED  BY <1>1, <2>2, <3>1 DEF Claims, Tells
  <2>3. CASE q # r
    <3>1. Duplicate(q) => Duplicate(q)'
      BY <1>1, RepeatsStay
    <3>2. Claims(q)
      BY DEF ControlAgrees, Claims
    <3>3. QED  BY <1>1, <2>3, <3>1, <3>2 DEF Claims
  <2>4. QED  BY <2>2, <2>3
<1>3. At({"QUEUED"}) \subseteq At({"QUEUED"})'
  <2>1. pc[r] # "QUEUED"
    BY <1>1 DEF Outcomes, Answers
  <2>2. QED  BY <1>1, <2>1 DEF At, Where
<1>4. queue' \in Seq(At({"QUEUED"})')
  <2>1. CASE UNCHANGED queue
    BY <1>3, <2>1, SeqMonotonic DEF ControlAgrees
  <2>2. CASE queue' \in Seq(At({"QUEUED"}) \cup {r}) /\ pc'[r] = "QUEUED"
    <3>1. r \in At({"QUEUED"})'
      BY <2>2 DEF At, Where
    <3>2. At({"QUEUED"}) \cup {r} \subseteq At({"QUEUED"})'
      BY <1>3, <3>1
    <3>3. QED  BY <2>2, <3>2, SeqMonotonic
  <2>3. QED  BY <2>1, <2>2
<1>5. \A w \in Workers : wpc'[w] \notin Queue!Waiting => job'[w] \in At({"QUEUED"})'
  BY <1>3 DEF ControlAgrees
<1>6. QED  BY <1>2, <1>4, <1>5 DEF ControlAgrees, Claims, Queue!Waiting

LEMMA ControlKeptAtWork ==
  ASSUME CoreType, CounterType, ControlAgrees, NEW w \in Workers, NEW l, WorkTells(w, l),
         UNCHANGED strategy
  PROVE  ControlAgrees'
<1>1. /\ UNCHANGED <<pc, userKey>> /\ coupons \subseteq coupons'
      /\ coupons' = coupons \/ (wpc[w] = "create" /\ coupons' = coupons \cup {job[w]})
  BY DEF WorkTells, Adds
<1>2. \A q \in Requests : Claims(q)'
  <2>1. SUFFICES ASSUME NEW q \in Requests PROVE Claims(q)'
    OBVIOUS
  <2>2. Claims(q) /\ (Duplicate(q) => Duplicate(q)')
    BY <1>1, RepeatsStay DEF ControlAgrees, Claims
  <2>3. CASE q \in coupons' /\ q \notin coupons
    <3>1. wpc[w] = "create" /\ q = job[w]
      BY <1>1, <2>3
    <3>2. pc[q] = "QUEUED"
      BY <3>1 DEF ControlAgrees, At, Where, Queue!Waiting
    <3>3. QED  BY <1>1, <3>2 DEF Claims, Unserved, Repeat
  <2>4. CASE q \in coupons' <=> q \in coupons
    BY <1>1, <2>2, <2>4 DEF Claims
  <2>5. QED  BY <1>1, <2>3, <2>4
<1>3. At({"QUEUED"})' = At({"QUEUED"})
  BY <1>1 DEF At, Where
<1> DEFINE S == At({"QUEUED"})
<1>4. queue \in Seq(S)
  BY DEF ControlAgrees
<1>5. queue' \in Seq(S) /\ (queue # <<>> => Head(queue) \in S)
  <2> HIDE DEF S
  <2>1. QED  BY <1>4, HeadTailProperties DEF WorkTells
<1>6. \A v \in Workers : wpc'[v] \notin Queue!Waiting => job'[v] \in S
  <2>1. \A v \in Workers : wpc[v] \notin Queue!Waiting => job[v] \in S
    BY DEF ControlAgrees
  <2> HIDE DEF S
  <2>2. QED  BY <1>5, <2>1 DEF WorkTells, CounterType
<1>7. QED  BY <1>2, <1>3, <1>5, <1>6 DEF ControlAgrees, Claims, Queue!Waiting

(* Each step that makes a mistake is one in which a call failed.           *)
LEMMA MistakesKept ==
  ASSUME CoreType, ControlAgrees, MistakesCounted,
         NEW r \in Requests, NEW l, Tells(r, l), UNCHANGED strategy
  PROVE  MistakesCounted'
<1>1. /\ pc'[r] = l /\ \A q \in Requests : q # r => pc'[q] = pc[q]
      /\ UNCHANGED userKey /\ coupons \subseteq coupons'
      /\ \A q \in Requests : q # r => (q \in coupons' <=> q \in coupons)
  BY DEF Tells, Goto, CoreType, Adds
<1>2. Mistaken' \subseteq Mistaken \cup {r}
  <2>1. SUFFICES ASSUME NEW q \in Requests, q # r, q \in Mistaken' PROVE q \in Mistaken
    BY DEF Mistaken, AtOf, At, Where
  <2>2. /\ strategy[q] = "naive" /\ pc[q] \in {"rollback", "ALREADY_ISSUED"}
        /\ q \in coupons \/ ~Duplicate(q)'
    BY <1>1, <2>1 DEF Mistaken, AtOf, At, Where
  <2>3. Duplicate(q) => Duplicate(q)'
    BY <1>1, RepeatsStay
  <2>4. QED  BY <2>2, <2>3 DEF Mistaken, AtOf, At, Where
<1>3. Works => Mistaken' \subseteq Mistaken
  <2>1. SUFFICES ASSUME Works, r \in Mistaken' PROVE r \in Mistaken
    BY <1>2
  <2>2. /\ strategy[r] = "naive" /\ l \in {"rollback", "ALREADY_ISSUED"}
        /\ r \in coupons' \/ ~Duplicate(r)'
    BY <1>1, <2>1 DEF Mistaken, AtOf, At, Where
  <2>3. Duplicate(r) => Duplicate(r)'
    BY <1>1, RepeatsStay
  <2>4. pc[r] = "rollback" /\ coupons' = coupons
    BY <2>1, <2>2, <2>3 DEF Tells
  <2>5. Duplicate(r)' <=> Duplicate(r)
    BY <1>1, <2>4 DEF Duplicate
  <2>6. QED  BY <2>2, <2>4, <2>5 DEF Mistaken, AtOf, At, Where
<1> DEFINE m == Cardinality(Mistaken)
           m1 == Cardinality(Mistaken')
<1>4. IsFiniteSet(Mistaken) /\ m \in Nat /\ m1 \in Nat
  <2>1. IsFiniteSet(Mistaken) /\ IsFiniteSet(Mistaken')
    BY RequestsAssumption, FS_Subset DEF Mistaken, AtOf, At, Where
  <2>2. QED  BY <2>1, FS_CardinalityType
<1>5. m1 <= m + 1
  <2>1. IsFiniteSet(Mistaken \cup {r}) /\ Cardinality(Mistaken \cup {r}) <= m + 1
    BY <1>4, FS_AddElement
  <2>2. m1 <= Cardinality(Mistaken \cup {r}) /\ Cardinality(Mistaken \cup {r}) \in Nat
    BY <1>2, <2>1, FS_Subset, FS_CardinalityType
  <2>3. QED  BY <1>4, <2>1, <2>2
<1>6. Works => m1 <= m
  BY <1>3, <1>4, FS_Subset
<1>7. m <= rejects + lostAcks /\ (MistakesCounted' <=> m1 <= rejects' + lostAcks')
  BY DEF MistakesCounted
<1>8. rejects \in Nat /\ lostAcks \in Nat
  BY FaultAssumption DEF CoreType
<1> HIDE DEF m, m1
<1>9. Works \/ Fails
  BY DEF Tells
<1>10. CASE Works
  BY <1>4, <1>6, <1>7, <1>8, <1>10 DEF Works
<1>11. CASE Fails
  BY <1>4, <1>5, <1>7, <1>8, <1>11 DEF Fails
<1>12. QED  BY <1>9, <1>10, <1>11

(* A worker inserts the coupons of others.                                 *)
LEMMA MistakesKeptAtWork ==
  ASSUME CoreType, ControlAgrees, MistakesCounted,
         NEW w \in Workers, NEW l, WorkTells(w, l), UNCHANGED strategy
  PROVE  MistakesCounted'
<1>1. /\ UNCHANGED <<pc, userKey, rejects, lostAcks>> /\ coupons \subseteq coupons'
      /\ coupons' = coupons \/ (wpc[w] = "create" /\ coupons' = coupons \cup {job[w]})
  BY DEF WorkTells, Adds
<1>2. Mistaken' \subseteq Mistaken
  <2>1. SUFFICES ASSUME NEW q \in Requests, q \in Mistaken' PROVE q \in Mistaken
    BY DEF Mistaken, AtOf, At, Where
  <2>2. /\ strategy[q] = "naive" /\ pc[q] \in {"rollback", "ALREADY_ISSUED"}
        /\ q \in coupons' \/ ~Duplicate(q)'
    BY <1>1, <2>1 DEF Mistaken, AtOf, At, Where
  <2>3. wpc[w] = "create" => pc[job[w]] = "QUEUED"
    BY DEF ControlAgrees, At, Where, Queue!Waiting
  <2>4. q \in coupons' <=> q \in coupons
    BY <1>1, <2>2, <2>3
  <2>5. Duplicate(q) => Duplicate(q)'
    BY <1>1, RepeatsStay
  <2>6. QED  BY <2>2, <2>4, <2>5 DEF Mistaken, AtOf, At, Where
<1>3. IsFiniteSet(Mistaken) /\ Cardinality(Mistaken) \in Nat /\ Cardinality(Mistaken') \in Nat
  <2>1. IsFiniteSet(Mistaken) /\ IsFiniteSet(Mistaken')
    BY RequestsAssumption, FS_Subset DEF Mistaken, AtOf, At, Where
  <2>2. QED  BY <2>1, FS_CardinalityType
<1>4. Cardinality(Mistaken') <= Cardinality(Mistaken)
  BY <1>2, <1>3, FS_Subset
<1>5. rejects \in Nat /\ lostAcks \in Nat
  BY FaultAssumption DEF CoreType
<1> HIDE DEF Mistaken
<1>6. QED  BY <1>1, <1>3, <1>4, <1>5 DEF MistakesCounted

-----------------------------------------------------------------------------
(* As long as nothing fails, the books balance.                            *)

HeldNow(f) == Number(f, Holders, HeldLabels)
Counting(f) == Number(f, OnOwn, {"count"})
AtCount(g) == Cardinality({w \in Workers : g[w] = "count"})

BalancedNow ==
  Faultless =>
    /\ \A c \in coupons : pc[c] \in Served
    /\ lostJobs = 0 =>
         issuedCount + Counting(pc) + AtCount(wpc) = Cardinality(coupons) + HeldNow(pc)
    /\ lostJobs = 0 /\ NothingResent =>
         stock + Len(queue) + Hand(pc) + Pushing(pc) + AtWork(wpc) + Minted = InitialStock

LEMMA BalancedMeaning == Balanced <=> BalancedNow
<1>1. /\ AtOf({"redis", "redis-lua"}, {"create", "giveBack", "undo"})
           = {r \in Requests : strategy[r] \in OnOwn /\ pc[r] \in {"create", "giveBack", "undo"}}
      /\ AtOf({"redis-queue"}, {"push"})
           = {r \in Requests : strategy[r] \in {"redis-queue"} /\ pc[r] \in {"push"}}
      /\ AtOf({"redis", "redis-lua"}, {"count"})
           = {r \in Requests : strategy[r] \in OnOwn /\ pc[r] \in {"count"}}
      /\ Held = {r \in Requests : strategy[r] \in Holders /\ pc[r] \in HeldLabels}
  BY DEF AtOf, At, Where, OnOwn, Held, Holders, HeldLabels
<1>2. QED
  BY <1>1 DEF Balanced, BalancedNow, Hand, Pushing, AtWork, Minted, Number, HeldNow,
              Counting, AtCount, Served

LEMMA BalancedNext ==
  ASSUME UNCHANGED strategy
  PROVE  Balanced' <=>
           (Faultless' =>
              /\ \A c \in coupons' : pc'[c] \in Served
              /\ lostJobs' = 0 =>
                   issuedCount' + Counting(pc') + AtCount(wpc')
                     = Cardinality(coupons') + HeldNow(pc')
              /\ lostJobs' = 0 /\ NothingResent' =>
                   stock' + Len(queue') + Hand(pc') + Pushing(pc') + AtWork(wpc') + Minted'
                     = InitialStock')
<1>1. (Balanced <=> BalancedNow)'
  BY BalancedMeaning, PTL
<1>2. /\ Hand(pc)' = Hand(pc') /\ Pushing(pc)' = Pushing(pc') /\ AtWork(wpc)' = AtWork(wpc')
      /\ HeldNow(pc)' = HeldNow(pc') /\ Counting(pc)' = Counting(pc')
      /\ AtCount(wpc)' = AtCount(wpc')
  BY DEF Hand, Pushing, AtWork, HeldNow, Counting, AtCount, Number
<1>3. QED  BY <1>1, <1>2 DEF BalancedNow, Served

LEMMA BookNumbers ==
  ASSUME CoreType
  PROVE  /\ Counting(pc) \in Nat /\ HeldNow(pc) \in Nat
         /\ AtCount(wpc) \in Nat
         /\ IsFiniteSet(coupons) /\ Cardinality(coupons) \in Nat
         /\ issuedCount \in Int
<1>1. Counting(pc) \in Nat /\ HeldNow(pc) \in Nat
  BY NumberNat DEF Counting, HeldNow
<1>2. AtCount(wpc) \in Nat
  <2>1. IsFiniteSet({w \in Workers : wpc[w] = "count"})
    BY FS_Subset, RouterAssumption
  <2>2. QED  BY <2>1, FS_CardinalityType DEF AtCount
<1>3. IsFiniteSet(coupons) /\ Cardinality(coupons) \in Nat
  BY CouponsFinite DEF CoreType
<1>4. issuedCount \in Int
  BY DEF CoreType
<1>5. QED  BY <1>1, <1>2, <1>3, <1>4

(* A step in which no call fails keeps what issuedCount differs by from    *)
(* the coupons.                                                            *)
LEMMA CountsKept ==
  ASSUME CoreType, NEW r \in Requests, NEW l, Tells(r, l), Exact(r, l), Works
  PROVE  /\ issuedCount' + Counting(pc') + Cardinality(coupons) + HeldNow(pc)
              = issuedCount + Counting(pc) + Cardinality(coupons') + HeldNow(pc')
         /\ issuedCount' \in Int /\ Counting(pc') \in Nat /\ HeldNow(pc') \in Nat
         /\ Cardinality(coupons') \in Nat
<1> DEFINE i == issuedCount
           i1 == issuedCount'
           c == Counting(pc)
           c1 == Counting(pc')
           h == HeldNow(pc)
           h1 == HeldNow(pc')
           k == Cardinality(coupons)
           k1 == Cardinality(coupons')
<1>1. /\ c \in Nat /\ h \in Nat /\ k \in Nat /\ i \in Int /\ c1 \in Nat /\ h1 \in Nat
  BY BookNumbers, NumberNat DEF Counting, HeldNow
<1>2. Goto(r, l)
  BY DEF Tells
<1>3. /\ strategy[r] \in Holders /\ pc[r] \notin HeldLabels /\ l \in HeldLabels => h1 = h + 1
      /\ strategy[r] \in Holders /\ pc[r] \in HeldLabels /\ l \notin HeldLabels => h1 = h - 1
      /\ strategy[r] \notin Holders \/ (pc[r] \in HeldLabels <=> l \in HeldLabels) => h1 = h
  BY <1>2, NumberMoves DEF HeldNow
<1>4. /\ strategy[r] \in OnOwn /\ pc[r] # "count" /\ l = "count" => c1 = c + 1
      /\ strategy[r] \in OnOwn /\ pc[r] = "count" /\ l # "count" => c1 = c - 1
      /\ strategy[r] \notin OnOwn \/ (pc[r] = "count" <=> l = "count") => c1 = c
  BY <1>2, NumberMoves DEF Counting
<1>5. /\ coupons' = coupons => k1 = k
      /\ Adds(r) => k1 = k + 1
  BY BookNumbers, FS_AddElement DEF Adds
<1>6. Holders \cap OnOwn = {} /\ "pessimistic" \notin Holders \cup OnOwn
  BY DEF Holders, OnDatabase, OnOwn
<1> HIDE DEF i, i1, c, c1, h, h1, k, k1
<1>7. CASE /\ UNCHANGED <<issuedCount, coupons>>
           /\ strategy[r] \in Holders => (pc[r] \in HeldLabels <=> l \in HeldLabels)
           /\ strategy[r] \in OnOwn => (pc[r] = "count" <=> l = "count")
  <2>1. i1 = i /\ c1 = c /\ h1 = h /\ k1 = k
    BY <1>3, <1>4, <1>5, <1>7 DEF i, i1
  <2>2. QED  BY <1>1, <2>1 DEF i, i1, c, c1, h, h1, k, k1
<1>8. CASE /\ strategy[r] \in Holders /\ pc[r] \notin HeldLabels /\ l \in HeldLabels
           /\ issuedCount' = issuedCount + 1 /\ UNCHANGED coupons
  <2>1. i1 = i + 1 /\ c1 = c /\ h1 = h + 1 /\ k1 = k
    BY <1>3, <1>4, <1>5, <1>6, <1>8 DEF i, i1
  <2>2. i1 + c1 + k + h = i + c + k1 + h1 /\ i1 \in Int /\ k1 \in Nat
    BY <1>1, <2>1
  <2>3. QED  BY <1>1, <2>2 DEF i, i1, c, c1, h, h1, k, k1
<1>9. CASE /\ strategy[r] \in Holders /\ pc[r] \in HeldLabels /\ l \notin HeldLabels
           /\ \/ UNCHANGED issuedCount /\ Adds(r)
              \/ issuedCount' = issuedCount - 1 /\ UNCHANGED coupons
  <2>1. c1 = c /\ h1 = h - 1
    BY <1>3, <1>4, <1>6, <1>9
  <2>2. (i1 = i /\ k1 = k + 1) \/ (i1 = i - 1 /\ k1 = k)
    BY <1>5, <1>9 DEF i, i1
  <2>3. i1 + c1 + k + h = i + c + k1 + h1 /\ i1 \in Int /\ k1 \in Nat
    BY <1>1, <2>1, <2>2
  <2>4. QED  BY <1>1, <2>3 DEF i, i1, c, c1, h, h1, k, k1
<1>10. CASE strategy[r] = "pessimistic" /\ issuedCount' = issuedCount + 1 /\ Adds(r)
  <2>1. c1 = c /\ h1 = h /\ i1 = i + 1 /\ k1 = k + 1
    BY <1>3, <1>4, <1>5, <1>6, <1>10 DEF i, i1
  <2>2. i1 + c1 + k + h = i + c + k1 + h1 /\ i1 \in Int /\ k1 \in Nat
    BY <1>1, <2>1
  <2>3. QED  BY <1>1, <2>2 DEF i, i1, c, c1, h, h1, k, k1
<1>11. CASE /\ strategy[r] \in OnOwn /\ pc[r] # "count" /\ l = "count"
            /\ UNCHANGED issuedCount /\ Adds(r)
  <2>1. c1 = c + 1 /\ h1 = h /\ i1 = i /\ k1 = k + 1
    BY <1>3, <1>4, <1>5, <1>6, <1>11 DEF i, i1
  <2>2. i1 + c1 + k + h = i + c + k1 + h1 /\ i1 \in Int /\ k1 \in Nat
    BY <1>1, <2>1
  <2>3. QED  BY <1>1, <2>2 DEF i, i1, c, c1, h, h1, k, k1
<1>12. CASE /\ strategy[r] \in OnOwn /\ pc[r] = "count" /\ l # "count"
            /\ issuedCount' = issuedCount + 1 /\ UNCHANGED coupons
  <2>1. c1 = c - 1 /\ h1 = h /\ i1 = i + 1 /\ k1 = k
    BY <1>3, <1>4, <1>5, <1>6, <1>12 DEF i, i1
  <2>2. i1 + c1 + k + h = i + c + k1 + h1 /\ i1 \in Int /\ k1 \in Nat
    BY <1>1, <2>1
  <2>3. QED  BY <1>1, <2>2 DEF i, i1, c, c1, h, h1, k, k1
<1>13. QED  BY <1>7, <1>8, <1>9, <1>10, <1>11, <1>12 DEF Exact

(* And, when no command has run twice, where the slots of the counter are. *)
SlotsSame ==
  stock' + Len(queue') + Hand(pc') + Pushing(pc') + Minted'
    = stock + Len(queue) + Hand(pc) + Pushing(pc) + Minted

LEMMA SlotsKept ==
  ASSUME CoreType, CounterType, NEW r \in Requests, NEW l, Tells(r, l), SlotExact(r, l),
         Works, NothingResent', UNCHANGED strategy, CounterType'
  PROVE  SlotsSame
<1> DEFINE t == stock
           t1 == stock'
           q == Len(queue)
           q1 == Len(queue')
           h == Hand(pc)
           h1 == Hand(pc')
           u == Pushing(pc)
           u1 == Pushing(pc')
           m == Minted
           m1 == Minted'
<1>1. t \in Int /\ q \in Nat /\ h \in Nat /\ u \in Nat /\ m \in Nat
  BY LedgerNumbers
<1>2. Goto(r, l)
  BY DEF Tells
<1>3. /\ strategy[r] \in OnOwn /\ pc[r] \notin HandLabels /\ l \in HandLabels => h1 = h + 1
      /\ strategy[r] \in OnOwn /\ pc[r] \in HandLabels /\ l \notin HandLabels => h1 = h - 1
      /\ strategy[r] \notin OnOwn \/ (pc[r] \in HandLabels <=> l \in HandLabels) => h1 = h
  BY <1>2, NumberMoves DEF Hand, HandLabels
<1>4. /\ strategy[r] = "redis-queue" /\ pc[r] # "push" /\ l = "push" => u1 = u + 1
      /\ strategy[r] = "redis-queue" /\ pc[r] = "push" /\ l # "push" => u1 = u - 1
      /\ strategy[r] # "redis-queue" \/ (pc[r] = "push" <=> l = "push") => u1 = u
  BY <1>2, NumberMoves DEF Pushing
<1>5. OnOwn \subseteq OnCounter /\ "redis-queue" \notin OnOwn
  BY DEF OnOwn, OnCounter
<1>6. /\ UNCHANGED coupons => m1 = m
      /\ Adds(r) /\ strategy[r] \in OnOwn => m1 = m + 1
  BY <1>5, MintedMoves DEF Adds, CouponsOf
<1> HIDE DEF t, t1, q, q1, h, h1, u, u1, m, m1
<1>7. CASE /\ UNCHANGED <<stock, queue, coupons>>
           /\ strategy[r] \in OnOwn => (pc[r] \in HandLabels <=> l \in HandLabels)
           /\ strategy[r] = "redis-queue" => (pc[r] = "push" <=> l = "push")
  <2>1. t1 = t /\ q1 = q /\ h1 = h /\ u1 = u /\ m1 = m
    BY <1>3, <1>4, <1>6, <1>7 DEF t, t1, q, q1
  <2>2. QED  BY <2>1 DEF SlotsSame, t, t1, q, q1, h, h1, u, u1, m, m1
<1>8. CASE /\ strategy[r] \in OnOwn /\ pc[r] \notin HandLabels /\ l \in HandLabels
           /\ stock' = stock - 1 /\ UNCHANGED <<queue, coupons>>
  <2>1. t1 = t - 1 /\ q1 = q /\ h1 = h + 1 /\ u1 = u /\ m1 = m
    BY <1>3, <1>4, <1>5, <1>6, <1>8 DEF t, t1, q, q1
  <2>2. t1 + q1 + h1 + u1 + m1 = t + q + h + u + m
    BY <1>1, <2>1
  <2>3. QED  BY <2>2 DEF SlotsSame, t, t1, q, q1, h, h1, u, u1, m, m1
<1>9. CASE /\ strategy[r] \in OnOwn /\ pc[r] \in HandLabels /\ l \notin HandLabels
           /\ UNCHANGED queue
           /\ \/ UNCHANGED stock /\ Adds(r)
              \/ stock' = stock + 1 /\ UNCHANGED coupons
  <2>1. q1 = q /\ h1 = h - 1 /\ u1 = u
    BY <1>3, <1>4, <1>5, <1>9 DEF q, q1
  <2>2. (t1 = t /\ m1 = m + 1) \/ (t1 = t + 1 /\ m1 = m)
    BY <1>6, <1>9 DEF t, t1
  <2>3. t1 + q1 + h1 + u1 + m1 = t + q + h + u + m
    BY <1>1, <2>1, <2>2
  <2>4. QED  BY <2>3 DEF SlotsSame, t, t1, q, q1, h, h1, u, u1, m, m1
<1>10. CASE /\ strategy[r] = "redis-queue" /\ pc[r] # "push" /\ l = "push"
            /\ stock' = stock - 1 /\ UNCHANGED <<queue, coupons>>
  <2>1. t1 = t - 1 /\ q1 = q /\ h1 = h /\ u1 = u + 1 /\ m1 = m
    BY <1>3, <1>4, <1>5, <1>6, <1>10 DEF t, t1, q, q1
  <2>2. t1 + q1 + h1 + u1 + m1 = t + q + h + u + m
    BY <1>1, <2>1
  <2>3. QED  BY <2>2 DEF SlotsSame, t, t1, q, q1, h, h1, u, u1, m, m1
<1>11. CASE /\ strategy[r] = "redis-queue" /\ pc[r] = "push" /\ l # "push"
            /\ Len(queue') = Len(queue) + 1 /\ UNCHANGED <<stock, coupons>>
  <2>1. t1 = t /\ q1 = q + 1 /\ h1 = h /\ u1 = u - 1 /\ m1 = m
    BY <1>3, <1>4, <1>5, <1>6, <1>11 DEF t, t1, q, q1
  <2>2. t1 + q1 + h1 + u1 + m1 = t + q + h + u + m
    BY <1>1, <2>1
  <2>3. QED  BY <2>2 DEF SlotsSame, t, t1, q, q1, h, h1, u, u1, m, m1
<1>12. QED  BY <1>7, <1>8, <1>9, <1>10, <1>11 DEF SlotExact

(* A request of a database strategy has no part in that.                   *)
LEMMA DatabaseSlots ==
  ASSUME CoreType, NEW r \in Requests, NEW l, Tells(r, l), strategy[r] \in OnDatabase,
         UNCHANGED <<strategy, stock, queue>>
  PROVE  SlotsSame
<1>1. strategy[r] \notin OnOwn /\ strategy[r] \notin {"redis-queue"} /\ strategy[r] \notin OnCounter
  BY DEF OnDatabase, OnOwn, OnCounter
<1>2. Goto(r, l)
  BY DEF Tells
<1>3. Hand(pc') = Hand(pc) /\ Pushing(pc') = Pushing(pc)
  BY <1>1, <1>2, NumberMoves DEF Hand, Pushing
<1>4. CouponsOf(OnCounter)' = CouponsOf(OnCounter)
  BY <1>1 DEF Tells, Adds, CouponsOf
<1>5. Minted' = Minted
  BY <1>4 DEF Minted
<1>6. QED  BY <1>3, <1>5 DEF SlotsSame

(* So what balanced before the step of a request balances after it.        *)
LEMMA BalancedKept ==
  ASSUME CoreType, CounterType, CoreType', CounterType', Balanced,
         NEW r \in Requests, NEW l, Tells(r, l), Exact(r, l),
         Works /\ NothingResent' => SlotsSame,
         NothingResent' => NothingResent,
         UNCHANGED <<origin, strategy, wpc, lostJobs>>
  PROVE  Balanced'
<1> SUFFICES ASSUME Faultless'
             PROVE  /\ \A c \in coupons' : pc'[c] \in Served
                    /\ lostJobs' = 0 =>
                         issuedCount' + Counting(pc') + AtCount(wpc')
                           = Cardinality(coupons') + HeldNow(pc')
                    /\ lostJobs' = 0 /\ NothingResent' =>
                         stock' + Len(queue') + Hand(pc') + Pushing(pc') + AtWork(wpc') + Minted'
                           = InitialStock'
  BY BalancedNext
<1>1. Goto(r, l) /\ pc[r] \notin Outcomes /\ (Works \/ Fails)
  BY DEF Tells
<1>2. /\ rejects \in Nat /\ lostAcks \in Nat /\ rejects' = 0 /\ lostAcks' = 0
      /\ \A q \in Requests : pc'[q] # "DEAD"
  BY FaultAssumption DEF CoreType, Faultless
<1>3. Works /\ Faultless
  <2>1. Works
    BY <1>1, <1>2 DEF Fails
  <2>2. \A q \in Requests : pc[q] # "DEAD"
    BY <1>1, <1>2 DEF Goto, CoreType, Outcomes
  <2>3. QED  BY <1>2, <2>1, <2>2 DEF Works, Faultless
<1>4. BalancedNow
  BY BalancedMeaning
<1>5. \A c \in coupons' : pc'[c] \in Served
  <2>1. SUFFICES ASSUME NEW c \in coupons' PROVE pc'[c] \in Served
    OBVIOUS
  <2>2. c \in Requests
    BY DEF CoreType
  <2>3. \A d \in coupons : pc[d] \in Served
    BY <1>3, <1>4 DEF BalancedNow
  <2>4. CASE c = r
    <3>1. l \in Served
      BY <1>3, <2>3, <2>4 DEF Tells
    <3>2. QED  BY <1>1, <2>4, <3>1 DEF Goto, CoreType
  <2>5. CASE c # r
    <3>1. c \in coupons /\ pc'[c] = pc[c]
      BY <1>1, <2>2, <2>5 DEF Tells, Adds, Goto, CoreType
    <3>2. QED  BY <2>3, <3>1
  <2>6. QED  BY <2>4, <2>5
<1>6. ASSUME lostJobs' = 0
      PROVE  issuedCount' + Counting(pc') + AtCount(wpc') = Cardinality(coupons') + HeldNow(pc')
  <2> DEFINE i == issuedCount
             i1 == issuedCount'
             c == Counting(pc)
             c1 == Counting(pc')
             h == HeldNow(pc)
             h1 == HeldNow(pc')
             k == Cardinality(coupons)
             k1 == Cardinality(coupons')
             a == AtCount(wpc)
  <2>1. i1 + c1 + k + h = i + c + k1 + h1 /\ i1 \in Int /\ c1 \in Nat /\ h1 \in Nat /\ k1 \in Nat
    BY <1>3, CountsKept
  <2>2. c \in Nat /\ h \in Nat /\ a \in Nat /\ k \in Nat /\ i \in Int
    BY BookNumbers
  <2>3. i + c + a = k + h
    BY <1>3, <1>4, <1>6 DEF BalancedNow
  <2>4. AtCount(wpc') = a
    OBVIOUS
  <2> HIDE DEF i, i1, c, c1, h, h1, k, k1, a
  <2>5. i1 + c1 + a = k1 + h1
    BY <2>1, <2>2, <2>3
  <2>6. QED  BY <2>4, <2>5 DEF i1, c1, k1, h1
<1>7. ASSUME lostJobs' = 0, NothingResent'
      PROVE  stock' + Len(queue') + Hand(pc') + Pushing(pc') + AtWork(wpc') + Minted'
               = InitialStock'
  <2> DEFINE t == stock
             t1 == stock'
             q == Len(queue)
             q1 == Len(queue')
             h == Hand(pc)
             h1 == Hand(pc')
             u == Pushing(pc)
             u1 == Pushing(pc')
             m == Minted
             m1 == Minted'
             a == AtWork(wpc)
             n == InitialStock
  <2>1. t1 + q1 + h1 + u1 + m1 = t + q + h + u + m
    BY <1>3, <1>7 DEF SlotsSame
  <2>2. /\ t \in Int /\ q \in Nat /\ h \in Nat /\ u \in Nat /\ m \in Nat /\ a \in Nat /\ n \in Nat
        /\ t1 \in Int /\ q1 \in Nat /\ h1 \in Nat /\ u1 \in Nat /\ m1 \in Nat
    BY LedgerNumbers, LedgerNext
  <2>3. t + q + h + u + a + m = n
    BY <1>3, <1>4, <1>7 DEF BalancedNow
  <2>4. AtWork(wpc') = a /\ InitialStock' = n
    BY DEF InitialStock
  <2> HIDE DEF t, t1, q, q1, h, h1, u, u1, m, m1, a, n
  <2>5. t1 + q1 + h1 + u1 + a + m1 = n
    BY <2>1, <2>2, <2>3
  <2>6. QED  BY <2>4, <2>5 DEF t1, q1, h1, u1, m1
<1>8. QED  BY <1>5, <1>6, <1>7

(* How a step of a worker changes the number of workers about to count.    *)
LEMMA AtCountMoves ==
  ASSUME CounterType, NEW w \in Workers, NEW l, wpc' = [wpc EXCEPT ![w] = l]
  PROVE  /\ wpc[w] # "count" /\ l = "count" => AtCount(wpc') = AtCount(wpc) + 1
         /\ wpc[w] = "count" /\ l # "count" => AtCount(wpc') = AtCount(wpc) - 1
         /\ (wpc[w] = "count" <=> l = "count") => AtCount(wpc') = AtCount(wpc)
<1> DEFINE X == {v \in Workers : wpc[v] = "count"}
           Y == {v \in Workers : wpc'[v] = "count"}
<1>1. IsFiniteSet(X)
  BY FS_Subset, RouterAssumption
<1>2. /\ wpc[w] # "count" /\ l = "count" => w \notin X /\ Y = X \cup {w}
      /\ wpc[w] = "count" /\ l # "count" => w \in X /\ Y = X \ {w}
      /\ (wpc[w] = "count" <=> l = "count") => Y = X
  BY DEF CounterType
<1>3. AtCount(wpc) = Cardinality(X) /\ AtCount(wpc') = Cardinality(Y)
  BY DEF AtCount
<1> HIDE DEF X, Y
<1>4. /\ w \notin X /\ Y = X \cup {w} => Cardinality(Y) = Cardinality(X) + 1
      /\ w \in X /\ Y = X \ {w} => Cardinality(Y) = Cardinality(X) - 1
  BY <1>1, FS_AddElement, FS_RemoveElement
<1>5. QED  BY <1>2, <1>3, <1>4

LEMMA BalancedKeptAtWork ==
  ASSUME CoreType, CounterType, ControlAgrees, Balanced,
         NEW w \in Workers, NEW l, WorkTells(w, l), WorkExact(w, l),
         NothingResent' => NothingResent, UNCHANGED strategy
  PROVE  Balanced'
<1> SUFFICES ASSUME Faultless'
             PROVE  /\ \A c \in coupons' : pc'[c] \in Served
                    /\ lostJobs' = 0 =>
                         issuedCount' + Counting(pc') + AtCount(wpc')
                           = Cardinality(coupons') + HeldNow(pc')
                    /\ lostJobs' = 0 /\ NothingResent' =>
                         stock' + Len(queue') + Hand(pc') + Pushing(pc') + AtWork(wpc') + Minted'
                           = InitialStock'
  BY BalancedNext
<1>1. UNCHANGED <<origin, pc, userKey, rejects, lostAcks>> /\ wpc' = [wpc EXCEPT ![w] = l]
  BY DEF WorkTells
<1>2. Faultless /\ BalancedNow
  BY <1>1, BalancedMeaning DEF Faultless
<1>3. \A c \in coupons' : pc'[c] \in Served
  <2>1. wpc[w] = "create" => pc[job[w]] = "QUEUED"
    BY DEF ControlAgrees, At, Where, Queue!Waiting
  <2>2. \A c \in coupons : pc[c] \in Served
    BY <1>2 DEF BalancedNow
  <2>3. QED  BY <1>1, <2>1, <2>2 DEF WorkTells, Adds, Served
<1> SUFFICES ASSUME lostJobs' = 0
             PROVE  /\ issuedCount' + Counting(pc') + AtCount(wpc')
                         = Cardinality(coupons') + HeldNow(pc')
                    /\ NothingResent' =>
                         stock' + Len(queue') + Hand(pc') + Pushing(pc') + AtWork(wpc') + Minted'
                           = InitialStock'
  BY <1>3
<1>4. lostJobs = 0 /\ lostJobs' = lostJobs
  BY DEF WorkTells, CounterType
<1> DEFINE i == issuedCount
           i1 == issuedCount'
           k == Cardinality(coupons)
           k1 == Cardinality(coupons')
           c == Counting(pc)
           h == HeldNow(pc)
           a == AtCount(wpc)
           a1 == AtCount(wpc')
           t == stock
           t1 == stock'
           q == Len(queue)
           q1 == Len(queue')
           d == Hand(pc)
           u == Pushing(pc)
           b == AtWork(wpc)
           b1 == AtWork(wpc')
           m == Minted
           m1 == Minted'
           n == InitialStock
<1>5. i + c + a = k + h /\ (NothingResent' => t + q + d + u + b + m = n)
  BY <1>2, <1>4 DEF BalancedNow
<1>6. /\ i \in Int /\ k \in Nat /\ c \in Nat /\ h \in Nat /\ a \in Nat /\ t \in Int /\ q \in Nat
      /\ d \in Nat /\ u \in Nat /\ b \in Nat /\ m \in Nat /\ n \in Nat
  BY BookNumbers, LedgerNumbers
<1>7. /\ Counting(pc') = c /\ HeldNow(pc') = h /\ Hand(pc') = d /\ Pushing(pc') = u
      /\ InitialStock' = n
  BY <1>1 DEF InitialStock
<1>8. /\ UNCHANGED coupons => k1 = k /\ m1 = m
      /\ Adds(job[w]) /\ wpc[w] \notin Queue!Waiting => k1 = k + 1 /\ m1 = m + 1
  <2>1. UNCHANGED coupons => k1 = k /\ m1 = m
    BY DEF Minted, CouponsOf
  <2>2. ASSUME Adds(job[w]), wpc[w] \notin Queue!Waiting
        PROVE  k1 = k + 1 /\ m1 = m + 1
    <3>1. job[w] \in Requests /\ strategy[job[w]] \in OnCounter
      BY <2>2 DEF CounterType, Jobs, OnCounter
    <3>2. k1 = k + 1
      BY <2>2, BookNumbers, FS_AddElement DEF Adds
    <3>3. m1 = m + 1
      BY <2>2, <3>1, MintedMoves DEF Adds
    <3>4. QED  BY <3>2, <3>3
  <2>3. QED  BY <2>1, <2>2
<1>9. /\ wpc[w] # "count" /\ l = "count" => a1 = a + 1
      /\ wpc[w] = "count" /\ l # "count" => a1 = a - 1
      /\ (wpc[w] = "count" <=> l = "count") => a1 = a
  BY <1>1, AtCountMoves
<1>10. LET busy == {"create", "giveBack"}
       IN  /\ wpc[w] \notin busy /\ l \in busy => b1 = b + 1
           /\ wpc[w] \in busy /\ l \notin busy => b1 = b - 1
           /\ (wpc[w] \in busy <=> l \in busy) => b1 = b
  BY <1>1, AtWorkMoves
<1>11. SUFFICES /\ i1 + c + a1 = k1 + h
                /\ NothingResent' => t1 + q1 + d + u + b1 + m1 = n
  BY <1>7
<1> HIDE DEF i, i1, k, k1, c, h, a, a1, t, t1, q, q1, d, u, b, b1, m, m1, n
<1>12. CASE /\ wpc[w] = "pop" /\ l = "create" /\ queue # <<>> /\ queue' = Tail(queue)
            /\ UNCHANGED <<stock, coupons, issuedCount>>
  <2>1. i1 = i /\ k1 = k /\ m1 = m /\ a1 = a /\ t1 = t /\ b1 = b + 1
    BY <1>8, <1>9, <1>10, <1>12 DEF i, i1, t, t1
  <2>2. q1 = q - 1
    BY <1>12, HeadTailProperties DEF q, q1, CounterType
  <2>3. QED  BY <1>5, <1>6, <2>1, <2>2
<1>13. CASE /\ wpc[w] = "create" /\ l = "count" /\ Adds(job[w])
            /\ UNCHANGED <<stock, queue, issuedCount>>
  <2>1. i1 = i /\ k1 = k + 1 /\ m1 = m + 1 /\ a1 = a + 1 /\ t1 = t /\ q1 = q /\ b1 = b - 1
    BY <1>8, <1>9, <1>10, <1>13 DEF i, i1, t, t1, q, q1, Queue!Waiting
  <2>2. QED  BY <1>5, <1>6, <2>1
<1>14. CASE /\ wpc[w] = "create" /\ l = "giveBack"
            /\ UNCHANGED <<stock, queue, coupons, issuedCount>>
  <2>1. i1 = i /\ k1 = k /\ m1 = m /\ a1 = a /\ t1 = t /\ q1 = q /\ b1 = b
    BY <1>8, <1>9, <1>10, <1>14 DEF i, i1, t, t1, q, q1
  <2>2. QED  BY <1>5, <1>6, <2>1
<1>15. CASE /\ wpc[w] = "count" /\ l \in Queue!Waiting /\ issuedCount' = issuedCount + 1
            /\ UNCHANGED <<stock, queue, coupons>>
  <2>1. i1 = i + 1 /\ k1 = k /\ m1 = m /\ a1 = a - 1 /\ t1 = t /\ q1 = q /\ b1 = b
    BY <1>8, <1>9, <1>10, <1>15 DEF i, i1, t, t1, q, q1, Queue!Waiting
  <2>2. QED  BY <1>5, <1>6, <2>1
<1>16. CASE /\ wpc[w] = "giveBack" /\ l = "pop"
            /\ NothingResent' => stock' = stock + 1
            /\ UNCHANGED <<queue, coupons, issuedCount>>
  <2>1. i1 = i /\ k1 = k /\ m1 = m /\ a1 = a /\ q1 = q /\ b1 = b - 1
    BY <1>8, <1>9, <1>10, <1>16 DEF i, i1, q, q1
  <2>2. NothingResent' => t1 = t + 1
    BY <1>16 DEF t, t1
  <2>3. ASSUME NothingResent'
        PROVE  t1 + q1 + d + u + b1 + m1 = n
    <3>1. t1 = t + 1 /\ t + q + d + u + b + m = n
      BY <1>5, <2>2, <2>3
    <3>2. QED  BY <1>6, <2>1, <3>1
  <2>4. i1 + c + a1 = k1 + h
    BY <1>5, <1>6, <2>1
  <2>5. QED  BY <2>3, <2>4
<1>17. CASE /\ wpc[w] \in Queue!Waiting /\ l \in Queue!Waiting
            /\ UNCHANGED <<stock, queue, coupons, issuedCount>>
  <2>1. i1 = i /\ k1 = k /\ m1 = m /\ a1 = a /\ t1 = t /\ q1 = q /\ b1 = b
    BY <1>8, <1>9, <1>10, <1>17 DEF i, i1, t, t1, q, q1, Queue!Waiting
  <2>2. QED  BY <1>5, <1>6, <2>1
<1>18. QED  BY <1>4, <1>12, <1>13, <1>14, <1>15, <1>16, <1>17 DEF WorkExact

-----------------------------------------------------------------------------
(* Every step keeps all of it.                                             *)

(* The invariant in full: the bounds, and what is told and kept exact.     *)
Told == ControlAgrees /\ MistakesCounted /\ Balanced
Whole == Inner /\ Told

LEMMA DatabaseKeepsTold ==
  ASSUME Whole, NEW r \in Requests, strategy[r] \in OnDatabase, CoreType', CounterType',
         NEW l, Tells(r, l), Exact(r, l),
         UNCHANGED <<origin, strategy, stockVars, workerVars>>
  PROVE  Told'
<1>1. /\ CoreType /\ CounterType /\ ControlAgrees /\ MistakesCounted /\ Balanced
      /\ UNCHANGED <<stock, resent, queue, wpc, job, lostJobs>>
  BY DEF Whole, Told, Inner, stockVars, workerVars
<1>2. ControlAgrees'
  BY <1>1, ControlKept
<1>3. MistakesCounted'
  BY <1>1, MistakesKept
<1>4. SlotsSame
  BY <1>1, DatabaseSlots
<1>5. NothingResent' => NothingResent
  BY <1>1, ResentBefore
<1>6. Balanced'
  BY <1>1, <1>4, <1>5, BalancedKept
<1>7. QED  BY <1>2, <1>3, <1>6 DEF Told

LEMMA CounterKeepsTold ==
  ASSUME Whole, NEW r \in Requests, CoreType', CounterType',
         NEW l, Tells(r, l), Exact(r, l), SlotExact(r, l),
         \E m : CounterStep(r, m),
         \/ UNCHANGED queue
         \/ queue' \in Seq(At({"QUEUED"}) \cup {r}) /\ pc'[r] = "QUEUED",
         UNCHANGED <<strategy, wpc, job, lostJobs>>
  PROVE  Told'
<1>1. /\ CoreType /\ CounterType /\ ControlAgrees /\ MistakesCounted /\ Balanced
      /\ UNCHANGED origin
  BY DEF Whole, Told, Inner, CounterStep
<1>2. ControlAgrees'
  BY <1>1, ControlKept
<1>3. MistakesCounted'
  BY <1>1, MistakesKept
<1>4. Works /\ NothingResent' => SlotsSame
  BY <1>1, SlotsKept
<1>5. resent' = resent \/ \E c \in Commands, again \in {0, 1} : Ran(c, again)
  BY DEF CounterStep, Passes, Decrements, Evaluates, Mints, Increments, Pushes, Commands
<1>6. NothingResent' => NothingResent
  BY <1>1, <1>5, ResentBefore
<1>7. Balanced'
  BY <1>1, <1>4, <1>6, BalancedKept
<1>8. QED  BY <1>2, <1>3, <1>7 DEF Told

LEMMA IterationKeepsWhole ==
  ASSUME Whole, NEW r \in Requests, Iteration(r)
  PROVE  Whole'
<1>0. /\ CoreType /\ CounterType /\ UNCHANGED strategy /\ Issue(r)
      /\ Claims(r) /\ queue \in Seq(At({"QUEUED"}))
  BY DEF Whole, Told, Inner, Iteration, Issue, ControlAgrees, Claims
<1>1. Inner'
  BY IterationKeeps DEF Whole
<1>2. CoreType' /\ CounterType'
  BY <1>1 DEF Inner
<1>3. CASE /\ \/ strategy[r] = "naive" /\ Naive!Step(r)
              \/ strategy[r] = "atomic" /\ Atomic!Step(r)
              \/ strategy[r] = "pessimistic" /\ Pessimistic!Step(r)
           /\ UNCHANGED <<stockVars, stranded, loopVars, workerVars>>
  <2>1. strategy[r] \in OnDatabase
    BY <1>3 DEF OnDatabase
  <2>2. UNCHANGED origin
    <3>1. PICK l : DatabaseStep(r, l)
      BY <1>0, <1>3, NaiveSteps, AtomicSteps, PessimisticSteps
    <3>2. QED  BY <3>1 DEF DatabaseStep
  <2>3. PICK l : Tells(r, l) /\ Exact(r, l)
    BY <1>0, <1>3, NaiveTells, AtomicTells, PessimisticTells
  <2>4. Told'
    BY <1>0, <1>2, <1>3, <2>1, <2>2, <2>3, DatabaseKeepsTold
  <2>5. QED  BY <1>1, <2>4 DEF Whole
<1>4. CASE strategy[r] = "optimistic" /\ Optimistic!Step(r)
           /\ UNCHANGED <<stockVars, stranded, workerVars>>
  <2>1. strategy[r] \in OnDatabase
    BY <1>4 DEF OnDatabase
  <2>2. UNCHANGED origin
    <3>1. PICK l : DatabaseStep(r, l)
      BY <1>0, <1>4, OptimisticSteps
    <3>2. QED  BY <3>1 DEF DatabaseStep
  <2>3. PICK l : Tells(r, l) /\ Exact(r, l)
    BY <1>0, <1>4, OptimisticTells
  <2>4. Told'
    BY <1>0, <1>2, <1>4, <2>1, <2>2, <2>3, DatabaseKeepsTold
  <2>5. QED  BY <1>1, <2>4 DEF Whole
<1>5. CASE /\ \/ strategy[r] = "redis" /\ Redis!Step(r)
              \/ strategy[r] = "redis-lua" /\ RedisLua!Step(r)
           /\ UNCHANGED <<loopVars, workerVars>>
  <2>1. strategy[r] \in OnOwn
    BY <1>5 DEF OnOwn
  <2>2. UNCHANGED <<queue, wpc, job, lostJobs>>
    BY <1>5 DEF workerVars
  <2>3. Redis!Step(r) \/ RedisLua!Lookup(r)
    BY <1>5, SameSteps
  <2>4. PICK l : Tells(r, l) /\ Exact(r, l) /\ SlotExact(r, l)
    BY <1>0, <2>1, <2>2, <2>3, RedisTells
  <2>5. \E m : CounterStep(r, m)
    BY <1>0, <2>1, <2>2, <2>3, RedisSteps
  <2>6. Told'
    BY <1>0, <1>2, <2>2, <2>4, <2>5, CounterKeepsTold
  <2>7. QED  BY <1>1, <2>6 DEF Whole
<1>6. CASE /\ strategy[r] = "redis-queue"
           /\ \/ Queue!RequestStep(r)
              \/ Reject(r, Queue!Catches) /\ UNCHANGED <<stockVars, workerVars>>
           /\ UNCHANGED <<stranded, loopVars>>
  <2>1. (\E m : CounterStep(r, m)) /\ UNCHANGED <<wpc, job, lostJobs>>
    BY <1>0, <1>6, QueueSteps
  <2>2. \/ UNCHANGED queue
        \/ queue' \in Seq(At({"QUEUED"}) \cup {r}) /\ pc'[r] = "QUEUED"
    BY <1>0, <1>6, QueueTells
  <2>3. PICK l : Tells(r, l) /\ Exact(r, l) /\ SlotExact(r, l)
    BY <1>0, <1>6, QueueTells
  <2>4. Told'
    BY <1>0, <1>2, <2>1, <2>2, <2>3, CounterKeepsTold
  <2>5. QED  BY <1>1, <2>4 DEF Whole
<1>7. QED  BY <1>0, <1>3, <1>4, <1>5, <1>6 DEF Issue

LEMMA WorkKeepsWhole ==
  ASSUME Whole, NEW w \in Workers, Work(w)
  PROVE  Whole'
<1>0. /\ CoreType /\ CounterType /\ ControlAgrees /\ MistakesCounted /\ Balanced
      /\ UNCHANGED strategy /\ (Queue!WorkerStep(w) \/ Queue!WorkerEvent(w))
  BY DEF Whole, Told, Inner, Work
<1>1. Inner'
  BY WorkKeeps DEF Whole
<1>2. PICK l : WorkTells(w, l) /\ WorkExact(w, l)
  BY <1>0, WorkersTell
<1>3. resent' = resent \/ \E c \in Commands, again \in {0, 1} : Ran(c, again)
  <2>1. PICK m : WorkerDoes(w, m)
    BY <1>0, WorkerSteps
  <2>2. QED  BY <2>1 DEF WorkerDoes, Commands
<1>4. NothingResent' => NothingResent
  BY <1>0, <1>3, ResentBefore
<1>5. ControlAgrees' /\ MistakesCounted'
  BY <1>0, <1>2, ControlKeptAtWork, MistakesKeptAtWork
<1>6. Balanced'
  BY <1>0, <1>2, <1>4, BalancedKeptAtWork
<1>7. QED  BY <1>1, <1>5, <1>6 DEF Whole, Told

(* After a crash there is a request that was told nothing; what the others *)
(* were told stays true.                                                   *)
LEMMA CrashKeepsWhole ==
  ASSUME Whole, Redis!Crash, UNCHANGED <<strategy, loopVars, workerVars>>
  PROVE  Whole'
<1>0. /\ CoreType /\ CounterType /\ ControlAgrees /\ MistakesCounted
      /\ UNCHANGED <<strategy, queue, wpc, job>>
  BY DEF Whole, Told, Inner, workerVars
<1>1. Inner'
  BY CrashKeeps DEF Whole
<1>2. /\ \E r \in Requests : InFlight(r)
      /\ pc' = [r \in Requests |-> IF InFlight(r) THEN "DEAD" ELSE pc[r]]
      /\ UNCHANGED <<coupons, userKey, rejects, lostAcks>>
  BY DEF Redis!Crash, Redis!ServerStops, Redis!InFlight, Redis!Ended, Redis!Outcomes,
         Redis!Answers, InFlight, Ended, Outcomes, Answers
<1>3. /\ \A r \in Requests : pc'[r] = pc[r] \/ pc'[r] = "DEAD"
      /\ \A r \in Requests : pc'[r] = "QUEUED" <=> pc[r] = "QUEUED"
      /\ "DEAD" \in {pc'[r] : r \in Requests}
      /\ \A r \in Requests : Duplicate(r)' <=> Duplicate(r)
  BY <1>2 DEF InFlight, Ended, Outcomes, Answers, Duplicate
<1>4. ControlAgrees'
  <2>1. At({"QUEUED"})' = At({"QUEUED"})
    BY <1>3 DEF At, Where
  <2>2. \A r \in Requests : Claims(r)'
    <3>1. SUFFICES ASSUME NEW r \in Requests PROVE Claims(r)'
      OBVIOUS
    <3>2. Claims(r)
      BY <1>0 DEF ControlAgrees, Claims
    <3>3. QED  BY <1>0, <1>2, <1>3, <3>2 DEF Claims, Unserved, Repeat
  <2>3. QED  BY <1>0, <2>1, <2>2 DEF ControlAgrees, Claims
<1>5. MistakesCounted'
  <2>1. Mistaken' \subseteq Mistaken
    BY <1>0, <1>2, <1>3 DEF Mistaken, AtOf, At, Where
  <2>2. IsFiniteSet(Mistaken)
    BY RequestsAssumption, FS_Subset DEF Mistaken, AtOf, At, Where
  <2>3. /\ Cardinality(Mistaken') <= Cardinality(Mistaken)
        /\ Cardinality(Mistaken) \in Nat /\ Cardinality(Mistaken') \in Nat
    BY <2>1, <2>2, FS_Subset, FS_CardinalityType
  <2>4. rejects \in Nat /\ lostAcks \in Nat
    BY <1>0, FaultAssumption DEF CoreType
  <2> HIDE DEF Mistaken
  <2>5. QED  BY <1>0, <1>2, <2>3, <2>4 DEF MistakesCounted
<1>6. Balanced'
  BY <1>3 DEF Balanced, Faultless
<1>7. QED  BY <1>1, <1>4, <1>5, <1>6 DEF Whole, Told

LEMMA NothingKeepsWhole ==
  ASSUME Whole,
         UNCHANGED <<issuedCount, version, coupons, rowLock, requestVars, stockVars,
                     strategy, stranded, loopVars, workerVars>>,
         origin' = origin \/ (origin = "none" /\ origin' = "api")
  PROVE  Whole'
<1>0. UNCHANGED <<issuedCount, coupons, userKey, pc, rejects, lostAcks, stock, resent,
                  strategy, queue, wpc, job, lostJobs>>
  BY DEF requestVars, stockVars, loopVars, workerVars
<1>1. Inner'
  BY NothingMoves DEF Whole
<1>2. ControlAgrees' /\ MistakesCounted'
  BY <1>0 DEF Whole, Told, ControlAgrees, Duplicate, At, Where, MistakesCounted, Mistaken, AtOf
<1>3. InitialStock' = InitialStock /\ (Faultless' <=> Faultless)
      /\ (NothingResent' <=> NothingResent)
  BY <1>0 DEF InitialStock, Faultless, NothingResent, Resends
<1>4. Balanced'
  BY <1>0, <1>3 DEF Whole, Told, Balanced, AtOf, At, Where, Held, CouponsOf
<1>5. QED  BY <1>1, <1>2, <1>4 DEF Whole, Told

LEMMA WholeKept == Whole /\ [Next]_vars => Whole'
<1> SUFFICES ASSUME Whole, [Next]_vars PROVE Whole'
  OBVIOUS
<1>1. CASE CreateCampaign /\ UNCHANGED <<stockVars, strategy, stranded, loopVars, workerVars>>
  BY <1>1, NothingKeepsWhole DEF CreateCampaign
<1>2. CASE Redis!Crash /\ UNCHANGED <<strategy, loopVars, workerVars>>
  BY <1>2, CrashKeepsWhole
<1>3. CASE \E r \in Requests : Iteration(r)
  BY <1>3, IterationKeepsWhole
<1>4. CASE \E w \in Workers : Work(w)
  BY <1>4, WorkKeepsWhole
<1>5. CASE Queue!Finished /\ UNCHANGED <<strategy, stranded, loopVars>>
  <2>1. UNCHANGED <<couponDbVars, stockVars, workerVars>>
    BY <1>5 DEF Queue!Finished, Queue!AllEnded, Queue!couponDbVars, Queue!dbVars,
                Queue!requestVars, Queue!stockVars, Queue!workerVars,
                couponDbVars, dbVars, requestVars, stockVars, workerVars
  <2>2. QED  BY <1>5, <2>1, NothingKeepsWhole DEF couponDbVars, dbVars
<1>6. CASE UNCHANGED vars
  BY <1>6, NothingKeepsWhole DEF vars, couponDbVars, dbVars
<1>7. QED  BY <1>1, <1>2, <1>3, <1>4, <1>5, <1>6 DEF Next

LEMMA WholeAtFirst == Init => Whole
<1> SUFFICES ASSUME Init PROVE Whole
  OBVIOUS
<1>1. Inner
  BY InitKeeps
<1>2. CoreType /\ CounterType
  BY <1>1 DEF Inner
<1>3. /\ issuedCount = 0 /\ coupons = {} /\ pc = [r \in Requests |-> "start"]
      /\ rejects = 0 /\ lostAcks = 0 /\ stock = InitialStock
      /\ queue = <<>> /\ wpc = [w \in Workers |-> "pop"]
  BY DEF Init, Queue!Init, Queue!DbInit, Queue!StockInit, Queue!InitialStock, InitialStock
<1>4. ControlAgrees
  BY <1>3, EmptySeq DEF ControlAgrees, Unserved, Repeat, Queue!Waiting
<1>5. MistakesCounted
  <2>1. Mistaken = {}
    BY <1>3 DEF Mistaken, AtOf, At, Where
  <2>2. QED  BY <1>3, <2>1, FS_EmptySet DEF MistakesCounted
<1>6. Balanced
  <2>1. Hand(pc) = 0 /\ Pushing(pc) = 0 /\ Counting(pc) = 0 /\ HeldNow(pc) = 0
    BY <1>3, NumberNat DEF Hand, Pushing, Counting, HeldNow, HeldLabels
  <2>2. AtWork(wpc) = 0 /\ AtCount(wpc) = 0
    <3>1. /\ {w \in Workers : wpc[w] \in {"create", "giveBack"}} = {}
          /\ {w \in Workers : wpc[w] = "count"} = {}
      BY <1>3
    <3>2. QED  BY <3>1, FS_EmptySet DEF AtWork, AtCount
  <2>3. Minted = 0 /\ Cardinality(coupons) = 0 /\ Len(queue) = 0
    BY <1>3, FS_EmptySet DEF Minted, CouponsOf
  <2>4. InitialStock \in Nat
    BY <1>2, LedgerNumbers
  <2>5. BalancedNow
    BY <1>3, <2>1, <2>2, <2>3, <2>4 DEF BalancedNow
  <2>6. QED  BY <2>5, BalancedMeaning
<1>7. QED  BY <1>1, <1>4, <1>5, <1>6 DEF Whole, Told

LEMMA WholeImplies == Whole => IInv
<1> SUFFICES ASSUME Whole PROVE TypeOK
  BY DEF Whole, Told, Inner, IInv
<1>0. Inner
  BY DEF Whole
<1>1. DbTypeOK(Labels)
  BY <1>0 DEF Inner, CoreType, Attempts, DbTypeOK
<1>2. StockTypeOK
  BY <1>0 DEF Inner, CounterType, StockTypeOK
<1>3. queue \in Seq(Requests)
  <2>1. Jobs \subseteq Requests /\ queue \in Seq(Jobs)
    BY <1>0 DEF Inner, CounterType, Jobs
  <2>2. QED  BY <2>1, SeqMonotonic
<1>4. job \in [Workers -> Requests \cup {NoOne}]
  BY <1>0 DEF Inner, CounterType, Jobs
<1>5. QED
  BY <1>0, <1>1, <1>2, <1>3, <1>4 DEF Inner, TypeOK, CoreType, Attempts, CounterType

-----------------------------------------------------------------------------
(* The theorems.                                                           *)

LEMMA WholeHolds == Spec => []Whole
BY WholeAtFirst, WholeKept, PTL DEF Spec

(* Whatever strategies work on one campaign at once, in whatever order     *)
(* their calls take effect and fail: the slots of issuedCount stay within  *)
(* the stock and the excess of the mixture, the row lock protects what its *)
(* holder read, and the slots of the Redis counter are never multiplied.   *)
(* Where a request is says what the coupon table holds of it, the mistakes *)
(* of naive are no more than the calls that failed, and as long as none    *)
(* has, the books of both stores balance.                                  *)
THEOREM Invariance == Spec => []IInv
BY WholeHolds, WholeImplies, PTL

(* No mixture sells more: the database strategies TotalStock coupons, the  *)
(* excess of the mixture and one per lost acknowledgement, the redis       *)
(* strategies what the counter was set to and one per command that ran     *)
(* twice (registry.ts:12-20, docs/02-race-condition.md:16-27).             *)
THEOREM Oversell == Spec => []OversellBounded
<1>1. Inner => OversellBounded
  <2> SUFFICES ASSUME Inner PROVE OversellBounded
    OBVIOUS
  <2>0. CoreType /\ CounterType /\ SlotsBounded /\ CounterBounded /\ CounterFloor
    BY DEF Inner
  <2>1. Cardinality(CouponsOf(OnDatabase)) <= TotalStock + Excess + lostAcks
    <3> DEFINE h == Number(pc, Holders, HeldLabels)
               s == Number(pc, {"naive"}, {"increment"})
               b == Chance
               k == Sold
               e == Excess
    <3>1. /\ h \in Nat /\ s \in Nat /\ b \in {0, 1} /\ k \in Nat /\ e \in Nat
          /\ TotalStock \in Nat /\ lostAcks \in Nat
      BY <2>0, NumberNat, SlotsMeaning, StockAssumption, RouterAssumption DEF Chance, CoreType
    <3>2. k + h - lostAcks + s + b <= TotalStock + e
      BY <2>0, SlotsMeaning DEF BooksNow, Books
    <3> HIDE DEF h, s, b, k, e
    <3>3. k <= TotalStock + e + lostAcks
      BY <3>1, <3>2
    <3>4. QED  BY <3>3 DEF k, e, Sold
  <2>2. Cardinality(CouponsOf(OnCounter)) <= InitialStock + resent["INCR"] + resent["LPUSH"]
    <3> DEFINE d == resent["DECR"]
               i == resent["INCR"]
               p == resent["LPUSH"]
               q == Len(queue)
               h == Hand(pc)
               o == Owed(pc)
               u == Pushing(pc)
               k == AtWork(wpc)
               m == Minted
               n == InitialStock
    <3>1. /\ d \in Nat /\ i \in Nat /\ p \in Nat /\ q \in Nat /\ h \in Nat /\ o \in Nat
          /\ u \in Nat /\ k \in Nat /\ m \in Nat /\ n \in Nat /\ stranded \in Nat /\ stock \in Int
          /\ o <= h
      BY <2>0, LedgerNumbers
    <3>2. /\ stock + d + stranded + q + h + u + k + m <= n + i + p
          /\ stock + o + d + stranded >= 0
      BY <2>0, LedgerMeaning DEF LedgerNow, CounterFloor
    <3> HIDE DEF d, i, p, q, h, o, u, k, m, n
    <3>3. m <= n + i + p
      BY <3>1, <3>2
    <3>4. QED  BY <3>3 DEF m, n, i, p, Minted
  <2>3. QED  BY <2>1, <2>2 DEF OversellBounded
<1>2. Whole => OversellBounded
  BY <1>1 DEF Whole
<1>3. QED  BY <1>2, WholeHolds, PTL

(* However strategies were mixed: when all is answered and worked off and  *)
(* nothing has failed, issuedCount is the number of coupons, each of which *)
(* its request was told of, and the Redis counter lacks the coupons of its *)
(* own strategies, no more and no less (prisma/count.ts:22-35).  Nobody is *)
(* left who holds a slot, so the books, which balance, are the counts.     *)
THEOREM StoresAgreeInTheEnd == Spec => []StoresAgree
<1>1. Whole => StoresAgree
  <2> SUFFICES ASSUME Whole, Queue!Idle, lostJobs = 0
               PROVE  /\ CountsAgree
                      /\ Quiet /\ Faultless /\ NothingResent =>
                           stock + Cardinality(CouponsOf(OnCounter)) = InitialStock
    BY DEF StoresAgree
  <2>1. /\ queue = <<>> /\ \A w \in Workers : wpc[w] \in {"pop", "stopped"}
    BY DEF Queue!Idle, Queue!Waiting
  <2>2. CoreType /\ CounterType /\ BalancedNow
    BY BalancedMeaning DEF Whole, Told, Inner
  <2>3. AtWork(wpc) = 0 /\ AtCount(wpc) = 0 /\ Len(queue) = 0
    <3>1. /\ {w \in Workers : wpc[w] \in {"create", "giveBack"}} = {}
          /\ {w \in Workers : wpc[w] = "count"} = {}
      BY <2>1
    <3>2. QED  BY <2>1, <3>1, FS_EmptySet DEF AtWork, AtCount
  <2>4. Quiet => Hand(pc) = 0 /\ Pushing(pc) = 0 /\ Counting(pc) = 0 /\ HeldNow(pc) = 0
    BY NumberNat DEF Quiet, Ended, Outcomes, Answers, Hand, Pushing, Counting, HeldNow, HeldLabels
  <2>5. /\ issuedCount \in Int /\ Cardinality(coupons) \in Nat
        /\ stock \in Int /\ Minted \in Nat /\ InitialStock \in Nat
    BY <2>2, BookNumbers, LedgerNumbers
  <2>6. CountsAgree
    <3> SUFFICES ASSUME Quiet, Faultless
                 PROVE  issuedCount = Cardinality(coupons) /\ \A c \in coupons : pc[c] \in {"ISSUED", "QUEUED"}
      BY DEF CountsAgree
    <3>1. issuedCount = Cardinality(coupons)
      BY <2>2, <2>3, <2>4, <2>5 DEF BalancedNow
    <3>2. ASSUME NEW c \in coupons PROVE pc[c] \in {"ISSUED", "QUEUED"}
      BY <2>2 DEF BalancedNow, Served, Quiet, Ended, Outcomes, Answers, CoreType
    <3>3. QED  BY <3>1, <3>2
  <2>7. ASSUME Quiet, Faultless, NothingResent
        PROVE  stock + Cardinality(CouponsOf(OnCounter)) = InitialStock
    <3>1. stock + Minted = InitialStock
      BY <2>2, <2>3, <2>4, <2>5, <2>7 DEF BalancedNow
    <3>2. QED  BY <3>1 DEF Minted
  <2>8. QED  BY <2>6, <2>7
<1>2. QED  BY <1>1, WholeHolds, PTL

(* Nobody is told ISSUED without a coupon; only naive tells ALREADY_ISSUED *)
(* of a request that is no repeat, and not more often than a call has      *)
(* failed (issue.naive.ts:38-46).                                          *)
THEOREM FalseRepeatsAreExplained == Spec => []FalseRepeatsExplained
<1>1. Whole => FalseRepeatsExplained
  <2> SUFFICES ASSUME Whole PROVE FalseRepeatsExplained
    OBVIOUS
  <2> DEFINE false == {r \in At({"ALREADY_ISSUED"}) : r \in coupons \/ ~Duplicate(r)}
  <2>1. CoreType /\ ControlAgrees /\ MistakesCounted
    BY DEF Whole, Told, Inner
  <2>2. At({"ISSUED"}) \subseteq coupons
    BY <2>1 DEF ControlAgrees, At, Where
  <2>3. \A r \in false : strategy[r] = "naive"
    BY <2>1 DEF ControlAgrees, At, Where
  <2>4. false \subseteq Mistaken
    BY <2>3 DEF Mistaken, AtOf, At, Where
  <2>5. IsFiniteSet(Mistaken)
    BY RequestsAssumption, FS_Subset DEF Mistaken, AtOf, At, Where
  <2> HIDE DEF false
  <2>6. /\ Cardinality(false) <= Cardinality(Mistaken)
        /\ Cardinality(false) \in Nat /\ Cardinality(Mistaken) \in Nat
    BY <2>4, <2>5, FS_Subset, FS_CardinalityType
  <2>7. rejects \in Nat /\ lostAcks \in Nat
    BY <2>1, FaultAssumption DEF CoreType
  <2>8. Cardinality(false) <= rejects + lostAcks
    <3> HIDE DEF Mistaken
    <3>1. QED  BY <2>1, <2>6, <2>7 DEF MistakesCounted
  <2>9. QED  BY <2>2, <2>3, <2>8 DEF FalseRepeatsExplained, false
<1>2. QED  BY <1>1, WholeHolds, PTL
=============================================================================
