-------------------------- MODULE CouponDb_lemmas --------------------------
(***************************************************************************)
(* Facts every strategy's proof rests on: how the number of requests at a  *)
(* set of control points changes when one of them moves, and what the      *)
(* insert of a coupon row does.                                            *)
(***************************************************************************)
EXTENDS CouponDb, FiniteSetTheorems, TLAPS

(* The requests at some control points are finitely many.                  *)
LEMMA WhereFinite ==
  ASSUME NEW f, NEW labels
  PROVE  /\ IsFiniteSet(Where(f, labels))
         /\ Cardinality(Where(f, labels)) \in Nat
<1>1. IsFiniteSet(Where(f, labels))
  BY FS_Subset, RequestsAssumption DEF Where
<1>2. QED  BY <1>1, FS_CardinalityType

(* A request that enters a set of control points adds one to their number. *)
LEMMA WhereJoin ==
  ASSUME NEW f, NEW g, NEW labels, NEW r \in Requests, NEW l,
         DOMAIN f = Requests, g = [f EXCEPT ![r] = l],
         f[r] \notin labels, l \in labels
  PROVE  Cardinality(Where(g, labels)) = Cardinality(Where(f, labels)) + 1
<1>1. Where(g, labels) = Where(f, labels) \cup {r}
  BY DEF Where
<1>2. r \notin Where(f, labels)
  BY DEF Where
<1>3. QED  BY <1>1, <1>2, WhereFinite, FS_AddElement

(* A request that leaves takes one away.                                   *)
LEMMA WhereLeave ==
  ASSUME NEW f, NEW g, NEW labels, NEW r \in Requests, NEW l,
         DOMAIN f = Requests, g = [f EXCEPT ![r] = l],
         f[r] \in labels, l \notin labels
  PROVE  Cardinality(Where(g, labels)) = Cardinality(Where(f, labels)) - 1
<1>1. Where(g, labels) = Where(f, labels) \ {r}
  BY DEF Where
<1>2. r \in Where(f, labels)
  BY DEF Where
<1>3. QED  BY <1>1, <1>2, WhereFinite, FS_RemoveElement

(* A request that moves within the set, or outside it, changes nothing.    *)
LEMMA WhereKeep ==
  ASSUME NEW f, NEW g, NEW labels, NEW r \in Requests, NEW l,
         DOMAIN f = Requests, g = [f EXCEPT ![r] = l],
         f[r] \in labels <=> l \in labels
  PROVE  Where(g, labels) = Where(f, labels)
BY DEF Where

(* All three for the control points of requests.                           *)
LEMMA AtMoves ==
  ASSUME DOMAIN pc = Requests, NEW labels, NEW r \in Requests, NEW l, Goto(r, l)
  PROVE  LET n == Cardinality(Where(pc, labels))
             m == Cardinality(Where(pc', labels))
         IN  /\ n \in Nat /\ m \in Nat
             /\ pc[r] \notin labels /\ l \in labels => m = n + 1
             /\ pc[r] \in labels /\ l \notin labels => m = n - 1
             /\ (pc[r] \in labels <=> l \in labels) => m = n
<1>1. pc' = [pc EXCEPT ![r] = l]
  BY DEF Goto
<1>2. QED  BY <1>1, WhereFinite, WhereJoin, WhereLeave, WhereKeep

(* The requests at two sets of control points that exclude each other.     *)
LEMMA WhereUnion ==
  ASSUME NEW f, NEW A, NEW B, A \cap B = {}
  PROVE  Cardinality(Where(f, A \cup B))
           = Cardinality(Where(f, A)) + Cardinality(Where(f, B))
<1>1. /\ Where(f, A \cup B) = Where(f, A) \cup Where(f, B)
      /\ Where(f, A) \cap Where(f, B) = {}
  BY DEF Where
<1>2. Cardinality({}) = 0
  BY FS_EmptySet
<1>3. /\ IsFiniteSet(Where(f, A)) /\ Cardinality(Where(f, A)) \in Nat
      /\ IsFiniteSet(Where(f, B)) /\ Cardinality(Where(f, B)) \in Nat
  BY WhereFinite
<1>4. Cardinality(Where(f, A) \cup Where(f, B))
        = Cardinality(Where(f, A)) + Cardinality(Where(f, B))
            - Cardinality(Where(f, A) \cap Where(f, B))
  BY <1>3, FS_Union
<1>5. /\ Cardinality(Where(f, A) \cap Where(f, B)) = 0
      /\ Cardinality(Where(f, A \cup B)) = Cardinality(Where(f, A) \cup Where(f, B))
  BY <1>1, <1>2
<1>6. QED  BY <1>3, <1>4, <1>5

(* A set of control points that somebody is at counts for one at least.    *)
LEMMA WhereSomebody ==
  ASSUME NEW f, NEW labels, NEW r \in Requests, f[r] \in labels
  PROVE  Cardinality(Where(f, labels)) >= 1
<1>1. r \in Where(f, labels)
  BY DEF Where
<1>2. Cardinality(Where(f, labels)) # 0
  BY <1>1, WhereFinite, FS_EmptySet
<1>3. QED  BY <1>2, WhereFinite

(* Where a request ends up after a statement that took effect.             *)
LEMMA Settles ==
  ASSUME NEW labels, DbTypeOK(labels), NEW r \in Requests, NEW l, NEW c,
         Settle(r, l, c),
         l \in labels \cup Outcomes, c \in labels \cup Outcomes
  PROVE  /\ userKey' = userKey /\ rejects' = rejects
         /\ pc' \in [Requests -> labels \cup Outcomes \cup {"start"}]
         /\ \/ Goto(r, l) /\ lostAcks' = lostAcks
            \/ /\ Goto(r, c) /\ lostAcks' = lostAcks + 1
               /\ lostAcks < MaxLostAcks
         /\ lostAcks' \in 0 .. MaxLostAcks
BY FaultAssumption DEF DbTypeOK, Settle, Resolve, LoseAck, Goto

(* The Coupon rows are finitely many.                                      *)
LEMMA CouponsFinite ==
  ASSUME coupons \subseteq Requests
  PROVE  IsFiniteSet(coupons) /\ Cardinality(coupons) \in Nat
BY FS_Subset, FS_CardinalityType, RequestsAssumption

(* coupon.create adds one row, and only for a user who had none.           *)
LEMMA InsertAddsOne ==
  ASSUME NEW r \in Requests, coupons \subseteq Requests, InsertCoupon(r)
  PROVE  /\ r \notin coupons
         /\ coupons' = coupons \cup {r}
         /\ Cardinality(coupons') = Cardinality(coupons) + 1
<1>1. r \notin coupons /\ coupons' = coupons \cup {r}
  BY DEF InsertCoupon, Duplicate
<1>2. QED  BY <1>1, CouponsFinite, FS_AddElement
=============================================================================
