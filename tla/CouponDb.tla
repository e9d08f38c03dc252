------------------------------ MODULE CouponDb ------------------------------
(***************************************************************************)
(* The PostgreSQL state every issue strategy works on (one Campaign row,   *)
(* its Coupon rows and the row lock) and what the strategies share: where  *)
(* each issue request stands, and the ways a Prisma call can end.          *)
(*                                                                         *)
(* A Prisma call is one await: the statement takes effect atomically at    *)
(* the database, and the continuation, synchronous up to the next await,   *)
(* is folded into the step that gave it its value.  Between two awaits any *)
(* other request may run.  An outcome is what the handler answers; whether *)
(* the response still reaches the client is not modelled.                  *)
(***************************************************************************)
EXTENDS Integers, FiniteSets

CONSTANTS
  Requests,      \* POST /api/campaigns/:id/issue requests, each made once
  Users,         \* the userKeys they carry
  TotalStock,    \* Campaign.totalStock
  NoOne,         \* the row lock when no transaction holds it
  MaxRejects,    \* bound: calls that reject without having taken effect
  MaxLostAcks    \* bound: calls that take effect and reject all the same

ASSUME RequestsAssumption == IsFiniteSet(Requests) /\ NoOne \notin Requests
ASSUME StockAssumption == TotalStock \in Nat \ {0}
ASSUME FaultAssumption == MaxRejects \in Nat /\ MaxLostAcks \in Nat

VARIABLES
  origin,        \* who made the Campaign row: "none" (no row), "seed", "api"
  issuedCount,   \* Campaign.issuedCount
  version,       \* Campaign.version
  coupons,       \* the Coupon rows, each named by the request that made it
  rowLock,       \* the request whose transaction holds the row FOR UPDATE
  userKey,       \* the userKey of each request
  pc,            \* the await each request is at, or its outcome
  rejects,       \* how many calls have rejected
  lostAcks       \* how many acknowledgements have been lost

dbVars == <<origin, issuedCount, version, coupons, rowLock>>
requestVars == <<userKey, pc, rejects, lostAcks>>
couponDbVars == <<dbVars, requestVars>>

(* What a request can be told; "DEAD" is a request whose server process    *)
(* ended before it was told anything.                                      *)
Answers == {"ISSUED", "QUEUED", "SOLD_OUT", "ALREADY_ISSUED",
            "RETRY_EXHAUSTED", "NOT_FOUND", "ERROR"}
Outcomes == Answers \cup {"DEAD"}

Ended(r) == pc[r] \in Outcomes
InFlight(r) == ~Ended(r) /\ pc[r] # "start"
Where(f, labels) == {r \in Requests : f[r] \in labels}
At(labels) == Where(pc, labels)

DbInit ==
  /\ origin \in {"none", "seed"}
  /\ issuedCount = 0
  /\ version = 0
  /\ coupons = {}
  /\ rowLock = NoOne
  /\ userKey \in [Requests -> Users]
  /\ pc = [r \in Requests |-> "start"]
  /\ rejects = 0
  /\ lostAcks = 0

DbTypeOK(labels) ==
  /\ origin \in {"none", "seed", "api"}
  /\ issuedCount \in Int
  /\ version \in Nat
  /\ coupons \subseteq Requests
  /\ rowLock \in Requests \cup {NoOne}
  /\ userKey \in [Requests -> Users]
  /\ pc \in [Requests -> labels \cup Outcomes \cup {"start"}]
  /\ rejects \in 0 .. MaxRejects
  /\ lostAcks \in 0 .. MaxLostAcks

-----------------------------------------------------------------------------
(* How an awaited call ends.                                               *)

Goto(r, label) == pc' = [pc EXCEPT ![r] = label] /\ UNCHANGED userKey

(* The promise resolves.                                                   *)
Resolve(r, label) == Goto(r, label) /\ UNCHANGED <<rejects, lostAcks>>

(* The statement took effect but the connection broke before the answer:   *)
(* the promise rejects with an error that is not a unique violation.       *)
LoseAck(r, catch) ==
  /\ lostAcks < MaxLostAcks
  /\ lostAcks' = lostAcks + 1
  /\ Goto(r, catch)
  /\ UNCHANGED rejects

(* A statement that took effect is acknowledged, or its answer is lost.    *)
Settle(r, label, catch) == Resolve(r, label) \/ LoseAck(r, catch)

(* The call rejects and nothing was written (pool timeout, no connection); *)
(* catches maps an await to where the strategy's catch clause leads.       *)
Reject(r, catches) ==
  /\ pc[r] \in DOMAIN catches
  /\ rejects < MaxRejects
  /\ rejects' = rejects + 1
  /\ Goto(r, catches[pc[r]])
  /\ UNCHANGED <<dbVars, lostAcks>>

-----------------------------------------------------------------------------
(* The statements.                                                         *)

(* A write to the Campaign row, and the foreign-key check of an insert,    *)
(* wait for the transaction that holds the row FOR UPDATE.                 *)
MayWrite(r) == rowLock \in {NoOne, r}

(* campaign.update issuedCount increment / decrement                       *)
AddIssued(r, n) ==
  /\ MayWrite(r)
  /\ issuedCount' = issuedCount + n
  /\ UNCHANGED <<origin, version, coupons, rowLock>>

(* @@unique([campaignId, userKey])                                         *)
Duplicate(r) == \E c \in coupons : userKey[c] = userKey[r]

(* Mutant of InsertCoupon: the unique index is missing.                    *)
InsertUnchecked(r) ==
  /\ MayWrite(r)
  /\ coupons' = coupons \cup {r}
  /\ UNCHANGED <<origin, issuedCount, version, rowLock>>

(* coupon.create                                                           *)
InsertCoupon(r) ==
  /\ MayWrite(r)
  /\ ~Duplicate(r)
  /\ coupons' = coupons \cup {r}
  /\ UNCHANGED <<origin, issuedCount, version, rowLock>>

(* campaign.findUnique: no row is a 404, otherwise go on.                  *)
FindCampaign(r, next) ==
  /\ pc[r] = "start"
  /\ Resolve(r, IF origin = "none" THEN "NOT_FOUND" ELSE next)
  /\ UNCHANGED dbVars

-----------------------------------------------------------------------------
(* What surrounds the requests.                                            *)

(* POST /api/campaigns: only the row is made, no Redis key.                *)
CreateCampaign ==
  /\ origin = "none"
  /\ origin' = "api"
  /\ UNCHANGED <<issuedCount, version, coupons, rowLock, requestVars>>

(* The server process ends (SIGTERM with process.exit, or a crash): the    *)
(* requests in flight go no further, an open transaction is rolled back.   *)
ServerStops ==
  /\ \E r \in Requests : InFlight(r)
  /\ pc' = [r \in Requests |-> IF InFlight(r) THEN "DEAD" ELSE pc[r]]
  /\ rowLock' = NoOne
  /\ UNCHANGED <<origin, issuedCount, version, coupons,
                 userKey, rejects, lostAcks>>

AllEnded == (\A r \in Requests : Ended(r)) /\ UNCHANGED couponDbVars

-----------------------------------------------------------------------------
(* What the strategies are held to.                                        *)

Quiet == \A r \in Requests : Ended(r)
Faultless == rejects = 0 /\ lostAcks = 0 /\ "DEAD" \notin {pc[r] : r \in Requests}

(* A request is told ISSUED only about a coupon of its own, and told       *)
(* ALREADY_ISSUED only when its user holds the coupon of another request   *)
(* (campaigns.ts:106-122, the answers of every strategy).                  *)
TruthfulAnswers ==
  \A r \in Requests :
    /\ pc[r] = "ISSUED" => r \in coupons
    /\ pc[r] = "ALREADY_ISSUED" => r \notin coupons /\ Duplicate(r)

(* Once every request has been answered and nothing has failed on the way, *)
(* issuedCount equals the number of Coupon rows, and each of them belongs  *)
(* to a request that was told so: what `npm run count` is run for          *)
(* (prisma/count.ts:22-35, docs/03-db-locking.md:63).                      *)
CountsAgree ==
  Quiet /\ Faultless =>
    /\ issuedCount = Cardinality(coupons)
    /\ \A c \in coupons : pc[c] \in {"ISSUED", "QUEUED"}

(* The k6 experiment: when every request comes from a user of its own, a   *)
(* campaign that existed from the start ends with exactly as many coupons  *)
(* as there was stock for, neither oversold nor undersold.                 *)
ExactSale ==
  /\ Quiet /\ Faultless
  /\ origin = "seed"
  /\ \A r, s \in Requests : userKey[r] = userKey[s] => r = s
  /\ At({"RETRY_EXHAUSTED", "NOT_FOUND"}) = {}
  => Cardinality(coupons) = IF Cardinality(Requests) < TotalStock
                            THEN Cardinality(Requests) ELSE TotalStock

(* A refusal need not be final: a repeat may have held the last slot for a *)
(* moment (issue.atomic.ts:21-41).  But no more coupons are left over than *)
(* there were repeats, once every request has been answered and nothing    *)
(* has failed on the way.                                                  *)
UnsoldExplained ==
  Quiet /\ Faultless /\ At({"SOLD_OUT"}) # {} =>
    Cardinality(coupons) + Cardinality(At({"ALREADY_ISSUED"})) >= TotalStock
=============================================================================
