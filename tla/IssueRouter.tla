---------------------------- MODULE IssueRouter ----------------------------
(***************************************************************************)
(* services/registry.ts: the strategy is a query parameter of each issue   *)
(* request, so every mixture may work on one campaign at once, as it does  *)
(* when load/issue.k6.js is run again with another STRATEGY on a campaign  *)
(* that was not reset.  Each strategy is the module that models it; they   *)
(* share the tables, the row lock and the Redis counter.                   *)
(*                                                                         *)
(* What they do not share is how they check.  The database strategies read *)
(* issuedCount, the redis ones their counter; optimistic trusts a version  *)
(* that only optimistic moves; naive trusts what it read.                  *)
(***************************************************************************)
EXTENDS RedisStock, Sequences

CONSTANTS
  Workers,       \* the workers of the queue strategy
  MaxRetry,      \* MAX_RETRY of the optimistic strategy
  MaxLostJobs,   \* bound: jobs that leave the queue and are not carried out
  VUs            \* requests in flight at once (load/issue.k6.js: vus)

ASSUME RouterAssumption ==
  /\ IsFiniteSet(Workers)
  /\ MaxRetry \in Nat \ {0}
  /\ MaxLostJobs \in Nat
  /\ VUs \in Nat \ {0}

VARIABLES
  strategy,      \* the strategy of each request
  seen, attempt,              \* of IssueOptimistic
  stranded,                   \* of IssueRedis
  queue, wpc, job, lostJobs   \* of IssueQueue

loopVars == <<seen, attempt>>
workerVars == <<queue, wpc, job, lostJobs>>
vars == <<couponDbVars, stockVars, strategy, loopVars, stranded, workerVars>>

Naive == INSTANCE IssueNaive
Atomic == INSTANCE IssueAtomic
Pessimistic == INSTANCE IssuePessimistic
Optimistic == INSTANCE IssueOptimistic
Redis == INSTANCE IssueRedis WITH Paths <- {"decr"}
RedisLua == INSTANCE IssueRedis WITH Paths <- {"eval"}
Queue == INSTANCE IssueQueue

(* The registry; without a parameter a request gets "naive".               *)
OnDatabase == {"naive", "atomic", "pessimistic", "optimistic"}
OnCounter == {"redis", "redis-lua", "redis-queue"}
Strategies == OnDatabase \cup OnCounter

Init ==
  /\ Queue!Init
  /\ strategy \in [Requests -> Strategies]
  /\ seen = [r \in Requests |-> 0]
  /\ attempt = [r \in Requests |-> 0]
  /\ stranded = 0

(* getStrategy(strategy).issue(...): the next step of the chosen strategy. *)
Issue(r) ==
  /\ \/ /\ \/ strategy[r] = "naive" /\ Naive!Step(r)
           \/ strategy[r] = "atomic" /\ Atomic!Step(r)
           \/ strategy[r] = "pessimistic" /\ Pessimistic!Step(r)
        /\ UNCHANGED <<stockVars, stranded, loopVars, workerVars>>
     \/ /\ strategy[r] = "optimistic" /\ Optimistic!Step(r)
        /\ UNCHANGED <<stockVars, stranded, workerVars>>
     \/ /\ \/ strategy[r] = "redis" /\ Redis!Step(r)
           \/ strategy[r] = "redis-lua" /\ RedisLua!Step(r)
        /\ UNCHANGED <<loopVars, workerVars>>
     \/ /\ strategy[r] = "redis-queue"
        /\ \/ Queue!RequestStep(r)
           \/ Reject(r, Queue!Catches) /\ UNCHANGED <<stockVars, workerVars>>
        /\ UNCHANGED <<stranded, loopVars>>
  /\ UNCHANGED strategy

(* k6 shares the requests out among VUs virtual users, each of which sends *)
(* its next one only when the previous one was answered.                   *)
Iteration(r) ==
  /\ pc[r] = "start" => Cardinality({s \in Requests : InFlight(s)}) < VUs
  /\ Issue(r)

Work(w) ==
  /\ Queue!WorkerStep(w) \/ Queue!WorkerEvent(w)
  /\ UNCHANGED <<strategy, stranded, loopVars>>

Next ==
  \/ CreateCampaign /\ UNCHANGED <<stockVars, strategy, stranded, loopVars, workerVars>>
  \/ Redis!Crash /\ UNCHANGED <<strategy, loopVars, workerVars>>
  \/ \E r \in Requests : Iteration(r)
  \/ \E w \in Workers : Work(w)
  \/ Queue!Finished /\ UNCHANGED <<strategy, stranded, loopVars>>

Spec == Init /\ [][Next]_vars

-----------------------------------------------------------------------------
Used == {strategy[r] : r \in Requests}
CouponsOf(S) == {c \in coupons : strategy[c] \in S}
AtOf(S, labels) == {r \in At(labels) : strategy[r] \in S}

Labels == Naive!Labels \cup Atomic!Labels \cup Pessimistic!Labels
            \cup Optimistic!Labels \cup Redis!Labels \cup Queue!Labels

TypeOK ==
  /\ DbTypeOK(Labels)
  /\ StockTypeOK
  /\ strategy \in [Requests -> Strategies]
  /\ seen \in [Requests -> Nat]
  /\ attempt \in [Requests -> 0 .. MaxRetry]
  /\ stranded \in Nat
  /\ queue \in Seq(Requests)
  /\ wpc \in [Workers -> Queue!WorkerLabels]
  /\ job \in [Workers -> Requests \cup {NoOne}]
  /\ lostJobs \in 0 .. MaxLostJobs

(* By how much the database strategies may oversell.  Alone, or atomic and *)
(* pessimistic together: not at all.  Optimistic beside one of those: by   *)
(* one, since they take slots without moving the version, and the swap     *)
(* that does not notice moves it.  With naive: one per other request in    *)
(* flight, which is what all of them may add to one stale count.           *)
Excess ==
  IF "naive" \in Used THEN VUs - 1
  ELSE IF "optimistic" \in Used /\ Used \cap {"atomic", "pessimistic"} # {} THEN 1
  ELSE 0

(* The slots of issuedCount that are in use: coupons, and what a request   *)
(* holds, less the coupons whose slot went back when an answer was lost.   *)
Held == AtOf(OnDatabase \ {"pessimistic"},
             {"create", "rollback", "rollbackDup", "rollbackError"})
Slots == Cardinality(CouponsOf(OnDatabase)) + Cardinality(Held) - lostAcks

(* A naive request that has passed its check will increment, and one       *)
(* optimistic request that read the current version can still swap,        *)
(* whatever has happened to issuedCount since.                             *)
Stale == AtOf({"naive"}, {"increment"})
Swappable == {r \in AtOf({"optimistic"}, {"cas"}) : seen[r] = version}

(* The slots in use are counted, and together with those that are sure to  *)
(* come they stay within the stock and the excess of the mixture           *)
(* (issue.naive.ts:23-31, issue.optimistic.ts:24-35, issue.atomic.ts:22).  *)
SlotsBounded ==
  /\ Cardinality({r \in Requests : InFlight(r)}) <= VUs
  /\ Slots <= issuedCount
  /\ Slots + Cardinality(Stale) + (IF Swappable = {} THEN 0 ELSE 1)
       <= TotalStock + Excess

(* Inside the transaction the row is locked, so what the check read stays  *)
(* true whoever else writes (issue.pessimistic.ts:18-40).                  *)
LockProtects ==
  \A r \in Requests :
    /\ strategy[r] = "pessimistic" /\ pc[r] \in Pessimistic!Locked <=> rowLock = r
    /\ rowLock = r /\ pc[r] \in {"insert", "increment", "commitIssued"}
         => issuedCount < TotalStock

(* Where a slot of the Redis counter can be, whichever redis strategy took *)
(* it (issue.redis.ts:59-78, issue.redisLua.ts:66-83,                      *)
(* issue.redisQueue.ts:51-56, worker.ts:31-48).                            *)
CounterBounded ==
  stock + resent["DECR"] + stranded + Len(queue)
    + Cardinality(AtOf({"redis", "redis-lua"}, {"create", "giveBack", "undo"}))
    + Cardinality(AtOf({"redis-queue"}, {"push"}))
    + Cardinality({w \in Workers : wpc[w] \in {"create", "giveBack"}})
    + Cardinality(CouponsOf(OnCounter))
  <= InitialStock + resent["INCR"] + resent["LPUSH"]

(* What a control point says about the coupon table, which is the same in  *)
(* every strategy that has it, but for the ALREADY_ISSUED of naive; a job  *)
(* that is in the queue or in a hand was accepted (worker.ts:56-61).       *)
Unserved == {"start", "increment", "create", "reserve", "rollbackDup", "lock", "insert",
             "commitIssued", "commitSoldOut", "commitRepeat", "read", "cas",
             "decr", "eval", "giveBack", "undo", "push"}
Repeat == {"rollbackDup", "commitRepeat", "giveBack"}
ControlAgrees ==
  /\ \A r \in Requests :
       /\ pc[r] \in Unserved => r \notin coupons
       /\ pc[r] \in {"ISSUED", "count"} => r \in coupons
       /\ pc[r] \in Repeat \/ (pc[r] = "ALREADY_ISSUED" /\ strategy[r] # "naive")
            => r \notin coupons /\ Duplicate(r)
  /\ queue \in Seq(At({"QUEUED"}))
  /\ \A w \in Workers : wpc[w] \notin Queue!Waiting => job[w] \in At({"QUEUED"})

(* The naive requests that take themselves for repeats and are none: each  *)
(* has met a call that failed (issue.naive.ts:38-46).                      *)
Mistaken ==
  {r \in AtOf({"naive"}, {"rollback", "ALREADY_ISSUED"}) : r \in coupons \/ ~Duplicate(r)}
MistakesCounted == Cardinality(Mistaken) <= rejects + lostAcks

(* As long as nothing has failed, whoever has a coupon is told so;         *)
(* issuedCount is the coupons that were counted and the slots held; and    *)
(* the counter, what it was set to less the slots of CounterBounded.       *)
Balanced ==
  Faultless =>
    /\ \A c \in coupons : pc[c] \in {"ISSUED", "QUEUED", "count"}
    /\ lostJobs = 0 =>
         issuedCount + Cardinality(AtOf({"redis", "redis-lua"}, {"count"}))
           + Cardinality({w \in Workers : wpc[w] = "count"})
         = Cardinality(coupons) + Cardinality(Held)
    /\ lostJobs = 0 /\ NothingResent =>
         stock + Len(queue)
           + Cardinality(AtOf({"redis", "redis-lua"}, {"create", "giveBack", "undo"}))
           + Cardinality(AtOf({"redis-queue"}, {"push"}))
           + Cardinality({w \in Workers : wpc[w] \in {"create", "giveBack"}})
           + Cardinality(CouponsOf(OnCounter))
         = InitialStock

(* The inductive invariant.                                                *)
IInv ==
  /\ TypeOK
  /\ SlotsBounded /\ LockProtects /\ CounterBounded
  /\ ControlAgrees /\ MistakesCounted /\ Balanced

(* Whatever is mixed, the database strategies sell at most totalStock, the *)
(* excess of the mixture and one per lost acknowledgement; the redis       *)
(* strategies at most what the counter was set to and one per command that *)
(* ran twice.  The two do not see each other, so both may sell all         *)
(* (registry.ts:12-20, docs/02-race-condition.md:16-27).                   *)
OversellBounded ==
  /\ Cardinality(CouponsOf(OnDatabase)) <= TotalStock + Excess + lostAcks
  /\ Cardinality(CouponsOf(OnCounter)) <= InitialStock + resent["INCR"] + resent["LPUSH"]

(* When all is answered and worked off and nothing has failed, issuedCount *)
(* is the number of coupons and the counter lacks those of its own, even   *)
(* when strategies were mixed and a repeat was turned away by another      *)
(* strategy than the one that served its user (prisma/count.ts:22-35).     *)
StoresAgree ==
  Queue!Idle /\ lostJobs = 0 =>
    /\ CountsAgree
    /\ Quiet /\ Faultless /\ NothingResent =>
         stock + Cardinality(CouponsOf(OnCounter)) = InitialStock

(* Only naive tells ALREADY_ISSUED of a request that is no repeat, and     *)
(* only as often as a call has failed: its catch clause does not look at   *)
(* what it caught (issue.naive.ts:38-46).  All other answers are true in   *)
(* every mixture.                                                          *)
FalseRepeatsExplained ==
  LET false == {r \in At({"ALREADY_ISSUED"}) : r \in coupons \/ ~Duplicate(r)}
  IN  /\ At({"ISSUED"}) \subseteq coupons
      /\ \A r \in false : strategy[r] = "naive"
      /\ Cardinality(false) <= rejects + lostAcks
=============================================================================
