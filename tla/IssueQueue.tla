---------------------------- MODULE IssueQueue ----------------------------
(***************************************************************************)
(* services/issue.redisQueue.ts and worker.ts: the request takes a slot    *)
(* and pushes a job onto the Redis list issue-queue; worker processes pop  *)
(* jobs, insert the coupon and count it.  A job is named by its request.   *)
(*                                                                         *)
(* Control points of a request: "eval" before redis.eval, "push" before    *)
(* redis.lpush.  Of a worker: "pop" in brpop, "create" before              *)
(* coupon.create, "count" before campaign.update, "giveBack" before        *)
(* redis.incr, "stopped" when its process is not running.                  *)
(***************************************************************************)
EXTENDS RedisStock, Sequences

CONSTANTS
  Workers,       \* the processes started by npm run worker
  MaxLostJobs    \* bound: jobs that leave the queue and are not carried out

ASSUME WorkersAssumption == IsFiniteSet(Workers) /\ MaxLostJobs \in Nat

VARIABLES
  queue,         \* issue-queue, the next job to pop first
  wpc,           \* where each worker is
  job,           \* the job each worker has in hand, NoOne when none
  lostJobs       \* history: jobs popped and not carried out to the end

workerVars == <<queue, wpc, job, lostJobs>>
vars == <<couponDbVars, stockVars, workerVars>>

Labels == {"eval", "push"}
Waiting == {"pop", "stopped"}
WorkerLabels == Waiting \cup {"create", "count", "giveBack"}
Catches == [start |-> "ERROR"]

Init ==
  /\ DbInit
  /\ StockInit
  /\ queue = <<>>
  /\ wpc = [w \in Workers |-> "pop"]
  /\ job = [w \in Workers |-> NoOne]
  /\ lostJobs = 0

-----------------------------------------------------------------------------
(* The request side.                                                       *)

Lookup(r) == FindCampaign(r, "eval") /\ UNCHANGED <<stockVars, workerVars>>

Take(r) ==
  /\ pc[r] = "eval"
  /\ EvalScript(r, "push", "SOLD_OUT")
  /\ UNCHANGED <<dbVars, workerVars>>

(* Mutant of Push: answered before the job is in the queue.                *)
PushNothing(r) ==
  /\ pc[r] = "push"
  /\ Resolve(r, "QUEUED")
  /\ UNCHANGED <<dbVars, stockVars, workerVars>>

(* LPUSH, which like any command may run twice, then 202.                  *)
Push(r) ==
  /\ pc[r] = "push"
  /\ \E again \in {0, 1} :
       /\ Send("LPUSH", again)
       /\ queue' = queue \o IF again = 1 THEN <<r, r>> ELSE <<r>>
  /\ Resolve(r, "QUEUED")
  /\ UNCHANGED <<dbVars, stock, wpc, job, lostJobs>>

-----------------------------------------------------------------------------
(* The worker side.                                                        *)

WorkerAt(w, label) == wpc' = [wpc EXCEPT ![w] = label]

(* Back to brpop: the job in hand is done.                                 *)
NextJob(w) == WorkerAt(w, "pop") /\ job' = [job EXCEPT ![w] = NoOne]

(* A job is out of the queue and will not be carried out to the end: the   *)
(* worker goes back to brpop, or its process ends.                         *)
LoseJob(w) ==
  /\ lostJobs < MaxLostJobs
  /\ lostJobs' = lostJobs + 1
  /\ \/ WorkerAt(w, "pop")
     \/ WorkerAt(w, "stopped")
  /\ job' = [job EXCEPT ![w] = NoOne]

(* BRPOP takes the job out of the queue: from then on only the worker has  *)
(* it.  When the reply is lost nobody has it: ioredis reconnects and sends *)
(* the BRPOP again, or gives up after its limit of retries, and then the   *)
(* rejection, which no try surrounds, ends the process.                    *)
Pop(w) ==
  /\ wpc[w] = "pop"
  /\ queue # <<>>
  /\ queue' = Tail(queue)
  /\ \/ /\ WorkerAt(w, "create")
        /\ job' = [job EXCEPT ![w] = Head(queue)]
        /\ UNCHANGED lostJobs
     \/ LoseJob(w)
  /\ UNCHANGED <<couponDbVars, stockVars>>

(* Mutant of WorkerCreate: a repeat is taken for success, so the slot is   *)
(* not given back.                                                         *)
WorkerCreateIgnoringRepeat(w) ==
  /\ wpc[w] = "create"
  /\ \/ InsertCoupon(job[w]) /\ WorkerAt(w, "count") /\ UNCHANGED job
     \/ Duplicate(job[w]) /\ UNCHANGED dbVars /\ NextJob(w)
  /\ UNCHANGED <<requestVars, stockVars, queue, lostJobs>>

(* coupon.create: inserted, a unique violation, or inserted with the       *)
(* acknowledgement lost, which is an error like any other.                 *)
WorkerCreate(w) ==
  /\ wpc[w] = "create"
  /\ \/ /\ InsertCoupon(job[w])
        /\ \/ WorkerAt(w, "count") /\ UNCHANGED <<job, lostJobs>>
           \/ LoseJob(w)
     \/ /\ Duplicate(job[w])
        /\ UNCHANGED dbVars
        /\ WorkerAt(w, "giveBack")
        /\ UNCHANGED <<job, lostJobs>>
  /\ UNCHANGED <<requestVars, stockVars, queue>>

WorkerCount(w) ==
  /\ wpc[w] = "count"
  /\ AddIssued(job[w], 1)
  /\ \/ NextJob(w) /\ UNCHANGED lostJobs
     \/ LoseJob(w)
  /\ UNCHANGED <<requestVars, stockVars, queue>>

(* Mutant of WorkerGiveBack: an increment that failed is taken for a       *)
(* repeat, although the coupon is there.                                   *)
WorkerGiveBackAny(w) ==
  /\ wpc[w] \in {"giveBack", "count"}
  /\ Incr
  /\ NextJob(w)
  /\ UNCHANGED <<couponDbVars, queue, lostJobs>>

WorkerGiveBack(w) ==
  /\ wpc[w] = "giveBack"
  /\ Incr
  /\ NextJob(w)
  /\ UNCHANGED <<couponDbVars, queue, lostJobs>>

(* A call rejects with something else than a unique violation: the loop    *)
(* logs and goes on.  Or the process ends with the job in hand: on SIGTERM *)
(* and SIGINT it exits without waiting for it.                             *)
JobLost(w) ==
  /\ wpc[w] \notin Waiting
  /\ LoseJob(w)
  /\ UNCHANGED <<couponDbVars, stockVars, queue>>

(* The process ends while it waits for a job: a signal, or a BRPOP that    *)
(* rejects without having popped.                                          *)
WorkerStops(w) ==
  /\ wpc[w] = "pop"
  /\ WorkerAt(w, "stopped")
  /\ UNCHANGED <<couponDbVars, stockVars, queue, job, lostJobs>>

(* npm run worker, by hand: nothing in the repository starts one again.    *)
StartWorker(w) ==
  /\ wpc[w] = "stopped"
  /\ WorkerAt(w, "pop")
  /\ UNCHANGED <<couponDbVars, stockVars, queue, job, lostJobs>>

WorkerStep(w) ==
  \/ Pop(w)
  \/ WorkerCreate(w)
  \/ WorkerCount(w)
  \/ WorkerGiveBack(w)

RequestStep(r) ==
  \/ Lookup(r)
  \/ Take(r)
  \/ Push(r)

(* What does not carry a job further.                                      *)
WorkerEvent(w) ==
  \/ JobLost(w)
  \/ WorkerStops(w)
  \/ StartWorker(w)

Idle == queue = <<>> /\ \A w \in Workers : wpc[w] \in Waiting

Finished == Idle /\ AllEnded /\ UNCHANGED <<stockVars, workerVars>>

Next ==
  \/ CreateCampaign /\ UNCHANGED <<stockVars, workerVars>>
  \/ ServerStops /\ UNCHANGED <<stockVars, workerVars>>
  \/ \E r \in Requests :
       \/ RequestStep(r)
       \/ Reject(r, Catches) /\ UNCHANGED <<stockVars, workerVars>>
  \/ \E w \in Workers : WorkerStep(w) \/ WorkerEvent(w)
  \/ Finished

Spec == Init /\ [][Next]_vars

(* A worker process that is running executes the statement it is at; that  *)
(* it goes on running, or is started again, is not assumed.                *)
FairSpec == Spec /\ \A w \in Workers : WF_vars(WorkerStep(w))

-----------------------------------------------------------------------------
TypeOK ==
  /\ DbTypeOK(Labels)
  /\ rowLock = NoOne
  /\ StockTypeOK /\ Resends <= MaxResends
  /\ queue \in Seq(Requests)
  /\ wpc \in [Workers -> WorkerLabels]
  /\ job \in [Workers -> Requests \cup {NoOne}]
  /\ lostJobs \in 0 .. MaxLostJobs

InHand(labels) == {w \in Workers : wpc[w] \in labels}

(* Where a slot can be when it is not in the counter: with a request about *)
(* to push, in the queue, with a worker about to insert or to return it,   *)
(* in a coupon.                                                            *)
SlotsOut ==
  Cardinality(At({"push"})) + Len(queue)
    + Cardinality(InHand({"create", "giveBack"})) + Cardinality(coupons)

(* The counter never goes below zero, and slots are never more than it was *)
(* set to - totalStock by the seed, nothing by the API - except by a push  *)
(* or an INCR that ran twice (issue.redisQueue.ts:51-56, worker.ts:31-48,  *)
(* campaigns.ts:50).                                                       *)
SlotsCounted ==
  /\ stock >= 0
  /\ stock + SlotsOut <= InitialStock + resent["LPUSH"] + resent["INCR"]

(* Every coupon is counted once, by the worker that made it                *)
(* (worker.ts:31-42).                                                      *)
CouponsCounted == issuedCount + Cardinality(InHand({"count"})) <= Cardinality(coupons)

(* No slot and no count is missing anywhere, which is so as long as        *)
(* nothing has failed or run twice.                                        *)
AllAccountedFor ==
  /\ stock + SlotsOut = InitialStock
  /\ issuedCount + Cardinality(InHand({"count"})) = Cardinality(coupons)
NothingMissing ==
  Faultless /\ lostJobs = 0 /\ NothingResent => AllAccountedFor

(* A worker has a job in hand exactly when it is not waiting for one; jobs *)
(* are accepted ones and so are those with a coupon (worker.ts:31-48).     *)
JobsAgree ==
  /\ \A i \in DOMAIN queue : pc[queue[i]] = "QUEUED"
  /\ \A c \in coupons : pc[c] = "QUEUED"
  /\ \A w \in Workers :
       /\ wpc[w] \in Waiting <=> job[w] = NoOne
       /\ wpc[w] = "count" => job[w] \in coupons
       /\ wpc[w] = "giveBack" => Duplicate(job[w])
       /\ job[w] # NoOne => pc[job[w]] = "QUEUED"

(* An accepted request is in the queue, in a worker's hands or carried out *)
(* as long as no job was lost.                                             *)
JobsKept ==
  lostJobs = 0 =>
    \A r \in At({"QUEUED"}) :
      \/ Duplicate(r)
      \/ \E i \in DOMAIN queue : queue[i] = r
      \/ \E w \in InHand({"create"}) : job[w] = r

(* At most totalStock coupons, and one more per command that ran twice;    *)
(* none of a campaign made by the API, which has no counter.               *)
NotOversold ==
  Cardinality(coupons) <= InitialStock + resent["LPUSH"] + resent["INCR"]

(* The inductive invariant.                                                *)
IInv ==
  /\ TypeOK /\ NotOversold
  /\ SlotsCounted /\ CouponsCounted /\ NothingMissing
  /\ JobsAgree /\ JobsKept

(* When the queue has drained and nothing was lost on the way, what the    *)
(* requests were told has become true: every accepted request's user has a *)
(* coupon, the count is right, and no slot has leaked                      *)
(* (docs/04-redis.md:99-102, 118-126).                                     *)
EventualConsistency ==
  Idle /\ Quiet /\ Faultless /\ lostJobs = 0 /\ NothingResent =>
    /\ \A r \in Requests : pc[r] = "QUEUED" => Duplicate(r)
    /\ issuedCount = Cardinality(coupons)
    /\ stock + Cardinality(coupons) = InitialStock

(* An accepted request is carried out: its user gets a coupon, not at once *)
(* but in the end (docs/04-redis.md:99-102), whatever fails or runs twice, *)
(* as long as some worker stays up from some time on, and unless a job was *)
(* lost between BRPOP and its end (worker.ts:51-69).  Without a worker the *)
(* job stays in the queue (worker.ts:14).                                  *)
SomeWorkerStaysUp == \E w \in Workers : <>[](wpc[w] # "stopped")
IssuedUnlessLost ==
  SomeWorkerStaysUp =>
    \A r \in Requests : pc[r] = "QUEUED" ~> Duplicate(r) \/ lostJobs > 0

(* The strategy implements the sale, in which 202 tells nothing yet.       *)
Sale == INSTANCE CouponSale WITH
  winners <- coupons,
  answer <- [r \in Requests |->
               IF pc[r] \in Answers \ {"QUEUED"} THEN pc[r] ELSE "none"],
  Stock <- TotalStock + MaxResends,
  ExactRefusal <- FALSE
ImplementsSale == Sale!Spec
=============================================================================
