------------------------- MODULE ReseedQueue_proofs -------------------------
(***************************************************************************)
(* The queue strategy and its workers, for any number of requests, users,  *)
(* workers and coupons in stock, and any number of failures, lost jobs and *)
(* commands that run twice: the slots are accounted for wherever they are, *)
(* a drained queue leaves the stores consistent, and strategy and workers  *)
(* together implement the sale of CouponSale.  A reset by the seed script  *)
(* that waits for requests and workers keeps the accounting.               *)
(***************************************************************************)
EXTENDS ReseedQueue, CouponDb_lemmas, SequenceTheorems

(* The workers at some control points.                                     *)
Working(g, labels) == Cardinality({w \in Workers : g[w] \in labels})
Busy == {"create", "giveBack"}

LEMMA WorkingMoves ==
  ASSUME TypeOK, NEW w \in Workers, NEW l, wpc' = [wpc EXCEPT ![w] = l], NEW labels
  PROVE  LET n == Working(wpc, labels)
             m == Working(wpc', labels)
         IN  /\ n \in Nat /\ m \in Nat
             /\ wpc[w] \notin labels /\ l \in labels => m = n + 1
             /\ wpc[w] \in labels /\ l \notin labels => m = n - 1
             /\ (wpc[w] \in labels <=> l \in labels) => m = n
<1> DEFINE X == {v \in Workers : wpc[v] \in labels}
           Y == {v \in Workers : wpc'[v] \in labels}
<1>1. IsFiniteSet(X) /\ IsFiniteSet(Y)
  BY FS_Subset, WorkersAssumption
<1>2. /\ wpc[w] \notin labels /\ l \in labels => w \notin X /\ Y = X \cup {w}
      /\ wpc[w] \in labels /\ l \notin labels => w \in X /\ Y = X \ {w}
      /\ (wpc[w] \in labels <=> l \in labels) => Y = X
  BY DEF TypeOK
<1>3. Working(wpc, labels) = Cardinality(X) /\ Working(wpc', labels) = Cardinality(Y)
  BY DEF Working
<1> HIDE DEF X, Y
<1>4. /\ w \notin X /\ Y = X \cup {w} => Cardinality(Y) = Cardinality(X) + 1
      /\ w \in X /\ Y = X \ {w} => Cardinality(Y) = Cardinality(X) - 1
      /\ Cardinality(X) \in Nat /\ Cardinality(Y) \in Nat
  BY <1>1, FS_AddElement, FS_RemoveElement, FS_CardinalityType
<1>5. QED  BY <1>2, <1>3, <1>4

-----------------------------------------------------------------------------
(* What the steps do.                                                      *)

(* A command ran once more than it was meant to, or not.                   *)
Ran(c, again) ==
  /\ resent' = [resent EXCEPT ![c] = @ + again]
  /\ resent' \in [Commands -> 0 .. MaxResends]
  /\ Resends' <= MaxResends

LEMMA SendRan ==
  ASSUME TypeOK, NEW c \in Commands, NEW again \in {0, 1}, Send(c, again)
  PROVE  Ran(c, again)
<1>1. resent \in [Commands -> 0 .. MaxResends] /\ MaxResends \in Nat /\ Resends <= MaxResends
  BY ResendAssumption DEF TypeOK, StockTypeOK
<1>2. resent' = [resent EXCEPT ![c] = @ + again]
  BY <1>1 DEF Send
<1>3. Resends' = Resends + again
  BY <1>1, <1>2 DEF Resends, Commands
<1>4. Resends' <= MaxResends
  BY <1>1, <1>3 DEF Send, Resends, Commands
<1>5. resent' \in [Commands -> 0 .. MaxResends]
  BY <1>1, <1>2 DEF Send, Resends, Commands
<1>6. QED  BY <1>2, <1>4, <1>5 DEF Ran

(* A request goes on or is refused, takes a slot, or pushes its job.       *)
GoesOn(r, l) ==
  /\ UNCHANGED <<stock, resent, queue>>
  /\ pc[r] = "start"
  /\ \/ l \in {"eval", "NOT_FOUND"} /\ UNCHANGED rejects
     \/ l = "ERROR" /\ rejects' = rejects + 1

Evaluates(r, l) ==
  /\ pc[r] = "eval" /\ UNCHANGED <<queue, rejects>> /\ stock' \in Int
  /\ \E again \in {0, 1} :
       /\ Ran("EVAL", again)
       /\ \/ l = "push" /\ stock' >= 0 /\ stock' <= stock - 1 /\ (again = 0 => stock' = stock - 1)
          \/ l = "SOLD_OUT" /\ stock' <= stock /\ (stock >= 0 => stock' >= 0) /\ (again = 0 => stock' = stock)

Pushes(r, l) ==
  /\ pc[r] = "push" /\ l = "QUEUED" /\ UNCHANGED <<stock, rejects>>
  /\ \E again \in {0, 1} :
       /\ Ran("LPUSH", again)
       /\ queue' = queue \o IF again = 1 THEN <<r, r>> ELSE <<r>>

RequestDoes(r, l) ==
  /\ Goto(r, l)
  /\ UNCHANGED <<origin, issuedCount, version, coupons, rowLock, lostAcks>>
  /\ UNCHANGED <<wpc, job, lostJobs>>
  /\ rejects' \in 0 .. MaxRejects
  /\ GoesOn(r, l) \/ Evaluates(r, l) \/ Pushes(r, l)

LEMMA RequestSteps ==
  ASSUME TypeOK, NEW r \in Requests,
         \/ RequestStep(r)
         \/ Reject(r, Catches) /\ UNCHANGED <<stockVars, workerVars>>
  PROVE  \E l : RequestDoes(r, l)
<1>0. rejects \in 0 .. MaxRejects /\ MaxRejects \in Nat
  BY FaultAssumption DEF TypeOK, DbTypeOK
<1>1. CASE Lookup(r)
  <2>1. PICK l \in {"eval", "NOT_FOUND"} :
          pc[r] = "start" /\ Goto(r, l) /\ UNCHANGED <<rejects, lostAcks>>
    BY <1>1 DEF Lookup, FindCampaign, Resolve
  <2>2. RequestDoes(r, l)
    BY <1>0, <1>1, <2>1 DEF RequestDoes, GoesOn, Lookup, FindCampaign, dbVars, stockVars, workerVars
  <2>3. QED  BY <2>2
<1>2. CASE Take(r)
  <2>1. PICK again \in {0, 1} :
          LET before == IF again = 1 THEN AfterScript(stock) ELSE stock
          IN  /\ Send("EVAL", again) /\ stock' = AfterScript(before)
              /\ Resolve(r, IF before > 0 THEN "push" ELSE "SOLD_OUT")
    BY <1>2 DEF Take, EvalScript
  <2>2. /\ pc[r] = "eval" /\ UNCHANGED <<rejects, lostAcks>>
        /\ UNCHANGED <<origin, issuedCount, version, coupons, rowLock, queue, wpc, job, lostJobs>>
    BY <1>2, <2>1 DEF Take, dbVars, workerVars, Resolve
  <2>3. Ran("EVAL", again) /\ stock \in Int
    BY <2>1, SendRan DEF Commands, TypeOK, StockTypeOK
  <2>4. /\ stock' \in Int
        /\ \/ /\ Goto(r, "push") /\ stock' >= 0 /\ stock' <= stock - 1
              /\ again = 0 => stock' = stock - 1
           \/ /\ Goto(r, "SOLD_OUT") /\ stock' <= stock /\ (stock >= 0 => stock' >= 0)
              /\ again = 0 => stock' = stock
    BY <2>1, <2>3 DEF AfterScript, Resolve
  <2>5. PICK l \in {"push", "SOLD_OUT"} : Goto(r, l) /\ Evaluates(r, l)
    BY <2>2, <2>3, <2>4 DEF Evaluates
  <2>6. RequestDoes(r, l)
    BY <1>0, <2>2, <2>5 DEF RequestDoes
  <2>7. QED  BY <2>6
<1>3. CASE Push(r)
  <2>1. PICK again \in {0, 1} :
          Send("LPUSH", again) /\ queue' = queue \o IF again = 1 THEN <<r, r>> ELSE <<r>>
    BY <1>3 DEF Push
  <2>2. /\ pc[r] = "push" /\ Goto(r, "QUEUED") /\ UNCHANGED <<rejects, lostAcks>>
        /\ UNCHANGED <<origin, issuedCount, version, coupons, rowLock, stock, wpc, job, lostJobs>>
    BY <1>3 DEF Push, Resolve, dbVars
  <2>3. Ran("LPUSH", again)
    BY <2>1, SendRan DEF Commands
  <2>4. RequestDoes(r, "QUEUED")
    BY <1>0, <2>1, <2>2, <2>3 DEF RequestDoes, Pushes
  <2>5. QED  BY <2>4
<1>4. CASE Reject(r, Catches) /\ UNCHANGED <<stockVars, workerVars>>
  <2>1. pc[r] = "start" /\ Catches[pc[r]] = "ERROR"
    BY <1>4 DEF Reject, Catches
  <2>2. /\ Goto(r, "ERROR") /\ rejects' = rejects + 1 /\ rejects < MaxRejects
        /\ UNCHANGED <<origin, issuedCount, version, coupons, rowLock, lostAcks>>
        /\ UNCHANGED <<stock, resent, queue, wpc, job, lostJobs>>
    BY <1>4, <2>1 DEF Reject, dbVars, stockVars, workerVars
  <2>3. RequestDoes(r, "ERROR")
    BY <1>0, <2>1, <2>2 DEF RequestDoes, GoesOn
  <2>4. QED  BY <2>3
<1>5. QED  BY <1>1, <1>2, <1>3, <1>4 DEF RequestStep

(* A worker takes a job, makes a coupon, finds a repeat, counts, returns a *)
(* slot, loses its job, or ends or starts without one.                     *)
Pops(w, l) ==
  /\ wpc[w] = "pop" /\ queue # <<>> /\ queue' = Tail(queue)
  /\ UNCHANGED <<stock, resent, coupons, issuedCount>>
  /\ \/ l = "create" /\ job' = [job EXCEPT ![w] = Head(queue)] /\ UNCHANGED lostJobs
     \/ l \in Waiting /\ job' = [job EXCEPT ![w] = NoOne] /\ lostJobs' = lostJobs + 1

Mints(w, l) ==
  /\ wpc[w] = "create" /\ ~Duplicate(job[w]) /\ coupons' = coupons \cup {job[w]}
  /\ UNCHANGED <<stock, resent, queue, issuedCount>>
  /\ \/ l = "count" /\ UNCHANGED <<job, lostJobs>>
     \/ l \in Waiting /\ job' = [job EXCEPT ![w] = NoOne] /\ lostJobs' = lostJobs + 1

FindsRepeat(w, l) ==
  /\ wpc[w] = "create" /\ l = "giveBack" /\ Duplicate(job[w])
  /\ UNCHANGED <<stock, resent, queue, coupons, issuedCount, job, lostJobs>>

Counts(w, l) ==
  /\ wpc[w] = "count" /\ l \in Waiting /\ issuedCount' = issuedCount + 1
  /\ job' = [job EXCEPT ![w] = NoOne] /\ lostJobs' \in {lostJobs, lostJobs + 1}
  /\ UNCHANGED <<stock, resent, queue, coupons>>

Returns(w, l) ==
  /\ wpc[w] = "giveBack" /\ l = "pop" /\ job' = [job EXCEPT ![w] = NoOne]
  /\ \E again \in {0, 1} : Ran("INCR", again) /\ stock' = stock + 1 + again
  /\ UNCHANGED <<queue, coupons, issuedCount, lostJobs>>

Loses(w, l) ==
  /\ wpc[w] \notin Waiting /\ l \in Waiting /\ job' = [job EXCEPT ![w] = NoOne]
  /\ lostJobs' = lostJobs + 1
  /\ UNCHANGED <<stock, resent, queue, coupons, issuedCount>>

Rests(w, l) ==
  /\ wpc[w] \in Waiting /\ l \in Waiting
  /\ UNCHANGED <<stock, resent, queue, coupons, issuedCount, job, lostJobs>>

WorkerDoes(w, l) ==
  /\ wpc' = [wpc EXCEPT ![w] = l] /\ l \in WorkerLabels
  /\ UNCHANGED <<origin, version, rowLock, pc, userKey, rejects, lostAcks>>
  /\ lostJobs' \in 0 .. MaxLostJobs
  /\ \/ Pops(w, l)
     \/ Mints(w, l)
     \/ FindsRepeat(w, l)
     \/ Counts(w, l)
     \/ Returns(w, l)
     \/ Loses(w, l)
     \/ Rests(w, l)

LEMMA WorkerSteps ==
  ASSUME TypeOK, NEW w \in Workers, WorkerStep(w) \/ WorkerEvent(w)
  PROVE  \E l : WorkerDoes(w, l)
<1> USE DEF WorkerAt, NextJob
<1>0. /\ {"pop", "stopped", "create", "count", "giveBack"} = WorkerLabels
      /\ Waiting = {"pop", "stopped"} /\ lostJobs \in 0 .. MaxLostJobs
  BY DEF WorkerLabels, Waiting, TypeOK
<1>1. LoseJob(w) => /\ \E l \in Waiting : wpc' = [wpc EXCEPT ![w] = l]
                    /\ job' = [job EXCEPT ![w] = NoOne]
                    /\ lostJobs' = lostJobs + 1 /\ lostJobs' \in 0 .. MaxLostJobs
  BY <1>0, WorkersAssumption DEF LoseJob
<1>2. CASE Pop(w)
  <2>1. PICK l \in {"create"} \cup Waiting : WorkerDoes(w, l)
    <3>1. UNCHANGED <<origin, version, rowLock, pc, userKey, rejects, lostAcks,
                      stock, resent, coupons, issuedCount>>
      BY <1>2 DEF Pop, couponDbVars, dbVars, requestVars, stockVars
    <3>2. \/ /\ wpc' = [wpc EXCEPT ![w] = "create"]
             /\ job' = [job EXCEPT ![w] = Head(queue)] /\ UNCHANGED lostJobs
          \/ LoseJob(w)
      BY <1>2 DEF Pop
    <3>3. wpc[w] = "pop" /\ queue # <<>> /\ queue' = Tail(queue)
      BY <1>2 DEF Pop
    <3>4. QED  BY <1>0, <1>1, <3>1, <3>2, <3>3 DEF WorkerDoes, Pops
  <2>2. QED  BY <2>1
<1>3. CASE WorkerCreate(w)
  <2>1. /\ wpc[w] = "create"
        /\ UNCHANGED <<pc, userKey, rejects, lostAcks, stock, resent, queue>>
    BY <1>3 DEF WorkerCreate, requestVars, stockVars
  <2>2. CASE /\ InsertCoupon(job[w])
             /\ \/ WorkerAt(w, "count") /\ UNCHANGED <<job, lostJobs>>
                \/ LoseJob(w)
    <3>1. /\ ~Duplicate(job[w]) /\ coupons' = coupons \cup {job[w]}
          /\ UNCHANGED <<origin, issuedCount, version, rowLock>>
      BY <2>2 DEF InsertCoupon
    <3>2. PICK l \in {"count"} \cup Waiting : WorkerDoes(w, l)
      BY <1>0, <1>1, <2>1, <2>2, <3>1 DEF WorkerDoes, Mints
    <3>3. QED  BY <3>2
  <2>3. CASE /\ Duplicate(job[w]) /\ UNCHANGED dbVars
             /\ WorkerAt(w, "giveBack") /\ UNCHANGED <<job, lostJobs>>
    <3>1. WorkerDoes(w, "giveBack")
      BY <1>0, <2>1, <2>3 DEF WorkerDoes, FindsRepeat, dbVars
    <3>2. QED  BY <3>1
  <2>4. QED  BY <1>3, <2>2, <2>3 DEF WorkerCreate
<1>4. CASE WorkerCount(w)
  <2>1. /\ wpc[w] = "count" /\ issuedCount' = issuedCount + 1
        /\ UNCHANGED <<origin, version, rowLock, coupons, pc, userKey, rejects, lostAcks,
                       stock, resent, queue>>
        /\ (NextJob(w) /\ UNCHANGED lostJobs) \/ LoseJob(w)
    BY <1>4 DEF WorkerCount, AddIssued, requestVars, stockVars
  <2>2. PICK l \in Waiting : WorkerDoes(w, l)
    BY <1>0, <1>1, <2>1 DEF WorkerDoes, Counts
  <2>3. QED  BY <2>2
<1>5. CASE WorkerGiveBack(w)
  <2>1. PICK again \in {0, 1} : Send("INCR", again) /\ stock' = stock + 1 + again
    BY <1>5 DEF WorkerGiveBack, Incr
  <2>2. Ran("INCR", again)
    BY <2>1, SendRan DEF Commands
  <2>3. WorkerDoes(w, "pop")
    BY <1>0, <1>5, <2>1, <2>2
    DEF WorkerGiveBack, WorkerDoes, Returns, couponDbVars, dbVars, requestVars
  <2>4. QED  BY <2>3
<1>6. CASE JobLost(w)
  <2>1. PICK l \in Waiting : WorkerDoes(w, l)
    BY <1>0, <1>1, <1>6
    DEF JobLost, WorkerDoes, Loses, couponDbVars, dbVars, requestVars, stockVars
  <2>2. QED  BY <2>1
<1>7. CASE WorkerStops(w) \/ StartWorker(w)
  <2>1. PICK l \in Waiting : WorkerDoes(w, l)
    BY <1>0, <1>7
    DEF WorkerStops, StartWorker, WorkerDoes, Rests, couponDbVars, dbVars, requestVars, stockVars
  <2>2. QED  BY <2>1
<1>8. QED  BY <1>2, <1>3, <1>4, <1>5, <1>6, <1>7 DEF WorkerStep, WorkerEvent

-----------------------------------------------------------------------------
(* Type correctness.                                                       *)

LEMMA RequestType ==
  ASSUME TypeOK, NEW r \in Requests, NEW l, RequestDoes(r, l)
  PROVE  TypeOK'
<1>1. /\ l \in Labels \cup Outcomes
      /\ stock' \in Int /\ resent' \in [Commands -> 0 .. MaxResends]
  <2>1. l \in {"eval", "NOT_FOUND", "ERROR", "push", "SOLD_OUT", "QUEUED"}
    BY DEF RequestDoes, GoesOn, Evaluates, Pushes
  <2>2. QED
    BY <2>1 DEF RequestDoes, GoesOn, Evaluates, Pushes, Ran, TypeOK, StockTypeOK,
                Labels, Outcomes, Answers
<1>2. queue' \in Seq(Requests)
  <2>1. <<r>> \in Seq(Requests) /\ <<r, r>> \in Seq(Requests) /\ queue \in Seq(Requests)
    BY DEF TypeOK
  <2>2. queue \o <<r>> \in Seq(Requests) /\ queue \o <<r, r>> \in Seq(Requests)
    BY <2>1, ConcatProperties
  <2>3. QED  BY <2>1, <2>2 DEF RequestDoes, GoesOn, Evaluates, Pushes
<1>3. pc' \in [Requests -> Labels \cup Outcomes \cup {"start"}] /\ userKey' = userKey
  BY <1>1 DEF RequestDoes, Goto, TypeOK, DbTypeOK
<1>4. Resends' <= MaxResends
  BY DEF RequestDoes, GoesOn, Evaluates, Pushes, Ran, Resends, TypeOK
<1>5. QED
  BY <1>1, <1>2, <1>3, <1>4 DEF RequestDoes, TypeOK, DbTypeOK, StockTypeOK

LEMMA WorkerType ==
  ASSUME TypeOK, JobsAgree, NEW w \in Workers, NEW l, WorkerDoes(w, l)
  PROVE  TypeOK'
<1>1. wpc[w] \notin Waiting => job[w] \in Requests
  BY DEF TypeOK, JobsAgree
<1>2. /\ stock' \in Int /\ resent' \in [Commands -> 0 .. MaxResends]
      /\ issuedCount' \in Int /\ coupons' \subseteq Requests
  <2>1. CASE Returns(w, l)
    BY <2>1 DEF Returns, Ran, TypeOK, DbTypeOK, StockTypeOK
  <2>2. CASE ~Returns(w, l)
    BY <1>1, <2>2 DEF WorkerDoes, Pops, Mints, FindsRepeat, Counts, Loses, Rests, TypeOK, DbTypeOK, StockTypeOK,
              Waiting
  <2>3. QED  BY <2>1, <2>2
<1>3. queue' \in Seq(Requests) /\ job' \in [Workers -> Requests \cup {NoOne}]
  <2>1. CASE Pops(w, l)
    <3>1. Head(queue) \in Requests /\ Tail(queue) \in Seq(Requests)
      BY <2>1, HeadTailProperties DEF Pops, TypeOK
    <3>2. QED  BY <2>1, <3>1 DEF Pops, TypeOK
  <2>2. CASE ~Pops(w, l)
    BY <2>2 DEF WorkerDoes, Mints, FindsRepeat, Counts, Returns, Loses, Rests, TypeOK
  <2>3. QED  BY <2>1, <2>2
<1>4. wpc' \in [Workers -> WorkerLabels] /\ lostJobs' \in 0 .. MaxLostJobs
  BY DEF WorkerDoes, TypeOK
<1>5. Resends' <= MaxResends
  BY DEF WorkerDoes, Pops, Mints, FindsRepeat, Counts, Returns, Loses, Rests, Ran, Resends, TypeOK
<1>6. QED
  BY <1>2, <1>3, <1>4, <1>5 DEF WorkerDoes, TypeOK, DbTypeOK, StockTypeOK

-----------------------------------------------------------------------------
(* The accounting.                                                         *)

(* No more has failed than so much.                                        *)
Clean(z) == Faults = z

(* The slots, the coupons that wait to be counted, and that neither is     *)
(* missing as long as nothing has failed, or nothing more than z times.    *)
Ledger(s, a, q, k, m, n, p, i, c, e, clean, b) ==
  /\ s >= 0
  /\ s + a + q + k + m <= n + p + i
  /\ e + c <= m + b
  /\ clean /\ b = 0 => s + a + q + k + m = n /\ e + c = m

LedgerNow(b, z) ==
  Ledger(stock, Cardinality(Where(pc, {"push"})), Len(queue), Working(wpc, Busy),
         Cardinality(coupons), InitialStock, resent["LPUSH"], resent["INCR"],
         Working(wpc, {"count"}), issuedCount, Clean(z), b)

(* The parts of the invariant that are about numbers; b is how far         *)
(* issuedCount may be ahead of the coupons, for good, and z the faults     *)
(* that are no excuse.                                                     *)
LedgerPart(b, z) ==
  /\ SlotsCounted
  /\ issuedCount + Cardinality(InHand({"count"})) <= Cardinality(coupons) + b
  /\ Clean(z) /\ b = 0 => AllAccountedFor

LEMMA LedgerNumbers ==
  ASSUME TypeOK
  PROVE  /\ Cardinality(Where(pc, {"push"})) \in Nat /\ Len(queue) \in Nat
         /\ Working(wpc, Busy) \in Nat /\ Working(wpc, {"count"}) \in Nat
         /\ Cardinality(coupons) \in Nat /\ InitialStock \in Nat
         /\ resent["LPUSH"] \in Nat /\ resent["INCR"] \in Nat /\ resent["EVAL"] \in Nat
         /\ resent["DECR"] \in Nat
         /\ stock \in Int /\ issuedCount \in Int
<1>1. Working(wpc, Busy) \in Nat /\ Working(wpc, {"count"}) \in Nat
  BY FS_Subset, FS_CardinalityType, WorkersAssumption DEF Working
<1>2. Len(queue) \in Nat
  BY LenProperties DEF TypeOK
<1>3. Cardinality(coupons) \in Nat
  BY CouponsFinite DEF TypeOK, DbTypeOK
<1>4. QED
  BY <1>1, <1>2, <1>3, WhereFinite, ResendAssumption, StockAssumption
  DEF TypeOK, DbTypeOK, StockTypeOK, Commands, InitialStock

LEMMA LedgerMeaning ==
  ASSUME TypeOK, NEW b \in Nat, NEW z \in Nat
  PROVE  LedgerPart(b, z) <=> LedgerNow(b, z)
<1>1. /\ Cardinality(InHand({"create", "giveBack"})) = Working(wpc, Busy)
      /\ Cardinality(InHand({"count"})) = Working(wpc, {"count"})
      /\ At({"push"}) = Where(pc, {"push"})
  BY DEF InHand, Working, Busy, At
<1> DEFINE a == Cardinality(Where(pc, {"push"}))
           q == Len(queue)
           k == Working(wpc, Busy)
           c == Working(wpc, {"count"})
           m == Cardinality(coupons)
           p == resent["LPUSH"]
           i == resent["INCR"]
           e == issuedCount
<1>2. /\ a \in Nat /\ q \in Nat /\ k \in Nat /\ m \in Nat /\ p \in Nat /\ i \in Nat /\ c \in Nat
      /\ stock \in Int /\ e \in Int /\ InitialStock \in Nat
  BY LedgerNumbers
<1>3. SlotsOut = a + q + k + m
  BY <1>1 DEF SlotsOut
<1>4. LedgerNow(b, z) <=> Ledger(stock, a, q, k, m, InitialStock, p, i, c, e, Clean(z), b)
  BY DEF LedgerNow
<1>5. LedgerPart(b, z) <=>
        /\ stock + SlotsOut <= InitialStock + p + i /\ stock >= 0
        /\ e + c <= m + b
        /\ Clean(z) /\ b = 0 => stock + SlotsOut = InitialStock /\ e + c = m
  BY <1>1 DEF LedgerPart, SlotsCounted, AllAccountedFor
<1> HIDE DEF a, q, k, c, m, p, i, e
<1>6. QED  BY <1>2, <1>3, <1>4, <1>5 DEF Ledger

(* The slots alone bound the coupons.                                      *)
LEMMA CouponsBounded ==
  ASSUME TypeOK, SlotsCounted
  PROVE  NotOversold
<1> DEFINE a == Cardinality(At({"push"}))
           q == Len(queue)
           k == Cardinality(InHand({"create", "giveBack"}))
           m == Cardinality(coupons)
           n == InitialStock + resent["LPUSH"] + resent["INCR"]
           s == stock
<1>1. a \in Nat /\ q \in Nat /\ k \in Nat /\ m \in Nat /\ n \in Nat /\ s \in Int
  BY LedgerNumbers DEF Working, Busy, InHand, At
<1>2. s >= 0 /\ s + (a + q + k + m) <= n
  BY DEF SlotsCounted, SlotsOut
<1>3. m <= n
  <2> HIDE DEF a, q, k, m, n, s
  <2>1. QED  BY <1>1, <1>2
<1>4. QED  BY <1>3 DEF NotOversold

(* With the slots counted, issuedCount is ahead by no more than some b.    *)
LEMMA AheadBySome ==
  ASSUME TypeOK, SlotsCounted, NEW z \in Nat
  PROVE  \E b \in Nat : LedgerPart(b, z)
<1> DEFINE c == Cardinality(InHand({"count"}))
           m == Cardinality(coupons)
           e == issuedCount
<1>1. c \in Nat /\ m \in Nat /\ e \in Int
  BY LedgerNumbers DEF Working, InHand
<1>2. \E b \in Nat \ {0} : e + c <= m + b
  <2> HIDE DEF c, m, e
  <2>1. CASE e + c - m > 0
    <3>1. e + c - m \in Nat \ {0} /\ e + c <= m + (e + c - m)
      BY <1>1, <2>1
    <3>2. QED  BY <3>1
  <2>2. CASE e + c - m <= 0
    <3>1. e + c <= m + 1
      BY <1>1, <2>2
    <3>2. QED  BY <3>1
  <2>3. QED  BY <1>1, <2>1, <2>2
<1>3. PICK b \in Nat \ {0} : issuedCount + Cardinality(InHand({"count"})) <= Cardinality(coupons) + b
  BY <1>2
<1>4. LedgerPart(b, z)
  BY <1>3 DEF LedgerPart
<1>5. QED  BY <1>3, <1>4

(* The same for the state after a step.                                    *)
LEMMA LedgerNext ==
  ASSUME TypeOK', NEW b \in Nat, NEW z \in Nat
  PROVE  /\ LedgerPart(b, z)' <=>
              Ledger(stock', Cardinality(Where(pc', {"push"})), Len(queue'), Working(wpc', Busy),
                     Cardinality(coupons'), InitialStock', resent'["LPUSH"], resent'["INCR"],
                     Working(wpc', {"count"}), issuedCount', Clean(z)', b)
         /\ Cardinality(Where(pc', {"push"})) \in Nat /\ Len(queue') \in Nat
         /\ Working(wpc', Busy) \in Nat /\ Working(wpc', {"count"}) \in Nat
         /\ Cardinality(coupons') \in Nat
         /\ resent'["LPUSH"] \in Nat /\ resent'["INCR"] \in Nat
         /\ resent'["EVAL"] \in Nat /\ resent'["DECR"] \in Nat
         /\ stock' \in Int /\ issuedCount' \in Int
<1> DEFINE a == Cardinality(Where(pc', {"push"}))
           q == Len(queue')
           k == Working(wpc', Busy)
           c == Working(wpc', {"count"})
           m == Cardinality(coupons')
           p == resent'["LPUSH"]
           i == resent'["INCR"]
<1>3. Working(wpc', Busy) \in Nat /\ Working(wpc', {"count"}) \in Nat
  BY FS_Subset, FS_CardinalityType, WorkersAssumption DEF Working
<1>4. Len(queue') \in Nat
  BY LenProperties DEF TypeOK
<1>5. Cardinality(coupons') \in Nat
  BY FS_Subset, FS_CardinalityType, RequestsAssumption DEF TypeOK, DbTypeOK
<1>6. /\ stock' \in Int /\ issuedCount' \in Int
      /\ resent'["LPUSH"] \in Nat /\ resent'["INCR"] \in Nat
      /\ resent'["EVAL"] \in Nat /\ resent'["DECR"] \in Nat
  BY ResendAssumption DEF TypeOK, DbTypeOK, StockTypeOK, Commands
<1>7. LedgerPart(b, z)' <=> Ledger(stock', a, q, k, m, InitialStock', p, i, c, issuedCount', Clean(z)', b)
  <2>1. /\ InHand({"create", "giveBack"})' = {w \in Workers : wpc'[w] \in Busy}
        /\ InHand({"count"})' = {w \in Workers : wpc'[w] \in {"count"}}
        /\ At({"push"})' = Where(pc', {"push"})
    BY DEF InHand, Busy, At, Where
  <2>2. SlotsOut' = a + q + k + m /\ Cardinality(InHand({"count"}))' = c
    BY <2>1 DEF SlotsOut, Working
  <2>3. LedgerPart(b, z)' <=>
          /\ stock' >= 0 /\ stock' + (a + q + k + m) <= InitialStock' + p + i
          /\ issuedCount' + c <= m + b
          /\ Clean(z)' /\ b = 0 => stock' + (a + q + k + m) = InitialStock' /\ issuedCount' + c = m
    BY <2>2 DEF LedgerPart, SlotsCounted, AllAccountedFor
  <2> DEFINE s == stock'
             e == issuedCount'
             n == InitialStock'
             clean == Clean(z)'
  <2>4. /\ a \in Nat /\ q \in Nat /\ k \in Nat /\ m \in Nat /\ c \in Nat
        /\ p \in Nat /\ i \in Nat /\ s \in Int /\ e \in Int /\ n \in Nat
    BY <1>3, <1>4, <1>5, <1>6, WhereFinite, StockAssumption DEF InitialStock
  <2>5. Ledger(s, a, q, k, m, n, p, i, c, e, clean, b) <=>
          /\ s >= 0 /\ s + (a + q + k + m) <= n + p + i
          /\ e + c <= m + b
          /\ clean /\ b = 0 => s + (a + q + k + m) = n /\ e + c = m
    <3> HIDE DEF a, q, k, m, c, p, i, s, e, n, clean
    <3>1. QED  BY <2>4 DEF Ledger
  <2>6. QED  BY <2>3, <2>5
<1>8. QED  BY <1>3, <1>4, <1>5, <1>6, <1>7, WhereFinite

(* What has failed or run twice is not undone.                             *)
Dead(f) == Cardinality(Where(f, {"DEAD"}))

LEMMA FaultsGrow ==
  ASSUME TypeOK, TypeOK', lostAcks' = lostAcks, Dead(pc') >= Dead(pc),
         rejects' \in {rejects, rejects + 1}, lostJobs' \in {lostJobs, lostJobs + 1},
         \/ resent' = resent
         \/ \E c \in Commands, again \in {0, 1} : Ran(c, again)
  PROVE  /\ Faults \in Nat /\ Faults' \in Nat /\ Faults <= Faults'
         /\ Faults' = Faults =>
              /\ rejects' = rejects /\ lostJobs' = lostJobs /\ resent' = resent
              /\ Dead(pc') = Dead(pc)
<1> DEFINE j == rejects
           a == lostAcks
           l == lostJobs
           x == Resends
           d == Dead(pc)
           j1 == rejects'
           l1 == lostJobs'
           x1 == Resends'
           d1 == Dead(pc')
<1>1. Faults = j + a + l + x + d /\ Faults' = j1 + a + l1 + x1 + d1
  <2>1. At({"DEAD"}) = Where(pc, {"DEAD"}) /\ At({"DEAD"})' = Where(pc', {"DEAD"})
    BY DEF At, Where
  <2>2. QED  BY <2>1 DEF Faults, Dead
<1>2. x \in Nat /\ x1 \in Nat /\ (x1 = x \/ x1 = x + 1) /\ (x1 = x => resent' = resent)
  <2>1. /\ resent \in [Commands -> Nat]
        /\ resent["DECR"] \in Nat /\ resent["EVAL"] \in Nat
        /\ resent["INCR"] \in Nat /\ resent["LPUSH"] \in Nat
    BY ResendAssumption DEF TypeOK, StockTypeOK, Commands
  <2>2. x \in Nat
    BY <2>1 DEF Resends
  <2>3. CASE resent' = resent
    BY <2>2, <2>3 DEF Resends
  <2>4. ASSUME NEW c \in Commands, NEW again \in {0, 1}, Ran(c, again)
        PROVE  x1 = x + again /\ (again = 0 => resent' = resent)
    BY <2>1, <2>4 DEF Ran, Resends, Commands
  <2>5. CASE \E c \in Commands, again \in {0, 1} : Ran(c, again)
    <3>1. PICK again \in {0, 1} : x1 = x + again /\ (again = 0 => resent' = resent)
      BY <2>4, <2>5
    <3> HIDE DEF x, x1
    <3>2. QED  BY <2>2, <3>1
  <2>6. QED  BY <2>2, <2>3, <2>5
<1>3. /\ j \in Nat /\ a \in Nat /\ l \in Nat /\ j1 \in {j, j + 1} /\ l1 \in {l, l + 1}
      /\ d \in Nat /\ d1 \in Nat /\ d1 >= d
  BY WhereFinite DEF TypeOK, DbTypeOK, Dead
<1>4. /\ j + a + l + x + d \in Nat /\ j1 + a + l1 + x1 + d1 \in Nat
      /\ j + a + l + x + d <= j1 + a + l1 + x1 + d1
      /\ j + a + l + x + d = j1 + a + l1 + x1 + d1 => j1 = j /\ l1 = l /\ x1 = x /\ d1 = d
  <2> HIDE DEF j, a, l, x, d, j1, l1, x1, d1
  <2>1. QED  BY <1>2, <1>3
<1>5. QED  BY <1>1, <1>2, <1>4

(* As long as no more has failed than z times, nothing fails in the step.  *)
LEMMA CleanBefore ==
  ASSUME TypeOK, TypeOK', NEW z \in Nat, z <= Faults, Clean(z)',
         lostAcks' = lostAcks, Dead(pc') >= Dead(pc),
         rejects' \in {rejects, rejects + 1}, lostJobs' \in {lostJobs, lostJobs + 1},
         \/ resent' = resent
         \/ \E c \in Commands, again \in {0, 1} : Ran(c, again)
  PROVE  /\ Clean(z)
         /\ rejects' = rejects /\ lostJobs' = lostJobs /\ resent' = resent
         /\ Dead(pc') = Dead(pc)
<1>1. Faults \in Nat /\ Faults' = z /\ Faults <= Faults'
  BY FaultsGrow DEF Clean
<1>2. Faults = z
  BY <1>1
<1>3. QED  BY <1>1, <1>2, FaultsGrow DEF Clean

(* Nothing has failed at all.                                              *)
LEMMA CleanOfAll ==
  ASSUME TypeOK
  PROVE  /\ Faults \in Nat
         /\ Clean(0) <=> Faultless /\ lostJobs = 0 /\ NothingResent
<1> DEFINE j == rejects
           a == lostAcks
           l == lostJobs
           x == Resends
           d == Dead(pc)
<1>1. Faults = j + a + l + x + d
  BY DEF Faults, Dead, At
<1>2. j \in Nat /\ a \in Nat /\ l \in Nat /\ x \in Nat /\ d \in Nat
  <2>1. d \in Nat
    BY WhereFinite DEF Dead
  <2>2. x \in Nat
    <3>1. /\ resent["DECR"] \in Nat /\ resent["EVAL"] \in Nat
          /\ resent["INCR"] \in Nat /\ resent["LPUSH"] \in Nat
      BY LedgerNumbers
    <3>2. QED  BY <3>1 DEF Resends
  <2>3. j \in Nat /\ a \in Nat /\ l \in Nat
    BY DEF TypeOK, DbTypeOK
  <2>4. QED  BY <2>1, <2>2, <2>3
<1>3. d = 0 <=> "DEAD" \notin {pc[r] : r \in Requests}
  <2>1. d = 0 <=> Where(pc, {"DEAD"}) = {}
    <3>1. IsFiniteSet(Where(pc, {"DEAD"}))
      BY WhereFinite
    <3>2. QED  BY <3>1, FS_EmptySet DEF Dead
  <2>2. QED  BY <2>1 DEF Where
<1>4. /\ j + a + l + x + d \in Nat
      /\ j + a + l + x + d = 0 <=> j = 0 /\ a = 0 /\ l = 0 /\ x = 0 /\ d = 0
  <2> HIDE DEF j, a, l, x, d
  <2>1. QED  BY <1>2
<1>5. QED  BY <1>1, <1>3, <1>4 DEF Clean, Faultless, NothingResent

(* What is left: the campaign is made, the server stops, nothing happens.  *)
RestStep ==
  \/ CreateCampaign /\ UNCHANGED <<stockVars, workerVars>>
  \/ ServerStops /\ UNCHANGED <<stockVars, workerVars>>
  \/ Finished
  \/ UNCHANGED vars

Stopped == [r \in Requests |-> IF InFlight(r) THEN "DEAD" ELSE pc[r]]

LEMMA RestDoes ==
  ASSUME TypeOK, RestStep
  PROVE  /\ UNCHANGED <<issuedCount, coupons, userKey, rejects, lostAcks>>
         /\ UNCHANGED <<stock, resent, queue, wpc, job, lostJobs>>
         /\ InitialStock' = InitialStock
         /\ pc' = pc \/ (pc' = Stopped /\ \E r \in Requests : InFlight(r))
<1>1. CASE CreateCampaign /\ UNCHANGED <<stockVars, workerVars>>
  BY <1>1 DEF CreateCampaign, requestVars, stockVars, workerVars, InitialStock
<1>2. CASE ServerStops /\ UNCHANGED <<stockVars, workerVars>>
  BY <1>2 DEF ServerStops, stockVars, workerVars, InitialStock, Stopped
<1>3. CASE Finished \/ UNCHANGED vars
  BY <1>3 DEF Finished, AllEnded, vars, couponDbVars, dbVars, requestVars, stockVars,
              workerVars, InitialStock
<1>4. QED  BY <1>1, <1>2, <1>3 DEF RestStep

LEMMA RestType ==
  ASSUME TypeOK, RestStep
  PROVE  TypeOK'
<1>1. pc' \in [Requests -> Labels \cup Outcomes \cup {"start"}]
  BY RestDoes DEF TypeOK, DbTypeOK, Stopped, Outcomes
<1>2. origin' \in {"none", "seed", "api"} /\ version' \in Nat /\ rowLock' = NoOne
  BY DEF RestStep, CreateCampaign, ServerStops, Finished, AllEnded, vars, couponDbVars,
         dbVars, TypeOK, DbTypeOK
<1>3. Resends' = Resends
  BY RestDoes DEF Resends
<1>4. QED
  BY <1>1, <1>2, <1>3, RestDoes DEF TypeOK, DbTypeOK, StockTypeOK

(* More requests are dead than before.                                     *)
LEMMA StoppedDie ==
  ASSUME TypeOK, pc' = Stopped, NEW r \in Requests, InFlight(r)
  PROVE  Dead(pc') >= Dead(pc) /\ Dead(pc') # Dead(pc)
<1> DEFINE X == Where(pc, {"DEAD"})
           Y == Where(pc', {"DEAD"})
<1>1. IsFiniteSet(X) /\ IsFiniteSet(Y) /\ X \subseteq Y /\ r \in Y /\ r \notin X
  BY WhereFinite DEF Where, Stopped, InFlight, Ended, Outcomes
<1> HIDE DEF X, Y
<1>2. /\ Cardinality(X) \in Nat /\ Cardinality(Y) \in Nat
      /\ Cardinality(X) <= Cardinality(Y) /\ Cardinality(Y) # Cardinality(X)
  BY <1>1, FS_Subset, FS_CardinalityType
<1>3. QED  BY <1>2 DEF Dead, X, Y

(* The ledger is kept by requests.                                         *)
LEMMA RequestLedger ==
  ASSUME TypeOK, NEW b \in Nat, NEW z \in Nat, z <= Faults, LedgerPart(b, z), NEW r \in Requests, NEW l, RequestDoes(r, l), TypeOK'
  PROVE  LedgerPart(b, z)'
<1> DEFINE a == Cardinality(Where(pc, {"push"}))
           q == Len(queue)
           k == Working(wpc, Busy)
           c == Working(wpc, {"count"})
           m == Cardinality(coupons)
           p == resent["LPUSH"]
           i == resent["INCR"]
           e == issuedCount
           n == InitialStock
           a1 == Cardinality(Where(pc', {"push"}))
           q1 == Len(queue')
           p1 == resent'["LPUSH"]
           i1 == resent'["INCR"]
<1>1. /\ a \in Nat /\ q \in Nat /\ k \in Nat /\ m \in Nat /\ p \in Nat /\ i \in Nat /\ c \in Nat
      /\ stock \in Int /\ e \in Int /\ n \in Nat /\ stock' \in Int
      /\ a1 \in Nat /\ q1 \in Nat /\ p1 \in Nat /\ i1 \in Nat
  BY LedgerNumbers, LedgerNext
<1>2. Ledger(stock, a, q, k, m, n, p, i, c, e, Clean(z), b)
  BY LedgerMeaning DEF LedgerNow
<1>3. LedgerPart(b, z)' <=> Ledger(stock', a1, q1, k, m, n, p1, i1, c, e, Clean(z)', b)
  BY LedgerNext DEF RequestDoes, InitialStock
<1>4. DOMAIN pc = Requests /\ Goto(r, l) /\ pc' = [pc EXCEPT ![r] = l]
  BY DEF TypeOK, DbTypeOK, RequestDoes, Goto
<1>5. /\ pc[r] # "push" /\ l = "push" => a1 = a + 1
      /\ pc[r] = "push" /\ l # "push" => a1 = a - 1
      /\ pc[r] # "push" /\ l # "push" => a1 = a
  <2>1. /\ pc[r] \notin {"push"} /\ l \in {"push"} => a1 = a + 1
        /\ pc[r] \in {"push"} /\ l \notin {"push"} => a1 = a - 1
        /\ (pc[r] \in {"push"} <=> l \in {"push"}) => a1 = a
    BY <1>4, AtMoves
  <2>2. QED  BY <2>1
<1>6. Clean(z)' => Clean(z) /\ resent' = resent
  <2>1. Dead(pc') = Dead(pc)
    <3>1. pc[r] \notin {"DEAD"} /\ l \notin {"DEAD"}
      BY DEF RequestDoes, GoesOn, Evaluates, Pushes
    <3>2. QED  BY <1>4, <3>1, AtMoves DEF Dead
  <2>0. Dead(pc) \in Nat
    BY WhereFinite DEF Dead
  <2>2. /\ rejects' \in {rejects, rejects + 1} /\ lostJobs' = lostJobs /\ lostAcks' = lostAcks
        /\ resent' = resent \/ \E d \in Commands, again \in {0, 1} : Ran(d, again)
    BY DEF RequestDoes, GoesOn, Evaluates, Pushes, Commands
  <2>3. QED  BY <2>0, <2>1, <2>2, CleanBefore
<1>7. CASE GoesOn(r, l)
  <2>1. stock' = stock /\ q1 = q /\ p1 = p /\ i1 = i /\ a1 = a
    BY <1>5, <1>7 DEF GoesOn
  <2>2. QED  BY <1>2, <1>3, <1>6, <2>1 DEF Ledger
<1>8. CASE Evaluates(r, l)
  <2> DEFINE s == stock
             t == stock'
  <2>1. PICK again \in {0, 1} :
          /\ Ran("EVAL", again)
          /\ \/ l = "push" /\ t >= 0 /\ t <= s - 1 /\ (again = 0 => t = s - 1)
             \/ l = "SOLD_OUT" /\ t <= s /\ (s >= 0 => t >= 0) /\ (again = 0 => t = s)
    BY <1>8 DEF Evaluates
  <2>2. resent \in [Commands -> 0 .. MaxResends] /\ MaxResends \in Nat
    BY ResendAssumption DEF TypeOK, StockTypeOK
  <2>3. p1 = p /\ i1 = i /\ (resent' = resent => again = 0)
    BY <2>1, <2>2 DEF Ran, Commands
  <2>4. q1 = q /\ pc[r] = "eval"
    BY <1>8 DEF Evaluates
  <2>5. \/ a1 = a + 1 /\ t >= 0 /\ t <= s - 1 /\ (again = 0 => t = s - 1)
        \/ a1 = a /\ t <= s /\ (s >= 0 => t >= 0) /\ (again = 0 => t = s)
    <3> HIDE DEF s, t
    <3>1. QED  BY <1>5, <2>1, <2>4
  <2>6. Clean(z)' => Clean(z) /\ again = 0
    BY <1>6, <2>3
  <2>7. /\ s \in Int /\ t \in Int
        /\ Ledger(s, a, q, k, m, n, p, i, c, e, Clean(z), b)
    BY <1>1, <1>2
  <2>8. Ledger(t, a1, q1, k, m, n, p1, i1, c, e, Clean(z)', b)
    <3> HIDE DEF a, q, k, c, m, p, i, e, n, a1, q1, p1, i1, s, t
    <3>1. QED  BY <1>1, <2>3, <2>4, <2>5, <2>6, <2>7 DEF Ledger
  <2>9. QED  BY <1>3, <2>8
<1>9. CASE Pushes(r, l)
  <2>1. PICK again \in {0, 1} :
          Ran("LPUSH", again) /\ queue' = queue \o IF again = 1 THEN <<r, r>> ELSE <<r>>
    BY <1>9 DEF Pushes
  <2>2. resent \in [Commands -> 0 .. MaxResends] /\ MaxResends \in Nat /\ queue \in Seq(Requests)
    BY ResendAssumption DEF TypeOK, StockTypeOK
  <2>3. p1 = p + again /\ i1 = i /\ (resent' = resent => again = 0)
    BY <2>1, <2>2 DEF Ran, Commands
  <2>4. q1 = q + 1 + again
    <3>1. /\ <<r>> \in Seq(Requests) /\ <<r, r>> \in Seq(Requests)
          /\ Len(<<r>>) = 1 /\ Len(<<r, r>>) = 2
      OBVIOUS
    <3>2. Len(queue \o <<r>>) = q + 1 /\ Len(queue \o <<r, r>>) = q + 2
      BY <2>2, <3>1, ConcatProperties
    <3>3. QED  BY <2>1, <3>2
  <2>5. a1 = a - 1 /\ stock' = stock
    BY <1>5, <1>9 DEF Pushes
  <2>6. Clean(z)' => Clean(z) /\ again = 0
    BY <1>6, <2>3
  <2> HIDE DEF a, q, k, c, m, p, i, e, n, a1, q1, p1, i1
  <2>7. QED  BY <1>1, <1>2, <1>3, <2>1, <2>3, <2>4, <2>5, <2>6 DEF Ledger
<1>10. QED  BY <1>7, <1>8, <1>9 DEF RequestDoes

(* The ledger is kept by workers.                                          *)
LEMMA WorkerLedger ==
  ASSUME TypeOK, NEW b \in Nat, NEW z \in Nat, z <= Faults, LedgerPart(b, z),
         NEW w \in Workers, NEW l, WorkerDoes(w, l), TypeOK'
  PROVE  LedgerPart(b, z)'
<1> DEFINE s == stock
           a == Cardinality(Where(pc, {"push"}))
           q == Len(queue)
           k == Working(wpc, Busy)
           c == Working(wpc, {"count"})
           m == Cardinality(coupons)
           p == resent["LPUSH"]
           i == resent["INCR"]
           e == issuedCount
           n == InitialStock
           s1 == stock'
           q1 == Len(queue')
           k1 == Working(wpc', Busy)
           c1 == Working(wpc', {"count"})
           m1 == Cardinality(coupons')
           p1 == resent'["LPUSH"]
           i1 == resent'["INCR"]
           e1 == issuedCount'
<1>1. /\ a \in Nat /\ q \in Nat /\ k \in Nat /\ m \in Nat /\ p \in Nat /\ i \in Nat /\ c \in Nat
      /\ s \in Int /\ e \in Int /\ n \in Nat /\ s1 \in Int /\ e1 \in Int
      /\ q1 \in Nat /\ k1 \in Nat /\ m1 \in Nat /\ p1 \in Nat /\ i1 \in Nat /\ c1 \in Nat
  BY LedgerNumbers, LedgerNext
<1>2. Ledger(s, a, q, k, m, n, p, i, c, e, Clean(z), b)
  BY LedgerMeaning DEF LedgerNow
<1>3. LedgerPart(b, z)' <=> Ledger(s1, a, q1, k1, m1, n, p1, i1, c1, e1, Clean(z)', b)
  <2>1. pc' = pc /\ InitialStock' = InitialStock
    BY DEF WorkerDoes, InitialStock
  <2>2. QED  BY <2>1, LedgerNext
<1>4. /\ wpc[w] \in Busy /\ l \notin Busy => k1 = k - 1
      /\ wpc[w] \notin Busy /\ l \in Busy => k1 = k + 1
      /\ (wpc[w] \in Busy <=> l \in Busy) => k1 = k
      /\ wpc[w] \in {"count"} /\ l \notin {"count"} => c1 = c - 1
      /\ wpc[w] \notin {"count"} /\ l \in {"count"} => c1 = c + 1
      /\ (wpc[w] \in {"count"} <=> l \in {"count"}) => c1 = c
  BY WorkingMoves DEF WorkerDoes
<1>5. Clean(z)' => Clean(z) /\ lostJobs' = lostJobs /\ resent' = resent
  <2>1. Dead(pc') = Dead(pc) /\ Dead(pc) \in Nat
    BY WhereFinite DEF WorkerDoes, Dead
  <2>2. /\ rejects' = rejects /\ lostJobs' \in {lostJobs, lostJobs + 1} /\ lostAcks' = lostAcks
        /\ resent' = resent \/ \E d \in Commands, again \in {0, 1} : Ran(d, again)
    BY DEF WorkerDoes, Pops, Mints, FindsRepeat, Counts, Returns, Loses, Rests, Commands
  <2>3. QED  BY <2>1, <2>2, CleanBefore
<1>6. lostJobs' = lostJobs + 1 => ~Clean(z)'
  BY <1>5 DEF TypeOK
<1>7. CASE Pops(w, l)
  <2>1. s1 = s /\ p1 = p /\ i1 = i /\ m1 = m /\ e1 = e
    BY <1>7 DEF Pops
  <2>2. q = q1 + 1
    BY <1>7, HeadTailProperties, LenProperties DEF Pops, TypeOK
  <2>3. \/ k1 = k + 1 /\ c1 = c
        \/ k1 = k /\ c1 = c /\ ~Clean(z)'
    BY <1>4, <1>6, <1>7 DEF Pops, Busy, Waiting
  <2> HIDE DEF a, s, q, k, c, m, p, i, e, n, s1, q1, k1, c1, m1, p1, i1, e1
  <2>4. QED  BY <1>1, <1>2, <1>3, <1>5, <2>1, <2>2, <2>3 DEF Ledger
<1>8. CASE Mints(w, l)
  <2>1. s1 = s /\ p1 = p /\ i1 = i /\ q1 = q /\ e1 = e
    BY <1>8 DEF Mints
  <2>2. m1 = m + 1
    <3>1. job[w] \notin coupons /\ coupons' = coupons \cup {job[w]} /\ IsFiniteSet(coupons)
      BY <1>8, CouponsFinite DEF Mints, Duplicate, TypeOK, DbTypeOK
    <3>2. QED  BY <3>1, FS_AddElement
  <2>3. \/ k1 = k - 1 /\ c1 = c + 1
        \/ k1 = k - 1 /\ c1 = c /\ ~Clean(z)'
    BY <1>4, <1>6, <1>8 DEF Mints, Busy, Waiting
  <2> HIDE DEF a, s, q, k, c, m, p, i, e, n, s1, q1, k1, c1, m1, p1, i1, e1
  <2>4. QED  BY <1>1, <1>2, <1>3, <1>5, <2>1, <2>2, <2>3 DEF Ledger
<1>9. CASE FindsRepeat(w, l)
  <2>1. s1 = s /\ p1 = p /\ i1 = i /\ q1 = q /\ e1 = e /\ m1 = m
    BY <1>9 DEF FindsRepeat
  <2>2. k1 = k /\ c1 = c
    BY <1>4, <1>9 DEF FindsRepeat, Busy
  <2>3. QED  BY <1>2, <1>3, <1>5, <2>1, <2>2 DEF Ledger
<1>10. CASE Counts(w, l)
  <2>1. s1 = s /\ p1 = p /\ i1 = i /\ q1 = q /\ e1 = e + 1 /\ m1 = m
    BY <1>10 DEF Counts
  <2>2. k1 = k /\ c1 = c - 1
    BY <1>4, <1>10 DEF Counts, Busy, Waiting
  <2> HIDE DEF a, s, q, k, c, m, p, i, e, n, s1, q1, k1, c1, m1, p1, i1, e1
  <2>3. QED  BY <1>1, <1>2, <1>3, <1>5, <2>1, <2>2 DEF Ledger
<1>11. CASE Returns(w, l)
  <2>1. q1 = q /\ e1 = e /\ m1 = m
    BY <1>11 DEF Returns
  <2>2. PICK again \in {0, 1} : Ran("INCR", again) /\ s1 = s + 1 + again
    BY <1>11 DEF Returns
  <2>3. i1 = i + again /\ p1 = p
    BY <2>2, ResendAssumption DEF Ran, Commands, TypeOK, StockTypeOK
  <2>4. resent' = resent => again = 0
    <3>1. resent' = resent => i1 = i
      OBVIOUS
    <3> HIDE DEF i, i1
    <3>2. QED  BY <1>1, <2>3, <3>1
  <2>5. k1 = k - 1 /\ c1 = c
    BY <1>4, <1>11 DEF Returns, Busy
  <2> HIDE DEF a, s, q, k, c, m, p, i, e, n, s1, q1, k1, c1, m1, p1, i1, e1
  <2>6. QED  BY <1>1, <1>2, <1>3, <1>5, <2>1, <2>2, <2>3, <2>4, <2>5 DEF Ledger
<1>12. CASE Loses(w, l)
  <2>1. s1 = s /\ p1 = p /\ i1 = i /\ q1 = q /\ e1 = e /\ m1 = m /\ ~Clean(z)'
    BY <1>6, <1>12 DEF Loses
  <2>2. \/ k1 = k - 1 /\ c1 = c
        \/ k1 = k /\ c1 = c - 1
    BY <1>4, <1>12 DEF Loses, Busy, Waiting, TypeOK, WorkerLabels
  <2> HIDE DEF a, s, q, k, c, m, p, i, e, n, s1, q1, k1, c1, m1, p1, i1, e1
  <2>3. QED  BY <1>1, <1>2, <1>3, <2>1, <2>2 DEF Ledger
<1>13. CASE Rests(w, l)
  <2>1. s1 = s /\ p1 = p /\ i1 = i /\ q1 = q /\ e1 = e /\ m1 = m
    BY <1>13 DEF Rests
  <2>2. k1 = k /\ c1 = c
    BY <1>4, <1>13 DEF Rests, Busy, Waiting
  <2>3. QED  BY <1>2, <1>3, <1>5, <2>1, <2>2 DEF Ledger
<1>14. QED  BY <1>7, <1>8, <1>9, <1>10, <1>11, <1>12, <1>13 DEF WorkerDoes

(* A server that stops takes the slots of its requests with it, and the    *)
(* rest leaves everything where it is.                                     *)
LEMMA RestLedger ==
  ASSUME TypeOK, NEW b \in Nat, NEW z \in Nat, z <= Faults, LedgerPart(b, z), RestStep, TypeOK'
  PROVE  LedgerPart(b, z)'
<1> DEFINE s == stock
           a == Cardinality(Where(pc, {"push"}))
           q == Len(queue)
           k == Working(wpc, Busy)
           c == Working(wpc, {"count"})
           m == Cardinality(coupons)
           p == resent["LPUSH"]
           i == resent["INCR"]
           e == issuedCount
           n == InitialStock
           a1 == Cardinality(Where(pc', {"push"}))
<1>1. /\ a \in Nat /\ q \in Nat /\ k \in Nat /\ m \in Nat /\ p \in Nat /\ i \in Nat /\ c \in Nat
      /\ s \in Int /\ e \in Int /\ n \in Nat /\ a1 \in Nat
  BY LedgerNumbers, LedgerNext
<1>2. Ledger(s, a, q, k, m, n, p, i, c, e, Clean(z), b)
  BY LedgerMeaning DEF LedgerNow
<1>3. LedgerPart(b, z)' <=> Ledger(s, a1, q, k, m, n, p, i, c, e, Clean(z)', b)
  BY LedgerNext, RestDoes
<1>4. CASE pc' = pc
  <2>1. a1 = a /\ (Clean(z)' => Clean(z))
    BY <1>4, RestDoes DEF Clean, Faults, Resends, At, Where
  <2>2. QED  BY <1>2, <1>3, <2>1 DEF Ledger
<1>5. CASE pc' = Stopped /\ \E r \in Requests : InFlight(r)
  <2>1. ~Clean(z)'
    <3>1. Dead(pc') >= Dead(pc) /\ Dead(pc') # Dead(pc)
      BY <1>5, StoppedDie
    <3>2. QED  BY <3>1, CleanBefore, RestDoes
  <2>2. Where(pc', {"push"}) = {}
    BY <1>5 DEF Where, Stopped, InFlight, Ended, Outcomes, Answers
  <2>3. a1 = 0
    BY <2>2, FS_EmptySet
  <2> HIDE DEF a, s, q, k, c, m, p, i, e, n, a1
  <2>4. QED  BY <1>1, <1>2, <1>3, <2>1, <2>3 DEF Ledger
<1>6. QED  BY <1>4, <1>5, RestDoes

-----------------------------------------------------------------------------
(* The jobs.                                                               *)

Carried(r) ==
  \/ Duplicate(r)
  \/ \E i \in DOMAIN queue : queue[i] = r
  \/ \E w \in Workers : wpc[w] = "create" /\ job[w] = r

CarriedPart == lostJobs = 0 => \A r \in Requests : pc[r] = "QUEUED" => Carried(r)

LEMMA InvParts ==
  /\ IInv => TypeOK /\ LedgerPart(0, 0) /\ JobsAgree /\ CarriedPart
  /\ TypeOK /\ LedgerPart(0, 0) /\ JobsAgree /\ CarriedPart => IInv
<1>1. IInv => TypeOK /\ LedgerPart(0, 0) /\ JobsAgree /\ CarriedPart
  <2>1. TypeOK => Cardinality(coupons) + 0 = Cardinality(coupons)
    BY LedgerNumbers
  <2>2. IInv => LedgerPart(0, 0)
    BY <2>1, CleanOfAll DEF IInv, LedgerPart, CouponsCounted, NothingMissing
  <2>3. QED
    BY <2>2 DEF IInv, CarriedPart, Carried, JobsKept, At, Where, InHand
<1>2. ASSUME TypeOK, LedgerPart(0, 0)
      PROVE  SlotsCounted /\ CouponsCounted /\ NothingMissing /\ NotOversold
  <2>1. Cardinality(coupons) + 0 = Cardinality(coupons)
    BY <1>2, LedgerNumbers
  <2>2. QED
    BY <1>2, <2>1, CouponsBounded, CleanOfAll DEF LedgerPart, CouponsCounted, NothingMissing
<1>3. ASSUME CarriedPart PROVE JobsKept
  BY <1>3 DEF CarriedPart, Carried, JobsKept, At, Where, InHand
<1>4. QED  BY <1>1, <1>2, <1>3 DEF IInv

(* An accepted request stays accepted.                                     *)
LEMMA RequestJobs ==
  ASSUME TypeOK, JobsAgree, NEW r \in Requests, NEW l, RequestDoes(r, l)
  PROVE  JobsAgree' /\ (CarriedPart => CarriedPart')
<1>1. /\ pc' = [pc EXCEPT ![r] = l] /\ pc \in [Requests -> Labels \cup Outcomes \cup {"start"}]
      /\ pc[r] # "QUEUED" /\ queue \in Seq(Requests)
      /\ UNCHANGED <<coupons, userKey, wpc, job, lostJobs>>
  BY DEF RequestDoes, Goto, GoesOn, Evaluates, Pushes, TypeOK, DbTypeOK
<1>2. \A x \in Requests : pc[x] = "QUEUED" => pc'[x] = "QUEUED"
  BY <1>1
<1> DEFINE
      Accepted == \A i \in DOMAIN queue' : pc'[queue'[i]] = "QUEUED"
      Kept == \A x \in Requests : (\E i \in DOMAIN queue : queue[i] = x) =>
                                   \E i \in DOMAIN queue' : queue'[i] = x
      Joined == pc'[r] = "QUEUED" => \E i \in DOMAIN queue' : queue'[i] = r
<1>3. Accepted /\ Kept /\ Joined
  <2>0. \A i \in DOMAIN queue : queue[i] \in Requests /\ pc[queue[i]] = "QUEUED"
    BY <1>1, ElementOfSeq DEF JobsAgree
  <2>1. CASE ~Pushes(r, l)
    <3>1. queue' = queue /\ l # "QUEUED"
      BY <2>1 DEF RequestDoes, GoesOn, Evaluates
    <3>2. QED  BY <1>1, <1>2, <2>0, <3>1
  <2>2. ASSUME NEW tail \in Seq({r}), Len(tail) > 0, queue' = queue \o tail, l = "QUEUED"
        PROVE  Accepted /\ Kept /\ Joined
    <3>1. /\ Len(queue') = Len(queue) + Len(tail) /\ DOMAIN queue' = 1 .. Len(queue')
          /\ DOMAIN queue = 1 .. Len(queue) /\ Len(queue) \in Nat /\ Len(tail) \in Nat
          /\ \A i \in 1 .. Len(queue') :
               queue'[i] = IF i <= Len(queue) THEN queue[i] ELSE tail[i - Len(queue)]
      <4>1. queue \in Seq(Requests) /\ tail \in Seq(Requests)
        BY <1>1, <2>2, SeqMonotonic
      <4>2. queue' \in Seq(Requests)
        BY <4>1, <2>2, ConcatProperties
      <4>3. QED  BY <4>1, <4>2, <2>2, ConcatProperties, LenProperties
    <3>2. \A j \in 1 .. Len(tail) : tail[j] = r
      BY <2>2, ElementOfSeq
    <3>3. \A i \in 1 .. Len(queue') : i <= Len(queue) => queue'[i] = queue[i] /\ i \in DOMAIN queue
      BY <3>1
    <3>4. \A i \in 1 .. Len(queue') : ~(i <= Len(queue)) => queue'[i] = r
      BY <3>1, <3>2
    <3>5. pc'[r] = "QUEUED"
      BY <1>1, <2>2
    <3>6. \A i \in DOMAIN queue' : pc'[queue'[i]] = "QUEUED"
      BY <1>2, <2>0, <3>1, <3>3, <3>4, <3>5
    <3>7. \A i \in DOMAIN queue : i \in DOMAIN queue' /\ queue'[i] = queue[i]
      BY <3>1, <3>3
    <3>8. Len(queue) + 1 \in DOMAIN queue' /\ queue'[Len(queue) + 1] = r
      BY <2>2, <3>1, <3>4
    <3>9. QED  BY <3>6, <3>7, <3>8
  <2>3. CASE Pushes(r, l)
    <3>1. <<r>> \in Seq({r}) /\ <<r, r>> \in Seq({r}) /\ Len(<<r>>) > 0 /\ Len(<<r, r>>) > 0
      OBVIOUS
    <3>2. l = "QUEUED" /\ (queue' = queue \o <<r>> \/ queue' = queue \o <<r, r>>)
      BY <2>3 DEF Pushes
    <3>3. QED  BY <2>2, <3>1, <3>2
  <2>4. QED  BY <2>1, <2>3
<1>4. JobsAgree'
  <2>1. \A c \in coupons : c \in Requests
    BY DEF TypeOK, DbTypeOK
  <2>2. \A w \in Workers : job[w] \in Requests \cup {NoOne}
    BY DEF TypeOK
  <2>3. \A w \in Workers : Duplicate(job[w]) => Duplicate(job[w])'
    BY <1>1 DEF Duplicate
  <2>4. QED  BY <1>1, <1>2, <1>3, <2>1, <2>2, <2>3 DEF JobsAgree
<1>5. CarriedPart => CarriedPart'
  <2>1. ASSUME NEW x \in Requests, Carried(x)
        PROVE  Carried(x)'
    BY <1>1, <1>3, <2>1 DEF Carried, Duplicate
  <2>2. pc'[r] = "QUEUED" => Carried(r)'
    BY <1>3 DEF Carried
  <2>3. \A x \in Requests : x # r => pc'[x] = pc[x]
    BY <1>1
  <2>4. QED  BY <1>1, <2>1, <2>2, <2>3 DEF CarriedPart
<1>6. QED  BY <1>4, <1>5

(* A worker has a job in hand exactly while it works on it, and an         *)
(* accepted request's job leaves the queue for a worker, and the worker    *)
(* for a coupon of its user.                                               *)
LEMMA WorkerJobs ==
  ASSUME TypeOK, JobsAgree, NEW w \in Workers, NEW l, WorkerDoes(w, l)
  PROVE  JobsAgree' /\ (CarriedPart => CarriedPart')
<1>1. /\ UNCHANGED <<pc, userKey>> /\ wpc' = [wpc EXCEPT ![w] = l]
      /\ wpc \in [Workers -> WorkerLabels] /\ job \in [Workers -> Requests \cup {NoOne}]
      /\ NoOne \notin Requests /\ queue \in Seq(Requests) /\ coupons \subseteq Requests
      /\ lostJobs \in Nat
  BY RequestsAssumption DEF WorkerDoes, TypeOK, DbTypeOK
<1>2. coupons \subseteq coupons' /\ \A r \in Requests : Duplicate(r) => Duplicate(r)'
  <2>1. coupons \subseteq coupons'
    BY DEF WorkerDoes, Pops, Mints, FindsRepeat, Counts, Returns, Loses, Rests
  <2>2. QED  BY <1>1, <2>1 DEF Duplicate
<1>3. /\ \A i \in DOMAIN queue : queue[i] \in Requests /\ pc[queue[i]] = "QUEUED"
      /\ \A v \in Workers : wpc[v] \notin Waiting => job[v] \in Requests /\ pc[job[v]] = "QUEUED"
  BY <1>1, ElementOfSeq DEF JobsAgree
<1>4. /\ \A v \in Workers \ {w} : wpc'[v] = wpc[v]
      /\ \A v \in Workers \ {w} : job'[v] = job[v]
  BY <1>1 DEF WorkerDoes, Pops, Mints, FindsRepeat, Counts, Returns, Loses, Rests
<1>5. CASE Pops(w, l)
  <2>1. /\ queue' = Tail(queue) /\ queue # <<>> /\ Head(queue) = queue[1]
        /\ DOMAIN queue = 1 .. Len(queue) /\ DOMAIN queue' = 1 .. Len(queue) - 1
        /\ Len(queue) \in Nat /\ 1 \in DOMAIN queue
        /\ \A i \in 1 .. Len(queue) - 1 : queue'[i] = queue[i + 1]
    BY <1>1, <1>5, HeadTailProperties, LenProperties, EmptySeq DEF Pops
  <2>2. \A i \in DOMAIN queue' : pc'[queue'[i]] = "QUEUED"
    BY <1>1, <1>3, <2>1
  <2>3. coupons' = coupons /\ wpc'[w] = l
    BY <1>1, <1>5 DEF Pops
  <2>4. /\ wpc'[w] \in Waiting <=> job'[w] = NoOne
        /\ wpc'[w] # "count" /\ wpc'[w] # "giveBack"
        /\ job'[w] # NoOne => pc'[job'[w]] = "QUEUED"
    BY <1>1, <1>3, <1>5, <2>1, <2>3 DEF Pops, Waiting
  <2>5. JobsAgree'
    BY <1>1, <1>2, <1>3, <1>4, <2>2, <2>3, <2>4 DEF JobsAgree, Waiting
  <2>6. CASE l \in Waiting
    BY <1>1, <1>5, <2>5, <2>6 DEF Pops, Waiting, CarriedPart
  <2>7. CASE l = "create" /\ lostJobs' = lostJobs /\ job' = [job EXCEPT ![w] = Head(queue)]
    <3>1. ASSUME NEW r \in Requests, Carried(r)
          PROVE  Carried(r)'
      <4>1. CASE Duplicate(r)
        BY <1>2, <4>1 DEF Carried
      <4>2. ASSUME NEW i \in DOMAIN queue, queue[i] = r
            PROVE  Carried(r)'
        <5>1. CASE i = 1
          <6>1. wpc'[w] = "create" /\ job'[w] = r
            BY <1>1, <2>1, <2>3, <2>7, <4>2, <5>1
          <6>2. QED  BY <6>1 DEF Carried
        <5>2. CASE i # 1
          <6>1. i - 1 \in DOMAIN queue' /\ queue'[i - 1] = r
            BY <2>1, <4>2, <5>2
          <6>2. QED  BY <6>1 DEF Carried
        <5>3. QED  BY <5>1, <5>2
      <4>3. ASSUME NEW v \in Workers, wpc[v] = "create", job[v] = r
            PROVE  Carried(r)'
        <5>1. v # w
          BY <1>5, <4>3 DEF Pops
        <5>2. wpc'[v] = "create" /\ job'[v] = r
          BY <1>4, <4>3, <5>1
        <5>3. QED  BY <5>2 DEF Carried
      <4>4. QED  BY <3>1, <4>1, <4>2, <4>3 DEF Carried
    <3>2. QED  BY <1>1, <2>5, <2>7, <3>1 DEF CarriedPart
  <2>8. QED  BY <1>5, <2>6, <2>7 DEF Pops
<1>6. CASE ~Pops(w, l)
  <2>1. queue' = queue /\ wpc'[w] = l
    BY <1>1, <1>6 DEF WorkerDoes, Mints, FindsRepeat, Counts, Returns, Loses, Rests
  <2>2. \A c \in coupons' : pc'[c] = "QUEUED"
    BY <1>1, <1>3, <1>6, <2>1 DEF WorkerDoes, Mints, FindsRepeat, Counts, Returns, Loses, Rests, JobsAgree, Waiting
  <2>3. /\ wpc'[w] \in Waiting <=> job'[w] = NoOne
        /\ wpc'[w] = "count" => job'[w] \in coupons'
        /\ wpc'[w] = "giveBack" => Duplicate(job[w]) /\ job'[w] = job[w]
        /\ job'[w] # NoOne => pc'[job'[w]] = "QUEUED"
    BY <1>1, <1>3, <1>6, <2>1
    DEF WorkerDoes, Mints, FindsRepeat, Counts, Returns, Loses, Rests, Waiting, JobsAgree
  <2>4. \A v \in Workers : wpc'[v] = "giveBack" => Duplicate(job[v])'
    <3>1. ASSUME NEW v \in Workers, wpc'[v] = "giveBack", NEW j \in Requests, Duplicate(j), job'[v] = j
          PROVE  Duplicate(job[v])'
      BY <1>2, <3>1 DEF Duplicate
    <3>2. \A v \in Workers : wpc'[v] = "giveBack" =>
            job'[v] = job[v] /\ job[v] \in Requests /\ Duplicate(job[v])
      BY <1>3, <1>4, <2>1, <2>3 DEF JobsAgree, Waiting
    <3>3. QED  BY <3>1, <3>2
  <2>5. JobsAgree'
    BY <1>1, <1>2, <1>3, <1>4, <2>1, <2>2, <2>3, <2>4 DEF JobsAgree
  <2>6. ASSUME lostJobs' = 0, NEW r \in Requests, Carried(r)
        PROVE  Carried(r)'
    <3>1. CASE Duplicate(r)
      BY <1>2, <3>1 DEF Carried
    <3>2. CASE \E i \in DOMAIN queue : queue[i] = r
      BY <2>1, <3>2 DEF Carried
    <3>3. CASE wpc[w] = "create" /\ job[w] = r
      <4>1. CASE Mints(w, l)
        <5>1. r \in coupons'
          BY <3>3, <4>1 DEF Mints
        <5>2. QED  BY <5>1 DEF Carried, Duplicate
      <4>2. CASE FindsRepeat(w, l)
        BY <1>2, <3>3, <4>2 DEF FindsRepeat, Carried
      <4>3. QED
        BY <1>1, <1>6, <2>6, <3>3, <4>1, <4>2 DEF WorkerDoes, Counts, Returns, Loses, Rests, Waiting
    <3>4. ASSUME NEW v \in Workers, v # w, wpc[v] = "create", job[v] = r
          PROVE  Carried(r)'
      BY <1>4, <3>4 DEF Carried
    <3>5. QED  BY <2>6, <3>1, <3>2, <3>3, <3>4 DEF Carried
  <2>7. CarriedPart => CarriedPart'
    <3>1. lostJobs' = 0 => lostJobs = 0
      BY <1>1, <1>6 DEF WorkerDoes, Mints, FindsRepeat, Counts, Returns, Loses, Rests
    <3>2. QED  BY <1>1, <2>6, <3>1 DEF CarriedPart
  <2>8. QED  BY <2>5, <2>7
<1>7. QED  BY <1>5, <1>6

LEMMA RestJobs ==
  ASSUME TypeOK, JobsAgree, RestStep
  PROVE  JobsAgree' /\ (CarriedPart => CarriedPart')
<1>1. UNCHANGED <<coupons, userKey, queue, wpc, job, lostJobs>>
  BY RestDoes
<1>2. \A r \in Requests : pc'[r] = "QUEUED" <=> pc[r] = "QUEUED"
  BY RestDoes DEF Stopped, InFlight, Ended, Outcomes, Answers
<1>3. /\ queue \in Seq(Requests) /\ coupons \subseteq Requests
      /\ job \in [Workers -> Requests \cup {NoOne}]
      /\ \A i \in DOMAIN queue : queue[i] \in Requests
  BY ElementOfSeq DEF TypeOK, DbTypeOK
<1>4. /\ \A r \in Requests : Carried(r)' <=> Carried(r)
      /\ \A w \in Workers : Duplicate(job[w])' <=> Duplicate(job[w])
  BY <1>1 DEF Carried, Duplicate
<1>5. QED  BY <1>1, <1>2, <1>3, <1>4 DEF JobsAgree, CarriedPart

-----------------------------------------------------------------------------
(* The theorems.                                                           *)

(* A step is one of a request, of a worker, or none of theirs.             *)
LEMMA StepsSorted ==
  ASSUME TypeOK, [Next]_vars
  PROVE  \/ \E r \in Requests : \E l : RequestDoes(r, l)
         \/ \E w \in Workers : \E l : WorkerDoes(w, l)
         \/ RestStep
BY RequestSteps, WorkerSteps DEF Next, RestStep

(* The faults never become fewer.                                          *)
LEMMA FaultsKept ==
  ASSUME TypeOK, TypeOK', [Next]_vars
  PROVE  Faults \in Nat /\ Faults' \in Nat /\ Faults <= Faults'
<1>0. Dead(pc) \in Nat /\ lostJobs \in Nat /\ rejects \in Nat
  BY WhereFinite DEF Dead, TypeOK, DbTypeOK
<1>1. ASSUME NEW r \in Requests, NEW l, RequestDoes(r, l)
      PROVE  Faults \in Nat /\ Faults' \in Nat /\ Faults <= Faults'
  <2>1. Dead(pc') = Dead(pc)
    <3>1. pc[r] \notin {"DEAD"} /\ l \notin {"DEAD"} /\ Goto(r, l) /\ DOMAIN pc = Requests
      BY <1>1 DEF RequestDoes, GoesOn, Evaluates, Pushes, TypeOK, DbTypeOK
    <3>2. QED  BY <3>1, AtMoves DEF Dead
  <2>2. /\ rejects' \in {rejects, rejects + 1} /\ lostJobs' = lostJobs /\ lostAcks' = lostAcks
        /\ resent' = resent \/ \E d \in Commands, again \in {0, 1} : Ran(d, again)
    BY <1>1 DEF RequestDoes, GoesOn, Evaluates, Pushes, Commands
  <2>3. QED  BY <1>0, <2>1, <2>2, FaultsGrow
<1>2. ASSUME NEW w \in Workers, NEW l, WorkerDoes(w, l)
      PROVE  Faults \in Nat /\ Faults' \in Nat /\ Faults <= Faults'
  <2>1. Dead(pc') = Dead(pc)
    BY <1>2 DEF WorkerDoes
  <2>2. /\ rejects' = rejects /\ lostJobs' \in {lostJobs, lostJobs + 1} /\ lostAcks' = lostAcks
        /\ resent' = resent \/ \E d \in Commands, again \in {0, 1} : Ran(d, again)
    BY <1>2 DEF WorkerDoes, Pops, Mints, FindsRepeat, Counts, Returns, Loses, Rests, Commands
  <2>3. QED  BY <1>0, <2>1, <2>2, FaultsGrow
<1>3. CASE RestStep
  <2>1. Dead(pc') >= Dead(pc)
    BY <1>0, <1>3, RestDoes, StoppedDie
  <2>2. QED  BY <1>0, <1>3, <2>1, RestDoes, FaultsGrow
<1>4. QED  BY <1>1, <1>2, <1>3, StepsSorted

LEMMA InvInit == Init => IInv
<1>1. ASSUME Init PROVE IInv
  <2>1. TypeOK
    <3>1. Resends = 0 /\ resent \in [Commands -> 0 .. MaxResends] /\ MaxResends \in Nat
      BY <1>1, ResendAssumption DEF Init, StockInit, Resends, Commands
    <3>2. stock \in Int
      BY <1>1, StockAssumption DEF Init, StockInit, InitialStock
    <3>3. QED
      BY <1>1, <3>1, <3>2, FaultAssumption, WorkersAssumption
      DEF Init, DbInit, TypeOK, DbTypeOK, StockTypeOK, WorkerLabels, Waiting
  <2>2. /\ Where(pc, {"push"}) = {} /\ coupons = {} /\ Len(queue) = 0
        /\ {w \in Workers : wpc[w] \in Busy} = {} /\ {w \in Workers : wpc[w] \in {"count"}} = {}
    BY <1>1 DEF Init, DbInit, Where, Busy, Waiting
  <2>3. Ledger(InitialStock, 0, 0, 0, 0, InitialStock, 0, 0, 0, 0, Clean(0), 0)
    BY StockAssumption DEF InitialStock, Ledger
  <2>4. LedgerNow(0, 0)
    <3>1. Cardinality({}) = 0
      BY FS_EmptySet
    <3>2. stock = InitialStock /\ resent["LPUSH"] = 0 /\ resent["INCR"] = 0 /\ issuedCount = 0
      BY <1>1 DEF Init, DbInit, StockInit, Commands
    <3>3. QED  BY <2>2, <2>3, <3>1, <3>2 DEF LedgerNow, Working
  <2>5. JobsAgree /\ CarriedPart
    BY <1>1 DEF Init, DbInit, JobsAgree, CarriedPart, Waiting
  <2>6. QED  BY <2>1, <2>4, <2>5, LedgerMeaning, InvParts
<1>2. QED  BY <1>1

LEMMA InvNext == IInv /\ [Next]_vars => IInv'
<1>1. ASSUME IInv, [Next]_vars PROVE (TypeOK /\ LedgerPart(0, 0) /\ JobsAgree /\ CarriedPart)'
  <2>1. TypeOK /\ LedgerPart(0, 0) /\ JobsAgree /\ CarriedPart /\ 0 <= Faults
    BY <1>1, InvParts, CleanOfAll
  <2>2. ASSUME NEW r \in Requests, NEW l, RequestDoes(r, l)
        PROVE  (TypeOK /\ LedgerPart(0, 0) /\ JobsAgree /\ CarriedPart)'
    BY <2>1, <2>2, RequestType, RequestLedger, RequestJobs
  <2>3. ASSUME NEW w \in Workers, NEW l, WorkerDoes(w, l)
        PROVE  (TypeOK /\ LedgerPart(0, 0) /\ JobsAgree /\ CarriedPart)'
    BY <2>1, <2>3, WorkerType, WorkerLedger, WorkerJobs
  <2>4. CASE RestStep
    BY <2>1, <2>4, RestType, RestLedger, RestJobs
  <2>5. QED  BY <1>1, <2>1, <2>2, <2>3, <2>4, StepsSorted
<1>2. (TypeOK /\ LedgerPart(0, 0) /\ JobsAgree /\ CarriedPart => IInv)'
  BY InvParts, PTL
<1>3. QED  BY <1>1, <1>2

(* The slots are accounted for, wherever they are - in the counter, with a *)
(* request, in the queue, with a worker or in a coupon - and so are the    *)
(* accepted requests, whatever fails, is lost or runs twice                *)
(* (issue.redisQueue.ts:24-72, worker.ts:24-71).                           *)
THEOREM Invariance == Spec => []IInv
<1>1. QED  BY InvInit, InvNext, PTL DEF Spec

(* A drained queue with nothing lost or run twice leaves every accepted    *)
(* user with a coupon, the count right and no slot missing                 *)
(* (docs/04-redis.md:99-102, worker.ts:24-50).                             *)
THEOREM Consistency == Spec => []EventualConsistency
<1>1. IInv => EventualConsistency
  <2> SUFFICES ASSUME IInv, Idle, Quiet, Faultless, lostJobs = 0, NothingResent
               PROVE  /\ \A r \in Requests : pc[r] = "QUEUED" => Duplicate(r)
                      /\ issuedCount = Cardinality(coupons)
                      /\ stock + Cardinality(coupons) = InitialStock
    BY DEF EventualConsistency
  <2>1. TypeOK /\ LedgerPart(0, 0) /\ CarriedPart
    BY InvParts
  <2>2. queue = <<>> /\ \A w \in Workers : wpc[w] \in {"pop", "stopped"}
    BY DEF Idle, Waiting
  <2>3. \A r \in Requests : pc[r] = "QUEUED" => Duplicate(r)
    BY <2>1, <2>2 DEF CarriedPart, Carried
  <2>4. /\ At({"push"}) = {} /\ Len(queue) = 0
        /\ InHand({"create", "giveBack"}) = {} /\ InHand({"count"}) = {}
    BY <2>2 DEF Quiet, Ended, Outcomes, Answers, At, Where, InHand
  <2>5. Cardinality({}) = 0
    BY FS_EmptySet
  <2>6. stock \in Int /\ issuedCount \in Int /\ Cardinality(coupons) \in Nat
    BY <2>1, LedgerNumbers
  <2>7. /\ stock + SlotsOut = InitialStock /\ SlotsOut = Cardinality(coupons)
        /\ issuedCount = Cardinality(coupons)
    <3>1. SlotsOut = 0 + 0 + 0 + Cardinality(coupons)
      BY <2>4, <2>5 DEF SlotsOut
    <3>2. issuedCount + 0 = Cardinality(coupons) /\ stock + SlotsOut = InitialStock
      BY <2>1, <2>4, <2>5, CleanOfAll DEF LedgerPart, AllAccountedFor
    <3>3. QED  BY <2>6, <3>1, <3>2
  <2>8. QED  BY <2>3, <2>7
<1>2. QED  BY <1>1, Invariance, PTL

-----------------------------------------------------------------------------
(* Strategy and workers implement the sale.                                *)

SaleAnswer ==
  [r \in Requests |-> IF pc[r] \in Answers \ {"QUEUED"} THEN pc[r] ELSE "none"]

LEMMA InitRefines == Init => Sale!Init
BY DEF Init, DbInit, Sale!Init, Answers

LEMMA SameCount == Sale!Cardinality(coupons) = Cardinality(coupons)
BY DEF Sale!Cardinality, Cardinality

(* Whoever is about to insert has a slot, so there is room in the sale.    *)
LEMMA RoomForOne ==
  ASSUME IInv, NEW w \in Workers, wpc[w] = "create"
  PROVE  Cardinality(coupons) < TotalStock + MaxResends
<1> DEFINE a == Cardinality(Where(pc, {"push"}))
           q == Len(queue)
           k == Working(wpc, Busy)
           c == Working(wpc, {"count"})
           m == Cardinality(coupons)
           d == resent["DECR"]
           v == resent["EVAL"]
           p == resent["LPUSH"]
           i == resent["INCR"]
           s == stock
           e == issuedCount
           n == InitialStock
<1>1. /\ a \in Nat /\ q \in Nat /\ k \in Nat /\ m \in Nat /\ p \in Nat /\ i \in Nat
      /\ d \in Nat /\ v \in Nat /\ s \in Int /\ n \in Nat
  BY LedgerNumbers, InvParts
<1>2. Ledger(s, a, q, k, m, n, p, i, c, e, Clean(0), 0)
  BY LedgerMeaning, InvParts DEF LedgerNow
<1>3. d + v + i + p <= MaxResends /\ MaxResends \in Nat
  BY InvParts, ResendAssumption DEF TypeOK, Resends
<1>4. n <= TotalStock /\ TotalStock \in Nat
  BY StockAssumption DEF InitialStock
<1>5. k >= 1
  <2> DEFINE X == {x \in Workers : wpc[x] \in Busy}
  <2>1. IsFiniteSet(X) /\ w \in X
    BY FS_Subset, WorkersAssumption DEF Busy
  <2>2. Cardinality(X) # 0
    BY <2>1, FS_EmptySet
  <2>3. k = Cardinality(X)
    BY DEF Working
  <2> HIDE DEF X, k
  <2>4. QED  BY <1>1, <2>2, <2>3
<1> HIDE DEF a, q, k, c, m, d, v, p, i, s, e, n
<1>6. m < TotalStock + MaxResends
  BY <1>1, <1>2, <1>3, <1>4, <1>5 DEF Ledger
<1>7. QED  BY <1>6 DEF m

(* Every step is a step of the sale or invisible to it.                    *)
LEMMA NextRefines ==
  ASSUME IInv, [Next]_vars
  PROVE  [Sale!Next]_Sale!vars
<1>0. TypeOK /\ JobsAgree
  BY InvParts
<1>1. ASSUME UNCHANGED <<userKey, coupons>>, SaleAnswer' = SaleAnswer
      PROVE  UNCHANGED Sale!vars
  BY <1>1 DEF Sale!vars, SaleAnswer
<1>2. ASSUME NEW r \in Requests, NEW l, RequestDoes(r, l)
      PROVE  [Sale!Next]_Sale!vars
  <2>1. /\ UNCHANGED <<userKey, coupons>> /\ pc' = [pc EXCEPT ![r] = l]
        /\ pc \in [Requests -> Labels \cup Outcomes \cup {"start"}]
        /\ pc[r] \in {"start", "eval", "push"}
        /\ l \in {"eval", "push", "QUEUED", "NOT_FOUND", "ERROR", "SOLD_OUT"}
    BY <1>0, <1>2
    DEF RequestDoes, Goto, GoesOn, Evaluates, Pushes, TypeOK, DbTypeOK
  <2>2. CASE l \in {"eval", "push", "QUEUED"}
    <3>1. SaleAnswer' = SaleAnswer
      BY <2>1, <2>2 DEF SaleAnswer, Answers
    <3>2. QED  BY <1>1, <2>1, <3>1
  <2>3. CASE l \in {"NOT_FOUND", "ERROR", "SOLD_OUT"}
    <3>1. Sale!Tell(r, l)
      BY <2>1, <2>3 DEF Sale!Tell, Answers
    <3>2. r \notin coupons
      BY <1>0, <2>1 DEF JobsAgree
    <3>3. Sale!GiveUp(r) \/ Sale!RefuseSoldOut(r)
      BY <2>1, <2>3, <3>1, <3>2 DEF Sale!GiveUp, Sale!RefuseSoldOut
    <3>4. QED  BY <3>3 DEF Sale!Next
  <2>4. QED  BY <2>1, <2>2, <2>3
<1>3. ASSUME NEW w \in Workers, NEW l, WorkerDoes(w, l)
      PROVE  [Sale!Next]_Sale!vars
  <2>1. UNCHANGED <<userKey, pc>> /\ SaleAnswer' = SaleAnswer
    BY <1>3 DEF WorkerDoes, SaleAnswer
  <2>2. CASE Mints(w, l)
    <3>1. /\ job[w] \in Requests /\ pc[job[w]] = "QUEUED"
          /\ Cardinality(coupons) < TotalStock + MaxResends
      BY <1>0, <2>2, RoomForOne DEF Mints, JobsAgree, TypeOK, Waiting
    <3>2. /\ ~Sale!Served(job[w]) /\ coupons' = coupons \cup {job[w]}
          /\ SaleAnswer[job[w]] = "none"
      BY <2>2, <3>1 DEF Mints, Duplicate, Sale!Served, SaleAnswer
    <3>3. Sale!Grant(job[w])
      BY <2>1, <3>1, <3>2, SameCount DEF Sale!Grant, SaleAnswer
    <3>4. QED  BY <3>1, <3>3 DEF Sale!Next
  <2>3. CASE ~Mints(w, l)
    <3>1. coupons' = coupons
      BY <1>3, <2>3 DEF WorkerDoes, Pops, FindsRepeat, Counts, Returns, Loses, Rests
    <3>2. QED  BY <1>1, <2>1, <3>1
  <2>4. QED  BY <2>2, <2>3
<1>4. CASE RestStep
  <2>1. UNCHANGED <<userKey, coupons>>
    BY <1>0, <1>4, RestDoes
  <2>2. SaleAnswer' = SaleAnswer
    BY <1>0, <1>4, RestDoes DEF SaleAnswer, Stopped, InFlight, Ended, Outcomes, Answers
  <2>3. QED  BY <1>1, <2>1, <2>2
<1>5. QED  BY <1>0, <1>2, <1>3, <1>4, StepsSorted

(* The queue strategy and its workers implement the sale of TotalStock +   *)
(* MaxResends coupons, one per user, the accepted ones told nothing more   *)
(* (issue.redisQueue.ts:24-72, worker.ts:24-71).                           *)
THEOREM Refinement == Spec => ImplementsSale
<1>1. QED
  BY InitRefines, NextRefines, Invariance, PTL DEF Spec, ImplementsSale, Sale!Spec

-----------------------------------------------------------------------------
(* The seed script against a live system.                                  *)

(* A step of the server or of a worker keeps types, jobs and slots,        *)
(* however far issuedCount is ahead.                                       *)
LEMMA LiveStep ==
  ASSUME TypeOK, JobsAgree, NEW b \in Nat, NEW z \in Nat, z <= Faults, LedgerPart(b, z), [Next]_vars
  PROVE  TypeOK' /\ JobsAgree' /\ LedgerPart(b, z)'
<1>1. ASSUME NEW r \in Requests, NEW l, RequestDoes(r, l)
      PROVE  TypeOK' /\ JobsAgree' /\ LedgerPart(b, z)'
  BY <1>1, RequestType, RequestLedger, RequestJobs
<1>2. ASSUME NEW w \in Workers, NEW l, WorkerDoes(w, l)
      PROVE  TypeOK' /\ JobsAgree' /\ LedgerPart(b, z)'
  BY <1>2, WorkerType, WorkerLedger, WorkerJobs
<1>3. CASE RestStep
  BY <1>3, RestType, RestLedger, RestJobs
<1>4. QED  BY <1>1, <1>2, <1>3, StepsSorted

LEMMA LiveStepKeepsSlots ==
  ASSUME TypeOK, JobsAgree, SlotsCounted, [Next]_vars
  PROVE  TypeOK' /\ JobsAgree' /\ SlotsCounted' /\ NotOversold'
<1>0. 0 <= Faults
  BY CleanOfAll
<1>1. PICK b \in Nat : LedgerPart(b, 0)
  BY AheadBySome
<1>2. TypeOK' /\ JobsAgree' /\ LedgerPart(b, 0)'
  BY <1>0, <1>1, LiveStep
<1>3. SlotsCounted'
  BY <1>2 DEF LedgerPart
<1>4. (TypeOK /\ SlotsCounted => NotOversold)'
  BY CouponsBounded, PTL
<1>5. QED  BY <1>2, <1>3, <1>4

(* Who has nothing to do while the script runs, does nothing, but that a   *)
(* waiting worker may end or start.                                        *)
LEMMA AtRest ==
  ASSUME TypeOK, Idle, ~RequestsBusy, [Next]_vars, UNCHANGED <<pc, origin>>
  PROVE  /\ UNCHANGED <<issuedCount, coupons, stock, rejects, lostAcks, lostJobs, resent>>
         /\ Idle'
<1>1. ASSUME NEW r \in Requests, NEW l, RequestDoes(r, l) PROVE FALSE
  <2>1. pc' = [pc EXCEPT ![r] = l] /\ pc[r] # l /\ DOMAIN pc = Requests
    BY <1>1 DEF RequestDoes, Goto, GoesOn, Evaluates, Pushes, TypeOK, DbTypeOK
  <2>2. QED  BY <2>1
<1>2. ASSUME NEW w \in Workers, NEW l, WorkerDoes(w, l)
      PROVE  /\ UNCHANGED <<issuedCount, coupons, stock, rejects, lostAcks, lostJobs, resent>>
             /\ Idle'
  <2>1. Rests(w, l)
    BY <1>2 DEF WorkerDoes, Pops, Mints, FindsRepeat, Counts, Returns, Loses, Idle, Waiting
  <2>2. /\ UNCHANGED <<issuedCount, coupons, stock, rejects, lostAcks, lostJobs, resent, queue>>
        /\ wpc' = [wpc EXCEPT ![w] = l] /\ l \in Waiting
    BY <1>2, <2>1 DEF WorkerDoes, Rests
  <2>3. QED  BY <2>2 DEF Idle, TypeOK
<1>3. CASE RestStep
  BY <1>3, RestDoes DEF Idle
<1>4. QED  BY <1>1, <1>2, <1>3, StepsSorted

(* And has no slot and no count in hand.                                   *)
LEMMA NothingInHand ==
  ASSUME TypeOK, Idle, ~RequestsBusy
  PROVE  /\ At({"push"}) = {} /\ queue = <<>>
         /\ InHand({"create", "giveBack"}) = {} /\ InHand({"count"}) = {}
         /\ \A w \in Workers : wpc[w] \in Waiting
<1>1. At({"push"}) = {}
  BY DEF RequestsBusy, InFlight, Ended, At, Where, Outcomes, Answers
<1>2. QED  BY <1>1 DEF Idle, InHand, Waiting

(* What the four steps of the script do while nothing else happens.        *)
LEMMA ScriptStep ==
  ASSUME TypeOK, JobsAgree, SlotsCounted, Idle, ~RequestsBusy, origin = "seed",
         UNCHANGED <<origin, rowLock, requestVars, resent, wpc, job, lostJobs>>,
         coupons' = {}, queue' = <<>>, issuedCount' \in Int, version' \in Nat,
         stock' \in {stock, TotalStock}
  PROVE  /\ TypeOK' /\ JobsAgree' /\ SlotsCounted' /\ NotOversold'
         /\ SlotsOut' = 0 /\ InHand({"count"})' = {}
         /\ Idle' /\ ~RequestsBusy' /\ Faults' = Faults
<1> USE DEF requestVars
<1>1. /\ At({"push"})' = {} /\ InHand({"create", "giveBack"})' = {} /\ InHand({"count"})' = {}
      /\ \A w \in Workers : wpc[w] \in Waiting
  BY NothingInHand DEF At, Where, InHand
<1>2. Resends' = Resends
  BY DEF Resends
<1>3. TypeOK'
  <2>1. stock' \in Int
    BY StockAssumption DEF TypeOK, StockTypeOK
  <2>2. <<>> \in Seq(Requests)
    BY EmptySeq
  <2>3. QED  BY <1>2, <2>1, <2>2 DEF TypeOK, DbTypeOK, StockTypeOK
<1>4. JobsAgree'
  BY <1>1 DEF JobsAgree, Waiting
<1>5. SlotsOut' = 0
  <2>1. Cardinality({}) = 0 /\ Len(<<>>) = 0
    BY FS_EmptySet
  <2>2. SlotsOut' = 0 + 0 + 0 + 0
    BY <1>1, <2>1 DEF SlotsOut
  <2>3. QED  BY <2>2
<1>6. SlotsCounted'
  <2> DEFINE p == resent["LPUSH"]
             i == resent["INCR"]
             s == stock
             t == stock'
             n == TotalStock
  <2>1. /\ s \in Int /\ n \in Nat /\ n > 0 /\ p \in Nat /\ i \in Nat /\ SlotsOut \in Nat
        /\ s >= 0 /\ s + SlotsOut <= n + p + i /\ t \in {s, n}
    <3>1. SlotsOut \in Nat
      BY LedgerNumbers DEF SlotsOut, Working, Busy, InHand, At
    <3>2. QED  BY <3>1, LedgerNumbers, StockAssumption DEF SlotsCounted, InitialStock
  <2>2. t >= 0 /\ t + 0 <= n + p + i
    <3> HIDE DEF p, i, s, t, n
    <3>1. QED  BY <2>1
  <2>3. QED  BY <1>5, <2>2 DEF SlotsCounted, InitialStock
<1>7. (TypeOK /\ SlotsCounted => NotOversold)'
  BY CouponsBounded, PTL
<1>8. Idle' /\ ~RequestsBusy' /\ Faults' = Faults
  BY <1>2 DEF Idle, RequestsBusy, InFlight, Ended, Faults, At, Where
<1>9. QED  BY <1>1, <1>3, <1>4, <1>5, <1>6, <1>7, <1>8

LEMMA ResetInit == ReseedInit => ResetInv
<1>1. ASSUME ReseedInit PROVE ResetInv
  <2>1. IInv
    BY <1>1, InvInit DEF ReseedInit
  <2>2. TypeOK /\ Faults \in Nat /\ faultsBefore = 0
    BY <1>1, <2>1, CleanOfAll DEF IInv, ReseedInit
  <2>3. ResetAgrees
    BY <1>1, <2>2 DEF ReseedInit, ResetAgrees, Running
  <2>4. Faults = faultsBefore => AllAccountedFor
    BY <2>1, <2>2, CleanOfAll DEF IInv, NothingMissing, Clean
  <2>5. QED  BY <2>1, <2>3, <2>4 DEF IInv, ResetInv
<1>2. QED  BY <1>1

(* The phases in which the script does not run.                            *)
LEMMA OpenStep ==
  ASSUME ResetInv, [Next]_vars, UNCHANGED <<origin, seedPc, faultsBefore>>, ~Running
  PROVE  ResetInv'
<1> USE DEF ResetInv
<1>1. TypeOK' /\ JobsAgree' /\ SlotsCounted' /\ NotOversold'
  BY LiveStepKeepsSlots
<1>2. PICK z \in Nat : z = faultsBefore
  BY DEF ResetAgrees
<1>3. z <= Faults /\ faultsBefore' = z
  BY <1>2 DEF ResetAgrees
<1>4. z \in 0 .. Faults'
  <2>1. Faults \in Nat /\ Faults' \in Nat /\ Faults <= Faults'
    BY <1>1, FaultsKept
  <2>2. QED  BY <1>3, <2>1
<1>5. ResetAgrees'
  BY <1>3, <1>4 DEF ResetAgrees, Running
<1>6. CASE seedPc \in {"idle", "done"}
  <2>1. LedgerPart(0, z)
    <3>1. Cardinality(coupons) + 0 = Cardinality(coupons)
      BY LedgerNumbers
    <3>2. QED  BY <1>2, <1>6, <3>1 DEF LedgerPart, CouponsCounted, Clean
  <2>2. LedgerPart(0, z)'
    BY <1>3, <2>1, LiveStep
  <2>3. Cardinality(coupons') \in Nat
    BY <1>1, LedgerNext
  <2>4. CouponsCounted' /\ (Faults' = z => AllAccountedFor')
    BY <2>2, <2>3 DEF LedgerPart, CouponsCounted, Clean
  <2>5. QED  BY <1>1, <1>3, <1>5, <2>4
<1>7. CASE seedPc \notin {"idle", "done"}
  BY <1>1, <1>5, <1>7
<1>8. QED  BY <1>6, <1>7

(* The phases in which it does: nothing else happens.                      *)
LEMMA RunningStep ==
  ASSUME ResetInv, [Next]_vars, Running,
         UNCHANGED <<pc, origin, faultsBefore>>, seedPc' = seedPc \/ seedPc' = "failed"
  PROVE  ResetInv'
<1> USE DEF ResetInv
<1>1. TypeOK' /\ JobsAgree' /\ SlotsCounted' /\ NotOversold'
  BY LiveStepKeepsSlots
<1>2. Idle /\ ~RequestsBusy /\ coupons = {}
  BY DEF ResetAgrees
<1>3. /\ UNCHANGED <<issuedCount, coupons, stock, rejects, lostAcks, lostJobs, resent>>
      /\ Idle'
  BY <1>2, AtRest
<1>4. ~RequestsBusy' /\ Faults' = Faults
  BY <1>2, <1>3 DEF RequestsBusy, InFlight, Ended, Faults, Resends, At, Where
<1>5. ResetAgrees'
  BY <1>2, <1>3, <1>4 DEF ResetAgrees, Running
<1>6. seedPc' \notin {"idle", "done"}
  BY DEF Running
<1>7. QED  BY <1>1, <1>5, <1>6

LEMMA ResetNext ==
  ASSUME Orderly, ResetInv, [ReseedNext]_seedVars
  PROVE  ResetInv'
<1> USE DEF ResetInv
<1>0. /\ origin = "seed" /\ "requests" \in WaitsFor /\ "workers" \in WaitsFor
      /\ Running => Idle /\ ~RequestsBusy /\ coupons = {}
      /\ faultsBefore \in 0 .. Faults /\ Faults \in Nat
  BY CleanOfAll DEF Orderly, ResetAgrees
<1>1. CASE DeleteCoupons
  <2>1. /\ seedPc' = "upsert" /\ Idle /\ ~RequestsBusy /\ coupons' = {} /\ faultsBefore' = Faults
        /\ UNCHANGED <<origin, issuedCount, version, rowLock, requestVars, stock, resent,
                       queue, wpc, job, lostJobs>>
    BY <1>0, <1>1 DEF DeleteCoupons, stockVars, workerVars
  <2>2. queue' = <<>> /\ issuedCount' \in Int /\ version' \in Nat
    BY <2>1 DEF Idle, TypeOK, DbTypeOK
  <2>3. QED  BY <1>0, <2>1, <2>2, ScriptStep DEF ResetAgrees, Running
<1>2. CASE UpsertCampaign
  <2>1. /\ seedPc' = "set" /\ Idle /\ ~RequestsBusy /\ coupons' = {} /\ issuedCount' = 0
        /\ version' = 0 /\ faultsBefore' = faultsBefore
        /\ UNCHANGED <<origin, rowLock, requestVars, stock, resent, queue, wpc, job, lostJobs>>
    BY <1>0, <1>2 DEF UpsertCampaign, Running, stockVars, workerVars
  <2>2. queue' = <<>>
    BY <2>1 DEF Idle
  <2>3. QED  BY <1>0, <2>1, <2>2, ScriptStep DEF ResetAgrees, Running
<1>3. CASE SetStock
  <2>1. /\ seedPc' = "del" /\ Idle /\ ~RequestsBusy /\ coupons' = {} /\ issuedCount = 0
        /\ stock' = TotalStock /\ faultsBefore' = faultsBefore
        /\ UNCHANGED <<origin, issuedCount, version, rowLock, requestVars, resent, queue, wpc,
                       job, lostJobs>>
    BY <1>0, <1>3 DEF SetStock, Running, ResetAgrees, couponDbVars, dbVars, workerVars
  <2>2. queue' = <<>> /\ version' \in Nat
    BY <2>1 DEF Idle, TypeOK, DbTypeOK
  <2>3. QED  BY <1>0, <2>1, <2>2, ScriptStep DEF ResetAgrees, Running
<1>4. CASE DeleteQueue
  <2>1. /\ seedPc' = "done" /\ Idle /\ ~RequestsBusy /\ coupons' = {} /\ issuedCount = 0
        /\ stock = TotalStock /\ queue' = <<>> /\ faultsBefore' = faultsBefore
        /\ UNCHANGED <<origin, issuedCount, version, rowLock, requestVars, stock, resent, wpc,
                       job, lostJobs>>
    BY <1>0, <1>4 DEF DeleteQueue, Running, ResetAgrees, couponDbVars, dbVars, stockVars
  <2>2. version' \in Nat
    BY <2>1 DEF TypeOK, DbTypeOK
  <2>3. /\ TypeOK' /\ JobsAgree' /\ SlotsCounted' /\ NotOversold'
        /\ SlotsOut' = 0 /\ InHand({"count"})' = {}
        /\ Idle' /\ ~RequestsBusy' /\ Faults' = Faults
    BY <1>0, <2>1, <2>2, ScriptStep
  <2>4. CouponsCounted' /\ AllAccountedFor'
    <3>1. Cardinality({}) = 0 /\ TotalStock \in Nat
      BY FS_EmptySet, StockAssumption
    <3>2. /\ Cardinality(InHand({"count"})') = 0 /\ Cardinality(coupons') = 0
          /\ issuedCount' = 0 /\ InitialStock' = TotalStock /\ stock' = TotalStock
      BY <1>0, <2>1, <2>3, <3>1 DEF InitialStock
    <3>3. QED  BY <2>3, <3>1, <3>2 DEF CouponsCounted, AllAccountedFor
  <2>5. ResetAgrees'
    BY <1>0, <2>1, <2>3 DEF ResetAgrees, Running
  <2>6. QED  BY <2>3, <2>4, <2>5
<1>5. CASE SeedFails
  <2>1. Running /\ UNCHANGED <<vars, faultsBefore>> /\ seedPc' = "failed"
    BY <1>5 DEF SeedFails
  <2>2. UNCHANGED <<pc, origin>>
    BY <2>1 DEF vars, couponDbVars, dbVars, requestVars
  <2>3. QED  BY <2>1, <2>2, RunningStep
<1>6. CASE Serving
  <2>1. Next /\ UNCHANGED <<origin, seedPc, faultsBefore>> /\ (Running => pc' = pc)
    BY <1>0, <1>6 DEF Serving
  <2>2. CASE Running
    BY <2>1, <2>2, RunningStep
  <2>3. CASE ~Running
    BY <2>1, <2>3, OpenStep
  <2>4. QED  BY <2>2, <2>3
<1>7. CASE UNCHANGED seedVars
  <2>1. UNCHANGED <<vars, pc, origin, seedPc, faultsBefore>>
    BY <1>7 DEF seedVars, vars, couponDbVars, dbVars, requestVars
  <2>2. QED  BY <2>1, OpenStep, RunningStep
<1>8. QED  BY <1>1, <1>2, <1>3, <1>4, <1>5, <1>6, <1>7 DEF ReseedNext

(* While the script of an orderly reset runs, nothing else does.  Slots    *)
(* and coupons stay bounded throughout, also after a script that failed    *)
(* half-way.  That nothing is missing in the stores holds from the end of  *)
(* the script on, as long as nothing fails after it began, and is          *)
(* suspended while it runs and when it failed (seed.ts:18-40).             *)
THEOREM OrderlyReset == Orderly => (ReseedSpec => []ResetInv)
<1> SUFFICES ASSUME Orderly PROVE ReseedSpec => []ResetInv
  OBVIOUS
<1>1. ResetInv /\ [ReseedNext]_seedVars => ResetInv'
  BY ResetNext
<1>2. QED  BY <1>1, ResetInit, PTL DEF ReseedSpec

(* After an orderly reset that ran to its end, and as long as nothing      *)
(* fails after it began, counter, coupons and issuedCount tell the same    *)
(* story whenever nothing is under way, however far faults had let them    *)
(* drift apart before (seed.ts:18-40).                                     *)
THEOREM FreshAfterReset == Orderly => (ReseedSpec => []FreshStart)
<1>1. ResetInv => FreshStart
  <2> SUFFICES ASSUME ResetInv, seedPc \in {"idle", "done"}, Idle, ~RequestsBusy,
                      Faults = faultsBefore
               PROVE  /\ stock + Cardinality(coupons) = TotalStock
                      /\ issuedCount = Cardinality(coupons)
    BY DEF FreshStart
  <2>1. TypeOK /\ origin = "seed"
    BY DEF ResetInv, ResetAgrees
  <2>2. /\ At({"push"}) = {} /\ Len(queue) = 0
        /\ InHand({"create", "giveBack"}) = {} /\ InHand({"count"}) = {}
    BY <2>1, NothingInHand
  <2>3. Cardinality({}) = 0
    BY FS_EmptySet
  <2>4. stock \in Int /\ issuedCount \in Int /\ Cardinality(coupons) \in Nat
    BY <2>1, LedgerNumbers
  <2>5. SlotsOut = 0 + 0 + 0 + Cardinality(coupons)
    BY <2>2, <2>3 DEF SlotsOut
  <2>6. stock + SlotsOut = TotalStock /\ issuedCount + 0 = Cardinality(coupons)
    BY <2>1, <2>2, <2>3 DEF ResetInv, AllAccountedFor, InitialStock
  <2>7. QED  BY <2>4, <2>5, <2>6
<1>2. QED  BY <1>1, OrderlyReset, PTL

(* Jobs of the previous run do not mix with the next one, as long as no    *)
(* command ran twice: what docs/04-redis.md:104-106 promises holds of a    *)
(* reset that waits, also for the workers (seed.ts:38-39).                 *)
THEOREM OrderlyRunsDoNotMix ==
  Orderly => (ReseedSpec => [](NothingResent => RunsDoNotMix))
<1>1. ResetInv => (NothingResent => RunsDoNotMix)
  <2> SUFFICES ASSUME ResetInv, NothingResent
               PROVE  Cardinality(coupons) <= TotalStock
    BY DEF RunsDoNotMix
  <2> DEFINE d == resent["DECR"]
             e == resent["EVAL"]
             i == resent["INCR"]
             p == resent["LPUSH"]
             m == Cardinality(coupons)
  <2>1. /\ TypeOK /\ origin = "seed" /\ m <= InitialStock + p + i
        /\ d + e + i + p = 0
    BY DEF ResetInv, ResetAgrees, NotOversold, NothingResent, Resends
  <2>2. d \in Nat /\ e \in Nat /\ i \in Nat /\ p \in Nat /\ m \in Nat /\ InitialStock = TotalStock
    BY <2>1, LedgerNumbers DEF InitialStock
  <2>3. m <= TotalStock
    <3>1. TotalStock \in Nat
      BY StockAssumption
    <3> HIDE DEF d, e, i, p, m
    <3>2. QED  BY <2>1, <2>2, <3>1
  <2>4. QED  BY <2>3
<1>2. QED  BY <1>1, OrderlyReset, PTL
=============================================================================
