---------------------------- MODULE ReseedQueue ----------------------------
(***************************************************************************)
(* prisma/seed.ts run against a live system: the script resets the demo    *)
(* campaign in four awaited steps (coupons, campaign row, Redis counter,   *)
(* queue) while the server and the resident workers of IssueQueue go on.   *)
(*                                                                         *)
(* Control points of the script: "idle", then "upsert", "set", "del"       *)
(* before the step of that name, then "done", or "failed" when a step      *)
(* rejected.  It may be run any number of times, also after a failure.     *)
(***************************************************************************)
EXTENDS IssueQueue

(* What the operator waits for before starting the script: that no request *)
(* is under way (and none is sent until it has ended), that the workers    *)
(* have nothing to do.  docs/04-redis.md:109-115 waits for no worker.      *)
CONSTANT WaitsFor
ASSUME WaitsForAssumption == WaitsFor \subseteq {"requests", "workers"}

VARIABLES
  seedPc,
  faultsBefore   \* history: the faults there had been when the reset began

seedVars == <<vars, seedPc, faultsBefore>>

(* All that has failed, was lost, ran twice or stopped so far.             *)
Faults == rejects + lostAcks + lostJobs + Resends + Cardinality(At({"DEAD"}))

Running == seedPc \in {"upsert", "set", "del"}
RequestsBusy == \E r \in Requests : InFlight(r)

ReseedInit == Init /\ origin = "seed" /\ seedPc = "idle" /\ faultsBefore = 0

(* coupon.deleteMany                                                       *)
DeleteCoupons ==
  /\ ~Running
  /\ "requests" \in WaitsFor => ~RequestsBusy
  /\ "workers" \in WaitsFor => Idle
  /\ coupons' = {}
  /\ seedPc' = "upsert"
  /\ faultsBefore' = Faults
  /\ UNCHANGED <<origin, issuedCount, version, rowLock,
                 requestVars, stockVars, workerVars>>

(* Mutant of UpsertCampaign: the update branch leaves issuedCount alone.   *)
UpsertKeepsCount ==
  /\ seedPc = "upsert"
  /\ version' = 0
  /\ seedPc' = "set"
  /\ UNCHANGED <<origin, issuedCount, coupons, rowLock,
                 requestVars, stockVars, workerVars, faultsBefore>>

(* campaign.upsert                                                         *)
UpsertCampaign ==
  /\ seedPc = "upsert"
  /\ issuedCount' = 0
  /\ version' = 0
  /\ seedPc' = "set"
  /\ UNCHANGED <<origin, coupons, rowLock, requestVars, stockVars, workerVars,
                 faultsBefore>>

(* redis.set(stockKey, STOCK)                                              *)
SetStock ==
  /\ seedPc = "set"
  /\ stock' = TotalStock
  /\ seedPc' = "del"
  /\ UNCHANGED <<couponDbVars, resent, workerVars, faultsBefore>>

(* redis.del('issue-queue')                                                *)
DeleteQueue ==
  /\ seedPc = "del"
  /\ queue' = <<>>
  /\ seedPc' = "done"
  /\ UNCHANGED <<couponDbVars, stockVars, wpc, job, lostJobs, faultsBefore>>

(* A step of the script rejects: main() ends, the rest is not done.        *)
SeedFails ==
  /\ Running
  /\ seedPc' = "failed"
  /\ UNCHANGED <<vars, faultsBefore>>

Serving ==
  /\ Next
  /\ "requests" \in WaitsFor /\ Running => pc' = pc
  /\ UNCHANGED <<origin, seedPc, faultsBefore>>

ReseedNext ==
  \/ DeleteCoupons
  \/ UpsertCampaign
  \/ SetStock
  \/ DeleteQueue
  \/ SeedFails
  \/ Serving

ReseedSpec == ReseedInit /\ [][ReseedNext]_seedVars

-----------------------------------------------------------------------------
(* What is known while an orderly reset - one that waits for requests and  *)
(* workers - is under way: nothing else is, and what has been reset stays  *)
(* reset until the script ends.                                            *)
Orderly == WaitsFor = {"requests", "workers"}
ResetAgrees ==
  /\ seedPc \in {"idle", "upsert", "set", "del", "done", "failed"}
  /\ origin = "seed"
  /\ Running => Idle /\ ~RequestsBusy /\ coupons = {}
  /\ seedPc \in {"set", "del"} => issuedCount = 0
  /\ seedPc = "del" => stock = TotalStock
  /\ faultsBefore \in 0 .. Faults

(* The inductive invariant of orderly resets.  The slots are bounded       *)
(* throughout, also while the script runs and after it failed half-way.    *)
(* That nothing is missing is suspended from the deletion of the coupons   *)
(* on, for good if the script fails, and holds again from its end on as    *)
(* long as nothing fails after it began, whatever had failed before.       *)
ResetInv ==
  /\ TypeOK /\ NotOversold /\ SlotsCounted /\ JobsAgree
  /\ ResetAgrees
  /\ seedPc \in {"idle", "done"} =>
       CouponsCounted /\ (Faults = faultsBefore => AllAccountedFor)

(* A reset repairs: after the script has run to its end, and with nothing  *)
(* lost since it began, the three stores tell the same story again, even   *)
(* if faults had let them drift apart before: what is left of the counter  *)
(* and the coupons make up the stock, and issuedCount is their number      *)
(* (seed.ts:18-40).                                                        *)
FreshStart ==
  seedPc \in {"idle", "done"} /\ Idle /\ ~RequestsBusy
    /\ Faults = faultsBefore =>
    /\ stock + Cardinality(coupons) = TotalStock
    /\ issuedCount = Cardinality(coupons)

(* A campaign that has been reset does not hand out more than its stock:   *)
(* jobs left from the previous run do not mix with the next one            *)
(* (seed.ts:38-39, docs/04-redis.md:104-106).                              *)
RunsDoNotMix == Faultless => Cardinality(coupons) <= TotalStock
=============================================================================
