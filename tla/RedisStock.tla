---------------------------- MODULE RedisStock ----------------------------
(***************************************************************************)
(* The Redis side of the redis strategies: the counter campaign:{id}:stock *)
(* and the commands sent to it.  A command is atomic in Redis.  A counter  *)
(* that does not exist reads as nil for the script and counts as 0 for     *)
(* DECR and INCR: here it is 0.                                            *)
(*                                                                         *)
(* The server's client is built with maxRetriesPerRequest: null (redis.ts) *)
(* and keeps ioredis's default of sending unanswered commands again after  *)
(* a reconnect: a command never rejects, but may have run twice, its       *)
(* caller seeing the second reply.  The worker's own client keeps the      *)
(* default limit of retries, so there a command may also reject.           *)
(***************************************************************************)
EXTENDS CouponDb

CONSTANT MaxResends      \* bound: commands that run twice
ASSUME ResendAssumption == MaxResends \in Nat

VARIABLES
  stock,         \* campaign:{id}:stock
  resent         \* how often each command has run twice

stockVars == <<stock, resent>>

Commands == {"DECR", "EVAL", "INCR", "LPUSH"}
Resends == resent["DECR"] + resent["EVAL"] + resent["INCR"] + resent["LPUSH"]

(* Only the seed sets the counter; a campaign made by the API has none.    *)
InitialStock == IF origin = "seed" THEN TotalStock ELSE 0

StockInit ==
  /\ stock = InitialStock
  /\ resent = [c \in Commands |-> 0]

StockTypeOK ==
  /\ stock \in Int
  /\ resent \in [Commands -> 0 .. MaxResends]

(* The command runs once, or once more after a reconnect.                  *)
Send(command, again) ==
  \/ again = 0 /\ UNCHANGED resent
  \/ /\ again = 1
     /\ Resends < MaxResends
     /\ resent' = [resent EXCEPT ![command] = @ + 1]

(* STOCK_LUA: never below zero, got is whether a slot was taken.           *)
AfterScript(s) == IF s > 0 THEN s - 1 ELSE s
EvalScript(r, got, sold) ==
  \E again \in {0, 1} :
    LET before == IF again = 1 THEN AfterScript(stock) ELSE stock
    IN  /\ Send("EVAL", again)
        /\ stock' = AfterScript(before)
        /\ Resolve(r, IF before > 0 THEN got ELSE sold)

(* DECR: the value after it says whether a slot was taken.                 *)
Decr(r, got, sold) ==
  \E again \in {0, 1} :
    /\ Send("DECR", again)
    /\ stock' = stock - 1 - again
    /\ Resolve(r, IF stock' >= 0 THEN got ELSE sold)

(* Mutant of Incr: the slot is not given back.                             *)
IncrNothing == \E again \in {0, 1} : Send("INCR", again) /\ stock' = stock

Incr ==
  \E again \in {0, 1} :
    /\ Send("INCR", again)
    /\ stock' = stock + 1 + again

NothingResent == Resends = 0
=============================================================================
