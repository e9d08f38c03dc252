----------------------------- MODULE RateLimit -----------------------------
(***************************************************************************)
(* middleware/rateLimit.ts: the counter ratelimit:issue:{ip} of one client *)
(* address.  INCR makes the counter and EXPIRE, a second command sent only *)
(* by the caller that got 1, gives it its time to live; when that has      *)
(* passed Redis deletes the counter.                                       *)
(*                                                                         *)
(* As in RedisStock a command never rejects but may run twice.  For INCR   *)
(* that matters: the first caller then gets 2 and sends no EXPIRE.         *)
(* RATE_LIMIT_DISABLED is the case of a Limit that is never reached.       *)
(***************************************************************************)
EXTENDS Integers

CONSTANTS
  Limit,           \* opts.limit
  MaxDoubleHits    \* bound: INCRs that run twice

ASSUME LimitAssumption == Limit \in Nat \ {0} /\ MaxDoubleHits \in Nat

VARIABLES
  hits,            \* the counter, 0 when the key does not exist
  timed,           \* whether the key has a time to live
  doubleHits,      \* how many INCRs have run twice
  orphaned         \* history: callers that died between their INCR and their EXPIRE

limitVars == <<hits, timed, doubleHits, orphaned>>

LimitInit == hits = 0 /\ timed = FALSE /\ doubleHits = 0 /\ orphaned = 0

LimitTypeOK ==
  /\ hits \in Nat
  /\ timed \in BOOLEAN
  /\ doubleHits \in 0 .. MaxDoubleHits
  /\ orphaned \in Nat

(* redis.incr: the counter after it is what the caller gets.               *)
Incr ==
  /\ \/ hits' = hits + 1 /\ UNCHANGED doubleHits
     \/ /\ doubleHits < MaxDoubleHits
        /\ doubleHits' = doubleHits + 1
        /\ hits' = hits + 2
  /\ UNCHANGED <<timed, orphaned>>

(* redis.expire                                                            *)
Expire == timed' = TRUE /\ UNCHANGED <<hits, doubleHits, orphaned>>

(* windowSec have passed since the EXPIRE.                                 *)
WindowEnds ==
  /\ timed
  /\ hits' = 0
  /\ timed' = FALSE
  /\ UNCHANGED <<doubleHits, orphaned>>

Orphan(n) == orphaned' = orphaned + n /\ UNCHANGED <<hits, timed, doubleHits>>
=============================================================================
