---------------------------- MODULE Idempotency ----------------------------
(***************************************************************************)
(* middleware/idempotency.ts: the answers kept in Redis under              *)
(* idem:issue:{Idempotency-Key}.  The answer is stored by a SET that is    *)
(* sent when the handler answers and not awaited.                          *)
(*                                                                         *)
(* The server has one Redis connection, on which commands take effect in   *)
(* the order they were sent: a GET finds every SET sent before it done.    *)
(* A SET that was sent is lost when the process ends before it is written  *)
(* out.                                                                    *)
(***************************************************************************)
EXTENDS Sequences

CONSTANTS
  Keys,            \* the values of the header Idempotency-Key
  NoKey            \* a request without the header

ASSUME KeysAssumption == NoKey \notin Keys

VARIABLES
  cache,           \* the answer kept for each key, "none" when there is none
  unsent,          \* the SETs on their way, the oldest first
  forgotten        \* history: keys of which an answer has expired or was lost

cacheVars == <<cache, unsent, forgotten>>

CacheInit ==
  /\ cache = [k \in Keys |-> "none"]
  /\ unsent = <<>>
  /\ forgotten = {}

CacheTypeOK(answers) ==
  /\ cache \in [Keys -> answers \cup {"none"}]
  /\ unsent \in Seq([key : Keys, answer : answers])
  /\ forgotten \subseteq Keys

(* Mutant of Store: only a success is stored.                              *)
StoreSuccess(k, a) ==
  /\ unsent' = IF k = NoKey \/ a # "ISSUED" THEN unsent
               ELSE Append(unsent, [key |-> k, answer |-> a])
  /\ UNCHANGED <<cache, forgotten>>

(* The patched res.json: everything but a 5xx is stored.                   *)
Store(k, a) ==
  /\ unsent' = IF k = NoKey \/ a = "ERROR" THEN unsent
               ELSE Append(unsent, [key |-> k, answer |-> a])
  /\ UNCHANGED <<cache, forgotten>>

(* The oldest SET takes effect.                                            *)
Land ==
  /\ unsent # <<>>
  /\ cache' = [cache EXCEPT ![Head(unsent).key] = Head(unsent).answer]
  /\ unsent' = Tail(unsent)
  /\ UNCHANGED forgotten

(* ttlSec have passed since the SET.                                       *)
Lapse(k) ==
  /\ cache[k] # "none"
  /\ cache' = [cache EXCEPT ![k] = "none"]
  /\ forgotten' = forgotten \cup {k}
  /\ UNCHANGED unsent

(* The process ends with SETs on their way.                                *)
LoseUnsent ==
  /\ unsent' = <<>>
  /\ forgotten' = forgotten \cup {unsent[i].key : i \in DOMAIN unsent}
  /\ UNCHANGED cache
=============================================================================
