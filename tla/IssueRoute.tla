---------------------------- MODULE IssueRoute ----------------------------
(***************************************************************************)
(* POST /api/campaigns/:id/issue?strategy=atomic (routes/campaigns.ts):    *)
(* rate limiter, optional authentication and idempotency around the        *)
(* strategy of IssueAtomic.  The requests all come from one client         *)
(* address.  The server knows nothing of an Idempotency-Key but its value: *)
(* requests that carry the same one may be copies of one request, sent     *)
(* again whenever the client likes, or requests of different users.        *)
(*                                                                         *)
(* gate is where a request is on its way through the middlewares: "out"    *)
(* before it arrives, "expire" before redis.expire, "get" before           *)
(* redis.get, "in" in the handler (pc says where), "closed" when it was    *)
(* answered or died.                                                       *)
(***************************************************************************)
EXTENDS IssueAtomic, RateLimit, Idempotency

VARIABLES
  key,             \* the Idempotency-Key of each request, or NoKey
  form,            \* "ok", "badBody" (no userKey), "badStrategy" (unknown name)
  gate,
  reply            \* what each client was answered, "none" until then

routeVars == <<key, form, gate, reply>>
allVars == <<couponDbVars, limitVars, cacheVars, routeVars>>

Gates == {"out", "expire", "get", "in", "closed"}
Inside(r) == gate[r] \in {"expire", "get", "in"}
Stored == (Answers \cup {"BAD_REQUEST"}) \ {"ERROR"}
Replies == Answers \cup {"BAD_REQUEST", "UNAUTHORIZED", "LIMITED", "none"}

(* The cache key is the header alone (idempotency.ts:22).                  *)
SameKey(r, s) == key[r] = key[s] /\ key[r] # NoKey
Copies(r, s) == SameKey(r, s) /\ userKey[r] = userKey[s] /\ form[r] = form[s]

RouteInit ==
  /\ Init
  /\ LimitInit
  /\ CacheInit
  /\ key \in [Requests -> Keys \cup {NoKey}]
  /\ form \in [Requests -> {"ok", "badBody", "badStrategy"}]
  /\ gate = [r \in Requests |-> "out"]
  /\ reply = [r \in Requests |-> "none"]

-----------------------------------------------------------------------------
Pass(r, g) == gate' = [gate EXCEPT ![r] = g] /\ UNCHANGED <<key, form, reply>>
Close(r, a) ==
  /\ gate' = [gate EXCEPT ![r] = "closed"]
  /\ reply' = [reply EXCEPT ![r] = a]
  /\ UNCHANGED <<key, form>>

(* The comparison with the limit, then optionalAuth (a token is valid or   *)
(* not, and an hour later it is not), then whether there is a key.         *)
Admit(r, count) ==
  IF count > Limit
  THEN Close(r, "LIMITED")
  ELSE Close(r, "UNAUTHORIZED") \/ Pass(r, IF key[r] = NoKey THEN "in" ELSE "get")

(* Mutant of Hit: the counter never gets a time to live.                   *)
HitUntimed(r) ==
  /\ gate[r] = "out"
  /\ Incr
  /\ Admit(r, hits')
  /\ UNCHANGED <<couponDbVars, cacheVars>>

Hit(r) ==
  /\ gate[r] = "out"
  /\ Incr
  /\ IF hits' = 1 THEN Pass(r, "expire") ELSE Admit(r, hits')
  /\ UNCHANGED <<couponDbVars, cacheVars>>

SetExpiry(r) ==
  /\ gate[r] = "expire"
  /\ Expire
  /\ Admit(r, 1)
  /\ UNCHANGED <<couponDbVars, cacheVars>>

(* Mutant of Replay: the cache key without the value of the header.        *)
ReplayAny(r) ==
  /\ gate[r] = "get"
  /\ unsent = <<>>
  /\ LET kept == {cache[k] : k \in Keys} \ {"none"}
     IN  IF kept = {} THEN Pass(r, "in") ELSE \E a \in kept : Close(r, a)
  /\ UNCHANGED <<couponDbVars, limitVars, cacheVars>>

(* redis.get: the answer that is kept, or on to the handler.               *)
Replay(r) ==
  /\ gate[r] = "get"
  /\ unsent = <<>>
  /\ IF cache[key[r]] = "none" THEN Pass(r, "in") ELSE Close(r, cache[key[r]])
  /\ UNCHANGED <<couponDbVars, limitVars, cacheVars>>

(* The handler throws before it has called the strategy: no userKey is a   *)
(* 400, an unknown strategy an ordinary Error, so a 500.                   *)
RejectForm(r) ==
  /\ gate[r] = "in"
  /\ form[r] # "ok"
  /\ LET a == IF form[r] = "badBody" THEN "BAD_REQUEST" ELSE "ERROR"
     IN  Close(r, a) /\ Store(key[r], a)
  /\ UNCHANGED <<couponDbVars, limitVars>>

(* A step of the strategy, and the answer when it was the last.            *)
Handle(r) ==
  /\ gate[r] = "in"
  /\ form[r] = "ok"
  /\ Step(r)
  /\ IF pc'[r] \in Outcomes
     THEN Close(r, pc'[r]) /\ Store(key[r], pc'[r])
     ELSE UNCHANGED <<routeVars, cacheVars>>
  /\ UNCHANGED limitVars

(* The process ends, and with it all that is under way.                    *)
RouteStops ==
  /\ \E r \in Requests : Inside(r)
  /\ gate' = [r \in Requests |-> IF Inside(r) THEN "closed" ELSE gate[r]]
  /\ IF \E r \in Requests : InFlight(r) THEN ServerStops ELSE UNCHANGED couponDbVars
  /\ Orphan(Cardinality({r \in Requests : gate[r] = "expire"}))
  /\ LoseUnsent
  /\ UNCHANGED <<key, form, reply>>

RouteStep(r) ==
  \/ Hit(r)
  \/ SetExpiry(r)
  \/ Replay(r)
  \/ RejectForm(r)
  \/ Handle(r)

Done ==
  /\ \A r \in Requests : gate[r] = "closed"
  /\ unsent = <<>>
  /\ UNCHANGED allVars

RouteNext ==
  \/ \E r \in Requests : RouteStep(r)
  \/ RouteStops
  \/ CreateCampaign /\ UNCHANGED <<limitVars, cacheVars, routeVars>>
  \/ Land /\ UNCHANGED <<couponDbVars, limitVars, routeVars>>
  \/ \E k \in Keys : Lapse(k) /\ UNCHANGED <<couponDbVars, limitVars, routeVars>>
  \/ WindowEnds /\ UNCHANGED <<couponDbVars, cacheVars, routeVars>>
  \/ Done

(* Time passes, and a command that was sent is carried out.                *)
Elapse == WindowEnds /\ UNCHANGED <<couponDbVars, cacheVars, routeVars>>
RouteSpec ==
  /\ RouteInit /\ [][RouteNext]_allVars
  /\ WF_allVars(Elapse)
  /\ \A r \in Requests : WF_allVars(SetExpiry(r))

-----------------------------------------------------------------------------
RouteTypeOK ==
  /\ TypeOK
  /\ LimitTypeOK
  /\ CacheTypeOK(Stored)
  /\ key \in [Requests -> Keys \cup {NoKey}]
  /\ gate \in [Requests -> Gates]
  /\ reply \in [Requests -> Replies]

(* A counter without a time to live has exactly one caller on its way to   *)
(* give it one, unless an INCR ran twice or its caller died                *)
(* (rateLimit.ts:34-35).                                                   *)
TimerAgrees ==
  /\ timed => hits > 0
  /\ hits > 0 /\ ~timed =>
       (\E r \in Requests : gate[r] = "expire") \/ doubleHits + orphaned > 0
  /\ \A r \in Requests : gate[r] = "expire" =>
       /\ hits > 0 /\ ~timed
       /\ \A s \in Requests : gate[s] = "expire" => s = r

(* A request is asked for its key before the handler runs and answered     *)
(* once.                                                                   *)
GateAgrees ==
  \A r \in Requests :
    /\ gate[r] = "get" => key[r] # NoKey
    /\ pc[r] # "start" => gate[r] \in {"in", "closed"}
    /\ reply[r] # "none" => gate[r] = "closed"

(* What is kept under a key, or on its way there, is what some request     *)
(* with that key was answered (idempotency.ts:33-52).                      *)
Backed(k, a) == \E s \in Requests : key[s] = k /\ reply[s] = a
CacheAgrees ==
  /\ \A k \in Keys : cache[k] # "none" => Backed(k, cache[k])
  /\ \A i \in DOMAIN unsent : Backed(unsent[i].key, unsent[i].answer)

(* And an answer that is to be kept is, until it expires or is lost.       *)
AnswersKept ==
  \A s \in Requests : key[s] # NoKey /\ reply[s] \in Stored =>
    \/ cache[key[s]] # "none"
    \/ \E i \in DOMAIN unsent : unsent[i].key = key[s]
    \/ key[s] \in forgotten

(* The inductive invariant, together with IInv of the strategy.            *)
RouteInv ==
  RouteTypeOK /\ TimerAgrees /\ GateAgrees /\ CacheAgrees /\ AnswersKept

(* However an answer came about, by the handler or replayed, now or from   *)
(* the cache: a 201 means a coupon made by a request with that key, and a  *)
(* 409 a user who has one and sent that key.  It is true of the very user  *)
(* it is given to when only that user sends the key, or no key is sent;    *)
(* a key that two users send gives one of them the other's answer          *)
(* (idempotency.ts:22, 33-38; campaigns.ts:106-122).                       *)
Askers(r) == {s \in Requests : s = r \/ SameKey(r, s)}
RepliesTruthful ==
  \A r \in Requests :
    /\ reply[r] = "ISSUED" => \E s \in Askers(r) : s \in coupons
    /\ reply[r] = "ALREADY_ISSUED" => \E s \in Askers(r) : Duplicate(s)

(* What a step may do to a request whose key has been answered before.     *)
RunsAgainIfForgotten ==
  \A r, s \in Requests :
    /\ SameKey(r, s)
    /\ gate[r] = "get" /\ gate'[r] = "in"
    /\ reply[s] \in Stored
    => key[r] \in forgotten

(* A request that arrives after another with its key was answered does not *)
(* run the handler, unless that answer was a 5xx, has expired, or was lost *)
(* with the process (idempotency.ts:24-38, docs/06-security.md:53).        *)
ReplayProtects == [][RunsAgainIfForgotten]_allVars

(* A client that was cut off is let in again when its window has passed,   *)
(* unless an INCR ran twice or its caller died before the EXPIRE: then the *)
(* counter stays for good (rateLimit.ts:33-35).                            *)
LimitLifted == hits > Limit ~> hits = 0 \/ doubleHits + orphaned > 0

(* Copies of a request get the same answer, as long as it is kept          *)
(* (docs/06-security.md:53-56: the second is not processed, the first      *)
(* answer is replayed; 201 twice, not 409).                                *)
SameKeySameAnswer ==
  \A r, s \in Requests :
    Copies(r, s) /\ key[r] \notin forgotten /\ {reply[r], reply[s]} \subseteq Stored
      => reply[r] = reply[s]
=============================================================================
