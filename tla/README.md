# A TLA+ verification of the first-come-first-served coupon server

The repository is a coupon-issuing server (Express, Prisma/PostgreSQL, Redis)
built to compare seven ways of handing out `totalStock` coupons, one per user,
to many concurrent requests. This directory models those strategies, model-checks
them with TLC on small instances, and proves the central results for every
instance with TLAPS.

Paths below are relative to `apps/server/src` unless they start elsewhere.

## 1. Inventory of the system

| Component | Code | State it keeps | Operations | Modelled by |
|---|---|---|---|---|
| campaign and coupon tables | `apps/server/prisma/schema.prisma`, `db.ts`, `services/prismaError.ts` | one `Campaign` row (`totalStock`, `issuedCount`, `version`), `Coupon` rows unique on `(campaignId, userKey)`, PostgreSQL's row lock | find, conditional update, insert, `SELECT ... FOR UPDATE` | `CouponDb` |
| naive strategy | `services/issue.naive.ts` | none of its own | read, check, increment, insert, catch-all | `IssueNaive`, run by `IssueRouter` |
| atomic strategy | `services/issue.atomic.ts` | none | conditional `UPDATE`, insert, compensate | `IssueAtomic` |
| pessimistic strategy | `services/issue.pessimistic.ts` | a transaction and its lock | begin, lock, insert, increment, commit | `IssuePessimistic` |
| optimistic strategy | `services/issue.optimistic.ts` | loop counter, version read | read, compare-and-swap, retry, insert, compensate | `IssueOptimistic` |
| Redis stock | `redis.ts`, the Lua script of `services/issue.redisLua.ts` | `campaign:{id}:stock` | `DECR`, script, `INCR` | `RedisStock` |
| redis, redis-lua strategies | `services/issue.redis.ts`, `services/issue.redisLua.ts` | none | take, insert, count, give back | `IssueRedis` |
| queue strategy and worker | `services/issue.redisQueue.ts`, `worker.ts` | list `issue-queue`, the job in a worker's hand, whether a worker is up | take, push; pop, insert, count, give back, stop | `IssueQueue` |
| seed script | `apps/server/prisma/seed.ts` | none | delete coupons, upsert row, set counter, delete queue, upsert the admin | `ReseedQueue`; the admin: `SeedAdmin` of `Auth` |
| campaign routes | `routes/campaigns.ts` | none | create a campaign, issue, list | create: `CouponDb`, who may: `Auth`; issue: `IssueRoute`, by which strategy: `IssueRouter`; list: `TakeList` of `Dashboard` |
| strategy registry | `services/registry.ts` | a table of strategies | pick one per request | `IssueRouter` |
| idempotency middleware | `middleware/idempotency.ts` | cached answers with a TTL in Redis | replay, store | `Idempotency`, `IssueRoute` |
| rate limiter | `middleware/rateLimit.ts` | a counter with a TTL in Redis | count, refuse | `RateLimit`, `IssueRoute` |
| authentication | `auth.ts`, `middleware/requireAuth.ts`, `routes/auth.ts` | `User` rows unique on `email`, tokens with a role and a time to live | register, log in, check a token, check its role | `Auth`; `optionalAuth` in `IssueRoute` |
| web dashboard | `apps/web/src` | lists, a busy slot, a token | poll, refresh, issue, log in and out | `Dashboard` |
| count script | `apps/server/prisma/count.ts` | none | compares the stores | its comparison is `CountsAgree` |
| bootstrap and shutdown | `index.ts`, `app.ts`, `config.ts` | none | wiring, `process.exit` on SIGTERM | `ServerStops` |
| coupon listing | `routes/coupons.ts` | none | reads the user's coupons | `TakeMine` of `Dashboard` |
| NestJS port | `apps/server-nest` | the same `User` table and signing secret | register and log in without validation; a guard that refuses every creation | `Auth` |
| load script | `load/issue.k6.js` | none | virtual users that share out the requests | `VUs` and `Iteration` of `IssueRouter` |

**How they interact.** A request passes the rate limiter, optional
authentication and idempotency, then the route picks one strategy, which awaits
a handful of Prisma and Redis calls. Nothing is shared in the server's memory:
requests meet only in PostgreSQL and Redis, and between any two awaits every
other request may run. The queue strategy answers 202 and leaves the rest to
worker processes, which share nothing but the list. Which strategy carries a
request out is a query parameter of that request, so all seven may be at work on
one campaign. The Express server and its NestJS port register and log in users
in one table and believe each other's tokens. The seed script rewrites
both stores under whatever is still running. The dashboard holds its user's
coupons and the campaign list as of some moment; it asks again after an issue
and, for the list, every two seconds.

**What is hard.** The interleaving of awaits on three stores that no transaction
spans; compensation (a decrement or an `INCR`) that runs late, is lost in a
crash, or is applied to something that did succeed; a Prisma call that takes
effect and rejects all the same; a Redis command that runs twice because ioredis
sends it again after a reconnect; a worker that exits, perhaps with a job that
is no longer in the queue, and is not started again; two things called
"campaign" (the row and the Redis counter) of which the API makes only one; a
cached answer that is read before the handler and written after it, under a key
that says nothing of who asks; a counter that gets its time to live in a second
command; answers in a browser that overtake one another; strategies that check
different counters of one campaign; a role that is read from a token long after
the account has changed.

**What makes each part correct.**

- Every strategy: at most `totalStock` coupons; one per user; ISSUED and
  ALREADY_ISSUED are only said when they are true; `issuedCount` equals the
  number of coupons when all is quiet and nothing has failed; the stock is sold
  out exactly when there is enough demand.
- Mixtures of strategies, naive alone among them: by how much each can oversell,
  and that the stores still agree in the end.
- Pessimistic: mutual exclusion, no drift between count and coupons under any
  failure, and nobody waits for ever.
- Optimistic: the swap never acts on a stale count; running out of attempts is
  always somebody else's success.
- Redis: no slot leaks and none is made out of nothing; the counter is below
  zero only on account of what is still to be undone.
- Queue: an accepted request gets its coupon while a worker is up; the drained
  system is consistent.
- Issue route: an answer is true, fresh or replayed, of a user who sent its key;
  a copy of a request that was answered does not run the handler again; nobody is
  cut off for good (section 6 says when somebody is).
- Dashboard: what is shown belongs to one user, the one of the session unless
  another tab interferes, and ends up being what the server has.
- Seed: after a reset the three stores tell the same story, whatever they told
  before.
- Accounts: an email is registered once and keeps its password; campaigns are
  created for admins only; a promotion takes effect for everybody in the end.

The list `hazards` of `PROJECT.json` names the line where each of these can go
wrong and the properties that guard it.

## 2. The modules

```
CouponSale                the abstract sale: grant, confirm, refuse, give up
CouponDb                  the tables, the requests, how a call can end
 |- IssueNaive, IssueAtomic, IssuePessimistic, IssueOptimistic
 |   IssueAtomic + RateLimit + Idempotency
 |   |- IssueRoute        the issue route and its middlewares
 |- RedisStock            the counter and its commands
     |- IssueRedis        redis and redis-lua on one counter
     |- IssueQueue        queue strategy and workers
     |   |- ReseedQueue   the seed script against a live queue
     |- IssueRouter       all of the strategies above on one campaign
RateLimit                 a counter with a window
Idempotency               kept answers
Auth                      accounts, tokens and roles on both servers
Dashboard                 one browser tab and what it sees of the server
CouponDb_lemmas           lemmas for the proofs about strategies
 |- IssuePessimistic_proofs, IssueOptimistic_proofs, IssueRedis_proofs
 |- IssueRoute_proofs     the atomic strategy, alone and behind the middlewares
 |- ReseedQueue_proofs    the queue strategy and its workers, alone and reset
 |- IssueRouter_proofs    every mixture
Web_proofs                accounts and tokens, and the browser tab
MC...                     symmetry sets and reduced initial states for TLC
```

**State.** A request is made once (`Requests`), carries a `userKey`, and has a
control point `pc[r]`: `"start"` before it is sent, the name of the await it is
at, or what it was answered. One `Campaign` row is modelled; requests for
different campaigns touch disjoint rows and keys. A coupon row is named by the
request that made it, so `coupons` is a set of requests and the unique index is
`Duplicate(r)`. `origin` says who made the row, because only the seed script
makes the Redis counter as well.

**Steps.** One await is one step: the statement takes effect atomically, and the
synchronous code up to the next await belongs to the same step. Every module has
a table `Catches` from an await to where its catch clause leads, used by
`Reject`.

**How a call can end.** A Prisma call resolves; rejects without effect
(`Reject`); or takes effect and rejects (`LoseAck`), the case that makes the
compensation of the atomic, optimistic and naive strategies wrong, since the
coupon is there while its slot is given back. A Redis command of the server
never rejects, as its client is made with `maxRetriesPerRequest: null`, but can
run twice (`Send`), which is ioredis's default for unanswered commands after a
reconnect. `ServerStops` ends every request in flight and rolls back an open
transaction; the server itself is taken to be there again for the next request.

**The workers.** The worker's client has the default limit of retries, so its
commands may reject. Inside `processJob` a rejection is logged and the loop goes
on; that of BRPOP is outside the `try` and ends the process. So whatever loses a
job (`LoseJob`: in `Pop`, `WorkerCreate`, `WorkerCount`, `JobLost`) leaves the worker
waiting for the next one or `"stopped"`; a worker also stops while it waits, on a
signal or a BRPOP that rejects (`WorkerStops`). Nothing in the repository starts it
again: `StartWorker` is somebody typing `npm run worker`, and no property counts
on it.

**The seed script** may be run any number of times, also after it failed;
`WaitsFor` says what the operator waits for. `faultsBefore` is history: how much had
failed when the reset began.

**The pessimistic transaction.** Uncommitted writes are seen by nobody else, so
the writes show at the commit step; before it only the lock and the control
point move. A repeat aborts the transaction in PostgreSQL, so its COMMIT is a
rollback. Statements of other requests that write the row wait for the lock
(`MayWrite`), which matters once strategies are mixed; a conditional `UPDATE` that
matches no row locks none and does not wait.

**The issue route.** `IssueRoute` puts `RateLimit`, `optionalAuth` and
`Idempotency` around `IssueAtomic`: `gate[r]` is the await of the middlewares a
request is at, `pc[r]` the one of the strategy, `reply[r]` what the client was
sent. The SET of an answer is sent with it and not awaited (`unsent`); on the
server's one Redis connection commands take effect in order, so a GET sees every
SET sent before it, and `Replay` waits for `unsent` to drain. The cache key is the
header alone, so any requests may carry one key (`SameKey`): copies of one request
(`Copies`: same user and body too), but also requests of different users or with
different bodies, in any combination. A copy is another request of the model, so
the client may send it at any time.

**The router.** `IssueRouter` is the strategies side by side: each is an `INSTANCE`
of its own module over shared tables, lock, counter and queue, `strategy[r]` is
the parameter of request `r`, and `Issue(r)` is the next step of that strategy.
`Iteration` adds k6's virtual users: a request is sent only while fewer than
`VUs` are in flight. The naive strategy has no specification of its own; a router
whose requests all say `"naive"` is it. `Excess` is what a mixture may oversell by.

**Accounts.** `Auth` has one call per HTTP request, with what it asks fixed from
the start; `bcrypt.hash` and `bcrypt.compare` are awaits like any other, so the row
a login has read (`row[c]`) may be promoted before its token is signed. A token is
named by the call that was given it: `claim[c]` is the role it carries, `expired`
says whose are more than an hour old, `bearer[c]` whose token a creation presents.
`overtaken` is history: the calls whose row was read before a promotion. The
port's handlers are actions of their own, as they do not validate. The login's
rate limiter appears as the answer LIMITED; its counter is `RateLimit`.

**The dashboard.** A task is one run of `refresh()` or `onIssue()`, at the fetch
it awaits; the server samples when it takes the fetch and the page applies the
answer later, so answers overtake each other. Polls carry no token and are
their own kind of task. The token is read when a fetch is sent and `OtherTab` may
have changed it. When a page goes away (`LogOut`, `Reload`) its continuations are
dropped and its posts are `adrift`: the server may still carry them out. `behind`
is history: an older list has replaced a newer one, or a page that is gone got a
coupon, and no complete list has come in since. The
server is reduced to what a tab can tell: `Issue` grants or not. React's
double mount in StrictMode (development only) is left out.

**Mutants.** The operators commented "Mutant of" are variants of a definition
with a plausible bug, one for each property at least, and are never part of a
specification. Every property is known to fail when its mutant takes the
place of the definition.

## 3. What TLC checks

Every run explores its instance to the end (the violations stop at the first
counterexample).

| Run | Instance | Question and answer |
|---|---|---|
| `IssueAtomic_sale` | 3 requests, 3 users, stock 2, 1 rejection, 1 lost acknowledgement | slot accounting, at most stock + lost acknowledgements sold, exact sale when nothing failed, what is left over after a refusal was given back by repeats, implements `CouponSale`, in which answers are truthful: holds |
| `IssuePessimistic_sale` | 3 requests, 3 users, stock 2, faults, fairness | exclusion, no drift, exact sale, implements `CouponSale` with final refusals, nobody waits for ever: holds |
| `IssueOptimistic_sale` | 3 requests, 3 users, stock 2, 2 attempts, faults | safe swaps, retries are paid for, implements `CouponSale`: holds |
| `IssueRedis_sale` | 3 requests, 3 users, stock 2, both paths, 1 rejection, 1 lost acknowledgement, 1 command twice | slot accounting, counter floor, issuedCount never ahead of the coupons and no further behind than increments that did not happen, no leak, leftovers explained, nothing sold without a counter, implements `CouponSale`: holds |
| `IssueQueue_sale` | 3 requests, 3 users, 2 workers, stock 2, 1 lost job, 1 command twice, 1 rejection, fairness | slot accounting across counter, queue and workers, eventual consistency, implements `CouponSale`, an accepted request is issued unless a job was lost, if some worker stays up from some time on: holds |
| `IssueRouter_mix` | 3 requests with any strategies, 3 users, 2 virtual users, 1 worker, stock 1, 2 attempts, 1 rejection, 1 lost acknowledgement, 1 command twice | by how much each mixture oversells, the stores agree in the end, false ALREADY_ISSUED answers are naive's alone and paid for by failed calls: holds |
| `ReseedQueue_orderly` | 3 requests, 2 users, 1 worker, stock 1, any number of resets, 1 rejection, 1 lost job, 1 command twice | does a reset with nothing under way repair whatever had drifted apart before? holds, as long as nothing fails from its beginning on |
| `ReseedQueue_resident` | 2 requests, a resident worker | do runs stay apart when only the requests have ended? **No** |
| `IssueRoute_gate` | 3 requests (two with the same key, of one user or two, the second with a good or a bad body), 2 users, 2 keys, stock 1, limit 2, 1 rejection, 1 INCR twice, fairness | what fresh and replayed answers stand for, replay instead of a second run, the limit is lifted: holds |
| `IssueRoute_doubleclick` | 2 copies of one request, no faults | do copies get the same answer? **No** when they overlap |
| `Auth_roles` | 4 calls, 2 emails, 2 passwords of which one is too short, fairness | an email is registered once, campaigns are created for admins only, what a token may get wrong and for how long: holds |
| `Dashboard_tab` | 2 users and 1 campaign, or 1 user and 2 campaigns, with 1 poll and 1 change of stock, or 1 user, 1 campaign, 2 polls at a time and 3 changes; 2 tasks at a time, 1 mishap, fairness of polls | only one user's coupons are shown, the session's while no other tab interferes; the busy slot guards; the page settles on the truth; sold out is shown in the end, whichever of the overlapping answers comes last: holds |

**The bounds, and why they are enough.** Three requests and a stock of two is
the smallest instance in which one request is refused, two race for the last
coupon while a third holds or gives back a slot, and (with users chosen freely)
a repeat meets a stranger; two users and one give every sharing in between. The
router keeps three requests for a stock of one: naive needs two virtual users
for one stale count, optimistic beside atomic needs a third request that the
swap does not notice, and a repeat may be turned away by another strategy than
the one that served its user; every assignment of strategies is an initial
state. The queue needs two workers so that a repeat and its original are carried
out at once. The fault bounds are 1 of each kind because the properties weigh
every fault (`+ lostAcks`, `+ resent[...]`): one shows that the weight is right,
and the proofs cover any number. Two attempts stand for `MAX_RETRY` because the
argument of `RetriesArePaidFor` is per attempt. A reset needs a fault before it,
to have something to repair, and a request of another run after it. The route
needs two requests with one key, and a third that shares their key, a user of
theirs or neither; limit 2 lets the third be cut off. The dashboard needs two
tasks for answers to overtake and clicks to overlap, two users for one to see
the other's coupons, two campaigns for the busy slot to be taken twice; the last
two are checked apart (`MCDashboard` starts with either). So are two polls that
overlap, with a campaign that sells out, gets a slot back and sells out again,
so that the answers under way differ. The accounts need a registration, a login
that races with it and with the seed, a creation with somebody's token, and one
more call of any kind: `MCAuth` says which call is which instead of permuting
them. The bounded quantities are `MaxRejects`, `MaxLostAcks`, `MaxResends`,
`MaxLostJobs`, `MaxDoubleHits`, and `MaxTasks`, `Polls`, `Contested`,
`MaxChanges`, `MaxMishaps` of `Dashboard`; `rejects`, `lostAcks`, `resent`,
`lostJobs`, `stranded`, `faultsBefore` and `behind` record what has happened and
influence nothing else.

`MCIssueAtomic`, `MCIssueOptimistic`, `MCIssueRedis` and `MCIssueRouter` use
symmetry of requests and users (safety only; the modules name neither).
`MCIssueQueue` checks liveness, where a symmetry set would be unsound: it
explores one `userKey` per way of sharing users instead. `MCIssueRoute` names its
requests and fixes the key that two of them share, the user of the first and which
body may be bad.

**Deadlock** is checked everywhere. `AllEnded` (and `Finished` of the queue) is
the one stuttering disjunct: it is enabled only when every request has its
answer. `Done` of the route adds that no SET is on its way; a dashboard always has
something to do, and the seed may always be run again beside the calls of `Auth`.

**Fairness.** `IssuePessimistic!FairSpec` is weakly fair in the statements of a
transaction that has begun: the event loop and PostgreSQL execute what can be
executed. A request waiting for the row is enabled only while the row is free;
weak fairness is enough because each request is made once, so the lock is taken
finitely often and is free for good in the end. That is a property of a finite
set of requests: for an endless stream the claim would rest on PostgreSQL's lock
queue being first come first served. `IssueQueue!FairSpec` is weakly fair in
each worker's `WorkerStep`, the statements of a process that is up: a stopped
worker has none, and neither that it stays up nor that it is started again is
assumed. A worker may leave for good (`worker.ts:71-85`), so `IssuedUnlessLost`
has `SomeWorkerStaysUp` as its hypothesis. `IssueRoute!RouteSpec` is weakly fair
in the end of the window (time passes) and in the EXPIRE of each request that
has sent its INCR. `Dashboard!FairTabSpec` is weakly fair in the polls only: the
interval goes on while the page is there. `Auth!FairSpec` is weakly fair in
`Expire`: time passes. Nothing is assumed of failures, of the requests being
sent, or of servers stopping.

## 4. What is proved

By TLAPS, for every finite set of requests, every set of users, every positive
stock and every bound on faults (`RequestsAssumption`, `StockAssumption`,
`FaultAssumption` of `CouponDb`), and where they occur for any number of commands
that run twice, finite set of workers, number of lost jobs, of attempts and of
virtual users (`ResendAssumption`, `WorkersAssumption`, `MaxRetryAssumption`,
`RouterAssumption`; `PathsAssumption` names the two redis strategies). The route is
proved for every set of keys and every limit (`KeysAssumption`,
`LimitAssumption`), `Auth` for every set of calls, emails and passwords
(`AccountAssumption`, `NoRowAssumption`), the tab for every set of users and
campaigns and any number of tasks and polls (`NobodyAssumption`,
`ContestedAssumption`, `BoundsAssumption`). The theorems about a reset have one
hypothesis, `Orderly`: the script waits for requests and workers
(`WaitsForAssumption` allows for one that does not).

| Module | Theorems |
|---|---|
| `IssueRoute_proofs` | of `IssueAtomic`: `TypeCorrect`, `Invariance` (`Spec => []IInv`), `NeverOversold`, `AnswersTruthful`, `Refinement` (`Spec => ImplementsSale`), `CountsAgreeInTheEnd`, `UnsoldByRepeats`, `SaleIsExact`; of the route around it: `RouteImplementsStrategy` (`RouteSpec => Spec`), `RouteInvariance`, `RepliesAreTruthful`, `CopiesReplayed` |
| `IssuePessimistic_proofs` | `Invariance`, `AnswersTruthful`, `Refinement` with `ExactRefusal <- TRUE`, `SaleIsExact` |
| `IssueOptimistic_proofs` | `Invariance`, `LockFree`, `AnswersTruthful`, `Refinement` |
| `IssueRedis_proofs` | `Invariance`, `AnswersTruthful`, `Refinement`, `NoSlotLeaks`, `CountFollows`, `UnsoldByRepeats` |
| `ReseedQueue_proofs` | of `IssueQueue`: `Invariance`, `Consistency`, `Refinement`; of a reset: `OrderlyReset`, `FreshAfterReset`, `OrderlyRunsDoNotMix` |
| `IssueRouter_proofs` | `Invariance`, `Oversell`, `StoresAgreeInTheEnd`, `FalseRepeatsAreExplained` |
| `Web_proofs` | of `Auth`: `Invariance`, `AnswersAreTrue`, `AdminsOnly`, `StaleTokensExplained`; of `Dashboard`: `TabInvariance`, `BusySlotGuards`, `PageSettles` |

All proofs about strategies count requests at control points; the lemmas
`WhereJoin`, `WhereLeave`, `WhereKeep` and `AtMoves` of `CouponDb_lemmas` say how
the number changes when one of them moves, `InsertAddsOne` what the insert does.

**Atomic.** `NotOversold` is not inductive: a state with `totalStock` coupons and
a free slot on the counter satisfies it and its successor need not. The
strengthening says where every slot is: `CounterBounded` (the counter is at most
`totalStock` and at least the slots in hand, so a decrement never makes it
negative) and `SlotsCounted` (coupons plus slots in hand are at most the counter
plus the lost acknowledgements). `ControlAgrees` adds what each control point
knows about the coupon table, from which the answers are truthful and the
refinement's guards follow. What is said of the quiet end needs equations in
place of these bounds. `Balanced` has them for as long as nothing has failed: the
counter is coupons plus slots in hand, each coupon's request was told so, and
once somebody was refused, counter plus repeats are at least the stock - a
repeat that gives its slot back takes one off the counter and adds one to the
repeats.

**Pessimistic.** `LockProtects` says that being inside the critical section and
holding the row are the same thing and that what was read on entry (stock left,
or none, or a repeat) is still true; `NeverDrifts` that count and coupons are
equal. Only the commit writes (`OnlyCommitWrites`), and whoever holds the lock is
the only one who can commit, so what the others know is not disturbed. For the
exact sale, `Final` adds that after a refusal there is no coupon left.

**Optimistic.** While the version that was read is still the current one, the
count has not gone up, so it is below the stock (`SwapIsSafe`); no version is
read before it was written. A failed attempt has seen the version move, so
attempts never outnumber it (`RetriesArePaidFor`); `AttemptsLeft` adds that the
loop goes round again only while attempts are left, and `LockFree` follows: who
ran out of attempts was overtaken by as many swaps.

**Redis.** `SlotsCounted` bounds the counter, the slots in hand and the coupons
from above and `StockFloor` the counter from below. Neither holds without the
history `stranded`, as a server that stops takes owed `INCR`s with it. A second
run of a command moves both sides of the bound it disturbs. `NoSlotLeaks` and
`UnsoldByRepeats` rest on a `Balanced` of the same kind as atomic's, with
requests at `"undo"` as a third place where a slot may be missing from the counter.
`CountFollows` needs no equation, since it says what a failed increment leaves: the
count and the requests about to increment are at most the coupons, and whoever was
told ISSUED is in the count.

**Queue.** A ledger adds up the slots wherever they are: on the counter, about to
be pushed, in the queue (which may hold a job twice), in a worker's hand, in a
coupon; each step moves one slot from a place to another, or loses it to a
fault. Beside the ledger, `IInv` says that a job in the queue or in a hand belongs
to a request that was accepted (`JobsAgree`), and, while no job was lost, that
every accepted request is in the queue, in a hand, or served (`JobsKept`).
`CouponsCounted` keeps issuedCount at or below the coupons, and `NothingMissing` has
the equations for as long as nothing has failed; together they give
`Consistency` when queue and hands are empty. In the refinement QUEUED is no
answer: the grant happens at the worker, and the sale has
`TotalStock + MaxResends` coupons.

**The reset.** The script writes three stores in four awaits, and may fail
between any two. `ResetInv` is the part of the queue's invariant that survives
this: the slots are bounded at every await, because an orderly reset starts when
nobody holds one and deletes the coupons first. The equations are suspended
while it runs, and after it failed until a later run gets to its end (`seedPc
\in {"idle", "done"}` in `ResetInv`). What had failed before plays no part: each
store is overwritten, so at the end the equations hold afresh, and go on holding
as long as the faults are as many as when the reset began (`Faults =
faultsBefore`). `FreshAfterReset` reads them off. `OrderlyRunsDoNotMix` is what
finding 1 refutes for a resident worker: with `Orderly` it holds, unless a
command ran twice.

**The route.** `RouteImplementsStrategy` shows that `Handle` and `RouteStops`
take steps of the strategy and that whatever the middlewares do is a stutter of
it, so all that is proved of `IssueAtomic` holds behind them. `RouteInv` has the
rest: an answer that is kept or on its way to be kept was given to that key
(`CacheAgrees`); an answer worth keeping is kept, on its way or forgotten
(`AnswersKept`); and the counter of the limiter has a time to live, or somebody
about to give it one, or lost it to a fault (`TimerAgrees`). `AnswersKept`
yields `CopiesReplayed`: `Replay` waits for the SETs sent before it, so a copy
that comes after an answer finds it. Nothing is assumed of who shares a key.
`RepliesAreTruthful` therefore speaks of the requests with the key of the one
that was answered (`Askers`): a replayed 201 stands for the coupon of one of
them (`TruthShared`), a 409 for a user of one of them, and both stay so since a
coupon, once there, stays (`TruthStays`). Where one user sends the key, that is
the user who was told.

**Mixtures.** The steps of all seven strategies are sorted by what they do to the
books: a slot is taken, given back, used, or passed on. `SlotsBounded` counts the
slots in use together with those that are sure to come: each naive request that
has passed its check will increment, whatever happens meanwhile, and of the
optimistic requests that read the current version one can still swap. `NaiveSteps`
to `PessimisticSteps` establish the sort for each strategy and `BooksKept` does the
arithmetic once. Requests in flight are at most `VUs`, so at most `VUs - 1` others
add to a stale count. For the counter there is a ledger as for the queue.

The bounds say nothing of equality, so the steps are gone through a second time.
`NaiveTells` to `QueueTells` and `WorkersTell` say of each what it tells (`Tells`: the
control point it leads to is right about the coupon table) and what it leaves
exact (`Exact` for issuedCount, `SlotExact` for the Redis counter). From that
follow `ControlAgrees`, in which strategies differ by one clause only, that naive
may be at ALREADY_ISSUED without being a repeat; `MistakesCounted`, which charges
every such request, from its failed insert on, to a call that failed; and
`Balanced`, the equations of both counters for as long as nothing has failed. A
coupon of one strategy makes a request of another a repeat, which is why the
three speak of all requests at once and no strategy alone could be shown to keep
them. `StoresAgreeInTheEnd` is `Balanced` where nobody holds anything.

The invariant that is inductive is `Whole`: `IInv` together with `SeenBefore` (no
version is read before it was written), `CounterFloor` and how far the loop of
optimistic has come at each of its control points (`Attempts`).

**Accounts.** `RowsLast` is inductive because no step deletes a row, changes a
password or demotes: what a call has read stays true except that the account may
have been promoted. `AnswersAreTrue` adds that two calls told REGISTERED for one
email are the same call, `StaleTokensExplained` that a call whose row says less
than the table is in `overtaken`.

**The tab.** That a page at rest shows the truth is not inductive: it may be
wrong as long as something is under way that will put it right. `RefreshComing`
says what: a task that will still ask for the user's coupons, or one that holds
the current answer. It does not hold once an older list has come in last, as no
later event need follow; `behind` says so, and ends with the next list that is
complete. That all coupons shown are one user's needs no such exception
(`AnswersFit`: an answer is of the user whose token was sent, and it replaces
what is shown). `BusyAgrees` ties the busy slot to the click under way, of which
there is one until clicks of different campaigns overlap; `BusySlotGuards`
counts them.

**The refinements** map `coupons` to `winners` and the answers to `answer`. An
insert is a `Grant`, silent when the answer comes later or with an `ERROR` when
the acknowledgement is lost; compensations, locks and counters are stutters.

## 5. What is only model-checked

Liveness (`NobodyWaitsForever`, `IssuedUnlessLost`, `LimitLifted`, `SoldOutShown`,
`PromotionTakesEffect`) is out of the prover's reach. Every invariant, action
property and refinement of the passing runs has a theorem. The two findings
(section 6) are violations, so there is nothing to prove of them beyond
`OrderlyRunsDoNotMix`.

## 6. Findings

Each is a run of section 3 that ends in a violation.

1. **Resetting under a resident worker mixes the runs** (`prisma/seed.ts:36-40`).
   The coupon counter is set before the queue is emptied, and a job in a
   worker's hand is in no store at all: an old job takes a coupon of the new run
   without a slot, which then oversells. The comment there and
   `docs/04-redis.md:104-115` (worker resident, then seed) expect otherwise.
2. **Overlapping copies of a request get different answers**
   (`middleware/idempotency.ts:33`). The cache is read before the handler runs
   and written when it answers, so a double click runs it twice: 201 and 409,
   where `docs/06-security.md:53-56` has the first answer replayed. The coupon
   stays single thanks to the unique index.

Other behaviours are worth knowing and are stated as what does hold:

- A job is removed by BRPOP before it is carried out, errors are only logged, and
  SIGTERM exits at once (`worker.ts:62-80`), so an accepted request may never be
  issued. A BRPOP that rejects ends the worker (`worker.ts:58, 82-85`), and without
  a worker that stays up accepted jobs wait in the queue. `IssuedUnlessLost` says
  that there is no third way.
- The limiter's counter is made by `INCR` and given its time to live by `EXPIRE`, a
  second command (`middleware/rateLimit.ts:34-35`). When the process ends in between,
  no later request gets 1 and nobody sends the `EXPIRE`: the client is refused for
  good, where the comments (`rateLimit.ts:10, 33`) have the counter reset itself.
  `LimitLifted` says that this, and an `INCR` that ran twice, are the only ways.
- The idempotency key is not tied to a user, a campaign or a strategy
  (`idempotency.ts:22`). A second user who sends the same key is replayed the first
  one's 201 and gets no coupon: `RepliesTruthful` says what an answer is still worth.
- A list of coupons that is overtaken by a newer one and comes in last hides the new
  coupon until the next complete list, and coupons are not polled
  (`Dashboard.tsx:21-32`): `Settled` says so.
- Mixing strategies on one campaign breaks some guarantees and keeps others.
  Naive beside anything oversells by up to one per other request in flight.
  Optimistic beside atomic or pessimistic oversells by at most one: they take
  slots without moving `version`, so a swap may act on a stale count, once.
  Atomic and pessimistic may be mixed freely. The database strategies and the
  redis strategies check different counters, so together they may sell the
  stock twice. `OversellBounded` has the sum.
- An admin email that was registered before the seed runs is promoted and keeps
  its password (`prisma/seed.ts:44-48`), so whoever registered it is the admin.
  `RowsLast` states that the password lasts.
- A login whose `bcrypt.compare` was under way during a promotion gets a token
  with the old role, and so has every earlier token, for an hour at most:
  `StaleExplained`, `PromotionTakesEffect`.
- The port does not validate, so it makes accounts with passwords that the
  Express login then rejects as malformed (`auth.controller.ts:38-52`,
  `routes/auth.ts:11-14`).
- SOLD_OUT of the atomic and redis strategies is not final: a repeat may hold the
  last slot for a moment and give it back. `UnsoldExplained` and `UnsoldReturned`
  say that no more than that can be left over.
- The naive strategy takes every error of its insert for a repeat
  (`issue.naive.ts:38-39`): `FalseRepeatsExplained` counts the false answers.
- A campaign made through the API has no Redis counter, so the redis strategies
  call it sold out (`routes/campaigns.ts:48-59`): `NotOversold`, part of `IInv`
  of `IssueRedis` and `IssueQueue`, allows `InitialStock` coupons, which is none.

## 7. What is not modelled

Several campaigns, and so an idempotency key shared across campaigns or
strategies (the route runs the atomic strategy on one campaign); the content of
coupons (`code`, `issuedAt`); HTTP and JSON; the client's view of a lost
response; PostgreSQL deadlock detection (no transaction here locks two rows in
conflicting order); Redis losing its memory; signatures and hashes (a token is
what was signed, a password compares equal to itself); ESM wiring,
configuration, error formatting; the counters and status checks of the load
script. Of the NestJS port the listing of campaigns only reads, and what lies
behind its guards cannot be reached: `JwtAuthGuard` throws whatever it is given,
so neither `AdminGuard` nor the creation of a campaign ever runs.

## 8. Plan

Done: every component that keeps or changes state has a module, and every safety
property that a run checks has its proof.

Left, in this order:

1. Abstract specifications for the middlewares: a handler that runs at most once
   per key and kept answer, a counter that lets at most `Limit` through per
   window; `IssueRoute` shown to implement the first.
2. `IssueRouter` shown to implement the sale of `CouponSale` with the stock that
   `OversellBounded` allows, for the mixtures without naive: naive may answer
   ALREADY_ISSUED to a user who holds no coupon yet, which that sale forbids.
3. Two campaigns at once, should code appear that makes them interact.
