# LimitForge in TLA+

This directory models LimitForge, a rate-limiting service, in TLA+. LimitForge
answers `POST /v1/check` with "let this call through" or "not yet", by one of
four algorithms that keep their counters in Redis. The modules are written from
the code under `app/` and `sdk/python/`, TLC checks them on small instances,
and TLAPS proves the central properties for every value of the constants.

The question behind all of it: *what does an answer of LimitForge guarantee when
calls overlap, clocks differ, keys expire and calls die half way?*

## 1. The system

```
 application                    service (FastAPI, asyncio)            Redis
 ┌──────────────┐  POST        ┌──────────────────────────┐        ┌───────────────┐
 │ middleware   │  /v1/check   │ check_rate_limit         │  GET   │ api_key:{hash}│
 │   + client   │ ───────────► │  verify_api_key ─────────┼──────► │               │
 │  (SDK)       │ ◄─────────── │  resolve_plan ──► Postgres  EVALSHA│ bucket hash   │
 └──────────────┘  200/429/... │  DecisionEngine.check ───┼──────► │ window counter│
                               │     one of 4 strategies  │  await │ log (zset)    │
 admin ── /v1/admin/* ───────► │  create tenant/key/plan/ │        │ conc. counter │
                               │  policy ─────► Postgres  │        └───────────────┘
```

Servers are asyncio processes; there may be several, each with its own clock.
Every `await` is a point where other calls run. Redis runs one command, or one
Lua script, at a time, and expires keys by its own clock.

| component | state | operations | what makes it hard | what makes it correct | model |
|---|---|---|---|---|---|
| concurrency strategy (`app/rl/strategies/concurrency.py`) | a Redis counter with a TTL | `acquire` (INCRBY, TTL, EXPIRE, DECRBY), `release` (DECRBY, DELETE) | no script: up to five awaits per call; the TTL expires under calls in flight; calls die between commands | a semaphore, but for what its key forgets; no unit leaks for ever | `ConcurrencyLimiter` |
| token bucket (`strategies/token_bucket.py`, `scripts/token_bucket.lua`) | a hash `tokens, ts` with a TTL | `check`: read clock, EVALSHA | scripts run in another order than the clocks were read; the bucket is forgotten and recreated full | grants bounded by capacity and refill; `retry_after_ms` is true | `TokenBucket` |
| fixed window (`strategies/fixed_window.py`, `scripts/fixed_window.lua`, `DecisionEngine.build_key`) | a counter per start of a window, with a TTL | name the key, read clock, EVALSHA | two clock readings; a script that runs when its window is over and its key gone; plans of different windows on one key | a limit per window | `FixedWindow` |
| sliding window (`strategies/sliding_window.py`) | a sorted set of admitted units, with a TTL | `check`: ZREMRANGEBYSCORE, ZCARD, ZADD.../PEXPIRE or ZRANGE | count and add are separate commands; members made of the clock; plans of different windows on one key | a limit for windows at every position | `SlidingWindow` |
| decision engine (`app/rl/engine.py`) | none | `resolve_plan`, `build_key`, `check`; the older `RateLimiter.check` | plan read before, used after awaits; absent and zero columns of a plan | the right plan, the right key, a limit that the plan states | `DecisionEngine`, `CheckService`, `FixedWindow` |
| key names (`app/rl/keys.py`) | none | seven ways of joining texts with colons | the texts may contain colons | who shares a counter, and who never does | `DecisionEngine` |
| check endpoint (`app/api/v1.py`) | none | `POST /v1/check` | every await may fail, after the counters moved | an answer is a decision | `CheckService` |
| API key authentication (`app/core/security.py`) | a cached "1" per key, 60 s | `verify_api_key` | the cache outlives a revocation | a revoked key is not served | `CheckService` |
| plan store (`app/db/crud.py`, `models.py`, `app/api/admin.py`) | tables of tenants, keys, plans, policies | create, look up | plans change under requests; a policy may pin another tenant's plan | which plan applies | `CheckService` |
| SDKs (`sdk/python/limitforge_sdk`, `sdk/node`) | none | `check`, middleware | Python's timeout races the answer; Node has none | fail closed: only what was admitted passes; a request is settled | `CheckService` |

Left out: DTOs (`schemas.py`: declarations), construction of singletons
(`deps.py`, `main.py`, `session.py`), configuration, logging, metrics and tracing
(no decision depends on them), the playground UI, the landing page and the
scripts. Of the migration, the foreign keys are in
`CheckService`.
PROJECT.json lists every component with its status, and every hazard with its
line and the properties that cover it.

## 2. The modules

```
 CallWeights ◄── ConcurrencyLimiter ── INSTANCE ──► ForgetfulSemaphore (abstract)
      ▲    ▲            ▲  ▲
      │    │            │  └── ConcurrencyLimiterProofs
      │    └──────┐     └───── MCConcurrencyLimiter
 CallWeights-     │
   Theorems   SlidingWindow ◄── MCSlidingWindow
      ▲             ▲
      └─────────────┴── SlidingWindowProofs   (ConcurrencyLimiterProofs uses
                                               CallWeightsTheorems as well)

 TokenBucket ── INSTANCE ──► IdealBucket (abstract) ◄── IdealBucketProofs
   ▲    ▲                                                   ▲ INSTANCE
   │    └── TokenBucketProofs ──────────────────────────────┘
   └─────── MCTokenBucket

 FixedWindow ◄── MCFixedWindow       DecisionEngine ◄── CheckService ◄── MCCheckService
      ▲                                    ▲                  ▲
      └── FixedWindowProofs                │                  │
                                 DecisionEngineProofs ◄── CheckServiceProofs
```

Conventions. One action is one step between two awaits. Where a coroutine
stands is `pc[p]` (in `CheckService`: `client[c]` and `handler[c]`), with a
label for the command that comes next. Local variables that are still needed
after an await are variables of the model, reset when the call ends, so that
they add no states. Variables marked *history* are not in the code; nothing but
other history variables depends on them, except where a bound looks at one to
stop starting calls. Operators introduced with "Slip:" are faulty variants of
the definition that follows them; nothing uses them, and each stands for a
mistake a property must notice.

### ConcurrencyLimiter, ForgetfulSemaphore, CallWeights

| code (`concurrency.py`) | action |
|---|---|
| `current = await redis.incrby(key, cost)` | `Incrby` |
| `ttl = await redis.ttl(key)`; `if ttl < 0` | `ReadTtl` |
| `await redis.expire(key, ttl_sec)` | `SetExpire` |
| `if current <= limit: return` allowed | `Verdict`, into `pc = "held"` |
| `await redis.decrby(key, cost)`; `return` refused | `Rollback` |
| `release`: `new_val = await redis.decrby(...)` | `ReleaseDecr` |
| `if new_val < 0: await redis.delete(key)` | `ReleaseDelete` |
| the HTTP service, which calls `acquire` only | `Complete` (with `HasRelease = FALSE`) |
| a coroutine that dies at an await | `Abort` |
| Redis's expiry | `Tick` |

The key is a chain of *lives*, each one from a command that creates it to its
expiry or DELETE. A call that is charged to one life and gives back in another
lowers a counter that never had its units. `stale` holds such calls and `debt`
the units they took, so that the bounds can say exactly what that costs. The
TTL read after the rollback only fills in a header and is left out, as are the
numbers of the answer.

The TTL is set once in a life and not renewed (`concurrency.py:19-22`): under
traffic it runs out while calls are in flight, however short they are, since one
that starts in the last second is hit. So the limiter is no semaphore in the usual
sense, and after an expiry more calls than the limit may be in flight.
`ForgetfulSemaphore` is what it is: a semaphore that keeps a sum and no list. A
call counts from its arrival to its end, admitted or not, and is admitted exactly
if it fits beside the sum; the sum may be forgotten at any time (`Expire`), or by
a call that found it below zero (`Wipe`); a call that was forgotten still gives
its units back when it ends, to the account of others (`credit`); one that dies
leaves its units in the sum (`leaked`). `ConcurrencyLimiter` implements it without
any condition (`ImplementsForgetfulSemaphore`): five commands and a TTL amount to
these steps, and nothing else is lost or invented.

### TokenBucket, IdealBucket

`Start` is the reading of the clock by `check`; `Grant` and `Refuse` are the
script, one atomic action each; `Abandon` a call that never gets that far;
`Tick` the passing of time, with the key's expiry. `Skew[p]` is the offset of
the clock of `p`'s server. Tokens are integers: one tick refills `rate` units,
so a token of the code is `MS * rate / refill` units. That keeps every quotient
of the script exact but the rounding of `retry_after_ms`, which is modelled as it
is in the script, to the nearest tick. The floating-point error of the stored
token count is not modelled. The rate is chosen once, from `Rates`, and may be
zero: such a bucket never refills, but its key lives an hour (`NoRefillTtl`)
after the last call and is full afterwards. `renewed` counts that.

`IdealBucket` has no expiry and no callers: it takes stamped requests and
believes the stamps. `TokenBucket` implements it with `level <- Level, at <- ts`.
For a bucket that refills, to forget it and to start with a full one is the same
as to keep it, because the TTL, refill time plus five seconds, is long enough;
that is true only if skew and delay fit into the five seconds. One that does not
refill takes the abstract step `Renew` when its key expires.

### FixedWindow

The key carries the start of the window, computed in `build_key` (`BuildKey`);
then `fixed_window.check` reads the clock again (`ReadClock`) and the script
counts (`Grant`, `Refuse`). Every call is under one of several plans, and a plan's
window length is not in the key: the plans in `Sharing(s)`, which all have a
window that starts at `s`, count in one key, and the call that creates it gives it
the TTL of its own plan. `lives[s]` counts how often that key was created.
`admitted[s][l]` sums what plan `l` granted in it, `ontime[s][l]` what it granted
before its window was over for the fastest clock.

### SlidingWindow

One action per Redis command: `Trim` (ZREMRANGEBYSCORE), `Card` (ZCARD and the
decision), `Add` (the MULTI pipeline of ZADDs and PEXPIRE) or `Refuse` (the
ZRANGE of a refusal). A member of the set is a function of its score
(`evt:{score}`), so the set is a set of scores. Here too calls are under one of
several plans, none of which is named in the key: each trims by its own window,
counts against its own limit and sets the TTL of its own window. `granted[l][s]`
counts the units admitted under plan `l` with score `s`, `collided` those whose
score was taken already (a sum over all time), `setter` the plan whose call set the
key's TTL. The servers' clocks are in step with Redis's here.

### DecisionEngine

No variables: operators for what `engine.py` makes of a check. A text is the
sequence of the segments that colons separate in it, so joining texts with
colons is concatenation, and the names of `keys.py` and `build_key` are sequences
of segments; subjects and resources are sequences of any length, and no segment is
excluded. `Or` is Python's `a or b`, in `WindowOf` and in `LimitOf`, the limit of
a strategy as `check` takes it from the row of a plan, whose numbers are any
integers. `LegacyKey` is the name that the older `RateLimiter.check` counts under,
through its four wrappers; `StrategyOf` is how it reads the strategy, with the
configured `DEFAULT_STRATEGY` and `str.lower` (`Lower`).

### CheckService

It extends `DecisionEngine`. The request's way: `Ask` (middleware and client),
`ReadCache`, `ReadFast`, `Select`, `SetCache` (`verify_api_key`), `Resolve`
(`resolve_plan`), `Decide` (`DecisionEngine.check`, with any verdict), `Reply`,
then `Receive`, unless the client gave up (`GiveUp`) or the handler failed
(`Fail`). The calls in `PyCall` come through the Python SDK, those in `SdkCall`
through one of the SDKs; others may name a plan themselves (`asked`). The clients
read the response in their own ways (`Outcome`, `NodeOutcome`). Around it
`CreateTenant`, `CreateKey`, `CreatePlan` and `CreatePolicy` insert rows, with the
foreign keys as guards, and `SwitchOff` and `Forget` change the database and the
cache, all at any time. A plan belongs to a tenant (`owner`), and a policy of the
tenant may pin the plan of another. `seen` is the row the session has in its
identity map: a second SELECT of the same key does not refresh it.

## 3. What is checked

Every run is one `.cfg`; `tlc -config X.cfg M` reproduces it.

### Runs that pass

**cc_expiry** (3 callers, limit 2, TTL one second, one call may die, the key may
expire at any time). `TypeOK`; `CounterCoversGrants`, the accounting that relates
the counter to what was granted; `LiveCallsWithinLimit`, that the calls the key
knows of exceed the limit by no more than `debt`; `NoImmortalCharge`, that a key
without a TTL is below zero unless a call died; `NoUnitWithheld`, the bound from the
other side: with callers that release, the counter holds no more than what the calls
under way cost and `MaxCost` for each dead one, so nobody is refused for units that
are nobody's; and the refinement `ImplementsForgetfulSemaphore`. Three callers let
one be stale, one roll back into the new life and one be tested against it; they
are also the least that show a refused call's units, not yet taken back, standing
in the way of a second call while a third holds its own. With a cost of 2 one call
may weigh more than another.

**cc_reclaim** (2 callers, limit 2, TTL two seconds, two calls may die, the HTTP
service's `acquire` only). `BudgetPerKeyLife`, and under fairness the two liveness
properties: `LeakReclaimed`, units nobody holds any more do not stay in the
counter for ever, and `DebtForgotten`, a counter lowered by stale calls is not
lowered for ever. `TrafficKeepsNoKey` is the safety in both: from its first EXPIRE on
the time a key has left is bounded by what the calls that found no TTL may set,
once each; no call that comes later adds to it, and every second takes some of it.
*Fairness*: `WF(Tick)`, since time passes and Redis expires keys;
`WF(Step(p))`, since a coroutine whose command was answered goes on (the event
loop is fair, and one that dies is an `Abort`); `WF(Incrby(p))`, the calls keep
arriving. The last one is a statement about the traffic and not about the code:
without any traffic a key that lost its TTL stays as it is, which the properties
would rightly count as a failure; each call that arrives repairs the TTL.

**tb_ideal** (2 servers a tick behind and ahead of Redis's clock, lag 2,
capacity 2, a rate of 1 or 0, costs up to 3, which is more than the capacity,
clock up to 8). With a rate of 1 no wait is rounded; what rounding costs is
covered by the theorem `RetrySafe`. `MS = 1` makes the buffer five ticks; the
bucket's TTL is 7 ticks, or 6 for the bucket without refill, so the run sees
each expire and be created anew. Skew and lag, `2 + 2*1 = 4`, are within the
buffer: the condition of the proofs. `ForgottenMeansFull`; `RateBound`, which
allows a bucket without refill one capacity per renewal and a renewal per hour;
`ImplementsIdealBucket`; and `RetryWithinOneTick`, that a call which waits its
`retry_after_ms` and one tick more gets in if it is the next to be answered, but
for one that costs more than the capacity, which never does.

**fw_windows** (2 servers, one a tick ahead, lag 1, clock up to 5; plan "short"
with windows of 2 ticks and limit 1, plan "long" with 4 and 2: every other
window of the short plan shares its key with one of the long). `BudgetPerLife`;
`KeyOutlivesWindow`, a key is not lost while the shortest window that shares it
lasts; `InTimeWithinLimit`, what a plan grants in time is within its limit, times
the short windows that fit into its own; `LivesBounded`, how often a key can come
back; `ResetNotEarly`, the two clock readings may fall into different windows, but
never so that a caller is told the end of an earlier one than that it was counted
in. The clock covers a window of the long plan and the start of the next.

**sw_race** (3 callers, symmetric, a lag of 1, costs up to 2, clock up to 7; plan
"short" with windows of 2 ticks and limit 1, plan "long" with 4 and 2).
`LogWithinRace` bounds what simultaneous calls can do: the log exceeds the larger
limit by one call of each other caller, never more, however long the run.
`ExpiryForgetsNothing`: the key's TTL of a window and a second never removes an
entry that a call under way has to count in a window of the plan that set it, though
it read its clock before; a TTL that is always that of the shortest window breaks it
(the slip `TtlOfShortest`). The clock lets the key of either plan expire.
The view leaves out what was answered and granted, on which no step depends.

**sw_serial** (1 caller, the same two plans, lag 2, clock up to 7). With no overlap
of calls a window at any position holds no more units of a plan than its limit,
times the shorter windows that fit into it, and those that shared a score
(`WindowBoundButCollisions`; the property is stated for calls that race as well, where
a window also holds what each of the others may add unseen, and they trim each
other's windows by up to the lag; the theorem covers these). A refused unit that waits its `retry_after_ms` gets in,
under the plan with the larger limit (`RetryFreesOneUnit`): under the other the
log may hold more than the limit, and the exit of one entry does not help, so the
advice is too early. The lag is more than the theorem on windows asks for
(`PromptCalls`): with one caller and this clock nothing goes wrong there yet.

**svc_gate** (a request through the Python SDK and one of any other client, which
may name plan 1; 1 key, 2 tenants, 2 plans, each of either tenant).
`VerdictHonoured`: nothing gets to the application that a strategy did not admit,
nothing is called limited that one did. `RevokedNeverServed`, though the cache may
say otherwise. `FreshPlan`: no request is decided under an older plan than the
newest pinned when it was sent; `OwnPlan`: nor under another tenant's.
`LimitsWithinPlan`: for every plan row over {NULL, -2, 0, 1, 2} the strategy that
decides admits no number the plan does not state. `CountersSharedOnlyByColons`: over
2 tenants and 15 pairs of a subject and a resource, with colons, that look alike when
joined, two checks count under one key exactly if they are of one algorithm, tenant
and window and their subject and resource are the same text, perhaps cut at another
colon. That happens: subject "a" with resource "get:b" and subject "a:get" with
resource "b" share a counter, although `ui/templates/index.html:1048` has one for
each (tenant, subject, resource). No cut reaches across tenants, algorithms or
windows, the two interfaces or the cache. `RequestsSettle`, under fairness: every request that
waits stops waiting. *Fairness*: for the Python SDK only that its timeout passes if
no answer comes (`WF(Receive \/ GiveUp)`; it is a timeout per operation of the
connection, which for a service that sends nothing comes to the same); for
others that the handler goes on, since the database and Redis answer
(`WF(Handle)`), and that answers arrive (`WF(Receive)`). Requests are independent
but for the cache and the tables, so two of them, on one key, show what one leaves
for the other.

Every property of these runs is also run against a faulty variant of a
definition (the "Slip" operators; the pairs are in PROJECT.json), which must break
it.

### Bounds

Clocks stop at `MaxClock`, calls cost up to `MaxCost`, `MaxAborts` calls die,
`MaxPlans` plans are created. `MaxRewind`, `MaxCount` and `MaxCollided` stop *new*
calls when a history sum or a counter has passed a bound; calls under way go on.
`Named` are the plans that requests ask for.
`MaxLag` is not only a bound: several properties depend on it, and the theorems
name how. `CHECK_DEADLOCK FALSE` is set in the runs whose clock or whose requests
come to an end; the runs of `ConcurrencyLimiter` check for deadlock.

### Runs that end in a counterexample

Each checks one sentence of the repository's documents that the code does not keep:

- **cc_http_doc**: `ui/templates/index.html:1153`, "the call's id is evicted on
  completion". The service acquires (`engine.py:199`) and nothing in it releases:
  the second of two calls, one after the other, is refused with none open. One caller
  is enough for that, so the run has one.
- **sw_race_doc**: `index.html:1141`, a call is accepted "only if |set| < L", and
  `README.md:113`, "each algorithm is a Lua script". This one is not
  (`sliding_window.py:22-40`): two calls both count before either adds.
- **sw_collision_doc**: `index.html:1146`, each admitted call is logged by
  "ZADD key now request_id". The member is `evt:{score}` (`sliding_window.py:37`):
  units of one millisecond are one entry, and a single caller gets over the limit.
- **svc_cache_doc**: `security.py:36`, "trust cached validity (active & not revoked)",
  and `README.md:111`, "hits Postgres only on a cold tenant/plan". The code selects the
  row of the key in any case (`security.py:37-45`), and a cached key that was switched
  off is selected again and refused. `RevokedNeverServed` holds because of this: the
  mutant that does what the comment says (`TrustCache`) breaks it. The plan is not
  cached either.
- **svc_pin_doc**: `README.md:193`, "Pin a plan to a resource". `get_plan_for`
  orders by the age of the plan (`crud.py:98`), so pinning an older plan over a
  newer one has no effect.

## 4. What is proved

| theorem | says |
|---|---|
| `ConcurrencyLimiterProofs!TypeCorrect` | `TypeOK` |
| `CounterSafe`, `BudgetSafe`, `LiveCallsSafe` | `CounterCoversGrants`, `BudgetPerKeyLife`, `LiveCallsWithinLimit`, with key expiry and dying calls |
| `Refinement` | `ImplementsForgetfulSemaphore` |
| `WithheldSafe`, `NoImmortalSafe`, `TimeSafe` | `NoUnitWithheld`, `NoImmortalCharge`, `TrafficKeepsNoKey` |
| `IdealBucketProofs!IdealConserves` | `Conservation` of the ideal bucket |
| `TokenBucketProofs!TypeCorrect`, `ExpirySafe`, `Refinement`, `RateSafe` | `TypeOK`, and if `PromptScripts`, `ForgottenMeansFull`, `ImplementsIdealBucket`, `RateBound` |
| `TokenBucketProofs!RetrySafe` | `RetryWithinOneTick` |
| `TokenBucketProofs!AnyStretchSafe` | the rate bound over any stretch of time, wherever it begins, if `PromptScripts` |
| `FixedWindowProofs!TypeCorrect`, `BudgetSafe`, `KeySafe`, `InTimeSafe`, `LivesSafe`, `ResetSafe` | `TypeOK`, `BudgetPerLife`, `KeyOutlivesWindow`, `InTimeWithinLimit`, `LivesBounded`, `ResetNotEarly` |
| `SlidingWindowProofs!TypeCorrect`, `RaceSafe` | `TypeOK`, `LogWithinRace` |
| `SlidingWindowProofs!ExpirySafe` | `ExpiryForgetsNothing`, if `PromptCalls` |
| `SlidingWindowProofs!WindowSafe` | `WindowBoundButCollisions`, for calls that race too, if `PromptCalls` and every window is longer than `Lag` |
| `SlidingWindowProofs!SerialLogSafe`, `SerialWindowSafe` | what the documents say of the log and of every window (refuted in `sw_race_doc`, `sw_collision_doc`), for calls that do not overlap; the second under one plan, if `PromptCalls`, as long as no two units share a score |
| `SlidingWindowProofs!RetrySafe` | `RetryFreesOneUnit`, for one caller, any plans |
| `DecisionEngineProofs!FallbackSafe`, `NamesSafe` | `RowsWithinPlan`, for any integers in a plan, and `SharedOnlyByColons`, for texts of any length and any segments |
| `CheckServiceProofs!TypeCorrect`, `VerdictSafe`, `RevokedSafe`, `FreshSafe`, `OwnSafe` | `TypeOK`, `VerdictHonoured`, `RevokedNeverServed`, `FreshPlan`, `OwnPlan` |
| `CheckServiceProofs!LimitsSafe`, `CountersSafe` | `LimitsWithinPlan`, `CountersSharedOnlyByColons` |

All hold for every finite set of callers and every set of plans, limit, cost, TTL,
rate, capacity, skew and lag that the modules' assumptions admit. These assumptions are only
that numbers are numbers of the right sign.

*The concurrency limiter.* None of the properties is inductive alone. `IInv`
joins `TypeOK`, `VerdictKept` (a caller acts on the verdict its INCRBY earned),
`CounterCoversGrants`, `BudgetPerKeyLife` and `GrantsCoverCalls` (what was granted
in this life includes what is still in flight). `CounterCoversGrants` is the heart:
the counter alone may be anything, since stale calls lower it and dead ones raise
it, but with `debt` it covers the units granted and those of refused calls still
to be taken back; so an INCRBY that fits finds room for its grant in
`Limit + debt`. `LiveCallsWithinLimit` follows. `NoUnitWithheld` bounds the counter from above, and needs
the types only: a call that ends, however it ends, takes from the counter at least
what it takes from the calls charged to it (`ChargedLeaves`), or has died and is
counted in `aborts`. `CallWeightsTheorems` gives the facts
on sums: what adding and removing a call does to the weight of a set. The sum is a
cardinality, so they follow from the library's facts on finite sets, without
recursion. The refinement needs the counter to the unit, `CounterExact`: it is what is
charged to this life, and what was left behind in it (`leaked`), less `debt`. That is
the sum the abstract semaphore tests a call against, so an `Incrby` is `Arrive`;
`Rollback`, `ReleaseDecr`, `Complete` and `Abort` are an `End`, with `GiveBack` or
`LeaveBehind`; the last tick is `Expire`, `ReleaseDelete` is `Wipe`; a call that dies
before it is `Spare`; everything else stutters. `TimeSafe` needs the
types only: while there is a TTL no call joins `Expiring`, and one that sets the
TTL again leaves it (`FewerExpire`), so `TimeLeft` falls. That is the part of
`LeakReclaimed` and `DebtForgotten` that fairness does not supply.

*The token bucket.* The invariant behind `ForgottenMeansFull` is `ExpiryInv`: while
the key is there, its bucket would be full at every instant a call can still
carry when the deadline has passed (`deadline - MaxLag - MaxSkew`); once it is
gone, at every instant a call can carry now. `TtlRefills` shows that the TTL
leaves the buffer after the refill of an empty bucket, whatever the rounding, and
`PromptScripts` (`MaxLag + 2 * MaxSkew <= Buffer * MS`, and an hour that is no
shorter than the buffer) that skew and delay fit in it.
From there each script step is a step of `IdealBucket`, the expiry of a key
without refill is its `Renew`, and `RateBound`
is the abstract bucket's `Conservation` seen through the mapping, together with
`ts <= clock + MaxSkew` and, for the renewals, `Hours`: an hour for each is behind the deadline.
The condition is not an artefact: without the buffer TLC
refutes `ForgottenMeansFull` at once (the slip `NoBuffer`).

`RateBound` counts from the start; `AnyStretchSafe` counts from any reachable state,
which a limit on a rate has to mean. Its invariant (`SinceInv`) fixes the earliest stamp
`From(a)` that a script can carry from the instant `a` on, and gives the bucket a
`Worth` for it: what was in it at that instant, if it was last looked at before, or
what is in it now less what was refilled since. A look takes what it grants off
the worth, and only a rewound stamp or a renewal adds to it (`LookWorth`,
`OwedStep`, about the ideal bucket). At the beginning the worth is no more than the capacity, at the end
no less than minus the refill of the time between. The renewals are counted by
`HoursSince`, of which `Hours` is the case of the start. The theorem says
`Spec => [](Mark => []BoundSince)` for constants that stand for the state it counts
from, so that it needs no history variable; no run checks it for that reason.

*The fixed window.* `IInv` joins `TypeOK` with three parts. `Calls`: a call started
while its window was not over and less than `MaxLag` ago, and its plan is one of
those that share its key. `Keys`: a key is there exactly until its deadline, and
each of its lives so far lasted at least one window of some plan in `Sharing`
(`Lasted`), the last of them created by a call that was no later than `MaxLag +
MaxSkew` after its own window (`Created`): from the two follows how many there can
be, and that the second comes only when the shortest window is `Over`. `Budget`:
what a plan granted fits into the lives there were, and what it granted in this
life is counted in the key. `InTimeWithinLimit` follows: the lives that begin
while the plan's window lasts are as many as short windows fit into it. The
lemmas on `CeilDiv` do this arithmetic; it is not linear, so each product has a
step.

*The sliding window.* `LogWithinRace` is inductive with `TypeOK`: it counts, besides
the log, what the calls that passed the test are about to add. A call that passes
finds a log that its cost still fits in, under the limit of its own plan, and
beside it at most every other caller between its test and its ZADDs
(`CardWithinRace`); adding the entries moves weight from these calls to the log,
less what collides (`AddWithinRace`); every other step only lowers one or the
other, and the plan that witnesses the bound stays. For `ExpirySafe` the invariant
`Recent` relates every score to the deadline: the PEXPIRE that comes with an entry
gives the key the window of its plan and a second, so that when the key expires
the youngest entry is a second older than that window, which is all a prompt call
can be late by (`PromptCalls`, `MaxLag + MaxCost <= MS + 1`; the instance of
`sw_race` sits on that bound).

`WindowSafe` is about history: what was granted under a plan, in a window at any
position, while the log that calls count in keeps losing entries. For the plan `q`
with the shortest window, `Kept` says that a score granted less than `W(q) - Lag` ago is
still in the log: nobody trims so far, and the key lives longer.
`ShareWithinRace` is the race bound again, this time for each plan: the entries young
enough for a call to count, with what calls under that plan are about to add,
stay within its own limit and `Overshoot`. From the two, no stretch of `W(q) - Lag`
ticks has more units of a plan than that, but for collisions (`Counted`, `Spread`).
A window of a longer plan is covered by `CeilDiv(W(l), W(q) - Lag)` of these stretches
(`Tiling`). That is an induction over a number, which the library's induction theorem
cannot be used for; `Tiling` takes the least counterexample instead, which exists
because `<` on the naturals is well-founded.

`SerialLogSafe` and `SerialWindowSafe` are the other side of two counterexamples of
section 3: they name the conditions under which the documents' claims hold, and
follow from `LogWithinRace` and `WindowSafe`, for there is no overshoot without a second
caller, no lag between callers, and no shorter window without a second plan.

`RetrySafe` is about one caller. After a refusal the log has no more entries
than the largest limit (`Alone`: there is no race), and the earliest of them has left
the window at the instant that was told, so there is room for a unit among what
remains (`RoomAfter`); `Positive` tells a first entry from none, which the code
takes for an entry at zero. The call that comes back counts no more than what
remains, since it trims and nothing is added before it counts (`Trimmed`).

*The names.* Two names of the service that are equal have equal algorithms and
tenants, since these are single segments at fixed places (`ServiceStart`); the
window start of a fixed window is the last segment. What is between them is the
subject followed by the resource, and either may contain colons: they are joined to
equal texts exactly if one pair is the other cut at a later colon
(`SameTextExact`). `SplitLeft` and `SplitRight` are the facts on
concatenations this takes. The names of the three kinds differ in their first segment.
`NamesSafe` assumes nothing of segments: they may be the words and numbers that names
are built with.

*The request path.* `VerdictSafe` needs what a record says at each place on the way:
`Unsent` (a request that was not sent has no record), `Settled` (one that was
forwarded or called limited was answered), `Recorded` (a status of 200 or 429 is the
strategy's verdict, since `Respond` is called with no other). `RevokedSafe` adds
`Barred`: a key that is off stays off, so a request sent after that has not loaded
an active row, and is not past `Select`, whatever the cache holds. `FreshSafe` and
`OwnSafe` add `Pins`: pins and owners never change, hence the newest plan only
grows, and `Resolve` takes the newest there is. The parts on limits and
names are the theorems of `DecisionEngineProofs`.

### Checked by TLC only

Liveness under fairness (`LeakReclaimed`, `DebtForgotten`, `RequestsSettle`), which is
out of the prover's reach, as is everything with `ENABLED`. Every invariant and every
action property of the runs that pass is proved.

## 5. Not modelled

- The pure-Python paths of `token_bucket.check` and `fixed_window.check`, taken when
  the client is fakeredis, a test double. They compute what the scripts do, but in
  several commands; the tests run only them, the service never.
- The other fields of the answer (`remaining`, headers), `Retry-After` in seconds, and
  validation by the DTOs. The middleware's 401 for a missing header.
- Negative limits, windows and costs inside the strategies, which no schema excludes: a
  fault of configuration, where every strategy does something else. `DecisionEngine`
  has them in the rows of plans and in the names of windows.
- `cost_per_call` and `burst_factor`, which are stored and never read.
- A fixed window of zero seconds in the older interface, which raises before it has a
  key. What names of the older interface share among themselves: it has no tenants,
  and only the tests call it.
- Redis restarts: `docker-compose.yml:29` keeps an append-only file, whose last second a
  crash may lose, and with it increments of the counters.
- Commands that the Redis client sends twice. `requirements.txt` does not pin redis-py
  (`redis>=5`), so a version that retries by default may be installed. An INCRBY applied
  twice is, to `ConcurrencyLimiter`, that of a call and that of another that dies right
  after it; a DECRBY applied twice is the slip `TakeBackTwice`, which breaks
  `CounterCoversGrants` and `ImplementsForgetfulSemaphore`. For the scripts it is open.
- Several plans on one token bucket or one concurrency counter. The two windows have
  them. A bucket that was emptied under a large plan and last touched under a small
  one is forgotten when the small one would be full: what is granted then
  is bounded only by how often the plans change.
- Hashing of keys, the admin's bearer token, unique names.
- The singleton of the engine (`get_engine`), sessions, configuration, metrics, UI.
- Floating point.

## 6. Plan

The order was: the concurrency limiter, the token bucket (the two with most to go
wrong and most to prove), the two windows, the way of a request around them; then
plans that share the keys of the windows, buckets that do not refill, the
parameters and names of the decision engine, and the proofs about all of these.
What is left:

1. The answer as a contract: `remaining` and `reset_at` of every strategy against what a
   caller finds who follows them, and calls larger than the limit.
2. Plans that change under a token bucket or a concurrency counter.
3. The fakeredis paths against the scripts, as pure functions and then as the
   commands they are.
4. The Redis connection: commands sent twice, a restart that loses keys.
