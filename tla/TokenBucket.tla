----------------------------- MODULE TokenBucket ------------------------------
(***************************************************************************)
(* The "token_bucket" strategy: app/rl/strategies/token_bucket.py around   *)
(* app/rl/scripts/token_bucket.lua, on one bucket key.  A check reads its  *)
(* server's clock and then awaits the script, so scripts may run in        *)
(* another order than the clocks were read; the script itself is atomic.   *)
(* The key expires when the bucket must be full again, plus a buffer; that *)
(* of a bucket without refill, when it was not asked for an hour.          *)
(*                                                                         *)
(* Time is a count of ticks (the code's milliseconds), MS of them to a     *)
(* second.  Tokens are counted in units small enough that a tick refills a *)
(* whole number, the rate, of them.                                        *)
(***************************************************************************)
EXTENDS Integers

CONSTANTS
  Caller,      \* the coroutines that may be inside check() at once
  Cap,         \* bucket_capacity, in units
  Rates,       \* what refill_rate_per_sec may be, in units per tick
  MaxCost,     \* largest cost of a call, in units (bound)
  MS,          \* ticks per second
  NoRefillTtl, \* TTL of a bucket that does not refill, seconds (3600)
  Skew,        \* Skew[p]: how far the clock of p's server is off Redis's
  MaxSkew,     \* bound on Skew
  MaxLag,      \* longest time from reading the clock to the script (bound)
  MaxClock,    \* the clock stops here (bound)
  MaxRewind    \* beyond it no call starts (bound)

ASSUME TokenBucketAssumption ==
  /\ Cap \in Nat /\ Rates \in SUBSET Nat /\ MaxCost \in Nat
  /\ MS \in Nat \ {0} /\ NoRefillTtl \in Nat \ {0}
  /\ MaxSkew \in Nat /\ Skew \in [Caller -> (-MaxSkew) .. MaxSkew]
  /\ MaxLag \in Nat /\ MaxClock \in Nat /\ MaxRewind \in Nat

VARIABLES
  rate,        \* refill_rate_per_sec of the plan
  exists,      \* is the hash in Redis?
  tokens, ts,  \* its fields; once the key has expired, what they last were
  deadline,    \* the instant it expires, by Redis's clock
  clock,       \* Redis's clock
  pc,          \* "idle", or "eval": the clock is read, the script is to run
  started,     \* the instant the caller read its clock, by Redis's clock
  cost,        \* what the call asks for
  answer,      \* the script's last answer, with the cost it refused
  spent,       \* history: units granted so far
  rewind,      \* history: how far scripts moved ts backwards, in all
  renewed      \* history: how often a key without refill expired

bucket == <<exists, tokens, ts, deadline>>
call   == <<pc, started, cost>>
hist   == <<spent, rewind, renewed>>
vars   == <<rate, bucket, clock, call, answer, hist>>

Least(a, b)    == IF a <= b THEN a ELSE b
Greatest(a, b) == IF a >= b THEN a ELSE b
CeilDiv(a, b)  == (a + b - 1) \div b

(* now_ms, as p's server reads it.                                         *)
Now(p) == started[p] + Skew[p]

(* Slip: the key lives only as long as the refill takes.                   *)
NoBuffer == 0

(* Seconds the key outlives the refill of an empty bucket.                 *)
Buffer == 5

(* Slip: without refill the key is kept for the buffer alone.              *)
TtlNoHour ==
  IF rate > 0 THEN (CeilDiv(Cap, rate * MS) + Buffer) * MS ELSE Buffer * MS

(* math.ceil(capacity / refill) + 5 seconds, or an hour without refill.    *)
Ttl == IF rate > 0 THEN (CeilDiv(Cap, rate * MS) + Buffer) * MS
                   ELSE NoRefillTtl * MS

(* Slip: the refill is not capped.                                         *)
RefilledUncapped(now) ==
  IF ~exists THEN Cap ELSE tokens + Greatest(0, now - ts) * rate

(* The tokens at instant now: full for an absent key, else what is stored  *)
(* and what was refilled since; a clock behind ts refills nothing.         *)
Refilled(now) ==
  IF ~exists THEN Cap
  ELSE Least(Cap, tokens + Greatest(0, now - ts) * rate)

(* Slip: the condition the wrong way round.                                *)
RetrySwapped(missing) == IF rate > 0 THEN 0 ELSE missing

(* math.floor(missing / refill * 1000 + 0.5): to the nearest tick.         *)
RetryAfter(missing) ==
  IF rate > 0 THEN (2 * missing + rate) \div (2 * rate) ELSE 0

Init ==
  /\ rate \in Rates
  /\ exists = FALSE /\ tokens = Cap /\ ts = -MaxSkew /\ deadline = 0
  /\ clock = 0
  /\ pc = [p \in Caller |-> "idle"]
  /\ started = [p \in Caller |-> 0]
  /\ cost = [p \in Caller |-> 0]
  /\ answer = [now |-> 0, cost |-> 0, allowed |-> TRUE, retry |-> 0]
  /\ spent = 0 /\ rewind = 0 /\ renewed = 0

(* check() reads the clock.                                                *)
Start(p) ==
  \E c \in 1 .. MaxCost :
    /\ pc[p] = "idle" /\ rewind <= MaxRewind
    /\ pc' = [pc EXCEPT ![p] = "eval"]
    /\ started' = [started EXCEPT ![p] = clock]
    /\ cost' = [cost EXCEPT ![p] = c]
    /\ UNCHANGED <<rate, bucket, clock, answer, hist>>

Finish(p) ==
  /\ pc' = [pc EXCEPT ![p] = "idle"]
  /\ started' = [started EXCEPT ![p] = 0]
  /\ cost' = [cost EXCEPT ![p] = 0]

(* Slip: ts is written only when the bucket is created.                    *)
PersistKeepsTs(left, now) ==
  /\ exists' = TRUE /\ tokens' = left /\ ts' = (IF exists THEN ts ELSE now)
  /\ deadline' = clock + Ttl
  /\ UNCHANGED rewind

(* HMSET and EXPIRE at the end of the script, on both verdicts.            *)
Persist(left, now) ==
  /\ exists' = TRUE /\ tokens' = left /\ ts' = now
  /\ deadline' = clock + Ttl
  /\ rewind' = rewind + (IF exists THEN Greatest(0, ts - now) ELSE 0)

(* The script grants.                                                      *)
Grant(p) ==
  /\ pc[p] = "eval"
  /\ Refilled(Now(p)) >= cost[p]
  /\ Persist(Refilled(Now(p)) - cost[p], Now(p))
  /\ spent' = spent + cost[p]
  /\ answer' = [now |-> Now(p), cost |-> 0, allowed |-> TRUE, retry |-> 0]
  /\ Finish(p)
  /\ UNCHANGED <<rate, clock, renewed>>

(* The script refuses.                                                     *)
Refuse(p) ==
  /\ pc[p] = "eval"
  /\ Refilled(Now(p)) < cost[p]
  /\ Persist(Refilled(Now(p)), Now(p))
  /\ answer' = [now |-> Now(p), cost |-> cost[p], allowed |-> FALSE,
                retry |-> RetryAfter(cost[p] - Refilled(Now(p)))]
  /\ Finish(p)
  /\ UNCHANGED <<rate, clock, spent, renewed>>

(* The call dies before its script reaches Redis.                          *)
Abandon(p) ==
  /\ pc[p] = "eval"
  /\ Finish(p)
  /\ UNCHANGED <<rate, bucket, clock, answer, hist>>

(* A tick passes; no call is under way for longer than MaxLag.             *)
Tick ==
  /\ clock < MaxClock
  /\ \A p \in Caller : pc[p] = "eval" => clock - started[p] < MaxLag
  /\ clock' = clock + 1
  /\ exists' = (exists /\ clock + 1 < deadline)
  /\ renewed' = renewed + (IF exists /\ ~exists' /\ rate = 0 THEN 1 ELSE 0)
  /\ UNCHANGED <<rate, tokens, ts, deadline, call, answer, spent, rewind>>

Next ==
  \/ \E p \in Caller : Start(p) \/ Grant(p) \/ Refuse(p) \/ Abandon(p)
  \/ Tick

Spec == Init /\ [][Next]_vars
-------------------------------------------------------------------------------
TypeOK ==
  /\ rate \in Rates
  /\ exists \in BOOLEAN /\ tokens \in 0 .. Cap /\ ts \in Int
  /\ deadline \in Nat /\ clock \in 0 .. MaxClock
  /\ pc \in [Caller -> {"idle", "eval"}]
  /\ started \in [Caller -> Nat] /\ cost \in [Caller -> 0 .. MaxCost]
  /\ answer \in [now : Int, cost : Nat, allowed : BOOLEAN, retry : Nat]
  /\ spent \in Nat /\ rewind \in Nat /\ renewed \in Nat

(* The stamps of calls, from the earliest clock at the start.              *)
Epoch == -MaxSkew
Stamp == Epoch .. (MaxClock + MaxSkew)

(* A bucket that does not refill is full as soon as its key is gone.       *)
Level == IF exists \/ rate > 0 THEN tokens ELSE Cap

(* The bucket is an ideal one, which never expires: forgetting a bucket    *)
(* that refills is invisible, because by then it was full, and one that    *)
(* does not is renewed.                                                    *)
Ideal == INSTANCE IdealBucket WITH level <- Level, at <- ts
ImplementsIdealBucket == Ideal!Spec

(* A key that has expired would be full for every call under way.          *)
ForgottenMeansFull ==
  ~exists => \A p \in Caller : pc[p] = "eval" =>
               /\ Now(p) >= ts
               /\ rate > 0 => tokens + (Now(p) - ts) * rate >= Cap

(* Over any time, a full bucket and its refill are all that is granted,    *)
(* but for what is refilled again when scripts move ts backwards; without  *)
(* refill, a full bucket for every hour that has passed is.                *)
RateBound ==
  /\ spent <= Cap * (renewed + 1) + rate * (clock + 2 * MaxSkew + rewind)
  /\ renewed * (NoRefillTtl * MS) <= clock

(* This step answers p, who asks again for what was refused last, once it  *)
(* has waited for the retry_after_ms of that refusal, and `more` ticks.    *)
AsksAgain(p, more) ==
  /\ pc[p] = "eval" /\ pc'[p] = "idle" /\ answer' # answer
  /\ ~answer.allowed /\ cost[p] = answer.cost
  /\ Now(p) >= answer.now + answer.retry + more

(* If the bucket refills, a call that was refused, and comes back first    *)
(* after retry_after_ms and the tick it may have been rounded down by,     *)
(* gets in; all but one that asks for more than the capacity, which is     *)
(* told a time like any other and is refused whenever it comes back.       *)
RetryWithinOneTick ==
  [][\A p \in Caller :
       rate > 0 /\ AsksAgain(p, 1) => (answer'.allowed <=> cost[p] <= Cap)]_vars

===============================================================================
