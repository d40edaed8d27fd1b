---------------------------- MODULE DecisionEngine ----------------------------
(***************************************************************************)
(* How app/rl/engine.py turns a check into a call of a strategy: the name  *)
(* of the counter in Redis (build_key, app/rl/keys.py) and the limit taken *)
(* from the row of the plan, for the service's DecisionEngine; and the     *)
(* names of the older RateLimiter.                                         *)
(*                                                                         *)
(* A text is the sequence of the segments that colons separate in it, so   *)
(* that joining texts with colons is concatenation.  A number stands for   *)
(* its decimal text.  No segment is excluded: texts may hold the words and *)
(* the numbers that names are made of.                                     *)
(***************************************************************************)
EXTENDS Integers, Sequences

CONSTANTS
  Segment,    \* texts without a colon
  Tenant,     \* tenant ids
  Subject,    \* what a check calls its subject
  Resource,   \* and its resource
  Instant,    \* values of now_ms // 1000
  Number,     \* what a field of a plan may hold (bound)
  None,       \* a column that is NULL, a parameter that is not there
  Spelling,   \* how callers of the older interface spell strategies
  Lower,      \* str.lower on them
  DEFAULT_STRATEGY

ASSUME DecisionEngineAssumption ==
  /\ Tenant \subseteq Segment
  /\ Subject \subseteq Seq(Segment) /\ Resource \subseteq Seq(Segment)
  /\ Instant \subseteq Int /\ Number \subseteq Int /\ None \notin Int
  /\ DEFAULT_STRATEGY \in Spelling /\ Lower \in [Spelling -> STRING]

Algorithm == {"token_bucket", "fixed_window", "sliding_window", "concurrency"}

-------------------------------------------------------------------------------
(* The numbers of a plan.                                                  *)

(* Python's `a or b`.                                                      *)
Or(a, b) == IF a \in {None, 0} THEN b ELSE a

Column == Number \cup {None}

Plan == [algorithm : Algorithm, limit_per_window : Column, bucket_capacity : Column,
         concurrency_limit : Column]

WindowOf(window_seconds) == Or(window_seconds, 60)

(* Slip: a window plan without a number admits one unit.                   *)
LimitAtLeastOne(row) ==
  CASE row.algorithm = "token_bucket" ->
         Or(row.bucket_capacity, Or(row.limit_per_window, 0))
    [] row.algorithm = "concurrency" -> Or(row.concurrency_limit, 1)
    [] OTHER -> Or(row.limit_per_window, Or(row.bucket_capacity, 1))

(* The capacity or the limit.                                              *)
LimitOf(row) ==
  CASE row.algorithm = "token_bucket" ->
         Or(row.bucket_capacity, Or(row.limit_per_window, 0))
    [] row.algorithm = "concurrency" -> Or(row.concurrency_limit, 1)
    [] OTHER -> Or(row.limit_per_window, Or(row.bucket_capacity, 0))

-------------------------------------------------------------------------------
(* The names of the counters.                                              *)

(* Slip: the tenant is left out.                                           *)
LfKeyOfAll(prefix, tenant, subject, resource) ==
  <<"lf", prefix>> \o subject \o resource

LfKey(prefix, tenant, subject, resource) ==
  <<"lf", prefix, tenant>> \o subject \o resource

rl_key_token_bucket(t, s, r)    == LfKey("tb", t, s, r)
rl_key_fixed_window(t, s, r, w) == LfKey("fw", t, s, r) \o <<w>>
rl_key_sliding(t, s, r)         == LfKey("sw", t, s, r)
rl_key_conc(t, s, r)            == LfKey("cc", t, s, r)

(* (now // window) * window, where `//` rounds down for a negative window  *)
(* as well.                                                                *)
WindowStart(now, window) ==
  IF window > 0 THEN (now \div window) * window
  ELSE ((-now) \div (-window)) * window

build_key(tenant, subject, resource, algorithm, window_seconds, now) ==
  CASE algorithm = "fixed_window" ->
         rl_key_fixed_window(tenant, subject, resource,
                             WindowStart(now, WindowOf(window_seconds)))
    [] algorithm = "sliding_window" -> rl_key_sliding(tenant, subject, resource)
    [] algorithm = "concurrency"    -> rl_key_conc(tenant, subject, resource)
    [] OTHER                        -> rl_key_token_bucket(tenant, subject, resource)

(* The older interface, RateLimiter: names of counters.                    *)
bucket_key(namespace, subject, name)   == <<"rl">> \o namespace \o subject \o name
window_key(namespace, subject, window) == <<"rl">> \o namespace \o subject \o <<"win", window>>
concurrency_key(namespace, subject)    == <<"rl">> \o namespace \o subject \o <<"concurrent">>

(* A parameter, `params.get(field, default)`.                              *)
Get(value, default) == IF value = None THEN default ELSE value

(* The wrappers: the key that each of them calls its strategy with.        *)
token_bucket_check(x) ==
  bucket_key(x.namespace, x.subject, <<"tb">> \o Get(x.name, <<"default">>))

fixed_window_check(x) ==
  window_key(x.namespace, x.subject, WindowStart(x.now, Get(x.window, 60)))

sliding_window_check(x) ==
  bucket_key(x.namespace, x.subject, <<"sw">> \o Get(x.name, <<"default">>))

concurrency_check(x) == concurrency_key(x.namespace, x.subject)

StrategyOf(strategy) == Lower[IF strategy \in {None, ""} THEN DEFAULT_STRATEGY ELSE strategy]

(* A strategy that is not known is a token bucket.                         *)
LegacyKey(x) ==
  CASE StrategyOf(x.strategy) = "fixed_window"   -> fixed_window_check(x)
    [] StrategyOf(x.strategy) = "sliding_window" -> sliding_window_check(x)
    [] StrategyOf(x.strategy) = "concurrency"    -> concurrency_check(x)
    [] OTHER                                     -> token_bucket_check(x)

(* The cache entry of an API key.                                          *)
cache_key(hash) == <<"api_key", hash>>
-------------------------------------------------------------------------------
(* The checks of the two interfaces.  A window of zero seconds raises in   *)
(* the older one's fixed window, before there is a key.                    *)
ServiceCheck ==
  [tenant : Tenant, subject : Subject, resource : Resource,
   algorithm : Algorithm, window_seconds : Column, now : Instant]

Text == Subject \cup Resource

LegacyCheck ==
  {x \in [namespace : Text, subject : Text, strategy : Spelling \cup {None, ""},
          name : Text \cup {None}, window : Column, now : Instant] :
     StrategyOf(x.strategy) = "fixed_window" => x.window # 0}

(* The numbers that a plan states for its algorithm.                       *)
Stated(row) ==
  (IF row.algorithm = "concurrency" THEN {row.concurrency_limit}
   ELSE {row.limit_per_window, row.bucket_capacity}) \ {None, 0}

(* Whatever stands in for a column that is NULL or zero, a plan admits no  *)
(* number of units that it does not state, and nothing if it states none;  *)
(* but concurrency, which then admits one.                                 *)
RowsWithinPlan ==
  \A row \in Plan :
    IF Stated(row) # {} THEN LimitOf(row) \in Stated(row)
    ELSE LimitOf(row) = IF row.algorithm = "concurrency" THEN 1 ELSE 0

(* Two pairs of texts that are the same text when they are joined: one is  *)
(* the other cut at a later colon.                                         *)
CutLater(s, r, t, u) ==
  \E i \in 0 .. Len(t) : s = SubSeq(t, 1, i) /\ r = SubSeq(t, i + 1, Len(t)) \o u

SameText(s, r, t, u) == CutLater(s, r, t, u) \/ CutLater(t, u, s, r)

(* What a check of the service counts in, and under which key.             *)
CounterOf(x) ==
  [algorithm |-> x.algorithm, tenant |-> x.tenant,
   subject |-> x.subject, resource |-> x.resource,
   start |-> IF x.algorithm = "fixed_window"
               THEN WindowStart(x.now, WindowOf(x.window_seconds)) ELSE None]

KeyOf(x) ==
  build_key(x.tenant, x.subject, x.resource, x.algorithm, x.window_seconds, x.now)

ServiceUse == {[key |-> KeyOf(x), counter |-> CounterOf(x)] : x \in ServiceCheck}

(* Counters that the names do not tell apart.                              *)
Confused(c, d) ==
  /\ c.algorithm = d.algorithm /\ c.tenant = d.tenant /\ c.start = d.start
  /\ SameText(c.subject, c.resource, d.subject, d.resource)

ServiceKeys == {u.key : u \in ServiceUse}
LegacyKeys  == {LegacyKey(x) : x \in LegacyCheck}
CacheKeys   == {cache_key(hash) : hash \in Segment}

(* Two checks of the service share a key exactly if their counters are of  *)
(* one algorithm, one tenant and one window, and subject and resource are  *)
(* one text, perhaps cut at another colon: user "a" at "get:b" and user    *)
(* "a:get" at "b" are counted together, two tenants never.  No key serves  *)
(* both interfaces, or the cache of API keys.                              *)
SharedOnlyByColons ==
  /\ \A u, v \in ServiceUse : u.key = v.key <=> Confused(u.counter, v.counter)
  /\ ServiceKeys \cap LegacyKeys = {}
  /\ CacheKeys \cap (ServiceKeys \cup LegacyKeys) = {}
===============================================================================
