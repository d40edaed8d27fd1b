----------------------------- MODULE CheckService -----------------------------
(***************************************************************************)
(* The way of a request through an application that is gated by the        *)
(* service: the middleware of the Python or the Node SDK, or any other     *)
(* client, asks POST /v1/check, whose handler authenticates the API key    *)
(* (Redis cache, then Postgres), resolves the plan, and lets the plan's    *)
(* strategy decide.  Meanwhile admins create tenants, keys and plans and   *)
(* pin plans, keys are switched off in the database, the cache forgets,    *)
(* handlers fail and clients time out.                                     *)
(*                                                                         *)
(* The requests are those of one tenant, Own, for one resource.  Plans are *)
(* numbered in the order of their created_at.  What a strategy decides is  *)
(* the subject of the modules of the strategies: any verdict here; what it *)
(* is called with is that of DecisionEngine.                               *)
(***************************************************************************)
EXTENDS DecisionEngine, FiniteSetsExt

CONSTANTS
  Own,        \* the tenant whose requests these are
  Call,       \* requests to the application, each made once
  PyCall,     \* those that come through the Python SDK, which has a timeout
  SdkCall,    \* those that come through an SDK, which never names a plan
  Key,        \* API keys of the tenant
  Named,      \* the plan_ids that requests name (bound)
  MaxPlans    \* how many plans are created (bound)

ASSUME CheckServiceAssumption ==
  /\ Own \in Tenant /\ IsFiniteSet(Call) /\ IsFiniteSet(Key)
  /\ PyCall \subseteq SdkCall /\ SdkCall \subseteq Call
  /\ MaxPlans \in Nat /\ Named \subseteq 1 .. MaxPlans

VARIABLES
  tenants,    \* the tenants that have a row
  keyRow,     \* the rows of api_keys: "none", "active", or "off" (inactive
              \* or revoked)
  plans,      \* how many rows the table plans has
  owner,      \* the tenant that a plan belongs to, or will
  pinned,     \* the plans that resource_policies pins to the resource for Own
  cached,     \* keys with api_key:{hash} = "1" in Redis
  client,     \* where the request stands in the middleware
  handler,    \* where its check stands in the service
  key,        \* the key it presents
  asked,      \* the plan_id it asks for, 0 for none
  seen,       \* the row of its key that its database session has loaded
  plan,       \* the plan it is decided under, 0 before
  status,     \* the status of its response, 0 before
  charged,    \* history: did a strategy admit it?
  barred,     \* history: was its key off before it was sent?
  newest      \* history: the newest plan of Own pinned before it was sent

db   == <<tenants, keyRow, plans, owner, pinned>>
reqs == <<client, key, asked>>
work == <<handler, seen, plan, status>>
hist == <<charged, barred, newest>>
vars == <<db, cached, reqs, work, hist>>

NewestOf(S) == IF S = {} THEN 0 ELSE Max(S)

Init ==
  /\ tenants = {} /\ keyRow = [k \in Key |-> "none"]
  /\ plans = 0 /\ owner \in [1 .. MaxPlans -> Tenant] /\ pinned = {}
  /\ cached = {}
  /\ client = [c \in Call |-> "new"]
  /\ handler = [c \in Call |-> "none"]
  /\ key \in [Call -> Key]
  /\ asked \in [Call -> {0} \cup Named] /\ \A c \in SdkCall : asked[c] = 0
  /\ seen = [c \in Call |-> "none"]
  /\ plan = [c \in Call |-> 0]
  /\ status = [c \in Call |-> 0]
  /\ charged = [c \in Call |-> FALSE]
  /\ barred = [c \in Call |-> FALSE]
  /\ newest = [c \in Call |-> 0]
-------------------------------------------------------------------------------
(* Administration.  The rows that crud.py inserts; tenant_id and plan_id   *)
(* are foreign keys.                                                       *)
InsertTenant(t) == t \notin tenants /\ tenants' = tenants \cup {t}

InsertKey(k) ==
  /\ Own \in tenants /\ keyRow[k] = "none"
  /\ keyRow' = [keyRow EXCEPT ![k] = "active"]

InsertPlan == owner[plans + 1] \in tenants /\ plans' = plans + 1

(* Slip: nothing checks that the plan exists.                              *)
InsertPolicyUnchecked(n) ==
  /\ Own \in tenants
  /\ pinned' = pinned \cup {n}

(* The plan must exist; nothing asks whose it is.                          *)
InsertPolicy(n) ==
  /\ Own \in tenants /\ n \in 1 .. plans
  /\ pinned' = pinned \cup {n}

(* The endpoints under /v1/admin, each of them one insert.                 *)
CreateTenant(t) ==
  /\ InsertTenant(t)
  /\ UNCHANGED <<keyRow, plans, owner, pinned, cached, reqs, work, hist>>

CreateKey(k) ==
  /\ InsertKey(k)
  /\ UNCHANGED <<tenants, plans, owner, pinned, cached, reqs, work, hist>>

CreatePlan ==
  /\ plans < MaxPlans
  /\ InsertPlan
  /\ UNCHANGED <<tenants, keyRow, owner, pinned, cached, reqs, work, hist>>

CreatePolicy(n) ==
  /\ InsertPolicy(n)
  /\ UNCHANGED <<tenants, keyRow, plans, owner, cached, reqs, work, hist>>

(* active or revoked_at is set in the database: no endpoint does it.       *)
SwitchOff(k) ==
  /\ keyRow[k] = "active"
  /\ keyRow' = [keyRow EXCEPT ![k] = "off"]
  /\ UNCHANGED <<tenants, plans, owner, pinned, cached, reqs, work, hist>>

(* The cache entry of a key expires, 60 seconds after SETEX.               *)
Forget(k) ==
  /\ k \in cached
  /\ cached' = cached \ {k}
  /\ UNCHANGED <<db, reqs, work, hist>>
-------------------------------------------------------------------------------
(* Those of the plans in S that are the tenant's own.                      *)
OwnOf(S) == {n \in S : owner[n] = Own}

(* The middleware asks before it lets the request through.                 *)
Ask(c) ==
  /\ client[c] = "new"
  /\ client' = [client EXCEPT ![c] = "waiting"]
  /\ handler' = [handler EXCEPT ![c] = "cache"]
  /\ barred' = [barred EXCEPT ![c] = (keyRow[key[c]] = "off")]
  /\ newest' = [newest EXCEPT ![c] = NewestOf(OwnOf(pinned))]
  /\ UNCHANGED <<db, cached, key, asked, seen, plan, status, charged>>

(* Slip: fail open, a request is turned away only if it is over the limit. *)
FailOpen(s) == IF s = 429 THEN "limited" ELSE "forwarded"

(* What the middleware makes of a response: RateLimitedError of a decision *)
(* that is not allowed, and 503 of any other status than 200 and 429.      *)
Outcome(s) == CASE s = 200 -> "forwarded"
                [] s = 429 -> "limited"
                [] OTHER   -> "unavailable"

(* The Node SDK throws for any other status, and decides on `allowed`; so  *)
(* does, in effect, a client that looks at the status itself.              *)
NodeOutcome(s) == IF s \notin {200, 429} THEN "unavailable"
                  ELSE IF s = 200 THEN "forwarded" ELSE "limited"

Receive(c) ==
  /\ client[c] = "waiting" /\ handler[c] = "answered"
  /\ client' = [client EXCEPT ![c] =
                   IF c \in PyCall THEN Outcome(status[c]) ELSE NodeOutcome(status[c])]
  /\ UNCHANGED <<db, cached, key, asked, work, hist>>

(* Slip: only an answer ends the wait.                                     *)
GiveUpAnswered(c) ==
  /\ client[c] = "waiting" /\ handler[c] = "answered"
  /\ client' = [client EXCEPT ![c] = "unavailable"]
  /\ UNCHANGED <<db, cached, key, asked, work, hist>>

(* The connection fails or, in Python, the timeout of a second passes:     *)
(* 503.  The handler, if it runs, is not stopped.                          *)
GiveUp(c) ==
  /\ client[c] = "waiting"
  /\ client' = [client EXCEPT ![c] = "unavailable"]
  /\ UNCHANGED <<db, cached, key, asked, work, hist>>
-------------------------------------------------------------------------------
Goto(c, l) == handler' = [handler EXCEPT ![c] = l]

(* The handler is left, and its database session with it.                  *)
Respond(c, s) ==
  /\ Goto(c, "answered")
  /\ status' = [status EXCEPT ![c] = s]
  /\ seen' = [seen EXCEPT ![c] = "none"]

(* verify_api_key: GET of the cache entry.                                 *)
ReadCache(c) ==
  /\ handler[c] = "cache"
  /\ Goto(c, IF key[c] \in cached THEN "fast" ELSE "select")
  /\ UNCHANGED <<db, cached, reqs, seen, plan, status, hist>>

(* Slip: the cache entry is trusted.                                       *)
TrustCache(c) == TRUE

(* The fast path still reads the row, and believes it only if it is valid. *)
FastValid(c) == keyRow[key[c]] = "active"

ReadFast(c) ==
  /\ handler[c] = "fast"
  /\ seen' = [seen EXCEPT ![c] = keyRow[key[c]]]
  /\ Goto(c, IF FastValid(c) THEN "resolve" ELSE "select")
  /\ UNCHANGED <<db, cached, reqs, plan, status, hist>>

(* A row that the session has loaded is not loaded again.                  *)
Row(c) == IF seen[c] = "none" THEN keyRow[key[c]] ELSE seen[c]

Select(c) ==
  /\ handler[c] = "select"
  /\ IF Row(c) = "active"
       THEN /\ Goto(c, "setex")
            /\ seen' = [seen EXCEPT ![c] = "active"]
            /\ UNCHANGED status
       ELSE Respond(c, 403)
  /\ UNCHANGED <<db, cached, reqs, plan, hist>>

SetCache(c) ==
  /\ handler[c] = "setex"
  /\ cached' = cached \cup {key[c]}
  /\ Goto(c, "resolve")
  /\ UNCHANGED <<db, reqs, seen, plan, status, hist>>

PlanById(n) == IF n \in 1 .. plans THEN n ELSE 0

(* Slip: the rows in ascending order of created_at.                        *)
OldestPlanFor(c) ==
  IF asked[c] # 0 THEN PlanById(asked[c])
  ELSE IF OwnOf(pinned) = {} THEN 0 ELSE Min(OwnOf(pinned))

(* Slip: the tenant of the policy is compared, that of the plan is not.    *)
AnyonesPlanFor(c) ==
  IF asked[c] # 0 THEN PlanById(asked[c]) ELSE NewestOf(pinned)

(* resolve_plan: the plan asked for, of whatever age and tenant, or of the *)
(* tenant's plans that are pinned the one that was created last;           *)
(* LookupError, hence 500, if there is none.                               *)
PlanFor(c) ==
  IF asked[c] # 0 THEN PlanById(asked[c]) ELSE NewestOf(OwnOf(pinned))

Resolve(c) ==
  /\ handler[c] = "resolve"
  /\ plan' = [plan EXCEPT ![c] = PlanFor(c)]
  /\ IF PlanFor(c) = 0
       THEN Respond(c, 500)
       ELSE Goto(c, "decide") /\ UNCHANGED <<seen, status>>
  /\ UNCHANGED <<db, cached, reqs, hist>>

(* DecisionEngine.check: the plan's strategy decides; a refusal is 429.    *)
Decide(c) ==
  \E ok \in BOOLEAN :
    /\ handler[c] = "decide"
    /\ charged' = [charged EXCEPT ![c] = ok]
    /\ Goto(c, "reply")
    /\ status' = [status EXCEPT ![c] = IF ok THEN 200 ELSE 429]
    /\ UNCHANGED <<db, cached, reqs, seen, plan, barred, newest>>

Reply(c) ==
  /\ handler[c] = "reply"
  /\ Respond(c, status[c])
  /\ UNCHANGED <<db, cached, reqs, plan, hist>>

(* Redis or Postgres fails under the handler, or it dies: no decision is   *)
(* sent, also if one was made.                                             *)
Fail(c) ==
  /\ handler[c] \notin {"none", "answered"}
  /\ Respond(c, 500)
  /\ UNCHANGED <<db, cached, reqs, plan, hist>>

Handle(c) ==
  \/ ReadCache(c) \/ ReadFast(c) \/ Select(c) \/ SetCache(c)
  \/ Resolve(c) \/ Decide(c) \/ Reply(c)

Next ==
  \/ \E t \in Tenant : CreateTenant(t)
  \/ \E k \in Key : CreateKey(k) \/ SwitchOff(k) \/ Forget(k)
  \/ CreatePlan
  \/ \E n \in 1 .. MaxPlans : CreatePolicy(n)
  \/ \E c \in Call : Ask(c) \/ Receive(c) \/ GiveUp(c) \/ Handle(c) \/ Fail(c)

(* The timeout of the Python SDK passes, whatever the service does; others *)
(* wait for it, and it answers if the commands it awaits are answered.     *)
Fairness ==
  /\ \A c \in PyCall : WF_vars(Receive(c) \/ GiveUp(c))
  /\ \A c \in Call \ PyCall : WF_vars(Handle(c)) /\ WF_vars(Receive(c))

Spec     == Init /\ [][Next]_vars
FairSpec == Spec /\ Fairness
-------------------------------------------------------------------------------
TypeOK ==
  /\ tenants \in SUBSET Tenant /\ keyRow \in [Key -> {"none", "active", "off"}]
  /\ plans \in 0 .. MaxPlans /\ owner \in [1 .. MaxPlans -> Tenant]
  /\ pinned \in SUBSET (1 .. plans)
  /\ cached \in SUBSET Key
  /\ client \in [Call -> {"new", "waiting", "forwarded", "limited", "unavailable"}]
  /\ handler \in [Call -> {"none", "cache", "fast", "select", "setex", "resolve",
                           "decide", "reply", "answered"}]
  /\ key \in [Call -> Key] /\ asked \in [Call -> 0 .. MaxPlans]
  /\ seen \in [Call -> {"none", "active", "off"}]
  /\ plan \in [Call -> 0 .. MaxPlans]
  /\ status \in [Call -> {0, 200, 403, 429, 500}]
  /\ charged \in [Call -> BOOLEAN] /\ barred \in [Call -> BOOLEAN]
  /\ newest \in [Call -> 0 .. MaxPlans]

(* Nothing gets to the application that a strategy did not admit, and      *)
(* nothing is called limited that one did, whatever fails on the way.      *)
VerdictHonoured ==
  \A c \in Call : /\ client[c] = "forwarded" => charged[c]
                  /\ client[c] = "limited" => ~charged[c]

(* A key that was switched off before the request was sent is never        *)
(* served, though the cache may still say that it is valid.                *)
RevokedNeverServed == \A c \in Call : barred[c] => plan[c] = 0 /\ ~charged[c]

(* A request is never decided under an older plan than the newest that was *)
(* pinned when it was sent, unless it asked for one.                       *)
FreshPlan ==
  \A c \in Call : (plan[c] # 0 /\ asked[c] = 0) => plan[c] >= newest[c]

(* A request that names no plan is decided under one of its own tenant     *)
(* that was pinned, though another tenant's plan may be pinned as well.    *)
OwnPlan ==
  \A c \in Call : (plan[c] # 0 /\ asked[c] = 0) => plan[c] \in OwnOf(pinned)

(* Every request is settled: through the Python SDK whatever becomes of    *)
(* the service, through others if the service goes on.                     *)
RequestsSettle ==
  \A c \in Call : client[c] = "waiting" ~> client[c] # "waiting"

(* The request that is being decided may be under a plan with any row: it  *)
(* admits no number of units that the plan does not state.                 *)
LimitsWithinPlan == (\E c \in Call : handler[c] = "decide") => RowsWithinPlan

(* And it shares its counter with the checks whose subject and resource    *)
(* are joined to the same text, and with no other tenant, algorithm or     *)
(* window, nor with the older interface or the cache.                      *)
CountersSharedOnlyByColons ==
  (\E c \in Call : handler[c] = "decide") => SharedOnlyByColons

(* "Trust cached validity": a request whose key is in the cache is not     *)
(* sent to the database again to be believed.                              *)
CachedKeyTrusted ==
  [][\A c \in Call : handler[c] = "fast" => handler'[c] # "select"]_vars

(* "Pin a plan to a resource": the plan that is pinned is used from then   *)
(* on.                                                                     *)
LatestPinWins ==
  [][\A n \in pinned' \ pinned, c \in Call : asked[c] = 0 => PlanFor(c)' = n]_vars
===============================================================================
