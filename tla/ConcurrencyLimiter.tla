-------------------------- MODULE ConcurrencyLimiter --------------------------
(***************************************************************************)
(* The "concurrency" strategy, app/rl/strategies/concurrency.py: one Redis *)
(* counter key, moved by INCRBY/DECRBY, that expires TtlSec seconds after  *)
(* its EXPIRE.  acquire and release are coroutines: every Redis command is *)
(* an await, so the commands of different calls interleave freely and each *)
(* is one action here, while a single command is atomic in Redis.          *)
(*                                                                         *)
(* A key is a chain of lives: it appears with an INCRBY or DECRBY and goes *)
(* with its TTL or a DELETE, and then forgets the calls charged to it.     *)
(* `stale` holds those calls.  When one of them gives its units back, it   *)
(* takes them from a counter that never had them: `debt` sums these units. *)
(***************************************************************************)
EXTENDS CallWeights

CONSTANTS
  Caller,           \* coroutines that may be inside acquire ... release at once
  Limit,            \* concurrency_limit of the plan
  MaxCost,          \* largest cost of a call (bound)
  TtlSec,           \* ttl_sec, in ticks of one second
  MaxAborts,        \* how many calls may die half way (bound)
  HasRelease        \* TRUE: callers call release() (the library, as the tests
                    \* use it); FALSE: the HTTP service, which never does

ASSUME ConcurrencyAssumption ==
  /\ IsFiniteSet(Caller)
  /\ Limit \in Nat
  /\ MaxCost \in Nat \ {0}
  /\ TtlSec \in Nat \ {0}
  /\ MaxAborts \in Nat
  /\ HasRelease \in BOOLEAN

VARIABLES
  exists,    \* is the key in Redis?
  count,     \* its value, 0 if it is absent
  life,      \* seconds to its expiry, 0 if it is absent or has no TTL
  pc,        \* the command each caller runs next
  cost,      \* the cost of each caller's call
  current,   \* what its INCRBY returned
  stale,     \* history: callers charged to an earlier life of the key
  debt,      \* history: units taken by stale callers in this life
  leaked,    \* history: units of calls of this life that ended and did not
             \* give them back
  granted,   \* history: units granted in this life and not given back
  aborts     \* calls that died half way so far

key  == <<exists, count, life>>
call == <<pc, cost, current>>
hist == <<stale, debt, leaked, granted, aborts>>
vars == <<key, call, hist>>

(* The callers whose units were added and not yet taken back.              *)
Charged == {p \in Caller : pc[p] \in {"ttl", "expire", "rollback", "held"}}

(* Slip: off by one, the limit as an exclusive bound of the next call.     *)
FitsOneMore(n) == n <= Limit + 1

(* The limit test on the value INCRBY returned.                            *)
Fits(n) == n <= Limit

Granted == {p \in Charged : Fits(current[p])}
Refused == Charged \ Granted

Init ==
  /\ exists = FALSE /\ count = 0 /\ life = 0
  /\ pc = [p \in Caller |-> "idle"]
  /\ cost = [p \in Caller |-> 1]
  /\ current = [p \in Caller |-> 0]
  /\ stale = {} /\ debt = 0 /\ leaked = 0 /\ granted = 0 /\ aborts = 0

Goto(p, l) == pc' = [pc EXCEPT ![p] = l] /\ UNCHANGED <<cost, current>>

(* The coroutine of p is over.                                             *)
Done(p) ==
  /\ pc' = [pc EXCEPT ![p] = "idle"]
  /\ cost' = [cost EXCEPT ![p] = 1]
  /\ current' = [current EXCEPT ![p] = 0]
  /\ stale' = stale \ {p}

(* The key is gone, and with it everything that was charged to it.         *)
KeyVanishes ==
  /\ exists' = FALSE /\ count' = 0 /\ life' = 0
  /\ stale' = Charged /\ debt' = 0 /\ leaked' = 0 /\ granted' = 0

(* redis.incrby: an absent key is created at 0, without a TTL.             *)
Incrby(p) ==
  \E c \in 1 .. MaxCost :
    /\ pc[p] = "idle"
    /\ exists' = TRUE /\ count' = count + c
    /\ pc' = [pc EXCEPT ![p] = "ttl"]
    /\ cost' = [cost EXCEPT ![p] = c]
    /\ current' = [current EXCEPT ![p] = count + c]
    /\ granted' = granted + (IF Fits(count + c) THEN c ELSE 0)
    /\ UNCHANGED <<life, stale, debt, leaked, aborts>>

(* The answer: admit, or go on to take the units back.                     *)
Verdict(p) == IF Fits(current[p]) THEN "held" ELSE "rollback"

(* Slip: only the call that finds itself to be the first sets the TTL.     *)
OnlyFirstExpires(p) == current[p] = cost[p]

(* Slip: every call sets the TTL again.                                    *)
EveryCallExpires(p) == TRUE

(* redis.ttl is negative for an absent key and for one without a TTL.      *)
NeedsExpire(p) == life = 0

ReadTtl(p) ==
  /\ pc[p] = "ttl"
  /\ Goto(p, IF NeedsExpire(p) THEN "expire" ELSE Verdict(p))
  /\ UNCHANGED <<key, hist>>

(* Slip: the TTL is added to the one another call has set meanwhile.       *)
SetExpireAdds(p) ==
  /\ pc[p] = "expire"
  /\ life' = IF exists THEN life + TtlSec ELSE 0
  /\ Goto(p, Verdict(p))
  /\ UNCHANGED <<exists, count, hist>>

(* redis.expire sets the TTL of a key that is there, and of no other.      *)
SetExpire(p) ==
  /\ pc[p] = "expire"
  /\ life' = IF exists THEN TtlSec ELSE 0
  /\ Goto(p, Verdict(p))
  /\ UNCHANGED <<exists, count, hist>>

(* Slip: one unit is given back, whatever the call cost.                   *)
TakeBackOne(p) ==
  /\ exists' = TRUE /\ count' = count - 1
  /\ debt' = debt + (IF p \in stale THEN 1 ELSE 0)
  /\ UNCHANGED life

(* Slip: the units are taken back twice, as by a command sent again.       *)
TakeBackTwice(p) ==
  /\ exists' = TRUE /\ count' = count - 2 * cost[p]
  /\ debt' = debt + (IF p \in stale THEN cost[p] ELSE 0)
  /\ UNCHANGED life

(* redis.decrby: an absent key is created at 0, without a TTL.             *)
TakeBack(p) ==
  /\ exists' = TRUE /\ count' = count - cost[p]
  /\ debt' = debt + (IF p \in stale THEN cost[p] ELSE 0)
  /\ UNCHANGED life

(* The rollback of a refused call; the TTL read after it only fills in the *)
(* Retry-After of the answer.                                              *)
Rollback(p) ==
  /\ pc[p] = "rollback"
  /\ TakeBack(p)
  /\ Done(p)
  /\ UNCHANGED <<leaked, granted, aborts>>

(* release(): DECRBY, then DELETE if the value went below zero.            *)
ReleaseDecr(p) ==
  /\ HasRelease
  /\ pc[p] = "held"
  /\ TakeBack(p)
  /\ granted' = granted - (IF p \in stale THEN 0 ELSE cost[p])
  /\ IF count - cost[p] < 0
       THEN Goto(p, "delete") /\ stale' = stale \ {p}
       ELSE Done(p)
  /\ UNCHANGED <<leaked, aborts>>

ReleaseDelete(p) ==
  /\ pc[p] = "delete"
  /\ KeyVanishes
  /\ pc' = [pc EXCEPT ![p] = "idle"]
  /\ cost' = [cost EXCEPT ![p] = 1]
  /\ current' = [current EXCEPT ![p] = 0]
  /\ UNCHANGED aborts

(* What a call that ends without a DECRBY leaves in the counter.           *)
LeaveBehind(p) ==
  leaked' = leaked + (IF p \in Charged \ stale THEN cost[p] ELSE 0)

(* The HTTP service never calls release: a call that ends leaves its units *)
(* in the counter until the key expires.                                   *)
Complete(p) ==
  /\ ~HasRelease
  /\ pc[p] = "held"
  /\ LeaveBehind(p)
  /\ Done(p)
  /\ UNCHANGED <<key, debt, granted, aborts>>

(* A lost connection, a timeout or a crash ends the call where it is.      *)
Abort(p) ==
  /\ aborts < MaxAborts
  /\ pc[p] # "idle"
  /\ aborts' = aborts + 1
  /\ LeaveBehind(p)
  /\ Done(p)
  /\ UNCHANGED <<key, debt, granted>>

(* A second passes for a key that has a TTL; in the last one it expires,   *)
(* whatever calls are in progress: they do not renew it.                   *)
Tick ==
  /\ life > 0
  /\ IF life > 1
       THEN life' = life - 1 /\ UNCHANGED <<exists, count, stale, debt, leaked, granted>>
       ELSE KeyVanishes
  /\ UNCHANGED <<call, aborts>>

(* The commands of a call that was started.                                *)
Step(p) ==
  \/ ReadTtl(p) \/ SetExpire(p) \/ Rollback(p)
  \/ ReleaseDecr(p) \/ ReleaseDelete(p) \/ Complete(p)

Next ==
  \/ \E p \in Caller : Incrby(p) \/ Step(p) \/ Abort(p)
  \/ Tick

Spec == Init /\ [][Next]_vars

(* Time passes, a started call goes on, and calls keep arriving.           *)
Fairness ==
  /\ WF_vars(Tick)
  /\ \A p \in Caller : WF_vars(Step(p)) /\ WF_vars(Incrby(p))

FairSpec == Spec /\ Fairness
-------------------------------------------------------------------------------
TypeOK ==
  /\ exists \in BOOLEAN /\ count \in Int /\ life \in 0 .. TtlSec
  /\ pc \in [Caller -> {"idle", "ttl", "expire", "rollback", "held", "delete"}]
  /\ cost \in [Caller -> 1 .. MaxCost] /\ current \in [Caller -> Int]
  /\ stale \in SUBSET Charged
  /\ debt \in Nat /\ leaked \in Nat /\ granted \in Nat /\ aborts \in 0 .. MaxAborts

Weight(S) == WeightOf(S, cost)

(* The counter never loses sight of what it granted: with the units that   *)
(* calls of an earlier life took from it, it covers the units granted in   *)
(* this life and those of the refused calls it has yet to take back.       *)
CounterCoversGrants == count + debt >= granted + Weight(Refused \ stale)

(* In one life of the key no more than Limit units are granted, give or    *)
(* take the units that calls of an earlier life took away.                 *)
BudgetPerKeyLife == granted <= Limit + debt

(* The calls in flight that the key knows of stay within the same bound.   *)
LiveCallsWithinLimit == Weight(Granted \ stale) <= Limit + debt

(* A key that is there without a TTL, that nobody is about to give one, is *)
(* harmless: unless a call died half way, its value is below zero, so it   *)
(* withholds no unit from anyone.                                          *)
NoImmortalCharge ==
  (/\ exists /\ life = 0 /\ aborts = 0
   /\ \A p \in Caller : pc[p] \notin {"ttl", "expire"}) => count < 0

(* If callers release, the counter withholds no unit from anyone but for   *)
(* the calls under way and those that died: a call is refused only when it *)
(* exceeds the limit together with these.                                  *)
NoUnitWithheld ==
  HasRelease => count <= Weight(Charged \ stale) + aborts * MaxCost

(* The limiter is a semaphore that forgets: its counter is at any time     *)
(* what is charged in this life of the key, with what dead calls left in   *)
(* it and without what stale ones took from it; the test of a call is      *)
(* against that, and the sum is lost with the key only, or by a release    *)
(* that found it below zero.  The commands between, and the TTL, are       *)
(* invisible.                                                              *)
ChargedUnits == [p \in Caller |-> IF p \in Charged THEN cost[p] ELSE 0]
Deleting     == {p \in Caller : pc[p] = "delete"}
Abstract == INSTANCE ForgetfulSemaphore
              WITH units <- ChargedUnits, inside <- Granted, lost <- stale,
                   wiping <- Deleting, credit <- debt
ImplementsForgetfulSemaphore == Abstract!Spec

(* Units that calls left behind (every finished call of the HTTP service,  *)
(* every aborted one) are given back in the end, under constant traffic.   *)
Leaked == count + debt > Weight(Charged \ stale)
LeakReclaimed == Leaked ~> ~Leaked

(* The calls that found the key without a TTL.                             *)
Expiring == {p \in Caller : pc[p] = "expire"}

(* The longest that a key with a TTL can still be there: each call that    *)
(* found none may set it once more.                                        *)
TimeLeft == life + TtlSec * Cardinality(Expiring)

(* Traffic does not keep a key alive: from its first EXPIRE until it is    *)
(* gone, no call that comes prolongs its time, and every second takes some *)
(* of it.                                                                  *)
TrafficKeepsNoKey ==
  [][life > 0 /\ life' > 0 =>
       TimeLeft' <= TimeLeft /\ (life' < life => TimeLeft' < TimeLeft)]_vars

(* A counter lowered by calls of an earlier life does not stay lowered.    *)
DebtForgotten == debt > 0 ~> debt = 0

(* A call is refused only when the open calls and it exceed the limit.     *)
RefusedOnlyWhenFull ==
  [][\A p \in Caller \ Charged :
       p \in Refused' => Weight(Granted) + cost'[p] > Limit]_vars
===============================================================================
