---------------------------- MODULE SlidingWindow -----------------------------
(***************************************************************************)
(* The "sliding_window" strategy, app/rl/strategies/sliding_window.py, on  *)
(* one key: a sorted set with an entry per admitted unit, whose member is  *)
(* made of its score, so the set is a set of scores here.  There is no     *)
(* script: check() trims, counts, decides and adds in separate commands,   *)
(* each one an action, so calls interleave between them; only the ZADDs    *)
(* and the PEXPIRE of one call run together, in a MULTI pipeline.          *)
(*                                                                         *)
(* The plan of a call is resolved anew for every call, and the key names   *)
(* no plan: calls under plans with other limits and windows count, trim    *)
(* and extend the life of one set.                                         *)
(*                                                                         *)
(* Time is a count of ticks (the code's milliseconds), MS to the second.   *)
(***************************************************************************)
EXTENDS CallWeights

CONSTANTS
  Caller,      \* the coroutines that may be inside check() at once
  Plan,        \* the plans their calls may be decided under
  Limit,       \* Limit[l]: limit_per_window of plan l
  WindowSec,   \* WindowSec[l]: its window_seconds
  MS,          \* ticks per second
  MaxCost,     \* largest cost of a call (bound)
  MaxLag,      \* longest time check() takes (bound)
  MaxClock,    \* the clock stops here (bound)
  MaxCollided  \* beyond it no call starts (bound)

ASSUME SlidingWindowAssumption ==
  /\ IsFiniteSet(Caller) /\ Caller # {}
  /\ Plan # {} /\ Limit \in [Plan -> Nat] /\ WindowSec \in [Plan -> Nat \ {0}]
  /\ MS \in Nat \ {0}
  /\ MaxCost \in Nat /\ MaxLag \in Nat /\ MaxClock \in Nat \ {0}
  /\ MaxCollided \in Nat

VARIABLES
  log,       \* the scores in the sorted set; an empty one is no key at all
  deadline,  \* the instant it expires
  clock,
  pc,        \* the command each caller runs next
  plan,      \* the plan of the call
  now,       \* now_ms, read when check() starts
  cost,      \* what the call asks for
  answer,    \* the last decision: of a refusal, its plan and cost and the
             \* instant its caller may come back, as told
  granted,   \* history: granted[l][s], units admitted under l with score s
  collided,  \* history: units admitted under a score that was in the set
  setter     \* history: the plan of the call that set the key's TTL

set  == <<log, deadline>>
call == <<pc, plan, now, cost>>
hist == <<granted, collided, setter>>
vars == <<set, clock, call, answer, hist>>

W(l)   == WindowSec[l] * MS
Score  == 0 .. (MaxClock + MaxCost - 1)
NoPlan == CHOOSE l \in Plan : TRUE    \* what an idle caller's plan is put to

(* Slip: the key expires as the plan with the shortest window has it,      *)
(* whichever plan the call is under.                                       *)
TtlOfShortest(l) == MS + CHOOSE w \in {W(q) : q \in Plan} : \A q \in Plan : w <= W(q)

(* Slip: the key expires with the window of its last entry.                *)
TtlOfWindow(l) == W(l)

(* PEXPIRE: the window and a second.                                       *)
KeyTtl(l) == W(l) + MS

Greatest(a, b) == IF a >= b THEN a ELSE b

(* ZRANGE key 0 0: the lowest score, 0 for an absent key.                  *)
Lowest == IF log = {} THEN 0 ELSE CHOOSE s \in log : \A r \in log : s <= r

Admitted == [allowed |-> TRUE, plan |-> NoPlan, cost |-> 0, ready |-> 0]

Init ==
  /\ log = {} /\ deadline = 0
  /\ clock = 1
  /\ pc = [p \in Caller |-> "idle"]
  /\ plan = [p \in Caller |-> NoPlan]
  /\ now = [p \in Caller |-> 0]
  /\ cost = [p \in Caller |-> 0]
  /\ answer = Admitted
  /\ granted = [l \in Plan |-> [s \in Score |-> 0]]
  /\ collided = 0 /\ setter = NoPlan

Goto(p, l) == pc' = [pc EXCEPT ![p] = l]

(* check() reads the clock.                                                *)
Start(p) ==
  \E c \in 1 .. MaxCost, l \in Plan :
    /\ pc[p] = "idle" /\ collided <= MaxCollided
    /\ Goto(p, "trim")
    /\ plan' = [plan EXCEPT ![p] = l]
    /\ now' = [now EXCEPT ![p] = clock]
    /\ cost' = [cost EXCEPT ![p] = c]
    /\ UNCHANGED <<set, clock, answer, hist>>

(* Slip: the window is a tick short.                                       *)
InsideShort(p) == {s \in log : s > now[p] - W(plan[p]) + 1}

(* Slip: the bound of the trim is exclusive.                               *)
InsideExclusive(p) == {s \in log : s >= now[p] - W(plan[p])}

(* ZREMRANGEBYSCORE key 0 now - W: what is left is inside the window.      *)
Inside(p) == {s \in log : s > now[p] - W(plan[p])}

Trim(p) ==
  /\ pc[p] = "trim"
  /\ log' = Inside(p)
  /\ Goto(p, "card")
  /\ UNCHANGED <<deadline, clock, plan, now, cost, answer, hist>>

(* Slip: |set| < L, whatever the cost.                                     *)
FitsOne(p) == Cardinality(log) < Limit[plan[p]]

(* The decision on what ZCARD returned.                                    *)
Fits(p) == Cardinality(log) + cost[p] <= Limit[plan[p]]

Card(p) ==
  /\ pc[p] = "card"
  /\ Goto(p, IF Fits(p) THEN "add" ELSE "refuse")
  /\ UNCHANGED <<set, clock, plan, now, cost, answer, hist>>

(* The call is over; the read for reset_at, which may still follow,        *)
(* changes nothing.                                                        *)
Leave(p) ==
  /\ Goto(p, "idle")
  /\ plan' = [plan EXCEPT ![p] = NoPlan]
  /\ now' = [now EXCEPT ![p] = 0]
  /\ cost' = [cost EXCEPT ![p] = 0]

(* Slip: one entry too many.                                               *)
EntriesOneMore(p) == now[p] .. (now[p] + cost[p])

(* The entries of an admitted call: one per unit, a tick apart.            *)
Entries(p) == now[p] .. (now[p] + cost[p] - 1)

Add(p) ==
  /\ pc[p] = "add"
  /\ log' = log \cup Entries(p)
  /\ deadline' = clock + KeyTtl(plan[p]) /\ setter' = plan[p]
  /\ granted' = [granted EXCEPT ![plan[p]] =
                   [s \in Score |-> @[s] + (IF s \in Entries(p) THEN 1 ELSE 0)]]
  /\ collided' = collided + Cardinality(log \cap Entries(p))
  /\ answer' = Admitted
  /\ Leave(p)
  /\ UNCHANGED clock

(* retry_after_ms: when the first entry leaves the window.                 *)
RetryAfter(p, first) ==
  IF first = 0 THEN 0 ELSE Greatest(0, first + W(plan[p]) - now[p])

(* A refused call reads the first entry, if there still is one.            *)
Refuse(p) ==
  /\ pc[p] = "refuse"
  /\ answer' = [allowed |-> FALSE, plan |-> plan[p], cost |-> cost[p],
                ready |-> now[p] + RetryAfter(p, Lowest)]
  /\ Leave(p)
  /\ UNCHANGED <<set, clock, hist>>

(* The call dies between two commands.                                     *)
Abandon(p) ==
  /\ pc[p] # "idle"
  /\ Leave(p)
  /\ UNCHANGED <<set, clock, answer, hist>>

(* A tick passes and the key may expire; no call takes longer than MaxLag. *)
Tick ==
  /\ clock < MaxClock
  /\ \A p \in Caller : pc[p] # "idle" => clock - now[p] < MaxLag
  /\ clock' = clock + 1
  /\ log' = IF clock + 1 < deadline THEN log ELSE {}
  /\ UNCHANGED <<deadline, call, answer, hist>>

Next ==
  \/ \E p \in Caller :
       \/ Start(p) \/ Trim(p) \/ Card(p) \/ Add(p)
       \/ Refuse(p) \/ Abandon(p)
  \/ Tick

Spec == Init /\ [][Next]_vars
-------------------------------------------------------------------------------
TypeOK ==
  /\ log \in SUBSET Score /\ deadline \in Nat /\ clock \in 1 .. MaxClock
  /\ pc \in [Caller -> {"idle", "trim", "card", "add", "refuse"}]
  /\ plan \in [Caller -> Plan]
  /\ now \in [Caller -> 0 .. clock] /\ cost \in [Caller -> 0 .. MaxCost]
  /\ answer \in [allowed : BOOLEAN, plan : Plan, cost : Nat, ready : Nat]
  /\ granted \in [Plan -> [Score -> Nat]] /\ collided \in Nat /\ setter \in Plan

(* How far simultaneous calls can go over the limit: every other caller by *)
(* one call that was counted before and added after.                       *)
Overshoot == (Cardinality(Caller) - 1) * MaxCost

(* The calls that passed the test and have yet to add their entries.       *)
Passed == {p \in Caller : pc[p] = "add"}

(* The log, with what is about to be added, stays within that bound of the *)
(* limit of some plan.                                                     *)
LogWithinRace ==
  \E l \in Plan :
    Cardinality(log) + WeightOf(Passed, cost) <= Limit[l] + Overshoot

(* The units admitted under l with a score in the window that ends at t.   *)
UnitsIn(t, l) == WeightOf({s \in Score : t - W(l) < s /\ s <= t}, granted[l])

CeilDiv(a, b) == (a + b - 1) \div b

(* How far behind another caller's clock a call may be: that one trims by  *)
(* its own, and so what this one has still to count.                       *)
Lag == IF Cardinality(Caller) = 1 THEN 0 ELSE MaxLag

(* When calls come one after the other, no window of any position has more *)
(* units admitted under a plan than its limit and the units that shared a  *)
(* score, if no plan with a shorter window is in use: a call trims and the *)
(* key expires no sooner than a window has passed.  If one is, the calls   *)
(* under it trim what the longer window still has to count, and the limit  *)
(* is granted once for each of the short windows it has room for.  Calls   *)
(* that race exceed the limit by what each may, and trim each other's      *)
(* windows by as much as one may be behind the other.                      *)
WindowBoundButCollisions ==
  \A t \in Score, l \in Plan : \E q \in Plan :
    UnitsIn(t, l) <= (Limit[l] + Overshoot) * CeilDiv(W(l), W(q) - Lag) + collided

(* When the key expires it takes no entry that a call in progress, or one  *)
(* that starts later, would have to count in a window as long as that of   *)
(* the plan that set the key's TTL, whichever that was: only a call under  *)
(* a plan with a longer window can miss something.                         *)
ExpiryForgetsNothing ==
  [][clock' # clock =>
       \A s \in log \ log' :
         /\ s <= clock' - W(setter)
         /\ \A p \in Caller : pc[p] # "idle" => s <= now[p] - W(setter)]_vars

(* This step decides on p, who comes back, asking for what was refused     *)
(* last, after the retry_after_ms of that refusal.                         *)
AsksAgain(p) ==
  /\ pc[p] = "card" /\ pc'[p] \in {"add", "refuse"}
  /\ ~answer.allowed /\ plan[p] = answer.plan /\ cost[p] = answer.cost
  /\ now[p] >= answer.ready

Largest(l) == \A q \in Plan : Limit[q] <= Limit[l]

(* A unit that was refused and comes back after retry_after_ms gets in, if *)
(* no other call was answered in between: the first entry has left.  So it *)
(* is for the plan with the largest limit; under another there may be more *)
(* entries than the limit, and one that leaves makes no room.              *)
RetryFreesOneUnit ==
  [][\A p \in Caller :
       AsksAgain(p) /\ cost[p] = 1 /\ Limit[plan[p]] > 0 /\ Largest(plan[p])
         => pc'[p] = "add"]_vars

(* "Accept only if |set| < L": the set never has more entries than L.      *)
LogWithinLimit == \E l \in Plan : Cardinality(log) <= Limit[l]

(* An entry per admitted request: no window has more units than the limit. *)
EveryWindowWithinLimit == \A t \in Score, l \in Plan : UnitsIn(t, l) <= Limit[l]

===============================================================================
