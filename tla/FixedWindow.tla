----------------------------- MODULE FixedWindow ------------------------------
(***************************************************************************)
(* The "fixed_window" strategy, for one subject and resource: the start of *)
(* the window is put into the key by DecisionEngine.build_key, which reads *)
(* the clock; app/rl/strategies/fixed_window.py reads it again and awaits  *)
(* app/rl/scripts/fixed_window.lua, which is atomic.  Time may pass        *)
(* between the two readings and before the script runs, so a script may    *)
(* count in a window that is over, under a key that has expired since.     *)
(*                                                                         *)
(* The plan of a call is resolved anew for every call, and the key names   *)
(* the start of the window alone: calls under plans whose windows start    *)
(* together count in one key, which lives as long as the window of the     *)
(* plan that created it.  A key is a chain of lives.  Redis's clock is     *)
(* only used for durations, so its zero can be chosen to have every        *)
(* server's clock ahead of it.                                             *)
(***************************************************************************)
EXTENDS Integers

CONSTANTS
  Caller,     \* the coroutines that may be inside check() at once
  Plan,       \* the plans their calls may be decided under
  Limit,      \* Limit[l]: limit_per_window of plan l
  W,          \* W[l]: its window_seconds, in ticks
  MaxCost,    \* largest cost of a call (bound)
  Skew,       \* Skew[p]: how far the clock of p's server is ahead of Redis's
  MaxSkew,    \* bound on Skew
  MaxLag,     \* longest time from building the key to the script (bound)
  MaxClock,   \* the clock stops here (bound)
  MaxCount    \* beyond this count no call starts in a window (bound)

ASSUME FixedWindowAssumption ==
  /\ Plan # {} /\ Limit \in [Plan -> Nat] /\ W \in [Plan -> Nat \ {0}]
  /\ MaxCost \in Nat
  /\ MaxSkew \in Nat /\ Skew \in [Caller -> 0 .. MaxSkew]
  /\ MaxLag \in Nat /\ MaxClock \in Nat /\ MaxCount \in Nat

VARIABLES
  exists,     \* exists[s]: is the key of the windows that start at s in Redis?
  counter,    \* counter[s]: its value, 0 if it is absent
  deadline,   \* deadline[s]: when it expires
  clock,      \* Redis's clock
  pc,         \* "idle", "stamp" (key built), "eval" (now_ms read)
  plan,       \* the plan of the call
  started,    \* the instant the key was built
  start,      \* the start of the window, in the key
  now,        \* now_ms
  cost,       \* what the call asks for
  lives,      \* history: lives[s], how often the key of s was created
  admitted,   \* history: admitted[s][l], units granted in it under plan l
  ontime      \* history: ontime[s][l], those granted before l's window was over

keys == <<exists, counter, deadline>>
call == <<pc, plan, started, start, now, cost>>
hist == <<lives, admitted, ontime>>
vars == <<keys, clock, call, hist>>

Start == 0 .. (MaxClock + MaxSkew)
NoPlan == CHOOSE l \in Plan : TRUE    \* what an idle caller's plan is put to

(* Line 138 of engine.py and line 14 of the script.                        *)
StartOf(t, l) == (t \div W[l]) * W[l]

ServerClock(p) == clock + Skew[p]

(* The plans with a window that starts at s: they share its key.           *)
Sharing(s) == {l \in Plan : StartOf(s, l) = s}

(* When l's window is over for whichever server's clock is ahead most.     *)
Over(s, l) == clock >= s + W[l] - MaxSkew

Init ==
  /\ exists = [s \in Start |-> FALSE]
  /\ counter = [s \in Start |-> 0]
  /\ deadline = [s \in Start |-> 0]
  /\ clock = 0
  /\ pc = [p \in Caller |-> "idle"]
  /\ plan = [p \in Caller |-> NoPlan]
  /\ started = [p \in Caller |-> 0]
  /\ start = [p \in Caller |-> 0]
  /\ now = [p \in Caller |-> 0]
  /\ cost = [p \in Caller |-> 0]
  /\ lives = [s \in Start |-> 0]
  /\ admitted = [s \in Start |-> [l \in Plan |-> 0]]
  /\ ontime = [s \in Start |-> [l \in Plan |-> 0]]

(* build_key reads the clock and names the window.                         *)
BuildKey(p) ==
  \E c \in 1 .. MaxCost, l \in Plan :
    /\ pc[p] = "idle"
    /\ counter[StartOf(ServerClock(p), l)] <= MaxCount
    /\ pc' = [pc EXCEPT ![p] = "stamp"]
    /\ plan' = [plan EXCEPT ![p] = l]
    /\ started' = [started EXCEPT ![p] = clock]
    /\ start' = [start EXCEPT ![p] = StartOf(ServerClock(p), l)]
    /\ cost' = [cost EXCEPT ![p] = c]
    /\ UNCHANGED <<keys, clock, now, hist>>

(* Slip: the start of the sliding window for the clock.                    *)
ReadWindowStart(p) ==
  /\ pc[p] = "stamp"
  /\ pc' = [pc EXCEPT ![p] = "eval"]
  /\ now' = [now EXCEPT ![p] = ServerClock(p) - W[plan[p]]]
  /\ UNCHANGED <<keys, clock, plan, started, start, cost, hist>>

(* fixed_window.check reads the clock again.                               *)
ReadClock(p) ==
  /\ pc[p] = "stamp"
  /\ pc' = [pc EXCEPT ![p] = "eval"]
  /\ now' = [now EXCEPT ![p] = ServerClock(p)]
  /\ UNCHANGED <<keys, clock, plan, started, start, cost, hist>>

Finish(p) ==
  /\ pc' = [pc EXCEPT ![p] = "idle"]
  /\ plan' = [plan EXCEPT ![p] = NoPlan]
  /\ started' = [started EXCEPT ![p] = 0]
  /\ start' = [start EXCEPT ![p] = 0]
  /\ now' = [now EXCEPT ![p] = 0]
  /\ cost' = [cost EXCEPT ![p] = 0]

(* What INCRBY makes of the counter.                                       *)
Count(p) == counter[start[p]] + cost[p]

(* Slip: SET without the EXISTS test starts the count again on every call. *)
IncrementRestarts(p, s) ==
  /\ exists' = [exists EXCEPT ![s] = TRUE]
  /\ counter' = [counter EXCEPT ![s] = cost[p]]
  /\ deadline' = [deadline EXCEPT ![s] = clock + W[plan[p]]]
  /\ lives' = [lives EXCEPT ![s] = IF exists[s] THEN @ ELSE @ + 1]

(* Slip: the key gets half of the window as its TTL.                       *)
IncrementShortLived(p, s) ==
  /\ exists' = [exists EXCEPT ![s] = TRUE]
  /\ counter' = [counter EXCEPT ![s] = Count(p)]
  /\ deadline' = [deadline EXCEPT ![s] = IF exists[s] THEN @ ELSE clock + W[plan[p]] \div 2]
  /\ lives' = [lives EXCEPT ![s] = IF exists[s] THEN @ ELSE @ + 1]

(* SET key 0 EX window NX if the key is absent, then INCRBY.  The units of *)
(* a refused call stay counted.                                            *)
Increment(p, s) ==
  /\ exists' = [exists EXCEPT ![s] = TRUE]
  /\ counter' = [counter EXCEPT ![s] = Count(p)]
  /\ deadline' = [deadline EXCEPT ![s] = IF exists[s] THEN @ ELSE clock + W[plan[p]]]
  /\ lives' = [lives EXCEPT ![s] = IF exists[s] THEN @ ELSE @ + 1]

(* Slip: the start of the window for its end.                              *)
ResetAtStart(p) == StartOf(now[p], plan[p])

(* reset_at, on both verdicts, from the second reading; the instant that   *)
(* retry_after_ms ends is the same.                                        *)
Reset(p) == StartOf(now[p], plan[p]) + W[plan[p]]

Grant(p) ==
  /\ pc[p] = "eval"
  /\ Count(p) <= Limit[plan[p]]
  /\ Increment(p, start[p])
  /\ admitted' = [admitted EXCEPT ![start[p]][plan[p]] = @ + cost[p]]
  /\ ontime' = [ontime EXCEPT ![start[p]][plan[p]] =
                  IF Over(start[p], plan[p]) THEN @ ELSE @ + cost[p]]
  /\ Finish(p)
  /\ UNCHANGED clock

Refuse(p) ==
  /\ pc[p] = "eval"
  /\ Count(p) > Limit[plan[p]]
  /\ Increment(p, start[p])
  /\ Finish(p)
  /\ UNCHANGED <<clock, admitted, ontime>>

(* The call dies before its script reaches Redis.                          *)
Abandon(p) ==
  /\ pc[p] # "idle"
  /\ Finish(p)
  /\ UNCHANGED <<keys, clock, hist>>

(* A tick passes and keys expire; no call is under way longer than MaxLag. *)
Tick ==
  /\ clock < MaxClock
  /\ \A p \in Caller : pc[p] # "idle" => clock - started[p] < MaxLag
  /\ clock' = clock + 1
  /\ exists' = [s \in Start |-> exists[s] /\ clock + 1 < deadline[s]]
  /\ counter' = [s \in Start |-> IF clock + 1 < deadline[s] THEN counter[s] ELSE 0]
  /\ UNCHANGED <<deadline, call, hist>>

Next ==
  \/ \E p \in Caller :
       BuildKey(p) \/ ReadClock(p) \/ Grant(p) \/ Refuse(p) \/ Abandon(p)
  \/ Tick

Spec == Init /\ [][Next]_vars
-------------------------------------------------------------------------------
TypeOK ==
  /\ exists \in [Start -> BOOLEAN] /\ counter \in [Start -> Nat]
  /\ deadline \in [Start -> Nat] /\ clock \in 0 .. MaxClock
  /\ pc \in [Caller -> {"idle", "stamp", "eval"}]
  /\ plan \in [Caller -> Plan]
  /\ started \in [Caller -> Nat] /\ start \in [Caller -> Start]
  /\ now \in [Caller -> Nat] /\ cost \in [Caller -> 0 .. MaxCost]
  /\ lives \in [Start -> Nat] /\ admitted \in [Start -> [Plan -> Nat]]
  /\ ontime \in [Start -> [Plan -> Nat]]

(* Every life of a key grants a plan its limit at most.                    *)
BudgetPerLife ==
  \A s \in Start, l \in Plan : admitted[s][l] <= Limit[l] * lives[s]

CeilDiv(a, b) == (a + b - 1) \div b

(* What a plan grants in time stays within its limit, however late other   *)
(* calls are, if no plan with a shorter window shares the key; if one      *)
(* does, the limit is granted once for each of the short windows that the  *)
(* long one has room for.                                                  *)
InTimeWithinLimit ==
  \A s \in Start, l \in Plan :
    ontime[s][l] > 0 =>
      \E q \in Sharing(s) : ontime[s][l] <= Limit[l] * CeilDiv(W[l], W[q])

(* A key that was created is still there as long as the shortest of the    *)
(* windows that share it lasts.                                            *)
KeyOutlivesWindow ==
  \A s \in Start : lives[s] > 0 =>
    (exists[s] /\ lives[s] = 1) \/ \E q \in Sharing(s) : Over(s, q)

(* How often a key comes back: calls for the longest window that shares it *)
(* may create it as long as that lasts and they are late, and every life   *)
(* lasts a shortest window at least.  One plan alone, whose calls are late *)
(* by less than a window, skew included, at most doubles its budget.       *)
LivesBounded ==
  \A s \in Start : lives[s] > 0 =>
    \E q, l \in Sharing(s) : lives[s] <= CeilDiv(W[l] + MaxLag + MaxSkew, W[q])

(* The clock is read twice, so a call may be counted in one window and be  *)
(* told the reset of a later one, but never of an earlier one: a caller    *)
(* that waits for it finds the window it was counted in over.              *)
ResetNotEarly ==
  \A p \in Caller : pc[p] = "eval" => Reset(p) >= start[p] + W[plan[p]]

===============================================================================
