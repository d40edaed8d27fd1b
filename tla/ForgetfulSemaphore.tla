------------------------- MODULE ForgetfulSemaphore --------------------------
(***************************************************************************)
(* What the concurrency limiter promises: a weighted counting semaphore    *)
(* that keeps no list of the calls it let in, only a sum, and that may     *)
(* forget the sum.  A call is counted from the moment it arrives until it  *)
(* ends, admitted or not.  What is forgotten while calls are under way is  *)
(* not counted any more; such a call still gives its units back when it    *)
(* ends, and the semaphore takes that for units of others.                 *)
(***************************************************************************)
EXTENDS CallWeights

CONSTANTS Caller,    \* the calls that may be under way at once
          Limit,     \* the plan's concurrency_limit
          MaxCost    \* the largest cost of a call

VARIABLES units,     \* units[p]: what call p counts for, 0 if it has ended
          inside,    \* the calls that were admitted and have not ended
          lost,      \* the calls under way that were forgotten
          wiping,    \* calls that found less than nothing taken, and wipe it
          credit,    \* units given back by calls that were forgotten
          leaked     \* units of calls that ended and gave nothing back

vars == <<units, inside, lost, wiping, credit, leaked>>

Open == {p \in Caller : units[p] > 0}

(* The sum: the calls that are not forgotten, and what the forgotten and   *)
(* the dead did to it.                                                     *)
Taken == WeightOf(Open \ lost, units) + leaked - credit

Init ==
  /\ units = [p \in Caller |-> 0] /\ inside = {} /\ lost = {} /\ wiping = {}
  /\ credit = 0 /\ leaked = 0

(* A call arrives, and is admitted exactly if it fits beside what is taken. *)
Arrive(p) ==
  \E c \in 1 .. MaxCost :
    /\ units[p] = 0 /\ p \notin wiping
    /\ units' = [units EXCEPT ![p] = c]
    /\ inside' = IF Taken + c <= Limit THEN inside \cup {p} ELSE inside
    /\ UNCHANGED <<lost, wiping, credit, leaked>>

(* The call gives its units back, to whomever they belong.                 *)
GiveBack(p) ==
  /\ credit' = credit + (IF p \in lost THEN units[p] ELSE 0)
  /\ wiping' = wiping \cup (IF p \in inside /\ Taken < units[p] THEN {p} ELSE {})
  /\ UNCHANGED leaked

(* It does not: it has died, or nobody calls release.                      *)
LeaveBehind(p) ==
  /\ leaked' = leaked + (IF p \in lost THEN 0 ELSE units[p])
  /\ UNCHANGED <<wiping, credit>>

(* A call ends.                                                            *)
End(p) ==
  /\ units[p] > 0
  /\ units' = [units EXCEPT ![p] = 0]
  /\ inside' = inside \ {p}
  /\ lost' = lost \ {p}
  /\ GiveBack(p) \/ LeaveBehind(p)

Forget ==
  /\ lost' = Open /\ credit' = 0 /\ leaked' = 0
  /\ UNCHANGED <<units, inside>>

(* The lease is over, at any time.                                         *)
Expire == Forget /\ UNCHANGED wiping

(* A call that found the sum below zero wipes it, whatever it is by now.   *)
Wipe(p) == p \in wiping /\ wiping' = wiping \ {p} /\ Forget

(* Or dies before.                                                         *)
Spare(p) ==
  /\ p \in wiping /\ wiping' = wiping \ {p}
  /\ UNCHANGED <<units, inside, lost, credit, leaked>>

Next ==
  \/ \E p \in Caller :
       Arrive(p) \/ End(p) \/ Wipe(p) \/ Spare(p)
  \/ Expire

Spec == Init /\ [][Next]_vars
==============================================================================
