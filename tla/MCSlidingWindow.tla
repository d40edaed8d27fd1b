--------------------------- MODULE MCSlidingWindow ----------------------------
(* Instances of SlidingWindow for TLC. *)
EXTENDS SlidingWindow, TLC

CONSTANTS p1, p2, p3

MCOneCaller    == {p1}
MCTwoCallers   == {p1, p2}
MCThreeCallers == {p1, p2, p3}

(* One plan, or two for the same resource: whoever may use both can ask    *)
(* for either, or the newer of them was pinned while calls are under way.  *)
MCOnePlan      == {"long"}
MCPlans        == {"short", "long"}
MCWindows      == [l \in Plan |-> IF l = "short" THEN 1 ELSE 2]
MCLimits       == [l \in Plan |-> IF l = "short" THEN 1 ELSE 2]

(* What the answers were and what was granted, in all, decides no step.    *)
View           == <<set, clock, call, collided, setter>>
Symmetry       == Permutations(Caller)
===============================================================================
