---------------------------- MODULE MCFixedWindow -----------------------------
(* Instances of FixedWindow for TLC. *)
EXTENDS FixedWindow

CONSTANTS p1, p2

MCCallers == {p1, p2}
(* Two plans, the window of one is two windows of the other.               *)
MCPlans   == {"short", "long"}
MCWindows == [l \in MCPlans |-> IF l = "short" THEN 2 ELSE 4]
MCLimits  == [l \in MCPlans |-> IF l = "short" THEN 1 ELSE 2]
(* Two servers, one of them a tick ahead of Redis's clock.                 *)
MCSkewed  == [p \in MCCallers |-> IF p = p1 THEN 0 ELSE 1]
==============================================================================
