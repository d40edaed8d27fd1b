---------------------------- MODULE MCTokenBucket -----------------------------
(* Instances of TokenBucket for TLC. *)
EXTENDS TokenBucket

CONSTANTS p1, p2

MCCallers   == {p1, p2}
(* Two servers whose clocks are a tick apart from Redis's.                 *)
MCSkewed    == [p \in MCCallers |-> IF p = p1 THEN -1 ELSE 1]
==============================================================================
