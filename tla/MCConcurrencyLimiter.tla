------------------------ MODULE MCConcurrencyLimiter -------------------------
(* Instances of ConcurrencyLimiter for TLC. *)
EXTENDS ConcurrencyLimiter, TLC

CONSTANTS p1, p2, p3

MCOneCaller    == {p1}
MCTwoCallers   == {p1, p2}
MCThreeCallers == {p1, p2, p3}
Symmetry       == Permutations(Caller)
==============================================================================
