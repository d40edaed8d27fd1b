----------------------------- MODULE IdealBucket -----------------------------
(***************************************************************************)
(* What the token bucket promises: one bucket that is never forgotten.  It *)
(* starts full and refills by `rate` units per instant up to Cap; a take   *)
(* of c units, stamped with the instant s its caller read off a clock, is  *)
(* granted iff c units are there.  The bucket believes the stamps, also    *)
(* those that run backwards: `rewind` sums how far they did.  Only a       *)
(* bucket that does not refill is renewed, now and then.                   *)
(***************************************************************************)
EXTENDS Integers

CONSTANTS Cap,       \* capacity, in units
          Rates,     \* what a bucket's refill per instant may be
          MaxCost,   \* largest cost of a take (bound)
          Epoch,     \* no stamp is earlier
          Stamp      \* the instants a take may be stamped with

BucketParameters ==
  /\ Cap \in Nat /\ Rates \in SUBSET Nat /\ MaxCost \in Nat
  /\ Epoch \in Int
  /\ Stamp \in SUBSET Int /\ \A s \in Stamp : s >= Epoch

VARIABLES rate,      \* units refilled per instant
          level,     \* units in the bucket when it was last looked at
          at,        \* the stamp of that look
          spent,     \* units granted so far
          rewind,    \* how far stamps moved `at` backwards, in all
          renewed    \* how often the bucket was filled up at once

vars == <<rate, level, at, spent, rewind, renewed>>

Least(a, b)   == IF a <= b THEN a ELSE b
Greatest(a, b) == IF a >= b THEN a ELSE b

Init ==
  /\ rate \in Rates /\ level = Cap /\ at = Epoch
  /\ spent = 0 /\ rewind = 0 /\ renewed = 0

(* The level at instant s: a stamp from before `at` refills nothing.       *)
LevelAt(s) == Least(Cap, level + Greatest(0, s - at) * rate)

Take(s, c) ==
  /\ LevelAt(s) >= c
  /\ level' = LevelAt(s) - c
  /\ spent' = spent + c
  /\ at' = s
  /\ rewind' = rewind + Greatest(0, at - s)
  /\ UNCHANGED <<rate, renewed>>

Refuse(s, c) ==
  /\ LevelAt(s) < c
  /\ level' = LevelAt(s)
  /\ at' = s
  /\ rewind' = rewind + Greatest(0, at - s)
  /\ UNCHANGED <<rate, spent, renewed>>

Renew ==
  /\ rate = 0
  /\ level' = Cap
  /\ renewed' = renewed + 1
  /\ UNCHANGED <<rate, at, spent, rewind>>

Next ==
  \/ \E s \in Stamp, c \in 1 .. MaxCost : Take(s, c) \/ Refuse(s, c)
  \/ Renew

Spec == Init /\ [][Next]_vars
-------------------------------------------------------------------------------
TypeOK ==
  /\ rate \in Rates /\ level \in 0 .. Cap /\ at \in Int
  /\ spent \in Nat /\ rewind \in Nat /\ renewed \in Nat

(* The units granted and those left never exceed a full bucket for each    *)
(* renewal, what was refilled since the epoch, and what rewound stamps     *)
(* refilled again.                                                         *)
Conservation ==
  spent + level <= Cap * (renewed + 1) + rate * (at - Epoch + rewind)
==============================================================================
