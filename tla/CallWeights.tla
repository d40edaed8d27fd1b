----------------------------- MODULE CallWeights -----------------------------
(***************************************************************************)
(* The weight of a set of calls.  A check carries a cost (the parameter    *)
(* `cost` of every strategy); what a set S of calls is worth together is   *)
(* the sum of f[p] over p in S.  The sum is written as the number of       *)
(* "units" the calls are made of, one pair <<p, i>> per unit of p's cost:  *)
(* that needs no recursion, and the facts about it follow from those of    *)
(* finite sets.                                                            *)
(***************************************************************************)
EXTENDS Integers, FiniteSets

(* The units of the calls in S, where call p weighs f[p].                  *)
Units(S, f) == UNION {{p} \X (1 .. f[p]) : p \in S}

(* The total weight of the calls in S.                                     *)
WeightOf(S, f) == Cardinality(Units(S, f))
==============================================================================
