------------------------ MODULE CallWeightsTheorems --------------------------
(***************************************************************************)
(* What the limiters' proofs need to know of WeightOf: it is a natural     *)
(* number, adding or removing a call changes it by that call's weight, it  *)
(* grows with the set, and it looks only at the weights of S's members.    *)
(***************************************************************************)
EXTENDS CallWeights, FiniteSetTheorems, TLAPS

(* The units of one call are as many as the call weighs.                   *)
LEMMA UnitsOfOne ==
  ASSUME NEW p, NEW c \in Nat
  PROVE  /\ IsFiniteSet({p} \X (1 .. c))
         /\ Cardinality({p} \X (1 .. c)) = c
<1>1. IsFiniteSet({p}) /\ Cardinality({p}) = 1
  BY FS_Singleton
<1>2. IsFiniteSet(1 .. c) /\ Cardinality(1 .. c) = c
  BY FS_Interval
<1>3. Cardinality({p} \X (1 .. c)) = 1 * c
  BY <1>1, <1>2, FS_Product
<1>4. IsFiniteSet({p} \X (1 .. c))
  BY <1>1, <1>2, FS_Product
<1> QED  BY <1>3, <1>4

(* Finitely many calls are made of finitely many units.                    *)
LEMMA UnitsFinite ==
  ASSUME NEW S, IsFiniteSet(S), NEW f, NEW M \in Nat,
         \A p \in S : f[p] \in 0 .. M
  PROVE  IsFiniteSet(Units(S, f))
<1>0. IsFiniteSet(1 .. M)
  BY FS_Interval
<1>1. IsFiniteSet(S \X (1 .. M))
  BY <1>0, FS_Product
<1>2. Units(S, f) \in SUBSET (S \X (1 .. M))
  BY DEF Units
<1> QED  BY <1>1, <1>2, FS_Subset

(* The weight of finitely many calls is a natural number.                  *)
LEMMA WeightType ==
  ASSUME NEW S, IsFiniteSet(S), NEW f, NEW M \in Nat,
         \A p \in S : f[p] \in 0 .. M
  PROVE  WeightOf(S, f) \in Nat
BY UnitsFinite, FS_CardinalityType DEF WeightOf

(* No call weighs nothing.                                                 *)
LEMMA WeightEmpty == \A f : WeightOf({}, f) = 0
BY FS_EmptySet DEF WeightOf, Units

(* A call that joins adds its own weight.                                  *)
LEMMA WeightAdd ==
  ASSUME NEW S, IsFiniteSet(S), NEW f, NEW M \in Nat, NEW q, q \notin S,
         \A p \in S \cup {q} : f[p] \in 0 .. M
  PROVE  WeightOf(S \cup {q}, f) = WeightOf(S, f) + f[q]
<1> DEFINE U == Units(S, f)  V == {q} \X (1 .. f[q])
<1>0. f[q] \in Nat
  OBVIOUS
<1>1. IsFiniteSet(U)
  BY UnitsFinite
<1>2. IsFiniteSet(V) /\ Cardinality(V) = f[q]
  BY <1>0, UnitsOfOne
<1>3. Units(S \cup {q}, f) = U \cup V
  BY DEF Units
<1>4. U \cap V = {}
  BY DEF Units
<1>5. Cardinality(U) \in Nat
  BY <1>1, FS_CardinalityType
<1>6. Cardinality(U \cup V) = Cardinality(U) + Cardinality(V) - Cardinality(U \cap V)
  BY <1>1, <1>2, FS_Union
<1>7. Cardinality(U \cap V) = 0
  BY <1>4, FS_EmptySet
<1>8. Cardinality(U \cup V) = Cardinality(U) + f[q]
  <2> HIDE DEF U, V
  <2> QED  BY <1>0, <1>2, <1>5, <1>6, <1>7
<1> QED  BY <1>3, <1>8 DEF WeightOf

(* A call that leaves takes its own weight away.                           *)
LEMMA WeightRemove ==
  ASSUME NEW S, IsFiniteSet(S), NEW f, NEW M \in Nat, NEW q \in S,
         \A p \in S : f[p] \in 0 .. M
  PROVE  WeightOf(S \ {q}, f) = WeightOf(S, f) - f[q]
<1> DEFINE T == S \ {q}
<1>1. IsFiniteSet(T) /\ q \notin T /\ T \cup {q} = S
  BY FS_RemoveElement
<1>2. WeightOf(S, f) = WeightOf(T, f) + f[q]
  <2>1. WeightOf(T \cup {q}, f) = WeightOf(T, f) + f[q]
    BY <1>1, WeightAdd
  <2> QED  BY <1>1, <2>1
<1>3. WeightOf(T, f) \in Nat /\ f[q] \in Nat
  BY <1>1, WeightType
<1> HIDE DEF T
<1>4. WeightOf(T, f) = WeightOf(S, f) - f[q]
  BY <1>2, <1>3
<1> QED  BY <1>4 DEF T

(* Fewer calls weigh no more.                                              *)
LEMMA WeightMonotone ==
  ASSUME NEW S, IsFiniteSet(S), NEW f, NEW M \in Nat, NEW T \in SUBSET S,
         \A p \in S : f[p] \in 0 .. M
  PROVE  WeightOf(T, f) <= WeightOf(S, f)
<1>1. IsFiniteSet(Units(S, f))
  BY UnitsFinite
<1>2. Units(T, f) \in SUBSET Units(S, f)
  BY DEF Units
<1> QED  BY <1>1, <1>2, FS_Subset DEF WeightOf

(* Only the weights of S's own calls matter.                               *)
LEMMA WeightLocal ==
  ASSUME NEW S, NEW f, NEW g, \A p \in S : f[p] = g[p]
  PROVE  WeightOf(S, f) = WeightOf(S, g)
<1>1. {{p} \X (1 .. f[p]) : p \in S} = {{p} \X (1 .. g[p]) : p \in S}
  OBVIOUS
<1> QED  BY <1>1 DEF WeightOf, Units

(* Calls weigh no more than the heaviest of them, times their number.      *)
LEMMA WeightBound ==
  ASSUME NEW S, IsFiniteSet(S), NEW f, NEW M \in Nat,
         \A p \in S : f[p] \in 0 .. M
  PROVE  WeightOf(S, f) <= Cardinality(S) * M
<1>1. IsFiniteSet(1 .. M) /\ Cardinality(1 .. M) = M
  BY FS_Interval
<1>2. IsFiniteSet(S \X (1 .. M)) /\ Cardinality(S \X (1 .. M)) = Cardinality(S) * M
  BY <1>1, FS_Product
<1>3. Units(S, f) \in SUBSET (S \X (1 .. M))
  BY DEF Units
<1>4. Cardinality(Units(S, f)) <= Cardinality(S \X (1 .. M))
  BY <1>2, <1>3, FS_Subset
<1> QED  BY <1>2, <1>4 DEF WeightOf

(* Raising the weight of some calls by one raises the total by no more     *)
(* than there are of them.                                                 *)
LEMMA WeightRaise ==
  ASSUME NEW S, IsFiniteSet(S), NEW f, NEW g, NEW M \in Nat, NEW E,
         \A p \in S : f[p] \in 0 .. M,
         \A p \in S : g[p] = f[p] + (IF p \in E THEN 1 ELSE 0)
  PROVE  WeightOf(S, g) <= WeightOf(S, f) + Cardinality(S \cap E)
<1> DEFINE top == [p \in S \cap E |-> <<p, f[p] + 1>>]
           T   == {top[p] : p \in S \cap E}
<1>1. IsFiniteSet(S \cap E) /\ Cardinality(S \cap E) \in Nat
  BY FS_Intersection, FS_CardinalityType
<1>2. IsFiniteSet(T) /\ Cardinality(T) <= Cardinality(S \cap E)
  <2>1. top \in Surjection(S \cap E, T)
    BY DEF Surjection
  <2> QED  BY <1>1, <2>1, FS_Surjection
<1>3. Units(S, g) \subseteq Units(S, f) \cup T
  <2> SUFFICES ASSUME NEW p \in S, NEW i \in 1 .. g[p]
               PROVE  <<p, i>> \in Units(S, f) \cup T
    BY DEF Units
  <2>1. f[p] \in Nat /\ g[p] \in Nat
    OBVIOUS
  <2>2. CASE i \in 1 .. f[p]
    BY <2>2 DEF Units
  <2>3. CASE i \notin 1 .. f[p]
    <3>1. p \in E /\ i = f[p] + 1
      BY <2>1, <2>3
    <3>2. <<p, i>> = top[p]
      BY <3>1
    <3> QED  BY <3>1, <3>2
  <2> QED  BY <2>2, <2>3
<1> HIDE DEF T
<1>4. IsFiniteSet(Units(S, f))
  BY UnitsFinite
<1>5. /\ IsFiniteSet(Units(S, f) \cup T)
      /\ Cardinality(Units(S, f) \cup T)
           = Cardinality(Units(S, f)) + Cardinality(T) - Cardinality(Units(S, f) \cap T)
  BY <1>2, <1>4, FS_Union
<1>6. Cardinality(Units(S, f) \cap T) \in Nat
  BY <1>4, FS_Intersection, FS_CardinalityType
<1>7. /\ IsFiniteSet(Units(S, g))
      /\ Cardinality(Units(S, g)) <= Cardinality(Units(S, f) \cup T)
  BY <1>3, <1>5, FS_Subset
<1>8. /\ Cardinality(Units(S, g)) \in Nat /\ Cardinality(T) \in Nat
      /\ Cardinality(Units(S, f)) \in Nat /\ Cardinality(Units(S, f) \cup T) \in Nat
  BY <1>2, <1>4, <1>5, <1>7, FS_CardinalityType
<1> QED  BY <1>1, <1>2, <1>5, <1>6, <1>7, <1>8 DEF WeightOf
==============================================================================
