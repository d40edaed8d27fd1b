-------------------------- MODULE SlidingWindowProofs --------------------------
(***************************************************************************)
(* Proofs about SlidingWindow, for every set of callers and of plans, with *)
(* every limit, window and cost.                                           *)
(***************************************************************************)
EXTENDS SlidingWindow, CallWeightsTheorems, WellFoundedInduction

-------------------------------------------------------------------------------
(* Numbers and sets of them.                                               *)

LEMMA Numbers ==
  /\ IsFiniteSet(Caller) /\ Caller # {} /\ Plan # {} /\ NoPlan \in Plan
  /\ MS \in Nat /\ MS > 0 /\ MaxCost \in Nat /\ MaxLag \in Nat
  /\ MaxClock \in Nat /\ MaxClock > 0
<1>1. NoPlan \in Plan
  BY SlidingWindowAssumption DEF NoPlan
<1> QED  BY <1>1, SlidingWindowAssumption

LEMMA Windows ==
  ASSUME NEW l \in Plan
  PROVE  /\ Limit[l] \in Nat /\ W(l) \in Nat /\ W(l) > 0
         /\ KeyTtl(l) \in Nat /\ KeyTtl(l) = W(l) + MS
<1>1. Limit[l] \in Nat /\ WindowSec[l] \in Nat /\ WindowSec[l] > 0
  BY SlidingWindowAssumption
<1>2. WindowSec[l] * MS \in Nat /\ WindowSec[l] * MS > 0
  BY <1>1, Numbers
<1> QED  BY <1>1, <1>2, Numbers DEF W, KeyTtl

(* ZRANGE key 0 0 finds the lowest of the scores.                          *)
LEMMA LowestLeast ==
  ASSUME log \in SUBSET Score, log # {}
  PROVE  Lowest \in log /\ \A r \in log : Lowest <= r
<1>1. log \subseteq Nat
  BY Numbers DEF Score
<1>2. PICK s \in log : \A r \in log : <<r, s>> \notin OpToRel(<, Nat)
  BY <1>1, NatLessThanWellFounded, WFMin
<1>3. \A r \in log : s <= r
  <2> SUFFICES ASSUME NEW r \in log, ~(s <= r) PROVE FALSE
    OBVIOUS
  <2>1. <<r, s>> \in OpToRel(<, Nat)
    BY <1>1, <1>2 DEF OpToRel
  <2> QED  BY <1>2, <2>1
<1> QED  BY <1>2, <1>3 DEF Lowest

LEMMA LowestType ==
  ASSUME log \in SUBSET Score
  PROVE  Lowest \in Nat
<1>1. CASE log = {}
  BY <1>1 DEF Lowest
<1>2. CASE log # {}
  <2>1. log \subseteq Nat
    BY Numbers DEF Score
  <2> QED  BY <1>2, <2>1, LowestLeast
<1> QED  BY <1>1, <1>2

LEMMA LogFinite ==
  ASSUME NEW S \in SUBSET Score
  PROVE  IsFiniteSet(S) /\ Cardinality(S) \in Nat
<1>1. IsFiniteSet(Score)
  BY Numbers, FS_Interval DEF Score
<1> QED  BY <1>1, FS_Subset, FS_CardinalityType

(* The scores of an admitted call: as many as it costs, none later than    *)
(* its clock by as much.                                                   *)
LEMMA EntriesType ==
  ASSUME TypeOK, NEW p \in Caller
  PROVE  /\ Entries(p) \in SUBSET Score
         /\ Cardinality(Entries(p)) = cost[p]
         /\ \A s \in Entries(p) : s <= now[p] + cost[p] - 1
<1>1. /\ now[p] \in Nat /\ now[p] <= MaxClock
      /\ cost[p] \in Nat /\ cost[p] <= MaxCost
  BY Numbers DEF TypeOK
<1>2. Entries(p) \in SUBSET Score /\ \A s \in Entries(p) : s <= now[p] + cost[p] - 1
  BY <1>1, Numbers DEF Entries, Score
<1>3. Cardinality(Entries(p)) = cost[p]
  <2>1. PICK a \in Int, b \in Int : a = now[p] /\ b = now[p] + cost[p] - 1
    BY <1>1
  <2>2. Cardinality(a .. b) = IF a > b THEN 0 ELSE b - a + 1
    BY FS_Interval
  <2>3. Entries(p) = a .. b
    BY <2>1 DEF Entries
  <2>4. IF a > b THEN cost[p] = 0 ELSE b - a + 1 = cost[p]
    BY <1>1, <2>1
  <2> QED  BY <2>2, <2>3, <2>4
<1> QED  BY <1>2, <1>3

(* The division of the window bound rounds up.                             *)
LEMMA RoundUp ==
  ASSUME NEW a \in Nat, NEW b \in Nat, b > 0
  PROVE  CeilDiv(a, b) \in Nat /\ CeilDiv(a, b) * b >= a
<1> DEFINE q == (a + b - 1) \div b
           r == (a + b - 1) % b
<1>1. q \in Int /\ r \in 0 .. (b - 1) /\ a + b - 1 = b * q + r
  OBVIOUS
<1>2. q \in Nat
  <2> SUFFICES ASSUME q <= -1 PROVE FALSE
    BY <1>1
  <2>1. b * q <= b * (-1) /\ b * q \in Int
    BY <1>1
  <2> QED  BY <1>1, <2>1
<1>3. b * q = q * b /\ b * q \in Int
  BY <1>1
<1>4. b * q >= a
  BY <1>1, <1>3
<1> HIDE DEF q, r
<1> QED  BY <1>2, <1>3, <1>4 DEF CeilDiv, q

(* If no stretch of w ticks holds more than M of the numbers in S, k of    *)
(* them in a row hold no more than k times as many.  By induction on k,    *)
(* as the absence of a least counterexample.                               *)
LEMMA Tiling ==
  ASSUME NEW S, IsFiniteSet(S), S \subseteq Int,
         NEW w \in Nat, NEW M \in Nat, NEW t \in Int,
         \A u \in Int : Cardinality({s \in S : u - w < s /\ s <= u}) <= M
  PROVE  \A k \in Nat : Cardinality({s \in S : t - k * w < s /\ s <= t}) <= M * k
<1> DEFINE Stretch(u) == {s \in S : u - w < s /\ s <= u}
           Row(k)     == {s \in S : t - k * w < s /\ s <= t}
           Bad        == {k \in Nat : ~(Cardinality(Row(k)) <= M * k)}
<1>0. \A u \in Int : Cardinality(Stretch(u)) <= M
  OBVIOUS
<1>1. /\ \A k \in Nat : IsFiniteSet(Row(k)) /\ Cardinality(Row(k)) \in Nat
      /\ \A u \in Int : IsFiniteSet(Stretch(u)) /\ Cardinality(Stretch(u)) \in Nat
  <2>1. \A k \in Nat : Row(k) \in SUBSET S
    OBVIOUS
  <2>2. \A u \in Int : Stretch(u) \in SUBSET S
    OBVIOUS
  <2> HIDE DEF Row, Stretch
  <2> QED  BY <2>1, <2>2, FS_Subset, FS_CardinalityType
<1>2. 0 \notin Bad
  <2>1. Row(0) = {}
    <3>1. 0 * w = 0
      OBVIOUS
    <3> SUFFICES ASSUME NEW s \in S, t - 0 * w < s, s <= t PROVE FALSE
      OBVIOUS
    <3> QED  BY <3>1
  <2> HIDE DEF Row
  <2> QED  BY <2>1, FS_EmptySet
<1>3. ASSUME NEW k \in Nat, k \notin Bad PROVE k + 1 \notin Bad
  <2>1. PICK u \in Int : u = t - k * w
    OBVIOUS
  <2>2. (k + 1) * w = k * w + w /\ M * (k + 1) = M * k + M
        /\ M * k \in Nat /\ M * (k + 1) \in Nat /\ k * w \in Nat
    OBVIOUS
  <2>3. Row(k + 1) \in SUBSET (Row(k) \cup Stretch(u))
    <3> SUFFICES ASSUME NEW s \in S, t - (k + 1) * w < s, s <= t
                 PROVE  t - k * w < s \/ (u - w < s /\ s <= u)
      OBVIOUS
    <3> QED  BY <2>1, <2>2
  <2>4. Cardinality(Row(k)) <= M * k /\ Cardinality(Stretch(u)) <= M
    BY <1>0, <1>3
  <2> HIDE DEF Row, Stretch
  <2>5. /\ IsFiniteSet(Row(k) \cup Stretch(u))
        /\ Cardinality(Row(k) \cup Stretch(u))
             = Cardinality(Row(k)) + Cardinality(Stretch(u))
               - Cardinality(Row(k) \cap Stretch(u))
        /\ Cardinality(Row(k) \cap Stretch(u)) \in Nat
        /\ Cardinality(Row(k) \cup Stretch(u)) \in Nat
    <3>1. IsFiniteSet(Row(k)) /\ IsFiniteSet(Stretch(u))
      BY <1>1
    <3> QED  BY <3>1, FS_Union, FS_Intersection, FS_CardinalityType
  <2>6. Cardinality(Row(k + 1)) <= Cardinality(Row(k) \cup Stretch(u))
        /\ Cardinality(Row(k + 1)) \in Nat
    BY <1>1, <2>3, <2>5, FS_Subset
  <2>7. Cardinality(Row(k)) \in Nat /\ Cardinality(Stretch(u)) \in Nat
    BY <1>1
  <2>8. Cardinality(Row(k + 1)) <= M * (k + 1)
    BY <2>2, <2>4, <2>5, <2>6, <2>7
  <2> QED  BY <2>8
<1>4. Bad = {}
  <2> SUFFICES ASSUME Bad # {} PROVE FALSE
    OBVIOUS
  <2>1. Bad \subseteq Nat
    OBVIOUS
  <2> HIDE DEF Bad
  <2>2. PICK n \in Bad : \A m \in Bad : <<m, n>> \notin OpToRel(<, Nat)
    BY <2>1, NatLessThanWellFounded, WFMin
  <2>3. n \in Nat /\ n # 0
    BY <1>2, <2>1
  <2>4. n - 1 \in Nat /\ n = (n - 1) + 1
    BY <2>3
  <2>5. n - 1 \in Bad
    BY <1>3, <2>4
  <2>6. <<n - 1, n>> \in OpToRel(<, Nat)
    BY <2>3, <2>4 DEF OpToRel
  <2> QED  BY <2>2, <2>5, <2>6
<1> QED  BY <1>4

-------------------------------------------------------------------------------
(* Types.                                                                  *)

LEMMA LeaveType ==
  ASSUME TypeOK, NEW p \in Caller, Leave(p), UNCHANGED clock
  PROVE  /\ pc' \in [Caller -> {"idle", "trim", "card", "add", "refuse"}]
         /\ plan' \in [Caller -> Plan]
         /\ now' \in [Caller -> 0 .. clock'] /\ cost' \in [Caller -> 0 .. MaxCost]
<1>1. clock \in Nat
  BY Numbers DEF TypeOK
<1> QED  BY <1>1, Numbers DEF TypeOK, Leave, Goto

LEMMA TypeStep ==
  ASSUME TypeOK, [Next]_vars
  PROVE  TypeOK'
<1>1. ASSUME NEW p \in Caller, Start(p) PROVE TypeOK'
  BY <1>1, Numbers DEF Start, Goto, TypeOK, set, hist
<1>2. ASSUME NEW p \in Caller, Trim(p) PROVE TypeOK'
  BY <1>2 DEF Trim, Inside, Goto, TypeOK, hist
<1>3. ASSUME NEW p \in Caller, Card(p) PROVE TypeOK'
  BY <1>3 DEF Card, Goto, TypeOK, set, hist
<1>4. ASSUME NEW p \in Caller, Add(p) PROVE TypeOK'
  <2>1. log' \in SUBSET Score /\ deadline' \in Nat /\ clock' \in 1 .. MaxClock
    <3>1. plan[p] \in Plan /\ KeyTtl(plan[p]) \in Nat
      BY Windows DEF TypeOK
    <3>2. clock + KeyTtl(plan[p]) \in Nat
      BY <3>1, Numbers DEF TypeOK
    <3> QED  BY <1>4, <3>2, EntriesType DEF Add, TypeOK
  <2>2. granted' \in [Plan -> [Score -> Nat]] /\ answer' \in [allowed : BOOLEAN, plan : Plan, cost : Nat, ready : Nat]
    BY <1>4, Numbers DEF Add, Admitted, TypeOK
  <2>3. collided' \in Nat
    <3>1. log \cap Entries(p) \in SUBSET Score
      BY EntriesType
    <3>2. Cardinality(log \cap Entries(p)) \in Nat
      BY <3>1, LogFinite
    <3> QED  BY <1>4, <3>2 DEF Add, TypeOK
  <2> QED  BY <1>4, <2>1, <2>2, <2>3, LeaveType DEF Add, TypeOK
<1>5. ASSUME NEW p \in Caller, Refuse(p) PROVE TypeOK'
  <2>1. Lowest \in Nat /\ now[p] \in Nat /\ cost[p] \in Nat
    BY LowestType, Numbers DEF TypeOK
  <2>2. plan[p] \in Plan /\ W(plan[p]) \in Nat
    BY Windows DEF TypeOK
  <2>3. now[p] + RetryAfter(p, Lowest) \in Nat
    BY <2>1, <2>2, Numbers DEF RetryAfter, Greatest
  <2>4. answer' \in [allowed : BOOLEAN, plan : Plan, cost : Nat, ready : Nat]
    BY <1>5, <2>1, <2>2, <2>3 DEF Refuse
  <2> QED  BY <1>5, <2>4, LeaveType DEF Refuse, TypeOK, set, hist
<1>6. ASSUME NEW p \in Caller, Abandon(p) PROVE TypeOK'
  BY <1>6, LeaveType DEF Abandon, TypeOK, set, hist
<1>7. CASE Tick
  BY <1>7, Numbers DEF Tick, TypeOK, call, hist
<1>8. CASE UNCHANGED vars
  BY <1>8 DEF vars, set, call, hist, TypeOK
<1> QED  BY <1>1, <1>2, <1>3, <1>4, <1>5, <1>6, <1>7, <1>8 DEF Next

-------------------------------------------------------------------------------
(* The race.                                                               *)

(* The weight of the calls that are about to add their entries, when p     *)
(* joins them or leaves them, and when nobody does.                        *)
LEMMA PassedWeight ==
  ASSUME TypeOK
  PROVE  /\ IsFiniteSet(Passed) /\ WeightOf(Passed, cost) \in Nat
         /\ \A p \in Caller : cost[p] \in 0 .. MaxCost
<1>1. IsFiniteSet(Passed)
  BY Numbers, FS_Subset DEF Passed
<1>2. \A p \in Caller : cost[p] \in 0 .. MaxCost
  BY DEF TypeOK
<1>3. \A p \in Passed : cost[p] \in 0 .. MaxCost
  BY <1>2 DEF Passed
<1>4. WeightOf(Passed, cost) \in Nat
  BY <1>1, <1>3, Numbers, WeightType
<1> QED  BY <1>1, <1>2, <1>4

LEMMA PassedLeaves ==
  ASSUME TypeOK, NEW p \in Caller, Leave(p)
  PROVE  /\ pc[p] = "add" => WeightOf(Passed', cost') = WeightOf(Passed, cost) - cost[p]
         /\ pc[p] # "add" => WeightOf(Passed', cost') = WeightOf(Passed, cost)
<1>1. Passed' = Passed \ {p}
  BY DEF Passed, Leave, Goto, TypeOK
<1>2. \A q \in Passed' : cost'[q] = cost[q]
  BY <1>1 DEF Leave, TypeOK, Passed
<1>3. WeightOf(Passed', cost') = WeightOf(Passed \ {p}, cost)
  BY <1>1, <1>2, WeightLocal
<1>4. CASE pc[p] = "add"
  <2>1. p \in Passed /\ \A q \in Passed : cost[q] \in 0 .. MaxCost
    BY <1>4, PassedWeight DEF Passed
  <2>2. WeightOf(Passed \ {p}, cost) = WeightOf(Passed, cost) - cost[p]
    BY <2>1, PassedWeight, Numbers, WeightRemove
  <2> QED  BY <1>3, <1>4, <2>2
<1>5. CASE pc[p] # "add"
  <2>1. Passed \ {p} = Passed
    BY <1>5 DEF Passed
  <2> QED  BY <1>3, <1>5, <2>1
<1> QED  BY <1>4, <1>5

(* What any of the other callers may have under way.                       *)
LEMMA OthersWeigh ==
  ASSUME TypeOK, NEW p \in Caller, NEW T \in SUBSET (Caller \ {p})
  PROVE  /\ IsFiniteSet(T) /\ WeightOf(T, cost) \in Nat
         /\ WeightOf(T, cost) <= Overshoot /\ Overshoot \in Int
<1>1. \A r \in T : cost[r] \in 0 .. MaxCost
  BY PassedWeight
<1>2. /\ IsFiniteSet(T) /\ Cardinality(T) \in Nat /\ Cardinality(Caller) \in Nat
      /\ Cardinality(T) <= Cardinality(Caller) - 1
  <2>1. /\ IsFiniteSet(Caller \ {p}) /\ Cardinality(Caller) \in Nat
        /\ Cardinality(Caller \ {p}) = Cardinality(Caller) - 1
    BY Numbers, FS_RemoveElement, FS_CardinalityType
  <2> QED  BY <2>1, FS_Subset, FS_CardinalityType
<1>3. WeightOf(T, cost) <= Cardinality(T) * MaxCost /\ WeightOf(T, cost) \in Nat
  BY <1>1, <1>2, Numbers, WeightBound, WeightType
<1>4. Cardinality(T) * MaxCost <= Overshoot /\ Overshoot \in Int
      /\ Cardinality(T) * MaxCost \in Int
  <2> DEFINE a == Cardinality(T)
             b == Cardinality(Caller) - 1
  <2>1. a \in Int /\ b \in Int /\ a <= b
    BY <1>2
  <2> HIDE DEF a, b
  <2>2. a * MaxCost <= b * MaxCost /\ a * MaxCost \in Int /\ b * MaxCost \in Int
    BY <2>1, Numbers
  <2> QED  BY <2>2 DEF a, b, Overshoot
<1> QED  BY <1>2, <1>3, <1>4

(* A call that passes the test finds every other caller at most before its *)
(* Add, with a call of its own.                                            *)
LEMMA CardWithinRace ==
  ASSUME TypeOK, LogWithinRace, NEW p \in Caller, Card(p)
  PROVE  LogWithinRace'
<1>1. log' = log /\ cost' = cost
  BY DEF Card, set
<1>2. Cardinality(log) \in Nat
  BY LogFinite DEF TypeOK
<1>3. CASE Fits(p)
  <2>1. Passed' = Passed \cup {p} /\ p \notin Passed
    BY <1>3 DEF Card, Goto, Passed, TypeOK
  <2>2. \A q \in Passed \cup {p} : cost[q] \in 0 .. MaxCost
    BY <2>1, PassedWeight DEF Passed
  <2>3. WeightOf(Passed', cost') = WeightOf(Passed, cost) + cost[p]
    BY <1>1, <2>1, <2>2, PassedWeight, Numbers, WeightAdd
  <2>4. WeightOf(Passed, cost) <= Overshoot /\ Overshoot \in Int
    BY <2>1, OthersWeigh DEF Passed
  <2>5. /\ Cardinality(log) + cost[p] <= Limit[plan[p]] /\ cost[p] \in Nat
        /\ plan[p] \in Plan /\ Limit[plan[p]] \in Nat
    BY <1>3, PassedWeight, Numbers, Windows DEF Fits, TypeOK
  <2>6. Cardinality(log) + (WeightOf(Passed, cost) + cost[p]) <= Limit[plan[p]] + Overshoot
    BY <1>2, <2>4, <2>5, PassedWeight, Numbers
  <2>7. Overshoot' = Overshoot
    BY DEF Overshoot
  <2> QED  BY <1>1, <2>3, <2>5, <2>6, <2>7 DEF LogWithinRace
<1>4. CASE ~Fits(p)
  <2>1. Passed' = Passed
    BY <1>4 DEF Card, Goto, Passed, TypeOK
  <2> QED  BY <1>1, <2>1 DEF LogWithinRace, Overshoot
<1> QED  BY <1>3, <1>4

LEMMA Sizes ==
  ASSUME TypeOK
  PROVE  /\ Cardinality(log) \in Nat /\ WeightOf(Passed, cost) \in Nat
         /\ Overshoot \in Int /\ \A l \in Plan : Limit[l] \in Nat
<1>1. Cardinality(Caller) \in Nat
  BY Numbers, FS_CardinalityType
<1>2. (Cardinality(Caller) - 1) * MaxCost \in Int
  BY <1>1, Numbers
<1> QED  BY <1>2, LogFinite, PassedWeight, Windows DEF TypeOK, Overshoot

(* Entries that go, while the calls that passed stay or get fewer, take    *)
(* nothing closer to the bound.                                            *)
LEMMA FewerWithinRace ==
  ASSUME TypeOK, LogWithinRace, log' \in SUBSET log,
         WeightOf(Passed', cost') \in Nat,
         WeightOf(Passed', cost') <= WeightOf(Passed, cost)
  PROVE  LogWithinRace'
<1>1. IsFiniteSet(log)
  BY LogFinite DEF TypeOK
<1>2. Cardinality(log') \in Nat /\ Cardinality(log') <= Cardinality(log)
  BY <1>1, FS_Subset, FS_CardinalityType
<1>3. Overshoot' = Overshoot
  BY DEF Overshoot
<1>4. PICK l \in Plan : Cardinality(log) + WeightOf(Passed, cost) <= Limit[l] + Overshoot
  BY DEF LogWithinRace
<1>5. Cardinality(log') + WeightOf(Passed', cost') <= Limit[l] + Overshoot
  BY <1>2, <1>4, Sizes
<1> QED  BY <1>3, <1>5 DEF LogWithinRace

(* A call that adds its entries stops being about to.                      *)
LEMMA AddWithinRace ==
  ASSUME TypeOK, LogWithinRace, NEW p \in Caller, Add(p)
  PROVE  LogWithinRace'
<1>1. log' = log \cup Entries(p) /\ pc[p] = "add" /\ Leave(p)
  BY DEF Add
<1>2. WeightOf(Passed', cost') = WeightOf(Passed, cost) - cost[p]
  BY <1>1, PassedLeaves
<1>3. Cardinality(log') <= Cardinality(log) + cost[p] /\ Cardinality(log') \in Nat
  <2>1. /\ IsFiniteSet(log) /\ IsFiniteSet(Entries(p)) /\ Cardinality(Entries(p)) = cost[p]
        /\ log \cap Entries(p) \in SUBSET Score
    BY EntriesType, LogFinite DEF TypeOK
  <2>2. Cardinality(log \cap Entries(p)) \in Nat
    BY <2>1, LogFinite
  <2>3. /\ IsFiniteSet(log \cup Entries(p))
        /\ Cardinality(log \cup Entries(p))
             = Cardinality(log) + Cardinality(Entries(p)) - Cardinality(log \cap Entries(p))
    BY <2>1, FS_Union
  <2>4. Cardinality(log \cup Entries(p)) \in Nat
    BY <2>3, FS_CardinalityType
  <2>5. cost[p] \in Nat
    BY PassedWeight, Numbers
  <2> QED  BY <1>1, <2>1, <2>2, <2>3, <2>4, <2>5, Sizes
<1>4. cost[p] \in Nat
  BY PassedWeight, Numbers
<1>5. PICK l \in Plan : Cardinality(log) + WeightOf(Passed, cost) <= Limit[l] + Overshoot
  BY DEF LogWithinRace
<1>6. Cardinality(log') + WeightOf(Passed', cost') <= Limit[l] + Overshoot
  BY <1>2, <1>3, <1>4, <1>5, Sizes
<1>7. Overshoot' = Overshoot
  BY DEF Overshoot
<1> QED  BY <1>6, <1>7 DEF LogWithinRace

LEMMA RaceStep ==
  ASSUME TypeOK, LogWithinRace, [Next]_vars
  PROVE  LogWithinRace'
<1>1. ASSUME NEW p \in Caller, Start(p) PROVE LogWithinRace'
  <2>1. Passed' = Passed /\ \A q \in Passed : cost'[q] = cost[q]
    BY <1>1 DEF Start, Goto, Passed, TypeOK
  <2>2. WeightOf(Passed', cost') = WeightOf(Passed, cost)
    BY <2>1, WeightLocal
  <2> QED  BY <1>1, <2>2, Sizes, FewerWithinRace DEF Start, set
<1>2. ASSUME NEW p \in Caller, Trim(p) PROVE LogWithinRace'
  <2>1. Passed' = Passed /\ cost' = cost
    BY <1>2 DEF Trim, Goto, Passed, TypeOK
  <2> QED  BY <1>2, <2>1, Sizes, FewerWithinRace DEF Trim, Inside
<1>3. ASSUME NEW p \in Caller, Card(p) PROVE LogWithinRace'
  BY <1>3, CardWithinRace
<1>4. ASSUME NEW p \in Caller, Add(p) PROVE LogWithinRace'
  BY <1>4, AddWithinRace
<1>5. ASSUME NEW p \in Caller, Refuse(p) PROVE LogWithinRace'
  <2>1. WeightOf(Passed', cost') = WeightOf(Passed, cost) /\ log' = log
    BY <1>5, PassedLeaves DEF Refuse, set
  <2> QED  BY <2>1, Sizes, FewerWithinRace
<1>6. ASSUME NEW p \in Caller, Abandon(p) PROVE LogWithinRace'
  <2>1. WeightOf(Passed', cost') <= WeightOf(Passed, cost)
        /\ WeightOf(Passed', cost') \in Nat /\ log' = log
    <3>1. Leave(p) /\ UNCHANGED clock /\ log' = log
      BY <1>6 DEF Abandon, set
    <3>2. cost[p] \in Nat
      BY PassedWeight, Numbers
    <3>3. pc[p] = "add" => WeightOf(Passed, cost) >= cost[p]
      <4> SUFFICES ASSUME pc[p] = "add" PROVE WeightOf(Passed, cost) >= cost[p]
        OBVIOUS
      <4>1. p \in Passed /\ \A q \in Passed : cost[q] \in 0 .. MaxCost
        BY PassedWeight DEF Passed
      <4>2. WeightOf(Passed \ {p}, cost) = WeightOf(Passed, cost) - cost[p]
        BY <4>1, PassedWeight, Numbers, WeightRemove
      <4>3. IsFiniteSet(Passed \ {p}) /\ \A q \in Passed \ {p} : cost[q] \in 0 .. MaxCost
        BY <4>1, PassedWeight, FS_Subset
      <4>4. WeightOf(Passed \ {p}, cost) \in Nat
        BY <4>3, Numbers, WeightType
      <4> QED  BY <3>2, <4>2, <4>4, Sizes
    <3> QED  BY <3>1, <3>2, <3>3, PassedLeaves, Sizes
  <2> QED  BY <2>1, FewerWithinRace
<1>7. CASE Tick
  <2>1. log' \in SUBSET log /\ Passed' = Passed /\ cost' = cost
    BY <1>7 DEF Tick, call, Passed
  <2> QED  BY <2>1, Sizes, FewerWithinRace
<1>8. CASE UNCHANGED vars
  BY <1>8 DEF vars, set, call, LogWithinRace, Passed, Overshoot
<1> QED  BY <1>1, <1>2, <1>3, <1>4, <1>5, <1>6, <1>7, <1>8 DEF Next

LEMMA InitHolds ==
  ASSUME Init
  PROVE  TypeOK /\ LogWithinRace
<1>1. TypeOK
  BY Numbers DEF Init, Admitted, TypeOK
<1>2. Cardinality(log) = 0 /\ Passed = {}
  BY FS_EmptySet DEF Init, Passed
<1>3. WeightOf(Passed, cost) = 0
  BY <1>2, WeightEmpty
<1>4. Overshoot >= 0 /\ Overshoot \in Int
  <2>1. Cardinality(Caller) \in Nat /\ Cardinality(Caller) # 0
    BY Numbers, FS_CardinalityType, FS_EmptySet
  <2>2. Cardinality(Caller) - 1 \in Nat
    BY <2>1
  <2>3. (Cardinality(Caller) - 1) * MaxCost \in Nat
    BY <2>2, Numbers
  <2> QED  BY <2>3 DEF Overshoot
<1>5. LogWithinRace
  BY <1>2, <1>3, <1>4, Numbers, Windows DEF LogWithinRace
<1> QED  BY <1>1, <1>5

LEMMA Invariance == Spec => [](TypeOK /\ LogWithinRace)
<1>1. TypeOK /\ LogWithinRace /\ [Next]_vars => (TypeOK /\ LogWithinRace)'
  BY TypeStep, RaceStep
<1> QED  BY <1>1, InitHolds, PTL DEF Spec

(* However the calls interleave, the model never leaves its types.         *)
THEOREM TypeCorrect == Spec => []TypeOK
BY Invariance, PTL

(* The commands of check() are not one transaction, yet the entries in the *)
(* sorted set, with those about to be added, go over the limit by no more  *)
(* than one call of each other caller: for every set of callers and limit. *)
THEOREM RaceSafe == Spec => []LogWithinRace
BY Invariance, PTL

-------------------------------------------------------------------------------
(* The expiry of the key.                                                  *)

(* No ZADD pushed the deadline further than a KeyTtl away, that of the     *)
(* plan it was made under, and none wrote a score beyond its own clock and *)
(* cost.                                                                   *)
RecentOf(l) ==
  /\ deadline <= clock + KeyTtl(l)
  /\ \A s \in log : s <= deadline - KeyTtl(l) + MaxCost - 1

Recent == RecentOf(setter)

LEMMA RecentStep ==
  ASSUME TypeOK, Recent, [Next]_vars
  PROVE  Recent'
<1>0. /\ clock \in Nat /\ deadline \in Nat /\ log \subseteq Nat /\ MaxCost \in Nat
      /\ \A l \in Plan : KeyTtl(l) \in Nat
  <2>1. \A l \in Plan : KeyTtl(l) \in Nat
    BY Windows
  <2> QED  BY <2>1, Numbers DEF TypeOK, Score
<1>1. PICK l \in Plan : l = setter /\ RecentOf(l)
  BY DEF Recent, TypeOK
<1>2. CASE \E p \in Caller : Add(p)
  <2>1. PICK p \in Caller : Add(p)
    BY <1>2
  <2>0. PICK q \in Plan : q = plan[p]
    BY DEF TypeOK
  <2>2. /\ log' = log \cup Entries(p) /\ deadline' = clock + KeyTtl(q) /\ clock' = clock
        /\ setter' = q
    BY <2>0, <2>1 DEF Add
  <2>3. /\ now[p] \in Nat /\ now[p] <= clock /\ cost[p] \in Nat /\ cost[p] <= MaxCost
        /\ KeyTtl(q) \in Nat
    BY <1>0 DEF TypeOK
  <2>4. \A s \in Entries(p) : s <= deadline' - KeyTtl(q) + MaxCost - 1
    <3> TAKE s \in Entries(p)
    <3>1. s \in Nat /\ s <= now[p] + cost[p] - 1
      BY <2>3 DEF Entries
    <3> QED  BY <1>0, <2>2, <2>3, <3>1
  <2>5. \A s \in log : s <= deadline' - KeyTtl(q) + MaxCost - 1
    <3> TAKE s \in log
    <3>1. /\ s \in Nat /\ s <= deadline - KeyTtl(l) + MaxCost - 1
          /\ deadline <= clock + KeyTtl(l) /\ KeyTtl(l) \in Nat
      BY <1>0, <1>1 DEF RecentOf
    <3> QED  BY <1>0, <2>2, <2>3, <3>1
  <2>6. deadline' <= clock' + KeyTtl(q)
    BY <1>0, <2>2, <2>3
  <2>7. RecentOf(q)'
    BY <2>2, <2>4, <2>5, <2>6 DEF RecentOf, KeyTtl, W
  <2> QED  BY <2>2, <2>7 DEF Recent, RecentOf, KeyTtl, W
<1>3. CASE ~(\E p \in Caller : Add(p))
  <2>1. deadline' = deadline /\ log' \subseteq log /\ setter' = setter
    BY <1>3 DEF Next, Start, Trim, Inside, Card, Refuse, Abandon, Tick, vars, set, hist
  <2>2. clock' = clock \/ clock' = clock + 1
    BY <1>3 DEF Next, Start, Trim, Card, Refuse, Abandon, Tick, vars, set
  <2>3. deadline' <= clock' + KeyTtl(l)
    <3>1. deadline <= clock + KeyTtl(l) /\ deadline' = deadline
      BY <1>1, <2>1 DEF RecentOf
    <3>2. deadline \in Int /\ clock \in Int /\ KeyTtl(l) \in Int
      BY <1>0
    <3> QED  BY <2>2, <3>1, <3>2
  <2>4. RecentOf(l)'
    BY <1>1, <2>1, <2>3 DEF RecentOf, KeyTtl, W
  <2> QED  BY <1>1, <2>1, <2>4 DEF Recent, RecentOf, KeyTtl, W
<1> QED  BY <1>2, <1>3

(* A call is done a second after it read its clock, less a tick per unit.  *)
PromptCalls == MaxLag + MaxCost <= MS + 1

(* What goes in a step had left the window of l, for every call.           *)
LeftWindow(l) ==
  \A s \in log \ log' :
    /\ s <= clock' - W(l)
    /\ \A p \in Caller : pc[p] # "idle" => s <= now[p] - W(l)

LEMMA TickForgetsNothing ==
  ASSUME PromptCalls, TypeOK, Recent, Tick
  PROVE  LeftWindow(setter)
<1>1. /\ clock' = clock + 1
      /\ \A p \in Caller : pc[p] # "idle" => clock - now[p] < MaxLag
  BY DEF Tick
<1>2. PICK l \in Plan : l = setter /\ RecentOf(l)
  BY DEF Recent, TypeOK
<1>3. W(l) \in Nat /\ KeyTtl(l) = W(l) + MS
  BY Windows
<1>4. ASSUME NEW s \in log, s \notin log'
      PROVE  /\ s <= clock' - W(l)
             /\ \A p \in Caller : pc[p] # "idle" => s <= now[p] - W(l)
  <2>1. ~(clock + 1 < deadline)
    BY <1>4 DEF Tick
  <2>2. clock \in Nat /\ deadline \in Nat /\ s \in Nat
    BY Numbers DEF TypeOK, Score
  <2>3. s <= deadline - KeyTtl(l) + MaxCost - 1
    BY <1>2 DEF RecentOf
  <2>4. s <= clock - W(l) - MS + MaxCost
    BY <1>3, <2>1, <2>2, <2>3, Numbers
  <2>5. s <= clock' - W(l)
    BY <1>1, <1>3, <2>2, <2>4, Numbers DEF PromptCalls
  <2>6. ASSUME NEW p \in Caller, pc[p] # "idle" PROVE s <= now[p] - W(l)
    <3>1. now[p] \in Nat /\ clock - now[p] < MaxLag
      BY <1>1, <2>6, <2>2 DEF TypeOK
    <3> QED  BY <1>3, <2>2, <2>4, <3>1, Numbers DEF PromptCalls
  <2> QED  BY <2>5, <2>6
<1> QED  BY <1>2, <1>4 DEF LeftWindow

LEMMA RecentInvariant == Spec => []Recent
<1>1. Init => Recent
  <2> SUFFICES ASSUME Init PROVE Recent
    OBVIOUS
  <2>1. RecentOf(NoPlan)
    BY Numbers, Windows DEF Init, RecentOf
  <2> QED  BY <2>1 DEF Init, Recent
<1>2. Recent /\ TypeOK /\ [Next]_vars => Recent'
  BY RecentStep
<1> QED  BY <1>1, <1>2, TypeCorrect, PTL DEF Spec

(* The key lives a second longer than the window of the plan that set its  *)
(* TTL, and that is what makes its expiry safe: if calls are prompt, the   *)
(* entries that go with the key had left every such window that is still   *)
(* being counted.                                                          *)
THEOREM ExpirySafe ==
  ASSUME PromptCalls
  PROVE  Spec => ExpiryForgetsNothing
<1> DEFINE Forgets == clock' # clock => LeftWindow(setter)
<1>1. TypeOK /\ Recent /\ [Next]_vars => [Forgets]_vars
  <2> SUFFICES ASSUME TypeOK, Recent, [Next]_vars, clock' # clock
               PROVE  LeftWindow(setter)
    OBVIOUS
  <2>1. Tick
    BY DEF Next, Start, Trim, Card, Add, Refuse, Abandon, vars
  <2> QED  BY <2>1, TickForgetsNothing
<1>2. Spec => [][Forgets]_vars
  BY <1>1, RecentInvariant, TypeCorrect, PTL DEF Spec
<1> QED  BY <1>2 DEF ExpiryForgetsNothing, LeftWindow

-------------------------------------------------------------------------------
(* What a window of any position admits.                                   *)

(* The plan with the shortest window: no other trims as much.              *)
Shortest(q) == \A l \in Plan : W(q) <= W(l)

LEMMA ShortestExists == \E q \in Plan : Shortest(q)
<1> DEFINE Lengths == {W(l) : l \in Plan}
<1>1. Lengths \subseteq Nat /\ Lengths # {}
  BY Windows, Numbers
<1>2. PICK w \in Lengths : \A v \in Lengths : <<v, w>> \notin OpToRel(<, Nat)
  <2> HIDE DEF Lengths
  <2> QED  BY <1>1, NatLessThanWellFounded, WFMin
<1>3. PICK q \in Plan : w = W(q)
  BY <1>2
<1>4. \A l \in Plan : W(q) <= W(l)
  <2> SUFFICES ASSUME NEW l \in Plan, ~(W(q) <= W(l)) PROVE FALSE
    OBVIOUS
  <2>1. W(l) \in Nat /\ W(q) \in Nat
    BY Windows
  <2>2. <<W(l), W(q)>> \in OpToRel(<, Nat)
    BY <2>1 DEF OpToRel
  <2> QED  BY <1>2, <1>3, <2>2
<1> QED  BY <1>4 DEF Shortest

LEMMA Lags ==
  /\ Lag \in Nat
  /\ \A p, r \in Caller : p # r => Lag = MaxLag
<1>1. CASE Cardinality(Caller) = 1
  <2>1. PICK x : Caller = {x}
    BY <1>1, Numbers, FS_Singleton
  <2> QED  BY <1>1, <2>1 DEF Lag
<1>2. CASE Cardinality(Caller) # 1
  BY <1>2, Numbers DEF Lag
<1> QED  BY <1>1, <1>2

(* No call is behind the clock by more than it may take.                   *)
Prompt == \A p \in Caller : pc[p] # "idle" => clock - now[p] <= MaxLag

LEMMA PromptStep ==
  ASSUME TypeOK, Prompt, [Next]_vars
  PROVE  Prompt'
<1>0. clock \in Nat /\ MaxLag \in Nat /\ \A p \in Caller : now[p] \in Nat
  BY Numbers DEF TypeOK
<1>1. ASSUME NEW p \in Caller, Start(p) PROVE Prompt'
  BY <1>0, <1>1 DEF Start, Goto, Prompt, TypeOK
<1>2. ASSUME NEW p \in Caller, Trim(p) \/ Card(p) PROVE Prompt'
  BY <1>2 DEF Trim, Card, Goto, Prompt, TypeOK
<1>3. ASSUME NEW p \in Caller, Add(p) \/ Refuse(p) \/ Abandon(p) PROVE Prompt'
  BY <1>3 DEF Add, Refuse, Abandon, Leave, Goto, Prompt, TypeOK
<1>4. CASE Tick
  <2> SUFFICES ASSUME NEW p \in Caller, pc[p] # "idle"
               PROVE  (clock + 1) - now[p] <= MaxLag
    BY <1>4 DEF Tick, call, Prompt
  <2> QED  BY <1>0, <1>4 DEF Tick
<1>5. CASE UNCHANGED vars
  BY <1>5 DEF vars, call, Prompt
<1> QED  BY <1>1, <1>2, <1>3, <1>4, <1>5 DEF Next

(* The scores under which plan l admitted units.                           *)
Scores(l) == {s \in Score : granted[l][s] > 0}

(* A score is missing from the set only if a shortest window has passed,   *)
(* for every call under way, but for its lag.                              *)
Kept(q) ==
  \A l \in Plan : \A s \in Scores(l) \ log :
    /\ s + W(q) <= clock
    /\ \A p \in Caller : pc[p] # "idle" => s + W(q) <= now[p] + Lag

LEMMA ScoresAdd ==
  ASSUME TypeOK, NEW p \in Caller, Add(p), NEW l \in Plan
  PROVE  /\ l = plan[p] =>
              /\ Scores(l)' = Scores(l) \cup Entries(p)
              /\ \A s \in Score : granted'[l][s]
                   = granted[l][s] + (IF s \in Entries(p) THEN 1 ELSE 0)
         /\ l # plan[p] => granted'[l] = granted[l] /\ Scores(l)' = Scores(l)
<1>1. granted \in [Plan -> [Score -> Nat]]
  BY DEF TypeOK
<1>2. CASE l = plan[p]
  <2>1. \A s \in Score :
          granted'[l][s] = granted[l][s] + (IF s \in Entries(p) THEN 1 ELSE 0)
    BY <1>1, <1>2 DEF Add
  <2>2. \A s \in Score : granted[l][s] \in Nat
    BY <1>1
  <2>3. Entries(p) \in SUBSET Score
    BY EntriesType
  <2>4. Scores(l)' = {s \in Score : granted'[l][s] > 0}
    BY DEF Scores, Score
  <2>5. \A s \in Score : granted'[l][s] > 0 <=> (granted[l][s] > 0 \/ s \in Entries(p))
    BY <2>1, <2>2
  <2>6. Scores(l)' = Scores(l) \cup Entries(p)
    BY <2>3, <2>4, <2>5 DEF Scores
  <2> QED  BY <1>2, <2>1, <2>6
<1>3. CASE l # plan[p]
  <2>1. granted'[l] = granted[l]
    BY <1>1, <1>3 DEF Add
  <2> QED  BY <1>3, <2>1 DEF Scores, Score
<1> QED  BY <1>2, <1>3

(* No score is admitted afresh twice: what is in a call's entries and was  *)
(* granted before is still in the set.                                     *)
LEMMA FreshOnce ==
  ASSUME TypeOK, NEW q \in Plan, Kept(q), Lag < W(q),
         NEW p \in Caller, pc[p] # "idle",
         NEW l \in Plan, NEW s \in Scores(l), s \in Entries(p)
  PROVE  s \in log
<1>1. now[p] \in Nat /\ W(q) \in Nat /\ Lag \in Nat
  BY Windows, Lags, Numbers DEF TypeOK
<1>2. s \in Nat /\ s >= now[p]
  BY <1>1 DEF Entries
<1>3. s \notin log => s + W(q) <= now[p] + Lag
  BY DEF Kept
<1> QED  BY <1>1, <1>2, <1>3

LEMMA KeptStep ==
  ASSUME PromptCalls, NEW q \in Plan, Shortest(q),
         TypeOK, Recent, Prompt, Kept(q), [Next]_vars
  PROVE  Kept(q)'
<1>0. /\ clock \in Nat /\ Lag \in Nat /\ MaxLag \in Nat
      /\ \A p \in Caller : now[p] \in Nat /\ now[p] <= clock
      /\ \A l \in Plan : W(l) \in Nat /\ W(q) <= W(l)
      /\ Score \subseteq Nat
  <2>1. clock \in Nat /\ \A p \in Caller : now[p] \in Nat /\ now[p] <= clock
    BY Numbers DEF TypeOK
  <2>2. \A l \in Plan : W(l) \in Nat /\ W(q) <= W(l)
    BY Windows DEF Shortest
  <2> QED  BY <2>1, <2>2, Lags, Numbers DEF Score
<1>1. Lag' = Lag /\ W(q)' = W(q) /\ Score' = Score
  BY DEF Lag, W, Score
<1>2. ASSUME NEW p \in Caller, Start(p) PROVE Kept(q)'
  <2>1. \A l \in Plan : Scores(l)' = Scores(l)
    BY <1>2 DEF Start, hist, Scores, Score
  <2>2. log' = log /\ clock' = clock
    BY <1>2 DEF Start, set
  <2>3. \A r \in Caller : pc'[r] # "idle" =>
          (pc[r] # "idle" /\ now'[r] = now[r]) \/ now'[r] = clock
    BY <1>2 DEF Start, Goto, TypeOK
  <2> SUFFICES ASSUME NEW l \in Plan, NEW s \in Scores(l) \ log
               PROVE  /\ s + W(q) <= clock
                      /\ \A r \in Caller : pc'[r] # "idle" => s + W(q) <= now'[r] + Lag
    BY <1>1, <2>1, <2>2 DEF Kept
  <2>4. s + W(q) <= clock
        /\ \A r \in Caller : pc[r] # "idle" => s + W(q) <= now[r] + Lag
    BY DEF Kept
  <2>5. s \in Nat /\ W(q) \in Nat
    BY <1>0 DEF Scores
  <2> QED  BY <1>0, <2>3, <2>4, <2>5
<1>3. ASSUME NEW p \in Caller, Trim(p) PROVE Kept(q)'
  <2>1. \A l \in Plan : Scores(l)' = Scores(l)
    BY <1>3 DEF Trim, hist, Scores, Score
  <2>2. log' = Inside(p) /\ UNCHANGED <<clock, now>> /\ pc[p] = "trim"
    BY <1>3 DEF Trim
  <2>3. \A r \in Caller : pc'[r] # "idle" => pc[r] # "idle"
    BY <1>3 DEF Trim, Goto, TypeOK
  <2> SUFFICES ASSUME NEW l \in Plan, NEW s \in Scores(l) \ Inside(p)
               PROVE  /\ s + W(q) <= clock
                      /\ \A r \in Caller : pc[r] # "idle" => s + W(q) <= now[r] + Lag
    BY <1>1, <2>1, <2>2, <2>3 DEF Kept
  <2>4. CASE s \notin log
    BY <2>4 DEF Kept
  <2>5. CASE s \in log
    <3>1. PICK m \in Plan : m = plan[p]
      BY DEF TypeOK
    <3>2. s \in Nat /\ W(q) \in Nat /\ W(m) \in Nat /\ W(q) <= W(m)
      BY <1>0 DEF Scores
    <3>3. ~(s > now[p] - W(m))
      BY <2>5, <3>1 DEF Inside
    <3>4. s + W(q) <= now[p] /\ s + W(q) <= clock
      BY <1>0, <3>2, <3>3
    <3>5. ASSUME NEW r \in Caller, pc[r] # "idle" PROVE s + W(q) <= now[r] + Lag
      <4>1. CASE r = p
        BY <1>0, <3>2, <3>4, <4>1
      <4>2. CASE r # p
        <5>1. Lag = MaxLag /\ clock - now[r] <= MaxLag
          BY <3>5, <4>2, Lags DEF Prompt
        <5> QED  BY <1>0, <3>2, <3>4, <5>1
      <4> QED  BY <4>1, <4>2
    <3> QED  BY <3>4, <3>5
  <2> QED  BY <2>4, <2>5
<1>4. ASSUME NEW p \in Caller, Card(p) \/ Refuse(p) \/ Abandon(p) PROVE Kept(q)'
  <2>1. \A l \in Plan : Scores(l)' = Scores(l)
    BY <1>4 DEF Card, Refuse, Abandon, hist, Scores, Score
  <2>2. log' = log /\ clock' = clock
    BY <1>4 DEF Card, Refuse, Abandon, set
  <2>3. \A r \in Caller : pc'[r] # "idle" => pc[r] # "idle" /\ now'[r] = now[r]
    BY <1>4 DEF Card, Refuse, Abandon, Leave, Goto, TypeOK
  <2> QED  BY <1>1, <2>1, <2>2, <2>3 DEF Kept
<1>5. ASSUME NEW p \in Caller, Add(p) PROVE Kept(q)'
  <2>1. \A l \in Plan : Scores(l)' \ log' \subseteq Scores(l) \ log
    BY <1>5, ScoresAdd DEF Add
  <2>2. clock' = clock
    BY <1>5 DEF Add
  <2>3. \A r \in Caller : pc'[r] # "idle" => pc[r] # "idle" /\ now'[r] = now[r]
    BY <1>5 DEF Add, Leave, Goto, TypeOK
  <2> QED  BY <1>1, <2>1, <2>2, <2>3 DEF Kept
<1>6. CASE Tick
  <2>1. \A l \in Plan : Scores(l)' = Scores(l)
    BY <1>6 DEF Tick, hist, Scores, Score
  <2>2. clock' = clock + 1 /\ UNCHANGED <<pc, now>>
    BY <1>6 DEF Tick, call
  <2>3. PICK m \in Plan : LeftWindow(m)
    BY <1>6, TickForgetsNothing DEF TypeOK
  <2> SUFFICES ASSUME NEW l \in Plan, NEW s \in Scores(l) \ log'
               PROVE  /\ s + W(q) <= clock + 1
                      /\ \A r \in Caller : pc[r] # "idle" => s + W(q) <= now[r] + Lag
    BY <1>1, <2>1, <2>2 DEF Kept
  <2>4. s \in Nat /\ W(q) \in Nat /\ W(m) \in Nat /\ W(q) <= W(m)
    BY <1>0 DEF Scores
  <2>5. CASE s \notin log
    <3>1. s + W(q) <= clock
          /\ \A r \in Caller : pc[r] # "idle" => s + W(q) <= now[r] + Lag
      BY <2>5 DEF Kept
    <3> QED  BY <1>0, <2>4, <3>1
  <2>6. CASE s \in log
    <3>1. s <= clock' - W(m) /\ \A r \in Caller : pc[r] # "idle" => s <= now[r] - W(m)
      BY <2>3, <2>6 DEF LeftWindow
    <3> QED  BY <1>0, <2>2, <2>4, <3>1
  <2> QED  BY <2>5, <2>6
<1>7. CASE UNCHANGED vars
  <2>1. UNCHANGED <<log, granted, clock, pc, now>>
    BY <1>7 DEF vars, set, call, hist
  <2>2. \A l \in Plan : Scores(l)' = Scores(l)
    BY <2>1 DEF Scores, Score
  <2> QED  BY <1>1, <2>1, <2>2 DEF Kept
<1> QED  BY <1>2, <1>3, <1>4, <1>5, <1>6, <1>7 DEF Next

(* The calls under plan l that have passed the test.                       *)
PassedUnder(l) == {p \in Passed : plan[p] = l}

(* The entries that plan l made, with those it is about to make, exceed    *)
(* its own limit by no more than a call of each other caller.              *)
ShareWithinRace ==
  \A l \in Plan :
    Cardinality(log \cap Scores(l)) + WeightOf(PassedUnder(l), cost) <= Limit[l] + Overshoot

LEMMA ShareSizes ==
  ASSUME TypeOK, NEW l \in Plan
  PROVE  /\ IsFiniteSet(PassedUnder(l)) /\ WeightOf(PassedUnder(l), cost) \in Nat
         /\ log \cap Scores(l) \in SUBSET Score
         /\ IsFiniteSet(log \cap Scores(l)) /\ Cardinality(log \cap Scores(l)) \in Nat
         /\ Limit[l] \in Nat /\ Overshoot \in Int
<1>1. IsFiniteSet(PassedUnder(l))
  BY PassedWeight, FS_Subset DEF PassedUnder
<1>2. \A p \in PassedUnder(l) : cost[p] \in 0 .. MaxCost
  BY PassedWeight DEF PassedUnder, Passed
<1>3. WeightOf(PassedUnder(l), cost) \in Nat
  BY <1>1, <1>2, Numbers, WeightType
<1>4. log \cap Scores(l) \in SUBSET Score
  BY DEF TypeOK
<1> QED  BY <1>1, <1>3, <1>4, LogFinite, Sizes, Windows

LEMMA ShareLeaves ==
  ASSUME TypeOK, NEW p \in Caller, Leave(p), NEW l \in Plan
  PROVE  /\ WeightOf(PassedUnder(l)', cost') \in Nat
         /\ WeightOf(PassedUnder(l)', cost') <= WeightOf(PassedUnder(l), cost)
         /\ p \in PassedUnder(l) =>
              WeightOf(PassedUnder(l)', cost') = WeightOf(PassedUnder(l), cost) - cost[p]
<1>1. PassedUnder(l)' = PassedUnder(l) \ {p}
  BY DEF PassedUnder, Passed, Leave, Goto, TypeOK
<1>2. \A q \in PassedUnder(l)' : cost'[q] = cost[q]
  BY <1>1 DEF Leave, TypeOK, PassedUnder, Passed
<1>3. WeightOf(PassedUnder(l)', cost') = WeightOf(PassedUnder(l) \ {p}, cost)
  BY <1>1, <1>2, WeightLocal
<1>4. \A q \in PassedUnder(l) : cost[q] \in 0 .. MaxCost
  BY PassedWeight DEF PassedUnder, Passed
<1>5. PassedUnder(l) \ {p} \in SUBSET PassedUnder(l)
  OBVIOUS
<1>6. WeightOf(PassedUnder(l) \ {p}, cost) <= WeightOf(PassedUnder(l), cost)
  BY <1>4, <1>5, ShareSizes, Numbers, WeightMonotone
<1>7. WeightOf(PassedUnder(l) \ {p}, cost) \in Nat
  <2>1. IsFiniteSet(PassedUnder(l) \ {p})
    BY <1>5, ShareSizes, FS_Subset
  <2> QED  BY <1>4, <2>1, Numbers, WeightType
<1>8. p \in PassedUnder(l) =>
        WeightOf(PassedUnder(l) \ {p}, cost) = WeightOf(PassedUnder(l), cost) - cost[p]
  BY <1>4, ShareSizes, Numbers, WeightRemove
<1> QED  BY <1>3, <1>6, <1>7, <1>8

(* Steps that grant nothing, and after which no more calls have passed.    *)
LEMMA FewerShare ==
  ASSUME TypeOK, ShareWithinRace, log' \in SUBSET log, UNCHANGED granted,
         \A l \in Plan : /\ WeightOf(PassedUnder(l)', cost') \in Nat
                         /\ WeightOf(PassedUnder(l)', cost') <= WeightOf(PassedUnder(l), cost)
  PROVE  ShareWithinRace'
<1> SUFFICES ASSUME NEW l \in Plan
             PROVE  Cardinality(log' \cap Scores(l)) + WeightOf(PassedUnder(l)', cost')
                      <= Limit[l] + Overshoot
  BY DEF ShareWithinRace, Scores, Score, Overshoot
<1>1. log' \cap Scores(l) \in SUBSET (log \cap Scores(l))
  OBVIOUS
<1>2. /\ Cardinality(log' \cap Scores(l)) \in Nat
      /\ Cardinality(log' \cap Scores(l)) <= Cardinality(log \cap Scores(l))
  BY <1>1, ShareSizes, FS_Subset, FS_CardinalityType
<1>3. Cardinality(log \cap Scores(l)) + WeightOf(PassedUnder(l), cost) <= Limit[l] + Overshoot
  BY DEF ShareWithinRace
<1>4. /\ WeightOf(PassedUnder(l)', cost') \in Nat
      /\ WeightOf(PassedUnder(l)', cost') <= WeightOf(PassedUnder(l), cost)
  OBVIOUS
<1>5. WeightOf(PassedUnder(l), cost) \in Nat /\ Cardinality(log \cap Scores(l)) \in Nat
  BY ShareSizes
<1>6. Limit[l] \in Nat /\ Overshoot \in Int
  BY ShareSizes
<1> QED  BY <1>2, <1>3, <1>4, <1>5, <1>6

LEMMA SameShare ==
  ASSUME TypeOK, ShareWithinRace, log' \in SUBSET log, UNCHANGED <<granted, cost>>,
         \A l \in Plan : PassedUnder(l)' = PassedUnder(l)
  PROVE  ShareWithinRace'
<1>1. ASSUME NEW l \in Plan
      PROVE  /\ WeightOf(PassedUnder(l)', cost') \in Nat
             /\ WeightOf(PassedUnder(l)', cost') <= WeightOf(PassedUnder(l), cost)
  <2>1. WeightOf(PassedUnder(l), cost) \in Nat
    BY ShareSizes
  <2> QED  BY <2>1
<1> QED  BY <1>1, FewerShare

LEMMA CardShare ==
  ASSUME TypeOK, ShareWithinRace, NEW p \in Caller, Card(p)
  PROVE  ShareWithinRace'
<1>1. log' = log /\ cost' = cost /\ plan' = plan /\ granted' = granted /\ pc[p] = "card"
  BY DEF Card, set, hist
<1> SUFFICES ASSUME NEW l \in Plan
             PROVE  Cardinality(log \cap Scores(l)) + WeightOf(PassedUnder(l)', cost)
                      <= Limit[l] + Overshoot
  BY <1>1 DEF ShareWithinRace, Scores, Score, Overshoot
<1>2. CASE Fits(p) /\ plan[p] = l
  <2>1. PassedUnder(l)' = PassedUnder(l) \cup {p} /\ p \notin PassedUnder(l)
    BY <1>1, <1>2 DEF Card, Goto, Passed, PassedUnder, TypeOK
  <2>2. \A q \in PassedUnder(l) \cup {p} : cost[q] \in 0 .. MaxCost
    BY PassedWeight DEF PassedUnder, Passed
  <2>0. IsFiniteSet(PassedUnder(l)) /\ WeightOf(PassedUnder(l), cost) \in Nat
    BY ShareSizes
  <2>3. WeightOf(PassedUnder(l)', cost) = WeightOf(PassedUnder(l), cost) + cost[p]
    <3>1. WeightOf(PassedUnder(l) \cup {p}, cost) = WeightOf(PassedUnder(l), cost) + cost[p]
      BY <2>0, <2>1, <2>2, Numbers, WeightAdd
    <3> QED  BY <2>1, <3>1
  <2>4. WeightOf(PassedUnder(l), cost) <= Overshoot
    BY <2>1, OthersWeigh DEF PassedUnder, Passed
  <2>5. Cardinality(log) + cost[p] <= Limit[l] /\ cost[p] \in Nat
    BY <1>2, PassedWeight, Numbers DEF Fits
  <2>6. Cardinality(log \cap Scores(l)) <= Cardinality(log) /\ Cardinality(log) \in Nat
    <3>1. IsFiniteSet(log) /\ log \cap Scores(l) \in SUBSET log
      BY LogFinite DEF TypeOK
    <3> QED  BY <3>1, FS_Subset, FS_CardinalityType
  <2>7. Limit[l] \in Nat /\ Overshoot \in Int /\ Cardinality(log \cap Scores(l)) \in Nat
    BY ShareSizes
  <2> QED  BY <2>0, <2>3, <2>4, <2>5, <2>6, <2>7
<1>3. CASE ~(Fits(p) /\ plan[p] = l)
  <2>1. PassedUnder(l)' = PassedUnder(l)
    BY <1>1, <1>3 DEF Card, Goto, Passed, PassedUnder, TypeOK
  <2> QED  BY <2>1 DEF ShareWithinRace
<1> QED  BY <1>2, <1>3

LEMMA AddShare ==
  ASSUME TypeOK, NEW q \in Plan, Kept(q), Lag < W(q), ShareWithinRace,
         NEW p \in Caller, Add(p)
  PROVE  ShareWithinRace'
<1>1. log' = log \cup Entries(p) /\ pc[p] = "add" /\ Leave(p)
  BY DEF Add
<1> SUFFICES ASSUME NEW l \in Plan
             PROVE  Cardinality(log' \cap Scores(l)') + WeightOf(PassedUnder(l)', cost')
                      <= Limit[l] + Overshoot
  BY DEF ShareWithinRace, Overshoot
<1>2. Cardinality(log \cap Scores(l)) + WeightOf(PassedUnder(l), cost) <= Limit[l] + Overshoot
  BY DEF ShareWithinRace
<1>3. \A s \in Scores(l) : s \in Entries(p) => s \in log
  BY <1>1, FreshOnce
<1>4. CASE plan[p] = l
  <2>1. p \in PassedUnder(l) /\ cost[p] \in Nat
    BY <1>1, <1>4, PassedWeight, Numbers DEF PassedUnder, Passed
  <2>2. WeightOf(PassedUnder(l)', cost') = WeightOf(PassedUnder(l), cost) - cost[p]
    BY <1>1, <2>1, ShareLeaves
  <2>3. log' \cap Scores(l)' \in SUBSET ((log \cap Scores(l)) \cup Entries(p))
    BY <1>1, <1>4, ScoresAdd
  <2>4. IsFiniteSet(Entries(p)) /\ Cardinality(Entries(p)) = cost[p]
    BY EntriesType, LogFinite
  <2>5. /\ IsFiniteSet((log \cap Scores(l)) \cup Entries(p))
        /\ Cardinality((log \cap Scores(l)) \cup Entries(p)) <= Cardinality(log \cap Scores(l)) + cost[p]
    <3>1. IsFiniteSet(log \cap Scores(l))
      BY ShareSizes
    <3>2. Cardinality((log \cap Scores(l)) \cap Entries(p)) \in Nat
      BY <3>1, FS_Intersection, FS_CardinalityType
    <3>3. Cardinality(log \cap Scores(l)) \in Nat
      BY ShareSizes
    <3>4. /\ IsFiniteSet((log \cap Scores(l)) \cup Entries(p))
          /\ Cardinality((log \cap Scores(l)) \cup Entries(p))
               = Cardinality(log \cap Scores(l)) + Cardinality(Entries(p))
                 - Cardinality((log \cap Scores(l)) \cap Entries(p))
      BY <2>4, <3>1, FS_Union
    <3> QED  BY <2>1, <2>4, <3>2, <3>3, <3>4
  <2>6. Cardinality(log' \cap Scores(l)') <= Cardinality(log \cap Scores(l)) + cost[p]
        /\ Cardinality(log' \cap Scores(l)') \in Nat
    <3>1. Cardinality((log \cap Scores(l)) \cup Entries(p)) \in Nat
      BY <2>5, FS_CardinalityType
    <3>2. /\ IsFiniteSet(log' \cap Scores(l)')
          /\ Cardinality(log' \cap Scores(l)') <= Cardinality((log \cap Scores(l)) \cup Entries(p))
      BY <2>3, <2>5, FS_Subset
    <3>3. Cardinality(log' \cap Scores(l)') \in Nat
      BY <3>2, FS_CardinalityType
    <3>4. Cardinality(log \cap Scores(l)) \in Nat
      BY ShareSizes
    <3> QED  BY <2>1, <2>5, <3>1, <3>2, <3>3, <3>4
  <2>7. /\ Limit[l] \in Nat /\ Overshoot \in Int /\ WeightOf(PassedUnder(l), cost) \in Nat
        /\ Cardinality(log \cap Scores(l)) \in Nat
    BY ShareSizes
  <2> QED  BY <1>2, <2>1, <2>2, <2>6, <2>7
<1>5. CASE plan[p] # l
  <2>1. Scores(l)' = Scores(l)
    BY <1>5, ScoresAdd
  <2>2. log' \cap Scores(l)' = log \cap Scores(l)
    BY <1>1, <1>3, <2>1
  <2>3. /\ WeightOf(PassedUnder(l)', cost') \in Nat
        /\ WeightOf(PassedUnder(l)', cost') <= WeightOf(PassedUnder(l), cost)
    BY <1>1, ShareLeaves
  <2>4. /\ Limit[l] \in Nat /\ Overshoot \in Int /\ WeightOf(PassedUnder(l), cost) \in Nat
        /\ Cardinality(log \cap Scores(l)) \in Nat
    BY ShareSizes
  <2>5. Cardinality(log' \cap Scores(l)') = Cardinality(log \cap Scores(l))
    BY <2>2
  <2> QED  BY <1>2, <2>3, <2>4, <2>5
<1> QED  BY <1>4, <1>5

LEMMA ShareStep ==
  ASSUME TypeOK, NEW q \in Plan, Kept(q), Lag < W(q), ShareWithinRace, [Next]_vars
  PROVE  ShareWithinRace'
<1>1. ASSUME NEW p \in Caller, Start(p) PROVE ShareWithinRace'
  <2>1. \A l \in Plan : /\ PassedUnder(l)' = PassedUnder(l)
                        /\ \A r \in PassedUnder(l) : cost'[r] = cost[r]
    BY <1>1 DEF Start, Goto, PassedUnder, Passed, TypeOK
  <2>2. ASSUME NEW l \in Plan
        PROVE  /\ WeightOf(PassedUnder(l)', cost') \in Nat
               /\ WeightOf(PassedUnder(l)', cost') <= WeightOf(PassedUnder(l), cost)
    <3>1. WeightOf(PassedUnder(l), cost) \in Nat
      BY ShareSizes
    <3>2. \A r \in PassedUnder(l) : cost'[r] = cost[r]
      BY <2>1
    <3>3. WeightOf(PassedUnder(l), cost') = WeightOf(PassedUnder(l), cost)
      BY <3>2, WeightLocal
    <3>4. PassedUnder(l)' = PassedUnder(l)
      BY <2>1
    <3> QED  BY <3>1, <3>3, <3>4
  <2>3. log' \in SUBSET log /\ UNCHANGED granted
    BY <1>1 DEF Start, set, hist
  <2> QED  BY <2>2, <2>3, FewerShare
<1>2. ASSUME NEW p \in Caller, Trim(p) PROVE ShareWithinRace'
  <2>1. cost' = cost /\ \A l \in Plan : PassedUnder(l)' = PassedUnder(l)
    BY <1>2 DEF Trim, Goto, PassedUnder, Passed, TypeOK
  <2>2. log' \in SUBSET log /\ UNCHANGED granted
    BY <1>2 DEF Trim, Inside, hist
  <2> QED  BY <2>1, <2>2, SameShare
<1>3. ASSUME NEW p \in Caller, Card(p) PROVE ShareWithinRace'
  BY <1>3, CardShare
<1>4. ASSUME NEW p \in Caller, Add(p) PROVE ShareWithinRace'
  BY <1>4, AddShare
<1>5. ASSUME NEW p \in Caller, Refuse(p) \/ Abandon(p) PROVE ShareWithinRace'
  <2>1. Leave(p) /\ log' = log /\ granted' = granted
    BY <1>5 DEF Refuse, Abandon, set, hist
  <2>2. ASSUME NEW l \in Plan
        PROVE  /\ WeightOf(PassedUnder(l)', cost') \in Nat
               /\ WeightOf(PassedUnder(l)', cost') <= WeightOf(PassedUnder(l), cost)
    BY <2>1, ShareLeaves
  <2> QED  BY <2>1, <2>2, FewerShare
<1>6. CASE Tick
  <2>1. /\ log' \in SUBSET log /\ cost' = cost /\ granted' = granted
        /\ \A l \in Plan : PassedUnder(l)' = PassedUnder(l)
    BY <1>6 DEF Tick, call, hist, PassedUnder, Passed
  <2> QED  BY <2>1, SameShare
<1>7. CASE UNCHANGED vars
  <2>1. /\ log' = log /\ cost' = cost /\ granted' = granted
        /\ \A l \in Plan : PassedUnder(l)' = PassedUnder(l)
    BY <1>7 DEF vars, set, call, hist, PassedUnder, Passed
  <2> QED  BY <2>1, SameShare
<1> QED  BY <1>1, <1>2, <1>3, <1>4, <1>5, <1>6, <1>7 DEF Next

(* What is counted more than once under one plan and score has collided.   *)
Counted ==
  /\ \E M \in Nat : \A l \in Plan, s \in Score : granted[l][s] \in 0 .. M
  /\ \A l \in Plan, S \in SUBSET Score :
       WeightOf(S, granted[l]) <= Cardinality(S \cap Scores(l)) + collided

LEMMA CountedStep ==
  ASSUME TypeOK, NEW q \in Plan, Kept(q), Lag < W(q), Counted, [Next]_vars
  PROVE  Counted'
<1>1. CASE \E p \in Caller : Add(p)
  <2>1. PICK p \in Caller : Add(p)
    BY <1>1
  <2>2. PICK M \in Nat : \A l \in Plan, s \in Score : granted[l][s] \in 0 .. M
    BY DEF Counted
  <2>3. \A l \in Plan, s \in Score : granted'[l][s] \in 0 .. (M + 1)
    <3> SUFFICES ASSUME NEW l \in Plan, NEW s \in Score PROVE granted'[l][s] \in 0 .. (M + 1)
      OBVIOUS
    <3>1. granted[l][s] \in 0 .. M
      BY <2>2
    <3>2. granted'[l][s] = granted[l][s] \/ granted'[l][s] = granted[l][s] + 1
      BY <2>1, <3>1, ScoresAdd
    <3> QED  BY <3>1, <3>2
  <2>4. /\ collided' = collided + Cardinality(log \cap Entries(p))
        /\ collided \in Nat /\ pc[p] # "idle"
    BY <2>1 DEF Add, TypeOK
  <2>5. IsFiniteSet(log \cap Entries(p)) /\ Cardinality(log \cap Entries(p)) \in Nat
    <3>1. log \cap Entries(p) \in SUBSET Score
      BY DEF TypeOK
    <3> QED  BY <3>1, LogFinite
  <2>6. ASSUME NEW l \in Plan, NEW S \in SUBSET Score
        PROVE  WeightOf(S, granted'[l]) <= Cardinality(S \cap Scores(l)') + collided'
    <3>1. IsFiniteSet(S) /\ \A s \in S : granted[l][s] \in 0 .. M
      BY <2>2, LogFinite
    <3>2. WeightOf(S, granted[l]) \in Nat
      BY <3>1, WeightType
    <3>3. WeightOf(S, granted[l]) <= Cardinality(S \cap Scores(l)) + collided
      BY DEF Counted
    <3>4. /\ IsFiniteSet(S \cap Scores(l)) /\ Cardinality(S \cap Scores(l)) \in Nat
          /\ IsFiniteSet(S \cap Entries(p)) /\ Cardinality(S \cap Entries(p)) \in Nat
      BY <3>1, FS_Intersection, FS_CardinalityType
    <3>5. CASE l = plan[p]
      <4>1. WeightOf(S, granted'[l]) <= WeightOf(S, granted[l]) + Cardinality(S \cap Entries(p))
        <5>1. \A s \in S :
                granted'[l][s] = granted[l][s] + (IF s \in Entries(p) THEN 1 ELSE 0)
          BY <2>1, <3>5, ScoresAdd
        <5> QED  BY <3>1, <5>1, WeightRaise
      <4>2. WeightOf(S, granted'[l]) \in Nat
        <5>1. \A s \in S : granted'[l][s] \in 0 .. (M + 1)
          BY <2>3
        <5> QED  BY <3>1, <5>1, WeightType
      <4> DEFINE both == (S \cap Scores(l)) \cap (S \cap Entries(p))
      <4>3. S \cap Scores(l)' = (S \cap Scores(l)) \cup (S \cap Entries(p))
        BY <2>1, <3>5, ScoresAdd
      <4>4. Cardinality(S \cap Scores(l)')
              = Cardinality(S \cap Scores(l)) + Cardinality(S \cap Entries(p)) - Cardinality(both)
        BY <3>4, <4>3, FS_Union
      <4>5. Cardinality(both) <= Cardinality(log \cap Entries(p)) /\ Cardinality(both) \in Nat
        <5>1. both \in SUBSET (log \cap Entries(p))
          BY <2>4, FreshOnce
        <5> QED  BY <2>5, <5>1, FS_Subset, FS_CardinalityType
      <4> HIDE DEF both
      <4> QED  BY <2>4, <2>5, <3>2, <3>3, <3>4, <4>1, <4>2, <4>4, <4>5
    <3>6. CASE l # plan[p]
      <4>1. granted'[l] = granted[l] /\ Scores(l)' = Scores(l)
        BY <2>1, <3>6, ScoresAdd
      <4>2. Cardinality(S \cap Scores(l)') = Cardinality(S \cap Scores(l))
        BY <4>1
      <4>3. WeightOf(S, granted'[l]) = WeightOf(S, granted[l])
        BY <4>1
      <4> QED  BY <2>4, <2>5, <3>2, <3>3, <3>4, <4>2, <4>3
    <3> QED  BY <3>5, <3>6
  <2>7. M + 1 \in Nat /\ Score' = Score
    BY DEF Score
  <2> QED  BY <2>3, <2>6, <2>7 DEF Counted
<1>2. CASE ~(\E p \in Caller : Add(p))
  <2>1. granted' = granted /\ collided' = collided
    BY <1>2 DEF Next, Start, Trim, Card, Refuse, Abandon, Tick, vars, hist
  <2> QED  BY <2>1 DEF Counted, Scores, Score
<1> QED  BY <1>1, <1>2

(* No shortest window, less a lag, has more scores of a plan than the set  *)
(* may have.                                                               *)
Window(l, t, w) == {s \in Scores(l) : t - w < s /\ s <= t}

Spread(q) ==
  \A l \in Plan, t \in Int : Cardinality(Window(l, t, W(q) - Lag)) <= Limit[l] + Overshoot

LEMMA SpreadStep ==
  ASSUME TypeOK, TypeOK', NEW q \in Plan, Kept(q), Lag < W(q),
         ShareWithinRace', Spread(q), [Next]_vars
  PROVE  Spread(q)'
<1>1. CASE \E p \in Caller : Add(p)
  <2>1. PICK p \in Caller : Add(p)
    BY <1>1
  <2>2. log' = log \cup Entries(p) /\ pc[p] # "idle"
    BY <2>1 DEF Add
  <2>3. W(q) \in Nat /\ Lag \in Nat /\ now[p] \in Nat /\ Score \subseteq Nat
    BY Windows, Lags, Numbers DEF TypeOK, Score
  <2> SUFFICES ASSUME NEW l \in Plan, NEW t \in Int
               PROVE  Cardinality(Window(l, t, W(q) - Lag)') <= Limit[l] + Overshoot
    <3>1. Lag' = Lag /\ W(q)' = W(q) /\ Overshoot' = Overshoot
      BY DEF Lag, W, Overshoot
    <3> QED  BY <3>1 DEF Spread, Window
  <2>4. Window(l, t, W(q) - Lag)' = {s \in Scores(l)' : t - (W(q) - Lag) < s /\ s <= t}
    BY DEF Window, W, Lag
  <2>5. Scores(l)' \subseteq Scores(l) \cup Entries(p)
    BY <2>1, ScoresAdd
  <2>6. CASE t < now[p]
    <3>1. \A s \in Entries(p) : ~(s <= t)
      BY <2>3, <2>6 DEF Entries
    <3>2. Scores(l) \subseteq Scores(l)'
      BY <2>1, ScoresAdd
    <3>3. Window(l, t, W(q) - Lag)' = Window(l, t, W(q) - Lag)
      BY <2>4, <2>5, <3>1, <3>2 DEF Window
    <3>4. Cardinality(Window(l, t, W(q) - Lag)') = Cardinality(Window(l, t, W(q) - Lag))
      BY <3>3
    <3> QED  BY <3>4 DEF Spread
  <2>7. CASE ~(t < now[p])
    <3>1. Window(l, t, W(q) - Lag)' \in SUBSET (log' \cap Scores(l)')
      <4> SUFFICES ASSUME NEW s \in Scores(l)', t - (W(q) - Lag) < s, s \notin Entries(p)
                   PROVE  s \in log
        BY <2>2, <2>4
      <4>1. s \in Scores(l) /\ s \in Nat
        BY <2>3, <2>5 DEF Scores
      <4>2. s \notin log => s + W(q) <= now[p] + Lag
        BY <2>2, <4>1 DEF Kept
      <4> QED  BY <2>3, <2>7, <4>1, <4>2
    <3>2. /\ IsFiniteSet(log' \cap Scores(l)') /\ Cardinality(log' \cap Scores(l)') \in Nat
      <4>1. log' \cap Scores(l)' \in SUBSET Score
        BY DEF TypeOK, Score
      <4> QED  BY <4>1, LogFinite
    <3>3. /\ Cardinality(Window(l, t, W(q) - Lag)') <= Cardinality(log' \cap Scores(l)')
          /\ Cardinality(Window(l, t, W(q) - Lag)') \in Nat
      BY <3>1, <3>2, FS_Subset, FS_CardinalityType
    <3>4. Cardinality(log' \cap Scores(l)') + WeightOf(PassedUnder(l)', cost')
            <= Limit[l] + Overshoot'
      BY DEF ShareWithinRace
    <3>5. WeightOf(PassedUnder(l)', cost') \in Nat
      BY <2>1, ShareLeaves DEF Add
    <3>6. Limit[l] \in Nat /\ Overshoot \in Int /\ Overshoot' = Overshoot
      BY Sizes DEF Overshoot
    <3> QED  BY <3>2, <3>3, <3>4, <3>5, <3>6
  <2> QED  BY <2>6, <2>7
<1>2. CASE ~(\E p \in Caller : Add(p))
  <2>1. granted' = granted
    BY <1>2 DEF Next, Start, Trim, Card, Refuse, Abandon, Tick, vars, hist
  <2> QED  BY <2>1 DEF Spread, Window, Scores, Score, W, Lag, Overshoot
<1> QED  BY <1>1, <1>2

WindowInv(q) == Prompt /\ Kept(q) /\ ShareWithinRace /\ Counted /\ Spread(q)

LEMMA InitWindow ==
  ASSUME Init, NEW q \in Plan
  PROVE  WindowInv(q)
<1>1. TypeOK
  BY InitHolds
<1>2. log = {} /\ Passed = {} /\ collided = 0
      /\ \A l \in Plan : \A s \in Score : granted[l][s] = 0
  BY DEF Init, Passed
<1>3. \A l \in Plan : Scores(l) = {}
  BY <1>2 DEF Scores
<1>4. Overshoot \in Nat
  <2>1. PICK p : p \in Caller
    BY Numbers
  <2>2. {} \in SUBSET (Caller \ {p}) /\ WeightOf({}, cost) = 0
    BY WeightEmpty
  <2>3. 0 <= Overshoot /\ Overshoot \in Int
    BY <1>1, <2>1, <2>2, OthersWeigh
  <2> QED  BY <2>3
<1>5. Prompt /\ Kept(q)
  BY <1>3 DEF Init, Prompt, Kept
<1>6. ShareWithinRace
  <2> SUFFICES ASSUME NEW l \in Plan
               PROVE  Cardinality(log \cap Scores(l)) + WeightOf(PassedUnder(l), cost)
                        <= Limit[l] + Overshoot
    BY DEF ShareWithinRace
  <2>1. log \cap Scores(l) = {} /\ PassedUnder(l) = {}
    BY <1>2 DEF PassedUnder
  <2>2. Cardinality(log \cap Scores(l)) = 0 /\ WeightOf(PassedUnder(l), cost) = 0
    BY <2>1, WeightEmpty, FS_EmptySet
  <2>3. Limit[l] \in Nat
    BY Windows
  <2> QED  BY <1>4, <2>2, <2>3
<1>7. Counted
  <2>1. \A l \in Plan, s \in Score : granted[l][s] \in 0 .. 0
    BY <1>2
  <2>2. ASSUME NEW l \in Plan, NEW S \in SUBSET Score
        PROVE  WeightOf(S, granted[l]) <= Cardinality(S \cap Scores(l)) + collided
    <3>1. IsFiniteSet(S) /\ Cardinality(S) \in Nat /\ \A s \in S : granted[l][s] \in 0 .. 0
      BY <2>1, LogFinite
    <3>2. WeightOf(S, granted[l]) <= Cardinality(S) * 0
      BY <3>1, WeightBound
    <3>3. S \cap Scores(l) = {}
      BY <1>3
    <3>4. Cardinality(S \cap Scores(l)) = 0
      BY <3>3, FS_EmptySet
    <3>5. WeightOf(S, granted[l]) \in Nat
      BY <3>1, WeightType
    <3> QED  BY <1>2, <3>1, <3>2, <3>4, <3>5
  <2>3. 0 \in Nat
    OBVIOUS
  <2> QED  BY <2>1, <2>2, <2>3 DEF Counted
<1>8. Spread(q)
  <2> SUFFICES ASSUME NEW l \in Plan, NEW t \in Int
               PROVE  Cardinality(Window(l, t, W(q) - Lag)) <= Limit[l] + Overshoot
    BY DEF Spread
  <2>1. Window(l, t, W(q) - Lag) = {}
    BY <1>3 DEF Window
  <2>2. Cardinality(Window(l, t, W(q) - Lag)) = 0
    BY <2>1, FS_EmptySet
  <2>3. Limit[l] \in Nat
    BY Windows
  <2> QED  BY <1>4, <2>2, <2>3
<1> QED  BY <1>5, <1>6, <1>7, <1>8 DEF WindowInv

(* A longer window is as many shortest ones in a row as it takes.          *)
LEMMA WindowFollows ==
  ASSUME TypeOK, NEW q \in Plan, Lag < W(q), Counted, Spread(q)
  PROVE  WindowBoundButCollisions
<1> SUFFICES ASSUME NEW t \in Score, NEW l \in Plan
             PROVE  UnitsIn(t, l)
                      <= (Limit[l] + Overshoot) * CeilDiv(W(l), W(q) - Lag) + collided
  BY DEF WindowBoundButCollisions
<1> DEFINE S == {s \in Score : t - W(l) < s /\ s <= t}
           k == CeilDiv(W(l), W(q) - Lag)
           w == W(q) - Lag
           M == Limit[l] + Overshoot
           Row == {s \in Scores(l) : t - k * w < s /\ s <= t}
<1>1. /\ t \in Int /\ W(l) \in Nat /\ w \in Nat /\ w > 0 /\ collided \in Nat
      /\ Score \subseteq Int
  <2>1. t \in Int /\ Score \subseteq Int /\ collided \in Nat
    BY Numbers DEF TypeOK, Score
  <2>2. W(l) \in Nat /\ W(q) \in Nat /\ Lag \in Nat
    BY Windows, Lags
  <2> QED  BY <2>1, <2>2
<1>2. k \in Nat /\ k * w >= W(l)
  BY <1>1, RoundUp
<1>3. M \in Nat
  <2>1. Cardinality(Caller) \in Nat /\ Cardinality(Caller) # 0
    BY Numbers, FS_CardinalityType, FS_EmptySet
  <2>2. Cardinality(Caller) - 1 \in Nat
    BY <2>1
  <2>3. (Cardinality(Caller) - 1) * MaxCost \in Nat
    BY <2>2, Numbers
  <2>4. Limit[l] \in Nat
    BY Windows
  <2> QED  BY <2>3, <2>4 DEF Overshoot
<1>4. Scores(l) \in SUBSET Score /\ IsFiniteSet(Scores(l)) /\ Scores(l) \subseteq Int
  BY <1>1, LogFinite DEF Scores
<1>5. Cardinality(Row) <= M * k
  <2>1. \A u \in Int : Cardinality({s \in Scores(l) : u - w < s /\ s <= u}) <= M
    BY DEF Spread, Window
  <2> HIDE DEF k, w, M
  <2> QED  BY <1>1, <1>2, <1>3, <1>4, <2>1, Tiling
<1>6. /\ S \cap Scores(l) \in SUBSET Row
      /\ Row \in SUBSET Scores(l)
  <2>1. k * w \in Int
    BY <1>1, <1>2
  <2> HIDE DEF k, w
  <2> SUFFICES ASSUME NEW s \in Scores(l), t - W(l) < s PROVE t - k * w < s
    OBVIOUS
  <2> QED  BY <1>1, <1>2, <1>4, <2>1
<1>7. S \in SUBSET Score
  OBVIOUS
<1>8. WeightOf(S, granted[l]) <= Cardinality(S \cap Scores(l)) + collided
  BY <1>7 DEF Counted
<1>9. WeightOf(S, granted[l]) \in Nat
  <2>1. PICK m \in Nat : \A s \in Score : granted[l][s] \in 0 .. m
    BY DEF Counted
  <2> HIDE DEF S
  <2> QED  BY <1>7, <2>1, LogFinite, WeightType
<1> HIDE DEF S, k, w, M, Row
<1>10. /\ Cardinality(S \cap Scores(l)) <= Cardinality(Row)
       /\ Cardinality(S \cap Scores(l)) \in Nat /\ Cardinality(Row) \in Nat
  BY <1>4, <1>6, FS_Subset, FS_CardinalityType
<1>11. M * k \in Nat
  BY <1>2, <1>3
<1>12. WeightOf(S, granted[l]) <= M * k + collided
  BY <1>1, <1>5, <1>8, <1>9, <1>10, <1>11
<1> QED  BY <1>12 DEF UnitsIn, S, M, k

(* What a window of any length at any position admits, with any number of  *)
(* plans and callers: the promise of the strategy, less what races, plans  *)
(* with shorter windows and equal milliseconds cost it.                    *)
THEOREM WindowSafe ==
  ASSUME PromptCalls, \A l \in Plan : Lag < W(l)
  PROVE  Spec => []WindowBoundButCollisions
<1>1. PICK q \in Plan : Shortest(q)
  BY ShortestExists
<1>2. Lag < W(q)
  OBVIOUS
<1>3. Init => WindowInv(q)
  BY InitWindow
<1>4. /\ TypeOK /\ TypeOK' /\ Recent /\ WindowInv(q) /\ [Next]_vars
      => WindowInv(q)'
  <2> SUFFICES ASSUME TypeOK, TypeOK', Recent, WindowInv(q), [Next]_vars
               PROVE  WindowInv(q)'
    OBVIOUS
  <2>1. Prompt /\ Kept(q) /\ ShareWithinRace /\ Counted /\ Spread(q)
    BY DEF WindowInv
  <2>2. Prompt'
    BY <2>1, PromptStep
  <2>3. Kept(q)'
    BY <1>1, <2>1, KeptStep
  <2>4. ShareWithinRace'
    BY <1>2, <2>1, ShareStep
  <2>5. Counted'
    BY <1>2, <2>1, CountedStep
  <2>6. Spread(q)'
    BY <1>2, <2>1, <2>4, SpreadStep
  <2> QED  BY <2>2, <2>3, <2>4, <2>5, <2>6 DEF WindowInv
<1>5. TypeOK /\ WindowInv(q) => WindowBoundButCollisions
  BY <1>2, WindowFollows DEF WindowInv
<1> QED  BY <1>3, <1>4, <1>5, TypeCorrect, RecentInvariant, PTL DEF Spec

-------------------------------------------------------------------------------
(* The advice to a refused unit.                                           *)

(* The clock started after zero, the score for "no entry".                 *)
Positive == 0 \notin log /\ \A p \in Caller : pc[p] # "idle" => now[p] >= 1

LEMMA PositiveStep ==
  ASSUME TypeOK, Positive, [Next]_vars
  PROVE  Positive'
<1>1. ASSUME NEW p \in Caller, Start(p) PROVE Positive'
  BY <1>1 DEF Start, Goto, set, Positive, TypeOK
<1>2. ASSUME NEW p \in Caller, Trim(p) \/ Card(p) PROVE Positive'
  BY <1>2 DEF Trim, Card, Inside, Goto, set, Positive, TypeOK
<1>3. ASSUME NEW p \in Caller, Add(p) PROVE Positive'
  <2>1. 0 \notin Entries(p)
    <3>1. now[p] \in Nat /\ now[p] >= 1
      BY <1>3, Numbers DEF Add, Positive, TypeOK
    <3> QED  BY <3>1 DEF Entries
  <2> QED  BY <1>3, <2>1 DEF Add, Leave, Goto, Positive, TypeOK
<1>4. ASSUME NEW p \in Caller, Refuse(p) \/ Abandon(p) PROVE Positive'
  BY <1>4 DEF Refuse, Abandon, Leave, Goto, set, Positive, TypeOK
<1>5. CASE Tick
  BY <1>5 DEF Tick, call, Positive
<1>6. CASE UNCHANGED vars
  BY <1>6 DEF vars, set, call, Positive
<1> QED  BY <1>1, <1>2, <1>3, <1>4, <1>5, <1>6 DEF Next

LEMMA Alone ==
  ASSUME Cardinality(Caller) = 1
  PROVE  (\A p, r \in Caller : p = r) /\ Overshoot = 0
<1>1. PICK x : Caller = {x}
  BY Numbers, FS_Singleton
<1> QED  BY <1>1, Numbers DEF Overshoot

(* Nothing joins the set between a call's trim and its count.              *)
Trimmed ==
  \A p \in Caller : pc[p] = "card" => \A s \in log : s > now[p] - W(plan[p])

LEMMA TrimmedStep ==
  ASSUME Cardinality(Caller) = 1, TypeOK, Trimmed, [Next]_vars
  PROVE  Trimmed'
<1>1. ASSUME NEW p \in Caller, Trim(p) PROVE Trimmed'
  <2>1. log' = Inside(p) /\ UNCHANGED <<now, plan>>
    BY <1>1 DEF Trim
  <2>2. \A r \in Caller : r = p
    BY Alone
  <2>3. \A s \in Inside(p) : s > now[p] - W(plan[p])
    BY DEF Inside
  <2> SUFFICES ASSUME NEW r \in Caller, NEW s \in log'
               PROVE  s > now[r] - W(plan[r])
    BY <2>1 DEF Trimmed, W
  <2> QED  BY <2>1, <2>2, <2>3
<1>2. ASSUME NEW p \in Caller, Start(p) \/ Card(p) \/ Add(p) \/ Refuse(p) \/ Abandon(p)
      PROVE  Trimmed'
  <2>1. \A r \in Caller : r = p
    BY Alone
  <2>2. pc'[p] # "card"
    BY <1>2 DEF Start, Card, Add, Refuse, Abandon, Leave, Goto, TypeOK
  <2> QED  BY <2>1, <2>2 DEF Trimmed
<1>3. CASE Tick
  <2>1. log' \subseteq log /\ UNCHANGED <<pc, now, plan>>
    BY <1>3 DEF Tick, call
  <2> QED  BY <2>1 DEF Trimmed, W
<1>4. CASE UNCHANGED vars
  BY <1>4 DEF vars, set, call, Trimmed, W
<1> QED  BY <1>1, <1>2, <1>3, <1>4 DEF Next

(* After a refusal under the largest plan, what will still be in its window *)
(* when the caller may come back leaves room for a unit.                   *)
Remaining == {s \in log : answer.ready < s + W(answer.plan)}

RoomAfter ==
  ~answer.allowed /\ Limit[answer.plan] > 0 /\ Largest(answer.plan)
    => Cardinality(Remaining) < Limit[answer.plan]

LEMMA RefuseLeavesRoom ==
  ASSUME Cardinality(Caller) = 1, TypeOK, LogWithinRace, Positive,
         NEW p \in Caller, Refuse(p)
  PROVE  RoomAfter'
<1>1. PICK l \in Plan : l = plan[p]
  BY DEF TypeOK
<1>2. /\ log' = log /\ pc[p] = "refuse" /\ answer'.plan = l
      /\ answer'.ready = now[p] + RetryAfter(p, Lowest)
  BY <1>1 DEF Refuse, set
<1> SUFFICES ASSUME Limit[l] > 0, Largest(l) PROVE Cardinality(Remaining') < Limit[l]
  BY <1>2 DEF RoomAfter, Largest
<1>3. Remaining' \in SUBSET log
  BY <1>2 DEF Remaining
<1>4. W(l) \in Nat /\ Limit[l] \in Nat /\ now[p] \in Nat /\ log \subseteq Nat
  BY Windows, Numbers DEF TypeOK, Score
<1>5. IsFiniteSet(log) /\ Cardinality(log) \in Nat
  BY LogFinite DEF TypeOK
<1>6. Cardinality(log) <= Limit[l]
  <2>1. PICK m \in Plan : Cardinality(log) + WeightOf(Passed, cost) <= Limit[m] + Overshoot
    BY DEF LogWithinRace
  <2>2. Limit[m] <= Limit[l] /\ Overshoot = 0
    BY Alone DEF Largest
  <2>3. Limit[m] \in Nat
    BY Windows
  <2> QED  BY <1>4, <1>5, <2>1, <2>2, <2>3, PassedWeight
<1>7. CASE log = {}
  <2>1. Remaining' = {}
    BY <1>3, <1>7
  <2>2. Cardinality(Remaining') = 0
    BY <2>1, FS_EmptySet
  <2> QED  BY <1>4, <2>2
<1>8. CASE log # {}
  <2>1. Lowest \in log /\ Lowest \in Nat /\ Lowest # 0
    BY <1>4, <1>8, LowestLeast DEF TypeOK, Positive
  <2>2. ~(answer'.ready < Lowest + W(l))
    BY <1>1, <1>2, <1>4, <2>1 DEF RetryAfter, Greatest
  <2>3. Remaining' \in SUBSET (log \ {Lowest})
    BY <1>2, <1>3, <2>2 DEF Remaining, W
  <2>4. IsFiniteSet(log \ {Lowest}) /\ Cardinality(log \ {Lowest}) = Cardinality(log) - 1
    BY <1>5, <2>1, FS_RemoveElement
  <2>5. Cardinality(Remaining') <= Cardinality(log) - 1 /\ Cardinality(Remaining') \in Nat
    BY <2>3, <2>4, FS_Subset, FS_CardinalityType
  <2> QED  BY <1>4, <1>5, <1>6, <2>5
<1> QED  BY <1>7, <1>8

LEMMA RoomStep ==
  ASSUME Cardinality(Caller) = 1, TypeOK, LogWithinRace, Positive, RoomAfter, [Next]_vars
  PROVE  RoomAfter'
<1>1. ASSUME NEW p \in Caller, Refuse(p) PROVE RoomAfter'
  BY <1>1, RefuseLeavesRoom
<1>2. ASSUME NEW p \in Caller, Add(p) PROVE RoomAfter'
  <2>1. answer'.allowed
    BY <1>2 DEF Add, Admitted
  <2> QED  BY <2>1 DEF RoomAfter
<1>3. CASE answer' = answer /\ log' \subseteq log
  <2>1. Remaining' \in SUBSET Remaining
    BY <1>3 DEF Remaining, W
  <2>2. IsFiniteSet(Remaining)
    <3>1. Remaining \in SUBSET Score
      BY DEF Remaining, TypeOK
    <3> QED  BY <3>1, LogFinite
  <2>3. /\ Cardinality(Remaining') <= Cardinality(Remaining)
        /\ Cardinality(Remaining') \in Nat /\ Cardinality(Remaining) \in Nat
    BY <2>1, <2>2, FS_Subset, FS_CardinalityType
  <2>4. answer.plan \in Plan /\ Limit[answer.plan] \in Nat
    BY Windows DEF TypeOK
  <2>5. RoomAfter' = (~answer.allowed /\ Limit[answer.plan] > 0 /\ Largest(answer.plan)
                        => Cardinality(Remaining') < Limit[answer.plan])
    BY <1>3 DEF RoomAfter, Largest
  <2> QED  BY <2>3, <2>4, <2>5 DEF RoomAfter
<1>4. ASSUME NEW p \in Caller, Start(p) \/ Trim(p) \/ Card(p) \/ Abandon(p)
      PROVE  answer' = answer /\ log' \subseteq log
  BY <1>4 DEF Start, Trim, Inside, Card, Abandon, set
<1>5. CASE Tick
  BY <1>3, <1>5 DEF Tick
<1>6. CASE UNCHANGED vars
  BY <1>3, <1>6 DEF vars, set
<1> QED  BY <1>1, <1>2, <1>3, <1>4, <1>5, <1>6 DEF Next

(* A single caller that waits the retry_after_ms of a refusal under the    *)
(* plan with the largest limit finds room for a unit, whatever expired and *)
(* whatever calls died in between.                                         *)
THEOREM RetrySafe ==
  ASSUME Cardinality(Caller) = 1
  PROVE  Spec => RetryFreesOneUnit
<1> DEFINE Frees == \A p \in Caller :
              AsksAgain(p) /\ cost[p] = 1 /\ Limit[plan[p]] > 0 /\ Largest(plan[p])
                => pc'[p] = "add"
           RetryInv == Positive /\ Trimmed /\ RoomAfter
<1>1. Init => RetryInv
  BY DEF Init, Admitted, Positive, Trimmed, RoomAfter
<1>2. TypeOK /\ LogWithinRace /\ RetryInv /\ [Next]_vars => RetryInv'
  BY PositiveStep, TrimmedStep, RoomStep
<1>3. TypeOK /\ RetryInv /\ [Next]_vars => [Frees]_vars
  <2> SUFFICES ASSUME TypeOK, RetryInv, Next, NEW p \in Caller,
                      AsksAgain(p), cost[p] = 1, Limit[plan[p]] > 0, Largest(plan[p])
               PROVE  pc'[p] = "add"
    OBVIOUS
  <2>1. /\ pc[p] = "card" /\ pc'[p] \in {"add", "refuse"} /\ ~answer.allowed
        /\ plan[p] = answer.plan /\ now[p] >= answer.ready
    BY DEF AsksAgain
  <2>2. Card(p)
    <3>1. \A r \in Caller : r = p
      BY Alone
    <3>2. ~Start(p) /\ ~Trim(p) /\ ~Add(p) /\ ~Refuse(p) /\ ~Abandon(p)
      BY <2>1 DEF Start, Trim, Add, Refuse, Abandon, Leave, Goto, TypeOK
    <3>3. ~Tick
      BY <2>1 DEF Tick, call
    <3> QED  BY <3>1, <3>2, <3>3 DEF Next
  <2>3. PICK l \in Plan : l = plan[p]
    BY DEF TypeOK
  <2>4. Remaining = log
    <3> SUFFICES ASSUME NEW s \in log PROVE answer.ready < s + W(answer.plan)
      BY DEF Remaining
    <3>1. s > now[p] - W(l)
      BY <2>1, <2>3 DEF Trimmed
    <3>2. s \in Nat /\ now[p] \in Nat /\ W(l) \in Nat /\ answer.ready \in Nat
      <4>1. s \in Nat /\ now[p] \in Nat /\ answer.ready \in Nat
        BY Numbers DEF TypeOK, Score
      <4> QED  BY <4>1, Windows
    <3> QED  BY <2>1, <2>3, <3>1, <3>2
  <2>5. Cardinality(log) < Limit[l] /\ Cardinality(log) \in Nat /\ Limit[l] \in Nat
    BY <2>1, <2>3, <2>4, Sizes, Windows DEF RoomAfter
  <2>6. Fits(p)
    BY <2>3, <2>5 DEF Fits
  <2> QED  BY <2>2, <2>6 DEF Card, Goto, TypeOK
<1>4. Spec => [][Frees]_vars
  BY <1>1, <1>2, <1>3, Invariance, PTL DEF Spec
<1> QED  BY <1>4 DEF RetryFreesOneUnit

-------------------------------------------------------------------------------
(* What the documents say of the sliding window, and when it is so.        *)

(* index.html, line 1141: a call is accepted only if the set has fewer     *)
(* than the limit; it is so if calls do not overlap, for the largest limit *)
(* of the plans in use.                                                    *)
THEOREM SerialLogSafe ==
  ASSUME Cardinality(Caller) = 1
  PROVE  Spec => []LogWithinLimit
<1>1. TypeOK /\ LogWithinRace => LogWithinLimit
  <2> SUFFICES ASSUME TypeOK, LogWithinRace PROVE LogWithinLimit
    OBVIOUS
  <2>1. PICK l \in Plan : Cardinality(log) + WeightOf(Passed, cost) <= Limit[l] + Overshoot
    BY DEF LogWithinRace
  <2>2. Overshoot = 0 /\ Limit[l] \in Nat
    BY Alone, Windows
  <2> QED  BY <2>1, <2>2, PassedWeight, Sizes DEF LogWithinLimit
<1> QED  BY <1>1, Invariance, PTL

(* index.html, line 1146: an entry for each admitted call, hence no window *)
(* with more of them than the limit; it is so if calls do not overlap, are *)
(* all under one plan, and none has shared a score with another.           *)
THEOREM SerialWindowSafe ==
  ASSUME Cardinality(Caller) = 1, PromptCalls, NEW l, Plan = {l}
  PROVE  Spec => [](collided = 0 => EveryWindowWithinLimit)
<1>1. Lag = 0 /\ Overshoot = 0 /\ W(l) \in Nat /\ W(l) > 0 /\ Limit[l] \in Nat
  BY Alone, Windows DEF Lag
<1>2. Spec => []WindowBoundButCollisions
  BY <1>1, WindowSafe
<1>3. CeilDiv(W(l), W(l) - Lag) = 1
  BY <1>1, RoundUp DEF CeilDiv
<1>4. WindowBoundButCollisions => (collided = 0 => EveryWindowWithinLimit)
  <2> SUFFICES ASSUME WindowBoundButCollisions, collided = 0, NEW t \in Score
               PROVE  UnitsIn(t, l) <= Limit[l]
    BY DEF EveryWindowWithinLimit
  <2>1. UnitsIn(t, l) <= (Limit[l] + Overshoot) * CeilDiv(W(l), W(l) - Lag) + collided
    BY DEF WindowBoundButCollisions
  <2>2. (Limit[l] + Overshoot) * 1 + 0 = Limit[l]
    BY <1>1
  <2> QED  BY <1>3, <2>1, <2>2
<1> QED  BY <1>2, <1>4, PTL
===============================================================================
