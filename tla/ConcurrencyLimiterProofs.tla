----------------------- MODULE ConcurrencyLimiterProofs -----------------------
(***************************************************************************)
(* Proofs about ConcurrencyLimiter, for every set of callers, limit, cost, *)
(* TTL and number of aborts, with or without release.                      *)
(***************************************************************************)
EXTENDS ConcurrencyLimiter, CallWeightsTheorems

(* The calls granted, and refused, in this life of the key.                *)
LiveGranted == Granted \ stale
LiveRefused == Refused \ stale

(* The verdict a caller acts on is the one its INCRBY earned.              *)
VerdictKept ==
  \A p \in Caller : /\ pc[p] = "held" => Fits(current[p])
                    /\ pc[p] = "rollback" => ~Fits(current[p])

(* The units granted in this life include those still in flight.           *)
GrantsCoverCalls == granted >= Weight(LiveGranted)

IInv == /\ TypeOK
        /\ VerdictKept
        /\ CounterCoversGrants
        /\ BudgetPerKeyLife
        /\ GrantsCoverCalls

-------------------------------------------------------------------------------
(* Weights of sets of callers, when one of them changes its cost.          *)

LEMMA WeightOfCallers ==
  ASSUME NEW S \in SUBSET Caller, NEW f \in [Caller -> 1 .. MaxCost]
  PROVE  IsFiniteSet(S) /\ WeightOf(S, f) \in Nat
<1>1. IsFiniteSet(S)
  BY ConcurrencyAssumption, FS_Subset
<1>2. \A p \in S : f[p] \in 0 .. MaxCost
  BY ConcurrencyAssumption
<1> QED  BY <1>1, <1>2, ConcurrencyAssumption, WeightType

(* p leaves S, and what it costs from then on does not matter.             *)
LEMMA WeightWithout ==
  ASSUME NEW S \in SUBSET Caller, NEW p \in Caller,
         NEW f \in [Caller -> 1 .. MaxCost], NEW g \in [Caller -> 1 .. MaxCost],
         \A q \in Caller \ {p} : g[q] = f[q]
  PROVE  /\ WeightOf(S \ {p}, g) \in Nat
         /\ p \in S => WeightOf(S \ {p}, g) = WeightOf(S, f) - f[p]
         /\ p \notin S => WeightOf(S \ {p}, g) = WeightOf(S, f)
<1>1. WeightOf(S \ {p}, g) \in Nat
  BY WeightOfCallers
<1>2. WeightOf(S \ {p}, g) = WeightOf(S \ {p}, f)
  BY WeightLocal
<1>3. CASE p \in S
  <2>1. MaxCost \in Nat /\ \A q \in S : f[q] \in 0 .. MaxCost
    BY ConcurrencyAssumption
  <2>2. IsFiniteSet(S)
    BY WeightOfCallers
  <2>3. WeightOf(S \ {p}, f) = WeightOf(S, f) - f[p]
    BY <1>3, <2>1, <2>2, WeightRemove
  <2> QED  BY <1>1, <1>2, <1>3, <2>3
<1>4. CASE p \notin S
  <2>1. S \ {p} = S
    BY <1>4
  <2> QED  BY <1>1, <1>2, <1>4, <2>1
<1> QED  BY <1>3, <1>4

(* p, with a new cost, joins S.                                            *)
LEMMA WeightWith ==
  ASSUME NEW S \in SUBSET Caller, NEW p \in Caller, p \notin S,
         NEW f \in [Caller -> 1 .. MaxCost], NEW g \in [Caller -> 1 .. MaxCost],
         \A q \in Caller \ {p} : g[q] = f[q]
  PROVE  /\ WeightOf(S, g) = WeightOf(S, f)
         /\ WeightOf(S \cup {p}, g) = WeightOf(S, f) + g[p]
<1>1. WeightOf(S, g) = WeightOf(S, f)
  BY WeightLocal
<1>2. \A q \in S \cup {p} : g[q] \in 0 .. MaxCost
  BY ConcurrencyAssumption
<1>3. IsFiniteSet(S) /\ MaxCost \in Nat
  BY WeightOfCallers, ConcurrencyAssumption
<1>4. WeightOf(S \cup {p}, g) = WeightOf(S, g) + g[p]
  BY <1>2, <1>3, WeightAdd
<1> QED  BY <1>1, <1>4

-------------------------------------------------------------------------------
(* What the steps do to the sets of calls in this life of the key.         *)

(* A call that leaves, in the terms of the model: its weight is gone from  *)
(* every set it was in.                                                    *)
LEMMA WeightWhenLeaving ==
  ASSUME TypeOK, TypeOK', NEW p \in Caller,
         \A q \in Caller \ {p} : cost'[q] = cost[q]
  PROVE  \A S \in SUBSET Caller :
           /\ p \in S => WeightOf(S \ {p}, cost') = WeightOf(S, cost) - cost[p]
           /\ p \notin S => WeightOf(S \ {p}, cost') = WeightOf(S, cost)
<1>1. cost \in [Caller -> 1 .. MaxCost] /\ cost' \in [Caller -> 1 .. MaxCost]
  BY DEF TypeOK
<1>2. \A q \in Caller \ {p} : cost'[q] = cost[q]
  OBVIOUS
<1> TAKE S \in SUBSET Caller
<1>3. S \in SUBSET Caller
  OBVIOUS
<1>4. CASE p \in S
  <2>1. WeightOf(S \ {p}, cost') = WeightOf(S, cost) - cost[p]
    BY <1>1, <1>2, <1>3, <1>4, WeightWithout
  <2> QED  BY <1>4, <2>1
<1>5. CASE p \notin S
  <2>1. WeightOf(S \ {p}, cost') = WeightOf(S, cost)
    BY <1>1, <1>2, <1>3, <1>5, WeightWithout
  <2> QED  BY <1>5, <2>1
<1> QED  BY <1>4, <1>5

(* A call that ends or moves on to its DELETE leaves both sets.            *)
LEMMA LeaveSets ==
  ASSUME TypeOK, TypeOK', NEW p \in Caller, pc'[p] \in {"idle", "delete"},
         \A q \in Caller \ {p} : pc'[q] = pc[q] /\ current'[q] = current[q],
         \A q \in Caller \ {p} : cost'[q] = cost[q],
         stale' = stale \ {p}
  PROVE  /\ LiveGranted' = LiveGranted \ {p}
         /\ LiveRefused' = LiveRefused \ {p}
         /\ p \in LiveGranted => Weight(LiveGranted)' = Weight(LiveGranted) - cost[p]
         /\ p \notin LiveGranted => Weight(LiveGranted)' = Weight(LiveGranted)
         /\ p \in LiveRefused => Weight(LiveRefused)' = Weight(LiveRefused) - cost[p]
         /\ p \notin LiveRefused => Weight(LiveRefused)' = Weight(LiveRefused)
<1>1. Charged' = Charged \ {p}
  BY DEF Charged
<1>2. Granted' = Granted \ {p}
  BY <1>1 DEF Granted, Fits, Charged
<1>3. Refused' = Refused \ {p}
  BY <1>1, <1>2 DEF Refused
<1>4. LiveGranted' = LiveGranted \ {p} /\ LiveRefused' = LiveRefused \ {p}
  BY <1>2, <1>3 DEF LiveGranted, LiveRefused
<1>5. LiveGranted \in SUBSET Caller /\ LiveRefused \in SUBSET Caller
  BY DEF LiveGranted, LiveRefused, Granted, Refused, Charged
<1>6. /\ Weight(LiveGranted)' = WeightOf(LiveGranted \ {p}, cost')
      /\ Weight(LiveRefused)' = WeightOf(LiveRefused \ {p}, cost')
  BY <1>4 DEF Weight
<1>7. \A S \in SUBSET Caller :
        /\ p \in S => WeightOf(S \ {p}, cost') = WeightOf(S, cost) - cost[p]
        /\ p \notin S => WeightOf(S \ {p}, cost') = WeightOf(S, cost)
  BY WeightWhenLeaving
<1> QED  BY <1>4, <1>5, <1>6, <1>7 DEF Weight

(* A call that moves on between commands stays where it is.                *)
LEMMA StaySets ==
  ASSUME TypeOK, TypeOK', UNCHANGED <<cost, current, stale>>,
         Charged' = Charged
  PROVE  /\ Granted' = Granted
         /\ LiveGranted' = LiveGranted /\ Weight(LiveGranted)' = Weight(LiveGranted)
         /\ LiveRefused' = LiveRefused /\ Weight(LiveRefused)' = Weight(LiveRefused)
BY DEF Granted, Refused, LiveGranted, LiveRefused, Fits, Charged, Weight

(* When the key vanishes nothing is charged to its next life yet.          *)
LEMMA VanishSets ==
  ASSUME KeyVanishes, Charged' = Charged
  PROVE  /\ LiveGranted' = {} /\ LiveRefused' = {}
         /\ Weight(LiveGranted)' = 0 /\ Weight(LiveRefused)' = 0
         /\ exists' \in BOOLEAN /\ count' \in Int /\ life' \in 0 .. TtlSec
         /\ stale' \in SUBSET Charged'
         /\ debt' \in Nat /\ leaked' \in Nat /\ granted' \in Nat
<1>1. LiveGranted' = {} /\ LiveRefused' = {}
  BY DEF KeyVanishes, LiveGranted, LiveRefused, Granted, Refused
<1>2. Weight(LiveGranted)' = 0 /\ Weight(LiveRefused)' = 0
  BY <1>1, WeightEmpty DEF Weight
<1>3. exists' \in BOOLEAN
  BY DEF KeyVanishes
<1>4. /\ count' \in Int /\ life' \in 0 .. TtlSec
      /\ debt' \in Nat /\ leaked' \in Nat /\ granted' \in Nat
  BY ConcurrencyAssumption DEF KeyVanishes
<1>5. stale' \in SUBSET Charged'
  BY DEF KeyVanishes
<1> QED  BY <1>1, <1>2, <1>3, <1>4, <1>5

-------------------------------------------------------------------------------
(* Type correctness is preserved, given the rest of the invariant: units   *)
(* are only ever given back by a call that was granted them.               *)

(* A call that holds units of this life is covered by `granted`.           *)
LEMMA HeldIsCovered ==
  ASSUME IInv, NEW p \in Caller, pc[p] = "held", p \notin stale
  PROVE  p \in LiveGranted /\ granted - cost[p] \in Nat
<1>1. p \in LiveGranted
  BY DEF IInv, VerdictKept, LiveGranted, Granted, Charged
<1>2. LiveGranted \in SUBSET Caller
  BY DEF LiveGranted, Granted, Charged
<1>3. /\ cost \in [Caller -> 1 .. MaxCost] /\ cost[p] \in Nat
      /\ granted \in Nat /\ granted >= WeightOf(LiveGranted, cost)
  BY ConcurrencyAssumption DEF IInv, TypeOK, GrantsCoverCalls, Weight
<1>4. /\ WeightOf(LiveGranted \ {p}, cost) \in Nat
      /\ WeightOf(LiveGranted \ {p}, cost) = WeightOf(LiveGranted, cost) - cost[p]
  BY <1>1, <1>2, <1>3, WeightWithout
<1>5. WeightOf(LiveGranted, cost) \in Nat
  BY <1>2, <1>3, WeightOfCallers
<1> QED  BY <1>1, <1>3, <1>4, <1>5

LEMMA TypeStep ==
  ASSUME IInv, [Next]_vars
  PROVE  TypeOK'
<1> USE ConcurrencyAssumption
<1> SUFFICES ASSUME TypeOK PROVE TypeOK'
  BY DEF IInv
<1>1. ASSUME NEW p \in Caller, Incrby(p) PROVE TypeOK'
  BY <1>1 DEF TypeOK, Incrby, Charged
<1>2. ASSUME NEW p \in Caller, ReadTtl(p) PROVE TypeOK'
  BY <1>2 DEF hist, TypeOK, ReadTtl, Goto, Verdict, key, Charged
<1>3. ASSUME NEW p \in Caller, SetExpire(p) PROVE TypeOK'
  BY <1>3 DEF hist, TypeOK, SetExpire, Goto, Verdict, Charged
<1>4. ASSUME NEW p \in Caller, Rollback(p) PROVE TypeOK'
  BY <1>4 DEF TypeOK, Rollback, TakeBack, Done, Charged
<1>5. ASSUME NEW p \in Caller, ReleaseDecr(p) PROVE TypeOK'
  <2>1. granted' \in Nat
    <3>1. CASE p \in stale
      BY <1>5, <3>1 DEF TypeOK, ReleaseDecr
    <3>2. CASE p \notin stale
      BY <1>5, <3>2, HeldIsCovered DEF ReleaseDecr
    <3> QED  BY <3>1, <3>2
  <2>2. CASE count - cost[p] < 0
    BY <1>5, <2>1, <2>2 DEF TypeOK, ReleaseDecr, TakeBack, Goto, Charged
  <2>3. CASE ~(count - cost[p] < 0)
    BY <1>5, <2>1, <2>3 DEF TypeOK, ReleaseDecr, TakeBack, Done, Charged
  <2> QED  BY <2>2, <2>3
<1>6. ASSUME NEW p \in Caller, ReleaseDelete(p) PROVE TypeOK'
  <2>1. Charged' = Charged
    BY <1>6 DEF TypeOK, ReleaseDelete, Charged
  <2>2. /\ pc' \in [Caller -> {"idle", "ttl", "expire", "rollback", "held", "delete"}]
        /\ cost' \in [Caller -> 1 .. MaxCost] /\ current' \in [Caller -> Int]
        /\ aborts' \in 0 .. MaxAborts
    BY <1>6 DEF TypeOK, ReleaseDelete
  <2>3. KeyVanishes
    BY <1>6 DEF ReleaseDelete
  <2> QED  BY <2>1, <2>2, <2>3, VanishSets DEF TypeOK
<1>7. ASSUME NEW p \in Caller, LeaveBehind(p) PROVE leaked' \in Nat
  <2>1. cost[p] \in Nat /\ leaked \in Nat
    BY DEF TypeOK
  <2> QED  BY <1>7, <2>1 DEF LeaveBehind
<1>8. ASSUME NEW p \in Caller, Complete(p) \/ Abort(p) PROVE TypeOK'
  <2>1. leaked' \in Nat
    BY <1>7, <1>8 DEF Complete, Abort
  <2>2. aborts' \in 0 .. MaxAborts /\ UNCHANGED <<exists, count, life, debt, granted>>
    BY <1>8 DEF TypeOK, Complete, Abort, key
  <2>3. /\ pc' \in [Caller -> {"idle", "ttl", "expire", "rollback", "held", "delete"}]
        /\ cost' \in [Caller -> 1 .. MaxCost] /\ current' \in [Caller -> Int]
    BY <1>8 DEF TypeOK, Complete, Abort, Done
  <2>4. stale' \in SUBSET Charged'
    BY <1>8 DEF TypeOK, Complete, Abort, Done, Charged
  <2> QED  BY <2>1, <2>2, <2>3, <2>4 DEF TypeOK
<1>9. CASE Tick
  <2>1. Charged' = Charged
    BY <1>9 DEF Tick, call, Charged
  <2>2. CASE life > 1
    BY <1>9, <2>1, <2>2 DEF TypeOK, Tick, call
  <2>3. CASE ~(life > 1)
    <3>1. KeyVanishes /\ UNCHANGED <<pc, cost, current, aborts>>
      BY <1>9, <2>3 DEF Tick, call
    <3> QED  BY <2>1, <3>1, VanishSets DEF TypeOK
  <2> QED  BY <2>2, <2>3
<1>10. CASE UNCHANGED vars
  <2>1. UNCHANGED <<exists, count, life, pc, cost, current>>
        /\ UNCHANGED <<stale, debt, leaked, granted, aborts>>
    BY <1>10 DEF vars, hist, key, call
  <2>2. Charged' = Charged
    BY <2>1 DEF Charged
  <2> QED  BY <2>1, <2>2 DEF TypeOK
<1> QED
  BY <1>1, <1>2, <1>3, <1>4, <1>5, <1>6, <1>8, <1>9, <1>10 DEF Next, Step

-------------------------------------------------------------------------------
(* The rest of the invariant, action by action.  Accounts is what the      *)
(* actions have to keep: the counter covers the grants, the grants are     *)
(* within budget, and they cover the calls in flight.                      *)
Accounts == /\ count + debt >= granted + Weight(LiveRefused)
            /\ granted <= Limit + debt
            /\ granted >= Weight(LiveGranted)

LEMMA AccountsOf ==
  IInv <=> TypeOK /\ VerdictKept /\ Accounts
BY DEF IInv, Accounts, CounterCoversGrants, BudgetPerKeyLife, GrantsCoverCalls,
       LiveRefused

(* The numbers the accounts are about.                                     *)
LEMMA Numbers ==
  ASSUME TypeOK
  PROVE  /\ Weight(LiveGranted) \in Nat /\ Weight(LiveRefused) \in Nat
         /\ count \in Int /\ debt \in Nat /\ granted \in Nat /\ Limit \in Nat
         /\ \A p \in Caller : cost[p] \in Nat /\ current[p] \in Int
<1>1. LiveGranted \in SUBSET Caller /\ LiveRefused \in SUBSET Caller
  BY DEF LiveGranted, LiveRefused, Granted, Refused, Charged
<1>2. Weight(LiveGranted) \in Nat /\ Weight(LiveRefused) \in Nat
  BY <1>1, WeightOfCallers DEF TypeOK, Weight
<1> QED  BY <1>2, ConcurrencyAssumption DEF TypeOK

LEMMA IncrbyKeeps ==
  ASSUME IInv, TypeOK', NEW p \in Caller, Incrby(p)
  PROVE  VerdictKept' /\ Accounts'
<1> TypeOK /\ VerdictKept /\ Accounts
  BY AccountsOf
<1>1. PICK c \in 1 .. MaxCost :
        /\ pc[p] = "idle"
        /\ exists' = TRUE /\ count' = count + c
        /\ pc' = [pc EXCEPT ![p] = "ttl"]
        /\ cost' = [cost EXCEPT ![p] = c]
        /\ current' = [current EXCEPT ![p] = count + c]
        /\ granted' = granted + (IF Fits(count + c) THEN c ELSE 0)
        /\ UNCHANGED <<life, stale, debt, aborts>>
  BY DEF Incrby
<1>2. VerdictKept'
  BY <1>1 DEF VerdictKept, TypeOK, Fits
<1>3. c \in Nat /\ cost'[p] = c /\ current'[p] = count + c
  BY <1>1, ConcurrencyAssumption DEF TypeOK
<1>4. p \notin Charged /\ p \notin stale
  BY <1>1 DEF TypeOK, Charged
<1>5. Charged' = Charged \cup {p}
  BY <1>1 DEF TypeOK, Charged
<1>6. LiveGranted \in SUBSET Caller /\ LiveRefused \in SUBSET Caller
      /\ p \notin LiveGranted /\ p \notin LiveRefused
  BY <1>4 DEF LiveGranted, LiveRefused, Granted, Refused, Charged
<1>7. \A q \in Caller \ {p} : cost'[q] = cost[q] /\ current'[q] = current[q]
  BY <1>1 DEF TypeOK
<1>8. cost \in [Caller -> 1 .. MaxCost] /\ cost' \in [Caller -> 1 .. MaxCost]
  BY DEF TypeOK
<1>9. /\ WeightOf(LiveGranted, cost') = Weight(LiveGranted)
      /\ WeightOf(LiveGranted \cup {p}, cost') = Weight(LiveGranted) + c
      /\ WeightOf(LiveRefused, cost') = Weight(LiveRefused)
      /\ WeightOf(LiveRefused \cup {p}, cost') = Weight(LiveRefused) + c
  <2>1. ASSUME NEW S \in SUBSET Caller, p \notin S
        PROVE  /\ WeightOf(S, cost') = WeightOf(S, cost)
               /\ WeightOf(S \cup {p}, cost') = WeightOf(S, cost) + cost'[p]
    <3>1. \A q \in Caller \ {p} : cost'[q] = cost[q]
      BY <1>7
    <3> QED  BY <1>8, <2>1, <3>1, WeightWith
  <2> QED  BY <1>3, <1>6, <2>1 DEF Weight
<1>10. CASE Fits(count + c)
  <2>1. Granted' = Granted \cup {p}
    BY <1>3, <1>4, <1>5, <1>7, <1>10 DEF Granted, Fits, Charged
  <2>2. LiveGranted' = LiveGranted \cup {p} /\ LiveRefused' = LiveRefused
    BY <1>1, <1>4, <1>5, <2>1 DEF LiveGranted, LiveRefused, Refused
  <2>3. Weight(LiveGranted)' = Weight(LiveGranted) + c
        /\ Weight(LiveRefused)' = Weight(LiveRefused)
    BY <1>9, <2>2 DEF Weight
  <2>4. count' = count + c /\ granted' = granted + c /\ debt' = debt /\ count + c <= Limit
    BY <1>1, <1>10 DEF Fits
  <2> QED  BY <1>2, <1>3, <2>3, <2>4, Numbers DEF Accounts
<1>11. CASE ~Fits(count + c)
  <2>1. Granted' = Granted
    BY <1>3, <1>4, <1>5, <1>7, <1>11 DEF Granted, Fits, Charged
  <2>2. LiveGranted' = LiveGranted /\ LiveRefused' = LiveRefused \cup {p}
    BY <1>1, <1>4, <1>5, <2>1 DEF LiveGranted, LiveRefused, Refused, Granted
  <2>3. Weight(LiveGranted)' = Weight(LiveGranted)
        /\ Weight(LiveRefused)' = Weight(LiveRefused) + c
    BY <1>9, <2>2 DEF Weight
  <2>4. count' = count + c /\ granted' = granted /\ debt' = debt
    BY <1>1, <1>3, <1>11, Numbers
  <2> QED  BY <1>2, <1>3, <2>3, <2>4, Numbers DEF Accounts
<1> QED  BY <1>10, <1>11

(* The steps between the commands that move the counter.                   *)
LEMMA WaitKeeps ==
  ASSUME IInv, TypeOK', NEW p \in Caller, ReadTtl(p) \/ SetExpire(p)
  PROVE  VerdictKept' /\ Accounts'
<1> TypeOK /\ VerdictKept /\ Accounts
  BY AccountsOf
<1>1. UNCHANGED <<cost, current, stale, count, debt, granted>>
  BY DEF hist, ReadTtl, SetExpire, Goto, key
<1>2. Charged' = Charged /\ VerdictKept'
  BY DEF hist, ReadTtl, SetExpire, Goto, Verdict, Charged, VerdictKept, TypeOK, Fits
<1> QED  BY <1>1, <1>2, StaySets, Numbers DEF Accounts

(* A call that takes its units back, or leaves them behind.                *)
LEMMA LeaveKeeps ==
  ASSUME IInv, TypeOK', NEW p \in Caller,
         Rollback(p) \/ ReleaseDecr(p) \/ Complete(p) \/ Abort(p)
  PROVE  VerdictKept' /\ Accounts'
<1> TypeOK /\ VerdictKept /\ Accounts
  BY AccountsOf
<1>1. /\ pc'[p] \in {"idle", "delete"} /\ stale' = stale \ {p}
      /\ \A q \in Caller \ {p} : pc'[q] = pc[q] /\ current'[q] = current[q]
      /\ \A q \in Caller \ {p} : cost'[q] = cost[q]
  BY DEF LeaveBehind, Rollback, ReleaseDecr, Complete, Abort, Goto, Done, TypeOK
<1>2. VerdictKept'
  BY <1>1 DEF VerdictKept, TypeOK, Fits
<1>3. /\ p \in LiveGranted => Weight(LiveGranted)' = Weight(LiveGranted) - cost[p]
      /\ p \notin LiveGranted => Weight(LiveGranted)' = Weight(LiveGranted)
      /\ p \in LiveRefused => Weight(LiveRefused)' = Weight(LiveRefused) - cost[p]
      /\ p \notin LiveRefused => Weight(LiveRefused)' = Weight(LiveRefused)
  BY <1>1, LeaveSets
<1>4. cost[p] \in Nat
  BY Numbers
<1>5. CASE Rollback(p)
  <2>1. /\ count' = count - cost[p] /\ granted' = granted
        /\ debt' = debt + (IF p \in stale THEN cost[p] ELSE 0)
    BY <1>5 DEF Rollback, TakeBack
  <2>2. p \notin LiveGranted /\ (p \in LiveRefused <=> p \notin stale)
    BY <1>5 DEF Rollback, LiveGranted, LiveRefused, Refused, Granted, Charged,
                VerdictKept
  <2> QED  BY <1>2, <1>3, <1>4, <2>1, <2>2, Numbers DEF Accounts
<1>6. CASE ReleaseDecr(p)
  <2>1. /\ count' = count - cost[p]
        /\ granted' = granted - (IF p \in stale THEN 0 ELSE cost[p])
        /\ debt' = debt + (IF p \in stale THEN cost[p] ELSE 0)
    BY <1>6 DEF ReleaseDecr, TakeBack
  <2>2. p \notin LiveRefused /\ (p \in LiveGranted <=> p \notin stale)
    BY <1>6 DEF ReleaseDecr, LiveGranted, LiveRefused, Refused, Granted, Charged,
                VerdictKept
  <2> QED  BY <1>2, <1>3, <1>4, <2>1, <2>2, Numbers DEF Accounts
<1>7. CASE Complete(p) \/ Abort(p)
  <2>1. UNCHANGED <<count, debt, granted>>
    BY <1>7 DEF LeaveBehind, Complete, Abort, key
  <2> QED  BY <1>2, <1>3, <1>4, <2>1, Numbers DEF Accounts
<1> QED  BY <1>5, <1>6, <1>7

(* The key vanishes: the accounts of its next life start at zero.          *)
LEMMA VanishKeeps ==
  ASSUME IInv, TypeOK', KeyVanishes, Charged' = Charged, VerdictKept'
  PROVE  Accounts'
<1>1. count' = 0 /\ debt' = 0 /\ granted' = 0
  BY DEF KeyVanishes
<1> QED  BY <1>1, VanishSets, ConcurrencyAssumption DEF Accounts

LEMMA InvStep ==
  ASSUME IInv, [Next]_vars
  PROVE  IInv'
<1> TypeOK /\ VerdictKept /\ Accounts
  BY AccountsOf
<1>1. TypeOK'
  BY TypeStep
<1>2. SUFFICES VerdictKept' /\ Accounts'
  BY <1>1, AccountsOf, PTL
<1>3. ASSUME NEW p \in Caller, Incrby(p) PROVE VerdictKept' /\ Accounts'
  BY <1>1, <1>3, IncrbyKeeps
<1>4. ASSUME NEW p \in Caller, ReadTtl(p) \/ SetExpire(p)
      PROVE  VerdictKept' /\ Accounts'
  BY <1>1, <1>4, WaitKeeps
<1>5. ASSUME NEW p \in Caller,
             Rollback(p) \/ ReleaseDecr(p) \/ Complete(p) \/ Abort(p)
      PROVE  VerdictKept' /\ Accounts'
  BY <1>1, <1>5, LeaveKeeps
<1>6. ASSUME NEW p \in Caller, ReleaseDelete(p) PROVE VerdictKept' /\ Accounts'
  <2>1. KeyVanishes /\ Charged' = Charged
    BY <1>6 DEF ReleaseDelete, Charged, TypeOK
  <2>2. VerdictKept'
    BY <1>6 DEF ReleaseDelete, VerdictKept, TypeOK, Fits
  <2> QED  BY <1>1, <2>1, <2>2, VanishKeeps
<1>7. CASE Tick
  <2>1. UNCHANGED <<pc, cost, current>> /\ Charged' = Charged
    BY <1>7 DEF Tick, call, Charged
  <2>2. VerdictKept'
    BY <2>1 DEF VerdictKept, Fits
  <2>3. CASE KeyVanishes
    BY <1>1, <2>1, <2>2, <2>3, VanishKeeps
  <2>4. CASE UNCHANGED <<exists, count, stale, debt, granted>>
    BY <2>1, <2>2, <2>4, StaySets, <1>1, Numbers DEF Accounts
  <2> QED  BY <1>7, <2>3, <2>4 DEF Tick
<1>8. CASE UNCHANGED vars
  <2>1. UNCHANGED <<pc, cost, current, stale, count, debt, granted>>
    BY <1>8 DEF hist, vars, key, call
  <2>2. Charged' = Charged /\ VerdictKept'
    BY <2>1 DEF Charged, VerdictKept, Fits
  <2> QED  BY <1>1, <2>1, <2>2, StaySets, Numbers DEF Accounts
<1> QED  BY <1>3, <1>4, <1>5, <1>6, <1>7, <1>8 DEF Next, Step

-------------------------------------------------------------------------------
(* The theorems.                                                           *)

LEMMA InvInit == Init => IInv
<1> SUFFICES ASSUME Init PROVE IInv
  OBVIOUS
<1>1. Charged = {} /\ LiveGranted = {} /\ LiveRefused = {}
  BY DEF Init, Charged, LiveGranted, LiveRefused, Granted, Refused
<1>2. TypeOK
  <2>1. exists \in BOOLEAN
    BY DEF Init
  <2>2. /\ pc \in [Caller -> {"idle", "ttl", "expire", "rollback", "held", "delete"}]
        /\ cost \in [Caller -> 1 .. MaxCost] /\ current \in [Caller -> Int]
    BY ConcurrencyAssumption DEF Init
  <2>3. /\ count \in Int /\ life \in 0 .. TtlSec
        /\ debt \in Nat /\ leaked \in Nat /\ granted \in Nat
        /\ aborts \in 0 .. MaxAborts
    BY ConcurrencyAssumption DEF Init
  <2>4. stale \in SUBSET Charged
    BY DEF Init
  <2> QED  BY <2>1, <2>2, <2>3, <2>4 DEF TypeOK
<1>3. VerdictKept
  BY DEF Init, VerdictKept
<1>4. Accounts
  BY <1>1, WeightEmpty, ConcurrencyAssumption DEF Init, Accounts, Weight
<1> QED  BY <1>2, <1>3, <1>4, AccountsOf

(* The inductive invariant holds in every reachable state.                 *)
THEOREM Invariance == Spec => []IInv
<1>1. Init => IInv
  BY InvInit
<1>2. IInv /\ [Next]_vars => IInv'
  BY InvStep
<1> QED  BY <1>1, <1>2, PTL DEF Spec

(* The state of the key and of the callers stays in its types; in          *)
(* particular `granted` never goes below zero, so nothing is given back    *)
(* twice in one life of the key.                                           *)
THEOREM TypeCorrect == Spec => []TypeOK
<1>1. IInv => TypeOK
  BY DEF IInv
<1> QED  BY <1>1, Invariance, PTL

(* Lines 17, 44 and 66: however the INCRBY and DECRBY of calls interleave, *)
(* the counter covers what it granted and has yet to take back.            *)
THEOREM CounterSafe == Spec => []CounterCoversGrants
<1>1. IInv => CounterCoversGrants
  BY DEF IInv
<1> QED  BY <1>1, Invariance, PTL

(* Line 24: one life of the key grants at most Limit units, plus what      *)
(* calls of an earlier life took from its counter.                         *)
THEOREM BudgetSafe == Spec => []BudgetPerKeyLife
<1>1. IInv => BudgetPerKeyLife
  BY DEF IInv
<1> QED  BY <1>1, Invariance, PTL

(* Line 24: so do the calls in flight that the key knows of.               *)
THEOREM LiveCallsSafe == Spec => []LiveCallsWithinLimit
<1>1. IInv => LiveCallsWithinLimit
  <2> SUFFICES ASSUME IInv PROVE LiveCallsWithinLimit
    OBVIOUS
  <2>1. granted >= Weight(LiveGranted) /\ granted <= Limit + debt
    BY DEF IInv, GrantsCoverCalls, BudgetPerKeyLife
  <2> QED  BY <2>1, Numbers DEF IInv, LiveCallsWithinLimit, LiveGranted
<1> QED  BY <1>1, Invariance, PTL

-------------------------------------------------------------------------------
(* Lines 19 to 22: a key without a TTL, that no caller is about to give    *)
(* one, was created by a DECRBY, and holds a negative value.               *)
AbsentIsZero == ~exists => count = 0

LEMMA NoImmortalChargeStep ==
  ASSUME TypeOK, AbsentIsZero, NoImmortalCharge, [Next]_vars
  PROVE  AbsentIsZero' /\ NoImmortalCharge'
<1>1. ASSUME NEW p \in Caller, Incrby(p)
      PROVE  AbsentIsZero' /\ NoImmortalCharge'
  <2>1. exists' = TRUE /\ pc'[p] = "ttl"
    BY <1>1 DEF Incrby, TypeOK
  <2> QED  BY <2>1 DEF AbsentIsZero, NoImmortalCharge
<1>2. ASSUME NEW p \in Caller, ReadTtl(p)
      PROVE  AbsentIsZero' /\ NoImmortalCharge'
  <2>1. UNCHANGED <<exists, count, life, aborts>>
    BY <1>2 DEF hist, ReadTtl, key
  <2>2. life = 0 => pc'[p] = "expire"
    BY <1>2 DEF hist, ReadTtl, Goto, NeedsExpire, TypeOK
  <2> QED  BY <2>1, <2>2 DEF AbsentIsZero, NoImmortalCharge
<1>3. ASSUME NEW p \in Caller, SetExpire(p)
      PROVE  AbsentIsZero' /\ NoImmortalCharge'
  <2>1. UNCHANGED <<exists, count>> /\ (exists => life' # 0)
    BY <1>3, ConcurrencyAssumption DEF hist, SetExpire
  <2> QED  BY <2>1 DEF AbsentIsZero, NoImmortalCharge
<1>4. ASSUME NEW p \in Caller, Rollback(p) \/ ReleaseDecr(p)
      PROVE  AbsentIsZero' /\ NoImmortalCharge'
  <2>1. /\ exists' = TRUE /\ count' = count - cost[p] /\ UNCHANGED <<life, aborts>>
        /\ pc[p] \notin {"ttl", "expire"}
        /\ \A q \in Caller \ {p} : pc'[q] = pc[q]
    BY <1>4 DEF Rollback, ReleaseDecr, TakeBack, Goto, Done, TypeOK
  <2>2. count \in Int /\ cost[p] \in Nat /\ cost[p] > 0
    BY ConcurrencyAssumption DEF TypeOK
  <2>3. CASE exists
    BY <2>1, <2>2, <2>3 DEF AbsentIsZero, NoImmortalCharge
  <2>4. CASE ~exists
    BY <2>1, <2>2, <2>4 DEF AbsentIsZero, NoImmortalCharge
  <2> QED  BY <2>3, <2>4
<1>5. ASSUME NEW p \in Caller, ReleaseDelete(p)
      PROVE  AbsentIsZero' /\ NoImmortalCharge'
  BY <1>5 DEF ReleaseDelete, KeyVanishes, AbsentIsZero, NoImmortalCharge
<1>6. ASSUME NEW p \in Caller, Complete(p)
      PROVE  AbsentIsZero' /\ NoImmortalCharge'
  <2>1. /\ UNCHANGED <<exists, count, life, aborts>>
        /\ pc[p] \notin {"ttl", "expire"}
        /\ \A q \in Caller \ {p} : pc'[q] = pc[q]
    BY <1>6 DEF LeaveBehind, Complete, Done, key, TypeOK
  <2> QED  BY <2>1 DEF AbsentIsZero, NoImmortalCharge
<1>7. ASSUME NEW p \in Caller, Abort(p)
      PROVE  AbsentIsZero' /\ NoImmortalCharge'
  <2>1. UNCHANGED <<exists, count>> /\ aborts' # 0
    BY <1>7 DEF LeaveBehind, Abort, key, TypeOK
  <2> QED  BY <2>1 DEF AbsentIsZero, NoImmortalCharge
<1>8. CASE Tick
  <2>1. CASE life > 1
    <3>1. UNCHANGED <<exists, count>> /\ life' # 0
      BY <1>8, <2>1 DEF Tick, TypeOK
    <3> QED  BY <3>1 DEF AbsentIsZero, NoImmortalCharge
  <2>2. CASE ~(life > 1)
    BY <1>8, <2>2 DEF Tick, KeyVanishes, AbsentIsZero, NoImmortalCharge
  <2> QED  BY <2>1, <2>2
<1>9. CASE UNCHANGED vars
  BY <1>9 DEF hist, vars, key, call, AbsentIsZero, NoImmortalCharge
<1> QED
  BY <1>1, <1>2, <1>3, <1>4, <1>5, <1>6, <1>7, <1>8, <1>9 DEF Next, Step

(* Lines 19 to 22: whatever the callers' order, no charge outlives the TTL *)
(* for want of an EXPIRE, unless a call died between INCRBY and EXPIRE.    *)
THEOREM NoImmortalSafe == Spec => []NoImmortalCharge
<1>1. Init => AbsentIsZero /\ NoImmortalCharge
  BY DEF Init, AbsentIsZero, NoImmortalCharge
<1>2. TypeOK /\ AbsentIsZero /\ NoImmortalCharge /\ [Next]_vars
        => (AbsentIsZero /\ NoImmortalCharge)'
  BY NoImmortalChargeStep
<1> QED  BY <1>1, <1>2, TypeCorrect, PTL DEF Spec

-------------------------------------------------------------------------------
(* Lines 19 to 22: why leaked units come back.  A call that leaves the     *)
(* ones about to set the TTL gives up the time it would have set; none     *)
(* joins them while there is a TTL.                                        *)
LEMMA FewerExpire ==
  ASSUME TypeOK, Expiring' \subseteq Expiring
  PROVE  /\ TtlSec * Cardinality(Expiring') <= TtlSec * Cardinality(Expiring)
         /\ \A p \in Expiring \ Expiring' :
              TtlSec * Cardinality(Expiring') + TtlSec <= TtlSec * Cardinality(Expiring)
         /\ TtlSec * Cardinality(Expiring') \in Nat /\ TtlSec * Cardinality(Expiring) \in Nat
<1> DEFINE n == Cardinality(Expiring)
           m == Cardinality(Expiring')
<1>1. IsFiniteSet(Expiring)
  BY FS_Subset, ConcurrencyAssumption DEF Expiring
<1>2. n \in Nat /\ m \in Nat /\ m <= n
  BY <1>1, FS_Subset, FS_CardinalityType
<1>3. (Expiring \ Expiring') # {} => m + 1 <= n
  BY <1>1, <1>2, FS_Subset
<1>4. TtlSec \in Nat
  BY ConcurrencyAssumption
<1> HIDE DEF n, m
<1>5. \A i, j \in Nat : i <= j => TtlSec * i <= TtlSec * j
  <2> SUFFICES ASSUME NEW i \in Nat, NEW j \in Nat, i <= j
               PROVE  TtlSec * i <= TtlSec * j
    OBVIOUS
  <2>1. TtlSec * (i + (j - i)) = TtlSec * i + TtlSec * (j - i) /\ TtlSec * (j - i) \in Nat
    BY <1>4
  <2> QED  BY <2>1, <1>4
<1>6. TtlSec * m <= TtlSec * n /\ TtlSec * m \in Nat /\ TtlSec * n \in Nat
  BY <1>2, <1>4, <1>5
<1>7. (Expiring \ Expiring') # {} => TtlSec * m + TtlSec <= TtlSec * n
  <2>1. TtlSec * (m + 1) = TtlSec * m + TtlSec
    BY <1>2, <1>4
  <2>2. m + 1 <= n => TtlSec * (m + 1) <= TtlSec * n
    BY <1>2, <1>5
  <2> QED  BY <1>3, <2>1, <2>2
<1> QED  BY <1>6, <1>7 DEF n, m

LEMMA TimeStep ==
  ASSUME TypeOK, TypeOK', [Next]_vars, life > 0, life' > 0
  PROVE  TimeLeft' <= TimeLeft /\ (life' < life => TimeLeft' < TimeLeft)
<1>0. life \in Nat /\ life' \in Nat /\ life <= TtlSec /\ TtlSec \in Nat
  BY ConcurrencyAssumption DEF TypeOK
<1>1. ASSUME NEW p \in Caller, SetExpire(p)
      PROVE  life' = TtlSec /\ p \in Expiring \ Expiring' /\ Expiring' \subseteq Expiring
  <2>1. pc[p] = "expire" /\ pc' = [pc EXCEPT ![p] = Verdict(p)] /\ Verdict(p) # "expire"
    BY <1>1 DEF hist, SetExpire, Goto, Verdict
  <2> QED  BY <1>0, <1>1, <2>1 DEF hist, SetExpire, Expiring, TypeOK
<1>2. ASSUME NEW p \in Caller,
             Incrby(p) \/ ReadTtl(p) \/ Rollback(p) \/ ReleaseDecr(p) \/ Complete(p) \/ Abort(p)
      PROVE  life' = life /\ Expiring' \subseteq Expiring
  <2>1. life' = life
    BY <1>2 DEF LeaveBehind, hist, Incrby, ReadTtl, Rollback, ReleaseDecr, Complete, Abort, TakeBack, key
  <2>2. pc'[p] # "expire" /\ \A q \in Caller \ {p} : pc'[q] = pc[q]
    <3>1. CASE ReadTtl(p)
      BY <3>1 DEF hist, ReadTtl, Goto, NeedsExpire, Verdict, TypeOK
    <3>2. CASE Incrby(p)
      BY <3>2 DEF Incrby, TypeOK
    <3>3. CASE Rollback(p) \/ ReleaseDecr(p) \/ Complete(p) \/ Abort(p)
      BY <3>3 DEF LeaveBehind, Rollback, ReleaseDecr, Complete, Abort, Goto, Done, TypeOK
    <3> QED  BY <1>2, <3>1, <3>2, <3>3
  <2> QED  BY <2>1, <2>2 DEF Expiring
<1>3. ASSUME NEW p \in Caller, ReleaseDelete(p) PROVE FALSE
  BY <1>0, <1>3 DEF ReleaseDelete, KeyVanishes
<1>4. ASSUME Tick PROVE life' <= life /\ Expiring' \subseteq Expiring
  BY <1>0, <1>4 DEF Tick, KeyVanishes, call, Expiring
<1>5. ASSUME UNCHANGED vars PROVE life' <= life /\ Expiring' \subseteq Expiring
  BY <1>0, <1>5 DEF hist, vars, key, call, Expiring
<1>6. \/ life' = TtlSec /\ (\E p \in Caller : p \in Expiring \ Expiring') /\ Expiring' \subseteq Expiring
      \/ life' <= life /\ Expiring' \subseteq Expiring
  BY <1>0, <1>1, <1>2, <1>3, <1>4, <1>5 DEF Next, Step
<1> DEFINE n == TtlSec * Cardinality(Expiring)
           m == TtlSec * Cardinality(Expiring')
<1>7. TimeLeft = life + n /\ TimeLeft' = life' + m
  BY DEF TimeLeft
<1>8. n \in Nat /\ m \in Nat /\ m <= n /\ (life' <= life \/ (life' = TtlSec /\ m + TtlSec <= n))
  BY <1>6, FewerExpire
<1> DEFINE k == life
           l == life'
<1> HIDE DEF n, m, k, l
<1>9. /\ k \in Nat /\ l \in Nat /\ k <= TtlSec /\ TtlSec \in Nat /\ n \in Nat /\ m \in Nat
      /\ m <= n /\ (l <= k \/ (l = TtlSec /\ m + TtlSec <= n))
  BY <1>0, <1>8 DEF k, l
<1>10. l + m <= k + n /\ (l < k => l + m < k + n)
  BY ONLY <1>9
<1> QED  BY <1>7, <1>10 DEF k, l

(* Lines 19 to 22: from its first EXPIRE on, traffic cannot prolong the    *)
(* time the key has left: each of the calls that found no TTL may set one, *)
(* once, and time takes the rest.                                          *)
THEOREM TimeSafe == Spec => TrafficKeepsNoKey
<1>1. TypeOK /\ TypeOK' /\ [Next]_vars
        => [life > 0 /\ life' > 0 =>
              TimeLeft' <= TimeLeft /\ (life' < life => TimeLeft' < TimeLeft)]_vars
  BY TimeStep
<1> QED  BY <1>1, TypeCorrect, PTL DEF Spec, TrafficKeepsNoKey

-------------------------------------------------------------------------------
(* Lines 44 and 66: no unit is withheld.  The calls that the counter may   *)
(* count, those charged in this life of the key:                           *)
LiveCharged == Charged \ stale

(* A call that ends, or moves on to its DELETE, is no longer charged.      *)
LEMMA ChargedLeaves ==
  ASSUME TypeOK, TypeOK', NEW p \in Caller, pc'[p] \in {"idle", "delete"},
         \A q \in Caller \ {p} : pc'[q] = pc[q] /\ cost'[q] = cost[q],
         stale' = stale \ {p}
  PROVE  /\ Weight(LiveCharged)' \in Nat
         /\ Weight(LiveCharged)' =
              Weight(LiveCharged) - (IF p \in LiveCharged THEN cost[p] ELSE 0)
         /\ Weight(LiveCharged)' >= Weight(LiveCharged) - cost[p]
<1>1. LiveCharged' = LiveCharged \ {p}
  BY DEF LiveCharged, Charged
<1>2. LiveCharged \in SUBSET Caller
  BY DEF LiveCharged, Charged
<1>3. Weight(LiveCharged)' = WeightOf(LiveCharged \ {p}, cost')
  BY <1>1 DEF Weight
<1>4. cost' \in [Caller -> 1 .. MaxCost] /\ cost \in [Caller -> 1 .. MaxCost]
  BY DEF TypeOK
<1>5. WeightOf(LiveCharged \ {p}, cost') \in Nat /\ WeightOf(LiveCharged, cost) \in Nat
  BY <1>2, <1>4, WeightOfCallers
<1>6. cost[p] \in Nat
  BY <1>4, ConcurrencyAssumption
<1>7. WeightOf(LiveCharged \ {p}, cost') =
        WeightOf(LiveCharged, cost) - (IF p \in LiveCharged THEN cost[p] ELSE 0)
  <2>1. CASE p \in LiveCharged
    BY <1>2, <2>1, WeightWhenLeaving
  <2>2. CASE p \notin LiveCharged
    BY <1>2, <1>5, <2>2, WeightWhenLeaving
  <2> QED  BY <2>1, <2>2
<1>8. WeightOf(LiveCharged \ {p}, cost') >= WeightOf(LiveCharged, cost) - cost[p]
  <2> DEFINE m == WeightOf(LiveCharged \ {p}, cost')
             n == WeightOf(LiveCharged, cost)
  <2>1. m \in Nat /\ n \in Nat /\ m = n - (IF p \in LiveCharged THEN cost[p] ELSE 0)
    BY <1>5, <1>7
  <2> HIDE DEF m, n
  <2>2. m >= n - cost[p]
    BY <1>6, <2>1
  <2> QED  BY <2>2 DEF m, n
<1> QED  BY <1>3, <1>5, <1>7, <1>8 DEF Weight

(* A call that arrives is charged.                                         *)
LEMMA ArrivalWeighs ==
  ASSUME TypeOK, TypeOK', NEW p \in Caller, NEW c \in 1 .. MaxCost,
         cost' = [cost EXCEPT ![p] = c], pc[p] = "idle",
         pc' = [pc EXCEPT ![p] = "ttl"], stale' = stale
  PROVE  Weight(LiveCharged)' = Weight(LiveCharged) + c
<1>1. p \notin Charged /\ p \notin stale /\ LiveCharged' = LiveCharged \cup {p}
  BY DEF TypeOK, LiveCharged, Charged
<1>2. LiveCharged \in SUBSET Caller /\ p \notin LiveCharged
  BY <1>1 DEF LiveCharged, Charged
<1>3. \A q \in Caller \ {p} : cost'[q] = cost[q]
  BY DEF TypeOK
<1>4. cost \in [Caller -> 1 .. MaxCost] /\ cost' \in [Caller -> 1 .. MaxCost] /\ cost'[p] = c
  BY DEF TypeOK
<1>5. WeightOf(LiveCharged \cup {p}, cost') = WeightOf(LiveCharged, cost) + cost'[p]
  <2> DEFINE f == cost  g == cost'
  <2>1. f \in [Caller -> 1 .. MaxCost] /\ g \in [Caller -> 1 .. MaxCost]
        /\ \A q \in Caller \ {p} : g[q] = f[q]
    BY <1>3, <1>4
  <2> HIDE DEF f, g
  <2>2. WeightOf(LiveCharged \cup {p}, g) = WeightOf(LiveCharged, f) + g[p]
    BY <1>2, <2>1, WeightWith
  <2> QED  BY <2>2 DEF f, g
<1> QED  BY <1>1, <1>4, <1>5 DEF Weight

(* A call between its INCRBY and its verdict stays charged.                *)
LEMMA WaitUnseen ==
  ASSUME TypeOK, NEW p \in Caller, ReadTtl(p) \/ SetExpire(p)
  PROVE  Charged' = Charged
BY DEF ReadTtl, SetExpire, Goto, Verdict, Charged, TypeOK

LEMMA WithheldStep ==
  ASSUME HasRelease, TypeOK, TypeOK', NoUnitWithheld, [Next]_vars
  PROVE  NoUnitWithheld'
<1> DEFINE w == Weight(LiveCharged)
           d == aborts * MaxCost
<1>0. /\ count \in Int /\ w \in Nat /\ d \in Nat /\ aborts \in Nat /\ MaxCost \in Nat
      /\ count <= w + d
      /\ \A p \in Caller : cost[p] \in Nat /\ cost[p] <= MaxCost
  <2>1. cost \in [Caller -> 1 .. MaxCost] /\ LiveCharged \in SUBSET Caller
    BY DEF TypeOK, LiveCharged, Charged
  <2>2. w \in Nat
    BY <2>1, WeightOfCallers DEF Weight
  <2>3. count \in Int /\ aborts \in Nat /\ MaxCost \in Nat
    BY ConcurrencyAssumption DEF TypeOK
  <2>4. d \in Nat
    BY <2>3
  <2> QED  BY <2>1, <2>2, <2>3, <2>4, ConcurrencyAssumption DEF NoUnitWithheld, LiveCharged
<1>1. ASSUME NEW p \in Caller, Incrby(p) PROVE NoUnitWithheld'
  <2>1. PICK c \in 1 .. MaxCost :
          /\ count' = count + c /\ cost' = [cost EXCEPT ![p] = c]
          /\ pc[p] = "idle" /\ pc' = [pc EXCEPT ![p] = "ttl"] /\ UNCHANGED <<stale, aborts>>
    BY <1>1 DEF Incrby
  <2>2. c \in Nat
    BY ConcurrencyAssumption
  <2>3. stale' = stale
    BY <2>1
  <2>4. Weight(LiveCharged)' = w + c
    BY <2>1, <2>3, ArrivalWeighs
  <2>5. count' <= Weight(LiveCharged)' + d
    BY <1>0, <2>1, <2>2, <2>4
  <2> QED  BY <2>1, <2>5 DEF NoUnitWithheld, LiveCharged
<1>2. ASSUME NEW p \in Caller, ReadTtl(p) \/ SetExpire(p) PROVE NoUnitWithheld'
  <2>1. /\ UNCHANGED <<count, cost, stale, aborts>>
        /\ pc[p] \in {"ttl", "expire"} /\ pc'[p] \in {"expire", "rollback", "held"}
        /\ \A q \in Caller \ {p} : pc'[q] = pc[q]
    BY <1>2 DEF hist, ReadTtl, SetExpire, Goto, Verdict, key, TypeOK
  <2>2. Charged' = Charged
    BY <2>1 DEF Charged
  <2> QED  BY <2>1, <2>2 DEF NoUnitWithheld, Weight
<1>3. ASSUME NEW p \in Caller, Rollback(p) \/ ReleaseDecr(p) PROVE NoUnitWithheld'
  <2>1. /\ count' = count - cost[p] /\ aborts' = aborts /\ stale' = stale \ {p}
        /\ pc'[p] \in {"idle", "delete"}
        /\ \A q \in Caller \ {p} : pc'[q] = pc[q] /\ cost'[q] = cost[q]
    BY <1>3 DEF Rollback, ReleaseDecr, TakeBack, Goto, Done, TypeOK
  <2>2. Weight(LiveCharged)' >= w - cost[p] /\ Weight(LiveCharged)' \in Nat
    BY <2>1, ChargedLeaves
  <2> HIDE DEF w, d
  <2>3. count' <= Weight(LiveCharged)' + d
    BY <1>0, <2>1, <2>2
  <2> QED  BY <2>1, <2>3 DEF NoUnitWithheld, LiveCharged, d
<1>4. ASSUME NEW p \in Caller, Abort(p) PROVE NoUnitWithheld'
  <2>1. /\ count' = count /\ aborts' = aborts + 1 /\ stale' = stale \ {p}
        /\ pc'[p] \in {"idle", "delete"}
        /\ \A q \in Caller \ {p} : pc'[q] = pc[q] /\ cost'[q] = cost[q]
    BY <1>4 DEF LeaveBehind, Abort, Done, key, TypeOK
  <2>2. Weight(LiveCharged)' >= w - cost[p] /\ Weight(LiveCharged)' \in Nat
    BY <2>1, ChargedLeaves
  <2>3. aborts' * MaxCost = d + MaxCost
    BY <1>0, <2>1
  <2> HIDE DEF w, d
  <2>4. count' <= Weight(LiveCharged)' + (d + MaxCost)
    BY <1>0, <2>1, <2>2
  <2> QED  BY <2>3, <2>4 DEF NoUnitWithheld, LiveCharged
<1>5. ASSUME KeyVanishes, aborts' = aborts PROVE NoUnitWithheld'
  <2>1. Weight(LiveCharged)' \in Nat
    <3>1. LiveCharged' \in SUBSET Caller /\ cost' \in [Caller -> 1 .. MaxCost]
      BY DEF TypeOK, LiveCharged, Charged
    <3> QED  BY <3>1, WeightOfCallers DEF Weight
  <2> HIDE DEF w, d
  <2>2. count' <= Weight(LiveCharged)' + d
    BY <1>0, <1>5, <2>1 DEF KeyVanishes
  <2> QED  BY <1>5, <2>2 DEF NoUnitWithheld, LiveCharged, d
<1>6. ASSUME NEW p \in Caller, ReleaseDelete(p) \/ Complete(p) PROVE NoUnitWithheld'
  BY <1>5, <1>6 DEF LeaveBehind, ReleaseDelete, Complete
<1>7. CASE Tick
  <2>1. CASE life > 1
    BY <1>7, <2>1 DEF Tick, call, NoUnitWithheld, Weight, Charged
  <2>2. CASE ~(life > 1)
    BY <1>5, <1>7, <2>2 DEF Tick
  <2> QED  BY <2>1, <2>2
<1>8. CASE UNCHANGED vars
  BY <1>8 DEF hist, vars, key, call, NoUnitWithheld, Weight, Charged
<1> QED
  BY <1>1, <1>2, <1>3, <1>4, <1>6, <1>7, <1>8 DEF Next, Step

(* concurrency.py, lines 44 and 66: rollback and release give back what    *)
(* INCRBY took, so that with callers who release no unit is withheld but   *)
(* those of calls under way and of calls that died, whatever expires.      *)
THEOREM WithheldSafe == Spec => []NoUnitWithheld
<1>1. CASE HasRelease
  <2>1. Init => NoUnitWithheld
    <3> SUFFICES ASSUME Init PROVE count <= Weight(LiveCharged) + aborts * MaxCost
      BY DEF NoUnitWithheld, LiveCharged
    <3>1. LiveCharged = {} /\ count = 0 /\ aborts * MaxCost = 0
      BY ConcurrencyAssumption DEF Init, LiveCharged, Charged
    <3>2. Weight(LiveCharged) = 0
      BY <3>1, WeightEmpty DEF Weight
    <3> QED  BY <3>1, <3>2
  <2>2. TypeOK /\ TypeOK' /\ NoUnitWithheld /\ [Next]_vars => NoUnitWithheld'
    BY <1>1, WithheldStep
  <2> QED  BY <2>1, <2>2, TypeCorrect, PTL DEF Spec
<1>2. CASE ~HasRelease
  <2>1. NoUnitWithheld
    BY <1>2 DEF NoUnitWithheld
  <2> QED  BY <2>1, PTL
<1> QED  BY <1>1, <1>2

-------------------------------------------------------------------------------
(* Refinement: the limiter is a semaphore that forgets.                    *)

(* The counter, to the unit.                                               *)
CounterExact == count + debt = Weight(LiveCharged) + leaked

LEMMA ExactStep ==
  ASSUME TypeOK, TypeOK', CounterExact, [Next]_vars
  PROVE  CounterExact'
<1> DEFINE w == Weight(LiveCharged)
<1>0. /\ count \in Int /\ debt \in Nat /\ leaked \in Nat /\ w \in Nat
      /\ count + debt = w + leaked
      /\ \A p \in Caller : cost[p] \in Nat
  <2>1. cost \in [Caller -> 1 .. MaxCost] /\ LiveCharged \in SUBSET Caller
    BY DEF TypeOK, LiveCharged, Charged
  <2> QED  BY <2>1, WeightOfCallers, ConcurrencyAssumption DEF Weight, TypeOK, CounterExact
<1>1. ASSUME NEW p \in Caller, Incrby(p) PROVE CounterExact'
  <2>1. PICK c \in 1 .. MaxCost :
          /\ count' = count + c /\ cost' = [cost EXCEPT ![p] = c]
          /\ pc[p] = "idle" /\ pc' = [pc EXCEPT ![p] = "ttl"]
          /\ UNCHANGED <<stale, debt, leaked>>
    BY <1>1 DEF Incrby
  <2>2. c \in Nat
    BY ConcurrencyAssumption
  <2>3. stale' = stale
    BY <2>1
  <2>4. Weight(LiveCharged)' = w + c
    BY <2>1, <2>3, ArrivalWeighs
  <2> HIDE DEF w
  <2>5. count' + debt' = Weight(LiveCharged)' + leaked'
    BY <1>0, <2>1, <2>2, <2>4
  <2> QED  BY <2>5 DEF CounterExact
<1>2. ASSUME NEW p \in Caller, ReadTtl(p) \/ SetExpire(p) PROVE CounterExact'
  <2>1. UNCHANGED <<count, cost, stale, debt, leaked>> /\ Charged' = Charged
    BY <1>2, WaitUnseen DEF ReadTtl, SetExpire, Goto, key, hist
  <2> QED  BY <2>1 DEF CounterExact, LiveCharged, Weight
<1>3. ASSUME NEW p \in Caller, Rollback(p) \/ ReleaseDecr(p) PROVE CounterExact'
  <2>1. /\ count' = count - cost[p] /\ leaked' = leaked /\ stale' = stale \ {p}
        /\ debt' = debt + (IF p \in stale THEN cost[p] ELSE 0)
        /\ p \in Charged /\ pc'[p] \in {"idle", "delete"}
        /\ \A q \in Caller \ {p} : pc'[q] = pc[q] /\ cost'[q] = cost[q]
    BY <1>3 DEF Rollback, ReleaseDecr, TakeBack, Goto, Done, TypeOK, Charged
  <2>2. Weight(LiveCharged)' = w - (IF p \in LiveCharged THEN cost[p] ELSE 0)
    BY <2>1, ChargedLeaves
  <2>3. p \in LiveCharged <=> p \notin stale
    BY <2>1 DEF LiveCharged
  <2> HIDE DEF w
  <2>4. count' + debt' = Weight(LiveCharged)' + leaked'
    BY <1>0, <2>1, <2>2, <2>3
  <2> QED  BY <2>4 DEF CounterExact
<1>4. ASSUME NEW p \in Caller, Complete(p) \/ Abort(p) PROVE CounterExact'
  <2>1. /\ UNCHANGED <<count, debt>> /\ stale' = stale \ {p}
        /\ leaked' = leaked + (IF p \in LiveCharged THEN cost[p] ELSE 0)
        /\ pc'[p] = "idle"
        /\ \A q \in Caller \ {p} : pc'[q] = pc[q] /\ cost'[q] = cost[q]
    BY <1>4 DEF Complete, Abort, LeaveBehind, Done, key, TypeOK, LiveCharged
  <2>2. Weight(LiveCharged)' = w - (IF p \in LiveCharged THEN cost[p] ELSE 0)
    BY <2>1, ChargedLeaves
  <2> HIDE DEF w
  <2>3. count' + debt' = Weight(LiveCharged)' + leaked'
    BY <1>0, <2>1, <2>2
  <2> QED  BY <2>3 DEF CounterExact
<1>5. ASSUME KeyVanishes, Charged' = Charged PROVE CounterExact'
  <2>1. LiveCharged' = {}
    BY <1>5 DEF KeyVanishes, LiveCharged
  <2>2. Weight(LiveCharged)' = 0
    BY <2>1, WeightEmpty DEF Weight
  <2>3. count' + debt' = Weight(LiveCharged)' + leaked'
    BY <1>5, <2>2 DEF KeyVanishes
  <2> QED  BY <2>3 DEF CounterExact
<1>6. ASSUME NEW p \in Caller, ReleaseDelete(p) PROVE CounterExact'
  BY <1>5, <1>6 DEF ReleaseDelete, TypeOK, Charged
<1>7. CASE Tick
  <2>1. CASE life > 1
    BY <1>7, <2>1 DEF Tick, call, CounterExact, LiveCharged, Weight, Charged
  <2>2. CASE ~(life > 1)
    BY <1>5, <1>7, <2>2 DEF Tick, call, Charged
  <2> QED  BY <2>1, <2>2
<1>8. CASE UNCHANGED vars
  BY <1>8 DEF vars, key, call, hist, CounterExact, LiveCharged, Weight, Charged
<1> QED
  BY <1>1, <1>2, <1>3, <1>4, <1>6, <1>7, <1>8 DEF Next, Step

(* What the semaphore has in its sum is what the counter shows.            *)
LEMMA Books ==
  ASSUME TypeOK, CounterExact
  PROVE  /\ \A p \in Caller : ChargedUnits[p] > 0 <=> p \in Charged
         /\ \A p \in Caller \ Charged : ChargedUnits[p] = 0
         /\ Abstract!Open = Charged
         /\ Abstract!Taken = count
<1>1. \A p \in Caller : cost[p] \in Nat /\ cost[p] > 0
  BY ConcurrencyAssumption DEF TypeOK
<1>2. \A p \in Caller : ChargedUnits[p] > 0 <=> p \in Charged
  BY <1>1 DEF ChargedUnits
<1>3. Abstract!Open = Charged
  BY <1>2 DEF Abstract!Open, Charged
<1>4. LiveCharged \in SUBSET Caller /\ \A p \in LiveCharged : ChargedUnits[p] = cost[p]
  BY DEF LiveCharged, Charged, ChargedUnits
<1>5. WeightOf(LiveCharged, ChargedUnits) = Weight(LiveCharged)
  BY <1>4, WeightLocal DEF Weight
<1>6. Abstract!Taken = WeightOf(LiveCharged, ChargedUnits) + leaked - debt
  <2>1. Abstract!Open \ stale = LiveCharged
    BY <1>3 DEF LiveCharged
  <2>2. Abstract!WeightOf(LiveCharged, ChargedUnits) = WeightOf(LiveCharged, ChargedUnits)
    BY DEF Abstract!WeightOf, Abstract!Units, Abstract!Cardinality,
           WeightOf, Units, Cardinality
  <2> QED  BY <2>1, <2>2 DEF Abstract!Taken
<1>7. Weight(LiveCharged) \in Nat
  BY <1>4, WeightOfCallers DEF Weight, TypeOK
<1>8. Weight(LiveCharged) + leaked - debt = count
  BY <1>7 DEF TypeOK, CounterExact
<1> QED  BY <1>2, <1>3, <1>5, <1>6, <1>8 DEF ChargedUnits

(* A call that arrives.                                                    *)
LEMMA IncrbyRefines ==
  ASSUME TypeOK, TypeOK', CounterExact, NEW p \in Caller, Incrby(p)
  PROVE  Abstract!Arrive(p)
<1>1. PICK c \in 1 .. MaxCost :
        /\ pc[p] = "idle"
        /\ pc' = [pc EXCEPT ![p] = "ttl"]
        /\ cost' = [cost EXCEPT ![p] = c]
        /\ current' = [current EXCEPT ![p] = count + c]
        /\ UNCHANGED <<stale, debt, leaked>>
  BY DEF Incrby
<1>2. p \notin Charged /\ p \notin Deleting /\ Charged' = Charged \cup {p} /\ Deleting' = Deleting
  BY <1>1 DEF TypeOK, Charged, Deleting
<1>3. ChargedUnits[p] = 0 /\ ChargedUnits' = [ChargedUnits EXCEPT ![p] = c]
  BY <1>1, <1>2 DEF TypeOK, ChargedUnits
<1>4. Granted' = IF Abstract!Taken + c <= Limit THEN Granted \cup {p} ELSE Granted
  <2>1. Granted' = IF count + c <= Limit THEN Granted \cup {p} ELSE Granted
    BY <1>1, <1>2 DEF TypeOK, Granted, Fits, Charged
  <2> QED  BY <2>1, Books
<1> QED  BY <1>1, <1>2, <1>3, <1>4 DEF Abstract!Arrive

(* A call that ends: what all ways of ending have in common.               *)
LEMMA EndSeen ==
  ASSUME TypeOK, TypeOK', CounterExact, NEW p \in Charged,
         pc'[p] \in {"idle", "delete"}, stale' = stale \ {p},
         \A q \in Caller \ {p} : pc'[q] = pc[q] /\ current'[q] = current[q] /\ cost'[q] = cost[q],
         Abstract!GiveBack(p) \/ Abstract!LeaveBehind(p)
  PROVE  Abstract!End(p)
<1>1. Charged' = Charged \ {p} /\ p \in Caller
  BY DEF Charged
<1>2. Granted' = Granted \ {p}
  BY <1>1 DEF Granted, Fits, Charged
<1>3. ChargedUnits' = [ChargedUnits EXCEPT ![p] = 0]
  BY <1>1 DEF ChargedUnits
<1>4. ChargedUnits[p] > 0
  BY <1>1, Books
<1> QED  BY <1>2, <1>3, <1>4 DEF Abstract!End

LEMMA GiveBackRefines ==
  ASSUME IInv, TypeOK', CounterExact, NEW p \in Caller, Rollback(p) \/ ReleaseDecr(p)
  PROVE  Abstract!End(p)
<1> TypeOK
  BY DEF IInv
<1>1. /\ stale' = stale \ {p} /\ leaked' = leaked
      /\ debt' = debt + (IF p \in stale THEN cost[p] ELSE 0)
      /\ p \in Charged /\ pc'[p] \in {"idle", "delete"}
      /\ \A q \in Caller \ {p} :
           pc'[q] = pc[q] /\ current'[q] = current[q] /\ cost'[q] = cost[q]
  BY DEF Rollback, ReleaseDecr, TakeBack, Goto, Done, TypeOK, Charged
<1>2. ChargedUnits[p] = cost[p]
  BY <1>1 DEF ChargedUnits
<1>3. Deleting' = Deleting \cup (IF p \in Granted /\ count < cost[p] THEN {p} ELSE {})
  <2>1. count \in Int /\ cost[p] \in Int
    BY DEF TypeOK
  <2>2. CASE Rollback(p)
    <3>1. p \notin Granted
      BY <2>2 DEF IInv, VerdictKept, Rollback, Granted
    <3>2. Deleting' = Deleting
      BY <2>2 DEF Rollback, Done, TypeOK, Deleting
    <3> QED  BY <3>1, <3>2
  <2>3. CASE ReleaseDecr(p)
    <3>1. p \in Granted
      BY <1>1, <2>3 DEF IInv, VerdictKept, ReleaseDecr, Granted
    <3>2. count - cost[p] < 0 <=> count < cost[p]
      BY <2>1
    <3>3. CASE count - cost[p] < 0
      BY <2>3, <3>1, <3>2, <3>3 DEF ReleaseDecr, Goto, TypeOK, Deleting
    <3>4. CASE ~(count - cost[p] < 0)
      BY <2>3, <3>1, <3>2, <3>4 DEF ReleaseDecr, Done, TypeOK, Deleting
    <3> QED  BY <3>3, <3>4
  <2> QED  BY <2>2, <2>3
<1>4. Abstract!GiveBack(p)
  BY <1>1, <1>2, <1>3, Books DEF Abstract!GiveBack
<1> QED  BY <1>1, <1>4, EndSeen

LEMMA LeaveBehindRefines ==
  ASSUME TypeOK, TypeOK', CounterExact, NEW p \in Caller, Complete(p) \/ Abort(p)
  PROVE  Abstract!End(p) \/ Abstract!Spare(p)
<1>1. /\ stale' = stale \ {p} /\ debt' = debt /\ pc[p] # "idle"
      /\ leaked' = leaked + (IF p \in Charged \ stale THEN cost[p] ELSE 0)
      /\ pc'[p] = "idle"
      /\ \A q \in Caller \ {p} :
           pc'[q] = pc[q] /\ current'[q] = current[q] /\ cost'[q] = cost[q]
  BY DEF Complete, Abort, LeaveBehind, Done, TypeOK
<1>2. CASE p \in Charged
  <2>1. ChargedUnits[p] = cost[p]
    BY <1>2 DEF ChargedUnits
  <2>2. Deleting' = Deleting
    BY <1>1, <1>2 DEF Deleting, Charged
  <2>3. Abstract!LeaveBehind(p)
    BY <1>1, <1>2, <2>1, <2>2 DEF Abstract!LeaveBehind
  <2> QED  BY <1>1, <1>2, <2>3, EndSeen
<1>3. CASE p \notin Charged
  <2>1. pc[p] = "delete" /\ p \notin stale
    BY <1>1, <1>3 DEF TypeOK, Charged
  <2>2. Charged' = Charged /\ Deleting' = Deleting \ {p} /\ p \in Deleting
    BY <1>1, <1>3, <2>1 DEF Charged, Deleting
  <2>3. ChargedUnits' = ChargedUnits /\ Granted' = Granted
    BY <1>1, <1>3, <2>2 DEF ChargedUnits, Granted, Fits, Charged
  <2>4. stale' = stale /\ leaked' = leaked
    BY <1>1, <1>3, <2>1 DEF TypeOK
  <2> QED  BY <1>1, <2>2, <2>3, <2>4 DEF Abstract!Spare
<1> QED  BY <1>2, <1>3

(* The key is gone, and with it the sum.                                   *)
LEMMA VanishRefines ==
  ASSUME TypeOK, CounterExact, KeyVanishes, Charged' = Charged,
         \A q \in Charged : current'[q] = current[q] /\ cost'[q] = cost[q]
  PROVE  Abstract!Forget
<1>1. Granted' = Granted /\ ChargedUnits' = ChargedUnits
  BY DEF Granted, Fits, ChargedUnits
<1> QED  BY <1>1, Books DEF KeyVanishes, Abstract!Forget

LEMMA StepRefines ==
  ASSUME IInv, CounterExact, [Next]_vars
  PROVE  [Abstract!Next]_(Abstract!vars)
<1> TypeOK /\ TypeOK'
  BY TypeStep DEF IInv
<1> DEFINE Unseen == UNCHANGED <<ChargedUnits, Granted, stale, Deleting, debt, leaked>>
<1> SUFFICES Abstract!Next \/ Unseen
  BY DEF Abstract!vars
<1>1. ASSUME NEW p \in Caller, Incrby(p) PROVE Abstract!Next
  BY <1>1, IncrbyRefines DEF Abstract!Next
<1>2. ASSUME NEW p \in Caller, ReadTtl(p) \/ SetExpire(p) PROVE Unseen
  <2>1. UNCHANGED <<cost, current, stale, debt, leaked>> /\ Charged' = Charged
    BY <1>2, WaitUnseen DEF ReadTtl, SetExpire, Goto, hist
  <2>2. Deleting' = Deleting
    BY <1>2 DEF ReadTtl, SetExpire, Goto, Verdict, TypeOK, Deleting
  <2> QED  BY <2>1, <2>2 DEF ChargedUnits, Granted, Fits
<1>3. ASSUME NEW p \in Caller, Rollback(p) \/ ReleaseDecr(p) PROVE Abstract!Next
  BY <1>3, GiveBackRefines DEF Abstract!Next
<1>4. ASSUME NEW p \in Caller, Complete(p) \/ Abort(p) PROVE Abstract!Next
  BY <1>4, LeaveBehindRefines DEF Abstract!Next
<1>5. ASSUME NEW p \in Caller, ReleaseDelete(p) PROVE Abstract!Next
  <2>1. /\ KeyVanishes /\ Charged' = Charged
        /\ \A q \in Charged : current'[q] = current[q] /\ cost'[q] = cost[q]
    BY <1>5 DEF ReleaseDelete, TypeOK, Charged
  <2>2. p \in Deleting /\ Deleting' = Deleting \ {p}
    BY <1>5 DEF ReleaseDelete, TypeOK, Deleting
  <2> QED  BY <2>1, <2>2, VanishRefines DEF Abstract!Wipe, Abstract!Next
<1>6. CASE Tick
  <2>1. UNCHANGED <<pc, cost, current>> /\ Charged' = Charged /\ Deleting' = Deleting
    BY <1>6 DEF Tick, call, Charged, Deleting
  <2>2. CASE life > 1
    BY <1>6, <2>1, <2>2 DEF Tick, ChargedUnits, Granted, Fits
  <2>3. CASE ~(life > 1)
    <3>1. KeyVanishes
      BY <1>6, <2>3 DEF Tick
    <3> QED  BY <2>1, <3>1, VanishRefines DEF Abstract!Expire, Abstract!Next
  <2> QED  BY <2>2, <2>3
<1>7. CASE UNCHANGED vars
  BY <1>7 DEF vars, call, hist, ChargedUnits, Granted, Charged, Fits, Deleting
<1> QED
  BY <1>1, <1>2, <1>3, <1>4, <1>5, <1>6, <1>7 DEF Next, Step

(* concurrency.py: whatever expires, dies or is deleted, and however the   *)
(* commands of calls interleave, every call is tested against the sum of   *)
(* exactly those that the key has not forgotten.                           *)
THEOREM Refinement == Spec => ImplementsForgetfulSemaphore
<1>1. Init => CounterExact /\ Abstract!Init
  <2> SUFFICES ASSUME Init PROVE CounterExact /\ Abstract!Init
    OBVIOUS
  <2>1. Charged = {} /\ LiveCharged = {} /\ Granted = {} /\ Deleting = {}
    BY DEF Init, LiveCharged, Charged, Granted, Deleting
  <2>2. Weight(LiveCharged) = 0
    BY <2>1, WeightEmpty DEF Weight
  <2>3. CounterExact
    BY <2>2 DEF Init, CounterExact
  <2>4. ChargedUnits = [p \in Caller |-> 0]
    BY <2>1 DEF ChargedUnits
  <2> QED  BY <2>1, <2>3, <2>4 DEF Init, Abstract!Init
<1>2. IInv /\ CounterExact /\ [Next]_vars => CounterExact'
  BY TypeStep, ExactStep DEF IInv
<1>3. IInv /\ CounterExact /\ [Next]_vars => [Abstract!Next]_(Abstract!vars)
  BY StepRefines
<1> QED
  BY <1>1, <1>2, <1>3, Invariance, PTL DEF Spec, ImplementsForgetfulSemaphore, Abstract!Spec
===============================================================================
