--------------------------- MODULE CheckServiceProofs ---------------------------
(***************************************************************************)
(* Proofs about CheckService, for all requests, keys, tenants and plans.   *)
(***************************************************************************)
EXTENDS CheckService, DecisionEngineProofs, WellFoundedInduction

-------------------------------------------------------------------------------
(* Of a set of plans there is a newest.                                    *)
LEMMA NewestPlan ==
  ASSUME NEW S \in SUBSET (1 .. MaxPlans)
  PROVE  /\ NewestOf(S) \in 0 .. MaxPlans
         /\ NewestOf(S) = 0 \/ NewestOf(S) \in S
         /\ \A n \in S : n <= NewestOf(S)
<1>1. MaxPlans \in Nat
  BY CheckServiceAssumption
<1>2. CASE S = {}
  BY <1>1, <1>2 DEF NewestOf
<1>3. CASE S # {}
  <2> DEFINE T == {MaxPlans - n : n \in S}
  <2>1. T \subseteq Nat /\ T # {}
    <3>1. \A n \in S : n \in Nat /\ n <= MaxPlans /\ MaxPlans - n \in Nat
      BY <1>1
    <3> QED  BY <1>3, <3>1
  <2>2. PICK t \in T : \A r \in T : <<r, t>> \notin OpToRel(<, Nat)
    BY <2>1, NatLessThanWellFounded, WFMin
  <2>3. PICK p \in S : t = MaxPlans - p
    BY <2>2
  <2>4. ASSUME NEW n \in S PROVE n <= p
    <3> SUFFICES ASSUME ~(n <= p) PROVE FALSE
      OBVIOUS
    <3>1. MaxPlans - n \in T /\ MaxPlans - n \in Nat /\ t \in Nat /\ MaxPlans - n < t
      BY <1>1, <2>1, <2>3
    <3>2. <<MaxPlans - n, t>> \in OpToRel(<, Nat)
      BY <3>1 DEF OpToRel
    <3> QED  BY <2>2, <3>1, <3>2
  <2>5. \E x \in S : \A y \in S : x >= y
    BY <1>1, <2>4
  <2>6. Max(S) \in S /\ \A y \in S : Max(S) >= y
    BY <2>5 DEF Max
  <2>7. NewestOf(S) \in S /\ \A y \in S : NewestOf(S) >= y
    BY <1>3, <2>6 DEF NewestOf
  <2>8. S \subseteq Int
    BY <1>1
  <2> HIDE DEF T
  <2> DEFINE m == NewestOf(S)
  <2>9. m \in S /\ \A y \in S : m >= y
    BY <2>7
  <2> HIDE DEF m
  <2>10. m \in 0 .. MaxPlans /\ \A n \in S : n <= m
    BY <1>1, <2>9, <2>8
  <2> QED  BY <2>9, <2>10 DEF m
<1> QED  BY <1>2, <1>3

LEMMA OwnPlans ==
  ASSUME TypeOK
  PROVE  /\ OwnOf(pinned) \in SUBSET (1 .. MaxPlans)
         /\ NewestOf(OwnOf(pinned)) \in 0 .. MaxPlans
         /\ NewestOf(OwnOf(pinned)) = 0 \/ NewestOf(OwnOf(pinned)) \in OwnOf(pinned)
         /\ \A n \in OwnOf(pinned) : n <= NewestOf(OwnOf(pinned))
<1>1. OwnOf(pinned) \in SUBSET (1 .. MaxPlans)
  <2>1. MaxPlans \in Nat /\ plans \in 0 .. MaxPlans /\ pinned \subseteq 1 .. plans
    BY CheckServiceAssumption DEF TypeOK
  <2>2. 1 .. plans \subseteq 1 .. MaxPlans
    BY <2>1
  <2> QED  BY <2>1, <2>2 DEF OwnOf
<1> QED  BY <1>1, NewestPlan

LEMMA PlanType ==
  ASSUME TypeOK, NEW c \in Call
  PROVE  PlanFor(c) \in 0 .. MaxPlans
BY OwnPlans, CheckServiceAssumption DEF TypeOK, PlanFor, PlanById

-------------------------------------------------------------------------------
(* Every step of a call touches the records of that call alone.            *)
LEMMA TypeInit == Init => TypeOK
<1> SUFFICES ASSUME Init PROVE TypeOK
  OBVIOUS
<1>1. {0} \cup Named \subseteq 0 .. MaxPlans /\ 0 \in 0 .. MaxPlans
  BY CheckServiceAssumption
<1>2. asked \in [Call -> 0 .. MaxPlans]
  BY <1>1 DEF Init
<1> QED  BY <1>1, <1>2 DEF Init, TypeOK

LEMMA TypeStep ==
  ASSUME TypeOK, [Next]_vars
  PROVE  TypeOK'
<1> USE DEF TypeOK
<1>1. CASE UNCHANGED vars
  BY <1>1 DEF vars, db, reqs, work, hist
<1>2. ASSUME NEW t \in Tenant, CreateTenant(t) PROVE TypeOK'
  BY <1>2 DEF CreateTenant, InsertTenant, reqs, work, hist
<1>3. ASSUME NEW k \in Key, CreateKey(k) PROVE TypeOK'
  BY <1>3 DEF CreateKey, InsertKey, reqs, work, hist
<1>4. ASSUME NEW k \in Key, SwitchOff(k) PROVE TypeOK'
  BY <1>4 DEF SwitchOff, reqs, work, hist
<1>5. ASSUME NEW k \in Key, Forget(k) PROVE TypeOK'
  BY <1>5 DEF Forget, db, reqs, work, hist
<1>6. CASE CreatePlan
  BY <1>6, CheckServiceAssumption DEF CreatePlan, InsertPlan, reqs, work, hist
<1>7. ASSUME NEW n \in 1 .. MaxPlans, CreatePolicy(n) PROVE TypeOK'
  BY <1>7 DEF CreatePolicy, InsertPolicy, reqs, work, hist
<1>8. ASSUME NEW c \in Call, Ask(c) PROVE TypeOK'
  <2>1. NewestOf(OwnOf(pinned)) \in 0 .. MaxPlans
    BY OwnPlans
  <2> QED  BY <1>8, <2>1 DEF Ask, db
<1>9. ASSUME NEW c \in Call, Receive(c) PROVE TypeOK'
  BY <1>9 DEF Receive, Outcome, NodeOutcome, db, work, hist
<1>10. ASSUME NEW c \in Call, GiveUp(c) PROVE TypeOK'
  BY <1>10 DEF GiveUp, db, work, hist
<1>11. ASSUME NEW c \in Call, ReadCache(c) PROVE TypeOK'
  BY <1>11 DEF ReadCache, Goto, db, reqs, hist
<1>12. ASSUME NEW c \in Call, ReadFast(c) PROVE TypeOK'
  BY <1>12 DEF ReadFast, Goto, db, reqs, hist
<1>13. ASSUME NEW c \in Call, Select(c) PROVE TypeOK'
  <2>1. UNCHANGED <<db, cached, reqs, plan, hist>>
    BY <1>13 DEF Select
  <2>2. CASE Row(c) = "active"
    <3>1. /\ handler' = [handler EXCEPT ![c] = "setex"]
          /\ seen' = [seen EXCEPT ![c] = "active"] /\ status' = status
      BY <1>13, <2>2 DEF Select, Goto
    <3> QED  BY <2>1, <3>1 DEF db, reqs, hist
  <2>3. CASE Row(c) # "active"
    <3>1. /\ handler' = [handler EXCEPT ![c] = "answered"]
          /\ seen' = [seen EXCEPT ![c] = "none"]
          /\ status' = [status EXCEPT ![c] = 403]
      BY <1>13, <2>3 DEF Select, Goto, Respond
    <3> QED  BY <2>1, <3>1 DEF db, reqs, hist
  <2> QED  BY <2>2, <2>3
<1>14. ASSUME NEW c \in Call, SetCache(c) PROVE TypeOK'
  BY <1>14 DEF SetCache, Goto, db, reqs, hist
<1>15. ASSUME NEW c \in Call, Resolve(c) PROVE TypeOK'
  <2>1. UNCHANGED <<db, cached, reqs, hist>> /\ plan' \in [Call -> 0 .. MaxPlans]
    BY <1>15, PlanType DEF Resolve
  <2>2. CASE PlanFor(c) = 0
    <3>1. /\ handler' = [handler EXCEPT ![c] = "answered"]
          /\ seen' = [seen EXCEPT ![c] = "none"]
          /\ status' = [status EXCEPT ![c] = 500]
      BY <1>15, <2>2 DEF Resolve, Goto, Respond
    <3> QED  BY <2>1, <3>1 DEF db, reqs, hist
  <2>3. CASE PlanFor(c) # 0
    <3>1. /\ handler' = [handler EXCEPT ![c] = "decide"]
          /\ seen' = seen /\ status' = status
      BY <1>15, <2>3 DEF Resolve, Goto
    <3> QED  BY <2>1, <3>1 DEF db, reqs, hist
  <2> QED  BY <2>2, <2>3
<1>16. ASSUME NEW c \in Call, Decide(c) PROVE TypeOK'
  BY <1>16 DEF Decide, Goto, db, reqs
<1>17. ASSUME NEW c \in Call, Reply(c) PROVE TypeOK'
  BY <1>17 DEF Reply, Goto, Respond, db, reqs, hist
<1>18. ASSUME NEW c \in Call, Fail(c) PROVE TypeOK'
  BY <1>18 DEF Fail, Goto, Respond, db, reqs, hist
<1> QED
  BY <1>1, <1>2, <1>3, <1>4, <1>5, <1>6, <1>7, <1>8, <1>9, <1>10, <1>11, <1>12, <1>13,
     <1>14, <1>15, <1>16, <1>17, <1>18 DEF Next, Handle

(* Type correctness of the request path.                                   *)
THEOREM TypeCorrect == Spec => []TypeOK
<1>1. TypeOK /\ [Next]_vars => TypeOK'
  BY TypeStep
<1> QED  BY TypeInit, <1>1, PTL DEF Spec

-------------------------------------------------------------------------------
(* The inductive invariant.  Of a request that was not sent nothing has    *)
(* been done; an outcome is that of an answer; a status is that of the     *)
(* decision that was made.                                                 *)
Unsent ==
  \A c \in Call : client[c] = "new" =>
    handler[c] = "none" /\ plan[c] = 0 /\ ~charged[c] /\ seen[c] = "none"

Settled == \A c \in Call : client[c] \in {"forwarded", "limited"} => handler[c] = "answered"

Recorded ==
  \A c \in Call : (status[c] = 200 => charged[c]) /\ (status[c] = 429 => ~charged[c])

(* A key that is off stays off, and its request does not get past Select.  *)
Barred ==
  \A c \in Call : barred[c] =>
    /\ keyRow[key[c]] = "off" /\ seen[c] # "active"
    /\ handler[c] \notin {"setex", "resolve", "decide", "reply"}
    /\ plan[c] = 0 /\ ~charged[c]

(* Pins are never undone.                                                  *)
Pins ==
  \A c \in Call :
    /\ newest[c] <= NewestOf(OwnOf(pinned))
    /\ (plan[c] # 0 /\ asked[c] = 0) => plan[c] >= newest[c] /\ plan[c] \in OwnOf(pinned)

LEMMA InvInit == Init => Unsent /\ Settled /\ Recorded /\ VerdictHonoured /\ Barred /\ Pins
<1> SUFFICES ASSUME Init PROVE Unsent /\ Settled /\ Recorded /\ VerdictHonoured /\ Barred /\ Pins
  OBVIOUS
<1>1. NewestOf(OwnOf(pinned)) \in Nat
  BY TypeInit, OwnPlans, CheckServiceAssumption
<1> QED  BY <1>1 DEF Init, Unsent, Settled, Recorded, VerdictHonoured, Barred, Pins

(* A step of a call leaves the records of the others alone, and it is one  *)
(* of these.                                                               *)
LEMMA VerdictStep ==
  ASSUME TypeOK, Unsent, Settled, Recorded, VerdictHonoured, [Next]_vars
  PROVE  Unsent' /\ Settled' /\ Recorded' /\ VerdictHonoured'
<1> USE DEF TypeOK, Unsent, Settled, Recorded, VerdictHonoured
<1> DEFINE Goal == Unsent' /\ Settled' /\ Recorded' /\ VerdictHonoured'
<1>1. CASE UNCHANGED <<reqs, work, hist>>
  BY <1>1 DEF reqs, work, hist
<1>2. ASSUME NEW c \in Call, Ask(c) PROVE Goal
  BY <1>2 DEF Ask
<1>3. ASSUME NEW c \in Call, Receive(c) PROVE Goal
  BY <1>3 DEF Receive, Outcome, NodeOutcome, work, hist
<1>4. ASSUME NEW c \in Call, GiveUp(c) PROVE Goal
  BY <1>4 DEF GiveUp, work, hist
<1>5. ASSUME NEW c \in Call, ReadCache(c) PROVE Goal
  BY <1>5 DEF ReadCache, Goto, reqs, hist
<1>6. ASSUME NEW c \in Call, ReadFast(c) PROVE Goal
  BY <1>6 DEF ReadFast, Goto, reqs, hist
<1>7. ASSUME NEW c \in Call, Select(c) PROVE Goal
  <2>1. handler[c] = "select" /\ UNCHANGED <<reqs, plan, hist>>
    BY <1>7 DEF Select
  <2>2. CASE Row(c) = "active"
    <3>1. /\ handler' = [handler EXCEPT ![c] = "setex"]
          /\ seen' = [seen EXCEPT ![c] = "active"] /\ status' = status
      BY <1>7, <2>2 DEF Select, Goto
    <3> QED  BY <2>1, <3>1 DEF reqs, hist
  <2>3. CASE Row(c) # "active"
    <3>1. /\ handler' = [handler EXCEPT ![c] = "answered"]
          /\ seen' = [seen EXCEPT ![c] = "none"]
          /\ status' = [status EXCEPT ![c] = 403]
      BY <1>7, <2>3 DEF Select, Goto, Respond
    <3> QED  BY <2>1, <3>1 DEF reqs, hist
  <2> QED  BY <2>2, <2>3
<1>8. ASSUME NEW c \in Call, SetCache(c) PROVE Goal
  BY <1>8 DEF SetCache, Goto, reqs, hist
<1>9. ASSUME NEW c \in Call, Resolve(c) PROVE Goal
  <2>1. /\ handler[c] = "resolve" /\ UNCHANGED <<reqs, hist>>
        /\ plan' = [plan EXCEPT ![c] = PlanFor(c)]
    BY <1>9 DEF Resolve
  <2>2. CASE PlanFor(c) = 0
    <3>1. /\ handler' = [handler EXCEPT ![c] = "answered"]
          /\ seen' = [seen EXCEPT ![c] = "none"]
          /\ status' = [status EXCEPT ![c] = 500]
      BY <1>9, <2>2 DEF Resolve, Goto, Respond
    <3> QED  BY <2>1, <3>1 DEF reqs, hist
  <2>3. CASE PlanFor(c) # 0
    <3>1. /\ handler' = [handler EXCEPT ![c] = "decide"]
          /\ seen' = seen /\ status' = status
      BY <1>9, <2>3 DEF Resolve, Goto
    <3> QED  BY <2>1, <3>1 DEF reqs, hist
  <2> QED  BY <2>2, <2>3
<1>10. ASSUME NEW c \in Call, Decide(c) PROVE Goal
  BY <1>10 DEF Decide, Goto, reqs
<1>11. ASSUME NEW c \in Call, Reply(c) PROVE Goal
  BY <1>11 DEF Reply, Goto, Respond, reqs, hist
<1>12. ASSUME NEW c \in Call, Fail(c) PROVE Goal
  BY <1>12 DEF Fail, Goto, Respond, reqs, hist
<1>13. CASE UNCHANGED vars
  BY <1>1, <1>13 DEF vars
<1>14. ASSUME NEW t \in Tenant, CreateTenant(t) PROVE Goal
  BY <1>1, <1>14 DEF CreateTenant
<1>15. ASSUME NEW k \in Key, CreateKey(k) \/ SwitchOff(k) \/ Forget(k) PROVE Goal
  BY <1>1, <1>15 DEF CreateKey, SwitchOff, Forget
<1>16. ASSUME NEW n \in 1 .. MaxPlans, CreatePolicy(n) PROVE Goal
  BY <1>1, <1>16 DEF CreatePolicy
<1>17. CASE CreatePlan
  BY <1>1, <1>17 DEF CreatePlan
<1> QED
  BY <1>2, <1>3, <1>4, <1>5, <1>6, <1>7, <1>8, <1>9, <1>10, <1>11, <1>12, <1>13, <1>14,
     <1>15, <1>16, <1>17 DEF Next, Handle

(* client.py, index.js: whatever fails on the way, what gets to the        *)
(* application was admitted, and what is called limited was not.           *)
THEOREM VerdictSafe == Spec => []VerdictHonoured
<1> DEFINE IInv == TypeOK /\ Unsent /\ Settled /\ Recorded /\ VerdictHonoured
<1>1. Init => IInv
  BY TypeInit, InvInit
<1>2. IInv /\ [Next]_vars => IInv'
  BY TypeStep, VerdictStep
<1>3. IInv => VerdictHonoured
  OBVIOUS
<1> QED  BY <1>1, <1>2, <1>3, PTL DEF Spec

-------------------------------------------------------------------------------
LEMMA BarredStep ==
  ASSUME TypeOK, Unsent, Barred, [Next]_vars
  PROVE  Barred'
<1> USE DEF TypeOK, Unsent, Barred
<1>1. CASE /\ UNCHANGED <<key, work, charged, barred>>
           /\ \A k \in Key : keyRow[k] = "off" => keyRow'[k] = "off"
  BY <1>1 DEF work
<1>2. ASSUME NEW c \in Call, Ask(c) PROVE Barred'
  BY <1>2 DEF Ask, db
<1>3. ASSUME NEW c \in Call, Receive(c) \/ GiveUp(c) PROVE Barred'
  BY <1>1, <1>3 DEF Receive, GiveUp, db, hist
<1>4. ASSUME NEW c \in Call, ReadCache(c) PROVE Barred'
  BY <1>4 DEF ReadCache, Goto, db, reqs, hist
<1>5. ASSUME NEW c \in Call, ReadFast(c) PROVE Barred'
  BY <1>5 DEF ReadFast, FastValid, Goto, db, reqs, hist
<1>6. ASSUME NEW c \in Call, Select(c) PROVE Barred'
  <2>1. handler[c] = "select" /\ UNCHANGED <<db, reqs, plan, hist>>
    BY <1>6 DEF Select
  <2>2. CASE Row(c) = "active"
    <3>1. /\ handler' = [handler EXCEPT ![c] = "setex"]
          /\ seen' = [seen EXCEPT ![c] = "active"]
      BY <1>6, <2>2 DEF Select, Goto
    <3>2. ~barred[c]
      BY <2>2 DEF Row
    <3> QED  BY <2>1, <3>1, <3>2 DEF db, reqs, hist
  <2>3. CASE Row(c) # "active"
    <3>1. /\ handler' = [handler EXCEPT ![c] = "answered"]
          /\ seen' = [seen EXCEPT ![c] = "none"]
      BY <1>6, <2>3 DEF Select, Goto, Respond
    <3> QED  BY <2>1, <3>1 DEF db, reqs, hist
  <2> QED  BY <2>2, <2>3
<1>7. ASSUME NEW c \in Call, SetCache(c) PROVE Barred'
  BY <1>7 DEF SetCache, Goto, db, reqs, hist
<1>8. ASSUME NEW c \in Call, Resolve(c) PROVE Barred'
  <2>1. /\ handler[c] = "resolve" /\ UNCHANGED <<db, reqs, hist>>
        /\ plan' = [plan EXCEPT ![c] = PlanFor(c)]
    BY <1>8 DEF Resolve
  <2>2. /\ handler' = [handler EXCEPT ![c] = IF PlanFor(c) = 0 THEN "answered" ELSE "decide"]
        /\ seen' \in {seen, [seen EXCEPT ![c] = "none"]}
    BY <1>8 DEF Resolve, Goto, Respond
  <2>3. ~barred[c]
    BY <2>1
  <2> QED  BY <2>1, <2>2, <2>3 DEF db, reqs, hist
<1>9. ASSUME NEW c \in Call, Decide(c) PROVE Barred'
  BY <1>9 DEF Decide, Goto, db, reqs
<1>10. ASSUME NEW c \in Call, Reply(c) PROVE Barred'
  BY <1>10 DEF Reply, Goto, Respond, db, reqs, hist
<1>11. ASSUME NEW c \in Call, Fail(c) PROVE Barred'
  BY <1>11 DEF Fail, Goto, Respond, db, reqs, hist
<1>12. CASE UNCHANGED vars
  BY <1>1, <1>12 DEF vars, db, reqs, hist
<1>13. ASSUME NEW t \in Tenant, CreateTenant(t) PROVE Barred'
  BY <1>1, <1>13 DEF CreateTenant, reqs, hist
<1>14. ASSUME NEW k \in Key, CreateKey(k) \/ SwitchOff(k) \/ Forget(k) PROVE Barred'
  BY <1>1, <1>14 DEF CreateKey, InsertKey, SwitchOff, Forget, db, reqs, hist
<1>15. ASSUME NEW n \in 1 .. MaxPlans, CreatePolicy(n) PROVE Barred'
  BY <1>1, <1>15 DEF CreatePolicy, reqs, hist
<1>16. CASE CreatePlan
  BY <1>1, <1>16 DEF CreatePlan, reqs, hist
<1> QED
  BY <1>2, <1>3, <1>4, <1>5, <1>6, <1>7, <1>8, <1>9, <1>10, <1>11, <1>12, <1>13, <1>14,
     <1>15, <1>16 DEF Next, Handle

(* security.py:31-51: whatever the cache says, a key that was off when the *)
(* request was sent is not served.                                         *)
THEOREM RevokedSafe == Spec => []RevokedNeverServed
<1> DEFINE IInv == TypeOK /\ Unsent /\ Settled /\ Recorded /\ VerdictHonoured /\ Barred
<1>1. Init => IInv
  BY TypeInit, InvInit
<1>2. IInv /\ [Next]_vars => IInv'
  BY TypeStep, VerdictStep, BarredStep
<1>3. IInv => RevokedNeverServed
  BY DEF Barred, RevokedNeverServed
<1> QED  BY <1>1, <1>2, <1>3, PTL DEF Spec

-------------------------------------------------------------------------------
LEMMA PinsStep ==
  ASSUME TypeOK, TypeOK', Unsent, Pins, [Next]_vars
  PROVE  Pins'
<1> DEFINE own == OwnOf(pinned)
<1>1. owner' = owner /\ pinned \subseteq pinned'
  BY DEF Next, vars, db, CreateTenant, CreateKey, SwitchOff, Forget, CreatePlan,
     CreatePolicy, InsertPolicy, Ask, Receive, GiveUp, Handle, ReadCache, ReadFast,
     Select, SetCache, Resolve, Decide, Reply, Fail
<1>2. own \subseteq own' /\ NewestOf(own) <= NewestOf(own')
  <2>1. own \subseteq own'
    BY <1>1 DEF OwnOf
  <2>2. /\ NewestOf(own) \in Nat
        /\ NewestOf(own) = 0 \/ NewestOf(own) \in own
        /\ \A n \in own : n <= NewestOf(own)
    BY OwnPlans, CheckServiceAssumption
  <2>3. own' \in SUBSET (1 .. MaxPlans)
    <3>1. MaxPlans \in Nat /\ plans' \in 0 .. MaxPlans /\ pinned' \subseteq 1 .. plans'
      BY CheckServiceAssumption DEF TypeOK
    <3>2. 1 .. plans' \subseteq 1 .. MaxPlans
      BY <3>1
    <3> QED  BY <3>1, <3>2 DEF OwnOf
  <2>4. NewestOf(own') \in Nat /\ \A n \in own' : n <= NewestOf(own')
    BY <2>3, NewestPlan, CheckServiceAssumption
  <2> QED  BY <2>1, <2>2, <2>4
<1>3. /\ NewestOf(own) \in Nat /\ NewestOf(own') \in Nat
      /\ newest \in [Call -> Nat] /\ plan \in [Call -> Nat] /\ asked \in [Call -> Nat]
  <2>1. MaxPlans \in Nat
    BY CheckServiceAssumption
  <2>2. NewestOf(own') \in 0 .. MaxPlans /\ NewestOf(own) \in 0 .. MaxPlans
    <3>1. own' \in SUBSET (1 .. MaxPlans) /\ own \in SUBSET (1 .. MaxPlans)
      <4>1. /\ plans \in 0 .. MaxPlans /\ pinned \subseteq 1 .. plans
            /\ plans' \in 0 .. MaxPlans /\ pinned' \subseteq 1 .. plans'
        BY DEF TypeOK
      <4>2. 1 .. plans' \subseteq 1 .. MaxPlans /\ 1 .. plans \subseteq 1 .. MaxPlans
        BY <2>1, <4>1
      <4> QED  BY <4>1, <4>2 DEF OwnOf
    <3> QED  BY <3>1, NewestPlan
  <2>3. 0 .. MaxPlans \subseteq Nat
    BY <2>1
  <2> QED  BY <2>2, <2>3 DEF TypeOK
<1> HIDE DEF own
<1> DEFINE Kept == /\ \A c \in Call : newest[c] <= NewestOf(own)
                   /\ \A c \in Call : (plan[c] # 0 /\ asked[c] = 0) =>
                        plan[c] >= newest[c] /\ plan[c] \in own
<1>4. Kept
  BY DEF Pins, own
<1>5. SUFFICES Kept'
  BY DEF Pins, own
<1>6. CASE UNCHANGED <<plan, asked, newest>>
  BY <1>2, <1>3, <1>4, <1>6
<1>7. ASSUME NEW c \in Call, Ask(c) PROVE Kept'
  <2>1. /\ plan' = plan /\ asked' = asked /\ plan[c] = 0
        /\ newest' = [newest EXCEPT ![c] = NewestOf(own)]
    BY <1>7 DEF Ask, Unsent, own
  <2> QED  BY <1>2, <1>3, <1>4, <2>1
<1>8. ASSUME NEW c \in Call, Resolve(c) PROVE Kept'
  <2>1. /\ newest' = newest /\ asked' = asked
        /\ plan' = [plan EXCEPT ![c] = PlanFor(c)]
    BY <1>8 DEF Resolve, reqs, hist
  <2>2. asked[c] = 0 => PlanFor(c) = NewestOf(own) /\ (PlanFor(c) = 0 \/ PlanFor(c) \in own)
    BY OwnPlans DEF PlanFor, own
  <2> QED  BY <1>2, <1>3, <1>4, <2>1, <2>2
<1>9. CASE UNCHANGED vars
  BY <1>6, <1>9 DEF vars, reqs, work, hist
<1>10. ASSUME NEW t \in Tenant, CreateTenant(t) PROVE Kept'
  BY <1>6, <1>10 DEF CreateTenant, reqs, work, hist
<1>11. ASSUME NEW k \in Key, CreateKey(k) \/ SwitchOff(k) \/ Forget(k) PROVE Kept'
  BY <1>6, <1>11 DEF CreateKey, SwitchOff, Forget, reqs, work, hist
<1>12. ASSUME NEW n \in 1 .. MaxPlans, CreatePolicy(n) PROVE Kept'
  BY <1>6, <1>12 DEF CreatePolicy, reqs, work, hist
<1>13. CASE CreatePlan
  BY <1>6, <1>13 DEF CreatePlan, reqs, work, hist
<1>14. ASSUME NEW c \in Call,
             \/ Receive(c) \/ GiveUp(c) \/ ReadCache(c) \/ ReadFast(c) \/ Select(c)
             \/ SetCache(c) \/ Decide(c) \/ Reply(c) \/ Fail(c)
       PROVE  Kept'
  BY <1>6, <1>14 DEF Receive, GiveUp, ReadCache, ReadFast, Select, SetCache, Decide,
     Reply, Fail, reqs, work, hist
<1> QED
  BY <1>7, <1>8, <1>9, <1>10, <1>11, <1>12, <1>13, <1>14 DEF Next, Handle

PinsInv == TypeOK /\ Unsent /\ Settled /\ Recorded /\ VerdictHonoured /\ Pins

LEMMA PinsInvariant == Spec => []PinsInv
<1>1. Init => PinsInv
  BY TypeInit, InvInit DEF PinsInv
<1>2. PinsInv /\ [Next]_vars => PinsInv'
  <2> SUFFICES ASSUME PinsInv, [Next]_vars PROVE PinsInv'
    OBVIOUS
  <2>1. TypeOK'
    BY TypeStep DEF PinsInv
  <2>2. Unsent' /\ Settled' /\ Recorded' /\ VerdictHonoured'
    BY VerdictStep DEF PinsInv
  <2>3. Pins'
    BY <2>1, PinsStep DEF PinsInv
  <2> QED  BY <2>1, <2>2, <2>3 DEF PinsInv
<1> QED  BY <1>1, <1>2, PTL DEF Spec

(* crud.py:89-98: the plan is never older than one that was pinned when    *)
(* the request was sent.                                                   *)
THEOREM FreshSafe == Spec => []FreshPlan
<1>1. PinsInv => FreshPlan
  BY DEF PinsInv, Pins, FreshPlan
<1> QED  BY <1>1, PinsInvariant, PTL

(* crud.py:92: and it is one of the tenant's own.                          *)
THEOREM OwnSafe == Spec => []OwnPlan
<1>1. PinsInv => OwnPlan
  BY DEF PinsInv, Pins, OwnPlan
<1> QED  BY <1>1, PinsInvariant, PTL

-------------------------------------------------------------------------------
(* What the theorems of DecisionEngineProofs say of the request that is    *)
(* being decided: engine.py:169-218, keys.py.                              *)
THEOREM LimitsSafe == Spec => []LimitsWithinPlan
<1>1. LimitsWithinPlan
  BY FallbackSafe DEF LimitsWithinPlan
<1> QED  BY <1>1, PTL

THEOREM CountersSafe == Spec => []CountersSharedOnlyByColons
<1>1. CountersSharedOnlyByColons
  BY NamesSafe DEF CountersSharedOnlyByColons
<1> QED  BY <1>1, PTL
=================================================================================
