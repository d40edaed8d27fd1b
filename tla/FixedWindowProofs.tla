--------------------------- MODULE FixedWindowProofs ---------------------------
(***************************************************************************)
(* Proofs about FixedWindow, for every set of callers and plans, their     *)
(* limits and windows, every cost, clock skew and lag.                     *)
(***************************************************************************)
EXTENDS FixedWindow, TLAPS

(* The calls under way: none is older than MaxLag, the window in its key   *)
(* is one of its plan's, and was that of its server's clock at the start,  *)
(* so it is no later than that of any clock read since.                    *)
Calls ==
  \A p \in Caller :
    /\ pc[p] # "idle" => /\ started[p] <= clock /\ clock - started[p] <= MaxLag
                         /\ started[p] < start[p] + W[plan[p]]
                         /\ plan[p] \in Sharing(start[p])
                         /\ start[p] <= StartOf(ServerClock(p), plan[p])
    /\ pc[p] = "eval" => start[p] <= StartOf(now[p], plan[p])

(* The lives of a key so far lasted one of the windows each, at least, and *)
(* the present one began when the others were over.                        *)
Lasted(s) ==
  \E q \in Sharing(s) :
    /\ deadline[s] >= s + lives[s] * W[q] - MaxSkew
    /\ clock >= s + (lives[s] - 1) * W[q] - MaxSkew

(* Only calls that are not too late for a window that shares it create it. *)
Created(s) ==
  \E q, l \in Sharing(s) : (lives[s] - 1) * W[q] < W[l] + (MaxLag + MaxSkew)

Keys ==
  \A s \in Start :
    /\ exists[s] => lives[s] > 0 /\ clock < deadline[s]
    /\ ~exists[s] => counter[s] = 0 /\ (lives[s] > 0 => deadline[s] <= clock)
    /\ lives[s] > 0 => Lasted(s) /\ Created(s)

(* What a life has granted is counted in its key.                          *)
InTime(s, l) ==
  ontime[s][l] > 0 =>
    \E q \in Sharing(s) : ontime[s][l] <= Limit[l] * CeilDiv(W[l], W[q])

Budget ==
  \A s \in Start, l \in Plan :
    /\ admitted[s][l] <= Limit[l] * lives[s]
    /\ exists[s] => admitted[s][l] <= Limit[l] * (lives[s] - 1) + counter[s]
    /\ ontime[s][l] <= admitted[s][l]
    /\ InTime(s, l)

IInv == TypeOK /\ Calls /\ Keys /\ Budget

-------------------------------------------------------------------------------
(* Arithmetic.                                                             *)

LEMMA Times ==
  ASSUME NEW a \in Int, NEW b \in Int
  PROVE  a * b \in Int /\ (a + 1) * b = a * b + b /\ (a - 1) * b = a * b - b
OBVIOUS

LEMMA TimesMonotone ==
  ASSUME NEW a \in Int, NEW b \in Int, NEW r \in Nat, a <= b
  PROVE  a * r \in Int /\ b * r \in Int /\ a * r <= b * r /\ r * a <= r * b
OBVIOUS

LEMMA Numbers ==
  /\ MaxCost \in Nat /\ MaxSkew \in Nat
  /\ MaxLag \in Nat /\ MaxClock \in Nat /\ MaxCount \in Nat
  /\ \A p \in Caller : Skew[p] \in Nat /\ Skew[p] <= MaxSkew
  /\ \A l \in Plan : Limit[l] \in Nat /\ W[l] \in Nat /\ W[l] > 0
  /\ NoPlan \in Plan
BY FixedWindowAssumption DEF NoPlan

LEMMA DivBounds ==
  ASSUME NEW t \in Nat, NEW b \in Nat, b > 0
  PROVE  /\ t \div b \in Nat
         /\ (t \div b) * b \in Nat
         /\ (t \div b) * b <= t /\ t < (t \div b) * b + b
<1> DEFINE q == t \div b
           r == t % b
<1>1. q \in Int /\ r \in 0 .. (b - 1) /\ t = b * q + r
  OBVIOUS
<1>2. b * q = q * b /\ q * b \in Int
  <2> HIDE DEF q, r
  <2> QED  BY <1>1
<1>3. q \in Nat
  <2> SUFFICES ASSUME q <= -1 PROVE FALSE
    BY <1>1
  <2>1. q * b <= (-1) * b
    <3> HIDE DEF q, r
    <3> QED  BY <1>1, TimesMonotone
  <2> HIDE DEF q, r
  <2> QED  BY <1>1, <1>2, <2>1
<1>4. q * b <= t /\ t < q * b + b /\ q * b \in Nat
  <2>1. 0 * b <= q * b
    <3> HIDE DEF q, r
    <3> QED  BY <1>3, TimesMonotone
  <2> HIDE DEF q, r
  <2> QED  BY <1>1, <1>2, <2>1
<1> QED  BY <1>3, <1>4

(* The window of an instant is the one it lies in.                         *)
LEMMA WindowBounds ==
  ASSUME NEW t \in Nat, NEW l \in Plan
  PROVE  /\ StartOf(t, l) \in Nat /\ StartOf(t, l) <= t /\ t < StartOf(t, l) + W[l]
         /\ StartOf(StartOf(t, l), l) = StartOf(t, l)
<1> DEFINE b == W[l]
           q == t \div b
<1>1. b \in Nat /\ b > 0
  BY Numbers
<1>2. q \in Nat /\ q * b \in Nat /\ q * b <= t /\ t < q * b + b
  BY <1>1, DivBounds
<1>3. (q * b) \div b = q
  <2> DEFINE d == (q * b) \div b
  <2>1. d \in Nat /\ d * b \in Nat /\ d * b <= q * b /\ q * b < d * b + b
    <3> DEFINE u == q * b
    <3>1. u \in Nat
      BY <1>2
    <3> HIDE DEF u, q, b
    <3>2. u \div b \in Nat /\ (u \div b) * b \in Nat /\ (u \div b) * b <= u
          /\ u < (u \div b) * b + b
      BY <1>1, <3>1, DivBounds
    <3> QED  BY <3>2 DEF u
  <2> HIDE DEF d, q, b
  <2>2. SUFFICES ASSUME d # q PROVE FALSE
    BY DEF d
  <2>3. CASE d < q
    <3>1. (d + 1) * b <= q * b
      BY <1>1, <1>2, <2>1, <2>3, TimesMonotone
    <3>2. (d + 1) * b = d * b + b
      BY <1>1, <2>1, Times
    <3> QED  BY <1>1, <1>2, <2>1, <3>1, <3>2
  <2>4. CASE q < d
    <3>1. (q + 1) * b <= d * b
      BY <1>1, <1>2, <2>1, <2>4, TimesMonotone
    <3>2. (q + 1) * b = q * b + b
      BY <1>1, <1>2, Times
    <3> QED  BY <1>1, <1>2, <2>1, <3>1, <3>2
  <2> QED  BY <1>2, <2>1, <2>2, <2>3, <2>4
<1> QED  BY <1>2, <1>3 DEF StartOf

LEMMA WindowMonotone ==
  ASSUME NEW t \in Nat, NEW u \in Nat, NEW l \in Plan, t <= u
  PROVE  StartOf(t, l) <= StartOf(u, l)
<1> DEFINE b == W[l]
           m == t \div b
           n == u \div b
<1>1. b \in Nat /\ b > 0
  BY Numbers
<1>2. m \in Nat /\ m * b <= t /\ n \in Nat /\ u < n * b + b /\ n * b \in Nat /\ m * b \in Nat
  BY <1>1, DivBounds
<1>3. m <= n
  <2> HIDE DEF b, m, n
  <2> SUFFICES ASSUME n + 1 <= m PROVE FALSE
    BY <1>2
  <2>1. (n + 1) * b <= m * b /\ (n + 1) * b = n * b + b
    BY <1>1, <1>2, Times, TimesMonotone
  <2> QED  BY <1>1, <1>2, <2>1
<1>4. m * b <= n * b
  <2> HIDE DEF b, m, n
  <2> QED  BY <1>1, <1>2, <1>3, TimesMonotone
<1> QED  BY <1>4 DEF StartOf

(* A number of intervals that begin within a is at most the quotient.      *)
LEMMA CeilDivBound ==
  ASSUME NEW n \in Nat, NEW a \in Nat, NEW b \in Nat, b > 0, a > 0, (n - 1) * b < a
  PROVE  CeilDiv(a, b) \in Nat /\ n <= CeilDiv(a, b)
<1> DEFINE t == a + b - 1
           d == t \div b
<1>1. t \in Nat
  OBVIOUS
<1>2. d \in Nat /\ d * b \in Nat /\ t < d * b + b
  <2> HIDE DEF t
  <2> QED  BY <1>1, DivBounds
<1>3. a <= d * b
  <2> HIDE DEF d
  <2> QED  BY <1>2
<1> HIDE DEF d, t
<1>4. n <= d
  <2> SUFFICES ASSUME d <= n - 1 PROVE FALSE
    BY <1>2
  <2>1. d * b <= (n - 1) * b /\ (n - 1) * b \in Int
    BY <1>2, TimesMonotone
  <2> QED  BY <1>2, <1>3, <2>1
<1> QED  BY <1>2, <1>4 DEF CeilDiv, d, t

LEMMA StartType ==
  0 \in Start /\ \A s \in Start : s \in Nat
BY Numbers DEF Start

LEMMA ClockInWindow ==
  ASSUME TypeOK, NEW p \in Caller, NEW l \in Plan
  PROVE  /\ ServerClock(p) \in Nat /\ StartOf(ServerClock(p), l) \in Start
         /\ clock \in Nat /\ clock <= ServerClock(p)
         /\ ServerClock(p) <= clock + MaxSkew
<1>1. /\ ServerClock(p) \in Nat /\ ServerClock(p) <= MaxClock + MaxSkew
      /\ clock \in Nat /\ clock <= ServerClock(p)
      /\ ServerClock(p) <= clock + MaxSkew
  BY Numbers DEF TypeOK, ServerClock
<1>2. StartOf(ServerClock(p), l) \in Nat /\ StartOf(ServerClock(p), l) <= ServerClock(p)
  BY <1>1, WindowBounds
<1> QED  BY <1>1, <1>2, Numbers DEF Start

-------------------------------------------------------------------------------
(* The steps.                                                              *)

(* The types of what a script changes.                                     *)
LEMMA TypeStep ==
  ASSUME TypeOK, [Next]_vars
  PROVE  TypeOK'
<1>1. ASSUME NEW p \in Caller, BuildKey(p) PROVE TypeOK'
  <2>1. /\ \A l \in Plan : StartOf(ServerClock(p), l) \in Start
        /\ clock \in Nat
    BY ClockInWindow, Numbers
  <2>2. PICK c \in 1 .. MaxCost, l \in Plan :
          /\ pc' = [pc EXCEPT ![p] = "stamp"]
          /\ plan' = [plan EXCEPT ![p] = l]
          /\ started' = [started EXCEPT ![p] = clock]
          /\ start' = [start EXCEPT ![p] = StartOf(ServerClock(p), l)]
          /\ cost' = [cost EXCEPT ![p] = c]
          /\ UNCHANGED <<keys, clock, now, hist>>
    BY <1>1 DEF BuildKey
  <2> QED  BY <2>1, <2>2, Numbers DEF TypeOK, keys, hist
<1>2. ASSUME NEW p \in Caller, ReadClock(p) PROVE TypeOK'
  <2>1. ServerClock(p) \in Nat
    BY ClockInWindow, Numbers
  <2> QED  BY <1>2, <2>1 DEF ReadClock, TypeOK, keys, hist
<1>3. ASSUME NEW p \in Caller, Finish(p), Increment(p, start[p]),
             UNCHANGED clock,
             admitted' \in [Start -> [Plan -> Nat]], ontime' \in [Start -> [Plan -> Nat]]
      PROVE  TypeOK'
  <2>1. start[p] \in Start /\ Count(p) \in Nat /\ clock + W[plan[p]] \in Nat /\ 0 \in Start
    BY Numbers, StartType DEF TypeOK, Count
  <2>2. exists' \in [Start -> BOOLEAN] /\ counter' \in [Start -> Nat]
        /\ deadline' \in [Start -> Nat] /\ lives' \in [Start -> Nat]
    BY <1>3, <2>1 DEF Increment, TypeOK
  <2>3. /\ pc' \in [Caller -> {"idle", "stamp", "eval"}] /\ plan' \in [Caller -> Plan]
        /\ started' \in [Caller -> Nat] /\ start' \in [Caller -> Start]
        /\ now' \in [Caller -> Nat] /\ cost' \in [Caller -> 0 .. MaxCost]
    BY <1>3, <2>1, Numbers DEF Finish, TypeOK
  <2> QED  BY <1>3, <2>2, <2>3 DEF TypeOK
<1>4. ASSUME NEW p \in Caller, Grant(p) PROVE TypeOK'
  <2>1. cost[p] \in Nat /\ start[p] \in Start /\ plan[p] \in Plan
    BY Numbers DEF TypeOK
  <2>2. admitted' \in [Start -> [Plan -> Nat]] /\ ontime' \in [Start -> [Plan -> Nat]]
    BY <1>4, <2>1 DEF Grant, TypeOK
  <2> QED  BY <1>4, <1>3, <2>2 DEF Grant
<1>5. ASSUME NEW p \in Caller, Refuse(p) PROVE TypeOK'
  <2>1. admitted' \in [Start -> [Plan -> Nat]] /\ ontime' \in [Start -> [Plan -> Nat]]
    BY <1>5 DEF Refuse, TypeOK
  <2> QED  BY <1>5, <1>3, <2>1 DEF Refuse
<1>6. ASSUME NEW p \in Caller, Abandon(p) PROVE TypeOK'
  <2> QED  BY <1>6, StartType, Numbers DEF Abandon, Finish, TypeOK, keys, hist
<1>7. CASE Tick
  BY <1>7, Numbers DEF Tick, TypeOK, call, hist
<1>8. CASE UNCHANGED vars
  BY <1>8 DEF vars, keys, call, hist, TypeOK
<1> QED  BY <1>1, <1>2, <1>4, <1>5, <1>6, <1>7, <1>8 DEF Next

(* No step makes a call older than MaxLag or its window a later one.       *)
LEMMA CallsStep ==
  ASSUME TypeOK, TypeOK', Calls, [Next]_vars
  PROVE  Calls'
<1>1. ASSUME NEW p \in Caller, BuildKey(p) PROVE Calls'
  <2>1. PICK l \in Plan :
          /\ pc' = [pc EXCEPT ![p] = "stamp"]
          /\ plan' = [plan EXCEPT ![p] = l]
          /\ started' = [started EXCEPT ![p] = clock]
          /\ start' = [start EXCEPT ![p] = StartOf(ServerClock(p), l)]
          /\ UNCHANGED <<clock, now>>
    BY <1>1 DEF BuildKey
  <2>2. /\ ServerClock(p) \in Nat /\ clock \in Nat /\ clock <= ServerClock(p)
        /\ StartOf(ServerClock(p), l) \in Nat
        /\ ServerClock(p) < StartOf(ServerClock(p), l) + W[l] /\ W[l] \in Nat
        /\ StartOf(StartOf(ServerClock(p), l), l) = StartOf(ServerClock(p), l)
    BY ClockInWindow, WindowBounds, Numbers
  <2>3. /\ started'[p] = clock /\ start'[p] = StartOf(ServerClock(p), l) /\ pc'[p] = "stamp"
        /\ plan'[p] = l
        /\ \A q \in Caller \ {p} : /\ pc'[q] = pc[q] /\ started'[q] = started[q]
                                    /\ start'[q] = start[q] /\ plan'[q] = plan[q]
    BY <2>1 DEF TypeOK
  <2>4. l \in Sharing(StartOf(ServerClock(p), l))
    BY <2>2 DEF Sharing
  <2>5. clock < StartOf(ServerClock(p), l) + W[l]
    BY <2>2
  <2> QED  BY <2>1, <2>2, <2>3, <2>4, <2>5, Numbers DEF Calls, ServerClock
<1>2. ASSUME NEW p \in Caller, ReadClock(p) PROVE Calls'
  BY <1>2 DEF ReadClock, Calls, TypeOK, ServerClock
<1>3. ASSUME NEW p \in Caller, Finish(p), UNCHANGED clock PROVE Calls'
  BY <1>3 DEF Finish, Calls, TypeOK, ServerClock
<1>4. CASE Tick
  <2> SUFFICES ASSUME NEW p \in Caller, pc[p] # "idle"
               PROVE  /\ started[p] <= clock' /\ clock' - started[p] <= MaxLag
                      /\ start[p] <= StartOf(ServerClock(p)', plan[p])
    BY <1>4 DEF Tick, Calls, call, ServerClock
  <2>1. clock' = clock + 1 /\ clock - started[p] < MaxLag /\ started[p] <= clock
    BY <1>4 DEF Tick, Calls
  <2>2. clock \in Nat /\ started[p] \in Nat /\ start[p] \in Nat /\ plan[p] \in Plan
    BY StartType DEF TypeOK
  <2>3. /\ ServerClock(p) \in Nat /\ ServerClock(p)' \in Nat
        /\ ServerClock(p) <= ServerClock(p)'
    BY <2>1, <2>2, Numbers DEF ServerClock
  <2>4. /\ StartOf(ServerClock(p), plan[p]) <= StartOf(ServerClock(p)', plan[p])
        /\ StartOf(ServerClock(p), plan[p]) \in Nat
        /\ StartOf(ServerClock(p)', plan[p]) \in Nat
    <3> DEFINE t == ServerClock(p)
               u == ServerClock(p)'
    <3>1. t \in Nat /\ u \in Nat /\ t <= u
      BY <2>3
    <3> HIDE DEF t, u
    <3>2. StartOf(t, plan[p]) <= StartOf(u, plan[p])
          /\ StartOf(t, plan[p]) \in Nat /\ StartOf(u, plan[p]) \in Nat
      BY <2>2, <3>1, WindowMonotone, WindowBounds
    <3> QED  BY <3>2 DEF t, u
  <2>5. start[p] <= StartOf(ServerClock(p), plan[p])
    BY DEF Calls
  <2> QED  BY <2>1, <2>2, <2>4, <2>5, Numbers
<1>5. CASE UNCHANGED vars
  BY <1>5 DEF vars, call, Calls, ServerClock
<1> QED  BY <1>1, <1>2, <1>3, <1>4, <1>5 DEF Next, Grant, Refuse, Abandon

(* The script writes to the key of a window of its plan that has begun.    *)
LEMMA WindowBegun ==
  ASSUME TypeOK, Calls, NEW p \in Caller, pc[p] # "idle"
  PROVE  /\ start[p] \in Start /\ start[p] \in Nat
         /\ plan[p] \in Plan /\ plan[p] \in Sharing(start[p])
         /\ start[p] <= clock + MaxSkew
<1>1. start[p] \in Start /\ start[p] \in Nat /\ plan[p] \in Plan
  BY StartType DEF TypeOK
<1>2. /\ StartOf(ServerClock(p), plan[p]) \in Nat
      /\ StartOf(ServerClock(p), plan[p]) <= ServerClock(p)
      /\ ServerClock(p) \in Nat /\ clock \in Nat /\ ServerClock(p) <= clock + MaxSkew
  BY <1>1, ClockInWindow, WindowBounds
<1>3. start[p] <= StartOf(ServerClock(p), plan[p]) /\ plan[p] \in Sharing(start[p])
  BY DEF Calls
<1> QED  BY <1>1, <1>2, <1>3, Numbers

(* What the script leaves behind, key by key.                              *)
LEMMA IncrementEffect ==
  ASSUME TypeOK, NEW v \in Start, NEW p \in Caller, Increment(p, v)
  PROVE  /\ exists'[v] = TRUE /\ counter'[v] = Count(p)
         /\ deadline'[v] = (IF exists[v] THEN deadline[v] ELSE clock + W[plan[p]])
         /\ lives'[v] = (IF exists[v] THEN lives[v] ELSE lives[v] + 1)
         /\ \A s \in Start \ {v} :
              /\ exists'[s] = exists[s] /\ counter'[s] = counter[s]
              /\ deadline'[s] = deadline[s] /\ lives'[s] = lives[s]
BY DEF Increment, TypeOK

(* A key that is created again lives on for a window more: its own plan's, *)
(* or a shorter one that an earlier life lasted.                           *)
LEMMA CreationLasts ==
  ASSUME TypeOK, Calls, Keys, NEW p \in Caller, pc[p] # "idle",
         NEW v \in Start, v = start[p], ~exists[v],
         Increment(p, v), UNCHANGED clock
  PROVE  Lasted(v)'
<1>1. /\ v \in Nat /\ plan[p] \in Plan /\ plan[p] \in Sharing(v) /\ v <= clock + MaxSkew
      /\ clock \in Nat /\ lives[v] \in Nat /\ deadline[v] \in Nat
  BY WindowBegun DEF TypeOK
<1>2. deadline'[v] = clock + W[plan[p]] /\ lives'[v] = lives[v] + 1
  BY IncrementEffect
<1> DEFINE n == lives[v]
           a == W[plan[p]]
<1>3. a \in Nat /\ a > 0 /\ n \in Nat /\ MaxSkew \in Nat
  BY <1>1, Numbers
<1>4. CASE n = 0
  <2>1. 1 * a = a /\ (1 - 1) * a = 0
    BY <1>3
  <2>2. deadline'[v] >= v + lives'[v] * a - MaxSkew
        /\ clock' >= v + (lives'[v] - 1) * a - MaxSkew
    <3>1. lives'[v] = 1
      BY <1>2, <1>4
    <3>2. lives'[v] * a = a /\ (lives'[v] - 1) * a = 0
      <4> HIDE DEF a
      <4> QED  BY <2>1, <3>1
    <3>3. v + a - MaxSkew <= clock + a /\ v + 0 - MaxSkew <= clock
      <4> HIDE DEF a
      <4> QED  BY <1>1, <1>3
    <3> QED  BY <1>2, <3>2, <3>3
  <2> QED  BY <1>1, <2>2 DEF Lasted
<1>5. CASE n > 0
  <2>1. PICK q \in Sharing(v) : deadline[v] >= v + n * W[q] - MaxSkew
    BY <1>5 DEF Keys, Lasted
  <2>2. deadline[v] <= clock
    BY <1>5 DEF Keys
  <2> DEFINE b == W[q]
  <2>3. b \in Nat /\ b > 0
    BY Numbers DEF Sharing
  <2> SUFFICES \E r \in Sharing(v) :
                 /\ clock + a >= v + (n + 1) * W[r] - MaxSkew
                 /\ clock >= v + n * W[r] - MaxSkew
    <3>1. (n + 1) - 1 = n
      BY <1>3
    <3> HIDE DEF a
    <3> QED  BY <1>2, <3>1 DEF Lasted, a
  <2>4. n * b \in Int /\ (n + 1) * b = n * b + b
        /\ n * a \in Int /\ (n + 1) * a = n * a + a
    <3> HIDE DEF n, a, b
    <3> QED  BY <1>3, <2>3, Times
  <2>5. clock >= v + n * b - MaxSkew
    <3> DEFINE x == n * b
    <3>1. x \in Int /\ deadline[v] >= v + x - MaxSkew
      BY <2>1, <2>4
    <3> HIDE DEF x
    <3> QED  BY <1>1, <1>3, <2>2, <3>1 DEF x
  <2>6. CASE b <= a
    <3>1. clock + a >= v + (n + 1) * b - MaxSkew
      <4> DEFINE x == n * b
                 y == (n + 1) * b
      <4>1. x \in Int /\ y = x + b /\ clock >= v + x - MaxSkew
        BY <2>4, <2>5
      <4> HIDE DEF x, y, a, b
      <4>2. clock + a >= v + y - MaxSkew
        BY <1>1, <1>3, <2>3, <2>6, <4>1
      <4> QED  BY <4>2 DEF y
    <3> QED  BY <2>5, <3>1
  <2>7. CASE a <= b
    <3>1. n * a <= n * b
      <4> HIDE DEF n, a, b
      <4> QED  BY <1>3, <2>3, <2>7, TimesMonotone
    <3>2. clock >= v + n * a - MaxSkew /\ clock + a >= v + (n + 1) * a - MaxSkew
      <4> DEFINE x == n * b
                 y == n * a
                 z == (n + 1) * a
      <4>1. x \in Int /\ y \in Int /\ y <= x /\ z = y + a /\ clock >= v + x - MaxSkew
        BY <2>4, <2>5, <3>1
      <4> HIDE DEF x, y, z, a, b
      <4>2. clock >= v + y - MaxSkew /\ clock + a >= v + z - MaxSkew
        BY <1>1, <1>3, <4>1
      <4> QED  BY <4>2 DEF y, z
    <3> QED  BY <1>1, <3>2
  <2> QED  BY <1>3, <2>3, <2>6, <2>7
<1> QED  BY <1>3, <1>4, <1>5

(* The call that creates it is not too late for its own plan's window.     *)
LEMMA CreationInTime ==
  ASSUME TypeOK, Calls, NEW p \in Caller, pc[p] # "idle", NEW v \in Start, v = start[p],
         Lasted(v)', UNCHANGED clock, lives'[v] \in Nat
  PROVE  Created(v)'
<1>1. /\ v \in Nat /\ plan[p] \in Plan /\ plan[p] \in Sharing(v)
      /\ clock \in Nat /\ started[p] \in Nat /\ MaxLag \in Nat /\ MaxSkew \in Nat
      /\ W[plan[p]] \in Nat
  BY WindowBegun, Numbers DEF TypeOK
<1>2. clock - started[p] <= MaxLag /\ started[p] < v + W[plan[p]]
  BY DEF Calls
<1>3. PICK q \in Sharing(v) : clock >= v + (lives'[v] - 1) * W[q] - MaxSkew
  BY DEF Lasted
<1> DEFINE x == (lives'[v] - 1) * W[q]
           a == W[plan[p]]
<1>4. x \in Int
  <2>1. W[q] \in Nat /\ lives'[v] - 1 \in Int
    BY Numbers DEF Sharing
  <2> QED  BY <2>1, Times
<1>5. x < a + (MaxLag + MaxSkew)
  <2>1. clock >= v + x - MaxSkew /\ started[p] < v + a /\ a \in Nat
    BY <1>1, <1>2, <1>3
  <2> HIDE DEF x, a
  <2> QED  BY <1>1, <1>2, <1>4, <2>1
<1> QED  BY <1>1, <1>5 DEF Created

LEMMA IncrementKeeps ==
  ASSUME TypeOK, Calls, Keys, NEW p \in Caller, pc[p] = "eval",
         Increment(p, start[p]), UNCHANGED clock
  PROVE  Keys'
<1>0. PICK v \in Start : v = start[p]
  BY DEF TypeOK
<1>1. /\ exists'[v] = TRUE
      /\ deadline'[v] = (IF exists[v] THEN deadline[v] ELSE clock + W[plan[p]])
      /\ lives'[v] = (IF exists[v] THEN lives[v] ELSE lives[v] + 1)
      /\ \A s \in Start \ {v} :
           /\ exists'[s] = exists[s] /\ counter'[s] = counter[s]
           /\ deadline'[s] = deadline[s] /\ lives'[s] = lives[s]
  BY <1>0, IncrementEffect
<1>2. /\ clock \in Nat /\ \A s \in Start : lives[s] \in Nat /\ deadline[s] \in Nat
      /\ W[plan[p]] \in Nat /\ W[plan[p]] > 0
  BY Numbers DEF TypeOK
<1>3. ASSUME NEW s \in Start, lives'[s] = lives[s], deadline'[s] = deadline[s], lives[s] > 0
      PROVE  Lasted(s)' /\ Created(s)'
  BY <1>3 DEF Keys, Lasted, Created
<1>4. lives'[v] > 0 /\ clock' < deadline'[v]
  BY <1>1, <1>2 DEF Keys
<1>5. Lasted(v)' /\ Created(v)'
  <2>1. CASE exists[v]
    BY <1>1, <1>3, <2>1 DEF Keys
  <2>2. CASE ~exists[v]
    <3>1. Lasted(v)'
      BY <1>0, <2>2, CreationLasts
    <3>2. lives'[v] \in Nat
      BY <1>1, <1>2
    <3> QED  BY <1>0, <3>1, <3>2, CreationInTime
  <2> QED  BY <2>1, <2>2
<1> SUFFICES ASSUME NEW s \in Start, s # v
             PROVE  /\ exists'[s] => lives'[s] > 0 /\ clock' < deadline'[s]
                    /\ ~exists'[s] => counter'[s] = 0
                                      /\ (lives'[s] > 0 => deadline'[s] <= clock')
                    /\ lives'[s] > 0 => Lasted(s)' /\ Created(s)'
  BY <1>1, <1>4, <1>5 DEF Keys
<1> QED  BY <1>1, <1>3 DEF Keys

LEMMA TickKeeps ==
  ASSUME TypeOK, Keys, Tick
  PROVE  Keys'
<1> SUFFICES ASSUME NEW s \in Start
             PROVE  /\ exists'[s] => lives'[s] > 0 /\ clock' < deadline'[s]
                    /\ ~exists'[s] => counter'[s] = 0
                                      /\ (lives'[s] > 0 => deadline'[s] <= clock')
                    /\ lives'[s] > 0 => Lasted(s)' /\ Created(s)'
  BY DEF Keys
<1>1. /\ clock' = clock + 1 /\ deadline' = deadline /\ lives' = lives
      /\ exists'[s] = (exists[s] /\ clock + 1 < deadline[s])
      /\ counter'[s] = (IF clock + 1 < deadline[s] THEN counter[s] ELSE 0)
  BY DEF Tick, hist
<1>2. /\ clock \in Nat /\ deadline[s] \in Nat /\ exists[s] \in BOOLEAN /\ lives[s] \in Nat
      /\ s \in Nat /\ MaxSkew \in Nat
  BY StartType, Numbers DEF TypeOK
<1>3. /\ exists[s] => lives[s] > 0
      /\ ~exists[s] => counter[s] = 0 /\ (lives[s] > 0 => deadline[s] <= clock)
      /\ lives[s] > 0 => Lasted(s) /\ Created(s)
  BY DEF Keys
<1>4. /\ exists'[s] => lives'[s] > 0 /\ clock' < deadline'[s]
      /\ ~exists'[s] => counter'[s] = 0 /\ (lives'[s] > 0 => deadline'[s] <= clock')
  <2>1. CASE clock + 1 < deadline[s]
    <3>1. (exists'[s] <=> exists[s]) /\ counter'[s] = counter[s]
      BY <1>1, <2>1
    <3>2. clock' < deadline'[s] /\ lives'[s] = lives[s]
      BY <1>1, <2>1
    <3>3. lives[s] > 0 => exists[s]
      BY <1>2, <1>3, <2>1
    <3> QED  BY <1>3, <3>1, <3>2, <3>3
  <2>2. CASE ~(clock + 1 < deadline[s])
    <3>1. ~exists'[s] /\ counter'[s] = 0
      BY <1>1, <2>2
    <3>2. deadline'[s] <= clock'
      BY <1>1, <1>2, <2>2
    <3> QED  BY <3>1, <3>2
  <2> QED  BY <2>1, <2>2
<1>5. ASSUME lives[s] > 0 PROVE Lasted(s)' /\ Created(s)'
  <2>1. Created(s)'
    BY <1>1, <1>3, <1>5 DEF Created
  <2>2. PICK q \in Sharing(s) : /\ deadline[s] >= s + lives[s] * W[q] - MaxSkew
                                /\ clock >= s + (lives[s] - 1) * W[q] - MaxSkew
    BY <1>3, <1>5 DEF Lasted
  <2> DEFINE x == (lives[s] - 1) * W[q]
  <2>3. x \in Int
    <3>1. W[q] \in Nat /\ lives[s] - 1 \in Int
      BY <1>2, Numbers DEF Sharing
    <3> QED  BY <3>1, Times
  <2>4. clock + 1 >= s + x - MaxSkew
    <3>1. clock >= s + x - MaxSkew
      BY <2>2
    <3> HIDE DEF x
    <3> QED  BY <1>2, <2>3, <3>1
  <2> QED  BY <1>1, <2>1, <2>2, <2>4 DEF Lasted
<1> QED  BY <1>1, <1>4, <1>5

LEMMA KeysStep ==
  ASSUME TypeOK, Calls, Keys, [Next]_vars
  PROVE  Keys'
<1>1. ASSUME UNCHANGED <<keys, clock, lives>> PROVE Keys'
  BY <1>1 DEF keys, Keys, Lasted, Created
<1>2. ASSUME NEW p \in Caller, Grant(p) \/ Refuse(p) PROVE Keys'
  BY <1>2, IncrementKeeps DEF Grant, Refuse
<1>3. CASE Tick
  BY <1>3, TickKeeps
<1>4. CASE UNCHANGED vars
  BY <1>1, <1>4 DEF vars, hist
<1>5. ASSUME NEW p \in Caller, BuildKey(p) \/ ReadClock(p) \/ Abandon(p) PROVE Keys'
  BY <1>1, <1>5 DEF BuildKey, ReadClock, Abandon, hist
<1> QED  BY <1>2, <1>3, <1>4, <1>5 DEF Next

(* As long as l's window lasts, a key has not had more lives than windows  *)
(* of the length of q, which a life lasts at least, fit into it.           *)
LEMMA LivesInTime ==
  ASSUME NEW s \in Start, NEW l \in Plan, NEW q \in Plan, NEW n \in Nat, NEW t \in Nat,
         t >= s + (n - 1) * W[q] - MaxSkew, t < s + W[l] - MaxSkew
  PROVE  CeilDiv(W[l], W[q]) \in Nat /\ n <= CeilDiv(W[l], W[q])
<1>1. /\ W[q] \in Nat /\ W[q] > 0 /\ W[l] \in Nat /\ W[l] > 0 /\ MaxSkew \in Nat /\ s \in Nat
  BY StartType, Numbers
<1>2. (n - 1) * W[q] < W[l]
  <2> DEFINE x == (n - 1) * W[q]
             a == W[l]
  <2>1. x \in Int /\ a \in Nat /\ t >= s + x - MaxSkew /\ t < s + a - MaxSkew
    BY <1>1, Times
  <2> HIDE DEF x, a
  <2>2. x < a
    BY <1>1, <2>1
  <2> QED  BY <2>2 DEF x, a
<1> QED  BY <1>1, <1>2, CeilDivBound

(* A script that counts within the limit, or does not grant, keeps to the  *)
(* budget of the life of the key it counts in, for every plan.             *)
LEMMA CountKeeps ==
  ASSUME TypeOK, Keys, TypeOK', Keys', Budget, NEW p \in Caller, NEW v \in Start,
         NEW k \in Plan, NEW c \in Nat, v = start[p], k = plan[p],
         Increment(p, v), UNCHANGED clock,
         c = 0 \/ (c = cost[p] /\ Count(p) <= Limit[k]),
         admitted' = [admitted EXCEPT ![v][k] = @ + c],
         ontime' = [ontime EXCEPT ![v][k] = IF Over(v, k) THEN @ ELSE @ + c]
  PROVE  Budget'
<1>1. /\ exists'[v] = TRUE /\ counter'[v] = Count(p)
      /\ lives'[v] = (IF exists[v] THEN lives[v] ELSE lives[v] + 1)
      /\ \A s \in Start \ {v} :
           /\ exists'[s] = exists[s] /\ counter'[s] = counter[s] /\ lives'[s] = lives[s]
  BY IncrementEffect
<1>2. ASSUME NEW s \in Start, NEW l \in Plan, s # v
      PROVE  /\ admitted'[s][l] <= Limit[l] * lives'[s]
             /\ exists'[s] => admitted'[s][l] <= Limit[l] * (lives'[s] - 1) + counter'[s]
             /\ ontime'[s][l] <= admitted'[s][l]
             /\ InTime(s, l)'
  <2>1. admitted'[s] = admitted[s] /\ ontime'[s] = ontime[s]
    BY <1>2 DEF TypeOK
  <2> QED  BY <1>1, <1>2, <2>1 DEF Budget, InTime
<1>3. ASSUME NEW l \in Plan
      PROVE  /\ admitted'[v][l] <= Limit[l] * lives'[v]
             /\ exists'[v] => admitted'[v][l] <= Limit[l] * (lives'[v] - 1) + counter'[v]
             /\ ontime'[v][l] <= admitted'[v][l]
             /\ InTime(v, l)'
  <2> DEFINE d == IF l = k THEN c ELSE 0
  <2>1. /\ admitted'[v][l] = admitted[v][l] + d
        /\ ontime'[v][l] = (IF Over(v, l) THEN ontime[v][l] ELSE ontime[v][l] + d)
    <3>1. admitted[v] \in [Plan -> Nat] /\ ontime[v] \in [Plan -> Nat]
      BY DEF TypeOK
    <3>2. admitted[v][l] \in Nat /\ ontime[v][l] \in Nat
      BY <3>1
    <3>3. CASE l = k
      BY <3>1, <3>3 DEF TypeOK
    <3>4. CASE l # k
      <4>1. admitted'[v][l] = admitted[v][l] /\ ontime'[v][l] = ontime[v][l]
        BY <3>1, <3>4 DEF TypeOK
      <4> QED  BY <3>2, <3>4, <4>1
    <3> QED  BY <3>3, <3>4
  <2>2. /\ Count(p) = counter[v] + cost[p] /\ Count(p) \in Nat /\ counter[v] \in Nat
        /\ cost[p] \in Nat /\ d \in Nat /\ d <= cost[p] /\ lives[v] \in Nat
        /\ d = 0 \/ (d = cost[p] /\ Count(p) <= Limit[l])
        /\ admitted[v][l] \in Nat /\ ontime[v][l] \in Nat /\ Limit[l] \in Nat
    BY Numbers DEF TypeOK, Count
  <2>3. /\ admitted[v][l] <= Limit[l] * lives[v]
        /\ exists[v] => admitted[v][l] <= Limit[l] * (lives[v] - 1) + counter[v]
        /\ ontime[v][l] <= admitted[v][l] /\ InTime(v, l)
    BY DEF Budget
  <2> HIDE DEF d
  <2>4. admitted'[v][l] <= Limit[l] * (lives'[v] - 1) + (counter[v] + d)
    <3>1. CASE exists[v]
      <4>1. Limit[l] * (lives[v] - 1) \in Int
        BY <2>2
      <4> QED  BY <1>1, <2>1, <2>2, <2>3, <3>1, <4>1
    <3>2. CASE ~exists[v]
      <4>1. lives'[v] - 1 = lives[v] /\ Limit[l] * lives[v] \in Int
        BY <1>1, <2>2, <3>2
      <4> QED  BY <2>1, <2>2, <2>3, <4>1
    <3> QED  BY <3>1, <3>2
  <2>5. /\ lives'[v] \in Nat /\ Limit[l] * (lives'[v] - 1) \in Int
        /\ Limit[l] * lives'[v] \in Int
        /\ Limit[l] * lives'[v] = Limit[l] * (lives'[v] - 1) + Limit[l]
    <3>1. lives'[v] \in Nat
      BY <1>1, <2>2
    <3>2. /\ (lives'[v] - 1) * Limit[l] = lives'[v] * Limit[l] - Limit[l]
          /\ lives'[v] * Limit[l] \in Int
      BY <2>2, <3>1, Times
    <3> QED  BY <2>2, <3>1, <3>2
  <2>6. admitted'[v][l] <= Limit[l] * (lives'[v] - 1) + counter'[v]
    BY <1>1, <2>1, <2>2, <2>4, <2>5
  <2>7. admitted'[v][l] <= Limit[l] * lives'[v]
    <3>1. CASE d = cost[p] /\ Count(p) <= Limit[l]
      BY <2>1, <2>2, <2>4, <2>5, <3>1
    <3>2. CASE d = 0
      <4>1. Limit[l] * lives[v] <= Limit[l] * lives'[v]
        <5>1. lives[v] <= lives'[v]
          BY <1>1, <2>2
        <5> DEFINE L == Limit[l]
                   m == lives[v]
                   n == lives'[v]
        <5>2. L \in Nat /\ m \in Nat /\ n \in Nat /\ m <= n
          BY <2>2, <2>5, <5>1
        <5> HIDE DEF L, m, n
        <5>3. L * m <= L * n
          BY <5>2, TimesMonotone
        <5> QED  BY <5>3 DEF L, m, n
      <4>2. Limit[l] * lives[v] \in Int
        BY <2>2
      <4> QED  BY <2>1, <2>2, <2>3, <2>5, <3>2, <4>1, <4>2
    <3> QED  BY <2>2, <3>1, <3>2
  <2>8. ontime'[v][l] <= admitted'[v][l]
    BY <2>1, <2>2, <2>3
  <2>9. InTime(v, l)'
    <3>1. CASE Over(v, l)
      <4>1. ontime'[v][l] = ontime[v][l]
        BY <2>1, <3>1
      <4> QED  BY <2>3, <4>1 DEF InTime
    <3>2. CASE ~Over(v, l)
      <4>1. PICK q \in Sharing(v) : clock' >= v + (lives'[v] - 1) * W[q] - MaxSkew
        BY <1>1, <2>2 DEF Keys, Lasted
      <4>2. /\ CeilDiv(W[l], W[q]) \in Nat
            /\ lives'[v] <= CeilDiv(W[l], W[q])
        <5>1. clock \in Nat /\ clock' = clock /\ clock < v + W[l] - MaxSkew /\ q \in Plan
          <6>1. clock \in Nat /\ v \in Nat /\ W[l] \in Nat /\ MaxSkew \in Nat
            BY StartType, Numbers DEF TypeOK
          <6> QED  BY <3>2, <6>1 DEF Over, Sharing
        <5> QED  BY <2>5, <4>1, <5>1, LivesInTime
      <4>3. Limit[l] * lives'[v] <= Limit[l] * CeilDiv(W[l], W[q])
            /\ Limit[l] * CeilDiv(W[l], W[q]) \in Int
        <5> DEFINE L == Limit[l]
                   m == lives'[v]
                   n == CeilDiv(W[l], W[q])
        <5>1. L \in Nat /\ m \in Nat /\ n \in Nat /\ m <= n
          BY <2>2, <2>5, <4>2
        <5> HIDE DEF L, m, n
        <5>2. L * m <= L * n /\ L * n \in Int
          BY <5>1, TimesMonotone
        <5> QED  BY <5>2 DEF L, m, n
      <4>4. ontime'[v][l] \in Nat /\ admitted'[v][l] \in Nat
        BY <2>1, <2>2
      <4>5. ontime'[v][l] <= Limit[l] * CeilDiv(W[l], W[q])
        BY <2>5, <2>7, <2>8, <4>3, <4>4
      <4> QED  BY <4>5 DEF InTime
    <3> QED  BY <3>1, <3>2
  <2> QED  BY <2>6, <2>7, <2>8, <2>9
<1> QED
  <2> SUFFICES ASSUME NEW s \in Start, NEW l \in Plan
               PROVE  /\ admitted'[s][l] <= Limit[l] * lives'[s]
                      /\ exists'[s] => admitted'[s][l] <= Limit[l] * (lives'[s] - 1)
                                                          + counter'[s]
                      /\ ontime'[s][l] <= admitted'[s][l]
                      /\ InTime(s, l)'
    BY DEF Budget
  <2> QED  BY <1>2, <1>3

LEMMA BudgetStep ==
  ASSUME TypeOK, Keys, TypeOK', Keys', Budget, [Next]_vars
  PROVE  Budget'
<1>1. ASSUME NEW p \in Caller, Grant(p) PROVE Budget'
  <2>1. PICK v \in Start, k \in Plan : v = start[p] /\ k = plan[p]
    BY DEF TypeOK
  <2>2. cost[p] \in Nat
    BY Numbers DEF TypeOK
  <2> QED  BY <1>1, <2>1, <2>2, CountKeeps DEF Grant
<1>2. ASSUME NEW p \in Caller, Refuse(p) PROVE Budget'
  <2>1. PICK v \in Start, k \in Plan : v = start[p] /\ k = plan[p]
    BY DEF TypeOK
  <2>2. /\ admitted' = [admitted EXCEPT ![v][k] = @ + 0]
        /\ ontime' = [ontime EXCEPT ![v][k] = IF Over(v, k) THEN @ ELSE @ + 0]
    <3>1. /\ admitted[v] \in [Plan -> Nat] /\ ontime[v] \in [Plan -> Nat]
          /\ admitted[v][k] + 0 = admitted[v][k] /\ ontime[v][k] + 0 = ontime[v][k]
      BY DEF TypeOK
    <3> QED  BY <1>2, <3>1 DEF Refuse, TypeOK
  <2> QED  BY <1>2, <2>1, <2>2, CountKeeps DEF Refuse
<1>3. CASE Tick
  <2>1. UNCHANGED hist /\ \A s \in Start : exists'[s] => exists[s] /\ counter'[s] = counter[s]
    BY <1>3 DEF Tick, TypeOK
  <2> QED  BY <2>1 DEF Budget, InTime, hist
<1>4. ASSUME UNCHANGED <<keys, hist>> PROVE Budget'
  BY <1>4 DEF Budget, InTime, keys, hist
<1>5. CASE UNCHANGED vars
  BY <1>4, <1>5 DEF vars
<1>6. ASSUME NEW p \in Caller, BuildKey(p) \/ ReadClock(p) \/ Abandon(p) PROVE Budget'
  BY <1>4, <1>6 DEF BuildKey, ReadClock, Abandon
<1> QED  BY <1>1, <1>2, <1>3, <1>5, <1>6 DEF Next

LEMMA InvInit ==
  ASSUME Init
  PROVE  IInv
<1>1. TypeOK
  BY StartType, Numbers DEF Init, TypeOK
<1>2. Calls /\ Keys
  BY DEF Init, Calls, Keys
<1>3. Budget
  <2>1. \A l \in Plan : Limit[l] * 0 = 0 /\ 0 <= Limit[l]
    BY Numbers
  <2> QED  BY <2>1 DEF Init, Budget, InTime
<1> QED  BY <1>1, <1>2, <1>3 DEF IInv

LEMMA InvStep ==
  ASSUME IInv, [Next]_vars
  PROVE  IInv'
<1>1. TypeOK'
  BY TypeStep DEF IInv
<1>2. Calls'
  BY <1>1, CallsStep DEF IInv
<1>3. Keys'
  BY KeysStep DEF IInv
<1>4. Budget'
  BY <1>1, <1>3, BudgetStep DEF IInv
<1> QED  BY <1>1, <1>2, <1>3, <1>4 DEF IInv

THEOREM Invariance == Spec => []IInv
<1>1. Init => IInv
  BY InvInit
<1>2. IInv /\ [Next]_vars => IInv'
  BY InvStep
<1> QED  BY <1>1, <1>2, PTL DEF Spec

(* The variables keep their types; in particular every window a clock may  *)
(* show while the instance runs starts in Start.                           *)
THEOREM TypeCorrect == Spec => []TypeOK
<1>1. IInv => TypeOK
  BY DEF IInv
<1> QED  BY <1>1, Invariance, PTL

(* A life of a key grants a plan no more than its limit.                   *)
THEOREM BudgetSafe == Spec => []BudgetPerLife
<1>1. IInv => BudgetPerLife
  BY DEF IInv, Budget, BudgetPerLife
<1> QED  BY <1>1, Invariance, PTL

(* A key that was created stays as long as the shortest window that shares *)
(* it lasts for any server.                                                *)
THEOREM KeySafe == Spec => []KeyOutlivesWindow
<1>1. IInv => KeyOutlivesWindow
  <2> SUFFICES ASSUME IInv, NEW s \in Start, lives[s] > 0,
                      \A q \in Sharing(s) : ~Over(s, q)
               PROVE  exists[s] /\ lives[s] = 1
    BY DEF KeyOutlivesWindow
  <2>1. PICK q \in Sharing(s) : /\ deadline[s] >= s + lives[s] * W[q] - MaxSkew
                                /\ clock >= s + (lives[s] - 1) * W[q] - MaxSkew
    BY DEF IInv, Keys, Lasted
  <2>2. /\ lives[s] \in Nat /\ deadline[s] \in Nat /\ clock \in Nat /\ s \in Nat
        /\ MaxSkew \in Nat /\ W[q] \in Nat /\ W[q] > 0 /\ exists[s] \in BOOLEAN
    BY StartType, Numbers DEF IInv, TypeOK, Sharing
  <2> DEFINE n == lives[s]
             b == W[q]
             x == (n - 1) * b
             y == n * b
  <2>3. x \in Int /\ y \in Int /\ n \in Nat /\ n > 0 /\ b \in Nat
        /\ deadline[s] >= s + y - MaxSkew
        /\ clock >= s + x - MaxSkew /\ clock < s + b - MaxSkew
    <3>1. x \in Int /\ y \in Int
      <4>1. n \in Nat /\ b \in Nat
        BY <2>2
      <4> HIDE DEF n, b
      <4> QED  BY <4>1, Times
    <3> QED  BY <2>1, <2>2, <3>1 DEF Over
  <2>4. 1 * b <= y /\ (n > 1 => 1 * b <= x)
    <3> HIDE DEF n, b
    <3> QED  BY <2>3, TimesMonotone
  <2>5. b <= y /\ (n > 1 => b <= x)
    <3> HIDE DEF n, x, y, b
    <3> QED  BY <2>3, <2>4
  <2> HIDE DEF n, x, y, b
  <2>6. n = 1 /\ clock < deadline[s]
    BY <2>2, <2>3, <2>5
  <2>7. exists[s]
    BY <2>2, <2>6 DEF IInv, Keys
  <2> QED  BY <2>6, <2>7 DEF n
<1> QED  BY <1>1, Invariance, PTL

(* What is granted before a window is over stays within the limit, also if *)
(* other calls count in it afterwards, however late they are, unless plans *)
(* of shorter windows share its key; then within as many limits as windows *)
(* of theirs it has room for.                                              *)
THEOREM InTimeSafe == Spec => []InTimeWithinLimit
<1>1. IInv => InTimeWithinLimit
  BY DEF IInv, Budget, InTime, InTimeWithinLimit
<1> QED  BY <1>1, Invariance, PTL

(* However late calls are, the key of a window is created only so often.   *)
THEOREM LivesSafe == Spec => []LivesBounded
<1>1. IInv => LivesBounded
  <2> SUFFICES ASSUME IInv, NEW s \in Start, lives[s] > 0
               PROVE  \E q, l \in Sharing(s) :
                        lives[s] <= CeilDiv(W[l] + MaxLag + MaxSkew, W[q])
    BY DEF LivesBounded
  <2>1. PICK q, l \in Sharing(s) : (lives[s] - 1) * W[q] < W[l] + (MaxLag + MaxSkew)
    BY DEF IInv, Keys, Created
  <2>2. /\ lives[s] \in Nat /\ W[q] \in Nat /\ W[q] > 0 /\ W[l] \in Nat /\ W[l] > 0
        /\ MaxLag \in Nat /\ MaxSkew \in Nat
    BY Numbers DEF IInv, TypeOK, Sharing
  <2> DEFINE a == W[l] + MaxLag + MaxSkew
  <2>3. a \in Nat /\ a > 0 /\ W[l] + (MaxLag + MaxSkew) = a
    BY <2>2
  <2> HIDE DEF a
  <2>4. lives[s] <= CeilDiv(a, W[q])
    BY <2>1, <2>2, <2>3, CeilDivBound
  <2> QED  BY <2>4 DEF a
<1> QED  BY <1>1, Invariance, PTL

(* No caller is told the reset of a window earlier than the one it counted *)
(* in.                                                                     *)
THEOREM ResetSafe == Spec => []ResetNotEarly
<1>1. IInv => ResetNotEarly
  <2> SUFFICES ASSUME IInv, NEW p \in Caller, pc[p] = "eval"
               PROVE  Reset(p) >= start[p] + W[plan[p]]
    BY DEF ResetNotEarly
  <2>1. start[p] \in Nat /\ now[p] \in Nat /\ plan[p] \in Plan /\ W[plan[p]] \in Nat
    BY StartType, Numbers DEF IInv, TypeOK
  <2>2. StartOf(now[p], plan[p]) \in Nat /\ start[p] <= StartOf(now[p], plan[p])
    BY <2>1, WindowBounds DEF IInv, Calls
  <2> QED  BY <2>1, <2>2 DEF Reset
<1> QED  BY <1>1, Invariance, PTL
===============================================================================
