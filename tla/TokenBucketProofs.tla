--------------------------- MODULE TokenBucketProofs --------------------------
(***************************************************************************)
(* Proofs about TokenBucket, for every set of callers, capacity, refill    *)
(* rate, cost, clock skew, lag and order of scripts.                       *)
(***************************************************************************)
EXTENDS TokenBucket, TLAPS

(* What the bucket needs to be ideal: no script runs later than the buffer *)
(* of the TTL allows for, and an hour is longer than that.                 *)
PromptScripts ==
  MaxLag + 2 * MaxSkew <= Buffer * MS /\ MaxLag + 2 * MaxSkew <= NoRefillTtl * MS

-------------------------------------------------------------------------------
(* Arithmetic.                                                             *)

LEMMA RoundUp ==
  ASSUME NEW a \in Nat, NEW b \in Nat, b > 0
  PROVE  CeilDiv(a, b) \in Nat /\ b * CeilDiv(a, b) >= a
<1> DEFINE q == (a + b - 1) \div b
           r == (a + b - 1) % b
<1>1. q \in Int /\ r \in 0 .. (b - 1) /\ a + b - 1 = b * q + r
  OBVIOUS
<1>2. q \in Nat
  <2> SUFFICES ASSUME q <= -1 PROVE FALSE
    BY <1>1
  <2>1. b * q <= -b
    <3> HIDE DEF q, r
    <3> QED  BY <1>1
  <2> HIDE DEF q, r
  <2> QED  BY <1>1, <2>1
<1>3. b * q >= a
  <2> HIDE DEF q, r
  <2> QED  BY <1>1
<1> QED  BY <1>2, <1>3 DEF CeilDiv

(* The rounded delay, and a tick, refill what was missing.                 *)
LEMMA RetryRefills ==
  ASSUME NEW m \in Nat, rate \in Nat, rate > 0
  PROVE  RetryAfter(m) \in Nat /\ (RetryAfter(m) + 1) * rate >= m
<1> DEFINE q == (2 * m + rate) \div (2 * rate)
           r == (2 * m + rate) % (2 * rate)
<1>1. rate \in Nat /\ 2 * rate \in Nat /\ 2 * rate > 0
  OBVIOUS
<1>2. q \in Int /\ r \in 0 .. (2 * rate - 1) /\ 2 * m + rate = (2 * rate) * q + r
  BY <1>1
<1>3. (2 * rate) * q = 2 * (q * rate)
  <2> HIDE DEF q, r
  <2> QED  BY <1>1, <1>2
<1>4. q \in Nat
  <2> SUFFICES ASSUME q <= -1 PROVE FALSE
    BY <1>2
  <2>1. q * rate <= -rate
    <3> HIDE DEF q, r
    <3> QED  BY <1>1, <1>2
  <2> HIDE DEF q, r
  <2> QED  BY <1>1, <1>2, <1>3, <2>1
<1>5. (q + 1) * rate = q * rate + rate /\ q * rate \in Int
  <2> HIDE DEF q, r
  <2> QED  BY <1>1, <1>2
<1>6. (q + 1) * rate >= m
  <2> HIDE DEF q, r
  <2> QED  BY <1>1, <1>2, <1>3, <1>5
<1> QED  BY <1>1, <1>4, <1>6 DEF RetryAfter

LEMMA MonotoneTimes ==
  ASSUME NEW a \in Int, NEW b \in Int, NEW r \in Nat, a <= b
  PROVE  a * r \in Int /\ b * r \in Int /\ a * r <= b * r
OBVIOUS

(* The TTL outlives the refill of an empty bucket by the buffer.           *)
LEMMA TtlRefills ==
  ASSUME rate \in Rates
  PROVE  /\ Ttl \in Nat /\ Ttl > 0
         /\ rate > 0 => Ttl - Buffer * MS \in Nat /\ (Ttl - Buffer * MS) * rate >= Cap
         /\ rate = 0 => Ttl = NoRefillTtl * MS
<1>1. /\ Cap \in Nat /\ rate \in Nat /\ MS \in Nat /\ MS > 0
      /\ NoRefillTtl \in Nat /\ NoRefillTtl > 0
  BY TokenBucketAssumption
<1>2. CASE rate > 0
  <2> DEFINE n == CeilDiv(Cap, rate * MS)
  <2>1. rate * MS \in Nat /\ rate * MS > 0
    BY <1>1, <1>2
  <2>2. n \in Nat /\ (rate * MS) * n >= Cap
    BY <1>1, <2>1, RoundUp
  <2>3. Ttl = (n + 5) * MS
    BY <1>2 DEF Ttl, Buffer
  <2> HIDE DEF n
  <2>4. (n + 5) * MS = n * MS + 5 * MS /\ n * MS \in Nat
    BY <1>1, <2>2
  <2>5. (n * MS) * rate = (rate * MS) * n
    BY <1>1, <2>2
  <2>6. Ttl \in Nat /\ Ttl > 0 /\ Ttl - Buffer * MS = n * MS
    <3> DEFINE x == n * MS
    <3>1. x \in Nat /\ Ttl = x + 5 * MS
      BY <2>3, <2>4
    <3> HIDE DEF x
    <3>2. Ttl \in Nat /\ Ttl > 0 /\ Ttl - 5 * MS = x
      BY <1>1, <3>1
    <3> QED  BY <3>2 DEF x, Buffer
  <2>7. Ttl - Buffer * MS \in Nat /\ (Ttl - Buffer * MS) * rate >= Cap
    BY <2>2, <2>4, <2>5, <2>6
  <2> QED  BY <1>1, <1>2, <2>6, <2>7
<1>3. CASE ~(rate > 0)
  <2>1. NoRefillTtl * MS \in Nat /\ NoRefillTtl * MS > 0
    BY <1>1
  <2> QED  BY <1>3, <2>1 DEF Ttl
<1> QED  BY <1>2, <1>3

-------------------------------------------------------------------------------
(* Type correctness, and what is known of the calls under way.             *)

CallsOK ==
  \A p \in Caller : pc[p] = "eval" =>
    /\ started[p] <= clock /\ clock - started[p] <= MaxLag
    /\ cost[p] \in 1 .. MaxCost

(* No stamp is ahead of Redis's clock by more than the skew.               *)
StampsSeen == (-MaxSkew) <= ts /\ ts <= clock + MaxSkew

Basics == TypeOK /\ CallsOK /\ StampsSeen

LEMMA Numbers ==
  ASSUME TypeOK
  PROVE  /\ rate \in Rates /\ renewed \in Nat /\ NoRefillTtl * MS \in Nat
         /\ Cap \in Nat /\ rate \in Nat /\ MaxCost \in Nat /\ MS \in Nat /\ MS > 0
         /\ MaxSkew \in Nat /\ MaxLag \in Nat /\ MaxClock \in Nat
         /\ tokens \in Int /\ 0 <= tokens /\ tokens <= Cap
         /\ ts \in Int /\ deadline \in Nat
         /\ clock \in Nat /\ clock <= MaxClock /\ spent \in Nat /\ rewind \in Nat
         /\ \A p \in Caller : /\ started[p] \in Nat /\ cost[p] \in Nat
                              /\ Skew[p] \in (-MaxSkew) .. MaxSkew
                              /\ Now(p) \in Int
BY TokenBucketAssumption DEF TypeOK, Now

LEMMA RefilledBounds ==
  ASSUME TypeOK, NEW now \in Int
  PROVE  Refilled(now) \in 0 .. Cap
<1>1. Greatest(0, now - ts) \in Nat
  BY Numbers DEF Greatest
<1>2. Greatest(0, now - ts) * rate \in Nat
  BY <1>1, Numbers
<1> QED  BY <1>2, Numbers DEF Refilled, Least

(* The clock p read is within the skew of Redis's, then and now.           *)
LEMMA NowBounds ==
  ASSUME Basics, NEW p \in Caller, pc[p] = "eval"
  PROVE  /\ (-MaxSkew) <= Now(p) /\ Now(p) <= clock + MaxSkew
         /\ clock - MaxLag - MaxSkew <= Now(p)
BY Numbers DEF Basics, CallsOK, Now

(* Both verdicts write the bucket back the same way.                       *)
LEMMA EvalBasics ==
  ASSUME Basics, NEW p \in Caller, pc[p] = "eval", Finish(p),
         UNCHANGED <<rate, clock, renewed>>,
         NEW left \in 0 .. Cap, Persist(left, Now(p)), spent' \in Nat,
         answer' \in [now : Int, cost : Nat, allowed : BOOLEAN, retry : Nat]
  PROVE  Basics'
<1> TypeOK /\ CallsOK
  BY DEF Basics
<1>1. /\ exists' = TRUE /\ tokens' = left /\ ts' = Now(p)
      /\ deadline' \in Nat /\ rewind' \in Nat
  BY Numbers, TtlRefills DEF Persist, Greatest
<1>2. /\ pc' \in [Caller -> {"idle", "eval"}] /\ started' \in [Caller -> Nat]
      /\ cost' \in [Caller -> 0 .. MaxCost]
  BY TokenBucketAssumption DEF Finish, TypeOK
<1>3. exists' \in BOOLEAN
  BY <1>1
<1>4. TypeOK'
  BY <1>1, <1>2, <1>3, Numbers DEF TypeOK
<1>5. CallsOK'
  BY DEF Finish, CallsOK, TypeOK
<1>6. StampsSeen'
  BY <1>1, NowBounds DEF StampsSeen
<1> QED  BY <1>4, <1>5, <1>6 DEF Basics

LEMMA BasicsStep ==
  ASSUME Basics, [Next]_vars
  PROVE  Basics'
<1> TypeOK /\ CallsOK /\ StampsSeen
  BY DEF Basics
<1>1. ASSUME NEW p \in Caller, Start(p) PROVE Basics'
  <2>1. PICK c \in 1 .. MaxCost :
          /\ pc' = [pc EXCEPT ![p] = "eval"]
          /\ started' = [started EXCEPT ![p] = clock]
          /\ cost' = [cost EXCEPT ![p] = c]
    BY <1>1 DEF Start
  <2>2. UNCHANGED <<rate, exists, tokens, ts, deadline, clock, answer, spent, rewind, renewed>>
    BY <1>1 DEF Start, bucket, hist
  <2>3. /\ pc' \in [Caller -> {"idle", "eval"}] /\ started' \in [Caller -> Nat]
        /\ cost' \in [Caller -> 0 .. MaxCost]
    BY <2>1, Numbers DEF TypeOK
  <2>4. TypeOK'
    BY <2>2, <2>3 DEF TypeOK
  <2>5. CallsOK'
    BY <2>1, <2>2, Numbers DEF CallsOK, TypeOK
  <2> QED  BY <2>2, <2>4, <2>5 DEF Basics, StampsSeen
<1>2. ASSUME NEW p \in Caller, Grant(p) PROVE Basics'
  <2>1. Now(p) \in Int /\ Refilled(Now(p)) \in 0 .. Cap /\ cost[p] \in Nat
    BY Numbers, RefilledBounds
  <2>2. Refilled(Now(p)) - cost[p] \in 0 .. Cap
    BY <1>2, <2>1, Numbers DEF Grant
  <2>3. answer' \in [now : Int, cost : Nat, allowed : BOOLEAN, retry : Nat]
    BY <1>2, <2>1 DEF Grant
  <2> QED  BY <1>2, <2>1, <2>2, <2>3, Numbers, EvalBasics DEF Grant
<1>3. ASSUME NEW p \in Caller, Refuse(p) PROVE Basics'
  <2>1. Now(p) \in Int /\ Refilled(Now(p)) \in 0 .. Cap /\ cost[p] \in Nat
    BY Numbers, RefilledBounds
  <2>2. cost[p] - Refilled(Now(p)) \in Nat
    BY <1>3, <2>1, Numbers DEF Refuse
  <2>3. RetryAfter(cost[p] - Refilled(Now(p))) \in Nat
    BY <2>2, RetryRefills, Numbers DEF RetryAfter
  <2>4. answer' \in [now : Int, cost : Nat, allowed : BOOLEAN, retry : Nat]
    BY <1>3, <2>1, <2>3 DEF Refuse
  <2> QED  BY <1>3, <2>1, <2>4, Numbers, EvalBasics DEF Refuse
<1>4. ASSUME NEW p \in Caller, Abandon(p) PROVE Basics'
  <2>1. UNCHANGED <<rate, exists, tokens, ts, deadline, clock, answer, spent, rewind, renewed>>
    BY <1>4 DEF Abandon, bucket, hist
  <2>2. /\ pc' \in [Caller -> {"idle", "eval"}] /\ started' \in [Caller -> Nat]
        /\ cost' \in [Caller -> 0 .. MaxCost]
    BY <1>4, TokenBucketAssumption DEF Abandon, Finish, TypeOK
  <2>3. CallsOK'
    BY <1>4, <2>1 DEF Abandon, Finish, CallsOK, TypeOK
  <2> QED  BY <2>1, <2>2, <2>3 DEF Basics, TypeOK, StampsSeen
<1>5. CASE Tick
  <2>1. /\ UNCHANGED <<rate, tokens, ts, deadline, pc, started, cost, answer, spent, rewind>>
        /\ clock' = clock + 1 /\ clock < MaxClock
        /\ \A p \in Caller : pc[p] = "eval" => clock - started[p] < MaxLag
    BY <1>5 DEF Tick, call
  <2>2. exists' \in BOOLEAN /\ renewed' \in Nat
    BY <1>5, Numbers DEF Tick
  <2>3. clock' \in 0 .. MaxClock
    BY <2>1, Numbers
  <2>4. TypeOK'
    BY <2>1, <2>2, <2>3 DEF TypeOK
  <2>5. CallsOK'
    BY <2>1, Numbers DEF CallsOK
  <2>6. StampsSeen'
    BY <2>1, Numbers DEF StampsSeen
  <2> QED  BY <2>4, <2>5, <2>6 DEF Basics
<1>6. CASE UNCHANGED vars
  BY <1>6 DEF vars, bucket, call, hist, Basics, TypeOK, CallsOK, StampsSeen
<1> QED  BY <1>1, <1>2, <1>3, <1>4, <1>5, <1>6 DEF Next

LEMMA BasicsInit == Init => Basics
<1> SUFFICES ASSUME Init PROVE Basics
  OBVIOUS
<1>1. exists \in BOOLEAN
  BY DEF Init
<1>2. answer \in [now : Int, cost : Nat, allowed : BOOLEAN, retry : Nat]
  BY DEF Init
<1>3. /\ tokens \in 0 .. Cap /\ ts \in Int /\ deadline \in Nat
      /\ clock \in 0 .. MaxClock /\ spent \in Nat /\ rewind \in Nat
      /\ renewed \in Nat /\ rate \in Rates
      /\ (-MaxSkew) <= ts /\ ts <= clock + MaxSkew
  BY TokenBucketAssumption DEF Init
<1>4. /\ pc \in [Caller -> {"idle", "eval"}] /\ started \in [Caller -> Nat]
      /\ cost \in [Caller -> 0 .. MaxCost] /\ \A p \in Caller : pc[p] = "idle"
  BY TokenBucketAssumption DEF Init
<1> QED  BY <1>1, <1>2, <1>3, <1>4 DEF Basics, TypeOK, CallsOK, StampsSeen

(* The bucket, its callers and its answers stay in their types: a refill   *)
(* never overfills it, and a grant never takes more than it holds.         *)
THEOREM TypeCorrect == Spec => []TypeOK
<1>1. Init => Basics
  BY BasicsInit
<1>2. Basics /\ [Next]_vars => Basics'
  BY BasicsStep
<1>3. Basics => TypeOK
  BY DEF Basics
<1> QED  BY <1>1, <1>2, <1>3, PTL DEF Spec

-------------------------------------------------------------------------------
(* Expiry is invisible.  The earliest stamp a script yet to run can carry: *)
Floor == Greatest(0, clock - MaxLag) - MaxSkew

(* FullAt(s): from the stored fields, a bucket that refills is full at s.  *)
FullAt(s) == s >= ts /\ (rate > 0 => tokens + (s - ts) * rate >= Cap)

(* A key that is there expires only when the bucket is full for every      *)
(* stamp that can still come; one that is gone is full for them already.   *)
ExpiryInv == /\ exists => FullAt(deadline - MaxLag - MaxSkew)
             /\ ~exists => FullAt(Floor)

LEMMA FullLater ==
  ASSUME TypeOK, NEW s \in Int, NEW t \in Int, s <= t, FullAt(s)
  PROVE  FullAt(t)
<1>1. (s - ts) * rate <= (t - ts) * rate
      /\ (s - ts) * rate \in Int /\ (t - ts) * rate \in Int
  BY Numbers, MonotoneTimes
<1> QED  BY <1>1, Numbers DEF FullAt

(* A script leaves a key that lives until the bucket must be full.         *)
LEMMA EvalExpiry ==
  ASSUME Basics, Basics', PromptScripts, NEW p \in Caller, pc[p] = "eval",
         NEW left \in 0 .. Cap, Persist(left, Now(p)), UNCHANGED <<rate, clock>>
  PROVE  ExpiryInv'
<1> TypeOK /\ TypeOK'
  BY DEF Basics
<1>1. exists' = TRUE /\ ts' = Now(p) /\ tokens' = left /\ deadline' = clock + Ttl
  BY DEF Persist
<1>2. Now(p) <= clock + MaxSkew /\ Now(p) \in Int
  BY NowBounds, Numbers
<1>3. CASE rate = 0
  <2>1. Ttl = NoRefillTtl * MS
    BY <1>3, TtlRefills, Numbers
  <2>2. deadline' - MaxLag - MaxSkew >= ts'
    BY <1>1, <1>2, <2>1, Numbers DEF PromptScripts
  <2> QED  BY <1>1, <1>3, <2>2 DEF ExpiryInv, FullAt
<1>4. CASE rate > 0
  <2>1. Ttl \in Nat /\ Ttl - Buffer * MS \in Nat /\ (Ttl - Buffer * MS) * rate >= Cap
    BY <1>4, TtlRefills, Numbers
  <2> DEFINE d == (deadline' - MaxLag - MaxSkew) - ts'
             e == Ttl - Buffer * MS
  <2>2. d \in Int /\ e \in Nat /\ e <= d
    BY <1>1, <1>2, <2>1, Numbers DEF PromptScripts, Buffer
  <2>3. e * rate \in Int /\ d * rate \in Int /\ e * rate <= d * rate
    <3> HIDE DEF d, e
    <3> QED  BY <2>2, Numbers, MonotoneTimes
  <2>4. left + d * rate >= Cap /\ d >= 0
    <3>1. e * rate >= Cap
      BY <2>1
    <3> HIDE DEF d, e
    <3> QED  BY <2>2, <2>3, <3>1, Numbers
  <2>5. deadline' - MaxLag - MaxSkew >= ts'
    BY <1>1, <1>2, <2>1, <2>4, Numbers
  <2> QED  BY <1>1, <2>4, <2>5 DEF ExpiryInv, FullAt
<1> QED  BY <1>3, <1>4, Numbers

LEMMA ExpiryStep ==
  ASSUME Basics, ExpiryInv, PromptScripts, [Next]_vars
  PROVE  ExpiryInv'
<1> TypeOK
  BY DEF Basics
<1>0. Basics'
  BY BasicsStep
<1>1. ASSUME NEW p \in Caller, Start(p) \/ Abandon(p) PROVE ExpiryInv'
  <2>1. UNCHANGED <<rate, exists, tokens, ts, deadline, clock>>
    BY <1>1 DEF Start, Abandon, bucket, hist
  <2> QED  BY <2>1 DEF ExpiryInv, FullAt, Floor
<1>2. ASSUME NEW p \in Caller, Grant(p) PROVE ExpiryInv'
  <2>1. Refilled(Now(p)) \in 0 .. Cap /\ cost[p] \in Nat
    BY Numbers, RefilledBounds
  <2>2. Refilled(Now(p)) - cost[p] \in 0 .. Cap
    BY <1>2, <2>1, Numbers DEF Grant
  <2> QED  BY <1>0, <1>2, <2>2, EvalExpiry DEF Grant
<1>3. ASSUME NEW p \in Caller, Refuse(p) PROVE ExpiryInv'
  <2>1. Refilled(Now(p)) \in 0 .. Cap
    BY Numbers, RefilledBounds
  <2> QED  BY <1>0, <1>3, <2>1, EvalExpiry DEF Refuse
<1>4. CASE Tick
  <2>1. UNCHANGED <<rate, tokens, ts, deadline>> /\ clock' = clock + 1
        /\ exists' = (exists /\ clock + 1 < deadline)
    BY <1>4 DEF Tick
  <2>2. Floor \in Int /\ Floor' \in Int /\ Floor <= Floor'
    BY <2>1, Numbers DEF Floor, Greatest
  <2>3. CASE ~exists
    <3>1. FullAt(Floor) /\ ~exists'
      BY <2>1, <2>3 DEF ExpiryInv
    <3>2. FullAt(Floor')
      BY <2>2, <3>1, FullLater
    <3> QED  BY <2>1, <3>1, <3>2 DEF ExpiryInv, FullAt
  <2>4. CASE exists /\ clock + 1 < deadline
    BY <2>1, <2>4 DEF ExpiryInv, FullAt
  <2>5. CASE exists /\ ~(clock + 1 < deadline)
    <3>1. deadline - MaxLag - MaxSkew <= Floor' /\ deadline - MaxLag - MaxSkew \in Int
      BY <2>1, <2>5, Numbers DEF Floor, Greatest
    <3>2. FullAt(Floor')
      BY <2>2, <2>5, <3>1, FullLater DEF ExpiryInv
    <3> QED  BY <2>1, <2>5, <3>2 DEF ExpiryInv, FullAt
  <2> QED  BY <2>3, <2>4, <2>5
<1>5. CASE UNCHANGED vars
  BY <1>5 DEF vars, bucket, ExpiryInv, FullAt, Floor
<1> QED  BY <1>1, <1>2, <1>3, <1>4, <1>5 DEF Next

LEMMA ExpiryInit == Init => ExpiryInv
<1> SUFFICES ASSUME Init PROVE ExpiryInv
  OBVIOUS
<1>1. Floor = ts /\ ts \in Int
  BY TokenBucketAssumption DEF Init, Floor, Greatest
<1>2. (Floor - ts) * rate = 0
  BY <1>1, TokenBucketAssumption DEF Init
<1> QED  BY <1>1, <1>2, TokenBucketAssumption DEF Init, ExpiryInv, FullAt

LEMMA ExpiryInvariant ==
  ASSUME PromptScripts
  PROVE  Spec => [](Basics /\ ExpiryInv)
<1>1. Init => Basics /\ ExpiryInv
  BY BasicsInit, ExpiryInit
<1>2. Basics /\ ExpiryInv /\ [Next]_vars => (Basics /\ ExpiryInv)'
  BY BasicsStep, ExpiryStep
<1> QED  BY <1>1, <1>2, PTL DEF Spec

(* Every call under way is stamped at Floor or later.                      *)
LEMMA StampsComing ==
  ASSUME Basics, NEW p \in Caller, pc[p] = "eval"
  PROVE  Floor <= Now(p) /\ Floor \in Int
BY NowBounds, Numbers DEF Basics, CallsOK, Floor, Greatest, Now

LEMMA ForgottenFull ==
  ASSUME Basics, ExpiryInv, ~exists, NEW p \in Caller, pc[p] = "eval"
  PROVE  FullAt(Now(p))
<1>1. TypeOK /\ FullAt(Floor) /\ Now(p) \in Int
  BY Numbers DEF Basics, ExpiryInv
<1> QED  BY <1>1, StampsComing, FullLater

(* token_bucket.lua, lines 53 to 59: if scripts run within the buffer, the *)
(* bucket of a key that has expired, if it refills, would have been full   *)
(* for every call under way.                                               *)
THEOREM ExpirySafe ==
  ASSUME PromptScripts
  PROVE  Spec => []ForgottenMeansFull
<1>1. Basics /\ ExpiryInv => ForgottenMeansFull
  BY ForgottenFull DEF ForgottenMeansFull, FullAt
<1> QED  BY <1>1, ExpiryInvariant, PTL

-------------------------------------------------------------------------------
(* Refinement: each script is a look at the ideal bucket.                  *)

LEMMA StampInRange ==
  ASSUME Basics, NEW p \in Caller, pc[p] = "eval"
  PROVE  Now(p) \in Stamp
BY NowBounds, Numbers DEF Basics, Stamp, Epoch

(* What the script sees is what the ideal bucket holds.                    *)
LEMMA SameLevel ==
  ASSUME Basics, ExpiryInv, NEW p \in Caller, pc[p] = "eval"
  PROVE  /\ Refilled(Now(p)) = Ideal!LevelAt(Now(p))
         /\ ~exists => Ideal!Greatest(0, ts - Now(p)) = 0
<1> TypeOK
  BY DEF Basics
<1>1. CASE exists
  BY <1>1 DEF Refilled, Level, Ideal!LevelAt, Least, Greatest, Ideal!Least, Ideal!Greatest
<1>2. CASE ~exists
  <2>1. Now(p) >= ts /\ (rate > 0 => tokens + (Now(p) - ts) * rate >= Cap)
    BY <1>2, ForgottenFull DEF FullAt
  <2>2. Ideal!Greatest(0, Now(p) - ts) = Now(p) - ts /\ Ideal!Greatest(0, ts - Now(p)) = 0
    BY <2>1, Numbers DEF Ideal!Greatest
  <2>3. (Now(p) - ts) * rate \in Int
    BY Numbers
  <2>4. Level \in Int /\ Level + (Now(p) - ts) * rate >= Cap
    <3>1. CASE rate > 0
      BY <2>1, <3>1, Numbers DEF Level
    <3>2. CASE rate = 0
      <4>1. (Now(p) - ts) * rate = 0
        BY <3>2, Numbers
      <4> QED  BY <1>2, <3>2, <4>1, Numbers DEF Level
    <3> QED  BY <3>1, <3>2, Numbers
  <2>5. Ideal!LevelAt(Now(p)) = Cap
    <3> DEFINE x == (Now(p) - ts) * rate
    <3>1. x \in Int /\ Level + x >= Cap /\ Level \in Int
      BY <2>3, <2>4
    <3>2. Ideal!LevelAt(Now(p)) = Ideal!Least(Cap, Level + x)
      BY <2>2 DEF Ideal!LevelAt
    <3> HIDE DEF x
    <3> QED  BY <3>1, <3>2, Numbers DEF Ideal!Least
  <2> QED  BY <1>2, <2>2, <2>5 DEF Refilled
<1> QED  BY <1>1, <1>2

LEMMA SameRewind ==
  ASSUME Basics, ExpiryInv, NEW p \in Caller, pc[p] = "eval",
         NEW left, Persist(left, Now(p))
  PROVE  /\ Level' = left /\ ts' = Now(p)
         /\ rewind' = rewind + Ideal!Greatest(0, ts - Now(p))
<1>1. CASE exists
  BY <1>1 DEF Persist, Level, Greatest, Ideal!Greatest
<1>2. CASE ~exists
  <2>1. rewind + 0 = rewind
    BY Numbers DEF Basics
  <2> QED  BY <1>2, <2>1, SameLevel DEF Persist, Level
<1> QED  BY <1>1, <1>2

(* A script is a look at the ideal bucket, with the stamp it carries.      *)
LEMMA ScriptLooks ==
  ASSUME Basics, ExpiryInv, NEW p \in Caller, Grant(p) \/ Refuse(p)
  PROVE  /\ pc[p] = "eval" /\ cost[p] \in 1 .. MaxCost /\ Now(p) \in Stamp
         /\ Ideal!Take(Now(p), cost[p]) \/ Ideal!Refuse(Now(p), cost[p])
<1>1. pc[p] = "eval" /\ cost[p] \in 1 .. MaxCost
  BY DEF Grant, Refuse, Basics, CallsOK
<1>2. CASE Grant(p)
  <2>1. Persist(Refilled(Now(p)) - cost[p], Now(p))
    BY <1>2 DEF Grant
  <2>2. Ideal!Take(Now(p), cost[p])
    BY <1>1, <1>2, <2>1, SameLevel, SameRewind DEF Grant, Ideal!Take
  <2> QED  BY <1>1, <2>2, StampInRange
<1>3. CASE Refuse(p)
  <2>1. Persist(Refilled(Now(p)), Now(p))
    BY <1>3 DEF Refuse
  <2>2. Ideal!Refuse(Now(p), cost[p])
    BY <1>1, <1>3, <2>1, SameLevel, SameRewind DEF Refuse, Ideal!Refuse
  <2> QED  BY <1>1, <2>2, StampInRange
<1> QED  BY <1>2, <1>3

(* Expiry renews the bucket that does not refill, and is not seen of the   *)
(* one that does.                                                          *)
LEMMA TickRenews ==
  ASSUME Basics, Tick
  PROVE  Ideal!Renew \/ UNCHANGED Ideal!vars
<1> TypeOK
  BY DEF Basics
<1>1. UNCHANGED <<rate, tokens, ts, spent, rewind>> /\ renewed \in Nat
      /\ exists' = (exists /\ clock + 1 < deadline)
      /\ renewed' = renewed + (IF exists /\ ~exists' /\ rate = 0 THEN 1 ELSE 0)
  BY Numbers DEF Tick
<1>2. CASE exists /\ ~exists' /\ rate = 0
  <2>1. Level' = Cap /\ renewed' = renewed + 1
    BY <1>1, <1>2 DEF Level
  <2>2. Ideal!Renew
    BY <1>1, <1>2, <2>1 DEF Ideal!Renew
  <2> QED  BY <2>2
<1>3. CASE ~(exists /\ ~exists' /\ rate = 0)
  <2>1. CASE rate > 0
    BY <1>1, <2>1, Numbers DEF Level, Ideal!vars
  <2>2. CASE ~(rate > 0)
    <3>1. rate = 0
      BY <2>2, Numbers
    <3>2. exists' <=> exists
      BY <1>1, <1>3, <3>1
    <3>3. Level' = Level
      BY <1>1, <3>2 DEF Level
    <3>4. renewed' = renewed
      BY <1>1, <1>3
    <3> QED  BY <1>1, <3>3, <3>4 DEF Ideal!vars
  <2> QED  BY <2>1, <2>2
<1> QED  BY <1>2, <1>3

LEMMA OthersHidden ==
  ASSUME UNCHANGED vars \/ \E p \in Caller : Start(p) \/ Abandon(p)
  PROVE  UNCHANGED Ideal!vars
BY DEF vars, bucket, hist, Start, Abandon, Ideal!vars, Level

LEMMA StepRefines ==
  ASSUME Basics, ExpiryInv, [Next]_vars
  PROVE  [Ideal!Next]_(Ideal!vars)
<1>1. ASSUME NEW p \in Caller, Grant(p) \/ Refuse(p) PROVE Ideal!Next
  BY <1>1, ScriptLooks DEF Ideal!Next
<1>2. CASE Tick
  BY <1>2, TickRenews DEF Ideal!Next
<1>3. CASE UNCHANGED vars \/ \E p \in Caller : Start(p) \/ Abandon(p)
  BY <1>3, OthersHidden
<1> QED  BY <1>1, <1>2, <1>3 DEF Next

(* token_bucket.lua: if scripts run within the buffer, the key with its    *)
(* expiry behaves as a bucket that is never forgotten, or, if it does not  *)
(* refill, as one renewed now and then.                                    *)
THEOREM Refinement ==
  ASSUME PromptScripts
  PROVE  Spec => ImplementsIdealBucket
<1>1. Init => Ideal!Init
  BY DEF Init, Ideal!Init, Epoch, Level
<1>2. Basics /\ ExpiryInv /\ [Next]_vars => [Ideal!Next]_(Ideal!vars)
  BY StepRefines
<1> QED
  BY <1>1, <1>2, ExpiryInvariant, PTL DEF Spec, ImplementsIdealBucket, Ideal!Spec

-------------------------------------------------------------------------------
(* The rate bound, inherited from the ideal bucket.                        *)
IdealProofs == INSTANCE IdealBucketProofs WITH level <- Level, at <- ts

LEMMA SameLooks ==
  ASSUME NEW s, NEW c
  PROVE  /\ Ideal!Take(s, c) => IdealProofs!Take(s, c)
         /\ Ideal!Refuse(s, c) => IdealProofs!Refuse(s, c)
<1>1. IdealProofs!LevelAt(s) = Ideal!LevelAt(s)
  BY DEF IdealProofs!LevelAt, Ideal!LevelAt, IdealProofs!Least, Ideal!Least,
         IdealProofs!Greatest, Ideal!Greatest
<1>2. \A x, y : IdealProofs!Greatest(x, y) = Ideal!Greatest(x, y)
  BY DEF IdealProofs!Greatest, Ideal!Greatest
<1> QED
  BY <1>1, <1>2 DEF Ideal!Take, IdealProofs!Take, Ideal!Refuse, IdealProofs!Refuse

LEMMA SameIdeal ==
  /\ Ideal!Init => IdealProofs!Init
  /\ Ideal!Next => IdealProofs!Next
  /\ Ideal!vars = IdealProofs!vars
  /\ IdealProofs!Conservation <=> Ideal!Conservation
BY SameLooks
   DEF Ideal!Renew, IdealProofs!Renew, Ideal!Init, IdealProofs!Init, Ideal!Next, IdealProofs!Next,
       Ideal!vars, IdealProofs!vars, Ideal!Conservation, IdealProofs!Conservation

LEMMA IdealBound ==
  ASSUME PromptScripts
  PROVE  Spec => []Ideal!Conservation
<1>1. IdealProofs!BucketParameters
  BY TokenBucketAssumption DEF IdealProofs!BucketParameters, Stamp, Epoch
<1>2. IdealProofs!Spec => [](IdealProofs!TypeOK /\ IdealProofs!Conservation)
  BY <1>1, IdealProofs!IdealConserves
<1>3. Init => IdealProofs!Init
  BY SameIdeal DEF Init, Ideal!Init, Epoch, Level
<1>4. Basics /\ ExpiryInv /\ [Next]_vars => [IdealProofs!Next]_(IdealProofs!vars)
  BY StepRefines, SameIdeal DEF Ideal!vars, IdealProofs!vars
<1>5. IdealProofs!Conservation => Ideal!Conservation
  BY SameIdeal
<1> QED
  BY <1>2, <1>3, <1>4, <1>5, ExpiryInvariant, PTL DEF Spec, IdealProofs!Spec

(* Of a bucket without refill that had been renewed n times at the instant *)
(* a: every renewal since then but the first has taken an hour, and        *)
(* another one ends with its key.                                          *)
HoursSince(a, n) ==
  /\ (renewed - n - 1) * (NoRefillTtl * MS) <= clock - a
  /\ rate = 0 /\ exists => (renewed - n) * (NoRefillTtl * MS) <= deadline - a

LEMMA HoursStep ==
  ASSUME Basics, [Next]_vars, NEW a \in Int, NEW n \in Int, HoursSince(a, n)
  PROVE  HoursSince(a, n)'
<1> DEFINE h == NoRefillTtl * MS
           x == (renewed - n - 1) * h
<1>1. /\ h \in Nat /\ renewed \in Nat /\ clock \in Nat /\ deadline \in Nat /\ rate \in Rates
      /\ x \in Int /\ (renewed - n) * h = x + h
  <2>1. h \in Nat /\ renewed \in Nat
    BY Numbers DEF Basics
  <2>2. x \in Int /\ (renewed - n) * h = x + h
    <3> HIDE DEF h
    <3> QED  BY <2>1
  <2> QED  BY <2>1, <2>2, Numbers DEF Basics
<1>2. x <= clock - a /\ (rate = 0 /\ exists => x + h <= deadline - a)
  BY <1>1 DEF HoursSince
<1>3. ASSUME NEW p \in Caller, Grant(p) \/ Refuse(p) PROVE HoursSince(a, n)'
  <2>1. UNCHANGED <<rate, clock, renewed>> /\ deadline' = clock + Ttl
    BY <1>3 DEF Grant, Refuse, Persist
  <2>2. rate = 0 => Ttl = h
    BY <1>1, TtlRefills
  <2>3. x + h <= (clock + h) - a
    <3> HIDE DEF x, h
    <3> QED  BY <1>1, <1>2
  <2>4. rate = 0 => (renewed - n) * h <= deadline' - a
    BY <1>1, <2>1, <2>2, <2>3
  <2> QED  BY <1>2, <2>1, <2>4 DEF HoursSince
<1>4. CASE Tick
  <2>1. /\ UNCHANGED <<rate, deadline>> /\ clock' = clock + 1
        /\ exists' = (exists /\ clock + 1 < deadline)
        /\ renewed' = renewed + (IF exists /\ ~exists' /\ rate = 0 THEN 1 ELSE 0)
    BY <1>4 DEF Tick
  <2>2. CASE exists /\ ~exists' /\ rate = 0
    <3>0. ~exists' /\ ~(clock + 1 < deadline)
      BY <2>1, <2>2
    <3>1. renewed' = renewed + 1 /\ ~exists' /\ deadline <= clock'
      <4> HIDE DEF x, h
      <4> QED  BY <1>1, <2>1, <2>2, <3>0
    <3>2. x + h <= clock' - a
      <4> HIDE DEF x, h
      <4> QED  BY <1>1, <1>2, <2>1, <2>2, <3>1
    <3>3. renewed' - n - 1 = renewed - n
      BY <1>1, <3>1
    <3>4. (renewed' - n - 1) * h <= clock' - a
      BY <1>1, <3>2, <3>3
    <3> QED  BY <3>1, <3>4 DEF HoursSince
  <2>3. CASE ~(exists /\ ~exists' /\ rate = 0)
    <3>1. exists' => exists
      BY <2>1
    <3>2. renewed' = renewed
      BY <1>1, <2>1, <2>3
    <3>3. x <= clock' - a
      <4> HIDE DEF x, h
      <4> QED  BY <1>1, <1>2, <2>1
    <3> QED  BY <1>1, <1>2, <2>1, <3>1, <3>2, <3>3 DEF HoursSince
  <2> QED  BY <2>2, <2>3
<1>5. CASE UNCHANGED vars \/ \E p \in Caller : Start(p) \/ Abandon(p)
  BY <1>5 DEF vars, bucket, hist, Start, Abandon, HoursSince
<1> QED  BY <1>3, <1>4, <1>5 DEF Next

(* From the start on every renewal has taken an hour.                      *)
Hours == HoursSince(0, -1)

LEMMA BoundOfConservation ==
  ASSUME Basics, Ideal!Conservation, Hours
  PROVE  RateBound
<1>1. TypeOK /\ ts <= clock + MaxSkew
  BY DEF Basics, StampsSeen
<1> DEFINE a == ts - Epoch + rewind
           b == clock + 2 * MaxSkew + rewind
           c == Cap * (renewed + 1)
<1>2. a \in Int /\ b \in Int /\ a <= b /\ c \in Nat
  BY <1>1, Numbers DEF Epoch
<1>3. spent + Level <= c + rate * a /\ Level \in Nat
  BY <1>1, Numbers DEF Ideal!Conservation, Level
<1>4. rate * a \in Int /\ rate * b \in Int /\ rate * a <= rate * b
  <2>1. a * rate \in Int /\ b * rate \in Int /\ a * rate <= b * rate
    <3> HIDE DEF a, b
    <3> QED  BY <1>1, <1>2, Numbers, MonotoneTimes
  <2>2. rate * a = a * rate /\ rate * b = b * rate
    <3> HIDE DEF a, b
    <3> QED  BY <1>1, <1>2, Numbers
  <2> HIDE DEF a, b
  <2> QED  BY <2>1, <2>2
<1>5. spent <= c + rate * b
  <2> HIDE DEF a, b, c
  <2> QED  BY <1>1, <1>2, <1>3, <1>4, Numbers
<1>6. renewed - (-1) - 1 = renewed /\ clock - 0 = clock
  BY <1>1, Numbers
<1>7. renewed * (NoRefillTtl * MS) <= clock
  BY <1>6 DEF Hours, HoursSince
<1> QED  BY <1>5, <1>7 DEF RateBound

(* token_bucket.lua: if scripts run within the buffer, no more than a full *)
(* bucket and its refill is granted, but for what is refilled again when   *)
(* scripts move ts backwards (line 50); a bucket without refill grants one *)
(* full bucket, and another one for each hour that has passed (line 57).   *)
THEOREM RateSafe ==
  ASSUME PromptScripts
  PROVE  Spec => []RateBound
<1>1. Basics /\ Ideal!Conservation /\ Hours => RateBound
  BY BoundOfConservation
<1>2. Init => Basics /\ Hours
  <2>1. 0 - (-1) - 1 = 0 /\ 0 * (NoRefillTtl * MS) = 0
    BY TokenBucketAssumption
  <2> QED  BY <2>1, BasicsInit DEF Init, Hours, HoursSince
<1>3. Basics /\ Hours /\ [Next]_vars => (Basics /\ Hours)'
  BY BasicsStep, HoursStep DEF Hours
<1> QED  BY <1>1, <1>2, <1>3, IdealBound, PTL DEF Spec

-------------------------------------------------------------------------------
(* The bound for any stretch of time.  It starts in a state where s units  *)
(* have been granted, at the instant a, scripts have rewound r ticks in    *)
(* all and the bucket was renewed n times.                                 *)
Mark(s, a, r, n) == spent = s /\ clock = a /\ rewind = r /\ renewed = n

(* What is granted since: a full bucket and the refill of the time since,  *)
(* of the lag and the skew, and of what scripts rewound since; a bucket    *)
(* without refill grants a bucket for each renewal, all of them but the    *)
(* first an hour after the one before it.                                  *)
BoundSince(s, a, r, n) ==
  /\ spent <= s + Cap * (renewed - n + 1)
                + rate * (clock - a + MaxLag + 2 * MaxSkew + rewind - r)
  /\ (renewed - n - 1) * (NoRefillTtl * MS) <= clock - a

(* No script that runs at the instant a or later carries an earlier stamp. *)
From(a) == a - MaxLag - MaxSkew

SinceInv(s, a, r, n) ==
  /\ a <= clock
  /\ IdealProofs!OwedSince(From(a), s, r, n)
  /\ HoursSince(a, n)

(* A key that is there has not expired.                                    *)
Alive == exists => clock < deadline

LEMMA AliveStep ==
  ASSUME Basics, Alive, [Next]_vars
  PROVE  Alive'
<1>1. ASSUME NEW p \in Caller, Grant(p) \/ Refuse(p) PROVE Alive'
  <2>1. clock' = clock /\ deadline' = clock + Ttl
    BY <1>1 DEF Grant, Refuse, Persist
  <2> QED  BY <2>1, TtlRefills, Numbers DEF Basics, Alive
<1>2. CASE Tick
  BY <1>2 DEF Tick, Alive
<1>3. CASE UNCHANGED vars \/ \E p \in Caller : Start(p) \/ Abandon(p)
  BY <1>3 DEF vars, bucket, hist, Start, Abandon, Alive
<1> QED  BY <1>1, <1>2, <1>3 DEF Next

LEMMA IdealTypes ==
  ASSUME Basics
  PROVE  IdealProofs!BucketParameters /\ IdealProofs!TypeOK
<1>1. IdealProofs!BucketParameters
  BY TokenBucketAssumption DEF IdealProofs!BucketParameters, Stamp, Epoch
<1>2. Level \in 0 .. Cap
  BY Numbers DEF Basics, Level
<1> QED  BY <1>1, <1>2, Numbers DEF Basics, IdealProofs!TypeOK

LEMMA StepRefinesFrom ==
  ASSUME Basics, ExpiryInv, [Next]_vars, NEW tau \in Int, tau <= Floor
  PROVE  [IdealProofs!NextFrom(tau)]_(IdealProofs!vars)
<1>1. ASSUME NEW p \in Caller, Grant(p) \/ Refuse(p)
      PROVE  IdealProofs!NextFrom(tau)
  <2>1. Now(p) >= tau
    BY <1>1, ScriptLooks, StampsComing, Numbers DEF Basics
  <2>2. IdealProofs!Take(Now(p), cost[p]) \/ IdealProofs!Refuse(Now(p), cost[p])
    BY <1>1, ScriptLooks, SameLooks
  <2> QED  BY <1>1, <2>1, <2>2, ScriptLooks DEF IdealProofs!NextFrom
<1>2. CASE Tick
  BY <1>2, TickRenews DEF IdealProofs!NextFrom, Ideal!Renew, IdealProofs!Renew,
                          Ideal!vars, IdealProofs!vars
<1>3. CASE UNCHANGED vars \/ \E p \in Caller : Start(p) \/ Abandon(p)
  BY <1>3, OthersHidden DEF Ideal!vars, IdealProofs!vars
<1> QED  BY <1>1, <1>2, <1>3 DEF Next

LEMMA SinceStep ==
  ASSUME Basics, ExpiryInv, NEW s \in Nat, NEW a \in Nat, NEW r \in Nat, NEW n \in Nat,
         SinceInv(s, a, r, n), [Next]_vars
  PROVE  SinceInv(s, a, r, n)'
<1>1. a <= clock /\ clock \in Nat /\ clock' \in Nat /\ clock <= clock'
  <2>1. Basics'
    BY BasicsStep
  <2>2. clock' = clock \/ clock' = clock + 1
    BY DEF Next, vars, Start, Grant, Refuse, Abandon, Tick
  <2> QED  BY <2>1, <2>2, Numbers DEF Basics, SinceInv, TypeOK
<1>2. From(a) \in Int /\ From(a) <= Floor
  BY <1>1, Numbers DEF Basics, From, Floor, Greatest
<1>3. IdealProofs!OwedSince(From(a), s, r, n)'
  <2>1. [IdealProofs!NextFrom(From(a))]_(IdealProofs!vars)
    BY <1>2, StepRefinesFrom
  <2> QED  BY <1>2, <2>1, IdealTypes, IdealProofs!OwedStep DEF SinceInv
<1>4. HoursSince(a, n)'
  BY HoursStep DEF SinceInv
<1> QED  BY <1>1, <1>3, <1>4 DEF SinceInv

LEMMA SinceMark ==
  ASSUME Basics, Alive, NEW s, NEW a, NEW r, NEW n, Mark(s, a, r, n)
  PROVE  SinceInv(s, a, r, n)
<1>1. spent = s /\ clock = a /\ rewind = r /\ renewed = n
  BY DEF Mark
<1>2. From(a) \in Int /\ a <= clock
  BY <1>1, Numbers DEF Basics, From
<1>3. IdealProofs!OwedSince(From(a), s, r, n)
  BY <1>1, <1>2, IdealTypes, IdealProofs!OwedAtFirst
<1>4. HoursSince(a, n)
  <2> DEFINE h == NoRefillTtl * MS
  <2>1. h \in Nat /\ clock \in Nat /\ deadline \in Nat /\ renewed \in Nat
    BY Numbers DEF Basics
  <2>2. (renewed - n - 1) * h = -h /\ (renewed - n) * h = 0
    <3>1. renewed - n - 1 = -1 /\ renewed - n = 0
      BY <1>1, <2>1
    <3> HIDE DEF h
    <3> QED  BY <2>1, <3>1
  <2> HIDE DEF h
  <2>3. (renewed - n - 1) * h <= clock - a
    BY <1>1, <2>1, <2>2
  <2>4. exists => (renewed - n) * h <= deadline - a
    BY <1>1, <2>1, <2>2 DEF Alive
  <2> QED  BY <2>3, <2>4 DEF HoursSince, h
<1> QED  BY <1>2, <1>3, <1>4 DEF SinceInv

LEMMA SinceBound ==
  ASSUME Basics, NEW s \in Nat, NEW a \in Nat, NEW r \in Nat, NEW n \in Nat,
         SinceInv(s, a, r, n)
  PROVE  BoundSince(s, a, r, n)
<1> DEFINE b == clock + MaxSkew
<1>1. /\ a <= clock /\ clock \in Nat /\ MaxSkew \in Nat /\ MaxLag \in Nat /\ rewind \in Nat
      /\ From(a) \in Int /\ ts <= b /\ b \in Int /\ From(a) <= b
  BY Numbers DEF Basics, SinceInv, From, StampsSeen
<1>2. spent <= s + Cap * (renewed - n + 1) + rate * (b - From(a) + rewind - r)
  BY <1>1, IdealTypes, IdealProofs!OwedBound DEF SinceInv
<1>3. b - From(a) + rewind - r = clock - a + MaxLag + 2 * MaxSkew + rewind - r
  BY <1>1 DEF From
<1> QED  BY <1>2, <1>3 DEF BoundSince, SinceInv, HoursSince

(* token_bucket.lua: the bound does not only hold from the start.  If      *)
(* scripts run within the buffer, then over any stretch of time, wherever  *)
(* it begins, a full bucket and its refill are all that is granted, but    *)
(* for what is refilled again when scripts move ts backwards (line 50) and *)
(* for the hours of a bucket without refill (line 57).                     *)
THEOREM AnyStretchSafe ==
  ASSUME PromptScripts, NEW s \in Nat, NEW a \in Nat, NEW r \in Nat, NEW n \in Nat
  PROVE  Spec => [](Mark(s, a, r, n) => []BoundSince(s, a, r, n))
<1>1. Init => Alive
  BY DEF Init, Alive
<1>2. Basics /\ Alive /\ [Next]_vars => Alive'
  BY AliveStep
<1>3. Basics /\ Alive /\ Mark(s, a, r, n) => SinceInv(s, a, r, n)
  BY SinceMark
<1>4. Basics /\ ExpiryInv /\ SinceInv(s, a, r, n) /\ [Next]_vars => SinceInv(s, a, r, n)'
  BY SinceStep
<1>5. Basics /\ SinceInv(s, a, r, n) => BoundSince(s, a, r, n)
  BY SinceBound
<1> QED  BY <1>1, <1>2, <1>3, <1>4, <1>5, ExpiryInvariant, PTL DEF Spec

-------------------------------------------------------------------------------
(* The advice given with a refusal.                                        *)

(* The bucket still shows what the last refusal saw, and the delay it was  *)
(* given, with a tick, refills what was missing.                           *)
AdviceInv ==
  ~answer.allowed =>
    /\ answer.now = ts
    /\ rate > 0 => tokens + (answer.retry + 1) * rate >= answer.cost

LEMMA AdviceStep ==
  ASSUME Basics, AdviceInv, [Next]_vars
  PROVE  AdviceInv'
<1> TypeOK
  BY DEF Basics
<1>1. ASSUME NEW p \in Caller, Grant(p) PROVE AdviceInv'
  BY <1>1 DEF Grant, AdviceInv
<1>2. ASSUME NEW p \in Caller, Refuse(p) PROVE AdviceInv'
  <2> DEFINE have == Refilled(Now(p))
             wait == RetryAfter(cost[p] - have)
  <2>1. have \in Int /\ cost[p] \in Nat /\ have < cost[p]
    BY <1>2, Numbers, RefilledBounds DEF Refuse
  <2>2. cost[p] - have \in Nat
    <3> HIDE DEF have
    <3> QED  BY <2>1
  <2>3. rate > 0 => wait \in Nat /\ (wait + 1) * rate >= cost[p] - have
    <3> HIDE DEF have
    <3> QED  BY <2>2, RetryRefills, Numbers
  <2>4. rate > 0 => (wait + 1) * rate \in Int
    <3> HIDE DEF wait
    <3> QED  BY <2>3, Numbers
  <2>5. rate > 0 => have + (wait + 1) * rate >= cost[p]
    <3> HIDE DEF have, wait
    <3> QED  BY <2>1, <2>3, <2>4
  <2>6. /\ answer' = [now |-> Now(p), cost |-> cost[p], allowed |-> FALSE,
                      retry |-> wait]
        /\ tokens' = have /\ ts' = Now(p) /\ rate' = rate
    BY <1>2 DEF Refuse, Persist
  <2>7. answer'.now = ts' /\ answer'.retry = wait /\ answer'.cost = cost[p]
    <3> HIDE DEF have, wait
    <3> QED  BY <2>6
  <2> QED  BY <2>5, <2>6, <2>7 DEF AdviceInv
<1>3. CASE Tick \/ UNCHANGED vars \/ \E p \in Caller : Start(p) \/ Abandon(p)
  <2>1. UNCHANGED <<rate, tokens, ts, answer>>
    BY <1>3 DEF Tick, vars, bucket, Start, Abandon
  <2> QED  BY <2>1 DEF AdviceInv
<1> QED  BY <1>1, <1>2, <1>3 DEF Next

(* Who asks again is answered by a script; the one verdict is the other's  *)
(* contrary.                                                               *)
LEMMA AnsweredByScript ==
  ASSUME TypeOK, [Next]_vars, NEW p \in Caller, AsksAgain(p, 1)
  PROVE  Grant(p) \/ Refuse(p)
<1>1. ASSUME NEW q \in Caller, Grant(q) \/ Refuse(q) PROVE q = p
  BY <1>1 DEF Grant, Refuse, Finish, AsksAgain, TypeOK
<1>2. ~Tick /\ ~UNCHANGED vars /\ \A q \in Caller : ~Start(q) /\ ~Abandon(q)
  BY DEF Tick, vars, Start, Abandon, AsksAgain
<1> QED  BY <1>1, <1>2 DEF Next

LEMMA AdviceTaken ==
  ASSUME Basics, AdviceInv, rate > 0, NEW p \in Caller, AsksAgain(p, 1), cost[p] <= Cap
  PROVE  ~Refuse(p)
<1> TypeOK
  BY DEF Basics
<1> SUFFICES ASSUME Refuse(p) PROVE FALSE
  OBVIOUS
<1> DEFINE d == Now(p) - ts
           w == answer.retry + 1
<1>1. /\ answer.cost = cost[p] /\ answer.now = ts /\ w \in Nat
      /\ Now(p) >= answer.now + answer.retry + 1
      /\ tokens + w * rate >= cost[p]
  BY DEF AsksAgain, AdviceInv, TypeOK
<1>2. d \in Int /\ w <= d /\ d >= 0
  BY <1>1, Numbers DEF TypeOK
<1>3. w * rate \in Int /\ d * rate \in Int /\ w * rate <= d * rate
  <2> HIDE DEF w, d
  <2> QED  BY <1>1, <1>2, Numbers, MonotoneTimes
<1>4. tokens + d * rate >= cost[p]
  <2> HIDE DEF w, d
  <2> QED  BY <1>1, <1>3, Numbers
<1>5. Greatest(0, Now(p) - ts) = d
  BY <1>2 DEF Greatest
<1>6. Refilled(Now(p)) >= cost[p]
  <2> HIDE DEF d
  <2> QED  BY <1>3, <1>4, <1>5, Numbers DEF Refilled, Least
<1>7. Refilled(Now(p)) < cost[p] /\ Refilled(Now(p)) \in Int /\ cost[p] \in Int
  BY Numbers, RefilledBounds DEF Refuse
<1> QED  BY <1>6, <1>7

LEMMA AdviceRight ==
  ASSUME Basics, AdviceInv, [Next]_vars, NEW p \in Caller, rate > 0, AsksAgain(p, 1)
  PROVE  answer'.allowed <=> cost[p] <= Cap
<1> TypeOK
  BY DEF Basics
<1>1. Grant(p) \/ Refuse(p)
  BY AnsweredByScript
<1>2. CASE cost[p] <= Cap
  <2>1. Grant(p)
    BY <1>1, <1>2, AdviceTaken
  <2> QED  BY <1>2, <2>1 DEF Grant
<1>3. CASE ~(cost[p] <= Cap)
  <2>1. Refilled(Now(p)) <= Cap /\ Refilled(Now(p)) \in Int /\ cost[p] \in Int /\ Cap \in Int
    BY RefilledBounds, Numbers
  <2>2. Refuse(p)
    BY <1>1, <1>3, <2>1 DEF Grant
  <2> QED  BY <1>3, <2>2 DEF Refuse
<1> QED  BY <1>2, <1>3

(* token_bucket.lua, lines 38 to 47: if the bucket refills, retry_after_ms *)
(* is at most a tick short for a call that the bucket can hold at all, and *)
(* a call for more than the capacity is refused whenever it comes back.    *)
THEOREM RetrySafe == Spec => RetryWithinOneTick
<1>1. Init => Basics /\ AdviceInv
  BY BasicsInit DEF Init, AdviceInv
<1>2. Basics /\ AdviceInv /\ [Next]_vars => (Basics /\ AdviceInv)'
  BY BasicsStep, AdviceStep
<1>3. Basics /\ AdviceInv /\ [Next]_vars
        => [\A p \in Caller :
              rate > 0 /\ AsksAgain(p, 1) => (answer'.allowed <=> cost[p] <= Cap)]_vars
  BY AdviceRight
<1> QED  BY <1>1, <1>2, <1>3, PTL DEF Spec, RetryWithinOneTick
===============================================================================
