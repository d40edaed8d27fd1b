-------------------------- MODULE IdealBucketProofs ---------------------------
(***************************************************************************)
(* What the ideal bucket lets through, for every capacity, refill rate,    *)
(* cost and order of stamps.                                               *)
(***************************************************************************)
EXTENDS IdealBucket, TLAPS

(* A look at the bucket, granted or not, leaves in it what the refill      *)
(* brought minus what was granted.                                         *)
LEMMA LevelBounds ==
  ASSUME BucketParameters, TypeOK, NEW s \in Stamp
  PROVE  /\ LevelAt(s) \in 0 .. Cap
         /\ s < at => LevelAt(s) = level
         /\ s >= at => LevelAt(s) <= level + rate * (s - at)
<1> USE DEF BucketParameters, TypeOK
<1>1. s \in Int /\ at \in Int /\ level \in Nat /\ Cap \in Nat /\ rate \in Nat
  OBVIOUS
<1>2. CASE s < at
  <2>1. Greatest(0, s - at) = 0
    BY <1>1, <1>2 DEF Greatest
  <2>2. level + Greatest(0, s - at) * rate = level
    BY <1>1, <2>1
  <2> QED  BY <1>1, <1>2, <2>2 DEF LevelAt, Least
<1>3. CASE s >= at
  <2>1. Greatest(0, s - at) = s - at /\ s - at \in Nat
    BY <1>1, <1>3 DEF Greatest
  <2>2. (s - at) * rate \in Nat /\ (s - at) * rate = rate * (s - at)
    BY <1>1, <2>1
  <2> QED  BY <1>1, <1>3, <2>1, <2>2 DEF LevelAt, Least
<1> QED  BY <1>2, <1>3

(* The budget of Conservation grows by what a look refills: its second     *)
(* factor never shrinks, and grows by s - at when the stamp is ahead.      *)
LEMMA Progress ==
  ASSUME BucketParameters, TypeOK, NEW s \in Stamp,
         at' = s, rewind' = rewind + Greatest(0, at - s)
  PROVE  /\ rewind' \in Nat
         /\ s < at => at' - Epoch + rewind' = at - Epoch + rewind
         /\ s >= at => at' - Epoch + rewind' = (at - Epoch + rewind) + (s - at)
BY DEF BucketParameters, TypeOK, Greatest

LEMMA LookConserves ==
  ASSUME BucketParameters, TypeOK, Conservation, NEW s \in Stamp, NEW granted \in Nat,
         LevelAt(s) >= granted,
         level' = LevelAt(s) - granted, spent' = spent + granted,
         at' = s, rewind' = rewind + Greatest(0, at - s), UNCHANGED <<rate, renewed>>
  PROVE  TypeOK' /\ Conservation'
<1> DEFINE B == at - Epoch + rewind
           C == Cap * (renewed + 1)
<1>1. /\ s \in Int /\ at \in Int /\ level \in Nat /\ spent \in Nat
      /\ rewind \in Nat /\ Epoch \in Int /\ Cap \in Nat /\ rate \in Nat
      /\ renewed \in Nat /\ C \in Nat
  BY DEF BucketParameters, TypeOK
<1>2. TypeOK'
  BY <1>1, LevelBounds, Progress DEF TypeOK
<1>3. spent' + level' = spent + LevelAt(s)
  BY <1>1, LevelBounds
<1>4. spent + level <= C + rate * B /\ B \in Int
  BY <1>1 DEF Conservation
<1>5. CASE s < at
  <2>1. LevelAt(s) = level /\ at' - Epoch + rewind' = B
    BY <1>5, LevelBounds, Progress
  <2> QED  BY <1>2, <1>3, <1>4, <2>1 DEF Conservation
<1>6. CASE s >= at
  <2>1. /\ LevelAt(s) <= level + rate * (s - at)
        /\ at' - Epoch + rewind' = B + (s - at)
    BY <1>6, LevelBounds, Progress
  <2>2. rate * (B + (s - at)) = rate * B + rate * (s - at)
    <3> HIDE DEF B, C
    <3> QED  BY <1>1, <1>4
  <2>3. LevelAt(s) \in Nat /\ rate * (s - at) \in Int /\ rate * B \in Int
    <3> HIDE DEF B, C
    <3> QED  BY <1>1, <1>4, LevelBounds
  <2>4. spent + LevelAt(s) <= C + (rate * B + rate * (s - at))
    <3> HIDE DEF B, C
    <3> QED  BY <1>1, <1>4, <2>1, <2>3
  <2>5. spent' + level' <= C + rate * (at' - Epoch + rewind')
    BY <1>3, <2>1, <2>2, <2>4
  <2> QED  BY <1>2, <2>5 DEF Conservation
<1> QED  BY <1>1, <1>5, <1>6

LEMMA ConservationStep ==
  ASSUME BucketParameters, TypeOK, Conservation, [Next]_vars
  PROVE  TypeOK' /\ Conservation'
<1>1. ASSUME NEW s \in Stamp, NEW c \in 1 .. MaxCost, Take(s, c)
      PROVE  TypeOK' /\ Conservation'
  BY <1>1, LookConserves DEF BucketParameters, Take
<1>2. ASSUME NEW s \in Stamp, NEW c \in 1 .. MaxCost, Refuse(s, c)
      PROVE  TypeOK' /\ Conservation'
  <2>1. LevelAt(s) \in Nat /\ spent \in Nat
    BY LevelBounds DEF BucketParameters, TypeOK
  <2>2. LevelAt(s) >= 0 /\ level' = LevelAt(s) - 0 /\ spent' = spent + 0
    BY <1>2, <2>1 DEF Refuse
  <2> QED  BY <1>2, <2>2, LookConserves DEF Refuse
<1>3. CASE Renew
  <2> DEFINE B == rate * (at - Epoch + rewind)
             C == Cap * (renewed + 1)
  <2>1. /\ Cap \in Nat /\ level \in Nat /\ renewed \in Nat /\ spent \in Nat
        /\ B = 0 /\ C \in Nat /\ spent + level <= C + B
    <3>1. /\ at - Epoch + rewind \in Int /\ Cap \in Nat /\ level \in Nat
          /\ renewed \in Nat /\ spent \in Nat /\ rate = 0
      BY <1>3 DEF BucketParameters, TypeOK, Renew
    <3> QED  BY <3>1 DEF Conservation
  <2>2. Cap * (renewed' + 1) = C + Cap
    BY <1>3, <2>1 DEF Renew
  <2>3. level' = Cap /\ spent' = spent /\ (rate * (at - Epoch + rewind))' = B
    BY <1>3 DEF Renew
  <2>4. spent' + level' <= Cap * (renewed' + 1) + (rate * (at - Epoch + rewind))'
    <3> HIDE DEF B, C
    <3> QED  BY <2>1, <2>2, <2>3
  <2>5. TypeOK'
    BY <1>3 DEF Renew, TypeOK, BucketParameters
  <2> QED  BY <2>4, <2>5 DEF Conservation
<1>4. CASE UNCHANGED vars
  BY <1>4 DEF vars, TypeOK, Conservation
<1> QED  BY <1>1, <1>2, <1>3, <1>4 DEF Next

LEMMA ConservationInit ==
  ASSUME BucketParameters, Init
  PROVE  TypeOK /\ Conservation
<1>1. at - Epoch + rewind = 0
  BY DEF BucketParameters, Init
<1>2. rate * (at - Epoch + rewind) = 0 /\ Cap * (renewed + 1) = Cap
  BY <1>1 DEF BucketParameters, Init
<1> QED  BY <1>2 DEF BucketParameters, Init, TypeOK, Conservation

(* Whatever the order of the stamps, what is granted and what is left are  *)
(* within a full bucket for each renewal, its refill, and what rewound     *)
(* stamps refill again.                                                    *)
THEOREM IdealConserves ==
  ASSUME BucketParameters
  PROVE  Spec => [](TypeOK /\ Conservation)
<1>1. Init => TypeOK /\ Conservation
  BY ConservationInit
<1>2. TypeOK /\ Conservation /\ [Next]_vars => (TypeOK /\ Conservation)'
  BY ConservationStep
<1> QED  BY <1>1, <1>2, PTL DEF Spec
-------------------------------------------------------------------------------
(* Any stretch of time.  What a bucket is worth from the instant tau on:   *)
(* what is in it then, less the refill of the time since, if it was looked *)
(* at after tau.                                                           *)
Worth(tau) == IF at >= tau THEN level - rate * (at - tau) ELSE LevelAt(tau)

(* Since a bucket that had granted s units, its stamps rewound r in all    *)
(* and been renewed n times: no more than a bucket for each renewal, one   *)
(* more, and what rewound stamps refilled again.                           *)
OwedSince(tau, s, r, n) ==
  spent + Worth(tau) <= s + Cap * (renewed - n + 1) + rate * (rewind - r)

(* The actions, the stamps no earlier than tau.                            *)
NextFrom(tau) ==
  \/ \E s \in Stamp, c \in 1 .. MaxCost : s >= tau /\ (Take(s, c) \/ Refuse(s, c))
  \/ Renew

LEMMA LevelFrom ==
  ASSUME BucketParameters, TypeOK, NEW s \in Int
  PROVE  /\ LevelAt(s) \in Nat /\ LevelAt(s) <= Cap
         /\ s < at => LevelAt(s) = level
         /\ s >= at => LevelAt(s) = Least(Cap, level + rate * (s - at))
<1>1. at \in Int /\ level \in Nat /\ level <= Cap /\ Cap \in Nat /\ rate \in Nat
  BY DEF BucketParameters, TypeOK
<1>2. CASE s < at
  <2>1. Greatest(0, s - at) * rate = 0
    BY <1>1, <1>2 DEF Greatest
  <2> QED  BY <1>1, <1>2, <2>1 DEF LevelAt, Least
<1>3. CASE s >= at
  <2>1. Greatest(0, s - at) * rate = rate * (s - at) /\ rate * (s - at) \in Nat
    BY <1>1, <1>3 DEF Greatest
  <2> QED  BY <1>1, <1>3, <2>1 DEF LevelAt, Least
<1> QED  BY <1>1, <1>2, <1>3

(* The worth is no more than the capacity, and no less than what the time  *)
(* since tau refilled.                                                     *)
LEMMA WorthBounds ==
  ASSUME BucketParameters, TypeOK, NEW tau \in Int
  PROVE  /\ Worth(tau) \in Int /\ Worth(tau) <= Cap
         /\ at >= tau => Worth(tau) >= -(rate * (at - tau))
         /\ at < tau => Worth(tau) >= 0
<1>1. at \in Int /\ level \in Nat /\ level <= Cap /\ Cap \in Nat /\ rate \in Nat
  BY DEF BucketParameters, TypeOK
<1>2. CASE at >= tau
  <2>1. rate * (at - tau) \in Nat
    BY <1>1, <1>2
  <2> QED  BY <1>1, <1>2, <2>1 DEF Worth
<1>3. CASE ~(at >= tau)
  BY <1>1, <1>3, LevelFrom DEF Worth
<1> QED  BY <1>2, <1>3

(* A look takes what is granted off the worth, and adds what a rewound     *)
(* stamp will refill again.                                                *)
LEMMA LookWorth ==
  ASSUME BucketParameters, TypeOK, NEW tau \in Int, NEW s \in Stamp, s >= tau,
         NEW granted \in Nat, LevelAt(s) >= granted,
         level' = LevelAt(s) - granted, at' = s, rate' = rate
  PROVE  Worth(tau)' <= Worth(tau) - granted + rate * Greatest(0, at - s)
<1>1. /\ at \in Int /\ level \in Nat /\ level <= Cap /\ Cap \in Nat /\ rate \in Nat
      /\ s \in Int
  BY DEF BucketParameters, TypeOK
<1> DEFINE x == rate * (s - tau)
           y == rate * (at - tau)
           z == rate * Greatest(0, at - s)
           v == LevelAt(s)
<1>2. Worth(tau)' = v - granted - x
  BY <1>1 DEF Worth
<1>3. v \in Nat /\ x \in Nat /\ y \in Int /\ z \in Nat
  BY <1>1, LevelFrom DEF Greatest
<1>4. CASE at >= tau /\ s >= at
  <2>1. v <= level + rate * (s - at) /\ rate * (s - at) \in Nat
    BY <1>1, <1>4, LevelFrom DEF Least
  <2>2. rate * (s - at) = x - y
    BY <1>1
  <2>3. Worth(tau) = level - y
    BY <1>4 DEF Worth
  <2> HIDE DEF x, y, z, v
  <2> QED  BY <1>1, <1>2, <1>3, <2>1, <2>2, <2>3 DEF z
<1>5. CASE at >= tau /\ s < at
  <2>1. v = level
    BY <1>1, <1>5, LevelFrom
  <2>2. z = y - x
    BY <1>1, <1>5 DEF Greatest
  <2>3. Worth(tau) = level - y
    BY <1>5 DEF Worth
  <2> HIDE DEF x, y, z, v
  <2> QED  BY <1>1, <1>2, <1>3, <2>1, <2>2, <2>3 DEF z
<1>6. CASE ~(at >= tau)
  <2>1. v = Least(Cap, level + rate * (s - at))
    BY <1>1, <1>6, LevelFrom
  <2>2. Worth(tau) = Least(Cap, level + rate * (tau - at))
    BY <1>1, <1>6, LevelFrom DEF Worth
  <2>3. rate * (s - at) = rate * (tau - at) + x /\ rate * (tau - at) \in Int
    BY <1>1
  <2> DEFINE w == rate * (tau - at)
  <2>4. v <= Worth(tau) + x /\ Worth(tau) \in Int
    <3> HIDE DEF x, v, w
    <3>1. v = Least(Cap, level + (w + x)) /\ Worth(tau) = Least(Cap, level + w) /\ w \in Int
      BY <2>1, <2>2, <2>3 DEF w
    <3> QED  BY <1>1, <1>3, <3>1 DEF Least
  <2> HIDE DEF x, y, z, v, w
  <2> QED  BY <1>2, <1>3, <2>4 DEF z
<1> QED  BY <1>1, <1>4, <1>5, <1>6

LEMMA LookOwes ==
  ASSUME BucketParameters, TypeOK, NEW tau \in Int, NEW s0 \in Nat, NEW r0 \in Nat,
         NEW n0 \in Nat, OwedSince(tau, s0, r0, n0), NEW s \in Stamp, s >= tau,
         NEW granted \in Nat, LevelAt(s) >= granted,
         level' = LevelAt(s) - granted, spent' = spent + granted,
         at' = s, rewind' = rewind + Greatest(0, at - s), UNCHANGED <<rate, renewed>>
  PROVE  OwedSince(tau, s0, r0, n0)'
<1> DEFINE g == Greatest(0, at - s)
           C == Cap * (renewed - n0 + 1)
<1>1. /\ rate \in Nat /\ spent \in Nat /\ rewind \in Nat /\ Cap \in Nat /\ renewed \in Nat
      /\ g \in Nat /\ C \in Int /\ Worth(tau) \in Int
  BY WorthBounds DEF BucketParameters, TypeOK, Greatest
<1>2. Worth(tau)' <= Worth(tau) - granted + rate * g /\ Worth(tau)' \in Int
  <2>1. LevelAt(s) \in Int /\ s \in Int
    BY LevelBounds DEF BucketParameters
  <2>2. Worth(tau)' = LevelAt(s) - granted - rate * (s - tau)
    BY <2>1, s >= tau DEF Worth
  <2>3. rate * (s - tau) \in Int
    BY <1>1, <2>1
  <2>4. Worth(tau)' \in Int
    BY <2>1, <2>2, <2>3
  <2> QED  BY <2>4, LookWorth
<1>3. rate * (rewind' - r0) = rate * (rewind - r0) + rate * g
      /\ rate * (rewind - r0) \in Int /\ rate * g \in Int
  <2> HIDE DEF g
  <2> QED  BY <1>1 DEF g
<1>4. spent + Worth(tau) <= s0 + C + rate * (rewind - r0)
  BY DEF OwedSince
<1>5. spent' + Worth(tau)' <= s0 + C + rate * (rewind' - r0)
  <2> DEFINE a == rate * (rewind - r0)
             b == rate * g
             w == Worth(tau)
             u == Worth(tau)'
  <2>1. /\ a \in Int /\ b \in Int /\ w \in Int /\ u \in Int
        /\ u <= w - granted + b /\ spent + w <= s0 + C + a
        /\ rate * (rewind' - r0) = a + b /\ spent' = spent + granted
    BY <1>1, <1>2, <1>3, <1>4
  <2> HIDE DEF a, b, w, u, C
  <2>2. spent' + u <= s0 + C + (a + b)
    BY <1>1, <2>1
  <2> QED  BY <2>1, <2>2 DEF u
<1> QED  BY <1>5 DEF OwedSince

LEMMA OwedStep ==
  ASSUME BucketParameters, TypeOK, NEW tau \in Int, NEW s0 \in Nat, NEW r0 \in Nat,
         NEW n0 \in Nat, OwedSince(tau, s0, r0, n0), [NextFrom(tau)]_vars
  PROVE  OwedSince(tau, s0, r0, n0)'
<1>1. ASSUME NEW s \in Stamp, NEW c \in 1 .. MaxCost, s >= tau, Take(s, c)
      PROVE  OwedSince(tau, s0, r0, n0)'
  BY <1>1, LookOwes DEF BucketParameters, Take
<1>2. ASSUME NEW s \in Stamp, NEW c \in 1 .. MaxCost, s >= tau, Refuse(s, c)
      PROVE  OwedSince(tau, s0, r0, n0)'
  <2>1. LevelAt(s) \in Nat /\ spent \in Nat
    BY LevelBounds DEF BucketParameters, TypeOK
  <2>2. LevelAt(s) >= 0 /\ level' = LevelAt(s) - 0 /\ spent' = spent + 0
    BY <1>2, <2>1 DEF Refuse
  <2> QED  BY <1>2, <2>2, LookOwes DEF Refuse
<1>3. CASE Renew
  <2>1. /\ rate = 0 /\ Cap \in Nat /\ level \in Nat /\ level <= Cap /\ at \in Int
        /\ renewed \in Nat /\ spent \in Nat /\ rewind \in Nat
        /\ UNCHANGED <<rate, at, spent, rewind>> /\ level' = Cap /\ renewed' = renewed + 1
    BY <1>3 DEF BucketParameters, TypeOK, Renew
  <2>2. /\ Worth(tau) \in Int /\ Worth(tau) >= 0
    <3>1. at >= tau => rate * (at - tau) = 0
      BY <2>1
    <3> QED  BY <2>1, <3>1, WorthBounds
  <2>3. Worth(tau)' = Cap
    <3>1. LevelAt(tau)' = Least(Cap, Cap + Greatest(0, tau - at) * 0)
      BY <2>1 DEF LevelAt
    <3>2. Greatest(0, tau - at) * 0 = 0
      BY <2>1 DEF Greatest
    <3>3. LevelAt(tau)' = Cap
      BY <2>1, <3>1, <3>2 DEF Least
    <3>4. 0 * (at - tau) = 0
      BY <2>1
    <3> QED  BY <2>1, <3>3, <3>4 DEF Worth
  <2>4. Cap * (renewed' - n0 + 1) = Cap * (renewed - n0 + 1) + Cap
        /\ Cap * (renewed - n0 + 1) \in Int
    BY <2>1
  <2>5. rate * (rewind - r0) = 0 /\ rate' * (rewind' - r0) = 0
    BY <2>1
  <2> DEFINE C == Cap * (renewed - n0 + 1)
  <2>6. spent + Worth(tau) <= s0 + C + 0 /\ C \in Int
    BY <2>4, <2>5 DEF OwedSince
  <2>7. spent + Cap <= s0 + (C + Cap) + 0
    <3> HIDE DEF C
    <3> QED  BY <2>1, <2>2, <2>6
  <2> QED  BY <2>1, <2>3, <2>4, <2>5, <2>7 DEF OwedSince
<1>4. CASE UNCHANGED vars
  BY <1>4 DEF vars, OwedSince, Worth, LevelAt
<1> QED  BY <1>1, <1>2, <1>3, <1>4 DEF NextFrom

(* From any state on, if the stamps to come are not from before tau, what  *)
(* is granted is a full bucket for each renewal and one more, the refill   *)
(* from tau on, and what rewound stamps refill again.                      *)
LEMMA OwedAtFirst ==
  ASSUME BucketParameters, TypeOK, NEW tau \in Int
  PROVE  OwedSince(tau, spent, rewind, renewed)
<1>1. Cap \in Nat /\ renewed \in Nat /\ rewind \in Nat /\ spent \in Nat /\ rate \in Nat
  BY DEF BucketParameters, TypeOK
<1>2. Cap * (renewed - renewed + 1) = Cap /\ rate * (rewind - rewind) = 0
  BY <1>1
<1> QED  BY <1>1, <1>2, WorthBounds DEF OwedSince

LEMMA OwedBound ==
  ASSUME BucketParameters, TypeOK, NEW tau \in Int, NEW s0 \in Nat, NEW r0 \in Nat,
         NEW n0 \in Nat, OwedSince(tau, s0, r0, n0), NEW b \in Int, at <= b, tau <= b
  PROVE  spent <= s0 + Cap * (renewed - n0 + 1) + rate * (b - tau + rewind - r0)
<1>1. /\ Cap \in Nat /\ renewed \in Nat /\ rewind \in Nat /\ spent \in Nat /\ rate \in Nat
      /\ at \in Int /\ Worth(tau) \in Int
  BY WorthBounds DEF BucketParameters, TypeOK
<1> DEFINE x == rate * (b - tau)
           a == rate * (rewind - r0)
           C == Cap * (renewed - n0 + 1)
<1>2. x \in Nat /\ a \in Int /\ C \in Int /\ rate * (b - tau + rewind - r0) = x + a
  BY <1>1
<1>3. Worth(tau) >= -x
  <2>1. CASE at >= tau
    <3>1. rate * (at - tau) <= rate * (b - tau)
      <4>1. b - tau = (at - tau) + (b - at) /\ b - at \in Nat /\ at - tau \in Nat
        BY <1>1, <2>1
      <4>2. rate * ((at - tau) + (b - at)) = rate * (at - tau) + rate * (b - at)
            /\ rate * (b - at) \in Nat /\ rate * (at - tau) \in Nat
        BY <1>1, <4>1
      <4> QED  BY <4>1, <4>2
    <3>2. rate * (at - tau) \in Int
      BY <1>1
    <3>3. rate * (at - tau) <= x /\ Worth(tau) >= -(rate * (at - tau))
      BY <2>1, <3>1, WorthBounds
    <3> DEFINE y == rate * (at - tau)
    <3> HIDE DEF x, y
    <3>4. y \in Int /\ y <= x /\ Worth(tau) >= -y
      BY <3>2, <3>3 DEF y
    <3> QED  BY <1>1, <1>2, <3>4
  <2>2. CASE ~(at >= tau)
    <3> HIDE DEF x
    <3> QED  BY <1>1, <1>2, <2>2, WorthBounds
  <2> QED  BY <2>1, <2>2
<1>4. spent + Worth(tau) <= s0 + C + a
  BY DEF OwedSince
<1>5. spent <= s0 + C + (x + a)
  <2> HIDE DEF x, a, C
  <2> QED  BY <1>1, <1>2, <1>3, <1>4
<1> QED  BY <1>2, <1>5
===============================================================================
