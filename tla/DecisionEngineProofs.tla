-------------------------- MODULE DecisionEngineProofs --------------------------
(* Proofs about the names of counters and the limits of plans.              *)
EXTENDS DecisionEngine, SequenceTheorems, TLAPS

(* engine.py:170: the numbers that stand in for absent ones are the plan's  *)
(* own.                                                                     *)
THEOREM FallbackSafe == RowsWithinPlan
<1> SUFFICES ASSUME NEW row \in Plan
             PROVE  IF Stated(row) # {} THEN LimitOf(row) \in Stated(row)
                    ELSE LimitOf(row) = IF row.algorithm = "concurrency" THEN 1 ELSE 0
  BY DEF RowsWithinPlan
<1>1. row.algorithm \in Algorithm /\ None # 0
  BY DecisionEngineAssumption DEF Plan
<1>2. CASE row.algorithm = "concurrency"
  BY <1>1, <1>2 DEF Stated, LimitOf, Or
<1>3. CASE row.algorithm = "token_bucket"
  BY <1>1, <1>3 DEF Stated, LimitOf, Or
<1>4. CASE row.algorithm \in {"fixed_window", "sliding_window"}
  BY <1>1, <1>4 DEF Stated, LimitOf, Or
<1> QED  BY <1>1, <1>2, <1>3, <1>4 DEF Algorithm

-------------------------------------------------------------------------------
Words == {"lf", "rl", "api_key", "tb", "fw", "sw", "cc", "win", "concurrent", "default"}

(* The segments of a key.                                                   *)
Part == Segment \cup Words \cup Int

(* Names that are joined from texts of equal length are joined from equal   *)
(* texts.                                                                   *)

Join(a, b) == a \o b

LEMMA JoinAssociative ==
  ASSUME NEW s \in Seq(Part), NEW t \in Seq(Part), NEW u \in Seq(Part)
  PROVE  Join(Join(s, t), u) = Join(s, Join(t, u))
<1> DEFINE l == (s \o t) \o u
           r == s \o (t \o u)
<1>1. s \o t \in Seq(Part) /\ t \o u \in Seq(Part)
  BY ConcatProperties
<1>2. l \in Seq(Part) /\ r \in Seq(Part) /\ Len(l) = Len(r)
  BY <1>1, ConcatProperties, LenProperties
<1>3. \A i \in 1 .. Len(l) : l[i] = r[i]
  BY <1>1, ConcatProperties, LenProperties
<1> HIDE DEF l, r
<1>4. l = r
  BY <1>2, <1>3, SeqEqual
<1> QED  BY <1>4 DEF Join, l, r

LEMMA SplitLeft ==
  ASSUME NEW a \in Seq(Part), NEW b \in Seq(Part), NEW s \in Seq(Part), NEW t \in Seq(Part),
         Len(a) = Len(b), Join(a, s) = Join(b, t)
  PROVE  a = b /\ s = t
<1>1. Len(a) \in Nat /\ Len(s) \in Nat /\ Len(t) \in Nat
  BY LenProperties
<1>2. /\ Len(a \o s) = Len(a) + Len(s) /\ Len(b \o t) = Len(b) + Len(t)
      /\ \A i \in 1 .. Len(a) + Len(s) :
           (a \o s)[i] = IF i <= Len(a) THEN a[i] ELSE s[i - Len(a)]
      /\ \A i \in 1 .. Len(b) + Len(t) :
           (b \o t)[i] = IF i <= Len(b) THEN b[i] ELSE t[i - Len(b)]
  BY ConcatProperties
<1> DEFINE l == a \o s
           r == b \o t
<1>3. l = r
  BY DEF Join
<1> HIDE DEF l, r
<1>4. /\ Len(l) = Len(a) + Len(s) /\ Len(r) = Len(b) + Len(t)
      /\ \A i \in 1 .. Len(a) + Len(s) : l[i] = IF i <= Len(a) THEN a[i] ELSE s[i - Len(a)]
      /\ \A i \in 1 .. Len(b) + Len(t) : r[i] = IF i <= Len(b) THEN b[i] ELSE t[i - Len(b)]
  BY <1>2 DEF l, r
<1>5. Len(s) = Len(t)
  BY <1>1, <1>3, <1>4
<1>6. \A i \in 1 .. Len(a) : a[i] = b[i]
  BY <1>1, <1>5, <1>3, <1>4
<1>7. ASSUME NEW i \in 1 .. Len(s) PROVE s[i] = t[i]
  <2> DEFINE j == i + Len(a)
  <2>1. j \in 1 .. Len(a) + Len(s) /\ ~(j <= Len(a)) /\ j - Len(a) = i
    BY <1>1
  <2> HIDE DEF j
  <2>2. l[j] = s[i] /\ r[j] = t[i]
    BY <1>5, <1>4, <2>1
  <2> QED  BY <1>3, <2>2
<1> QED  BY <1>5, <1>6, <1>7, SeqEqual

LEMMA SplitRight ==
  ASSUME NEW a \in Seq(Part), NEW b \in Seq(Part), NEW s \in Seq(Part), NEW t \in Seq(Part),
         Len(s) = Len(t), Join(a, s) = Join(b, t)
  PROVE  a = b /\ s = t
<1>1. Len(a \o s) = Len(a) + Len(s) /\ Len(b \o t) = Len(b) + Len(t)
  BY ConcatProperties
<1>2. Len(a \o s) = Len(b \o t)
  BY DEF Join
<1>3. Len(a) = Len(b)
  BY <1>1, <1>2, LenProperties
<1> QED  BY <1>3, SplitLeft

(* Pairs of texts that are one text when they are joined.                   *)
LEMMA CutJoins ==
  ASSUME NEW s \in Seq(Part), NEW r \in Seq(Part), NEW t \in Seq(Part), NEW u \in Seq(Part),
         CutLater(s, r, t, u)
  PROVE  s \o r = t \o u
<1>1. PICK i \in 0 .. Len(t) :
        s = SubSeq(t, 1, i) /\ r = SubSeq(t, i + 1, Len(t)) \o u
  BY DEF CutLater
<1> DEFINE b == SubSeq(t, i + 1, Len(t))
<1>2. i \in Nat /\ Len(t) \in Nat /\ i <= Len(t)
  BY <1>1, LenProperties
<1>3. b \in Seq(Part)
  <2>1. \A j \in i + 1 .. Len(t) : t[j] \in Part
    BY <1>2, ElementOfSeq
  <2> QED  BY <1>2, <2>1, SubSeqProperties
<1>4. s \o b = t
  <2>1. 1 \in 1 .. Len(t) + 1 /\ i \in 1 - 1 .. Len(t) /\ Len(t) \in i .. Len(t)
    BY <1>2
  <2>2. SubSeq(t, 1, i) \o SubSeq(t, i + 1, Len(t)) = SubSeq(t, 1, Len(t))
    BY <2>1, ConcatAdjacentSubSeq
  <2> QED  BY <1>1, <2>2, SubSeqFull
<1> HIDE DEF b
<1>5. Join(Join(s, b), u) = Join(s, Join(b, u))
  BY <1>3, JoinAssociative
<1>6. Join(s, b) = t /\ r = Join(b, u)
  BY <1>1, <1>4 DEF Join, b
<1>7. Join(t, u) = Join(s, r)
  BY <1>5, <1>6
<1> QED  BY <1>7 DEF Join

LEMMA JoinsCut ==
  ASSUME NEW s \in Seq(Part), NEW r \in Seq(Part), NEW t \in Seq(Part), NEW u \in Seq(Part),
         s \o r = t \o u, Len(s) <= Len(t)
  PROVE  CutLater(s, r, t, u)
<1> DEFINE i == Len(s)
           a == SubSeq(t, 1, i)
           b == SubSeq(t, i + 1, Len(t))
<1>1. i \in Nat /\ Len(t) \in Nat /\ i <= Len(t)
  BY LenProperties
<1>2. a \in Seq(Part) /\ Len(a) = i
  <2>1. \A j \in 1 .. i : t[j] \in Part
    BY <1>1, ElementOfSeq
  <2>2. Len(a) = IF 1 <= i THEN i - 1 + 1 ELSE 0
    BY <1>1, <2>1, SubSeqProperties
  <2>3. Len(a) = i
    BY <1>1, <2>2
  <2> QED  BY <1>1, <2>1, <2>3, SubSeqProperties
<1>3. b \in Seq(Part)
  <2>1. \A j \in i + 1 .. Len(t) : t[j] \in Part
    BY <1>1, ElementOfSeq
  <2> QED  BY <1>1, <2>1, SubSeqProperties
<1>4. a \o b = t
  <2>1. 1 \in 1 .. Len(t) + 1 /\ i \in 1 - 1 .. Len(t) /\ Len(t) \in i .. Len(t)
    BY <1>1
  <2>2. a \o b = SubSeq(t, 1, Len(t))
    BY <2>1, ConcatAdjacentSubSeq
  <2> QED  BY <2>2, SubSeqFull
<1> HIDE DEF a, b
<1>5. b \o u \in Seq(Part)
  BY <1>3, ConcatProperties
<1>6. Join(s, r) = Join(a, b \o u)
  <2>1. Join(Join(a, b), u) = Join(a, Join(b, u))
    BY <1>2, <1>3, JoinAssociative
  <2>2. Join(a, b) = t /\ Join(b, u) = b \o u /\ Join(t, u) = Join(s, r)
    BY <1>4 DEF Join
  <2> QED  BY <2>1, <2>2
<1>7. s = a /\ r = b \o u
  <2> DEFINE v == b \o u
  <2>1. v \in Seq(Part) /\ Join(s, r) = Join(a, v) /\ Len(s) = Len(a)
    BY <1>2, <1>5, <1>6
  <2> HIDE DEF v
  <2>2. s = a /\ r = v
    BY <1>2, <2>1, SplitLeft
  <2> QED  BY <2>2 DEF v
<1>8. i \in 0 .. Len(t)
  BY <1>1
<1> QED  BY <1>7, <1>8 DEF CutLater, a, b

LEMMA SameTextExact ==
  ASSUME NEW s \in Seq(Part), NEW r \in Seq(Part), NEW t \in Seq(Part), NEW u \in Seq(Part)
  PROVE  s \o r = t \o u <=> SameText(s, r, t, u)
<1>1. Len(s) <= Len(t) \/ Len(t) <= Len(s)
  BY LenProperties
<1>2. ASSUME s \o r = t \o u PROVE SameText(s, r, t, u)
  <2>1. CASE Len(s) <= Len(t)
    BY <1>2, <2>1, JoinsCut DEF SameText
  <2>2. CASE Len(t) <= Len(s)
    BY <1>2, <2>2, JoinsCut DEF SameText
  <2> QED  BY <1>1, <2>1, <2>2
<1>3. ASSUME SameText(s, r, t, u) PROVE s \o r = t \o u
  <2>1. CASE CutLater(s, r, t, u)
    BY <2>1, CutJoins
  <2>2. CASE CutLater(t, u, s, r)
    <3>1. t \o u = s \o r
      BY <2>2, CutJoins
    <3> QED  BY <3>1
  <2> QED  BY <1>3, <2>1, <2>2 DEF SameText
<1> QED  BY <1>2, <1>3

-------------------------------------------------------------------------------
(* The names of the service.                                                *)

Prefix(algorithm) ==
  CASE algorithm = "fixed_window"   -> "fw"
    [] algorithm = "sliding_window" -> "sw"
    [] algorithm = "concurrency"    -> "cc"
    [] OTHER                        -> "tb"

Start(x) == <<"lf", Prefix(x.algorithm), x.tenant>>

StartOfWindow(x) == WindowStart(x.now, WindowOf(x.window_seconds))

End(x) == IF x.algorithm = "fixed_window" THEN <<StartOfWindow(x)>> ELSE <<>>

LEMMA Texts ==
  /\ \A s \in Text : s \in Seq(Part)
  /\ Tenant \subseteq Part
<1>1. Segment \subseteq Part
  BY DEF Part
<1> QED  BY <1>1, DecisionEngineAssumption, SeqMonotonic DEF Text

LEMMA Columns ==
  \A a \in Column : /\ WindowOf(a) \in Int \ {0}
                    /\ a # 0 => Get(a, 60) \in Int \ {0}
<1>1. Number \subseteq Int /\ None \notin Int
  BY DecisionEngineAssumption
<1> SUFFICES ASSUME NEW a \in Number \cup {None}
             PROVE  /\ WindowOf(a) \in Int \ {0}
                    /\ a # 0 => Get(a, 60) \in Int \ {0}
  BY DEF Column
<1>2. CASE a = None
  BY <1>1, <1>2 DEF WindowOf, Or, Get
<1>3. CASE a # None
  BY <1>1, <1>3 DEF WindowOf, Or, Get
<1> QED  BY <1>2, <1>3

LEMMA WindowStarts ==
  ASSUME NEW now \in Instant, NEW w \in Int \ {0}
  PROVE  WindowStart(now, w) \in Int
<1>1. now \in Int
  BY DecisionEngineAssumption
<1>2. CASE w > 0
  <2>1. now \div w \in Int
    BY <1>1, <1>2
  <2> QED  BY <1>2, <2>1 DEF WindowStart
<1>3. CASE ~(w > 0)
  <2>1. (-now) \in Int /\ (-w) \in Int /\ -w > 0
    BY <1>1, <1>3
  <2>2. (-now) \div (-w) \in Int
    BY <2>1
  <2> QED  BY <1>3, <2>2 DEF WindowStart
<1> QED  BY <1>2, <1>3

LEMMA FirstPart ==
  ASSUME NEW s \in Seq(Part), NEW t \in Seq(Part), NEW i \in 1 .. Len(s)
  PROVE  (s \o t)[i] = s[i] /\ i \in 1 .. Len(s \o t)
<1>1. Len(s) \in Nat /\ Len(t) \in Nat
  BY LenProperties
<1> QED  BY <1>1, ConcatProperties

(* A name of the service is joined from its parts.                          *)
LEMMA ServiceNames ==
  ASSUME NEW x \in ServiceCheck
  PROVE  /\ Start(x) \in Seq(Part) /\ x.subject \in Seq(Part)
         /\ x.resource \in Seq(Part) /\ End(x) \in Seq(Part)
         /\ KeyOf(x) = ((Start(x) \o x.subject) \o x.resource) \o End(x)
<1>1. /\ x.tenant \in Part /\ x.subject \in Seq(Part) /\ x.resource \in Seq(Part)
      /\ x.algorithm \in Algorithm /\ x.now \in Instant /\ x.window_seconds \in Column
  BY Texts DEF ServiceCheck, Text
<1>2. WindowOf(x.window_seconds) \in Int \ {0}
  BY <1>1, Columns
<1>3. StartOfWindow(x) \in Part
  BY <1>1, <1>2, WindowStarts DEF Part, StartOfWindow
<1>4. "lf" \in Part /\ Prefix(x.algorithm) \in Part
  BY DEF Part, Words, Prefix
<1>5. Start(x) \in Seq(Part) /\ End(x) \in Seq(Part)
  BY <1>1, <1>3, <1>4 DEF Start, End
<1> DEFINE body == (Start(x) \o x.subject) \o x.resource
<1>6. body \in Seq(Part)
  BY <1>1, <1>5, ConcatProperties
<1>7. body \o <<>> = body
  BY <1>6, ConcatEmptySeq
<1>8. LfKey(Prefix(x.algorithm), x.tenant, x.subject, x.resource) = body
  BY DEF LfKey, Start
<1> HIDE DEF body
<1>9. KeyOf(x) = body \o End(x)
  <2>1. CASE x.algorithm = "fixed_window"
    BY <2>1, <1>8 DEF KeyOf, build_key, rl_key_fixed_window, Prefix, End, StartOfWindow
  <2>2. CASE x.algorithm = "sliding_window"
    BY <2>2, <1>7, <1>8 DEF KeyOf, build_key, rl_key_sliding, Prefix, End
  <2>3. CASE x.algorithm = "concurrency"
    BY <2>3, <1>7, <1>8 DEF KeyOf, build_key, rl_key_conc, Prefix, End
  <2>4. CASE x.algorithm = "token_bucket"
    BY <2>4, <1>7, <1>8 DEF KeyOf, build_key, rl_key_token_bucket, Prefix, End
  <2> QED  BY <1>1, <2>1, <2>2, <2>3, <2>4 DEF Algorithm
<1> QED  BY <1>1, <1>5, <1>9 DEF body

(* The same, with subject and resource as one text.                         *)
LEMMA ServiceNamesJoined ==
  ASSUME NEW x \in ServiceCheck
  PROVE  /\ x.subject \o x.resource \in Seq(Part)
         /\ Start(x) \o (x.subject \o x.resource) \in Seq(Part)
         /\ KeyOf(x) = (Start(x) \o (x.subject \o x.resource)) \o End(x)
<1>1. /\ Start(x) \in Seq(Part) /\ x.subject \in Seq(Part) /\ x.resource \in Seq(Part)
      /\ KeyOf(x) = ((Start(x) \o x.subject) \o x.resource) \o End(x)
  BY ServiceNames
<1>2. (Start(x) \o x.subject) \o x.resource = Start(x) \o (x.subject \o x.resource)
  <2>1. Join(Join(Start(x), x.subject), x.resource) = Join(Start(x), Join(x.subject, x.resource))
    BY <1>1, JoinAssociative
  <2> QED  BY <2>1 DEF Join
<1>3. x.subject \o x.resource \in Seq(Part)
  BY <1>1, ConcatProperties
<1>4. Start(x) \o (x.subject \o x.resource) \in Seq(Part)
  BY <1>1, <1>3, ConcatProperties
<1> QED  BY <1>1, <1>2, <1>3, <1>4

(* The first segments of a name of the service.                             *)
LEMMA ServiceStart ==
  ASSUME NEW x \in ServiceCheck, NEW i \in 1 .. 3
  PROVE  KeyOf(x)[i] = Start(x)[i]
<1>1. Len(Start(x)) = 3
  BY DEF Start
<1>2. (Start(x) \o x.subject)[i] = Start(x)[i] /\ i \in 1 .. Len(Start(x) \o x.subject)
  BY <1>1, ServiceNames, FirstPart
<1> DEFINE a == Start(x) \o x.subject
<1>3. a \in Seq(Part)
  BY ServiceNames, ConcatProperties
<1> HIDE DEF a
<1>4. (a \o x.resource)[i] = a[i] /\ i \in 1 .. Len(a \o x.resource)
  BY <1>2, <1>3, ServiceNames, FirstPart DEF a
<1> DEFINE d == a \o x.resource
<1>5. d \in Seq(Part)
  BY <1>3, ServiceNames, ConcatProperties
<1> HIDE DEF d
<1>6. (d \o End(x))[i] = d[i]
  BY <1>4, <1>5, ServiceNames, FirstPart DEF d
<1> QED  BY <1>2, <1>4, <1>6, ServiceNames DEF a, d

(* Two checks have one name exactly if their parts are the same, and their  *)
(* texts are when they are joined.                                          *)
LEMMA ServiceCounters ==
  ASSUME NEW x \in ServiceCheck, NEW y \in ServiceCheck
  PROVE  KeyOf(x) = KeyOf(y) <=> Confused(CounterOf(x), CounterOf(y))
<1> DEFINE s == x.subject \o x.resource
           t == y.subject \o y.resource
<1>1. s = t <=> SameText(x.subject, x.resource, y.subject, y.resource)
  <2>1. /\ x.subject \in Seq(Part) /\ x.resource \in Seq(Part)
        /\ y.subject \in Seq(Part) /\ y.resource \in Seq(Part)
    BY ServiceNames
  <2> QED  BY <2>1, SameTextExact
<1>2. /\ s \in Seq(Part) /\ Start(x) \o s \in Seq(Part)
      /\ t \in Seq(Part) /\ Start(y) \o t \in Seq(Part)
      /\ KeyOf(x) = (Start(x) \o s) \o End(x) /\ KeyOf(y) = (Start(y) \o t) \o End(y)
  BY ServiceNamesJoined
<1>3. /\ Start(x) \in Seq(Part) /\ End(x) \in Seq(Part)
      /\ Start(y) \in Seq(Part) /\ End(y) \in Seq(Part)
  BY ServiceNames
<1> HIDE DEF s, t
<1>4. x.algorithm \in Algorithm /\ y.algorithm \in Algorithm
  BY DEF ServiceCheck
<1>5. ASSUME KeyOf(x) = KeyOf(y)
      PROVE  x.algorithm = y.algorithm /\ x.tenant = y.tenant /\ End(x) = End(y) /\ s = t
  <2>1. Prefix(x.algorithm) = Prefix(y.algorithm) /\ x.tenant = y.tenant
    BY <1>5, ServiceStart DEF Start
  <2>2. x.algorithm = y.algorithm
    BY <1>4, <2>1 DEF Prefix, Algorithm
  <2>3. Len(End(x)) = Len(End(y))
    BY <2>2 DEF End
  <2> DEFINE d == Start(x) \o s
             e == Start(y) \o t
  <2>4. d \in Seq(Part) /\ e \in Seq(Part) /\ Join(d, End(x)) = Join(e, End(y))
    BY <1>2, <1>5 DEF Join
  <2> HIDE DEF d, e
  <2>5. d = e /\ End(x) = End(y)
    BY <1>3, <2>3, <2>4, SplitRight
  <2>6. Join(Start(x), s) = Join(Start(y), t)
    BY <2>5 DEF Join, d, e
  <2>7. Len(Start(x)) = Len(Start(y))
    BY DEF Start
  <2>8. s = t
    BY <1>2, <1>3, <2>6, <2>7, SplitLeft
  <2> QED  BY <2>1, <2>2, <2>5, <2>8
<1>6. ASSUME x.algorithm = y.algorithm, x.tenant = y.tenant, End(x) = End(y), s = t
      PROVE  KeyOf(x) = KeyOf(y)
  <2>1. Start(x) = Start(y)
    BY <1>6 DEF Start
  <2> QED  BY <1>2, <1>6, <2>1
<1>7. x.algorithm = y.algorithm =>
        (End(x) = End(y) <=> CounterOf(x).start = CounterOf(y).start)
  <2>1. CASE x.algorithm = "fixed_window"
    BY <2>1 DEF End, CounterOf, StartOfWindow
  <2>2. CASE x.algorithm # "fixed_window"
    BY <2>2 DEF End, CounterOf
  <2> QED  BY <2>1, <2>2
<1>8. Confused(CounterOf(x), CounterOf(y)) <=>
        /\ x.algorithm = y.algorithm /\ x.tenant = y.tenant
        /\ CounterOf(x).start = CounterOf(y).start
        /\ SameText(x.subject, x.resource, y.subject, y.resource)
  BY DEF Confused, CounterOf
<1> QED  BY <1>1, <1>5, <1>6, <1>7, <1>8

-------------------------------------------------------------------------------
(* The names of the older interface begin with a word of their own.         *)
LEMMA LegacyFirst ==
  ASSUME NEW x \in LegacyCheck
  PROVE  LegacyKey(x)[1] = "rl"
<1>1. /\ x.namespace \in Seq(Part) /\ x.subject \in Seq(Part)
      /\ x.name \in Text \cup {None} /\ x.window \in Column /\ x.now \in Instant
      /\ StrategyOf(x.strategy) = "fixed_window" => x.window # 0
  BY Texts DEF LegacyCheck
<1> DEFINE a == <<"rl">>
           b == a \o x.namespace
           c == b \o x.subject
<1>2. {"rl", "tb", "sw", "win", "concurrent", "default"} \subseteq Part
  BY DEF Part, Words
<1>3. a \in Seq(Part) /\ Len(a) = 1 /\ a[1] = "rl"
  BY <1>2
<1>4. b \in Seq(Part) /\ b[1] = "rl" /\ 1 \in 1 .. Len(b)
  <2>1. 1 \in 1 .. Len(a)
    BY <1>3
  <2> HIDE DEF a
  <2> QED  BY <1>1, <1>3, <2>1, FirstPart, ConcatProperties
<1>5. c \in Seq(Part) /\ c[1] = "rl" /\ 1 \in 1 .. Len(c)
  <2> HIDE DEF b
  <2> QED  BY <1>1, <1>4, FirstPart, ConcatProperties
<1>6. ASSUME NEW e \in Seq(Part) PROVE (c \o e)[1] = "rl"
  <2> HIDE DEF c
  <2> QED  BY <1>5, FirstPart
<1>7. Get(x.name, <<"default">>) \in Seq(Part)
  <2>1. <<"default">> \in Seq(Part)
    BY <1>2
  <2> QED  BY <1>1, <2>1, Texts DEF Get
<1>8. CASE StrategyOf(x.strategy) = "fixed_window"
  <2>1. Get(x.window, 60) \in Int \ {0}
    BY <1>1, <1>8, Columns
  <2>2. WindowStart(x.now, Get(x.window, 60)) \in Part
    BY <1>1, <2>1, WindowStarts DEF Part
  <2>3. <<"win", WindowStart(x.now, Get(x.window, 60))>> \in Seq(Part)
    BY <1>2, <2>2
  <2>4. LegacyKey(x) = c \o <<"win", WindowStart(x.now, Get(x.window, 60))>>
    BY <1>8 DEF LegacyKey, fixed_window_check, window_key
  <2> QED  BY <1>6, <2>3, <2>4
<1>9. CASE StrategyOf(x.strategy) = "sliding_window"
  <2>1. <<"sw">> \in Seq(Part)
    BY <1>2
  <2>2. <<"sw">> \o Get(x.name, <<"default">>) \in Seq(Part)
    BY <1>7, <2>1, ConcatProperties
  <2>3. LegacyKey(x) = c \o (<<"sw">> \o Get(x.name, <<"default">>))
    BY <1>9 DEF LegacyKey, sliding_window_check, bucket_key
  <2> QED  BY <1>6, <2>2, <2>3
<1>10. CASE StrategyOf(x.strategy) = "concurrency"
  <2>1. <<"concurrent">> \in Seq(Part)
    BY <1>2
  <2>2. LegacyKey(x) = c \o <<"concurrent">>
    BY <1>10 DEF LegacyKey, concurrency_check, concurrency_key
  <2> QED  BY <1>6, <2>1, <2>2
<1>11. CASE StrategyOf(x.strategy) \notin {"fixed_window", "sliding_window", "concurrency"}
  <2>1. <<"tb">> \in Seq(Part)
    BY <1>2
  <2>2. <<"tb">> \o Get(x.name, <<"default">>) \in Seq(Part)
    BY <1>7, <2>1, ConcatProperties
  <2>3. LegacyKey(x) = c \o (<<"tb">> \o Get(x.name, <<"default">>))
    BY <1>11 DEF LegacyKey, token_bucket_check, bucket_key
  <2> QED  BY <1>6, <2>2, <2>3
<1> QED  BY <1>8, <1>9, <1>10, <1>11

-------------------------------------------------------------------------------
(* keys.py: whatever colons, words or numbers tenants, subjects and         *)
(* resources hold, two checks share a key exactly if they are of one        *)
(* algorithm, tenant and window and their subjects and resources are joined *)
(* to one text; and the service, the older interface and the cache share    *)
(* none.                                                                    *)
THEOREM NamesSafe == SharedOnlyByColons
<1>1. ASSUME NEW u \in ServiceUse, NEW v \in ServiceUse
      PROVE  u.key = v.key <=> Confused(u.counter, v.counter)
  <2>1. PICK x \in ServiceCheck : u = [key |-> KeyOf(x), counter |-> CounterOf(x)]
    BY DEF ServiceUse
  <2>2. PICK y \in ServiceCheck : v = [key |-> KeyOf(y), counter |-> CounterOf(y)]
    BY DEF ServiceUse
  <2> QED  BY <2>1, <2>2, ServiceCounters
<1>2. \A k \in ServiceKeys : k[1] = "lf"
  <2>1. ASSUME NEW x \in ServiceCheck PROVE KeyOf(x)[1] = "lf"
    <3>1. Start(x)[1] = "lf"
      BY DEF Start
    <3> QED  BY <3>1, ServiceStart
  <2> QED  BY <2>1 DEF ServiceKeys, ServiceUse
<1>3. \A k \in LegacyKeys : k[1] = "rl"
  BY LegacyFirst DEF LegacyKeys
<1>4. \A k \in CacheKeys : k[1] = "api_key"
  BY DEF CacheKeys, cache_key
<1>5. "lf" # "rl" /\ "api_key" \notin {"lf", "rl"}
  OBVIOUS
<1> QED  BY <1>1, <1>2, <1>3, <1>4, <1>5 DEF SharedOnlyByColons
=================================================================================
