------------------------- MODULE Calibration_proofs -------------------------
(***************************************************************************)
(* Theorems about Calibration, for every value of its constants.           *)
(***************************************************************************)
EXTENDS Calibration, FiniteSetTheorems, SequenceTheorems, WellFoundedInduction, TLAPS

---------------------------------------------------------------------------
(* Order statistics                                                        *)

LEMMA NatMinimum ==
  ASSUME NEW S \in SUBSET Nat, S # {}
  PROVE  \E x \in S : \A y \in S : x <= y
<1>1. PICK x \in S : \A y \in S : ~ (<<y, x>> \in OpToRel(<, Nat))
  BY NatLessThanWellFounded, WFMin
<1>2. \A y \in S : ~ (y < x)
  BY <1>1 DEF OpToRel
<1> QED
  BY <1>2

LEMMA IntervalCount ==
  ASSUME NEW n \in Nat
  PROVE  IsFiniteSet(1..n) /\ Cardinality(1..n) = n
<1>1. IsFiniteSet(1..n) /\ Cardinality(1..n) = IF 1 > n THEN 0 ELSE n - 1 + 1
  BY FS_Interval
<1> QED
  BY <1>1

Below(s, v) == {i \in DOMAIN s : s[i] < v}
NotAbove(s, v) == {i \in DOMAIN s : s[i] <= v}
Above(s, v) == {i \in DOMAIN s : s[i] > v}

\* They are finite, and their counts go with v.
LEMMA CountsGrow ==
  ASSUME NEW s \in Seq(Nat), NEW u \in Nat, NEW v \in Nat
  PROVE  /\ Cardinality(Below(s, v)) \in Nat
         /\ Cardinality(NotAbove(s, v)) \in Nat
         /\ Cardinality(Above(s, v)) \in Nat
         /\ u < v => Cardinality(NotAbove(s, u)) <= Cardinality(Below(s, v))
         /\ u < v /\ v \in ToSet(s) => Cardinality(Above(s, v)) < Cardinality(Above(s, u))
         /\ NotAbove(s, v) = DOMAIN s => Cardinality(NotAbove(s, v)) = Len(s)
<1>1. DOMAIN s = 1..Len(s) /\ Len(s) \in Nat
  OBVIOUS
<1>2. IsFiniteSet(DOMAIN s) /\ Cardinality(DOMAIN s) = Len(s)
  BY <1>1, IntervalCount, Zenon
<1>3. /\ IsFiniteSet(Below(s, v)) /\ IsFiniteSet(NotAbove(s, v))
      /\ IsFiniteSet(Above(s, v)) /\ IsFiniteSet(Above(s, u))
  BY <1>2, FS_Subset DEF Below, NotAbove, Above
<1>4. u < v => NotAbove(s, u) \in SUBSET Below(s, v)
  BY DEF Below, NotAbove
<1>5. u < v /\ v \in ToSet(s) => Cardinality(Above(s, v)) < Cardinality(Above(s, u))
  <2> SUFFICES ASSUME u < v, NEW i \in DOMAIN s, v = s[i]
               PROVE  Cardinality(Above(s, v)) < Cardinality(Above(s, u))
    BY DEF ToSet
  <2>1. Above(s, v) \in SUBSET Above(s, u)
    BY DEF Above
  <2>2. i \in Above(s, u) /\ i \notin Above(s, v)
    BY DEF Above
  <2>3. /\ Cardinality(Above(s, v)) <= Cardinality(Above(s, u))
        /\ Cardinality(Above(s, v)) # Cardinality(Above(s, u))
    BY <1>3, <2>1, <2>2, FS_Subset
  <2> QED
    BY <1>3, <2>3, FS_CardinalityType
<1> QED
  BY <1>2, <1>3, <1>4, <1>5, FS_Subset, FS_CardinalityType

\* Some value of a sequence that is not empty is the largest.
LEMMA Largest ==
  ASSUME NEW s \in Seq(Nat), s # <<>>
  PROVE  \E v \in Nat : NotAbove(s, v) = DOMAIN s
<1> DEFINE C == {Cardinality(Above(s, v)) : v \in ToSet(s)}
<1>1. DOMAIN s = 1..Len(s) /\ Len(s) \in Nat \ {0}
  OBVIOUS
<1>2. ToSet(s) \subseteq Nat /\ s[1] \in ToSet(s) /\ \A j \in DOMAIN s : s[j] \in ToSet(s)
  BY <1>1 DEF ToSet
<1>3. \A v \in ToSet(s) : Cardinality(Above(s, v)) \in Nat
  BY <1>2, CountsGrow
<1>4. C \in SUBSET Nat /\ C # {}
  BY <1>2, <1>3
<1>5. PICK v \in ToSet(s) :
        \A u \in ToSet(s) : Cardinality(Above(s, v)) <= Cardinality(Above(s, u))
  <2>1. PICK x \in C : \A y \in C : x <= y
    BY <1>4, NatMinimum
  <2> QED
    BY <2>1
<1>6. \A u \in ToSet(s) : ~ (v < u)
  <2> SUFFICES ASSUME NEW u \in ToSet(s), v < u
               PROVE  FALSE
    OBVIOUS
  <2>1. Cardinality(Above(s, u)) < Cardinality(Above(s, v))
    BY <1>2, CountsGrow
  <2> QED
    BY <1>3, <1>5, <2>1
<1>7. NotAbove(s, v) = DOMAIN s
  <2> SUFFICES ASSUME NEW j \in DOMAIN s
               PROVE  s[j] <= v
    BY DEF NotAbove
  <2> QED
    BY <1>2, <1>6
<1> QED
  BY <1>2, <1>7

\* Every rank has its value, and values grow with the rank.
LEMMA SortedIsInOrder ==
  ASSUME NEW s \in Seq(Nat)
  PROVE  /\ Sorted(s) \in Seq(Nat) /\ Len(Sorted(s)) = Len(s)
         /\ \A i, j \in 1..Len(s) : i <= j => Sorted(s)[i] <= Sorted(s)[j]
<1> DEFINE At(k, v) == Cardinality(Below(s, v)) < k /\ k <= Cardinality(NotAbove(s, v))
<1>1. DOMAIN s = 1..Len(s) /\ Len(s) \in Nat
  OBVIOUS
<1>2. ASSUME NEW k \in 1..Len(s)
      PROVE  \E v \in ToSet(s) : At(k, v)
  <2> DEFINE V == {v \in Nat : k <= Cardinality(NotAbove(s, v))}
  <2>1. V # {}
    <3>1. PICK v \in Nat : NotAbove(s, v) = DOMAIN s
      BY <1>1, <1>2, Largest
    <3>2. Cardinality(NotAbove(s, v)) = Len(s)
      BY <3>1, CountsGrow
    <3>3. v \in V
      BY <1>1, <3>2
    <3> QED
      BY <3>3
  <2>2. PICK v \in V : \A u \in V : v <= u
    BY <2>1, NatMinimum
  <2>3. Cardinality(Below(s, v)) < k
    <3>1. CASE v = 0
      <4>1. Below(s, v) = {}
        BY <1>1, <3>1 DEF Below
      <4> QED
        BY <4>1, FS_EmptySet
    <3>2. CASE v # 0
      <4>1. v - 1 \in Nat /\ v - 1 \notin V
        BY <2>2, <3>2
      <4>2. Below(s, v) = NotAbove(s, v - 1)
        BY <1>1, <3>2 DEF Below, NotAbove
      <4>3. Cardinality(NotAbove(s, v - 1)) \in Nat /\ ~ (k <= Cardinality(NotAbove(s, v - 1)))
        BY <4>1, CountsGrow
      <4>4. \A c \in Nat : ~ (k <= c) => c < k
        BY <1>2
      <4> QED
        BY <4>2, <4>3, <4>4, Zenon
    <3> QED
      BY <3>1, <3>2
  <2>4. Below(s, v) # NotAbove(s, v)
    <3>1. k <= Cardinality(NotAbove(s, v)) /\ Cardinality(Below(s, v)) \in Nat
      BY CountsGrow
    <3>2. \A c \in Nat : ~ (c < k /\ k <= c)
      BY <1>2
    <3> QED
      BY <2>3, <3>1, <3>2, Zenon
  <2>5. v \in ToSet(s)
    BY <1>1, <2>4 DEF Below, NotAbove, ToSet
  <2> QED
    BY <2>2, <2>3, <2>5
<1>3. \A k \in 1..Len(s) : Sorted(s)[k] \in ToSet(s) /\ At(k, Sorted(s)[k])
  <2> SUFFICES ASSUME NEW k \in 1..Len(s)
               PROVE  Sorted(s)[k] \in ToSet(s) /\ At(k, Sorted(s)[k])
    OBVIOUS
  <2>1. Sorted(s)[k] = CHOOSE v \in ToSet(s) : At(k, v)
    BY <1>1 DEF Sorted, Below, NotAbove
  <2> HIDE DEF At
  <2> QED
    BY <1>2, <2>1
<1>4. ToSet(s) \subseteq Nat
  BY <1>1 DEF ToSet
<1>5. Sorted(s) \in Seq(Nat) /\ Len(Sorted(s)) = Len(s)
  <2> DEFINE value(k) == CHOOSE v \in ToSet(s) : At(k, v)
  <2>1. Sorted(s) = [k \in 1..Len(s) |-> value(k)]
    BY <1>1 DEF Sorted, Below, NotAbove
  <2> HIDE DEF value
  <2>2. \A k \in 1..Len(s) : value(k) \in Nat
    BY <1>3, <1>4, <2>1
  <2>3. Sorted(s) \in [1..Len(s) -> Nat]
    BY <2>1, <2>2
  <2>4. \A f : \A n \in Nat : f \in [1..n -> Nat] => f \in Seq(Nat) /\ Len(f) = n
    OBVIOUS
  <2> QED
    BY <1>1, <2>3, <2>4, Zenon
<1>6. ASSUME NEW i \in 1..Len(s), NEW j \in 1..Len(s), i <= j, Sorted(s)[i] > Sorted(s)[j]
      PROVE  FALSE
  <2>1. Sorted(s)[i] \in Nat /\ Sorted(s)[j] \in Nat
    BY <1>3, <1>4
  <2>2. Cardinality(Below(s, Sorted(s)[i])) < i /\ j <= Cardinality(NotAbove(s, Sorted(s)[j]))
    BY <1>3
  <2>3. Cardinality(NotAbove(s, Sorted(s)[j])) <= Cardinality(Below(s, Sorted(s)[i]))
    BY <1>6, <2>1, CountsGrow
  <2>4. Cardinality(NotAbove(s, Sorted(s)[j])) \in Nat /\ Cardinality(Below(s, Sorted(s)[i])) \in Nat
    BY <2>1, CountsGrow
  <2> QED
    BY <1>6, <2>2, <2>3, <2>4
<1> QED
  <2>1. \A i \in 1..Len(s) : Sorted(s)[i] \in Nat
    BY <1>3, <1>4
  <2> QED
    BY <1>1, <1>5, <1>6, <2>1

---------------------------------------------------------------------------
(* Interpolation                                                           *)

\* The value x twentieths of a step into t.
Point(t, x) == t[x \div 20 + 1] * (20 - (x % 20)) + t[x \div 20 + 2] * (x % 20)

LEMMA Between ==
  ASSUME NEW a \in Nat, NEW b \in Nat, NEW d \in 0..19, a <= b
  PROVE  /\ a * (20 - d) + b * d \in Nat
         /\ 20 * a <= a * (20 - d) + b * d
         /\ a * (20 - d) + b * d <= 20 * b
         /\ \A e \in 0..19 : d <= e => a * (20 - d) + b * d <= a * (20 - e) + b * e
<1> DEFINE c == b - a
<1>1. c \in Nat /\ b = a + c
  OBVIOUS
<1>2. \A e \in 0..19 : a * (20 - e) + b * e = 20 * a + c * e
  BY <1>1, SMTT(30)
<1>3. \A e \in 0..20 : c * e \in Nat
  BY <1>1, SMTT(30)
<1>4. \A e \in 0..20 : d <= e => c * d <= c * e
  BY <1>1, SMTT(30)
<1>5. c * 20 = 20 * c /\ 20 * b = 20 * a + 20 * c
  BY <1>1
<1> HIDE DEF c
<1> QED
  BY <1>1, <1>2, <1>3, <1>4, <1>5

LEMMA PointsGrow ==
  ASSUME NEW t \in Seq(Nat), Len(t) > 1,
         \A i, j \in 1..Len(t) : i <= j => t[i] <= t[j],
         NEW x \in Nat, NEW y \in Nat, x <= y, y < 20 * (Len(t) - 1)
  PROVE  /\ Point(t, x) \in Nat /\ Point(t, y) \in Nat
         /\ Point(t, x) <= Point(t, y)
<1> DEFINE i == x \div 20
           j == y \div 20
           d == x % 20
           e == y % 20
<1>1. /\ x = 20 * i + d /\ i \in Nat /\ d \in 0..19
      /\ y = 20 * j + e /\ j \in Nat /\ e \in 0..19
  OBVIOUS
<1>0. /\ Point(t, x) = t[i + 1] * (20 - d) + t[i + 2] * d
      /\ Point(t, y) = t[j + 1] * (20 - e) + t[j + 2] * e
  BY Zenon DEF Point
<1> HIDE DEF i, j, d, e
<1>2. i <= j /\ j + 2 <= Len(t)
  BY <1>1
<1>3. /\ i + 1 \in 1..Len(t) /\ i + 2 \in 1..Len(t)
      /\ j + 1 \in 1..Len(t) /\ j + 2 \in 1..Len(t)
  BY <1>1, <1>2
<1>4. t[i + 1] \in Nat /\ t[i + 2] \in Nat /\ t[j + 1] \in Nat /\ t[j + 2] \in Nat
  BY <1>3, ElementOfSeq
<1>5. t[i + 1] <= t[i + 2] /\ t[j + 1] <= t[j + 2]
  BY <1>1, <1>3
<1>7. CASE i = j
  <2>1. d <= e
    BY <1>1, <1>7
  <2> QED
    <3>1. /\ Point(t, x) = t[i + 1] * (20 - d) + t[i + 2] * d
          /\ Point(t, y) = t[i + 1] * (20 - e) + t[i + 2] * e
      BY <1>0, <1>7
    <3>2. /\ t[i + 1] * (20 - d) + t[i + 2] * d \in Nat
          /\ t[i + 1] * (20 - e) + t[i + 2] * e \in Nat
          /\ t[i + 1] * (20 - d) + t[i + 2] * d <= t[i + 1] * (20 - e) + t[i + 2] * e
      BY <1>1, <1>4, <1>5, <2>1, Between
    <3> QED
      BY <3>1, <3>2, Zenon
<1>8. CASE i < j
  <2>1. t[i + 2] <= t[j + 1]
    BY <1>1, <1>3, <1>8
  <2>2. Point(t, x) \in Nat /\ Point(t, x) <= 20 * t[i + 2]
    <3>1. /\ t[i + 1] * (20 - d) + t[i + 2] * d \in Nat
          /\ t[i + 1] * (20 - d) + t[i + 2] * d <= 20 * t[i + 2]
      BY <1>1, <1>4, <1>5, Between
    <3> QED
      BY <1>0, <3>1, Zenon
  <2>3. Point(t, y) \in Nat /\ 20 * t[j + 1] <= Point(t, y)
    <3>1. /\ t[j + 1] * (20 - e) + t[j + 2] * e \in Nat
          /\ 20 * t[j + 1] <= t[j + 1] * (20 - e) + t[j + 2] * e
      BY <1>1, <1>4, <1>5, Between
    <3> QED
      BY <1>0, <3>1, Zenon
  <2>4. \A p, q, a, b \in Nat : p <= 20 * a /\ a <= b /\ 20 * b <= q => p <= q
    OBVIOUS
  <2> QED
    BY <1>4, <2>1, <2>2, <2>3, <2>4, Zenon
<1> QED
  BY <1>1, <1>2, <1>7, <1>8

LEMMA Clamped ==
  ASSUME NEW a \in Nat, NEW b \in Nat
  PROVE  /\ Least(a, 20 * b) \in Nat /\ Least(a, 20 * b) <= a
         /\ Greatest(a, 20 * b) \in Nat /\ Greatest(a, 20 * b) >= a
  BY DEF Least, Greatest

LEMMA NatCases == \A n \in Nat : n = 0 \/ n = 1 \/ (n > 1 /\ n # 0 /\ n # 1)
  OBVIOUS

\* What a metric derives is a pair of thresholds in order.
LEMMA DeriveInOrder ==
  ASSUME NEW k \in Metrics, NEW s \in Seq(Nat), s # <<>>
  PROVE  /\ Derive(k, s) \in Nat \X Nat
         /\ IF k \in LowerIsWorse THEN Derive(k, s)[1] >= Derive(k, s)[2]
            ELSE Derive(k, s)[1] <= Derive(k, s)[2]
<1>1. Len(s) \in Nat /\ Len(s) # 0
  OBVIOUS
<1>2. /\ Quantiles(s, 4, 1) \in Nat \X Nat /\ Quantiles(s, 4, 1)[1] >= Quantiles(s, 4, 1)[2]
      /\ Quantiles(s, 16, 19) \in Nat \X Nat /\ Quantiles(s, 16, 19)[1] <= Quantiles(s, 16, 19)[2]
  <2>1. CASE Len(s) = 1
    <3>1. \A i, j \in Nat : Quantiles(s, i, j) = <<20 * s[1], 20 * s[1]>>
      BY <2>1 DEF Quantiles
    <3>2. s[1] \in Nat
      BY <2>1
    <3>3. 20 * s[1] \in Nat /\ 20 * s[1] <= 20 * s[1]
      BY <3>2
    <3>4. /\ Quantiles(s, 4, 1) = <<20 * s[1], 20 * s[1]>>
          /\ Quantiles(s, 16, 19) = <<20 * s[1], 20 * s[1]>>
      BY <3>1
    <3> QED
      BY <3>3, <3>4
  <2>2. CASE Len(s) > 1
    <3> DEFINE t == Sorted(s)
               m == Len(s) - 1
    <3>1. /\ t \in Seq(Nat) /\ Len(t) = Len(s)
          /\ \A i, j \in 1..Len(t) : i <= j => t[i] <= t[j]
      BY SortedIsInOrder
    <3>a. Len(s) # 0 /\ Len(s) # 1
      <4>1. \A n \in Nat : n > 1 => n # 0 /\ n # 1
        OBVIOUS
      <4> QED
        BY <1>1, <2>2, <4>1, Zenon
    <3>2. \A i, j \in Nat : Quantiles(s, i, j) = <<Ventile(t, i), Ventile(t, j)>>
      BY <3>a, Zenon DEF Quantiles
    <3> HIDE DEF t
    <3>b. \A i \in Nat : Ventile(t, i) = Point(t, i * (Len(t) - 1))
      BY Zenon DEF Ventile, Point
    <3>3. \A i \in Nat : Ventile(t, i) = Point(t, i * m)
      BY <3>1, <3>b
    <3>4. /\ 1 * m \in Nat /\ 4 * m \in Nat /\ 16 * m \in Nat /\ 19 * m \in Nat
          /\ 1 * m <= 4 * m /\ 16 * m <= 19 * m
          /\ 4 * m < 20 * (Len(t) - 1) /\ 19 * m < 20 * (Len(t) - 1)
      BY <1>1, <2>2, <3>1
    <3>5. /\ Point(t, 1 * m) \in Nat /\ Point(t, 4 * m) \in Nat
          /\ Point(t, 1 * m) <= Point(t, 4 * m)
      BY <2>2, <3>1, <3>4, PointsGrow
    <3>6. /\ Point(t, 16 * m) \in Nat /\ Point(t, 19 * m) \in Nat
          /\ Point(t, 16 * m) <= Point(t, 19 * m)
      BY <2>2, <3>1, <3>4, PointsGrow
    <3>7. /\ Quantiles(s, 4, 1) = <<Point(t, 4 * m), Point(t, 1 * m)>>
          /\ Quantiles(s, 16, 19) = <<Point(t, 16 * m), Point(t, 19 * m)>>
      BY <3>2, <3>3
    <3> HIDE DEF m
    <3> QED
      BY <3>5, <3>6, <3>7
  <2>3. Len(s) = 1 \/ Len(s) > 1
    BY <1>1, NatCases, Zenon
  <2> QED
    BY <2>1, <2>2, <2>3, Zenon
<1> DEFINE q == IF k \in LowerIsWorse THEN Quantiles(s, 4, 1) ELSE Quantiles(s, 16, 19)
           c == CapsOf[k]
<1>3. q \in Nat \X Nat /\ IF k \in LowerIsWorse THEN q[1] >= q[2] ELSE q[1] <= q[2]
  BY <1>2
<1>4. Derive(k, s) = IF c = <<>> THEN q
                     ELSE IF k \in LowerIsWorse
                          THEN <<Greatest(q[1], 20 * c[1]), Least(q[2], 20 * c[2])>>
                          ELSE <<Least(q[1], 20 * c[1]), Greatest(q[2], 20 * c[2])>>
  BY DEF Derive
<1>5. c = <<>> \/ (c[1] \in Nat /\ c[2] \in Nat)
  BY CalibrationAssumption
<1> HIDE DEF q, c
<1>6. q = <<q[1], q[2]>> /\ q[1] \in Nat /\ q[2] \in Nat
  BY <1>3
<1>7. CASE c = <<>>
  <2>1. Derive(k, s) = q
    BY <1>4, <1>7, Zenon
  <2> QED
    BY <1>3, <2>1
<1>8. CASE c # <<>> /\ k \in LowerIsWorse
  <2>1. Derive(k, s) = <<Greatest(q[1], 20 * c[1]), Least(q[2], 20 * c[2])>>
    BY <1>4, <1>8, Zenon
  <2>2. /\ Greatest(q[1], 20 * c[1]) \in Nat /\ Greatest(q[1], 20 * c[1]) >= q[1]
        /\ Least(q[2], 20 * c[2]) \in Nat /\ Least(q[2], 20 * c[2]) <= q[2]
    BY <1>5, <1>6, <1>8, Clamped, Zenon
  <2> QED
    BY <1>3, <1>6, <1>8, <2>1, <2>2
<1>9. CASE c # <<>> /\ k \notin LowerIsWorse
  <2>1. Derive(k, s) = <<Least(q[1], 20 * c[1]), Greatest(q[2], 20 * c[2])>>
    BY <1>4, <1>9, Zenon
  <2>2. /\ Least(q[1], 20 * c[1]) \in Nat /\ Least(q[1], 20 * c[1]) <= q[1]
        /\ Greatest(q[2], 20 * c[2]) \in Nat /\ Greatest(q[2], 20 * c[2]) >= q[2]
    BY <1>5, <1>6, <1>9, Clamped, Zenon
  <2> QED
    BY <1>3, <1>6, <1>9, <2>1, <2>2
<1> QED
  BY <1>7, <1>8, <1>9

---------------------------------------------------------------------------
(* The inductive invariant                                                 *)

Thresholds == {<<>>} \cup (Nat \X Nat)

States ==
  [observed : Nat, completed : BOOLEAN,
   dist : [Metrics -> Seq(Nat)], derived : [Metrics -> Thresholds]]

Managers ==
  [pc : {"idle", "save", "write"}, target : Targets,
   st : States, base : States \cup {Absent}]

CalTypeOK ==
  /\ calFile \in States \cup {Absent, Corrupt}
  /\ manager \in [Watchers -> Managers \cup {Down}]
  /\ kept \in States \cup {Absent}

OrderedPairs(d) ==
  \A k \in Metrics : d[k] # <<>> =>
    IF k \in LowerIsWorse THEN d[k][1] >= d[k][2] ELSE d[k][1] <= d[k][2]

\* A file that can be read holds the last state written.
FileIsKept ==
  /\ calFile \in States => calFile = kept
  /\ calFile = Absent => kept = Absent

\* What a process holds continues what it loaded or wrote last.
HeldContinues ==
  \A w \in Watchers : manager[w] # Down => Continues(manager[w].st, manager[w].base)

\* The thresholds on disk and in memory are in order.
AllInOrder ==
  /\ calFile \in States => OrderedPairs(calFile.derived)
  /\ \A w \in Watchers : manager[w] # Down => OrderedPairs(manager[w].st.derived)

IInv == CalTypeOK /\ FileIsKept /\ HeldContinues /\ AllInOrder
---------------------------------------------------------------------------
(* States                                                                  *)

\* None of the three marks is a state.
LEMMA MarksDiffer ==
  /\ Absent \notin States /\ Corrupt \notin States /\ Absent # Corrupt
  /\ Down \notin Managers
  /\ Fresh \in States /\ OrderedPairs(Fresh.derived)
<1>1. Absent.observed \notin Nat /\ Corrupt.observed \notin Nat /\ Absent.observed # Corrupt.observed
  BY DEF Absent, Corrupt
<1>2. \A st \in States : st.observed \in Nat
  BY DEF States
<1>3. Down.pc = "down" /\ \A m \in Managers : m.pc # "down"
  BY DEF Down, Managers
<1>4. Fresh \in States
  BY EmptySeq DEF Fresh, States, Thresholds
<1>5. OrderedPairs(Fresh.derived)
  BY DEF Fresh, OrderedPairs
<1> QED
  BY <1>1, <1>2, <1>3, <1>4, <1>5

LEMMA PrefixPointwise ==
  ASSUME NEW a \in Seq(Nat), NEW b \in Seq(Nat)
  PROVE  IsPrefix(a, b) <=> Len(a) <= Len(b) /\ \A i \in 1..Len(a) : a[i] = b[i]
<1>1. SubSeq(a, 1, Len(a)) = a
  BY SubSeqFull
<1>2. ASSUME Len(a) <= Len(b)
      PROVE  /\ SubSeq(b, 1, Len(a)) \in Seq(Nat) /\ Len(SubSeq(b, 1, Len(a))) = Len(a)
             /\ \A i \in 1..Len(a) : SubSeq(b, 1, Len(a))[i] = b[i]
  BY <1>2
<1>3. ASSUME Len(a) <= Len(b)
      PROVE  a = SubSeq(b, 1, Len(a)) <=> \A i \in 1..Len(a) : a[i] = b[i]
  BY <1>2, <1>3, SeqEqual
<1> QED
  BY <1>1, <1>3 DEF IsPrefix

LEMMA PrefixOfItself ==
  ASSUME NEW a \in Seq(Nat)
  PROVE  IsPrefix(a, a)
  BY PrefixPointwise

LEMMA PrefixAppended ==
  ASSUME NEW a \in Seq(Nat), NEW b \in Seq(Nat), NEW n \in Nat, IsPrefix(a, b)
  PROVE  IsPrefix(a, Append(b, n))
<1>1. Len(a) <= Len(b) /\ \A i \in 1..Len(a) : a[i] = b[i]
  BY PrefixPointwise
<1>2. /\ Append(b, n) \in Seq(Nat) /\ Len(Append(b, n)) = Len(b) + 1
      /\ \A i \in 1..Len(b) : Append(b, n)[i] = b[i]
  BY AppendProperties
<1>3. Len(a) <= Len(b) + 1 /\ \A i \in 1..Len(a) : i \in 1..Len(b)
  BY <1>1
<1>4. \A i \in 1..Len(a) : a[i] = Append(b, n)[i]
  BY <1>1, <1>2, <1>3
<1> QED
  BY <1>2, <1>3, <1>4, PrefixPointwise

LEMMA ContinuesItself ==
  ASSUME NEW st \in States
  PROVE  Continues(st, st)
  BY PrefixOfItself DEF Continues, States

\* One more session: what was counted is still there, and a state that is not
\* complete yet may become so.
LEMMA ObservedContinues ==
  ASSUME NEW st \in States, NEW base \in States \cup {Absent}, Continues(st, base),
         ~ st.completed, OrderedPairs(st.derived), NEW snap \in Snapshots, NEW t \in Targets
  PROVE  LET new == Finalized(Observed(st, snap), t) IN
         new \in States /\ Continues(new, base) /\ OrderedPairs(new.derived)
<1> DEFINE seen == Observed(st, snap)
           dist == [k \in Metrics |-> IF k \in DOMAIN snap THEN Append(st.dist[k], snap[k])
                                      ELSE st.dist[k]]
           derived == [k \in Metrics |-> IF seen.dist[k] = <<>> THEN <<>>
                                         ELSE Derive(k, seen.dist[k])]
           new == Finalized(seen, t)
<1>1. \A k \in Metrics : st.dist[k] \in Seq(Nat)
  BY DEF States
<1>2. dist \in [Metrics -> Seq(Nat)]
  BY <1>1, CalibrationAssumption, AppendProperties
<1>3. /\ seen.observed = st.observed + 1 /\ seen.completed = st.completed
      /\ seen.dist = dist /\ seen.derived = st.derived /\ seen \in States
  <2>1. seen = [st EXCEPT !.observed = @ + 1, !.dist = dist]
    BY DEF Observed
  <2> HIDE DEF dist, seen
  <2>2. /\ seen.observed = st.observed + 1 /\ seen.completed = st.completed
        /\ seen.dist = dist /\ seen.derived = st.derived
    BY <2>1 DEF States
  <2>3. st.observed + 1 \in Nat
    BY DEF States
  <2>4. seen \in States
    BY <1>2, <2>1, <2>3, Zenon DEF States
  <2> QED
    BY <2>2, <2>4
<1>4. derived \in [Metrics -> Thresholds] /\ OrderedPairs(derived)
  <2>1. \A k \in Metrics : seen.dist[k] # <<>> =>
          /\ derived[k] \in Nat \X Nat
          /\ IF k \in LowerIsWorse THEN derived[k][1] >= derived[k][2]
             ELSE derived[k][1] <= derived[k][2]
    BY <1>2, <1>3, DeriveInOrder
  <2>2. \A k \in Metrics : seen.dist[k] = <<>> => derived[k] = <<>>
    OBVIOUS
  <2>3. derived = [k \in Metrics |-> derived[k]]
    OBVIOUS
  <2> HIDE DEF derived
  <2> QED
    BY <2>1, <2>2, <2>3 DEF Thresholds, OrderedPairs
<1>5. \/ new = seen
      \/ new = [seen EXCEPT !.completed = TRUE, !.derived = derived]
  BY DEF Finalized
<1>6. /\ new \in States /\ new.observed = st.observed + 1 /\ new.dist = dist
      /\ OrderedPairs(new.derived)
  <2> HIDE DEF seen, dist, derived, new
  <2>1. CASE new = seen
    BY <1>3, <2>1
  <2>2. CASE new = [seen EXCEPT !.completed = TRUE, !.derived = derived]
    <3>1. /\ new \in States /\ new.observed = seen.observed /\ new.dist = seen.dist
          /\ new.derived = derived
      BY <1>3, <1>4, <2>2 DEF States
    <3> QED
      BY <1>3, <1>4, <3>1
  <2> QED
    BY <1>5, <2>1, <2>2
<1>7. Continues(new, base)
  <2> SUFFICES ASSUME base # Absent
               PROVE  /\ new.observed >= base.observed
                      /\ \A k \in Metrics : IsPrefix(base.dist[k], new.dist[k])
                      /\ ~ base.completed
    BY DEF Continues
  <2>1. base \in States /\ base.observed \in Nat /\ st.observed \in Nat
    BY DEF States
  <2>2. /\ st.observed >= base.observed /\ ~ base.completed
        /\ \A k \in Metrics : IsPrefix(base.dist[k], st.dist[k])
    BY DEF Continues
  <2>3. ASSUME NEW k \in Metrics
        PROVE  IsPrefix(base.dist[k], dist[k])
    <3>1. base.dist[k] \in Seq(Nat)
      BY <2>1 DEF States
    <3>2. CASE k \in DOMAIN snap
      BY <1>1, <2>2, <3>1, <3>2, CalibrationAssumption, PrefixAppended
    <3>3. CASE k \notin DOMAIN snap
      BY <2>2, <3>3
    <3> QED
      BY <3>2, <3>3
  <2> QED
    BY <1>6, <2>1, <2>2, <2>3
<1> QED
  BY <1>6, <1>7

---------------------------------------------------------------------------
(* The steps                                                               *)

LEMMA InitInvariant == CalInit => IInv
<1> SUFFICES ASSUME CalInit PROVE IInv
  OBVIOUS
<1>1. \A w \in Watchers : manager[w] = Down
  BY DEF CalInit
<1> QED
  BY <1>1, MarksDiffer
  DEF CalInit, IInv, CalTypeOK, FileIsKept, HeldContinues, AllInOrder

\* Each step, and what the action property asks of it.
Kept(w) ==
  /\ Saves(w) /\ manager[w].base = kept => Continues(kept', kept)
  /\ manager[w] = Down /\ manager'[w] # Down /\ calFile # Corrupt
       => Continues(manager'[w].st, kept)

LEMMA StartStep ==
  ASSUME IInv, NEW w \in Watchers, CalStart(w)
  PROVE  IInv' /\ \A v \in Watchers : Kept(v)
<1>1. PICK t \in Targets :
        manager' = [manager EXCEPT ![w] =
          [pc |-> "idle", target |-> t, st |-> Loaded(calFile, t), base |-> kept']]
  BY DEF CalStart
<1>2. /\ manager[w] = Down /\ calFile' = calFile
      /\ kept' = IF calFile \in {Absent, Corrupt} THEN Absent ELSE kept
  BY DEF CalStart
<1> DEFINE st == Loaded(calFile, t)
           new == [pc |-> "idle", target |-> t, st |-> st, base |-> kept']
<1>3. st \in States /\ OrderedPairs(st.derived) /\ Continues(st, kept')
  <2>1. CASE calFile \in {Absent, Corrupt}
    BY <1>2, <2>1, MarksDiffer DEF Loaded, Continues
  <2>2. CASE calFile \notin {Absent, Corrupt}
    <3>1. calFile \in States /\ calFile = kept /\ kept' = kept /\ st = calFile
      BY <1>2, <2>2 DEF IInv, CalTypeOK, FileIsKept, Loaded
    <3> QED
      BY <3>1, ContinuesItself DEF IInv, AllInOrder
  <2> QED
    BY <2>1, <2>2
<1>4. kept' \in States \cup {Absent}
  BY <1>2 DEF IInv, CalTypeOK
<1>5. manager[w] = Down /\ manager'[w] = new /\ \A v \in Watchers : v # w => manager'[v] = manager[v]
  BY <1>1, <1>2 DEF IInv, CalTypeOK
<1>6. new \in Managers /\ new.st = st /\ new.base = kept' /\ new.pc = "idle"
  BY <1>3, <1>4 DEF Managers
<1> HIDE DEF st, new
<1>7. CalTypeOK'
  BY <1>1, <1>2, <1>4, <1>6 DEF IInv, CalTypeOK, st, new
<1>8. FileIsKept'
  BY <1>2, MarksDiffer DEF IInv, FileIsKept
<1>9. HeldContinues'
  BY <1>3, <1>5, <1>6 DEF IInv, HeldContinues
<1>10. AllInOrder'
  BY <1>2, <1>3, <1>5, <1>6 DEF IInv, AllInOrder
<1>11. ASSUME NEW v \in Watchers
       PROVE  Kept(v)
  <2>1. CASE v = w
    <3>1. calFile # Corrupt => Continues(st, kept)
      BY <1>2, <1>3 DEF IInv, FileIsKept
    <3> QED
      BY <1>2, <1>5, <1>6, <2>1, <3>1 DEF Kept, Saves
  <2>2. CASE v # w
    <3>1. manager'[v] = manager[v]
      BY <1>5, <2>2
    <3> QED
      BY <3>1 DEF Kept, Saves
  <2> QED
    BY <2>1, <2>2
<1> QED
  BY <1>7, <1>8, <1>9, <1>10, <1>11 DEF IInv

\* A process that takes a step is not down.
LEMMA Busy ==
  ASSUME IInv, NEW w \in Watchers, manager[w].pc \in {"idle", "save", "write"}
  PROVE  manager[w] \in Managers /\ manager[w] # Down
  BY MarksDiffer DEF IInv, CalTypeOK, Down

LEMMA ObserveStep ==
  ASSUME IInv, NEW w \in Watchers, CalObserve(w)
  PROVE  IInv' /\ \A v \in Watchers : Kept(v)
<1>1. /\ manager[w].pc = "idle" /\ ~ manager[w].st.completed
      /\ calFile' = calFile /\ kept' = kept
  BY DEF CalObserve
<1>2. manager[w] \in Managers /\ manager[w] # Down
  BY <1>1, Busy
<1>3. PICK s \in Snapshots :
        manager' = [manager EXCEPT
          ![w].st = Finalized(Observed(@, s), manager[w].target), ![w].pc = "save"]
  BY DEF CalObserve
<1> DEFINE new == Finalized(Observed(manager[w].st, s), manager[w].target)
           m == [manager[w] EXCEPT !.st = new, !.pc = "save"]
<1>4. new \in States /\ Continues(new, manager[w].base) /\ OrderedPairs(new.derived)
  <2>1. /\ manager[w].st \in States /\ manager[w].target \in Targets
        /\ manager[w].base \in States \cup {Absent}
    BY <1>2 DEF Managers
  <2> QED
    BY <1>1, <1>2, <2>1, ObservedContinues DEF IInv, HeldContinues, AllInOrder
<1>5. manager' = [manager EXCEPT ![w] = m]
  BY <1>3 DEF IInv, CalTypeOK
<1> HIDE DEF new
<1>6. m \in Managers /\ m.st = new /\ m.base = manager[w].base /\ m.pc = "save"
  BY <1>2, <1>4 DEF Managers
<1> HIDE DEF m
<1>7. manager'[w] = m /\ \A v \in Watchers : v # w => manager'[v] = manager[v]
  BY <1>5 DEF IInv, CalTypeOK
<1>8. CalTypeOK'
  BY <1>1, <1>5, <1>6 DEF IInv, CalTypeOK
<1>9. FileIsKept' /\ HeldContinues' /\ AllInOrder'
  BY <1>1, <1>4, <1>6, <1>7 DEF IInv, FileIsKept, HeldContinues, AllInOrder
<1>10. ASSUME NEW v \in Watchers
       PROVE  Kept(v)
  BY <1>1, <1>2, <1>6, <1>7 DEF Kept, Saves
<1> QED
  BY <1>8, <1>9, <1>10 DEF IInv

LEMMA TruncateStep ==
  ASSUME IInv, NEW w \in Watchers, CalTruncate(w)
  PROVE  IInv' /\ \A v \in Watchers : Kept(v)
<1> DEFINE m == [manager[w] EXCEPT !.pc = "write"]
<1>1. /\ manager[w].pc = "save" /\ calFile' = Corrupt /\ kept' = kept
      /\ manager' = [manager EXCEPT ![w] = m]
  BY DEF CalTruncate
<1>2. manager[w] \in Managers /\ manager[w] # Down
  BY <1>1, Busy
<1>3. m \in Managers /\ m.st = manager[w].st /\ m.base = manager[w].base /\ m.pc = "write"
  BY <1>2 DEF Managers
<1> HIDE DEF m
<1>4. manager'[w] = m /\ \A v \in Watchers : v # w => manager'[v] = manager[v]
  BY <1>1 DEF IInv, CalTypeOK
<1>5. CalTypeOK'
  BY <1>1, <1>3 DEF IInv, CalTypeOK
<1>6. FileIsKept' /\ HeldContinues' /\ AllInOrder'
  BY <1>1, <1>2, <1>3, <1>4, MarksDiffer DEF IInv, FileIsKept, HeldContinues, AllInOrder
<1>7. ASSUME NEW v \in Watchers
      PROVE  Kept(v)
  BY <1>1, <1>2, <1>3, <1>4 DEF Kept, Saves
<1> QED
  BY <1>5, <1>6, <1>7 DEF IInv

LEMMA WriteStep ==
  ASSUME IInv, NEW w \in Watchers, CalWrite(w)
  PROVE  IInv' /\ \A v \in Watchers : Kept(v)
<1> DEFINE m == [manager[w] EXCEPT !.pc = "idle", !.base = kept']
<1>1. /\ manager[w].pc = "write" /\ calFile' \in {manager[w].st, Corrupt}
      /\ kept' = manager[w].st
  BY DEF CalWrite
<1>2. manager[w] \in Managers /\ manager[w] # Down
  BY <1>1, Busy
<1>3. manager[w].st \in States
  BY <1>2 DEF Managers
<1>4. manager' = [manager EXCEPT ![w] = m]
  BY DEF CalWrite, IInv, CalTypeOK
<1>5. m \in Managers /\ m.st = manager[w].st /\ m.base = manager[w].st /\ m.pc = "idle"
  BY <1>1, <1>2, <1>3 DEF Managers
<1> HIDE DEF m
<1>6. manager'[w] = m /\ \A v \in Watchers : v # w => manager'[v] = manager[v]
  BY <1>4 DEF IInv, CalTypeOK
<1>7. CalTypeOK'
  BY <1>1, <1>3, <1>4, <1>5 DEF IInv, CalTypeOK
<1>8. FileIsKept'
  BY <1>1, <1>3, MarksDiffer DEF FileIsKept
<1>9. HeldContinues'
  BY <1>3, <1>5, <1>6, ContinuesItself DEF IInv, HeldContinues
<1>10. AllInOrder'
  BY <1>1, <1>2, <1>3, <1>5, <1>6, MarksDiffer DEF IInv, AllInOrder
<1>11. ASSUME NEW v \in Watchers
       PROVE  Kept(v)
  <2>1. CASE v = w
    BY <1>1, <1>2, <2>1 DEF IInv, HeldContinues, Kept
  <2>2. CASE v # w
    BY <1>6, <2>2 DEF Kept, Saves
  <2> QED
    BY <2>1, <2>2
<1> QED
  BY <1>7, <1>8, <1>9, <1>10, <1>11 DEF IInv

LEMMA EndStep ==
  ASSUME IInv, NEW w \in Watchers, CalEnd(w)
  PROVE  IInv' /\ \A v \in Watchers : Kept(v)
<1>1. manager' = [manager EXCEPT ![w] = Down] /\ calFile' = calFile /\ kept' = kept
  BY DEF CalEnd
<1>2. manager'[w] = Down /\ \A v \in Watchers : v # w => manager'[v] = manager[v]
  BY <1>1 DEF IInv, CalTypeOK
<1>3. CalTypeOK'
  BY <1>1 DEF IInv, CalTypeOK
<1>4. FileIsKept' /\ HeldContinues' /\ AllInOrder'
  BY <1>1, <1>2 DEF IInv, FileIsKept, HeldContinues, AllInOrder
<1>5. \A v \in Watchers : Kept(v)
  BY <1>2 DEF Kept, Saves
<1> QED
  BY <1>3, <1>4, <1>5 DEF IInv

LEMMA Stutter == IInv /\ UNCHANGED calVars => IInv'
  BY DEF calVars, IInv, CalTypeOK, FileIsKept, HeldContinues, AllInOrder

LEMMA NextStep ==
  ASSUME IInv, CalNext
  PROVE  IInv' /\ \A v \in Watchers : Kept(v)
  BY StartStep, ObserveStep, TruncateStep, WriteStep, EndStep DEF CalNext

LEMMA Inductive == CalSpec => []IInv
<1>1. IInv /\ [CalNext]_calVars => IInv'
  BY NextStep, Stutter
<1> QED
  BY InitInvariant, <1>1, PTL DEF CalSpec

---------------------------------------------------------------------------
\* Whatever sessions were observed, under whatever caps, the thresholds a
\* process holds are in order (bootstrap.py:_derive_thresholds).
THEOREM ThresholdsAgree == CalSpec => []ThresholdsInOrder
<1>1. IInv => ThresholdsInOrder
  BY DEF IInv, AllInOrder, OrderedPairs, ThresholdsInOrder
<1> QED
  BY Inductive, <1>1, PTL

\* However many processes share the file, and wherever they are killed, a
\* process that finds the last state written starts from it, and a state saved
\* by a process that loaded or wrote the last one continues it: no session is
\* forgotten and no calibration undone (bootstrap.py:load, finalize_if_ready).
THEOREM NothingForgotten == CalSpec => CalibrationContinues
<1>1. IInv /\ [CalNext]_calVars => [\A w \in Watchers : Kept(w)]_calVars
  BY NextStep
<1> QED
  BY Inductive, <1>1, PTL DEF CalSpec, CalibrationContinues, Kept
=============================================================================
