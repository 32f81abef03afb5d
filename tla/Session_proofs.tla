--------------------------- MODULE Session_proofs ---------------------------
(***************************************************************************)
(* Theorems about Session, for every set of lines, window, threshold and   *)
(* bound.                                                                  *)
(***************************************************************************)
EXTENDS Session, FiniteSetTheorems, SequenceTheorems, NaturalsInduction, TLAPS

---------------------------------------------------------------------------
(* Induction, and greatest elements                                        *)

\* Induction over the numbers, for a set of them.
LEMMA Induction ==
  ASSUME NEW K, 0 \in K, \A n \in Nat : n \in K => n + 1 \in K
  PROVE  \A n \in Nat : n \in K
<1> SUFFICES ASSUME Nat \ K # {} PROVE FALSE
  OBVIOUS
<1>1. PICK x \in Nat \ K : \A y \in Nat \ K : ~ (<<y, x>> \in OpToRel(<, Nat))
  BY NatLessThanWellFounded, WFMin
<1>2. \A y \in Nat \ K : ~ (y < x)
  BY <1>1 DEF OpToRel
<1>3. x # 0 /\ x \in Nat
  BY <1>1
<1>4. x - 1 \in Nat /\ x - 1 < x /\ (x - 1) + 1 = x
  BY <1>3
<1>5. x - 1 \in K
  BY <1>2, <1>4
<1> QED
  BY <1>1, <1>4, <1>5

LEMMA MaxIs ==
  ASSUME NEW n \in Nat, NEW S \in SUBSET (1 .. n), S # {}
  PROVE  Max(S) \in S /\ \A y \in S : y <= Max(S)
<1> DEFINE above == {k \in 0 .. n : \A y \in S : y <= n - k}
           K == {k \in Nat : k > n \/ k \in above \/ \E x \in S : \A y \in S : y <= x}
<1>1. \E x \in S : \A y \in S : y <= x
  <2>1. 0 \in K
    OBVIOUS
  <2>2. ASSUME NEW k \in Nat, k \in K
        PROVE  k + 1 \in K
    <3>1. CASE k < n /\ k \in above
      <4>1. CASE n - k \in S
        BY <3>1, <4>1
      <4>2. CASE n - k \notin S
        <5>1. \A y \in S : y # n - k /\ y <= n - k /\ y \in Nat
          BY <3>1, <4>2
        <5>2. \A y \in S : y <= n - (k + 1)
          BY <5>1, <3>1
        <5> QED
          BY <5>2, <3>1
      <4> QED
        BY <4>1, <4>2
    <3>2. CASE ~ (k < n /\ k \in above)
      BY <2>2, <3>2
    <3> QED
      BY <3>1, <3>2
  <2>3. n \in K
    <3> HIDE DEF K
    <3> QED
      BY <2>1, <2>2, Induction
  <2>4. n \notin above
    <3>1. PICK y \in S : TRUE
      OBVIOUS
    <3>2. y \in 1 .. n /\ n - n = 0
      OBVIOUS
    <3> QED
      BY <3>1, <3>2
  <2>5. ~ (n > n)
    OBVIOUS
  <2> HIDE DEF above
  <2> QED
    BY <2>3, <2>4, <2>5
<1>2. \E x \in S : \A y \in S : x >= y
  BY <1>1
<1> QED
  BY <1>2 DEF Max

LEMMA MaxOfInterval ==
  ASSUME NEW n \in Nat, NEW i \in 1 .. n
  PROVE  Max(1 .. i) = i /\ (1 .. i) \ {i} = 1 .. (i - 1) /\ 1 .. i # {}
<1>1. 1 .. i \in SUBSET (1 .. n) /\ 1 .. i # {} /\ i \in 1 .. i
  OBVIOUS
<1>2. Max(1 .. i) \in 1 .. i /\ i <= Max(1 .. i)
  BY <1>1, MaxIs
<1> QED
  BY <1>1, <1>2

---------------------------------------------------------------------------
(* Folds.  A fold over a sequence is a recursive function of the sets of   *)
(* its indices; that there is one is shown by induction over their size.   *)

IsStep(step, S, E) == step \in [S \X E -> S]

Folds(g, S, E, step, base, s) ==
  \A t \in SUBSET DOMAIN s :
    g[t] = IF t = {} THEN base ELSE step[<<g[t \ {Max(t)}], s[Max(t)]>>]

LEMMA FoldExists ==
  ASSUME NEW S, NEW E, NEW step, IsStep(step, S, E), NEW base \in S, NEW s \in Seq(E)
  PROVE  \E g \in [SUBSET DOMAIN s -> S] : Folds(g, S, E, step, base, s)
<1> DEFINE n == Len(s)
           upTo(k) == {t \in SUBSET (1 .. n) : Cardinality(t) <= k}
           fits(g, k) == \A t \in upTo(k) :
             g[t] = IF t = {} THEN base ELSE step[<<g[t \ {Max(t)}], s[Max(t)]>>]
           K == {k \in Nat : \E g \in [upTo(k) -> S] : fits(g, k)}
<1>1. /\ n \in Nat /\ DOMAIN s = 1 .. n /\ \A i \in 1 .. n : s[i] \in E
      /\ step \in [S \X E -> S]
  BY LenProperties DEF IsStep
<1> HIDE DEF n
<1>2. \A t \in SUBSET (1 .. n) : IsFiniteSet(t) /\ Cardinality(t) \in Nat /\ Cardinality(t) <= n
  <2>1. IsFiniteSet(1 .. n) /\ Cardinality(1 .. n) = IF 1 > n THEN 0 ELSE n - 1 + 1
    BY <1>1, FS_Interval
  <2>2. Cardinality(1 .. n) = n
    BY <1>1, <2>1
  <2> QED
    BY <2>1, <2>2, FS_Subset, FS_CardinalityType
<1>3. \A t \in SUBSET (1 .. n) : t # {} =>
        /\ Max(t) \in t /\ t \ {Max(t)} \in SUBSET (1 .. n)
        /\ Cardinality(t \ {Max(t)}) = Cardinality(t) - 1
  BY <1>1, <1>2, MaxIs, FS_RemoveElement
<1>4. \A t \in SUBSET (1 .. n) : Cardinality(t) = 0 <=> t = {}
  BY <1>2, FS_EmptySet
<1>5. 0 \in K
  <2>1. \A t \in upTo(0) : t = {}
    BY <1>2, <1>4
  <2>2. [t \in upTo(0) |-> base] \in [upTo(0) -> S] /\ fits([t \in upTo(0) |-> base], 0)
    BY <2>1
  <2> QED
    BY <2>2
<1>6. ASSUME NEW k \in Nat, k \in K
      PROVE  k + 1 \in K
  <2>1. PICK g \in [upTo(k) -> S] : fits(g, k)
    BY <1>6
  <2> DEFINE next(t) == IF t = {} THEN base ELSE step[<<g[t \ {Max(t)}], s[Max(t)]>>]
             h == [t \in upTo(k + 1) |-> next(t)]
  <2>2. ASSUME NEW t \in upTo(k + 1), t # {}
        PROVE  t \ {Max(t)} \in upTo(k)
    <3>1. t \in SUBSET (1 .. n) /\ Cardinality(t) <= k + 1
      OBVIOUS
    <3>2. Cardinality(t \ {Max(t)}) = Cardinality(t) - 1 /\ Cardinality(t) \in Nat
      BY <1>2, <1>3, <2>2, <3>1
    <3>3. Cardinality(t) - 1 <= k
      BY <3>1, <3>2
    <3> QED
      BY <1>3, <2>2, <3>1, <3>2, <3>3
  <2>3. \A t \in upTo(k + 1) : next(t) \in S
    <3> SUFFICES ASSUME NEW t \in upTo(k + 1), t # {}
                 PROVE  next(t) \in S
      OBVIOUS
    <3>1. g[t \ {Max(t)}] \in S
      BY <2>2
    <3>2. s[Max(t)] \in E
      BY <1>1, <1>3
    <3> QED
      BY <1>1, <3>1, <3>2
  <2>4. \A t \in upTo(k) : t \in upTo(k + 1) /\ h[t] = g[t]
    <3> SUFFICES ASSUME NEW t \in upTo(k)
                 PROVE  t \in upTo(k + 1) /\ h[t] = g[t]
      OBVIOUS
    <3>1. t \in upTo(k + 1)
      BY <1>2
    <3> QED
      BY <2>1, <3>1
  <2>5. \A t \in upTo(k + 1) : h[t] = IF t = {} THEN base ELSE step[<<h[t \ {Max(t)}], s[Max(t)]>>]
    <3> HIDE DEF h
    <3>1. \A t \in upTo(k + 1) : h[t] = next(t)
      BY DEF h
    <3> QED
      BY <2>2, <2>4, <3>1
  <2>6. h \in [upTo(k + 1) -> S]
    <3> HIDE DEF next
    <3> QED
      BY <2>3
  <2>7. fits(h, k + 1)
    <3> HIDE DEF h
    <3> QED
      BY <2>5
  <2> HIDE DEF h, fits, upTo
  <2>8. \E g1 \in [upTo(k + 1) -> S] : fits(g1, k + 1)
    BY <2>6, <2>7
  <2> QED
    BY <2>8
<1>7. n \in K
  <2> HIDE DEF K
  <2> QED
    BY <1>1, <1>5, <1>6, Induction
<1>8. upTo(n) = SUBSET (1 .. n)
  BY <1>2
<1> QED
  BY <1>1, <1>7, <1>8 DEF Folds

Recurses(g, S, step, base, s) ==
  /\ g[{}] = base
  /\ \A t \in SUBSET DOMAIN s : t # {} /\ g[t \ {Max(t)}] \in S =>
       g[t] = step[<<g[t \ {Max(t)}], s[Max(t)]>>]

Stepwise(f, S, step, base, s) ==
  /\ f \in [0 .. Len(s) -> S] /\ f[0] = base
  /\ \A i \in 1 .. Len(s) : f[i] = step[<<f[i - 1], s[i]>>]

\* The values of a fold after each item.
LEMMA FoldSteps ==
  ASSUME NEW S, NEW E, NEW step, IsStep(step, S, E), NEW base \in S, NEW s \in Seq(E), NEW g,
         Recurses(g, S, step, base, s)
  PROVE  \E f : Stepwise(f, S, step, base, s) /\ f[Len(s)] = g[DOMAIN s]
<1> DEFINE n == Len(s)
           K == {k \in Nat : k <= n => g[1 .. k] \in S}
<1>1. /\ n \in Nat /\ DOMAIN s = 1 .. n /\ \A i \in 1 .. n : s[i] \in E
      /\ step \in [S \X E -> S]
  BY LenProperties DEF IsStep
<1> HIDE DEF n
<1>2. 1 .. 0 = {} /\ g[{}] = base
  BY DEF Recurses
<1>3. \A i \in 1 .. n : g[1 .. (i - 1)] \in S => g[1 .. i] = step[<<g[1 .. (i - 1)], s[i]>>]
  <2> SUFFICES ASSUME NEW i \in 1 .. n, g[1 .. (i - 1)] \in S
               PROVE  g[1 .. i] = step[<<g[1 .. (i - 1)], s[i]>>]
    OBVIOUS
  <2>1. Max(1 .. i) = i /\ (1 .. i) \ {i} = 1 .. (i - 1) /\ 1 .. i # {}
    BY <1>1, MaxOfInterval
  <2>2. 1 .. i \in SUBSET DOMAIN s
    BY <1>1
  <2> QED
    BY <2>1, <2>2 DEF Recurses
<1>4. 0 \in K
  BY <1>2
<1>5. ASSUME NEW k \in Nat, k \in K
      PROVE  k + 1 \in K
  <2>1. CASE k + 1 <= n
    <3>1. k + 1 \in 1 .. n /\ (k + 1) - 1 = k /\ k <= n
      BY <1>1, <2>1
    <3>2. g[1 .. k] \in S
      BY <1>5, <3>1
    <3>3. g[1 .. (k + 1)] = step[<<g[1 .. k], s[k + 1]>>]
      BY <1>3, <3>1, <3>2
    <3>4. s[k + 1] \in E
      BY <1>1, <3>1
    <3> QED
      BY <1>1, <3>2, <3>3, <3>4
  <2> QED
    BY <2>1
<1>6. \A k \in Nat : k \in K
  <2> HIDE DEF K
  <2> QED
    BY <1>4, <1>5, Induction
<1>7. \A i \in 0 .. n : g[1 .. i] \in S
  BY <1>1, <1>6
<1>8. \A i \in 1 .. n : i - 1 \in 0 .. n /\ i \in 0 .. n
  BY <1>1
<1> DEFINE f == [i \in 0 .. n |-> g[1 .. i]]
<1>9. Stepwise(f, S, step, base, s)
  BY <1>1, <1>2, <1>3, <1>7, <1>8 DEF Stepwise, n
<1>10. f[n] = g[DOMAIN s]
  BY <1>1
<1> QED
  BY <1>9, <1>10 DEF n

\* What a fold keeps, at every item, of the items it has gone over.
Keeps(R, S, E, step) ==
  \A a \in S, v \in Seq(E), x \in E :
    <<a, v>> \in R => <<step[<<a, x>>], Append(v, x)>> \in R

LEMMA FoldKeeps ==
  ASSUME NEW S, NEW E, NEW step, IsStep(step, S, E), NEW base \in S, NEW s \in Seq(E), NEW g,
         Recurses(g, S, step, base, s), NEW u \in Seq(E),
         NEW R, Keeps(R, S, E, step), <<base, u>> \in R
  PROVE  g[DOMAIN s] \in S /\ <<g[DOMAIN s], u \o s>> \in R
<1> DEFINE n == Len(s)
           part(i) == u \o SubSeq(s, 1, i)
<1>1. n \in Nat /\ DOMAIN s = 1 .. n /\ \A i \in 1 .. n : s[i] \in E
  BY LenProperties
<1>2. PICK f : Stepwise(f, S, step, base, s) /\ f[n] = g[DOMAIN s]
  BY FoldSteps
<1> DEFINE J == {k \in Nat : k <= n => <<f[k], part(k)>> \in R}
<1>3. \A i \in 0 .. n : part(i) \in Seq(E)
  <2>1. \A i \in 0 .. n : SubSeq(s, 1, i) \in Seq(E)
    BY <1>1
  <2> HIDE DEF n
  <2> QED
    BY <2>1
<1>4. part(0) = u
  <2>1. SubSeq(s, 1, 0) = <<>>
    OBVIOUS
  <2> QED
    BY <2>1
<1>5. \A i \in 1 .. n : part(i) = Append(part(i - 1), s[i])
  <2> SUFFICES ASSUME NEW i \in 1 .. n PROVE part(i) = Append(part(i - 1), s[i])
    OBVIOUS
  <2>0. i - 1 \in 0 .. n /\ i \in 0 .. n /\ i - 1 \in Nat /\ i \in Nat
    BY <1>1
  <2>1. /\ SubSeq(s, 1, i) \in Seq(E) /\ Len(SubSeq(s, 1, i)) = i
        /\ \A k \in 1 .. i : SubSeq(s, 1, i)[k] = s[k]
    BY <1>1
  <2>2. /\ SubSeq(s, 1, i - 1) \in Seq(E) /\ Len(SubSeq(s, 1, i - 1)) = i - 1
        /\ \A k \in 1 .. (i - 1) : SubSeq(s, 1, i - 1)[k] = s[k]
    BY <1>1
  <2>3. SubSeq(s, 1, i) = Append(SubSeq(s, 1, i - 1), s[i])
    <3>1. PICK a \in Seq(E) : a = SubSeq(s, 1, i)
      BY <2>1
    <3>2. PICK b \in Seq(E) : b = SubSeq(s, 1, i - 1)
      BY <2>2
    <3>3. s[i] \in E
      BY <1>1
    <3>4. Len(a) = Len(b) + 1 /\ \A k \in 1 .. Len(b) : a[k] = b[k]
      BY <2>0, <2>1, <2>2, <3>1, <3>2
    <3>5. a[Len(b) + 1] = s[i]
      BY <2>0, <2>1, <2>2, <3>1, <3>2
    <3>6. a = Append(b, s[i])
      BY <3>3, <3>4, <3>5
    <3> QED
      BY <3>1, <3>2, <3>6
  <2>4. s[i] \in E
    BY <1>1
  <2>5. PICK b \in Seq(E), x \in E : b = SubSeq(s, 1, i - 1) /\ x = s[i]
    BY <2>2, <2>4
  <2>6. u \o Append(b, x) = Append(u \o b, x)
    OBVIOUS
  <2>7. part(i) = u \o Append(b, x) /\ part(i - 1) = u \o b
    BY <2>3, <2>5
  <2> HIDE DEF part
  <2> QED
    BY <2>5, <2>6, <2>7
<1> HIDE DEF part, n
<1>6. 0 \in J
  BY <1>2, <1>4 DEF Stepwise
<1>7. ASSUME NEW k \in Nat, k \in J
      PROVE  k + 1 \in J
  <2>1. CASE k + 1 <= n
    <3>1. k + 1 \in 1 .. n /\ (k + 1) - 1 = k /\ k <= n /\ k \in 0 .. n
      BY <1>1, <2>1
    <3>2. <<f[k], part(k)>> \in R
      BY <1>7, <3>1
    <3>3. f[k + 1] = step[<<f[k], s[k + 1]>>] /\ f[k] \in S
      BY <1>2, <3>1 DEF Stepwise, n
    <3>4. part(k + 1) = Append(part(k), s[k + 1]) /\ s[k + 1] \in E /\ part(k) \in Seq(E)
      BY <1>1, <1>3, <1>5, <3>1
    <3>5. <<step[<<f[k], s[k + 1]>>], Append(part(k), s[k + 1])>> \in R
      BY <3>2, <3>3, <3>4 DEF Keeps
    <3>6. <<f[k + 1], part(k + 1)>> \in R
      BY <3>3, <3>4, <3>5
    <3> QED
      BY <3>6
  <2> QED
    BY <2>1
<1>8. n \in J
  <2> HIDE DEF J
  <2> QED
    BY <1>1, <1>6, <1>7, Induction
<1>9. SubSeq(s, 1, n) = s
  BY <1>1 DEF n
<1>10. n \in 0 .. n /\ f[n] \in S
  BY <1>1, <1>2 DEF Stepwise, n
<1>11. <<f[n], part(n)>> \in R
  BY <1>1, <1>8
<1>12. part(n) = u \o s
  BY <1>9 DEF part
<1> HIDE DEF J
<1> QED
  BY <1>2, <1>10, <1>11, <1>12

---------------------------------------------------------------------------
(* Filters                                                                 *)

Filters(f, T, s, A) ==
  /\ f \in [0 .. Len(s) -> Seq(T \cap A)]
  /\ f[0] = <<>> /\ f[Len(s)] = Only(s, A)
  /\ \A i \in 1 .. Len(s) : f[i] = IF s[i] \in A THEN Append(f[i - 1], s[i]) ELSE f[i - 1]

LEMMA OnlyFolds ==
  ASSUME NEW T, NEW s \in Seq(T), NEW A
  PROVE  \E f : Filters(f, T, s, A)
<1> DEFINE S == Seq(T \cap A)
           take(kept, x) == IF x \in A THEN Append(kept, x) ELSE kept
           step == [a \in S \X T |-> take(a[1], a[2])]
           isKept(g) == g = [i \in 0 .. Len(s) |->
                               IF i = 0 THEN <<>>
                               ELSE IF s[i] \in A THEN Append(g[i - 1], s[i]) ELSE g[i - 1]]
           kept == CHOOSE g : isKept(g)
<1>1. Only(s, A) = kept[Len(s)]
  BY DEF Only
<1>2. IsStep(step, S, T) /\ <<>> \in S
  BY DEF IsStep
<1>3. \A a \in S, x \in T : step[<<a, x>>] = take(a, x)
  OBVIOUS
<1>4. Len(s) \in Nat /\ \A i \in 1 .. Len(s) : s[i] \in T
  BY LenProperties
<1> HIDE DEF S, step, take
<1>5. PICK f : Stepwise(f, S, step, <<>>, s)
  <2>1. PICK base \in S : base = <<>>
    BY <1>2
  <2>2. PICK h \in [SUBSET DOMAIN s -> S] : Folds(h, S, T, step, base, s)
    BY <1>2, FoldExists
  <2>3. Recurses(h, S, step, base, s)
    BY <2>2 DEF Folds, Recurses
  <2> QED
    BY <1>2, <2>1, <2>3, FoldSteps
<1>6. \A i \in 1 .. Len(s) : f[i] = take(f[i - 1], s[i])
  <2> SUFFICES ASSUME NEW i \in 1 .. Len(s) PROVE f[i] = take(f[i - 1], s[i])
    OBVIOUS
  <2>1. i - 1 \in 0 .. Len(s)
    BY <1>4
  <2> QED
    BY <1>3, <1>4, <1>5, <2>1 DEF Stepwise
<1>7. isKept(f)
  <2>1. \A i \in 0 .. Len(s) : i = 0 \/ i \in 1 .. Len(s)
    BY <1>4
  <2>2. DOMAIN f = 0 .. Len(s) /\ f[0] = <<>> /\ f = [i \in 0 .. Len(s) |-> f[i]]
    BY <1>5 DEF Stepwise
  <2>3. \A i \in 0 .. Len(s) :
          f[i] = IF i = 0 THEN <<>>
                 ELSE IF s[i] \in A THEN Append(f[i - 1], s[i]) ELSE f[i - 1]
    BY <1>6, <2>1, <2>2 DEF take
  <2> QED
    BY <2>2, <2>3
<1>8. isKept(kept)
  <2> HIDE DEF isKept
  <2> QED
    BY <1>7
<1>9. \A i \in 0 .. Len(s) : i \in {k \in Nat : k <= Len(s) => kept[k] = f[k]}
  <2> DEFINE K == {k \in Nat : k <= Len(s) => kept[k] = f[k]}
  <2>1. kept[0] = <<>> /\ \A i \in 1 .. Len(s) : kept[i] = take(kept[i - 1], s[i])
    <3> HIDE DEF kept
    <3>1. \A i \in 0 .. Len(s) :
            kept[i] = IF i = 0 THEN <<>>
                      ELSE IF s[i] \in A THEN Append(kept[i - 1], s[i]) ELSE kept[i - 1]
      BY <1>8
    <3>2. 0 \in 0 .. Len(s) /\ \A i \in 1 .. Len(s) : i \in 0 .. Len(s) /\ i # 0
      BY <1>4
    <3> QED
      BY <3>1, <3>2 DEF take
  <2> HIDE DEF kept, isKept
  <2>2. 0 \in K
    BY <1>5, <2>1 DEF Stepwise
  <2>3. ASSUME NEW k \in Nat, k \in K PROVE k + 1 \in K
    <3>1. CASE k + 1 <= Len(s)
      <4>1. k + 1 \in 1 .. Len(s) /\ (k + 1) - 1 = k /\ k <= Len(s)
        BY <1>4, <3>1
      <4>2. kept[k] = f[k]
        BY <2>3, <4>1
      <4>3. kept[k + 1] = f[k + 1]
        BY <1>6, <2>1, <4>1, <4>2
      <4> QED
        BY <4>3
    <3> QED
      BY <3>1
  <2>4. \A k \in Nat : k \in K
    <3> HIDE DEF K
    <3> QED
      BY <2>2, <2>3, Induction
  <2> QED
    BY <1>4, <2>4
<1> HIDE DEF kept, isKept
<1>10. kept[Len(s)] = f[Len(s)]
  BY <1>4, <1>9
<1> QED
  BY <1>1, <1>5, <1>6, <1>10 DEF take, S, Stepwise, Filters

LEMMA OnlyType ==
  ASSUME NEW T, NEW s \in Seq(T), NEW A
  PROVE  Only(s, A) \in Seq(T \cap A)
<1>1. PICK f : Filters(f, T, s, A)
  BY OnlyFolds
<1> QED
  BY <1>1, LenProperties DEF Filters

LEMMA OnlyEmpty == \A A : Only(<<>>, A) = <<>>
<1> SUFFICES ASSUME NEW A PROVE Only(<<>>, A) = <<>>
  OBVIOUS
<1>0. <<>> \in Seq({}) /\ Len(<<>>) = 0
  OBVIOUS
<1>1. PICK s \in Seq({}) : s = <<>> /\ Len(s) = 0
  BY <1>0
<1>2. PICK f : Filters(f, {}, s, A)
  BY OnlyFolds
<1> QED
  BY <1>1, <1>2 DEF Filters

\* A filter goes over a sequence from its beginning.
LEMMA OnlyAppend ==
  ASSUME NEW T, NEW s \in Seq(T), NEW x \in T, NEW A, NEW B,
         \A i \in 1 .. Len(s) : s[i] \in A <=> s[i] \in B
  PROVE  Only(Append(s, x), A) = IF x \in A THEN Append(Only(s, B), x) ELSE Only(s, B)
<1> DEFINE n == Len(s)
           u == Append(s, x)
<1>1. /\ n \in Nat /\ u \in Seq(T) /\ Len(u) = n + 1 /\ u[n + 1] = x
      /\ \A i \in 1 .. n : u[i] = s[i]
  BY LenProperties
<1>0. PICK w \in Seq(T) : w = u
  BY <1>1
<1> HIDE DEF u
<1>2. PICK f : Filters(f, T, w, A)
  BY OnlyFolds
<1>3. PICK g : Filters(g, T, s, B)
  BY OnlyFolds
<1> DEFINE K == {k \in Nat : k <= n => f[k] = g[k]}
<1> HIDE DEF n
<1>4. 0 \in K
  BY <1>2, <1>3 DEF Filters
<1>5. ASSUME NEW k \in Nat, k \in K
      PROVE  k + 1 \in K
  <2>1. CASE k + 1 <= n
    <3>1. k + 1 \in 1 .. n /\ k + 1 \in 1 .. Len(u) /\ (k + 1) - 1 = k /\ k <= n
      BY <1>1, <2>1
    <3>2. f[k] = g[k]
      BY <1>5, <3>1
    <3>3. u[k + 1] = s[k + 1] /\ (s[k + 1] \in A <=> s[k + 1] \in B)
      BY <1>1, <3>1 DEF n
    <3>4. f[k + 1] = IF u[k + 1] \in A THEN Append(f[k], u[k + 1]) ELSE f[k]
      BY <1>0, <1>2, <3>1 DEF Filters
    <3>5. g[k + 1] = IF s[k + 1] \in B THEN Append(g[k], s[k + 1]) ELSE g[k]
      BY <1>3, <3>1 DEF n, Filters
    <3>6. f[k + 1] = g[k + 1]
      BY <3>2, <3>3, <3>4, <3>5
    <3> QED
      BY <3>6
  <2> QED
    BY <2>1
<1>6. n \in K
  <2> HIDE DEF K
  <2> QED
    BY <1>1, <1>4, <1>5, Induction
<1>7. f[n] = g[n]
  BY <1>1, <1>6
<1>8. n + 1 \in 1 .. Len(u) /\ (n + 1) - 1 = n
  BY <1>1
<1>9. Only(u, A) = f[n + 1] /\ Only(s, B) = g[n]
  BY <1>0, <1>1, <1>2, <1>3 DEF n, Filters
<1>10. f[n + 1] = IF u[n + 1] \in A THEN Append(f[n], u[n + 1]) ELSE f[n]
  BY <1>0, <1>2, <1>8 DEF Filters
<1> QED
  BY <1>1, <1>7, <1>9, <1>10 DEF u

---------------------------------------------------------------------------
(* Sequences of whatever items                                             *)

IsSeq(s) == s \in Seq(Range(s))

LEMMA SeqIs ==
  ASSUME NEW s, IsSeq(s)
  PROVE  /\ Len(s) \in Nat /\ DOMAIN s = 1 .. Len(s) /\ s = [i \in 1 .. Len(s) |-> s[i]]
         /\ \A i \in DOMAIN s : s[i] \in Range(s)
  BY LenProperties DEF IsSeq

LEMMA IsSeqIf ==
  ASSUME NEW n \in Nat, NEW s, DOMAIN s = 1 .. n, s = [i \in 1 .. n |-> s[i]]
  PROVE  IsSeq(s) /\ Len(s) = n
<1>1. \A i \in 1 .. n : s[i] \in Range(s)
  BY DEF Range
<1>2. PICK T : T = Range(s)
  OBVIOUS
<1>3. s \in [1 .. n -> T]
  BY <1>1, <1>2
<1>4. s \in Seq(T) /\ Len(s) = n
  BY <1>3
<1> QED
  BY <1>2, <1>4 DEF IsSeq

LEMMA IsSeqOf ==
  ASSUME NEW T, NEW s \in Seq(T)
  PROVE  IsSeq(s)
  BY IsSeqIf, LenProperties

LEMMA EmptyIs == IsSeq(<<>>) /\ DOMAIN <<>> = {} /\ Len(<<>>) = 0
<1>1. <<>> \in Seq({}) /\ DOMAIN <<>> = {} /\ Len(<<>>) = 0
  OBVIOUS
<1>2. PICK s \in Seq({}) : s = <<>>
  BY <1>1
<1> QED
  BY <1>1, <1>2, IsSeqOf

\* What is made of each item of a sequence is a sequence.
LEMMA IsSeqConcat ==
  ASSUME NEW s, NEW t, IsSeq(s), IsSeq(t)
  PROVE  /\ IsSeq(s \o t) /\ Len(s \o t) = Len(s) + Len(t)
         /\ \A i \in 1 .. Len(s) : (s \o t)[i] = s[i]
         /\ \A i \in 1 .. Len(t) : (s \o t)[Len(s) + i] = t[i]
         /\ \A i \in DOMAIN (s \o t) : i \in 1 .. Len(s) \/ i - Len(s) \in 1 .. Len(t)
<1>1. PICK T : T = Range(s) \cup Range(t)
  OBVIOUS
<1>2. s \in Seq(T) /\ t \in Seq(T)
  <2>1. DOMAIN s = 1 .. Len(s) /\ Len(s) \in Nat /\ s = [i \in 1 .. Len(s) |-> s[i]] /\ \A i \in DOMAIN s : s[i] \in T
    BY <1>1, SeqIs
  <2>2. DOMAIN t = 1 .. Len(t) /\ Len(t) \in Nat /\ t = [i \in 1 .. Len(t) |-> t[i]] /\ \A i \in DOMAIN t : t[i] \in T
    BY <1>1, SeqIs
  <2> QED
    BY <2>1, <2>2
<1>3. s \o t \in Seq(T)
  BY <1>2
<1>4. IsSeq(s \o t)
  BY <1>3, IsSeqOf
<1>5. /\ Len(s \o t) = Len(s) + Len(t) /\ Len(s) \in Nat /\ Len(t) \in Nat
      /\ DOMAIN (s \o t) = 1 .. Len(s) + Len(t)
      /\ \A i \in 1 .. Len(s) + Len(t) : (s \o t)[i] = IF i <= Len(s) THEN s[i] ELSE t[i - Len(s)]
  BY <1>2, ConcatProperties, LenProperties
<1>6. \A i \in 1 .. Len(t) : Len(s) + i \in 1 .. Len(s) + Len(t) /\ ~ (Len(s) + i <= Len(s)) /\ (Len(s) + i) - Len(s) = i
  BY <1>5
<1>7. \A i \in 1 .. Len(s) : i \in 1 .. Len(s) + Len(t) /\ i <= Len(s)
  BY <1>5
<1>8. \A i \in 1 .. Len(s) + Len(t) : i \in 1 .. Len(s) \/ i - Len(s) \in 1 .. Len(t)
  BY <1>5
<1> QED
  BY <1>4, <1>5, <1>6, <1>7, <1>8

LEMMA IsSeqAppend ==
  ASSUME NEW s, NEW x, IsSeq(s)
  PROVE  /\ IsSeq(Append(s, x)) /\ Len(Append(s, x)) = Len(s) + 1
         /\ Append(s, x)[Len(s) + 1] = x /\ \A i \in 1 .. Len(s) : Append(s, x)[i] = s[i]
<1>1. PICK T : T = Range(s) \cup {x}
  OBVIOUS
<1>2. DOMAIN s = 1 .. Len(s) /\ Len(s) \in Nat /\ s = [i \in 1 .. Len(s) |-> s[i]] /\ \A i \in DOMAIN s : s[i] \in T
  BY <1>1, SeqIs
<1>3. s \in Seq(T) /\ x \in T
  BY <1>1, <1>2
<1>4. Append(s, x) \in Seq(T)
  BY <1>3
<1>5. IsSeq(Append(s, x))
  BY <1>4, IsSeqOf
<1>6. /\ Len(Append(s, x)) = Len(s) + 1 /\ Append(s, x)[Len(s) + 1] = x
      /\ \A i \in 1 .. Len(s) : Append(s, x)[i] = s[i]
  BY <1>3, AppendProperties
<1> QED
  BY <1>5, <1>6

LEMMA OnlyIsSeq ==
  ASSUME NEW s, IsSeq(s), NEW A
  PROVE  IsSeq(Only(s, A)) /\ \A i \in DOMAIN Only(s, A) : Only(s, A)[i] \in A \cap Range(s)
<1>1. PICK T : T = Range(s)
  OBVIOUS
<1>2. s \in Seq(T)
  BY <1>1 DEF IsSeq
<1>3. Only(s, A) \in Seq(T \cap A)
  BY <1>2, OnlyType
<1>4. PICK u \in Seq(T \cap A) : u = Only(s, A)
  BY <1>3
<1> QED
  BY <1>1, <1>4, IsSeqOf, LenProperties

---------------------------------------------------------------------------
(* What a line yields                                                      *)

TextOK(b) == b.kind = "text" => b.text \in Texts \cup {None}
LineOK(l) ==
  /\ IsSeq(l.blocks) /\ l.body \in {"message", "content", "flat"}
  /\ \A b \in Range(l.blocks) : TextOK(b)

\* The text of an assistant's message is one that the phrase tables know, and
\* what gives no event misses a field.
EventOK(e) == e.kind = "ASSISTANT_MESSAGE" => e.payload \in Texts
Marks(r) == \E f \in Fields \ {"timestamp"} : f \in r.missing
ResultOK(r) == IF r.kind = None THEN Marks(r) ELSE EventOK(r)

LEMMA LinesAreOK == alphabet \in Files => \A l \in alphabet : LineOK(l)
  BY LinesAssumption DEF LineOK, IsSeq, TextOK

LEMMA BlockEventsAreOK ==
  ASSUME NEW b, TextOK(b)
  PROVE  ResultOK(AssistantBlock(b)) /\ ResultOK(UserBlock(b))
<1>1. \A f \in Fields \ {"timestamp"} : ResultOK(Misses(f))
  BY DEF ResultOK, Misses, Marks
<1>11. {"text", "tool_name", "tool_use_id", "thinking", "content.type"} \subseteq Fields \ {"timestamp"}
  BY DEF Fields
<1>2. \A kind, x : kind \notin {"ASSISTANT_MESSAGE", None} => ResultOK(Emits(kind, x))
  BY DEF ResultOK, EventOK, Emits
<1>3. ResultOK(ToolCall(b))
  BY <1>1, <1>11, ParserAssumption DEF ToolCall, ResultOK, EventOK, Emits
<1>4. ResultOK(Thinking(b))
  BY <1>1, <1>11, <1>2, ParserAssumption DEF Thinking
<1>5. ResultOK(ToolResult(b))
  BY <1>1, <1>11, <1>2, ParserAssumption DEF ToolResult
<1>6. b.kind = "text" => ResultOK(TextEvent("ASSISTANT_MESSAGE", b))
  BY <1>1, <1>11, ParserAssumption DEF TextEvent, ResultOK, EventOK, Emits, TextOK
<1>7. ResultOK(TextEvent("USER_MESSAGE", b))
  BY <1>1, <1>11, <1>2, ParserAssumption DEF TextEvent
<1>8. ResultOK(AssistantBlock(b))
  BY <1>1, <1>11, <1>3, <1>4, <1>6 DEF AssistantBlock
<1>9. ResultOK(UserBlock(b))
  BY <1>1, <1>11, <1>5, <1>7 DEF UserBlock
<1> QED
  BY <1>8, <1>9

LEMMA BlockResultsAre ==
  ASSUME NEW l, LineOK(l)
  PROVE  IsSeq(BlockResults(l)) /\ \A i \in DOMAIN BlockResults(l) : ResultOK(BlockResults(l)[i])
<1> DEFINE assistant == Kind(l) = "assistant"
           blocks == IF l.body # "flat" THEN ContentBlocks(l)
                     ELSE IF assistant THEN FlatAssistant(l) ELSE FlatUser(l)
           result(b) == IF assistant THEN AssistantBlock(b) ELSE UserBlock(b)
<1>1. IsSeq(blocks) /\ \A i \in DOMAIN blocks : blocks[i] \in Range(l.blocks)
  BY OnlyIsSeq DEF ContentBlocks, FlatAssistant, FlatUser, Filtered, LineOK
<1>9. \A i \in DOMAIN blocks : ResultOK(result(blocks[i]))
  BY <1>1, BlockEventsAreOK DEF LineOK
<1>2. BlockResults(l) = [i \in DOMAIN blocks |-> result(blocks[i])]
  BY DEF BlockResults
<1> HIDE DEF blocks, result
<1>3. DOMAIN blocks = 1 .. Len(blocks) /\ Len(blocks) \in Nat
  BY <1>1, SeqIs
<1>4. PICK s : s = BlockResults(l)
  OBVIOUS
<1>5. DOMAIN s = 1 .. Len(blocks) /\ s = [i \in 1 .. Len(blocks) |-> s[i]]
  BY <1>2, <1>3, <1>4
<1>6. \A i \in DOMAIN s : ResultOK(s[i])
  BY <1>2, <1>3, <1>4, <1>9
<1> QED
  BY <1>3, <1>4, <1>5, <1>6, IsSeqIf

LEMMA Singles == \A x : IsSeq(<<x>>) /\ \A i \in DOMAIN <<x>> : <<x>>[i] = x
<1> SUFFICES ASSUME NEW x PROVE IsSeq(<<x>>) /\ \A i \in DOMAIN <<x>> : <<x>>[i] = x
  OBVIOUS
<1>1. <<x>> \in Seq({x})
  OBVIOUS
<1>2. PICK s \in Seq({x}) : s = <<x>>
  BY <1>1
<1>3. IsSeq(s) /\ \A i \in DOMAIN s : s[i] = x
  BY IsSeqOf, LenProperties
<1> HIDE DEF IsSeq
<1> QED
  BY <1>2, <1>3

LEMMA ResultsAre ==
  ASSUME NEW l, LineOK(l)
  PROVE  /\ IsSeq(Results(l)) /\ (Duplicate(l) => Results(l) = <<>>)
         /\ \A r \in Range(Results(l)) : ResultOK(r)
<1>1. /\ IsSeq(<<>>) /\ DOMAIN <<>> = {} /\ IsSeq(<< Misses("message") >>)
      /\ IsSeq(<< Misses("text") >>) /\ IsSeq(<< SystemEvent >>) /\ IsSeq(<< Misses("type") >>)
  BY EmptyIs, Singles
<1>2. Results(l) \in {<<>>, << Misses("message") >>, << Misses("text") >>, BlockResults(l),
                      << SystemEvent >>, << Misses("type") >>}
  BY DEF Results
<1>3. Duplicate(l) => Kind(l) \in {"assistant", "user"}
  BY DEF Duplicate, MessageId
<1>4. \A f \in {"message", "text", "type"} : ResultOK(Misses(f))
  BY DEF ResultOK, Misses, Marks, Fields
<1>5. ResultOK(SystemEvent)
  BY ParserAssumption DEF ResultOK, EventOK, SystemEvent, Emits
<1>6. \A i \in DOMAIN Results(l) : ResultOK(Results(l)[i])
  <2>1. PICK s : s = Results(l)
    OBVIOUS
  <2>2. CASE s = BlockResults(l)
    BY <2>1, <2>2, BlockResultsAre
  <2>3. CASE s = <<>>
    BY <1>1, <2>1, <2>3
  <2>4. CASE s \in {<< Misses("message") >>, << Misses("text") >>, << Misses("type") >>}
    BY <1>4, <2>1, <2>4, Singles
  <2>5. CASE s = << SystemEvent >>
    BY <1>5, <2>1, <2>5, Singles
  <2> QED
    BY <1>2, <2>1, <2>2, <2>3, <2>4, <2>5
<1>7. \A r \in Range(Results(l)) : ResultOK(r)
  BY <1>6 DEF Range
<1> QED
  BY <1>1, <1>2, <1>3, <1>7, BlockResultsAre DEF Results

LEMMA EventsAre ==
  ASSUME NEW l, LineOK(l)
  PROVE  /\ IsSeq(EventsOf(l))
         /\ \A i \in DOMAIN EventsOf(l) : EventsOf(l)[i].id = MessageId(l) /\ EventOK(EventsOf(l)[i])
         /\ Duplicate(l) => EventsOf(l) = <<>>
<1> DEFINE A == {r \in Range(Results(l)) : r.kind # None}
           built == Only(Results(l), A)
           event(b) == [kind |-> b.kind, payload |-> b.payload, resolved |-> l.ts = "good",
                        id |-> MessageId(l)]
<1>1. EventsOf(l) = [i \in DOMAIN built |-> event(built[i])]
  BY DEF EventsOf, Filtered
<1>2. IsSeq(built) /\ \A i \in DOMAIN built : built[i] \in A
  <2> HIDE DEF A
  <2> QED
    BY ResultsAre, OnlyIsSeq
<1>0. \A b \in A : EventOK(event(b))
  BY ResultsAre DEF ResultOK, EventOK
<1>3. Duplicate(l) => built = <<>>
  <2> HIDE DEF A
  <2> QED
    BY ResultsAre, OnlyEmpty
<1>4. \A b : event(b).id = MessageId(l)
  OBVIOUS
<1> HIDE DEF A, built, event
<1>5. DOMAIN built = 1 .. Len(built) /\ Len(built) \in Nat
  BY <1>2, SeqIs
<1>6. PICK s : s = EventsOf(l)
  OBVIOUS
<1>7. DOMAIN s = 1 .. Len(built) /\ s = [i \in 1 .. Len(built) |-> s[i]]
  BY <1>1, <1>5, <1>6
<1>8. IsSeq(s) /\ Len(s) = Len(built)
  BY <1>5, <1>7, IsSeqIf
<1>9. \A i \in DOMAIN s : s[i].id = MessageId(l) /\ EventOK(s[i])
  BY <1>0, <1>1, <1>2, <1>4, <1>6
<1>10. Duplicate(l) => s = <<>>
  BY <1>1, <1>3, <1>6
<1> QED
  BY <1>6, <1>8, <1>9, <1>10

LEMMA YieldsAre ==
  ASSUME NEW l, LineOK(l)
  PROVE  /\ IsSeq(Yields(l))
         /\ \A i \in DOMAIN Yields(l) : Yields(l)[i].id = MessageId(l) /\ EventOK(Yields(l)[i])
         /\ Duplicate(l) => Yields(l) = <<>>
<1>1. IsSeq(<<>>) /\ DOMAIN <<>> = {}
  BY EmptyIs
<1>2. CASE l.form = "object" /\ Kind(l) # None
  BY <1>2, EventsAre DEF Yields
<1>3. CASE ~ (l.form = "object" /\ Kind(l) # None)
  BY <1>1, <1>3 DEF Yields
<1> QED
  BY <1>2, <1>3

---------------------------------------------------------------------------
(* Messages are told once                                                  *)

\* The ids that this process has told are among those its parser has seen.
ToldInv ==
  /\ alphabet \in Files
  /\ IsSeq(told) /\ IsSeq(file)
  /\ "seen" \in DOMAIN parser
  /\ \A i \in DOMAIN told : told[i].line \in 1 .. Len(file)
  /\ \A i \in Here : told[i].event.id # None => told[i].event.id \in parser.seen

LEMMA ParserSees ==
  ASSUME NEW l, ParseLine(l), "seen" \in DOMAIN parser
  PROVE  /\ "seen" \in DOMAIN parser' /\ parser.seen \subseteq parser'.seen
         /\ Yields(l) # <<>> /\ MessageId(l) # None => MessageId(l) \in parser'.seen
<1>1. CASE SkipBlank(l)
  BY <1>1 DEF SkipBlank, Yields
<1>2. CASE Malformed(l)
  BY <1>2 DEF Malformed, Yields
<1>3. CASE Typeless(l)
  BY <1>3 DEF Typeless, AfterSample, Yields
<1>4. CASE Dispatch(l)
  <2>1. "seen" \in DOMAIN AfterSample(l) /\ AfterSample(l).seen = parser.seen
    BY DEF AfterSample
  <2>2. "seen" \in DOMAIN parser' /\ parser'.seen = parser.seen \cup ({MessageId(l)} \ {None})
    <3> HIDE DEF AfterSample
    <3> QED
      BY <1>4, <2>1 DEF Dispatch
  <2> QED
    BY <2>2
<1> QED
  BY <1>1, <1>2, <1>3, <1>4 DEF ParseLine

\* What told gains with a line.
LEMMA ToldGrows ==
  ASSUME ToldInv, NEW l \in alphabet, IngestLine(l)
  PROVE  /\ IsSeq(file') /\ IsSeq(told') /\ Len(file') = Len(file) + 1 /\ Len(file) \in Nat
         /\ DOMAIN told \subseteq DOMAIN told'
         /\ \A i \in DOMAIN told : told'[i] = told[i]
         /\ \A i \in DOMAIN told' \ DOMAIN told :
              /\ told'[i].line = Len(file) + 1 /\ told'[i].event.id = MessageId(l)
              /\ Yields(l) # <<>>
         /\ Yields(l) # <<>> => \E i \in DOMAIN told' : told'[i].line = Len(file) + 1
<1> DEFINE events == Yields(l)
           new == [i \in DOMAIN events |-> [event |-> events[i], line |-> Len(file) + 1]]
<1>1. LineOK(l)
  BY LinesAreOK DEF ToldInv
<1>2. IsSeq(events) /\ \A i \in DOMAIN events : events[i].id = MessageId(l)
  BY <1>1, YieldsAre
<1>3. told' = told \o new /\ file' = Append(file, l)
  BY DEF IngestLine
<1>4. IsSeq(file') /\ Len(file') = Len(file) + 1 /\ Len(file) \in Nat
  BY <1>3, IsSeqAppend, SeqIs DEF ToldInv
<1> HIDE DEF events
<1>5. DOMAIN events = 1 .. Len(events) /\ Len(events) \in Nat
  BY <1>2, SeqIs
<1>6. PICK s : s = new
  OBVIOUS
<1>7. DOMAIN s = 1 .. Len(events) /\ s = [i \in 1 .. Len(events) |-> s[i]]
  BY <1>5, <1>6
<1>8. IsSeq(s) /\ Len(s) = Len(events)
  BY <1>5, <1>7, IsSeqIf
<1>9. \A i \in 1 .. Len(s) : s[i].line = Len(file) + 1 /\ s[i].event.id = MessageId(l)
  BY <1>2, <1>5, <1>6, <1>8
<1>10. Len(s) # 0 => events # <<>>
  BY <1>8, EmptyIs
<1>11. /\ IsSeq(told \o s) /\ Len(told \o s) = Len(told) + Len(s)
       /\ \A i \in 1 .. Len(told) : (told \o s)[i] = told[i]
       /\ \A i \in 1 .. Len(s) : (told \o s)[Len(told) + i] = s[i]
       /\ \A i \in DOMAIN (told \o s) : i \in 1 .. Len(told) \/ i - Len(told) \in 1 .. Len(s)
  BY <1>8, IsSeqConcat DEF ToldInv
<1>12. PICK u : u = told \o s /\ u = told'
  BY <1>3, <1>6
<1>13. DOMAIN told = 1 .. Len(told) /\ Len(told) \in Nat
  BY SeqIs DEF ToldInv
<1>14. DOMAIN u = 1 .. Len(told) + Len(s)
  BY <1>11, <1>12, SeqIs
<1>15. Len(s) \in Nat
  BY <1>8, SeqIs
<1>16. ASSUME NEW i \in DOMAIN u \ DOMAIN told
       PROVE  /\ u[i].line = Len(file) + 1 /\ u[i].event.id = MessageId(l)
              /\ events # <<>>
  <2>1. i - Len(told) \in 1 .. Len(s) /\ i \in Nat
    BY <1>11, <1>12, <1>13, <1>14
  <2>2. PICK k \in 1 .. Len(s) : k = i - Len(told)
    BY <2>1
  <2>3. u[Len(told) + k] = s[k]
    BY <1>11, <1>12, <2>2
  <2>4. Len(told) + k = i
    BY <1>13, <2>1, <2>2
  <2>5. Len(s) # 0
    BY <1>15, <2>2
  <2> QED
    BY <1>9, <1>10, <2>3, <2>4, <2>5
<1>17. ASSUME events # <<>>
       PROVE  \E i \in DOMAIN u : u[i].line = Len(file) + 1
  <2>1. Len(s) # 0
    BY <1>2, <1>5, <1>8, <1>17, SeqIs
  <2>2. 1 \in 1 .. Len(s) /\ Len(told) + 1 \in DOMAIN u
    BY <1>13, <1>14, <1>15, <2>1
  <2>3. u[Len(told) + 1] = s[1]
    BY <1>11, <1>12, <2>2
  <2> QED
    BY <1>9, <2>2, <2>3
<1> QED
  BY <1>4, <1>11, <1>12, <1>13, <1>14, <1>15, <1>16, <1>17 DEF events

LEMMA IngestTellsOnce ==
  ASSUME ToldInv, EachMessageOnce, NEW l \in alphabet, IngestLine(l)
  PROVE  ToldInv' /\ EachMessageOnce'
<1>1. opened' = opened /\ alphabet' = alphabet /\ ParseLine(l)
  BY DEF IngestLine
<1>2. /\ "seen" \in DOMAIN parser' /\ parser.seen \subseteq parser'.seen
      /\ Yields(l) # <<>> /\ MessageId(l) # None => MessageId(l) \in parser'.seen
  BY <1>1, ParserSees DEF ToldInv
<1>3. LineOK(l)
  BY LinesAreOK DEF ToldInv
<1>4. Yields(l) # <<>> /\ MessageId(l) # None => MessageId(l) \notin parser.seen
  BY <1>3, YieldsAre DEF Duplicate
<1>5. Here' \cap DOMAIN told \subseteq Here
  BY <1>1, ToldGrows DEF Here
<1>6. \A i \in Here' : i \in DOMAIN told'
  BY DEF Here
<1>7. \A i \in DOMAIN told' : told'[i].line \in 1 .. Len(file')
  BY ToldGrows DEF ToldInv
<1>8. \A i \in Here' : told'[i].event.id # None => told'[i].event.id \in parser'.seen
  BY <1>2, <1>5, <1>6, ToldGrows DEF ToldInv
<1>9. ToldInv'
  BY <1>1, <1>2, <1>7, <1>8, ToldGrows DEF ToldInv
<1>10. ASSUME NEW i \in Here', NEW j \in Here',
              told'[i].event.id # None, told'[i].event.id = told'[j].event.id
       PROVE  told'[i].line = told'[j].line
  <2>1. CASE i \in DOMAIN told /\ j \in DOMAIN told
    BY <1>5, <1>10, <2>1, ToldGrows DEF EachMessageOnce
  <2>2. CASE i \notin DOMAIN told /\ j \notin DOMAIN told
    BY <1>6, <2>2, ToldGrows
  <2>3. CASE i \in DOMAIN told /\ j \notin DOMAIN told
    <3>1. told[i].event.id \in parser.seen /\ told'[i] = told[i]
      BY <1>5, <1>10, <2>3, ToldGrows DEF ToldInv
    <3>2. told'[j].event.id = MessageId(l) /\ Yields(l) # <<>>
      BY <1>6, <2>3, ToldGrows
    <3> QED
      BY <1>4, <1>10, <3>1, <3>2
  <2>4. CASE i \notin DOMAIN told /\ j \in DOMAIN told
    <3>1. told[j].event.id \in parser.seen /\ told'[j] = told[j]
      BY <1>5, <1>10, <2>4, ToldGrows DEF ToldInv
    <3>2. told'[i].event.id = MessageId(l) /\ Yields(l) # <<>>
      BY <1>6, <2>4, ToldGrows
    <3> QED
      BY <1>4, <1>10, <3>1, <3>2
  <2> QED
    BY <2>1, <2>2, <2>3, <2>4
<1> QED
  BY <1>9, <1>10 DEF EachMessageOnce

LEMMA ToldStart == Init => ToldInv /\ EachMessageOnce
<1> SUFFICES ASSUME Init PROVE ToldInv /\ EachMessageOnce
  OBVIOUS
<1>1. DOMAIN told = {} /\ IsSeq(told) /\ IsSeq(file)
  BY EmptyIs DEF Init
<1>2. Here = {}
  BY <1>1 DEF Here
<1> QED
  BY <1>1, <1>2 DEF Init, ToldInv, EachMessageOnce, NewParser

LEMMA ToldStep ==
  ASSUME ToldInv, EachMessageOnce, [Next]_vars
  PROVE  ToldInv' /\ EachMessageOnce'
<1>1. CASE \E l \in alphabet : IngestLine(l)
  BY <1>1, IngestTellsOnce
<1>2. CASE \E size \in Sizes : Resume(size)
  <2>1. /\ told' = told /\ file' = file /\ opened' = Len(file) /\ alphabet' = alphabet
        /\ parser' = NewParser
    BY <1>2 DEF Resume
  <2>2. Len(file) \in Nat
    BY SeqIs DEF ToldInv
  <2>3. Here' = {}
    BY <2>1, <2>2 DEF Here, ToldInv
  <2>4. "seen" \in DOMAIN parser'
    BY <2>1 DEF NewParser
  <2> QED
    BY <2>1, <2>3, <2>4 DEF ToldInv, EachMessageOnce
<1>3. CASE Evict \/ UNCHANGED vars
  <2>1. told' = told /\ file' = file /\ opened' = opened /\ alphabet' = alphabet /\ parser' = parser
    BY <1>3 DEF Evict, vars, history
  <2> QED
    BY <2>1 DEF ToldInv, EachMessageOnce, Here
<1> QED
  BY <1>1, <1>2, <1>3 DEF Next

\* EachMessageOnce: a process tells no message twice, whichever lines bear its
\* id and in whichever order they come (parser.py:542).
THEOREM ToldOnce == Spec => []EachMessageOnce
<1>1. Init => ToldInv /\ EachMessageOnce
  BY ToldStart
<1>2. ToldInv /\ EachMessageOnce /\ [Next]_vars => (ToldInv /\ EachMessageOnce)'
  BY ToldStep
<1> QED
  BY <1>1, <1>2, PTL DEF Spec

---------------------------------------------------------------------------
(* The longest burst                                                       *)

IsMost(m, S) == (S = {} /\ m = 0) \/ (m \in S /\ \A y \in S : y <= m)

LEMMA MostIs ==
  ASSUME NEW S \in SUBSET Nat, NEW m \in Nat, IsMost(m, S)
  PROVE  m = Most(S)
<1>1. CASE S = {}
  BY <1>1 DEF IsMost, Most
<1>2. CASE S # {}
  <2>1. m \in S /\ \A y \in S : m >= y
    BY <1>2 DEF IsMost
  <2>2. \A x \in S : (\A y \in S : x >= y) => x = m
    BY <2>1
  <2>3. Max(S) = m
    BY <2>1, <2>2 DEF Max
  <2> QED
    BY <1>2, <2>3 DEF Most
<1> QED
  BY <1>1, <1>2

LEMMA MostOfTwo ==
  ASSUME NEW a \in Nat, NEW b \in Nat
  PROVE  Most({a, b}) = IF a >= b THEN a ELSE b
<1>1. {a, b} \in SUBSET Nat
  OBVIOUS
<1>2. IsMost(IF a >= b THEN a ELSE b, {a, b})
  BY DEF IsMost
<1>3. (IF a >= b THEN a ELSE b) \in Nat
  OBVIOUS
<1> QED
  BY <1>1, <1>2, <1>3, MostIs

Loops == [calls : Nat, matches : Nat, burst : Nat, maxBurst : Nat]
Matched(e) == LoopHits[e.payload] > 0

\* burst counts the matched messages at the end.
TrailIs(n, said) ==
  /\ n \in 0 .. Len(said)
  /\ \A i \in Len(said) - n + 1 .. Len(said) : Matched(said[i])
  /\ n < Len(said) => ~ Matched(said[Len(said) - n])

LoopRight(p, said) == TrailIs(p.burst, said) /\ IsMost(p.maxBurst, Bursts(said))

LEMMA BurstGrows ==
  ASSUME NEW T, NEW said \in Seq(T), NEW e \in T, NEW n, NEW m, TrailIs(n, said),
         IsMost(m, Bursts(said))
  PROVE  LET k == IF Matched(e) THEN n + 1 ELSE 0
         IN /\ TrailIs(k, Append(said, e))
            /\ IsMost(IF m >= k THEN m ELSE k, Bursts(Append(said, e)))
<1> DEFINE L == Len(said)
           u == Append(said, e)
           k == IF Matched(e) THEN n + 1 ELSE 0
<1>1. /\ L \in Nat /\ u \in Seq(T) /\ Len(u) = L + 1 /\ u[L + 1] = e
      /\ \A i \in 1 .. L : u[i] = said[i]
  BY LenProperties
<1>2. n \in 0 .. L /\ m \in Nat /\ n \in Nat
  BY <1>1 DEF TrailIs, IsMost, Bursts
<1> HIDE DEF u
<1>3. TrailIs(k, u)
  <2>1. CASE Matched(e)
    <3>1. k = n + 1 /\ (L + 1) - k + 1 = L - n + 1 /\ (L + 1) - k = L - n
      BY <1>1, <1>2, <2>1
    <3>2. ASSUME NEW i \in L - n + 1 .. L + 1 PROVE Matched(u[i])
      <4>1. CASE i = L + 1
        BY <1>1, <2>1, <4>1
      <4>2. CASE i # L + 1
        <5>1. i \in 1 .. L /\ i \in L - n + 1 .. L
          BY <1>1, <1>2, <4>2
        <5> QED
          BY <1>1, <5>1 DEF TrailIs
      <4> QED
        BY <4>1, <4>2
    <3>3. n < L => L - n \in 1 .. L /\ ~ Matched(u[L - n])
      BY <1>1, <1>2 DEF TrailIs
    <3> QED
      BY <1>1, <1>2, <3>1, <3>2, <3>3 DEF TrailIs
  <2>2. CASE ~ Matched(e)
    <3>1. k = 0 /\ (L + 1) - k = L + 1 /\ (L + 1) - k + 1 > L + 1
      BY <1>1, <2>2
    <3> QED
      BY <1>1, <2>2, <3>1 DEF TrailIs
  <2> QED
    BY <2>1, <2>2
<1>4. Bursts(said) \subseteq Bursts(u)
  <2> SUFFICES ASSUME NEW y \in Bursts(said) PROVE y \in Bursts(u)
    OBVIOUS
  <2>1. PICK first \in 1 .. L - y + 1 : \A i \in first .. first + y - 1 : Matched(said[i])
    BY DEF Bursts, Matched
  <2>2. y \in 1 .. L
    BY DEF Bursts
  <2>3. first \in 1 .. (L + 1) - y + 1 /\ \A i \in first .. first + y - 1 : i \in 1 .. L
    BY <1>1, <2>1, <2>2
  <2>4. \A i \in first .. first + y - 1 : Matched(u[i])
    BY <1>1, <2>1, <2>3
  <2>5. y \in 1 .. Len(u) /\ first \in 1 .. Len(u) - y + 1
    BY <1>1, <2>2, <2>3
  <2> HIDE DEF L
  <2> QED
    BY <2>4, <2>5 DEF Bursts, Matched
<1>5. k > 0 => k \in Bursts(u)
  <2> SUFFICES ASSUME k > 0 PROVE k \in Bursts(u)
    OBVIOUS
  <2>1. k = n + 1 /\ k \in 1 .. Len(u)
    BY <1>1, <1>2
  <2>2. L - n + 1 \in 1 .. Len(u) - k + 1 /\ L - n + 1 = Len(u) - k + 1 /\ (L - n + 1) + k - 1 = Len(u)
    BY <1>1, <1>2, <2>1
  <2>3. \A i \in L - n + 1 .. (L - n + 1) + k - 1 : Matched(u[i])
    BY <1>3, <2>2 DEF TrailIs
  <2> HIDE DEF k, L
  <2> QED
    BY <2>1, <2>2, <2>3 DEF Bursts, Matched
<1>6. ASSUME NEW y \in Bursts(u), y \notin Bursts(said)
      PROVE  y <= k /\ y \in Nat
  <2>1. PICK first \in 1 .. (L + 1) - y + 1 : \A i \in first .. first + y - 1 : Matched(u[i])
    BY <1>1 DEF Bursts, Matched
  <2>2. y \in 1 .. L + 1
    BY <1>1 DEF Bursts
  <2>3. CASE first + y - 1 <= L
    <3>1. first \in 1 .. L - y + 1 /\ y \in 1 .. L /\ \A i \in first .. first + y - 1 : i \in 1 .. L
      BY <1>1, <2>1, <2>2, <2>3
    <3>2. \A i \in first .. first + y - 1 : Matched(said[i])
      BY <1>1, <2>1, <3>1
    <3> QED
      BY <1>6, <3>1, <3>2 DEF Bursts, Matched
  <2>4. CASE first + y - 1 = L + 1
    <3>0. L + 1 \in first .. first + y - 1
      BY <1>1, <2>2, <2>4
    <3>1. Matched(e)
      BY <1>1, <2>1, <3>0
    <3>2. ASSUME y > n + 1 PROVE FALSE
      <4>1. n < L /\ L - n \in first .. first + y - 1 /\ L - n \in 1 .. L
        BY <1>1, <1>2, <2>2, <2>4, <3>2
      <4> QED
        BY <1>1, <2>1, <4>1 DEF TrailIs
    <3> QED
      BY <1>2, <2>2, <3>1, <3>2
  <2>5. first + y - 1 <= L + 1
    BY <1>1, <2>1, <2>2
  <2> QED
    BY <1>1, <2>1, <2>2, <2>3, <2>4, <2>5
<1>7. k \in Nat
  BY <1>2
<1> HIDE DEF k, L
<1>8. IsMost(IF m >= k THEN m ELSE k, Bursts(u))
  <2>1. \A y \in Bursts(said) : y <= m /\ y \in Nat
    <3>1. Bursts(said) \subseteq Nat
      BY <1>1 DEF L, Bursts
    <3> QED
      BY <3>1 DEF IsMost
  <2>2. \A y \in Bursts(u) : y \in Nat /\ (y <= m \/ y <= k)
    BY <1>6, <2>1
  <2>3. m > 0 => m \in Bursts(u)
    BY <1>4 DEF IsMost
  <2>4. Bursts(u) = {} => m = 0 /\ k = 0
    BY <1>2, <1>5, <1>7, <2>3
  <2>5. \A y \in Bursts(u) : y > 0
    BY DEF Bursts
  <2> QED
    BY <1>2, <1>5, <1>7, <2>2, <2>3, <2>4, <2>5 DEF IsMost
<1> QED
  BY <1>3, <1>8 DEF k, u

EventsOK(E) == \A e \in E : EventOK(e)
IsSaid(e) == e.kind = "ASSISTANT_MESSAGE" /\ e.payload # EmptyText

LEMMA SaidIs == \A v : SaidOf(v) = Only(v, {x \in Range(v) : IsSaid(x)})
  BY DEF SaidOf, Filtered, IsSaid

LEMMA SaidAppend ==
  ASSUME NEW E, NEW v \in Seq(E), NEW e \in E
  PROVE  /\ SaidOf(v) \in Seq(E)
         /\ SaidOf(Append(v, e)) = IF IsSaid(e) THEN Append(SaidOf(v), e) ELSE SaidOf(v)
<1> DEFINE A == {x \in Range(Append(v, e)) : IsSaid(x)}
           B == {x \in Range(v) : IsSaid(x)}
<1>1. /\ DOMAIN v = 1 .. Len(v) /\ Append(v, e) \in Seq(E) /\ Len(Append(v, e)) = Len(v) + 1
      /\ Len(v) \in Nat /\ DOMAIN Append(v, e) = 1 .. Len(v) + 1
      /\ \A i \in 1 .. Len(v) : Append(v, e)[i] = v[i]
      /\ Append(v, e)[Len(v) + 1] = e
  BY LenProperties, AppendProperties
<1>2. \A i \in 1 .. Len(v) : v[i] \in Range(v) /\ v[i] \in Range(Append(v, e))
  BY <1>1 DEF Range
<1>3. e \in Range(Append(v, e))
  BY <1>1 DEF Range
<1>4. (\A i \in 1 .. Len(v) : v[i] \in A <=> v[i] \in B) /\ (e \in A <=> IsSaid(e))
  BY <1>2, <1>3
<1>5. SaidOf(Append(v, e)) = Only(Append(v, e), A) /\ SaidOf(v) = Only(v, B)
  BY SaidIs
<1> HIDE DEF A, B
<1>6. Only(Append(v, e), A) = IF e \in A THEN Append(Only(v, B), e) ELSE Only(v, B)
  BY <1>4, OnlyAppend
<1>7. Only(v, B) \in Seq(E \cap B)
  BY OnlyType
<1>8. SaidOf(v) \in Seq(E)
  BY <1>5, <1>7
<1> QED
  BY <1>4, <1>5, <1>6, <1>8

Heard(p, h, b, m) == [p EXCEPT !.matches = h, !.burst = b, !.maxBurst = m]

LEMMA HeardIs ==
  ASSUME NEW p \in Loops, NEW h \in Nat, NEW b \in Nat, NEW m \in Nat
  PROVE  Heard(p, h, b, m) \in Loops /\ Heard(p, h, b, m).burst = b /\ Heard(p, h, b, m).maxBurst = m
  BY DEF Heard, Loops

LEMMA LoopHears ==
  ASSUME NEW e, EventOK(e), IsSaid(e), NEW p \in Loops
  PROVE  LET burst == IF Matched(e) THEN p.burst + 1 ELSE 0
             q == FoldLoop(p, e)
         IN /\ q \in Loops /\ q.burst = burst
            /\ q.maxBurst = IF p.maxBurst >= burst THEN p.maxBurst ELSE burst
<1> DEFINE hits == LoopHits[e.payload]
           burst == IF hits > 0 THEN p.burst + 1 ELSE 0
           most == Most({p.maxBurst, burst})
<1>1. FoldLoop(p, e) = Heard(p, p.matches + hits, burst, most)
  BY DEF FoldLoop, IsSaid, Heard
<1>2. hits \in Nat
  BY CollectorsAssumption DEF IsSaid, EventOK, Texts
<1>3. burst \in Nat /\ p.matches + hits \in Nat /\ p.maxBurst \in Nat
  BY <1>2 DEF Loops
<1>4. most \in Nat /\ most = IF p.maxBurst >= burst THEN p.maxBurst ELSE burst
  <2> HIDE DEF burst
  <2> QED
    BY <1>3, MostOfTwo
<1> HIDE DEF hits, burst, most
<1>5. FoldLoop(p, e) \in Loops /\ FoldLoop(p, e).burst = burst /\ FoldLoop(p, e).maxBurst = most
  <2>1. PICK h \in Nat : h = p.matches + hits
    BY <1>3
  <2>2. FoldLoop(p, e) = Heard(p, h, burst, most)
    BY <1>1, <2>1
  <2>3. /\ Heard(p, h, burst, most) \in Loops /\ Heard(p, h, burst, most).burst = burst
        /\ Heard(p, h, burst, most).maxBurst = most
    <3>1. burst \in Nat /\ most \in Nat /\ p \in Loops
      BY <1>3, <1>4
    <3> QED
      BY <3>1, HeardIs
  <2> QED
    BY <2>2, <2>3
<1> QED
  BY <1>4, <1>5 DEF burst, hits, Matched

\* An event that is no spoken message leaves the streaks alone.
LEMMA LoopOverhears ==
  ASSUME NEW e, ~ IsSaid(e), NEW p \in Loops
  PROVE  /\ FoldLoop(p, e) \in Loops
         /\ FoldLoop(p, e).burst = p.burst /\ FoldLoop(p, e).maxBurst = p.maxBurst
<1>1. CASE e.kind = "TOOL_CALL"
  <2>1. FoldLoop(p, e) = [p EXCEPT !.calls = p.calls + 1]
    BY <1>1 DEF FoldLoop
  <2> QED
    BY <2>1 DEF Loops
<1>2. CASE e.kind # "TOOL_CALL"
  <2>1. FoldLoop(p, e) = p
    BY <1>2 DEF FoldLoop, IsSaid
  <2> QED
    BY <2>1
<1> QED
  BY <1>1, <1>2

LEMMA LoopStep ==
  ASSUME NEW E, EventsOK(E), NEW v \in Seq(E), NEW e \in E, NEW p \in Loops,
         LoopRight(p, SaidOf(v))
  PROVE  FoldLoop(p, e) \in Loops /\ LoopRight(FoldLoop(p, e), SaidOf(Append(v, e)))
<1>1. /\ SaidOf(v) \in Seq(E)
      /\ SaidOf(Append(v, e)) = IF IsSaid(e) THEN Append(SaidOf(v), e) ELSE SaidOf(v)
  BY SaidAppend
<1>2. CASE IsSaid(e)
  <2> DEFINE burst == IF Matched(e) THEN p.burst + 1 ELSE 0
  <2>1. /\ FoldLoop(p, e) \in Loops /\ FoldLoop(p, e).burst = burst
        /\ FoldLoop(p, e).maxBurst = IF p.maxBurst >= burst THEN p.maxBurst ELSE burst
    BY <1>2, LoopHears DEF EventsOK
  <2>2. PICK w \in Seq(E) : w = SaidOf(v)
    BY <1>1
  <2>3. TrailIs(p.burst, w) /\ IsMost(p.maxBurst, Bursts(w))
    BY <2>2 DEF LoopRight
  <2>4. /\ TrailIs(burst, Append(w, e))
        /\ IsMost(IF p.maxBurst >= burst THEN p.maxBurst ELSE burst, Bursts(Append(w, e)))
    BY <2>3, BurstGrows
  <2> HIDE DEF burst
  <2> QED
    BY <1>1, <1>2, <2>1, <2>2, <2>4 DEF LoopRight
<1>3. CASE ~ IsSaid(e)
  <2>1. FoldLoop(p, e) \in Loops /\ FoldLoop(p, e).burst = p.burst
        /\ FoldLoop(p, e).maxBurst = p.maxBurst
    BY <1>3, LoopOverhears
  <2> QED
    BY <1>1, <1>3, <2>1 DEF LoopRight
<1> QED
  BY <1>2, <1>3

LEMMA LoopFolds ==
  ASSUME NEW E, EventsOK(E), NEW u \in Seq(E), NEW s \in Seq(E), NEW p \in Loops,
         LoopRight(p, SaidOf(u))
  PROVE  FoldLeft(FoldLoop, p, s) \in Loops /\ LoopRight(FoldLeft(FoldLoop, p, s), SaidOf(u \o s))
<1> DEFINE step == [a \in Loops \X E |-> FoldLoop(a[1], a[2])]
           isFold(g) == g = [t \in SUBSET DOMAIN s |->
                               IF t = {} THEN p ELSE FoldLoop(g[t \ {Max(t)}], s[Max(t)])]
           fold == CHOOSE g : isFold(g)
           R == {r \in Loops \X Seq(E) : LoopRight(r[1], SaidOf(r[2]))}
<1>1. FoldLeft(FoldLoop, p, s) = fold[DOMAIN s]
  BY DEF FoldLeft, MapThenFoldSet
<1>2. \A a \in Loops, x \in E : FoldLoop(a, x) \in Loops
  <2> SUFFICES ASSUME NEW a \in Loops, NEW x \in E PROVE FoldLoop(a, x) \in Loops
    OBVIOUS
  <2>1. CASE IsSaid(x)
    <3>1. EventOK(x)
      BY DEF EventsOK
    <3> QED
      BY <2>1, <3>1, LoopHears
  <2>2. CASE ~ IsSaid(x)
    BY <2>2, LoopOverhears
  <2> QED
    BY <2>1, <2>2
<1> HIDE DEF isFold, fold
<1>3. IsStep(step, Loops, E) /\ \A a \in Loops, x \in E : step[<<a, x>>] = FoldLoop(a, x)
  BY <1>2 DEF IsStep
<1>4. DOMAIN s = 1 .. Len(s) /\ Len(s) \in Nat /\ \A i \in 1 .. Len(s) : s[i] \in E
  BY LenProperties
<1>5. \A t \in SUBSET DOMAIN s : t # {} => Max(t) \in DOMAIN s /\ t \ {Max(t)} \in SUBSET DOMAIN s
  BY <1>4, MaxIs
<1> HIDE DEF step
<1>6. PICK h \in [SUBSET DOMAIN s -> Loops] : Folds(h, Loops, E, step, p, s)
  BY <1>3, FoldExists
<1>7. isFold(h)
  <2>1. \A t \in SUBSET DOMAIN s :
          h[t] = IF t = {} THEN p ELSE FoldLoop(h[t \ {Max(t)}], s[Max(t)])
    BY <1>3, <1>4, <1>5, <1>6 DEF Folds
  <2> QED
    BY <2>1 DEF isFold
<1>8. isFold(fold)
  BY <1>7 DEF fold
<1>9. Recurses(fold, Loops, step, p, s)
  <2>1. \A t \in SUBSET DOMAIN s :
          fold[t] = IF t = {} THEN p ELSE FoldLoop(fold[t \ {Max(t)}], s[Max(t)])
    BY <1>8 DEF isFold
  <2> QED
    BY <1>3, <1>4, <1>5, <2>1 DEF Recurses
<1>10. Keeps(R, Loops, E, step)
  <2> SUFFICES ASSUME NEW a \in Loops, NEW v \in Seq(E), NEW x \in E, LoopRight(a, SaidOf(v))
               PROVE  /\ step[<<a, x>>] \in Loops /\ Append(v, x) \in Seq(E)
                      /\ LoopRight(step[<<a, x>>], SaidOf(Append(v, x)))
    BY DEF Keeps
  <2>1. FoldLoop(a, x) \in Loops /\ LoopRight(FoldLoop(a, x), SaidOf(Append(v, x)))
    BY LoopStep
  <2> QED
    BY <1>3, <2>1
<1>11. <<p, u>> \in R
  OBVIOUS
<1>12. fold[DOMAIN s] \in Loops /\ <<fold[DOMAIN s], u \o s>> \in R
  <2> HIDE DEF R
  <2> QED
    BY <1>3, <1>9, <1>10, <1>11, FoldKeeps
<1> QED
  BY <1>1, <1>12

\* The events so far, each of them one that the collectors can take.
EventsInv ==
  /\ alphabet \in Files /\ IsSeq(told) /\ IsSeq(file)
  /\ \A i \in DOMAIN told : EventOK(told[i].event)

LEMMA EventsAreSeq ==
  ASSUME EventsInv
  PROVE  IsSeq(Events) /\ EventsOK(Range(Events))
<1>1. DOMAIN told = 1 .. Len(told) /\ Len(told) \in Nat
  BY SeqIs DEF EventsInv
<1>2. PICK s : s = Events
  OBVIOUS
<1>3. DOMAIN s = 1 .. Len(told) /\ s = [i \in 1 .. Len(told) |-> s[i]]
  BY <1>1, <1>2 DEF Events
<1>4. IsSeq(s)
  BY <1>1, <1>3, IsSeqIf
<1>5. \A i \in DOMAIN s : EventOK(s[i])
  BY <1>1, <1>2, <1>3 DEF EventsInv, Events
<1> QED
  BY <1>2, <1>4, <1>5 DEF EventsOK, Range

\* What the session has told grows by what the line yields.
LEMMA EventsGrow ==
  ASSUME EventsInv, NEW l \in alphabet, IngestLine(l)
  PROVE  /\ EventsInv' /\ Events' = Events \o Yields(l)
         /\ \E E : EventsOK(E) /\ Events \in Seq(E) /\ Yields(l) \in Seq(E)
<1> DEFINE events == Yields(l)
           new == [i \in DOMAIN events |-> [event |-> events[i], line |-> Len(file) + 1]]
<1>1. LineOK(l)
  BY LinesAreOK DEF EventsInv
<1>2. IsSeq(events) /\ \A i \in DOMAIN events : EventOK(events[i])
  BY <1>1, YieldsAre
<1>3. told' = told \o new /\ file' = Append(file, l) /\ alphabet' = alphabet
  BY DEF IngestLine
<1>4. IsSeq(file')
  BY <1>3, IsSeqAppend DEF EventsInv
<1> HIDE DEF events
<1>5. DOMAIN events = 1 .. Len(events) /\ Len(events) \in Nat /\ events = [i \in 1 .. Len(events) |-> events[i]]
  BY <1>2, SeqIs
<1>6. PICK s : s = new
  OBVIOUS
<1>7. DOMAIN s = 1 .. Len(events) /\ s = [i \in 1 .. Len(events) |-> s[i]]
      /\ \A i \in 1 .. Len(events) : s[i].event = events[i]
  BY <1>5, <1>6
<1>8. IsSeq(s) /\ Len(s) = Len(events)
  BY <1>5, <1>7, IsSeqIf
<1>9. PICK u : u = told \o s
  OBVIOUS
<1>10. /\ IsSeq(u) /\ Len(u) = Len(told) + Len(s)
       /\ \A i \in 1 .. Len(told) : u[i] = told[i]
       /\ \A i \in 1 .. Len(s) : u[Len(told) + i] = s[i]
       /\ \A i \in DOMAIN u : i \in 1 .. Len(told) \/ i - Len(told) \in 1 .. Len(s)
  <2>1. /\ IsSeq(told \o s) /\ Len(told \o s) = Len(told) + Len(s)
        /\ \A i \in 1 .. Len(told) : (told \o s)[i] = told[i]
        /\ \A i \in 1 .. Len(s) : (told \o s)[Len(told) + i] = s[i]
        /\ \A i \in DOMAIN (told \o s) : i \in 1 .. Len(told) \/ i - Len(told) \in 1 .. Len(s)
    BY <1>8, IsSeqConcat DEF EventsInv
  <2> QED
    BY <1>9, <2>1
<1>11. told' = u
  BY <1>3, <1>6, <1>9
<1>12. DOMAIN told = 1 .. Len(told) /\ Len(told) \in Nat /\ DOMAIN u = 1 .. Len(told) + Len(s)
       /\ Len(s) \in Nat
  BY <1>5, <1>8, <1>10, SeqIs DEF EventsInv
<1>13. ASSUME NEW i \in DOMAIN u
       PROVE  \/ i \in DOMAIN told /\ u[i] = told[i]
              \/ i - Len(told) \in DOMAIN events /\ u[i].event = events[i - Len(told)]
  <2>1. CASE i \in 1 .. Len(told)
    BY <1>10, <1>12, <2>1
  <2>2. CASE i - Len(told) \in 1 .. Len(s)
    <3>1. PICK k \in 1 .. Len(s) : k = i - Len(told)
      BY <2>2
    <3>2. i = Len(told) + k
      BY <1>12, <3>1
    <3> QED
      BY <1>5, <1>7, <1>8, <1>10, <3>1, <3>2
  <2> QED
    BY <1>10, <2>1, <2>2
<1>14. \A i \in DOMAIN u : EventOK(u[i].event)
  BY <1>2, <1>13 DEF EventsInv
<1>15. EventsInv'
  BY <1>3, <1>4, <1>10, <1>11, <1>14 DEF EventsInv
<1>16. IsSeq(Events) /\ EventsOK(Range(Events))
  BY EventsAreSeq
<1>17. PICK v : v = Events
  OBVIOUS
<1>18. /\ DOMAIN v = 1 .. Len(told) /\ \A i \in 1 .. Len(told) : v[i] = told[i].event
       /\ Len(v) = Len(told)
  <2>1. DOMAIN v = 1 .. Len(told) /\ \A i \in 1 .. Len(told) : v[i] = told[i].event
    BY <1>12, <1>17 DEF Events
  <2>2. DOMAIN v = 1 .. Len(v) /\ Len(v) \in Nat
    BY <1>16, <1>17, SeqIs
  <2>3. Len(v) = Len(told)
    BY <1>12, <2>1, <2>2
  <2> QED
    BY <2>1, <2>3
<1>19. PICK w : w = v \o events
  OBVIOUS
<1>20. /\ IsSeq(w) /\ Len(w) = Len(told) + Len(events)
       /\ \A i \in 1 .. Len(told) : w[i] = v[i]
       /\ \A i \in 1 .. Len(events) : w[Len(told) + i] = events[i]
  <2>1. /\ IsSeq(v \o events) /\ Len(v \o events) = Len(v) + Len(events)
        /\ \A i \in 1 .. Len(v) : (v \o events)[i] = v[i]
        /\ \A i \in 1 .. Len(events) : (v \o events)[Len(v) + i] = events[i]
    BY <1>2, <1>16, <1>17, IsSeqConcat
  <2> QED
    BY <1>18, <1>19, <2>1
<1>21. DOMAIN w = DOMAIN u /\ w = [i \in DOMAIN u |-> w[i]]
  <2>1. DOMAIN w = 1 .. Len(w) /\ w = [i \in 1 .. Len(w) |-> w[i]]
    BY <1>20, SeqIs
  <2> QED
    BY <1>8, <1>12, <1>20, <2>1
<1>22. \A i \in DOMAIN u : w[i] = u[i].event
  <2> SUFFICES ASSUME NEW i \in DOMAIN u PROVE w[i] = u[i].event
    OBVIOUS
  <2>1. CASE i \in 1 .. Len(told)
    BY <1>10, <1>18, <1>20, <2>1
  <2>2. CASE i \notin 1 .. Len(told)
    <3>1. PICK k \in 1 .. Len(s) : k = i - Len(told)
      BY <1>10, <2>2
    <3>2. i = Len(told) + k
      BY <1>12, <3>1
    <3>3. u[Len(told) + k] = s[k] /\ s[k].event = events[k]
      BY <1>7, <1>8, <1>10
    <3>4. w[Len(told) + k] = events[k]
      BY <1>8, <1>20
    <3> QED
      BY <3>2, <3>3, <3>4
  <2> QED
    BY <2>1, <2>2
<1>23. Events' = w
  <2>1. Events' = [i \in DOMAIN u |-> u[i].event]
    BY <1>11 DEF Events
  <2> QED
    BY <1>21, <1>22, <2>1
<1>24. PICK E : E = Range(v) \cup Range(events)
  OBVIOUS
<1>25. EventsOK(E)
  <2>1. EventsOK(Range(events))
    BY <1>2 DEF EventsOK, Range
  <2> QED
    BY <1>16, <1>17, <1>24, <2>1 DEF EventsOK
<1>26. v \in Seq(E) /\ events \in Seq(E)
  <2>1. v = [i \in 1 .. Len(v) |-> v[i]] /\ Len(v) \in Nat /\ DOMAIN v = 1 .. Len(v)
        /\ \A i \in DOMAIN v : v[i] \in E
    BY <1>16, <1>17, <1>24, SeqIs
  <2>2. events = [i \in 1 .. Len(events) |-> events[i]] /\ Len(events) \in Nat /\ DOMAIN events = 1 .. Len(events)
        /\ \A i \in DOMAIN events : events[i] \in E
    BY <1>2, <1>24, SeqIs
  <2> QED
    BY <2>1, <2>2
<1> QED
  BY <1>15, <1>17, <1>19, <1>23, <1>25, <1>26 DEF events

\* reasoning_loop holds the last run of matched messages, and the longest.
LoopInv == loop \in Loops /\ LoopRight(loop, Said)

LEMMA LoopIngests ==
  ASSUME EventsInv, LoopInv, NEW l \in alphabet, IngestLine(l)
  PROVE  LoopInv'
<1>1. PICK E : EventsOK(E) /\ Events \in Seq(E) /\ Yields(l) \in Seq(E)
  BY EventsGrow
<1>2. PICK u \in Seq(E) : u = Events
  BY <1>1
<1>3. PICK s \in Seq(E) : s = Yields(l)
  BY <1>1
<1>4. loop \in Loops /\ LoopRight(loop, SaidOf(u))
  BY <1>2 DEF LoopInv, Said
<1>5. /\ FoldLeft(FoldLoop, loop, s) \in Loops
      /\ LoopRight(FoldLeft(FoldLoop, loop, s), SaidOf(u \o s))
  BY <1>1, <1>4, LoopFolds
<1>6. loop' = FoldLeft(FoldLoop, loop, s)
  BY <1>3 DEF IngestLine
<1>7. Events' = u \o s
  BY <1>2, <1>3, EventsGrow
<1>8. Said' = SaidOf(u \o s)
  <2>1. Said' = SaidOf(Events')
    BY DEF Said
  <2> QED
    BY <1>7, <2>1
<1> QED
  BY <1>5, <1>6, <1>8 DEF LoopInv, LoopRight, TrailIs, Bursts

LEMMA NothingSaid == \A v : v = <<>> => SaidOf(v) = <<>> /\ CallsOf(v) = <<>>
  BY OnlyEmpty DEF SaidOf, CallsOf, Filtered

LEMMA EventsStart == Init => EventsInv /\ Events = <<>>
<1> SUFFICES ASSUME Init PROVE EventsInv /\ Events = <<>>
  OBVIOUS
<1>1. DOMAIN told = {} /\ IsSeq(told) /\ IsSeq(file)
  BY EmptyIs DEF Init
<1>2. Events = [i \in {} |-> told[i].event]
  BY <1>1 DEF Events
<1>3. PICK s : s = <<>>
  OBVIOUS
<1>4. [i \in {} |-> told[i].event] = s
  <2>1. DOMAIN s = {} /\ s = [i \in 1 .. Len(s) |-> s[i]] /\ DOMAIN s = 1 .. Len(s)
    BY <1>3, EmptyIs, SeqIs
  <2> QED
    BY <2>1
<1> QED
  BY <1>1, <1>2, <1>3, <1>4 DEF Init, EventsInv

LEMMA LoopStart == Init => LoopInv
<1> SUFFICES ASSUME Init PROVE LoopInv
  OBVIOUS
<1>1. Said = <<>>
  BY EventsStart, NothingSaid DEF Said
<1>2. loop \in Loops /\ loop.burst = 0 /\ loop.maxBurst = 0
  BY DEF Init, NewLoop, Loops
<1>3. PICK s : s = Said /\ Len(s) = 0
  BY <1>1, EmptyIs
<1>4. TrailIs(0, s) /\ IsMost(0, Bursts(s))
  BY <1>3 DEF TrailIs, IsMost, Bursts
<1> QED
  BY <1>2, <1>3, <1>4 DEF LoopInv, LoopRight

LEMMA EventsStay ==
  ASSUME EventsInv, \/ \E size \in Sizes : Resume(size)
                    \/ Evict
                    \/ UNCHANGED vars
  PROVE  EventsInv' /\ Events' = Events
<1>1. told' = told /\ file' = file /\ alphabet' = alphabet
  BY DEF Resume, Evict, vars, history
<1> QED
  BY <1>1 DEF EventsInv, Events

LEMMA LoopSteps ==
  ASSUME EventsInv, LoopInv, [Next]_vars
  PROVE  EventsInv' /\ LoopInv'
<1>1. CASE \E l \in alphabet : IngestLine(l)
  BY <1>1, LoopIngests, EventsGrow
<1>2. CASE (\E size \in Sizes : Resume(size)) \/ Evict \/ UNCHANGED vars
  <2>1. EventsInv' /\ Events' = Events
    BY <1>2, EventsStay
  <2>2. RestoredLoop(loop) = loop
    BY DEF RestoredLoop, LoopInv, Loops
  <2>3. loop' = loop
    BY <1>2, <2>2 DEF Resume, Evict, vars, collectors
  <2>4. Said' = Said
    BY <2>1 DEF Said
  <2> QED
    BY <2>1, <2>3, <2>4 DEF LoopInv
<1> QED
  BY <1>1, <1>2 DEF Next

LEMMA LoopTells == LoopInv /\ EventsInv => MaxBurstIsLongest
<1> SUFFICES ASSUME LoopInv, EventsInv PROVE MaxBurstIsLongest
  OBVIOUS
<1>1. loop.maxBurst \in Nat /\ loop.matches \in Nat /\ loop.calls \in Nat
  BY DEF LoopInv, Loops
<1>2. IsMost(loop.maxBurst, Bursts(Said))
  BY DEF LoopInv, LoopRight
<1>3. PICK E : EventsOK(E) /\ Events \in Seq(E)
  BY EventsAreSeq DEF IsSeq
<1>4. Said \in Seq(E)
  <2>1. Only(Events, {x \in Range(Events) : IsSaid(x)}) \in Seq(E \cap {x \in Range(Events) : IsSaid(x)})
    BY <1>3, OnlyType
  <2> QED
    BY <2>1, SaidIs DEF Said
<1>5. Bursts(Said) \in SUBSET Nat
  BY <1>4 DEF Bursts
<1>6. loop.maxBurst = Most(Bursts(Said))
  BY <1>1, <1>2, <1>5, MostIs
<1>7. ASSUME loop.matches = 0, LoopWarn > 0, LoopCritical > 0
      PROVE  LoopSeverity(loop) = "OK"
  <2> DEFINE per == IF loop.calls = 0 THEN 1 ELSE loop.calls
  <2>1. per \in Nat /\ per > 0
    BY <1>1
  <2>2. \A a, b \in Nat : a > 0 /\ b > 0 => a * b > 0 /\ a * b \in Nat
    OBVIOUS
  <2>3. LoopWarn * per > 0 /\ LoopCritical * per > 0 /\ loop.matches * 1000 = 0
        /\ LoopWarn * per \in Nat /\ LoopCritical * per \in Nat
    BY <1>7, <2>1, <2>2, CollectorsAssumption
  <2>4. ~ (loop.matches * 1000 >= LoopWarn * per) /\ ~ (loop.matches * 1000 >= LoopCritical * per)
    BY <2>3
  <2> QED
    BY <2>4 DEF LoopSeverity
<1> QED
  BY <1>1, <1>6, <1>7 DEF MaxBurstIsLongest

\* MaxBurstIsLongest: the burst that reasoning_loop reports is the longest run
\* of matched messages of the session, calls and restarts between them or not
\* (reasoning_loop.py:82); it is OK as long as nothing matched.
THEOREM BurstsAreWhole == Spec => []MaxBurstIsLongest
<1>1. Init => EventsInv /\ LoopInv
  BY EventsStart, LoopStart
<1>2. EventsInv /\ LoopInv /\ [Next]_vars => (EventsInv /\ LoopInv)'
  BY LoopSteps
<1>3. EventsInv /\ LoopInv => MaxBurstIsLongest
  BY LoopTells
<1> QED
  BY <1>1, <1>2, <1>3, PTL DEF Spec

---------------------------------------------------------------------------
(* The window and the blind mutations of read_edit_ratio                   *)

LastSeens(P) == UNION {[D -> Nat] : D \in SUBSET P}
Ratios(P) ==
  [size : Nat \ {0}, window : Seq(Categories), counts : [Categories -> Int], index : Nat,
   lastSeen : LastSeens(P), mutations : Nat, withPath : Nat, blind : Nat, writes : Nat, edits : Nat]
Paths(E) == {e.payload.path : e \in E}

LEMMA ClassifyType == \A tool : Classify(tool) \in Categories
  BY DEF Classify, Categories

\* What the window and its counts are once a call has slid in.
SlidWindow(r, c) == Append(IF Len(r.window) = r.size THEN Tail(r.window) ELSE r.window, c)
SlidCounts(r, c) ==
  LET gone == IF Len(r.window) = r.size THEN [r.counts EXCEPT ![Head(r.window)] = @ - 1] ELSE r.counts
  IN [gone EXCEPT ![c] = @ + 1]

LEMMA SlidType ==
  ASSUME NEW P, NEW r \in Ratios(P), NEW c \in Categories
  PROVE  /\ Slid(r, c) \in Ratios(P)
         /\ Slid(r, c) = [r EXCEPT !.window = SlidWindow(r, c), !.counts = SlidCounts(r, c),
                                   !.index = r.index + 1]
<1>1. /\ r.window \in Seq(Categories) /\ r.size \in Nat \ {0} /\ r.counts \in [Categories -> Int]
      /\ r.index + 1 \in Nat
  BY DEF Ratios
<1>2. Len(r.window) = r.size => Tail(r.window) \in Seq(Categories) /\ Head(r.window) \in Categories
  <2>1. PICK w \in Seq(Categories) : w = r.window
    BY <1>1
  <2>2. Len(w) = r.size => w # <<>>
    BY <1>1
  <2> QED
    BY <2>1, <2>2
<1>3. SlidWindow(r, c) \in Seq(Categories)
  BY <1>1, <1>2 DEF SlidWindow
<1>4. SlidCounts(r, c) \in [Categories -> Int]
  BY <1>1, <1>2 DEF SlidCounts
<1>5. Slid(r, c) = [r EXCEPT !.window = SlidWindow(r, c), !.counts = SlidCounts(r, c),
                             !.index = r.index + 1]
  BY DEF Slid, SlidWindow, SlidCounts
<1>6. PICK w \in Seq(Categories) : w = SlidWindow(r, c)
  BY <1>3
<1>7. PICK k \in [Categories -> Int] : k = SlidCounts(r, c)
  BY <1>4
<1>8. PICK i \in Nat : i = r.index + 1
  BY <1>1
<1>9. [r EXCEPT !.window = w, !.counts = k, !.index = i] \in Ratios(P)
  BY DEF Ratios
<1> QED
  BY <1>5, <1>6, <1>7, <1>8, <1>9

LEMMA SlidIs ==
  ASSUME NEW P, NEW r \in Ratios(P), NEW c \in Categories
  PROVE  LET q == Slid(r, c)
         IN /\ q \in Ratios(P) /\ q.size = r.size /\ q.window = SlidWindow(r, c)
            /\ q.counts = SlidCounts(r, c) /\ q.index = r.index + 1
            /\ q.lastSeen = r.lastSeen /\ q.blind = r.blind
<1>1. PICK w, k, i : w = SlidWindow(r, c) /\ k = SlidCounts(r, c) /\ i = r.index + 1
  OBVIOUS
<1>2. PICK q : q = [r EXCEPT !.window = w, !.counts = k, !.index = i]
  OBVIOUS
<1>3. /\ q.size = r.size /\ q.window = w /\ q.counts = k /\ q.index = i
      /\ q.lastSeen = r.lastSeen /\ q.blind = r.blind
  BY <1>2 DEF Ratios
<1>4. q = Slid(r, c) /\ q \in Ratios(P)
  <2>1. /\ Slid(r, c) \in Ratios(P)
        /\ Slid(r, c) = [r EXCEPT !.window = SlidWindow(r, c), !.counts = SlidCounts(r, c),
                                  !.index = r.index + 1]
    BY SlidType
  <2>2. q = [r EXCEPT !.window = SlidWindow(r, c), !.counts = SlidCounts(r, c), !.index = r.index + 1]
    BY <1>1, <1>2, Zenon
  <2> QED
    BY <2>1, <2>2
<1> QED
  BY <1>1, <1>3, <1>4

LEMMA MutatedIs ==
  ASSUME NEW P, NEW r \in Ratios(P), NEW tool, NEW path
  PROVE  LET q == Mutated(r, tool, path)
         IN /\ q \in Ratios(P) /\ q.size = r.size /\ q.window = r.window
            /\ q.counts = r.counts /\ q.index = r.index /\ q.lastSeen = r.lastSeen
            /\ q.blind = IF path # None /\ IsBlind(r, path) THEN r.blind + 1 ELSE r.blind
<1>1. PICK w, e, m, h, b :
        /\ m = r.mutations + 1 /\ w = (IF tool = "write" THEN r.writes + 1 ELSE r.writes)
        /\ e = (IF tool # "write" THEN r.edits + 1 ELSE r.edits)
        /\ h = (IF path # None THEN r.withPath + 1 ELSE r.withPath)
        /\ b = (IF path # None /\ IsBlind(r, path) THEN r.blind + 1 ELSE r.blind)
  OBVIOUS
<1>2. w \in Nat /\ e \in Nat /\ m \in Nat /\ h \in Nat /\ b \in Nat
  <2>1. /\ r.mutations \in Nat /\ r.writes \in Nat /\ r.edits \in Nat /\ r.withPath \in Nat
        /\ r.blind \in Nat
    BY DEF Ratios
  <2> QED
    BY <1>1, <2>1
<1>3. PICK q : q = [r EXCEPT !.mutations = m, !.writes = w, !.edits = e, !.withPath = h, !.blind = b]
  OBVIOUS
<1>4. /\ q.size = r.size /\ q.window = r.window /\ q.counts = r.counts /\ q.index = r.index
      /\ q.lastSeen = r.lastSeen /\ q.blind = b
  BY <1>3 DEF Ratios
<1>5. q \in Ratios(P)
  BY <1>2, <1>3 DEF Ratios
<1>6. q = Mutated(r, tool, path)
  BY <1>1, <1>3 DEF Mutated
<1> QED
  BY <1>1, <1>4, <1>5, <1>6

LEMMA SeenIs ==
  ASSUME NEW P, NEW r \in Ratios(P), NEW path \in P
  PROVE  LET q == [r EXCEPT !.lastSeen = Put(r.lastSeen, path, r.index)]
         IN /\ q \in Ratios(P) /\ q.size = r.size /\ q.window = r.window
            /\ q.counts = r.counts /\ q.index = r.index
            /\ q.lastSeen = Put(r.lastSeen, path, r.index) /\ q.blind = r.blind
<1>1. r.lastSeen \in LastSeens(P) /\ r.index \in Nat
  BY DEF Ratios
<1>2. PICK D \in SUBSET P : r.lastSeen \in [D -> Nat]
  BY <1>1 DEF LastSeens
<1>3. PICK f : f = Put(r.lastSeen, path, r.index)
  OBVIOUS
<1>4. f \in [D \cup {path} -> Nat]
  BY <1>1, <1>2, <1>3 DEF Put
<1>5. f \in LastSeens(P)
  <2>1. D \cup {path} \in SUBSET P
    OBVIOUS
  <2> QED
    BY <1>4, <2>1 DEF LastSeens
<1>6. PICK q : q = [r EXCEPT !.lastSeen = f]
  OBVIOUS
<1>7. /\ q \in Ratios(P) /\ q.size = r.size /\ q.window = r.window
      /\ q.counts = r.counts /\ q.index = r.index /\ q.lastSeen = f /\ q.blind = r.blind
  BY <1>5, <1>6 DEF Ratios
<1> QED
  BY <1>3, <1>6, <1>7

LEMMA RatioCallIs ==
  ASSUME NEW P, NEW r \in Ratios(P), NEW tool, NEW path \in P
  PROVE  LET q == RatioCall(r, tool, path)
             c == Classify(tool)
             seen == c \in {"read", "research"} /\ path # None
             blind == /\ c = "mutation" /\ path # None
                      /\ \/ path \notin DOMAIN r.lastSeen
                         \/ (r.index + 1) - r.lastSeen[path] > BlindWindow
         IN /\ q \in Ratios(P) /\ q.size = r.size /\ q.window = SlidWindow(r, c)
            /\ q.counts = SlidCounts(r, c) /\ q.index = r.index + 1
            /\ q.lastSeen = IF seen THEN Put(r.lastSeen, path, r.index + 1) ELSE r.lastSeen
            /\ q.blind = IF blind THEN r.blind + 1 ELSE r.blind
<1>1. PICK c \in Categories : c = Classify(tool)
  BY ClassifyType
<1>2. PICK s : s = Slid(r, c)
  OBVIOUS
<1>3. /\ s \in Ratios(P) /\ s.size = r.size /\ s.window = SlidWindow(r, c)
      /\ s.counts = SlidCounts(r, c) /\ s.index = r.index + 1
      /\ s.lastSeen = r.lastSeen /\ s.blind = r.blind
  BY <1>2, SlidIs
<1>4. CASE c = "mutation"
  <2>1. RatioCall(r, tool, path) = Mutated(s, tool, path)
    BY <1>1, <1>2, <1>4 DEF RatioCall
  <2>2. PICK q : q = Mutated(s, tool, path)
    OBVIOUS
  <2>3. /\ q \in Ratios(P) /\ q.size = s.size /\ q.window = s.window
        /\ q.counts = s.counts /\ q.index = s.index /\ q.lastSeen = s.lastSeen
        /\ q.blind = IF path # None /\ IsBlind(s, path) THEN s.blind + 1 ELSE s.blind
    BY <1>3, <2>2, MutatedIs
  <2>4. IsBlind(s, path) <=> \/ path \notin DOMAIN r.lastSeen
                             \/ (r.index + 1) - r.lastSeen[path] > BlindWindow
    <3>1. s.lastSeen = r.lastSeen /\ s.index = r.index + 1
      BY <1>3
    <3> QED
      BY <3>1 DEF IsBlind
  <2> QED
    BY <1>1, <1>3, <1>4, <2>1, <2>2, <2>3, <2>4
<1>5. CASE c \in {"read", "research"} /\ path # None
  <2>1. RatioCall(r, tool, path) = [s EXCEPT !.lastSeen = Put(s.lastSeen, path, s.index)]
    BY <1>1, <1>2, <1>5 DEF RatioCall
  <2>2. PICK q : q = [s EXCEPT !.lastSeen = Put(s.lastSeen, path, s.index)]
    OBVIOUS
  <2>3. /\ q \in Ratios(P) /\ q.size = s.size /\ q.window = s.window
        /\ q.counts = s.counts /\ q.index = s.index
        /\ q.lastSeen = Put(s.lastSeen, path, s.index) /\ q.blind = s.blind
    BY <1>3, <2>2, SeenIs
  <2> QED
    BY <1>1, <1>3, <1>5, <2>1, <2>2, <2>3
<1>6. CASE ~ (c = "mutation") /\ ~ (c \in {"read", "research"} /\ path # None)
  <2>1. RatioCall(r, tool, path) = s
    BY <1>1, <1>2, <1>6 DEF RatioCall
  <2> QED
    BY <1>1, <1>3, <1>6, <2>1
<1> QED
  BY <1>4, <1>5, <1>6

IsCall(e) == e.kind = "TOOL_CALL"

LEMMA CallsAre == \A v : CallsOf(v) = Only(v, {x \in Range(v) : IsCall(x)})
  BY DEF CallsOf, Filtered, IsCall

LEMMA CallsAppend ==
  ASSUME NEW E, NEW v \in Seq(E), NEW e \in E
  PROVE  /\ CallsOf(v) \in Seq(E)
         /\ CallsOf(Append(v, e)) = IF IsCall(e) THEN Append(CallsOf(v), e) ELSE CallsOf(v)
<1> DEFINE A == {x \in Range(Append(v, e)) : IsCall(x)}
           B == {x \in Range(v) : IsCall(x)}
<1>1. /\ DOMAIN v = 1 .. Len(v) /\ Append(v, e) \in Seq(E) /\ Len(Append(v, e)) = Len(v) + 1
      /\ Len(v) \in Nat /\ DOMAIN Append(v, e) = 1 .. Len(v) + 1
      /\ \A i \in 1 .. Len(v) : Append(v, e)[i] = v[i]
      /\ Append(v, e)[Len(v) + 1] = e
  BY LenProperties, AppendProperties
<1>2. \A i \in 1 .. Len(v) : v[i] \in Range(v) /\ v[i] \in Range(Append(v, e))
  BY <1>1 DEF Range
<1>3. e \in Range(Append(v, e))
  BY <1>1 DEF Range
<1>4. (\A i \in 1 .. Len(v) : v[i] \in A <=> v[i] \in B) /\ (e \in A <=> IsCall(e))
  BY <1>2, <1>3
<1>5. CallsOf(Append(v, e)) = Only(Append(v, e), A) /\ CallsOf(v) = Only(v, B)
  BY CallsAre
<1> HIDE DEF A, B
<1>6. Only(Append(v, e), A) = IF e \in A THEN Append(Only(v, B), e) ELSE Only(v, B)
  BY <1>4, OnlyAppend
<1>7. Only(v, B) \in Seq(E \cap B)
  BY OnlyType
<1>8. CallsOf(v) \in Seq(E)
  BY <1>5, <1>7
<1> QED
  BY <1>4, <1>5, <1>6, <1>8

\* lastSeen has, of each path that was read or searched, the last call that did.
Looks(call, path) ==
  /\ Classify(call.payload.tool) \in {"read", "research"}
  /\ path # None /\ call.payload.path = path
Blinds(calls) == {i \in 1 .. Len(calls) : BlindCall(calls, i)}
SeenRight(r, calls) ==
  /\ r.index = Len(calls)
  /\ \A p \in DOMAIN r.lastSeen :
       r.lastSeen[p] \in 1 .. Len(calls) /\ Looks(calls[r.lastSeen[p]], p)
  /\ \A j \in 1 .. Len(calls) : \A p \in {calls[j].payload.path} :
       Looks(calls[j], p) => p \in DOMAIN r.lastSeen /\ j <= r.lastSeen[p]
  /\ r.blind = Cardinality(Blinds(calls))

\* The call that comes is blind if read_edit_ratio says so.
LEMMA BlindNow ==
  ASSUME NEW E, NEW calls \in Seq(E), NEW e \in E, NEW r, SeenRight(r, calls)
  PROVE  LET path == e.payload.path
         IN BlindCall(Append(calls, e), Len(calls) + 1) <=>
              /\ Classify(e.payload.tool) = "mutation" /\ path # None
              /\ \/ path \notin DOMAIN r.lastSeen
                 \/ (r.index + 1) - r.lastSeen[path] > BlindWindow
<1> DEFINE path == e.payload.path
           L == Len(calls)
<1>1. PICK u \in Seq(E) : u = Append(calls, e)
  <2>1. Append(calls, e) \in Seq(E)
    OBVIOUS
  <2> QED
    BY <2>1
<1>2. /\ L \in Nat /\ u[L + 1] = e /\ \A j \in 1 .. L : u[j] = calls[j]
  BY <1>1, LenProperties
<1>3. r.index = L
  BY DEF SeenRight
<1> HIDE DEF L
<1>4. ASSUME path # None,
             NEW j \in 1 .. L, (L + 1) - j <= BlindWindow,
             Classify(calls[j].payload.tool) \in {"read", "research"}, calls[j].payload.path = path
      PROVE  path \in DOMAIN r.lastSeen /\ ~ ((L + 1) - r.lastSeen[path] > BlindWindow)
  <2>1. Looks(calls[j], path)
    BY <1>4 DEF Looks
  <2>2. path \in DOMAIN r.lastSeen /\ j <= r.lastSeen[path] /\ r.lastSeen[path] \in 1 .. L
    BY <1>4, <2>1 DEF SeenRight, L
  <2> QED
    BY <1>2, <1>4, <2>2, CollectorsAssumption
<1>5. ASSUME path # None, path \in DOMAIN r.lastSeen, ~ ((L + 1) - r.lastSeen[path] > BlindWindow)
      PROVE  \E j \in 1 .. L :
               /\ (L + 1) - j <= BlindWindow
               /\ Classify(calls[j].payload.tool) \in {"read", "research"}
               /\ calls[j].payload.path = path
  <2>1. r.lastSeen[path] \in 1 .. L /\ Looks(calls[r.lastSeen[path]], path)
    BY <1>5 DEF SeenRight, L
  <2>2. (L + 1) - r.lastSeen[path] <= BlindWindow
    BY <1>2, <1>5, <2>1, CollectorsAssumption
  <2> QED
    BY <2>1, <2>2 DEF Looks
<1>6. BlindCall(u, L + 1) <=>
        /\ Classify(e.payload.tool) = "mutation" /\ path # None
        /\ ~ \E j \in 1 .. L :
               /\ (L + 1) - j <= BlindWindow
               /\ Classify(calls[j].payload.tool) \in {"read", "research"}
               /\ calls[j].payload.path = path
  <2>1. (L + 1) - 1 = L
    BY <1>2
  <2> QED
    BY <1>2, <2>1 DEF BlindCall
<1> HIDE DEF path
<1> QED
  BY <1>1, <1>3, <1>4, <1>5, <1>6 DEF L, path

LEMMA BlindsGrow ==
  ASSUME NEW E, NEW calls \in Seq(E), NEW e \in E
  PROVE  /\ Cardinality(Blinds(calls)) \in Nat
         /\ Cardinality(Blinds(Append(calls, e))) =
              IF BlindCall(Append(calls, e), Len(calls) + 1)
              THEN Cardinality(Blinds(calls)) + 1 ELSE Cardinality(Blinds(calls))
<1> DEFINE L == Len(calls)
<1>1. PICK u \in Seq(E) : u = Append(calls, e)
  <2>1. Append(calls, e) \in Seq(E)
    OBVIOUS
  <2> QED
    BY <2>1
<1>2. /\ L \in Nat /\ Len(u) = L + 1 /\ \A j \in 1 .. L : u[j] = calls[j]
  BY <1>1, LenProperties
<1>3. \A i \in 1 .. L : BlindCall(u, i) <=> BlindCall(calls, i)
  <2> SUFFICES ASSUME NEW i \in 1 .. L PROVE BlindCall(u, i) <=> BlindCall(calls, i)
    OBVIOUS
  <2>1. \A j \in 1 .. (i - 1) : j \in 1 .. L
    BY <1>2
  <2>2. \A j \in 1 .. (i - 1) : u[j] = calls[j]
    BY <1>2, <2>1
  <2>3. u[i] = calls[i]
    BY <1>2
  <2> QED
    BY <2>2, <2>3 DEF BlindCall
<1>4. \A i : i \in 1 .. L + 1 <=> i \in 1 .. L \/ i = L + 1
  BY <1>2
<1>5. L + 1 \notin 1 .. L
  BY <1>2
<1>6. Blinds(u) = IF BlindCall(u, L + 1) THEN Blinds(calls) \cup {L + 1} ELSE Blinds(calls)
  <2> HIDE DEF L
  <2> QED
    BY <1>2, <1>3, <1>4, <1>5 DEF Blinds, L
<1>7. IsFiniteSet(Blinds(calls)) /\ L + 1 \notin Blinds(calls)
  <2>1. Blinds(calls) \subseteq 1 .. L
    BY DEF Blinds
  <2>2. IsFiniteSet(1 .. L)
    BY <1>2, FS_Interval
  <2> QED
    BY <1>5, <2>1, <2>2, FS_Subset
<1>8. Cardinality(Blinds(calls)) \in Nat /\ Cardinality(Blinds(calls) \cup {L + 1}) = Cardinality(Blinds(calls)) + 1
  BY <1>7, FS_CardinalityType, FS_AddElement
<1> QED
  BY <1>1, <1>6, <1>8

LEMMA SeenStep ==
  ASSUME NEW P, NEW r \in Ratios(P), NEW E, NEW calls \in Seq(E), NEW e \in E,
         e.payload.path \in P, SeenRight(r, calls)
  PROVE  SeenRight(RatioCall(r, e.payload.tool, e.payload.path), Append(calls, e))
<1> DEFINE L == Len(calls)
           u == Append(calls, e)
           q == RatioCall(r, e.payload.tool, e.payload.path)
           c == Classify(e.payload.tool)
           blind == /\ c = "mutation" /\ e.payload.path # None
                    /\ \/ e.payload.path \notin DOMAIN r.lastSeen
                       \/ (r.index + 1) - r.lastSeen[e.payload.path] > BlindWindow
<1>0. PICK path \in P : path = e.payload.path
  OBVIOUS
<1> DEFINE seen == c \in {"read", "research"} /\ path # None
<1>1. /\ q.index = r.index + 1
      /\ q.lastSeen = IF seen THEN Put(r.lastSeen, path, r.index + 1) ELSE r.lastSeen
      /\ q.blind = IF blind THEN r.blind + 1 ELSE r.blind
  BY <1>0, RatioCallIs
<1>2. L \in Nat /\ Len(u) = L + 1 /\ u[L + 1] = e /\ \A j \in 1 .. L : u[j] = calls[j]
  BY LenProperties
<1>3. r.index = L /\ r.blind = Cardinality(Blinds(calls))
  BY DEF SeenRight
<1>4. BlindCall(u, L + 1) <=> blind
  BY BlindNow
<1>5. q.blind = Cardinality(Blinds(u))
  BY <1>1, <1>3, <1>4, BlindsGrow
<1>6. Looks(e, path) <=> seen
  BY <1>0 DEF Looks
<1> HIDE DEF L, u, q, c, blind, seen
<1>7. \A p \in DOMAIN r.lastSeen : r.lastSeen[p] \in 1 .. L /\ Looks(calls[r.lastSeen[p]], p)
  BY DEF SeenRight, L
<1>8. \A j \in 1 .. L : \A p \in {calls[j].payload.path} :
        Looks(calls[j], p) => p \in DOMAIN r.lastSeen /\ j <= r.lastSeen[p]
  BY DEF SeenRight, L
<1>9. ASSUME NEW p \in DOMAIN q.lastSeen
      PROVE  q.lastSeen[p] \in 1 .. L + 1 /\ Looks(u[q.lastSeen[p]], p)
  <2>1. CASE seen /\ p = path
    <3>1. q.lastSeen[p] = L + 1
      BY <1>1, <1>3, <1>9, <2>1 DEF Put
    <3> QED
      BY <1>2, <1>6, <2>1, <3>1
  <2>2. CASE ~ (seen /\ p = path)
    <3>1. p \in DOMAIN r.lastSeen /\ q.lastSeen[p] = r.lastSeen[p]
      BY <1>1, <1>9, <2>2 DEF Put
    <3>2. r.lastSeen[p] \in 1 .. L /\ Looks(calls[r.lastSeen[p]], p)
      BY <1>7, <3>1
    <3> QED
      BY <1>2, <3>1, <3>2
  <2> QED
    BY <2>1, <2>2
<1>10. ASSUME NEW j \in 1 .. L + 1, NEW p \in {u[j].payload.path}, Looks(u[j], p)
       PROVE  p \in DOMAIN q.lastSeen /\ j <= q.lastSeen[p]
  <2>1. CASE seen /\ p = path
    <3>1. p \in DOMAIN q.lastSeen /\ q.lastSeen[p] = L + 1
      BY <1>1, <1>3, <2>1 DEF Put
    <3> QED
      BY <1>2, <3>1
  <2>2. CASE ~ (seen /\ p = path)
    <3>1. j # L + 1
      BY <1>0, <1>2, <1>6, <1>10, <2>2 DEF Looks
    <3>2. j \in 1 .. L /\ u[j] = calls[j]
      BY <1>2, <3>1
    <3>3. p \in DOMAIN r.lastSeen /\ j <= r.lastSeen[p]
      BY <1>8, <1>10, <3>2
    <3>4. p \in DOMAIN q.lastSeen /\ q.lastSeen[p] = r.lastSeen[p]
      BY <1>1, <2>2, <3>3 DEF Put
    <3> QED
      BY <3>3, <3>4
  <2> QED
    BY <2>1, <2>2
<1>11. SeenRight(q, u)
  BY <1>1, <1>2, <1>3, <1>5, <1>9, <1>10 DEF SeenRight
<1> QED
  BY <1>11 DEF q, u

\* The window has the last calls, and without a smaller window its counts.
Newest(w, calls) ==
  /\ Len(w) <= Len(calls)
  /\ \A i \in 1 .. Len(w) : w[i] = Classify(calls[(Len(calls) - Len(w)) + i].payload.tool)
CountsRight(counts, w) == \A c \in Categories : counts[c] = CountIn(w, {c})
WindowRight(r, calls) ==
  /\ Newest(r.window, calls) /\ Len(r.window) <= r.size
  /\ ~shrunk => CountsRight(r.counts, r.window)
  /\ resumes = 0 => Len(r.window) = IF Len(calls) > r.size THEN r.size ELSE Len(calls)

LEMMA CountFinite ==
  ASSUME NEW T, NEW w \in Seq(T), NEW S
  PROVE  IsFiniteSet({i \in DOMAIN w : w[i] \in S}) /\ CountIn(w, S) \in Nat
<1>1. DOMAIN w = 1 .. Len(w) /\ Len(w) \in Nat
  BY LenProperties
<1>2. IsFiniteSet(1 .. Len(w))
  BY <1>1, FS_Interval
<1>3. {i \in DOMAIN w : w[i] \in S} \subseteq 1 .. Len(w)
  BY <1>1
<1>4. IsFiniteSet({i \in DOMAIN w : w[i] \in S})
  BY <1>2, <1>3, FS_Subset
<1> QED
  BY <1>4, FS_CardinalityType DEF CountIn

LEMMA CountAppend ==
  ASSUME NEW T, NEW w \in Seq(T), NEW x \in T, NEW S
  PROVE  CountIn(Append(w, x), S) = IF x \in S THEN CountIn(w, S) + 1 ELSE CountIn(w, S)
<1> DEFINE n == Len(w)
           I == {i \in DOMAIN w : w[i] \in S}
<1>1. PICK u \in Seq(T) : u = Append(w, x)
  <2>1. Append(w, x) \in Seq(T)
    OBVIOUS
  <2> QED
    BY <2>1
<1>2. /\ n \in Nat /\ DOMAIN w = 1 .. n /\ DOMAIN u = 1 .. n + 1
      /\ u[n + 1] = x /\ \A i \in 1 .. n : u[i] = w[i]
  BY <1>1, LenProperties
<1> HIDE DEF n
<1>3. \A i : i \in 1 .. n + 1 <=> i \in 1 .. n \/ i = n + 1
  BY <1>2
<1>4. n + 1 \notin 1 .. n
  BY <1>2
<1>5. {i \in DOMAIN u : u[i] \in S} = IF x \in S THEN I \cup {n + 1} ELSE I
  BY <1>2, <1>3
<1>6. n + 1 \notin I /\ IsFiniteSet(I)
  BY <1>2, <1>4, CountFinite
<1> HIDE DEF I
<1>7. Cardinality(I \cup {n + 1}) = Cardinality(I) + 1
  BY <1>6, FS_AddElement
<1> QED
  BY <1>1, <1>5, <1>7 DEF CountIn, I

LEMMA CountTail ==
  ASSUME NEW T, NEW w \in Seq(T), w # <<>>, NEW S
  PROVE  CountIn(Tail(w), S) = IF Head(w) \in S THEN CountIn(w, S) - 1 ELSE CountIn(w, S)
<1> DEFINE n == Len(w)
           I == {i \in DOMAIN w : w[i] \in S}
<1>1. PICK u \in Seq(T) : u = Tail(w)
  <2>1. Tail(w) \in Seq(T)
    OBVIOUS
  <2> QED
    BY <2>1
<1>2. /\ n \in Nat /\ n > 0 /\ DOMAIN w = 1 .. n /\ DOMAIN u = 1 .. n - 1
      /\ Head(w) = w[1] /\ \A i \in 1 .. n - 1 : u[i] = w[i + 1]
  BY <1>1, LenProperties
<1> DEFINE J == {i \in DOMAIN u : u[i] \in S}
           b == [i \in J |-> i + 1]
<1> HIDE DEF n
<1>3. \A i \in 1 .. n - 1 : i + 1 \in 1 .. n /\ i + 1 # 1
  BY <1>2
<1>4. \A k \in 1 .. n : k # 1 => k - 1 \in 1 .. n - 1 /\ (k - 1) + 1 = k
  BY <1>2
<1>5. \A i \in J : i + 1 \in I \ {1}
  BY <1>2, <1>3
<1>6. \A k \in I \ {1} : k - 1 \in J /\ (k - 1) + 1 = k
  BY <1>2, <1>4
<1>7. \A i, k \in J : i + 1 = k + 1 => i = k
  BY <1>2
<1> HIDE DEF I, J
<1>8. b \in Bijection(J, I \ {1})
  BY <1>5, <1>6, <1>7 DEF Bijection, Injection, Surjection, IsInjective
<1>9. IsFiniteSet(I) /\ IsFiniteSet(J)
  BY CountFinite DEF I, J
<1>10. Cardinality(I \ {1}) = Cardinality(J)
  BY <1>8, <1>9, FS_Bijection DEF ExistsBijection
<1>11. Cardinality(I \ {1}) = IF 1 \in I THEN Cardinality(I) - 1 ELSE Cardinality(I)
  BY <1>9, FS_RemoveElement
<1>12. 1 \in I <=> Head(w) \in S
  BY <1>2 DEF I
<1> QED
  BY <1>1, <1>10, <1>11, <1>12 DEF CountIn, I, J

LEMMA CountsSlide ==
  ASSUME NEW P, NEW r \in Ratios(P), NEW c \in Categories, CountsRight(r.counts, r.window)
  PROVE  CountsRight(SlidCounts(r, c), SlidWindow(r, c))
<1>1. PICK w \in Seq(Categories) : w = r.window
  BY DEF Ratios
<1>2. PICK k \in [Categories -> Int] : k = r.counts
  BY DEF Ratios
<1>3. \A d \in Categories : k[d] = CountIn(w, {d})
  BY <1>1, <1>2 DEF CountsRight
<1>4. PICK full \in BOOLEAN : full = (Len(w) = r.size)
  OBVIOUS
<1>5. full => w # <<>>
  BY <1>1, <1>4 DEF Ratios
<1> DEFINE rest == IF full THEN Tail(w) ELSE w
           gone == IF full THEN [k EXCEPT ![Head(w)] = @ - 1] ELSE k
<1>6. rest \in Seq(Categories) /\ gone \in [Categories -> Int]
  <2>1. full => Tail(w) \in Seq(Categories) /\ Head(w) \in Categories
    BY <1>5
  <2> QED
    BY <2>1
<1>7. \A d \in Categories : gone[d] = CountIn(rest, {d})
  <2> SUFFICES ASSUME NEW d \in Categories, full PROVE gone[d] = CountIn(Tail(w), {d})
    BY <1>3
  <2>1. CountIn(Tail(w), {d}) = IF Head(w) \in {d} THEN CountIn(w, {d}) - 1 ELSE CountIn(w, {d})
    BY <1>5, CountTail
  <2> QED
    BY <1>3, <2>1
<1>8. SlidWindow(r, c) = Append(rest, c) /\ SlidCounts(r, c) = [gone EXCEPT ![c] = @ + 1]
  BY <1>1, <1>2, <1>4 DEF SlidWindow, SlidCounts
<1> HIDE DEF rest, gone
<1>9. \A d \in Categories : [gone EXCEPT ![c] = @ + 1][d] = CountIn(Append(rest, c), {d})
  <2> SUFFICES ASSUME NEW d \in Categories
               PROVE  [gone EXCEPT ![c] = @ + 1][d] = CountIn(Append(rest, c), {d})
    OBVIOUS
  <2>1. PICK v \in Seq(Categories) : v = rest
    BY <1>6
  <2>2. CountIn(Append(v, c), {d}) = IF c \in {d} THEN CountIn(v, {d}) + 1 ELSE CountIn(v, {d})
    BY CountAppend
  <2> QED
    BY <1>6, <1>7, <2>1, <2>2
<1> QED
  BY <1>8, <1>9 DEF CountsRight

LEMMA Shift ==
  ASSUME NEW L \in Nat, NEW n \in Nat, n <= L, NEW i \in 1 .. n
  PROVE  (L - n) + i \in 1 .. L
  OBVIOUS

LEMMA WindowStep ==
  ASSUME NEW P, NEW r \in Ratios(P), NEW E, NEW calls \in Seq(E), NEW e \in E,
         e.payload.path \in P, WindowRight(r, calls)
  PROVE  WindowRight(RatioCall(r, e.payload.tool, e.payload.path), Append(calls, e))
<1> DEFINE L == Len(calls)
           u == Append(calls, e)
           q == RatioCall(r, e.payload.tool, e.payload.path)
<1>0. PICK c \in Categories : c = Classify(e.payload.tool)
  BY ClassifyType
<1>1. /\ q.size = r.size /\ q.window = SlidWindow(r, c) /\ q.counts = SlidCounts(r, c)
  BY <1>0, RatioCallIs
<1>2. L \in Nat /\ Len(u) = L + 1 /\ u[L + 1] = e /\ \A j \in 1 .. L : u[j] = calls[j]
  BY LenProperties
<1>3. PICK w \in Seq(Categories) : w = r.window
  BY DEF Ratios
<1>4. r.size \in Nat /\ r.size > 0 /\ Len(w) <= r.size /\ Len(w) \in Nat /\ Len(w) <= L
  BY <1>3 DEF Ratios, WindowRight, Newest
<1>5. \A i \in 1 .. Len(w) : w[i] = Classify(calls[(L - Len(w)) + i].payload.tool)
  BY <1>3 DEF WindowRight, Newest
<1>6. PICK full \in BOOLEAN : full <=> Len(w) = r.size
  OBVIOUS
<1>7. full => w # <<>> /\ Len(w) = r.size /\ Len(w) - 1 \in Nat
  <2>1. Len(w) = r.size => w # <<>> /\ Len(w) - 1 \in Nat
    BY <1>4
  <2> QED
    BY <1>6, <2>1
<1>18. ~ full => Len(w) < r.size
  BY <1>4, <1>6
<1>8. PICK v \in Seq(Categories) : v = IF full THEN Tail(w) ELSE w
  <2>1. full => Tail(w) \in Seq(Categories)
    BY <1>7
  <2> QED
    BY <2>1
<1>9. /\ Len(v) = IF full THEN Len(w) - 1 ELSE Len(w)
      /\ \A i \in 1 .. Len(v) : v[i] = IF full THEN w[i + 1] ELSE w[i]
  BY <1>7, <1>8
<1>10. PICK x \in Seq(Categories) : x = Append(v, c)
  <2>1. Append(v, c) \in Seq(Categories)
    OBVIOUS
  <2> QED
    BY <2>1
<1>11. x = q.window /\ Len(x) = Len(v) + 1 /\ x[Len(v) + 1] = c /\ \A i \in 1 .. Len(v) : x[i] = v[i]
  <2>1. SlidWindow(r, c) = Append(v, c)
    BY <1>3, <1>6, <1>8 DEF SlidWindow
  <2> QED
    BY <1>1, <1>10, <2>1
<1> HIDE DEF L, u, q
<1>12. Len(v) \in Nat /\ Len(x) <= r.size /\ Len(x) <= L + 1
  BY <1>2, <1>4, <1>7, <1>9, <1>11, <1>18
<1>13. ASSUME NEW i \in 1 .. Len(x)
       PROVE  x[i] = Classify(u[((L + 1) - Len(x)) + i].payload.tool)
  <2>1. CASE i = Len(v) + 1
    <3>1. ((L + 1) - Len(x)) + i = L + 1
      BY <1>2, <1>11, <1>12, <2>1
    <3> QED
      BY <1>0, <1>2, <1>11, <2>1, <3>1
  <2>2. CASE i # Len(v) + 1
    <3>1. i \in 1 .. Len(v)
      BY <1>11, <1>12, <2>2
    <3>2. CASE full
      <4>1. Len(v) = Len(w) - 1 /\ Len(x) = Len(w)
        BY <1>4, <1>7, <1>9, <1>11, <3>2
      <4>2. i + 1 \in 1 .. Len(w)
        BY <1>4, <1>7, <3>1, <3>2, <4>1
      <4>3. ((L + 1) - Len(x)) + i = (L - Len(w)) + (i + 1)
        BY <1>2, <1>4, <4>1
      <4>4. PICK k \in 1 .. Len(w) : k = i + 1
        BY <4>2
      <4>5. (L - Len(w)) + k \in 1 .. L
        BY <1>2, <1>4, Shift
      <4>6. w[k] = Classify(calls[(L - Len(w)) + k].payload.tool)
        BY <1>5
      <4>7. x[i] = w[k]
        BY <1>9, <1>11, <3>1, <3>2, <4>4
      <4>8. u[(L - Len(w)) + k] = calls[(L - Len(w)) + k]
        BY <1>2, <4>5
      <4> QED
        BY <4>3, <4>4, <4>6, <4>7, <4>8
    <3>3. CASE ~ full
      <4>1. Len(v) = Len(w) /\ Len(x) = Len(w) + 1 /\ i \in 1 .. Len(w)
        BY <1>9, <1>11, <3>1, <3>3
      <4>2. ((L + 1) - Len(x)) + i = (L - Len(w)) + i
        BY <1>2, <1>4, <4>1
      <4>3. (L - Len(w)) + i \in 1 .. L
        BY <1>2, <1>4, <4>1, Shift
      <4>4. w[i] = Classify(calls[(L - Len(w)) + i].payload.tool)
        BY <1>5, <4>1
      <4>5. x[i] = w[i]
        BY <1>9, <1>11, <3>1, <3>3
      <4>6. u[(L - Len(w)) + i] = calls[(L - Len(w)) + i]
        BY <1>2, <4>3
      <4> QED
        BY <4>2, <4>4, <4>5, <4>6
    <3> QED
      BY <3>2, <3>3
  <2> QED
    BY <2>1, <2>2
<1>14. Newest(x, u)
  BY <1>2, <1>12, <1>13 DEF Newest
<1>15. ~shrunk => CountsRight(q.counts, q.window)
  BY <1>1, CountsSlide DEF WindowRight
<1>16. resumes = 0 => Len(x) = IF L + 1 > r.size THEN r.size ELSE L + 1
  <2>1. resumes = 0 => Len(w) = IF L > r.size THEN r.size ELSE L
    BY <1>3 DEF WindowRight, L
  <2> QED
    BY <1>2, <1>4, <1>7, <1>9, <1>11, <1>12, <1>18, <2>1
<1>17. WindowRight(q, u)
  BY <1>1, <1>2, <1>11, <1>12, <1>14, <1>15, <1>16 DEF WindowRight
<1> QED
  BY <1>17 DEF q, u

RatioRight(r, calls) == SeenRight(r, calls) /\ WindowRight(r, calls)

LEMMA RatioStep ==
  ASSUME NEW P, NEW E, Paths(E) \subseteq P, NEW v \in Seq(E), NEW e \in E, NEW r \in Ratios(P),
         RatioRight(r, CallsOf(v))
  PROVE  /\ FoldRatio(r, e) \in Ratios(P) /\ FoldRatio(r, e).size = r.size
         /\ RatioRight(FoldRatio(r, e), CallsOf(Append(v, e)))
<1>1. PICK calls \in Seq(E) : calls = CallsOf(v)
  BY CallsAppend
<1>2. CallsOf(Append(v, e)) = IF IsCall(e) THEN Append(calls, e) ELSE calls
  BY <1>1, CallsAppend
<1>3. CASE IsCall(e)
  <2>1. e.payload.path \in P
    BY DEF Paths
  <2>2. SeenRight(r, calls) /\ WindowRight(r, calls)
    BY <1>1 DEF RatioRight
  <2>3. SeenRight(RatioCall(r, e.payload.tool, e.payload.path), Append(calls, e))
    BY <2>1, <2>2, SeenStep
  <2>4. WindowRight(RatioCall(r, e.payload.tool, e.payload.path), Append(calls, e))
    BY <2>1, <2>2, WindowStep
  <2>5. /\ RatioCall(r, e.payload.tool, e.payload.path) \in Ratios(P)
        /\ RatioCall(r, e.payload.tool, e.payload.path).size = r.size
    <3>1. PICK path \in P : path = e.payload.path
      BY <2>1
    <3>2. \A tool : RatioCall(r, tool, path) \in Ratios(P) /\ RatioCall(r, tool, path).size = r.size
      BY RatioCallIs
    <3> QED
      BY <3>1, <3>2
  <2>6. FoldRatio(r, e) = RatioCall(r, e.payload.tool, e.payload.path)
    BY <1>3 DEF FoldRatio, IsCall
  <2> QED
    BY <1>2, <1>3, <2>3, <2>4, <2>5, <2>6 DEF RatioRight
<1>4. CASE ~ IsCall(e)
  BY <1>1, <1>2, <1>4 DEF FoldRatio, IsCall
<1> QED
  BY <1>3, <1>4

LEMMA RatioFolds ==
  ASSUME NEW P, NEW E, Paths(E) \subseteq P, NEW u \in Seq(E), NEW s \in Seq(E), NEW r \in Ratios(P),
         RatioRight(r, CallsOf(u))
  PROVE  LET q == FoldLeft(FoldRatio, r, s)
         IN q \in Ratios(P) /\ q.size = r.size /\ RatioRight(q, CallsOf(u \o s))
<1> DEFINE S == Ratios(P)
           step == [a \in S \X E |-> FoldRatio(a[1], a[2])]
           isFold(g) == g = [t \in SUBSET DOMAIN s |->
                               IF t = {} THEN r ELSE FoldRatio(g[t \ {Max(t)}], s[Max(t)])]
           fold == CHOOSE g : isFold(g)
           R == {a \in S \X Seq(E) : a[1].size = r.size /\ RatioRight(a[1], CallsOf(a[2]))}
<1>1. FoldLeft(FoldRatio, r, s) = fold[DOMAIN s]
  BY DEF FoldLeft, MapThenFoldSet
<1>2. \A a \in S, x \in E : FoldRatio(a, x) \in S
  <2> SUFFICES ASSUME NEW a \in S, NEW x \in E PROVE FoldRatio(a, x) \in S
    OBVIOUS
  <2>1. CASE IsCall(x)
    <3>1. PICK path \in P : path = x.payload.path
      BY DEF Paths
    <3>2. \A tool : RatioCall(a, tool, path) \in Ratios(P)
      BY RatioCallIs
    <3> QED
      BY <2>1, <3>1, <3>2 DEF FoldRatio, IsCall
  <2>2. CASE ~ IsCall(x)
    BY <2>2 DEF FoldRatio, IsCall
  <2> QED
    BY <2>1, <2>2
<1> HIDE DEF isFold, fold, S
<1>3. IsStep(step, S, E) /\ \A a \in S, x \in E : step[<<a, x>>] = FoldRatio(a, x)
  BY <1>2 DEF IsStep
<1>4. DOMAIN s = 1 .. Len(s) /\ Len(s) \in Nat /\ \A i \in 1 .. Len(s) : s[i] \in E
  BY LenProperties
<1>5. \A t \in SUBSET DOMAIN s : t # {} => Max(t) \in DOMAIN s /\ t \ {Max(t)} \in SUBSET DOMAIN s
  BY <1>4, MaxIs
<1>13. r \in S
  BY DEF S
<1> HIDE DEF step
<1>6. PICK h \in [SUBSET DOMAIN s -> S] : Folds(h, S, E, step, r, s)
  BY <1>3, <1>13, FoldExists
<1>7. isFold(h)
  <2>1. \A t \in SUBSET DOMAIN s :
          h[t] = IF t = {} THEN r ELSE FoldRatio(h[t \ {Max(t)}], s[Max(t)])
    BY <1>3, <1>4, <1>5, <1>6 DEF Folds
  <2> QED
    BY <2>1 DEF isFold
<1>8. isFold(fold)
  BY <1>7 DEF fold
<1>9. Recurses(fold, S, step, r, s)
  <2>1. \A t \in SUBSET DOMAIN s :
          fold[t] = IF t = {} THEN r ELSE FoldRatio(fold[t \ {Max(t)}], s[Max(t)])
    BY <1>8 DEF isFold
  <2> QED
    BY <1>3, <1>4, <1>5, <2>1 DEF Recurses
<1>10. Keeps(R, S, E, step)
  <2>1. ASSUME NEW a \in S, NEW v \in Seq(E), NEW x \in E, <<a, v>> \in R
        PROVE  <<step[<<a, x>>], Append(v, x)>> \in R
    <3>1. a.size = r.size /\ RatioRight(a, CallsOf(v))
      BY <2>1
    <3>2. /\ FoldRatio(a, x) \in S /\ FoldRatio(a, x).size = a.size
          /\ RatioRight(FoldRatio(a, x), CallsOf(Append(v, x)))
      BY <3>1, RatioStep DEF S
    <3>3. PICK b \in S : b = FoldRatio(a, x)
      BY <3>2
    <3>4. PICK y \in Seq(E) : y = Append(v, x)
      <4>1. Append(v, x) \in Seq(E)
        OBVIOUS
      <4> QED
        BY <4>1
    <3>5. b.size = r.size /\ RatioRight(b, CallsOf(y))
      BY <3>1, <3>2, <3>3, <3>4
    <3>6. <<b, y>> \in R
      BY <3>5
    <3> QED
      BY <1>3, <3>3, <3>4, <3>6
  <2> HIDE DEF R
  <2> QED
    BY <2>1 DEF Keeps
<1>11. <<r, u>> \in R
  BY <1>13
<1>12. fold[DOMAIN s] \in S /\ <<fold[DOMAIN s], u \o s>> \in R
  <2> HIDE DEF R
  <2> QED
    BY <1>3, <1>9, <1>10, <1>11, <1>13, FoldKeeps
<1> QED
  BY <1>1, <1>12 DEF S

LEMMA RatiosGrow ==
  ASSUME NEW P, NEW Q, P \subseteq Q
  PROVE  Ratios(P) \subseteq Ratios(Q)
<1>1. LastSeens(P) \subseteq LastSeens(Q)
  BY DEF LastSeens
<1> QED
  BY <1>1 DEF Ratios

\* read_edit_ratio remembers the calls of the whole session.
RatioInv ==
  /\ \E P : ratio \in Ratios(P)
  /\ ratio.size \in Sizes /\ resumes \in Nat
  /\ RatioRight(ratio, Calls)

LEMMA RatioIngests ==
  ASSUME EventsInv, RatioInv, NEW l \in alphabet, IngestLine(l)
  PROVE  RatioInv'
<1>1. PICK E : EventsOK(E) /\ Events \in Seq(E) /\ Yields(l) \in Seq(E)
  BY EventsGrow
<1>2. PICK u \in Seq(E) : u = Events
  BY <1>1
<1>3. PICK s \in Seq(E) : s = Yields(l)
  BY <1>1
<1>4. PICK Q : ratio \in Ratios(Q)
  BY DEF RatioInv
<1>5. PICK P : P = Q \cup Paths(E)
  OBVIOUS
<1>6. ratio \in Ratios(P) /\ Paths(E) \subseteq P
  BY <1>4, <1>5, RatiosGrow
<1>7. RatioRight(ratio, CallsOf(u))
  BY <1>2 DEF RatioInv, Calls
<1>8. PICK q : q = FoldLeft(FoldRatio, ratio, s)
  OBVIOUS
<1>9. q \in Ratios(P) /\ q.size = ratio.size /\ RatioRight(q, CallsOf(u \o s))
  BY <1>6, <1>7, <1>8, RatioFolds
<1>10. ratio' = q /\ shrunk' = shrunk /\ resumes' = resumes
  BY <1>3, <1>8 DEF IngestLine
<1>11. Calls' = CallsOf(u \o s)
  <2>1. Calls' = CallsOf(Events')
    BY DEF Calls
  <2> QED
    BY <1>2, <1>3, <2>1, EventsGrow
<1>12. RatioRight(ratio, Calls)'
  BY <1>9, <1>10, <1>11 DEF RatioRight, SeenRight, WindowRight
<1> QED
  BY <1>9, <1>10, <1>12 DEF RatioInv

LEMMA LastOfIs ==
  ASSUME NEW T, NEW w \in Seq(T), NEW n \in Nat
  PROVE  LET v == LastOf(w, n)
         IN /\ v \in Seq(T) /\ Len(v) = IF Len(w) > n THEN n ELSE Len(w)
            /\ \A i \in 1 .. Len(v) : v[i] = w[(Len(w) - Len(v)) + i]
            /\ Len(w) <= n => v = w
<1> DEFINE first == IF Len(w) > n THEN Len(w) - n + 1 ELSE 1
<1>1. Len(w) \in Nat /\ DOMAIN w = 1 .. Len(w)
  BY LenProperties
<1>2. first \in 1 .. Len(w) + 1 /\ first \in Nat
  BY <1>1
<1>3. /\ SubSeq(w, first, Len(w)) \in Seq(T)
      /\ Len(SubSeq(w, first, Len(w))) = (Len(w) - first) + 1
      /\ \A i \in 1 .. (Len(w) - first) + 1 : SubSeq(w, first, Len(w))[i] = w[(first + i) - 1]
  <2> HIDE DEF first
  <2>1. \A i \in first .. Len(w) : w[i] \in T
    BY <1>1, <1>2
  <2> QED
    BY <1>1, <1>2, <2>1
<1>4. PICK v \in Seq(T) : v = SubSeq(w, first, Len(w))
  BY <1>3
<1>5. Len(v) = IF Len(w) > n THEN n ELSE Len(w)
  <2>1. Len(v) = (Len(w) - first) + 1
    <3> HIDE DEF first
    <3> QED
      BY <1>3, <1>4
  <2> QED
    BY <1>1, <2>1
<1>6. \A i \in 1 .. Len(v) : (first + i) - 1 = (Len(w) - Len(v)) + i
  BY <1>1, <1>5
<1>7. \A i \in 1 .. Len(v) : v[i] = w[(first + i) - 1]
  <2> HIDE DEF first
  <2> QED
    BY <1>3, <1>4
<1>8. \A i \in 1 .. Len(v) : v[i] = w[(Len(w) - Len(v)) + i]
  <2> HIDE DEF first
  <2> QED
    BY <1>6, <1>7
<1>9. Len(w) <= n => v = w
  <2>5. Len(w) <= n => ~ (Len(w) > n)
    BY <1>1
  <2>3. Len(w) <= n => Len(v) = Len(w)
    BY <1>5, <2>5, Zenon
  <2>4. Len(v) = Len(w) => \A i \in 1 .. Len(v) : (Len(w) - Len(v)) + i = i
    BY <1>1
  <2>1. Len(w) <= n => Len(v) = Len(w) /\ \A i \in 1 .. Len(v) : v[i] = w[i]
    BY <1>8, <2>3, <2>4
  <2>2. Len(v) = Len(w) /\ (\A i \in 1 .. Len(v) : v[i] = w[i]) => v = w
    OBVIOUS
  <2> QED
    BY <2>1, <2>2
<1> QED
  BY <1>4, <1>5, <1>8, <1>9 DEF LastOf

LEMMA RatioResumes ==
  ASSUME EventsInv, RatioInv, NEW size \in Sizes, Resume(size)
  PROVE  RatioInv'
<1>1. PICK P : ratio \in Ratios(P)
  BY DEF RatioInv
<1>2. PICK w \in Seq(Categories) : w = ratio.window
  BY <1>1 DEF Ratios
<1>3. size \in Nat \ {0}
  BY SizesAssumption
<1>4. PICK v \in Seq(Categories) : v = LastOf(w, size)
  BY <1>3, LastOfIs
<1>5. /\ Len(v) = IF Len(w) > size THEN size ELSE Len(w)
      /\ \A i \in 1 .. Len(v) : v[i] = w[(Len(w) - Len(v)) + i]
      /\ Len(w) <= size => v = w
  BY <1>3, <1>4, LastOfIs
<1>6. PICK q : q = [ratio EXCEPT !.size = size, !.window = v]
  OBVIOUS
<1>7. ratio' = q
  BY <1>2, <1>4, <1>6 DEF Resume, RestoredRatio
<1>8. /\ q \in Ratios(P) /\ q.size = size /\ q.window = v /\ q.counts = ratio.counts
      /\ q.index = ratio.index /\ q.lastSeen = ratio.lastSeen /\ q.blind = ratio.blind
  BY <1>1, <1>3, <1>6 DEF Ratios
<1>9. Calls' = Calls
  <2>1. Events' = Events
    BY EventsStay
  <2> QED
    BY <2>1 DEF Calls
<1>10. resumes \in Nat /\ resumes' = resumes + 1 /\ shrunk' = (shrunk \/ Len(w) > size)
  BY <1>2 DEF Resume, RatioInv
<1>11. PICK calls : calls = Calls
  OBVIOUS
<1>12. SeenRight(ratio, calls) /\ WindowRight(ratio, calls)
  BY <1>11 DEF RatioInv, RatioRight
<1>13. SeenRight(q, calls)
  BY <1>8, <1>12 DEF SeenRight
<1>14. Len(calls) \in Nat
  <2>1. ratio.index \in Nat
    BY <1>1 DEF Ratios
  <2> QED
    BY <1>12, <2>1 DEF SeenRight
<1>15. Newest(v, calls)
  <2>1. Len(w) <= Len(calls) /\ Len(w) \in Nat /\ Len(v) \in Nat /\ Len(v) <= Len(w)
    BY <1>2, <1>3, <1>5, <1>12 DEF WindowRight, Newest
  <2>2. ASSUME NEW i \in 1 .. Len(v)
        PROVE  v[i] = Classify(calls[(Len(calls) - Len(v)) + i].payload.tool)
    <3>1. /\ (Len(w) - Len(v)) + i \in 1 .. Len(w)
          /\ (Len(calls) - Len(w)) + ((Len(w) - Len(v)) + i) = (Len(calls) - Len(v)) + i
      BY <1>14, <2>1
    <3>2. w[(Len(w) - Len(v)) + i] =
            Classify(calls[(Len(calls) - Len(w)) + ((Len(w) - Len(v)) + i)].payload.tool)
      BY <1>2, <1>12, <3>1 DEF WindowRight, Newest
    <3> QED
      BY <1>5, <3>1, <3>2
  <2> QED
    BY <1>14, <2>1, <2>2 DEF Newest
<1>16. Len(v) <= size
  BY <1>3, <1>5
<1>17. ~ shrunk' => CountsRight(q.counts, q.window)
  <2>2. ~ shrunk' => ~ shrunk /\ ~ (Len(w) > size)
    BY <1>10, Zenon
  <2>3. ~ (Len(w) > size) => Len(w) <= size
    BY <1>3
  <2>1. ~ shrunk' => ~ shrunk /\ Len(w) <= size
    BY <2>2, <2>3
  <2> QED
    BY <1>2, <1>5, <1>8, <1>12, <2>1 DEF WindowRight
<1>18. resumes' # 0 /\ resumes' \in Nat
  BY <1>10
<1>19. RatioRight(ratio, Calls)'
  BY <1>7, <1>8, <1>9, <1>11, <1>13, <1>15, <1>16, <1>17, <1>18 DEF RatioRight, SeenRight, WindowRight
<1> QED
  BY <1>7, <1>8, <1>18, <1>19 DEF RatioInv

LEMMA RatioStart == Init => RatioInv
<1> SUFFICES ASSUME Init PROVE RatioInv
  OBVIOUS
<1>1. PICK calls : calls = Calls
  OBVIOUS
<1>2. Calls = <<>>
  BY EventsStart, NothingSaid DEF Calls
<1>3. Len(calls) = 0
  BY <1>1, <1>2, EmptyIs
<1>4. PICK size \in Sizes : ratio = NewRatio(size)
  BY DEF Init
<1>5. PICK empty \in Seq(Categories) : empty = <<>> /\ Len(empty) = 0 /\ DOMAIN empty = {}
  <2>1. <<>> \in Seq(Categories)
    OBVIOUS
  <2> QED
    BY <2>1, EmptyIs
<1>6. PICK zero \in [Categories -> Int] : zero = [c \in Categories |-> 0]
  <2>1. [c \in Categories |-> 0] \in [Categories -> Int]
    OBVIOUS
  <2> QED
    BY <2>1
<1>7. /\ ratio.size = size /\ ratio.window = empty /\ ratio.counts = zero /\ ratio.index = 0
      /\ ratio.lastSeen = empty /\ ratio.blind = 0
  BY <1>4, <1>5, <1>6 DEF NewRatio
<1>8. size \in Nat \ {0}
  BY SizesAssumption
<1>9. ratio \in Ratios({})
  <2>1. empty \in LastSeens({})
    <3>1. empty = [i \in {} |-> empty[i]]
      BY <1>5
    <3>2. empty \in [{} -> Nat]
      BY <3>1
    <3> QED
      BY <3>2 DEF LastSeens
  <2> QED
    BY <1>4, <1>5, <1>6, <1>8, <2>1 DEF NewRatio, Ratios
<1>10. SeenRight(ratio, calls)
  <2>1. Blinds(calls) = {}
    BY <1>3 DEF Blinds
  <2>2. Cardinality(Blinds(calls)) = 0
    BY <2>1, FS_EmptySet
  <2>3. \A j : j \notin 1 .. 0
    OBVIOUS
  <2> QED
    BY <1>3, <1>5, <1>7, <2>2, <2>3 DEF SeenRight
<1>11. WindowRight(ratio, calls)
  <2>1. \A c \in Categories : CountIn(empty, {c}) = 0
    BY <1>5, FS_EmptySet DEF CountIn
  <2>2. CountsRight(zero, empty)
    BY <1>6, <2>1 DEF CountsRight
  <2>3. Newest(empty, calls)
    BY <1>3, <1>5 DEF Newest
  <2> QED
    BY <1>3, <1>5, <1>7, <1>8, <2>2, <2>3 DEF WindowRight
<1>12. ratio.size \in Sizes /\ resumes \in Nat
  BY <1>7 DEF Init
<1> QED
  BY <1>1, <1>9, <1>10, <1>11, <1>12 DEF RatioInv, RatioRight

LEMMA RatioSteps ==
  ASSUME EventsInv, RatioInv, [Next]_vars
  PROVE  EventsInv' /\ RatioInv'
<1>1. CASE \E l \in alphabet : IngestLine(l)
  BY <1>1, RatioIngests, EventsGrow
<1>2. CASE \E size \in Sizes : Resume(size)
  BY <1>2, RatioResumes, EventsStay
<1>3. CASE Evict \/ UNCHANGED vars
  <2>1. EventsInv' /\ Events' = Events
    BY <1>3, EventsStay
  <2>2. Calls' = Calls
    BY <2>1 DEF Calls
  <2>3. ratio' = ratio /\ shrunk' = shrunk /\ resumes' = resumes
    BY <1>3 DEF Evict, vars, collectors, history
  <2> QED
    BY <2>1, <2>2, <2>3 DEF RatioInv, RatioRight, SeenRight, WindowRight
<1> QED
  BY <1>1, <1>2, <1>3 DEF Next

LEMMA RatioTells == EventsInv /\ RatioInv => BlindIsUnread /\ RatioOfTheWindow
<1> SUFFICES ASSUME EventsInv, RatioInv PROVE BlindIsUnread /\ RatioOfTheWindow
  OBVIOUS
<1>1. PICK E : Events \in Seq(E)
  BY EventsAreSeq DEF IsSeq
<1>2. PICK calls \in Seq(E) : calls = Calls
  <2>1. Only(Events, {x \in Range(Events) : IsCall(x)}) \in Seq(E \cap {x \in Range(Events) : IsCall(x)})
    BY <1>1, OnlyType
  <2>2. Calls \in Seq(E)
    BY <2>1, CallsAre DEF Calls
  <2> QED
    BY <2>2
<1>3. DOMAIN calls = 1 .. Len(calls) /\ Len(calls) \in Nat
  BY <1>2, LenProperties
<1>4. SeenRight(ratio, calls) /\ WindowRight(ratio, calls)
  BY <1>2 DEF RatioInv, RatioRight
<1>5. BlindIsUnread
  BY <1>2, <1>3, <1>4 DEF SeenRight, Blinds, BlindIsUnread
<1>6. PICK P : ratio \in Ratios(P)
  BY DEF RatioInv
<1>7. PICK w \in Seq(Categories) : w = ratio.window
  BY <1>6 DEF Ratios
<1>8. PICK counts \in [Categories -> Int] : counts = ratio.counts
  BY <1>6 DEF Ratios
<1>9. PICK s : s = [i \in DOMAIN calls |-> Classify(calls[i].payload.tool)]
  OBVIOUS
<1>10. s \in Seq(Categories) /\ Len(s) = Len(calls)
  <2>1. s \in [1 .. Len(calls) -> Categories]
    BY <1>3, <1>9, ClassifyType
  <2> QED
    BY <1>3, <2>1
<1>11. w = LastOf(s, Len(w))
  <2>1. Len(w) \in Nat /\ Len(w) <= Len(s)
    BY <1>4, <1>7, <1>10 DEF WindowRight, Newest
  <2>6. PICK n \in Nat : n = Len(w)
    BY <2>1
  <2>2. PICK v \in Seq(Categories) : v = LastOf(s, n)
    BY <1>10, LastOfIs
  <2>7. /\ Len(v) = IF Len(s) > n THEN n ELSE Len(s)
        /\ \A i \in 1 .. Len(v) : v[i] = s[(Len(s) - Len(v)) + i]
    BY <1>10, <2>2, LastOfIs
  <2>8. Len(s) \in Nat
    BY <1>3, <1>10
  <2>11. Len(s) > n \/ Len(s) = n
    BY <2>1, <2>6, <2>8
  <2>10. Len(v) = n
    BY <2>7, <2>11, Zenon
  <2>3. Len(v) = Len(w) /\ \A i \in 1 .. Len(v) : v[i] = s[(Len(s) - Len(v)) + i]
    BY <2>6, <2>7, <2>10
  <2>4. \A i \in 1 .. Len(w) : v[i] = w[i]
    <3> SUFFICES ASSUME NEW i \in 1 .. Len(w) PROVE v[i] = w[i]
      OBVIOUS
    <3>1. (Len(calls) - Len(w)) + i \in DOMAIN calls
      BY <1>3, <1>10, <2>1
    <3>2. w[i] = Classify(calls[(Len(calls) - Len(w)) + i].payload.tool)
      BY <1>4, <1>7 DEF WindowRight, Newest
    <3> QED
      BY <1>9, <1>10, <2>3, <3>1, <3>2
  <2>9. Len(v) = Len(w)
    BY <2>3
  <2>5. v = w
    BY <2>4, <2>9, SeqEqual
  <2> QED
    BY <2>2, <2>5, <2>6
<1>12. ~shrunk => counts = [c \in Categories |-> CountIn(w, {c})]
  BY <1>4, <1>7, <1>8 DEF WindowRight, CountsRight
<1>13. resumes = 0 => Len(w) = Len(LastOf(calls, ratio.size))
  <2>1. PICK size \in Nat : size = ratio.size
    BY <1>6 DEF Ratios
  <2>2. Len(LastOf(calls, size)) = IF Len(calls) > size THEN size ELSE Len(calls)
    BY LastOfIs
  <2> QED
    BY <1>4, <1>7, <2>1, <2>2 DEF WindowRight
<1>14. RatioOfTheWindow
  BY <1>2, <1>7, <1>8, <1>9, <1>11, <1>12, <1>13 DEF RatioOfTheWindow
<1> QED
  BY <1>5, <1>14

\* BlindIsUnread: blind_edits counts the mutations of paths that the session
\* had not read in the calls before, whichever process saw the reading
\* (read_edit_ratio.py:90).
THEOREM BlindEditsAreUnread == Spec => []BlindIsUnread
<1>1. Init => EventsInv /\ RatioInv
  BY EventsStart, RatioStart
<1>2. EventsInv /\ RatioInv /\ [Next]_vars => (EventsInv /\ RatioInv)'
  BY RatioSteps
<1>3. EventsInv /\ RatioInv => BlindIsUnread
  BY RatioTells
<1> QED
  BY <1>1, <1>2, <1>3, PTL DEF Spec

\* RatioOfTheWindow: the window of read_edit_ratio has the last calls of the
\* session, and its counts are theirs until a smaller window is configured
\* (read_edit_ratio.py, restore_state).
THEOREM WindowIsLatest == Spec => []RatioOfTheWindow
<1>1. Init => EventsInv /\ RatioInv
  BY EventsStart, RatioStart
<1>2. EventsInv /\ RatioInv /\ [Next]_vars => (EventsInv /\ RatioInv)'
  BY RatioSteps
<1>3. EventsInv /\ RatioInv => RatioOfTheWindow
  BY RatioTells
<1> QED
  BY <1>1, <1>2, <1>3, PTL DEF Spec

---------------------------------------------------------------------------
(* The turns                                                               *)

\* With tools in T.
TurnsOf(T) == [tools : Seq(T), count : Nat]
Groupers(T) == [open : TurnsOf(T) \cup {NoTurn}, turns : Seq(TurnsOf(T))]

LEMMA GroupType ==
  ASSUME NEW T, NEW g \in Groupers(T), NEW e, e.kind = "TOOL_CALL" => e.payload.tool \in T
  PROVE  Group(g, e) \in Groupers(T)
<1>1. /\ g.open \in TurnsOf(T) \cup {NoTurn} /\ g.turns \in Seq(TurnsOf(T))
  BY DEF Groupers
<1>2. CASE e.kind = "USER_MESSAGE"
  <2>1. Opened \in TurnsOf(T)
    <3>1. <<>> \in Seq(T)
      OBVIOUS
    <3> QED
      BY <3>1 DEF Opened, TurnsOf
  <2>2. PICK turns \in Seq(TurnsOf(T)) :
          turns = IF g.open = NoTurn THEN g.turns ELSE Append(g.turns, g.open)
    <3>1. g.open # NoTurn => Append(g.turns, g.open) \in Seq(TurnsOf(T))
      <4>1. g.open # NoTurn => g.open \in TurnsOf(T)
        BY <1>1
      <4> QED
        BY <1>1, <4>1
    <3> QED
      BY <1>1, <3>1
  <2>3. Group(g, e) = [open |-> Opened, turns |-> turns]
    BY <1>2, <2>2 DEF Group
  <2> QED
    BY <2>1, <2>3 DEF Groupers
<1>3. CASE e.kind # "USER_MESSAGE" /\ g.open # NoTurn
  <2>1. PICK o \in TurnsOf(T) : o = g.open
    BY <1>1, <1>3
  <2>2. PICK tools \in Seq(T) :
          tools = IF e.kind = "TOOL_CALL" /\ e.payload.tool # ""
                  THEN Append(o.tools, e.payload.tool) ELSE o.tools
    <3>1. o.tools \in Seq(T)
      BY DEF TurnsOf
    <3>2. e.kind = "TOOL_CALL" => Append(o.tools, e.payload.tool) \in Seq(T)
      BY <3>1
    <3> QED
      BY <3>1, <3>2
  <2>3. PICK count \in Nat : count = o.count + 1
    BY DEF TurnsOf
  <2>4. PICK p : p = [o EXCEPT !.count = count, !.tools = tools]
    OBVIOUS
  <2>5. p \in TurnsOf(T)
    BY <2>4 DEF TurnsOf
  <2>6. Group(g, e) = [g EXCEPT !.open = p]
    <3>1. Group(g, e) = [g EXCEPT !.open.count = @ + 1, !.open.tools = tools]
      BY <1>3, <2>1, <2>2 DEF Group
    <3> QED
      BY <2>1, <2>3, <2>4, <3>1 DEF Groupers, TurnsOf
  <2> QED
    BY <2>5, <2>6 DEF Groupers
<1>4. CASE e.kind # "USER_MESSAGE" /\ g.open = NoTurn
  BY <1>4 DEF Group
<1> QED
  BY <1>2, <1>3, <1>4

LEMMA GroupersGrow ==
  ASSUME NEW T, NEW U, T \subseteq U
  PROVE  Groupers(T) \subseteq Groupers(U)
<1>1. Seq(T) \subseteq Seq(U)
  OBVIOUS
<1>2. TurnsOf(T) \subseteq TurnsOf(U)
  BY <1>1 DEF TurnsOf
<1>3. Seq(TurnsOf(T)) \subseteq Seq(TurnsOf(U))
  BY <1>2
<1> QED
  BY <1>2, <1>3 DEF Groupers

ToolIn(E, T) == \A x \in E : x.payload.tool \in T

Grouped(g, s) == FoldLeft(Group, g, s)

\* Grouped as a fold over the events, one by one.
Groups(T, E) == [a \in Groupers(T) \X E |-> Group(a[1], a[2])]

LEMMA GroupedIs ==
  ASSUME NEW T, NEW E, ToolIn(E, T), NEW s \in Seq(E), NEW g \in Groupers(T)
  PROVE  /\ IsStep(Groups(T, E), Groupers(T), E)
         /\ \E fold : /\ Recurses(fold, Groupers(T), Groups(T, E), g, s)
                      /\ Grouped(g, s) = fold[DOMAIN s]
<1> DEFINE S == Groupers(T)
           step == Groups(T, E)
           isFold(f) == f = [t \in SUBSET DOMAIN s |->
                               IF t = {} THEN g ELSE Group(f[t \ {Max(t)}], s[Max(t)])]
           fold == CHOOSE f : isFold(f)
<1>1. Grouped(g, s) = fold[DOMAIN s]
  BY DEF Grouped, FoldLeft, MapThenFoldSet
<1>2. \A a \in S, x \in E : Group(a, x) \in S
  BY GroupType DEF ToolIn
<1> HIDE DEF isFold, fold, S
<1>3. IsStep(step, S, E) /\ \A a \in S, x \in E : step[<<a, x>>] = Group(a, x)
  <2>1. step = [a \in S \X E |-> Group(a[1], a[2])]
    BY DEF S, Groups
  <2> QED
    BY <1>2, <2>1 DEF IsStep
<1>4. DOMAIN s = 1 .. Len(s) /\ Len(s) \in Nat /\ \A i \in 1 .. Len(s) : s[i] \in E
  BY LenProperties
<1>5. \A t \in SUBSET DOMAIN s : t # {} => Max(t) \in DOMAIN s /\ t \ {Max(t)} \in SUBSET DOMAIN s
  BY <1>4, MaxIs
<1>6. g \in S
  BY DEF S
<1> HIDE DEF step
<1>7. PICK h \in [SUBSET DOMAIN s -> S] : Folds(h, S, E, step, g, s)
  BY <1>3, <1>6, FoldExists
<1>8. isFold(h)
  <2>1. \A t \in SUBSET DOMAIN s :
          h[t] = IF t = {} THEN g ELSE Group(h[t \ {Max(t)}], s[Max(t)])
    BY <1>3, <1>4, <1>5, <1>7 DEF Folds
  <2> QED
    BY <2>1 DEF isFold
<1>9. isFold(fold)
  BY <1>8 DEF fold
<1>10. Recurses(fold, S, step, g, s)
  <2>1. \A t \in SUBSET DOMAIN s :
          fold[t] = IF t = {} THEN g ELSE Group(fold[t \ {Max(t)}], s[Max(t)])
    BY <1>9 DEF isFold
  <2> QED
    BY <1>3, <1>4, <1>5, <2>1 DEF Recurses
<1> QED
  BY <1>1, <1>3, <1>10 DEF S, step

LEMMA GroupFolds ==
  ASSUME NEW T, NEW E, ToolIn(E, T), NEW s \in Seq(E), NEW g \in Groupers(T)
  PROVE  Grouped(g, s) \in Groupers(T)
<1>1. PICK S : S = Groupers(T)
  OBVIOUS
<1>2. PICK step : step = Groups(T, E)
  OBVIOUS
<1>3. IsStep(step, S, E)
  BY <1>1, <1>2, GroupedIs
<1>4. PICK fold : Recurses(fold, S, step, g, s) /\ Grouped(g, s) = fold[DOMAIN s]
  BY <1>1, <1>2, GroupedIs
<1>5. PICK f : Stepwise(f, S, step, g, s) /\ f[Len(s)] = fold[DOMAIN s]
  BY <1>1, <1>3, <1>4, FoldSteps
<1>6. Len(s) \in 0 .. Len(s)
  BY LenProperties
<1>7. fold[DOMAIN s] \in S
  BY <1>5, <1>6 DEF Stepwise
<1> QED
  BY <1>1, <1>4, <1>7

\* The grouper is one.
GrouperInv == \E T : grouper \in Groupers(T)

LEMMA GrouperStart == Init => GrouperInv
<1> SUFFICES ASSUME Init PROVE GrouperInv
  OBVIOUS
<1>1. <<>> \in Seq(TurnsOf({}))
  OBVIOUS
<1>2. grouper \in Groupers({})
  BY <1>1 DEF Init, NoTurns, Groupers
<1> QED
  BY <1>2 DEF GrouperInv

LEMMA GrouperSteps ==
  ASSUME EventsInv, GrouperInv, [Next]_vars
  PROVE  GrouperInv'
<1>1. PICK T : grouper \in Groupers(T)
  BY DEF GrouperInv
<1>2. CASE \E l \in alphabet : IngestLine(l)
  <2>1. PICK l \in alphabet : IngestLine(l)
    BY <1>2
  <2>2. PICK E : EventsOK(E) /\ Events \in Seq(E) /\ Yields(l) \in Seq(E)
    BY <2>1, EventsGrow
  <2>3. PICK s \in Seq(E) : s = Yields(l)
    BY <2>2
  <2>4. PICK U : U = T \cup {e.payload.tool : e \in E}
    OBVIOUS
  <2>5. grouper \in Groupers(U) /\ ToolIn(E, U)
    BY <1>1, <2>4, GroupersGrow DEF ToolIn
  <2>6. Grouped(grouper, s) \in Groupers(U)
    BY <2>5, GroupFolds
  <2>7. grouper' = Grouped(grouper, s)
    BY <2>1, <2>3 DEF IngestLine, Grouped
  <2> QED
    BY <2>6, <2>7 DEF GrouperInv
<1>3. CASE \E size \in Sizes : Resume(size)
  <2>1. <<>> \in Seq(TurnsOf({}))
    OBVIOUS
  <2>2. grouper' \in Groupers({})
    BY <1>3, <2>1 DEF Resume, NoTurns, Groupers
  <2> QED
    BY <2>2 DEF GrouperInv
<1>4. CASE Evict
  <2>1. CASE grouper.open = NoTurn
    BY <1>1, <1>4, <2>1 DEF Evict, Finalized, GrouperInv
  <2>2. CASE grouper.open # NoTurn
    <3>1. PICK o \in TurnsOf(T) : o = grouper.open
      BY <1>1, <2>2 DEF Groupers
    <3>2. Append(grouper.turns, o) \in Seq(TurnsOf(T))
      BY <1>1 DEF Groupers
    <3>3. grouper' = [open |-> NoTurn, turns |-> Append(grouper.turns, o)]
      BY <1>4, <2>2, <3>1 DEF Evict, Finalized
    <3>4. grouper' \in Groupers(T)
      BY <3>2, <3>3 DEF Groupers
    <3> QED
      BY <3>4 DEF GrouperInv
  <2> QED
    BY <2>1, <2>2
<1>5. CASE UNCHANGED vars
  BY <1>1, <1>5 DEF vars, GrouperInv
<1> QED
  BY <1>2, <1>3, <1>4, <1>5 DEF Next

---------------------------------------------------------------------------
(* The confidence of the parser                                            *)

\* How many of a set of numbers come after one of them.
After(L, i) == Cardinality({j \in L : j > i})
Ranked(L) ==
  /\ L \in SUBSET Nat /\ IsFiniteSet(L)
  /\ \A i \in L : After(L, i) \in 0 .. (Cardinality(L) - 1)
  /\ \A i, j \in L : After(L, i) = After(L, j) => i = j
  /\ \A k \in 0 .. (Cardinality(L) - 1) : \E i \in L : After(L, i) = k

LEMMA RanksGrow ==
  ASSUME NEW L, Ranked(L), NEW n \in Nat, \A i \in L : i < n
  PROVE  /\ Ranked(L \cup {n}) /\ Cardinality(L \cup {n}) = Cardinality(L) + 1
         /\ After(L \cup {n}, n) = 0
         /\ \A i \in L : After(L \cup {n}, i) = After(L, i) + 1
<1> DEFINE M == L \cup {n}
<1>1. L \in SUBSET Nat /\ IsFiniteSet(L) /\ n \notin L
  BY DEF Ranked
<1>2. IsFiniteSet(M) /\ Cardinality(M) = Cardinality(L) + 1 /\ Cardinality(L) \in Nat
  BY <1>1, FS_AddElement, FS_CardinalityType
<1>3. After(M, n) = 0
  <2>0. \A j \in M : ~ (j > n)
    BY <1>1
  <2>1. {j \in M : j > n} = {}
    BY <2>0
  <2> QED
    BY <2>1, FS_EmptySet DEF After
<1>4. ASSUME NEW i \in L
      PROVE  After(M, i) = After(L, i) + 1
  <2> DEFINE S == {j \in L : j > i}
  <2>1. {j \in M : j > i} = S \cup {n} /\ n \notin S
    BY <1>1
  <2>2. IsFiniteSet(S)
    BY <1>1, FS_Subset
  <2>3. Cardinality(S \cup {n}) = Cardinality(S) + 1
    BY <2>1, <2>2, FS_AddElement
  <2> QED
    BY <2>1, <2>3 DEF After
<1> HIDE DEF M
<1>5. \A i \in M : i = n \/ i \in L
  BY DEF M
<1>6. \A i \in L : After(L, i) \in 0 .. (Cardinality(L) - 1) /\ i \in M
  BY DEF Ranked, M
<1>7. \A i \in M : After(M, i) \in 0 .. (Cardinality(M) - 1)
  BY <1>2, <1>3, <1>4, <1>5, <1>6
<1>8. \A i, j \in M : After(M, i) = After(M, j) => i = j
  <2>1. \A i \in L : After(M, i) = After(L, i) + 1 /\ After(L, i) \in Nat
    BY <1>2, <1>4, <1>6
  <2>2. \A i, j \in L : After(L, i) + 1 = After(L, j) + 1 => i = j
    BY <2>1 DEF Ranked
  <2>3. \A i \in L : After(M, i) # 0
    BY <2>1
  <2> QED
    BY <1>3, <1>5, <2>1, <2>2, <2>3
<1>9. ASSUME NEW k \in 0 .. (Cardinality(M) - 1)
      PROVE  \E i \in M : After(M, i) = k
  <2>1. CASE k = 0
    BY <1>3, <2>1 DEF M
  <2>2. CASE k # 0
    <3>1. k - 1 \in 0 .. (Cardinality(L) - 1)
      BY <1>2, <2>2
    <3>2. PICK i \in L : After(L, i) = k - 1
      BY <3>1 DEF Ranked
    <3>3. After(M, i) = k
      BY <1>4, <3>2
    <3> QED
      BY <1>6, <3>3
  <2> QED
    BY <2>1, <2>2
<1>10. M \in SUBSET Nat
  BY <1>1 DEF M
<1>11. Ranked(M)
  BY <1>2, <1>7, <1>8, <1>9, <1>10 DEF Ranked
<1> QED
  BY <1>2, <1>3, <1>4, <1>11 DEF M

\* Where the outcomes are bad.
Bad(o) == {k \in DOMAIN o : ~o[k]}

\* The outcomes are those of the last lines: lost or not.
Judges(o, L, X) ==
  /\ o \in Seq(BOOLEAN)
  /\ Len(o) = IF Cardinality(L) > Window THEN Window ELSE Cardinality(L)
  /\ \A i \in L : After(L, i) < Window => ((Len(o) - After(L, i)) \in Bad(o) <=> i \in X)

LEMMA JudgesNext ==
  ASSUME NEW L, Ranked(L), NEW n \in Nat, \A i \in L : i < n,
         NEW o, NEW X, Judges(o, L, X), NEW b \in BOOLEAN, NEW Y, b = FALSE <=> n \in Y,
         \A i \in L : i \in X <=> i \in Y
  PROVE  Judges(WithOutcome(o, b), L \cup {n}, Y)
<1> DEFINE M == L \cup {n}
           c == Cardinality(L)
           p == Append(o, b)
           v == LastOf(p, Window)
<1>1. /\ Cardinality(M) = c + 1 /\ After(M, n) = 0
      /\ \A i \in L : After(M, i) = After(L, i) + 1 /\ After(L, i) \in 0 .. (c - 1)
  <2>1. /\ Cardinality(M) = c + 1 /\ After(M, n) = 0
        /\ \A i \in L : After(M, i) = After(L, i) + 1
    BY RanksGrow
  <2>2. \A i \in L : After(L, i) \in 0 .. (c - 1)
    BY DEF Ranked
  <2> QED
    BY <2>1, <2>2
<1>2. c \in Nat /\ Window \in Nat \ {0}
  BY FS_CardinalityType, ParserAssumption DEF Ranked
<1>3. /\ p \in Seq(BOOLEAN) /\ Len(p) = Len(o) + 1 /\ p[Len(o) + 1] = b
      /\ \A i \in 1 .. Len(o) : p[i] = o[i]
  BY DEF Judges
<1>4. Len(o) = IF c > Window THEN Window ELSE c
  BY DEF Judges
<1> HIDE DEF p
<1>5. /\ v \in Seq(BOOLEAN) /\ Len(v) = IF Len(p) > Window THEN Window ELSE Len(p)
      /\ \A i \in 1 .. Len(v) : v[i] = p[(Len(p) - Len(v)) + i]
  BY <1>2, <1>3, LastOfIs
<1> HIDE DEF v, c, M
<1>6. Len(v) = IF Cardinality(M) > Window THEN Window ELSE Cardinality(M)
  BY <1>1, <1>2, <1>3, <1>4, <1>5
<1>7. Len(v) \in Nat \ {0} /\ Len(o) \in Nat
  BY <1>1, <1>2, <1>4, <1>6
<1>12. \A k \in 1 .. Len(v) : v[k] = p[(Len(p) - Len(v)) + k]
  BY <1>5
<1>8. Len(v) \in Bad(v) <=> n \in Y
  <2>1. v[Len(v)] = b
    BY <1>3, <1>5, <1>7
  <2>2. DOMAIN v = 1 .. Len(v) /\ Len(v) \in 1 .. Len(v)
    BY <1>5, <1>7
  <2> QED
    BY <2>1, <2>2 DEF Bad
<1>9. ASSUME NEW i \in L, After(M, i) < Window
      PROVE  (Len(v) - After(M, i)) \in Bad(v) <=> i \in Y
  <2>1. PICK a \in Nat : a = After(L, i)
    BY <1>1
  <2>2. After(M, i) = a + 1 /\ a < c /\ a + 1 < Window
    BY <1>1, <1>2, <1>9, <2>1
  <2>3. Len(v) - (a + 1) \in 1 .. Len(v) /\ Len(o) - a \in 1 .. Len(o)
    BY <1>1, <1>2, <1>4, <1>6, <2>2
  <2>4. v[Len(v) - (a + 1)] = p[(Len(p) - Len(v)) + (Len(v) - (a + 1))]
    BY <1>5, <2>3
  <2>5. (Len(p) - Len(v)) + (Len(v) - (a + 1)) = Len(o) - a
    BY <1>3, <1>7
  <2>6. v[Len(v) - (a + 1)] = o[Len(o) - a]
    BY <1>3, <2>3, <2>4, <2>5
  <2>7. (Len(o) - a) \in Bad(o) <=> i \in X
    <3>1. (Len(o) - After(L, i)) \in Bad(o) <=> i \in X
      <4>1. After(L, i) < Window
        BY <1>2, <2>1, <2>2
      <4> QED
        BY <4>1 DEF Judges
    <3> QED
      BY <2>1, <3>1
  <2>8. DOMAIN v = 1 .. Len(v) /\ DOMAIN o = 1 .. Len(o)
    BY <1>5 DEF Judges
  <2>9. (Len(v) - (a + 1)) \in Bad(v) <=> (Len(o) - a) \in Bad(o)
    BY <2>3, <2>6, <2>8 DEF Bad
  <2> QED
    BY <2>2, <2>7, <2>9
<1>10. \A i \in M : After(M, i) < Window => ((Len(v) - After(M, i)) \in Bad(v) <=> i \in Y)
  <2> SUFFICES ASSUME NEW i \in M, After(M, i) < Window
               PROVE  (Len(v) - After(M, i)) \in Bad(v) <=> i \in Y
    OBVIOUS
  <2>1. CASE i \in L
    BY <1>9, <2>1
  <2>2. CASE i = n
    <3>1. Len(v) - After(M, n) = Len(v)
      BY <1>1, <1>7
    <3> QED
      BY <1>8, <2>2, <3>1
  <2> QED
    BY <2>1, <2>2 DEF M
<1>11. Judges(v, M, Y)
  BY <1>5, <1>6, <1>10 DEF Judges
<1> QED
  BY <1>11 DEF WithOutcome, v, p, M

\* So as many outcomes are bad as lines are lost.
LEMMA JudgesCount ==
  ASSUME NEW L, Ranked(L), NEW o, NEW X, Judges(o, L, X)
  PROVE  LET recent == {i \in L : After(L, i) < Window}
         IN /\ Len(o) = Cardinality(recent)
            /\ Cardinality(Bad(o)) = Cardinality(recent \cap X)
            /\ recent \subseteq X => Bad(o) = DOMAIN o
<1> DEFINE recent == {i \in L : After(L, i) < Window}
           n == Len(o)
           c == Cardinality(L)
           place == [i \in recent |-> n - After(L, i)]
           bad == Bad(o)
           placeX == [i \in recent \cap X |-> n - After(L, i)]
<1>1. c \in Nat /\ Window \in Nat \ {0} /\ IsFiniteSet(L)
  BY FS_CardinalityType, ParserAssumption DEF Ranked
<1>2. n = IF c > Window THEN Window ELSE c
  BY DEF Judges
<1>3. o \in Seq(BOOLEAN) /\ DOMAIN o = 1 .. n
  BY DEF Judges
<1> HIDE DEF n
<1>4. \A i \in recent : After(L, i) \in Nat /\ n - After(L, i) \in 1 .. n
  BY <1>1, <1>2 DEF Ranked
<1>5. \A k \in 1 .. n : \E i \in recent : n - After(L, i) = k
  <2> SUFFICES ASSUME NEW k \in 1 .. n PROVE \E i \in recent : n - After(L, i) = k
    OBVIOUS
  <2>1. n - k \in 0 .. (c - 1) /\ n - k < Window /\ n - (n - k) = k
    BY <1>1, <1>2
  <2>2. PICK i \in L : After(L, i) = n - k
    BY <2>1 DEF Ranked
  <2> QED
    BY <2>1, <2>2
<1>6. \A i, j \in recent : n - After(L, i) = n - After(L, j) => i = j
  <2> SUFFICES ASSUME NEW i \in recent, NEW j \in recent, n - After(L, i) = n - After(L, j)
               PROVE  i = j
    OBVIOUS
  <2>1. After(L, i) = After(L, j)
    BY <1>1, <1>2, <1>4
  <2> QED
    BY <2>1 DEF Ranked
<1>7. /\ \A i \in recent : (n - After(L, i)) \in bad <=> i \in X
      /\ bad \subseteq 1 .. n
  BY <1>3 DEF Judges, Bad, n
<1> HIDE DEF c
<1>8. IsFiniteSet(recent) /\ IsFiniteSet(recent \cap X)
  BY <1>1, FS_Subset
<1> HIDE DEF recent, bad
<1>9. Cardinality(1 .. n) = Cardinality(recent)
  <2>1. place \in [recent -> 1 .. n]
    BY <1>4
  <2>2. \A i, j \in recent : place[i] = place[j] => i = j
    BY <1>6
  <2>3. \A k \in 1 .. n : \E i \in recent : place[i] = k
    BY <1>5
  <2> HIDE DEF place
  <2>4. place \in Bijection(recent, 1 .. n)
    BY <2>1, <2>2, <2>3 DEF Bijection, Injection, Surjection, IsInjective
  <2> QED
    BY <1>8, <2>4, FS_Bijection DEF ExistsBijection
<1>10. n = Cardinality(1 .. n)
  <2>1. n \in Nat /\ n \in Int /\ 1 \in Int
    BY <1>1, <1>2
  <2>2. Cardinality(1 .. n) = IF 1 > n THEN 0 ELSE n - 1 + 1
    BY ONLY <2>1, FS_Interval
  <2> QED
    BY <2>1, <2>2
<1>11. Cardinality(bad) = Cardinality(recent \cap X)
  <2>1. placeX \in [recent \cap X -> bad]
    BY <1>4, <1>7
  <2>2. \A i, j \in recent \cap X : placeX[i] = placeX[j] => i = j
    BY <1>6
  <2>3. \A k \in bad : \E i \in recent \cap X : placeX[i] = k
    BY <1>5, <1>7
  <2> HIDE DEF placeX
  <2>4. placeX \in Bijection(recent \cap X, bad)
    BY <2>1, <2>2, <2>3 DEF Bijection, Injection, Surjection, IsInjective
  <2> QED
    BY <1>8, <2>4, FS_Bijection DEF ExistsBijection
<1>12. recent \subseteq X => bad = 1 .. n
  BY <1>5, <1>7
<1> QED
  BY <1>3, <1>9, <1>10, <1>11, <1>12 DEF n, recent, bad

\* The lines of this process, and those of them that should have told something
\* and did not.
Lines == {i \in (opened + 1) .. Len(file) : file[i].form # "blank"}
Gone(l) ==
  \/ l.form # "object" \/ Kind(l) \notin {"assistant", "user", Structural}
  \/ Kind(l) # Structural /\ l.body = "flat"
Lost == {i \in Lines : (\A j \in DOMAIN told : told[j].line # i) /\ Gone(file[i])}

\* total counts this process's lines, and outcomes has those of the last Window.
ConfInv ==
  /\ Ranked(Lines) /\ Judges(parser.outcomes, Lines, Lost)
  /\ parser.total = Cardinality(Lines) /\ opened \in 0 .. Len(file)
  /\ DOMAIN parser = DOMAIN NewParser
  /\ resumes \in Nat /\ "own" \in DOMAIN health /\ (resumes = 0 => health.own = None)

\* A line is lost if nothing is parsed in it.
LEMMA NothingParsed ==
  ASSUME NEW l, LineOK(l), l.form = "object", Kind(l) # None
  PROVE  ParsedBy(l) \in Nat /\ (~ (ParsedBy(l) > 0) <=> Yields(l) = <<>> /\ Gone(l))
<1>1. Yields(l) = EventsOf(l) /\ IsSeq(EventsOf(l))
  BY EventsAre DEF Yields
<1>2. PICK e : e = EventsOf(l)
  OBVIOUS
<1>3. IsSeq(e) /\ Yields(l) = e
  BY <1>1, <1>2
<1>4. Len(e) \in Nat /\ (Len(e) = 0 <=> e = <<>>)
  BY <1>3, SeqIs, EmptyIs
<1>5. ParsedBy(l) = IF Len(e) = 0 /\ ((Kind(l) \in {"assistant", "user"} /\ l.body # "flat") \/ Kind(l) = Structural)
                    THEN 1 ELSE Len(e)
  BY <1>2 DEF ParsedBy
<1> QED
  BY <1>3, <1>4, <1>5 DEF Gone, Structural

\* What the parser keeps of a line.
LEMMA ParserJudges ==
  ASSUME NEW l, LineOK(l), ParseLine(l), DOMAIN parser = DOMAIN NewParser,
         parser.total \in Nat
  PROVE  /\ DOMAIN parser' = DOMAIN NewParser
         /\ l.form = "blank" => parser' = parser /\ Yields(l) = <<>>
         /\ l.form # "blank" =>
              /\ parser'.total = parser.total + 1
              /\ \E b \in BOOLEAN : /\ b = FALSE <=> Yields(l) = <<>> /\ Gone(l)
                                    /\ parser'.outcomes = WithOutcome(parser.outcomes, b)
<1>0. {"total", "outcomes", "missing"} \subseteq DOMAIN parser
  BY DEF NewParser
<1>1. CASE SkipBlank(l)
  BY <1>1 DEF SkipBlank, Yields
<1>2. CASE Malformed(l)
  <2>1. PICK m : parser' = [[[parser EXCEPT !.total = parser.total + 1] EXCEPT !.missing = m]
                              EXCEPT !.outcomes = WithOutcome(parser.outcomes, FALSE)]
    BY <1>2 DEF Malformed
  <2>2. /\ DOMAIN parser' = DOMAIN parser /\ parser'.total = parser.total + 1
        /\ parser'.outcomes = WithOutcome(parser.outcomes, FALSE)
    BY <1>0, <2>1
  <2>3. l.form # "blank" /\ Yields(l) = <<>> /\ Gone(l)
    BY <1>2 DEF Malformed, Yields, Gone
  <2> QED
    BY <2>2, <2>3
<1>5. /\ DOMAIN AfterSample(l) = DOMAIN parser /\ AfterSample(l).total = parser.total + 1
      /\ AfterSample(l).outcomes = parser.outcomes
  BY <1>0 DEF AfterSample
<1>3. CASE Typeless(l)
  <2>1. PICK m : parser' = [[AfterSample(l) EXCEPT !.missing = m]
                              EXCEPT !.outcomes = WithOutcome(AfterSample(l).outcomes, FALSE)]
    BY <1>3 DEF Typeless
  <2> HIDE DEF AfterSample
  <2>2. /\ DOMAIN parser' = DOMAIN parser /\ parser'.total = parser.total + 1
        /\ parser'.outcomes = WithOutcome(parser.outcomes, FALSE)
    BY <1>0, <1>5, <2>1
  <2>3. l.form # "blank" /\ Yields(l) = <<>> /\ Gone(l)
    BY <1>3, ParserAssumption DEF Typeless, Yields, Gone, Structural
  <2> QED
    BY <2>2, <2>3
<1>4. CASE Dispatch(l)
  <2>1. l.form = "object" /\ Kind(l) # None
    BY <1>4 DEF Dispatch
  <2>2. ParsedBy(l) \in Nat /\ (~ (ParsedBy(l) > 0) <=> Yields(l) = <<>> /\ Gone(l))
    BY <2>1, NothingParsed
  <2>3. (ParsedBy(l) > 0) \in BOOLEAN
    BY <2>2, SMT
  <2>8. PICK b \in BOOLEAN : b = (ParsedBy(l) > 0)
    BY <2>3, Zenon
  <2>4. b = FALSE <=> Yields(l) = <<>> /\ Gone(l)
    BY <2>2, <2>8, Zenon
  <2> DEFINE next(o, p, d, m, s, n) ==
                [[[[[[AfterSample(l) EXCEPT !.parsed = p] EXCEPT !.duplicates = d]
                     EXCEPT !.missing = m]
                    EXCEPT !.outcomes = WithOutcome(AfterSample(l).outcomes, o)]
                   EXCEPT !.seen = s] EXCEPT !.noted = n]
  <2>5. \E p, d, m, s, n : parser' = next(ParsedBy(l) > 0, p, d, m, s, n)
    BY <1>4 DEF Dispatch
  <2> HIDE DEF next
  <2>6. PICK p, d, m, s, n : parser' = next(b, p, d, m, s, n)
    BY <2>5, <2>8, Zenon
  <2> USE DEF next
  <2> HIDE DEF AfterSample
  <2>7. /\ DOMAIN parser' = DOMAIN parser /\ parser'.total = parser.total + 1
        /\ parser'.outcomes = WithOutcome(parser.outcomes, b)
    BY <1>0, <1>5, <2>6
  <2> QED
    BY <2>1, <2>4, <2>7
<1> QED
  BY <1>1, <1>2, <1>3, <1>4 DEF ParseLine

LEMMA ConfIngests ==
  ASSUME ToldInv, ConfInv, NEW l \in alphabet, IngestLine(l)
  PROVE  ConfInv'
<1> DEFINE n == Len(file) + 1
<1>1. opened' = opened /\ resumes' = resumes /\ ParseLine(l) /\ file' = Append(file, l)
  BY DEF IngestLine
<1>0. PICK w : health' = [health EXCEPT !.window = w]
  BY DEF IngestLine
<1>2. /\ IsSeq(file') /\ Len(file') = Len(file) + 1 /\ Len(file) \in Nat
      /\ file'[n] = l /\ \A i \in 1 .. Len(file) : file'[i] = file[i]
  BY <1>1, IsSeqAppend, SeqIs DEF ToldInv
<1>3. LineOK(l)
  BY LinesAreOK DEF ToldInv
<1>4. opened \in Nat /\ opened <= Len(file)
  BY <1>2 DEF ConfInv
<1>5. \A i \in Lines : i \in 1 .. Len(file) /\ i < n /\ file'[i] = file[i]
  BY <1>2, <1>4 DEF Lines
<1>6. IF l.form = "blank" THEN Lines' = Lines ELSE Lines' = Lines \cup {n}
  <2>1. \A i \in (opened + 1) .. Len(file') : i = n \/ i \in (opened + 1) .. Len(file)
    BY <1>2, <1>4
  <2>2. n \in (opened + 1) .. Len(file') /\ (opened + 1) .. Len(file) \subseteq (opened + 1) .. Len(file')
    BY <1>2, <1>4
  <2>3. \A i \in (opened + 1) .. Len(file) : file'[i] = file[i]
    BY <1>2, <1>4
  <2>4. Lines' = {i \in (opened + 1) .. Len(file') : file'[i].form # "blank"}
    BY <1>1 DEF Lines
  <2>5. \A i : i \in Lines' <=> i \in Lines \/ (i = n /\ l.form # "blank")
    BY <1>2, <2>1, <2>2, <2>3, <2>4 DEF Lines
  <2> QED
    BY <2>5
<1>7. \A i \in Lines : i \in Lost <=> i \in Lost'
  <2> SUFFICES ASSUME NEW i \in Lines PROVE i \in Lost <=> i \in Lost'
    OBVIOUS
  <2>1. i \in Lines' /\ file'[i] = file[i] /\ i # n
    BY <1>2, <1>5, <1>6
  <2>2. (\A j \in DOMAIN told : told[j].line # i) <=> (\A j \in DOMAIN told' : told'[j].line # i)
    BY <2>1, ToldGrows
  <2> QED
    BY <2>1, <2>2 DEF Lost
<1>8. l.form # "blank" => (n \in Lost' <=> Yields(l) = <<>> /\ Gone(l))
  <2> SUFFICES ASSUME l.form # "blank" PROVE n \in Lost' <=> Yields(l) = <<>> /\ Gone(l)
    OBVIOUS
  <2>1. n \in Lines' /\ file'[n] = l
    BY <1>2, <1>6
  <2>2. (\A j \in DOMAIN told' : told'[j].line # n) <=> Yields(l) = <<>>
    <3>1. \A j \in DOMAIN told : told[j].line # n
      BY <1>2 DEF ToldInv
    <3> QED
      BY <3>1, ToldGrows
  <2> QED
    BY <2>1, <2>2 DEF Lost
<1>9. parser.total \in Nat
  BY FS_CardinalityType DEF ConfInv, Ranked
<1>10. /\ DOMAIN parser' = DOMAIN NewParser
       /\ l.form = "blank" => parser' = parser
       /\ l.form # "blank" =>
            /\ parser'.total = parser.total + 1
            /\ \E b \in BOOLEAN : /\ b = FALSE <=> Yields(l) = <<>> /\ Gone(l)
                                  /\ parser'.outcomes = WithOutcome(parser.outcomes, b)
  BY <1>1, <1>3, <1>9, ParserJudges DEF ConfInv
<1>11. Ranked(Lines') /\ Judges(parser'.outcomes, Lines', Lost') /\ parser'.total = Cardinality(Lines')
  <2>1. CASE l.form = "blank"
    <3>1. Judges(parser.outcomes, Lines, Lost')
      BY <1>7 DEF ConfInv, Judges
    <3> QED
      BY <1>6, <1>10, <2>1, <3>1 DEF ConfInv
  <2>2. CASE l.form # "blank"
    <3>1. PICK b \in BOOLEAN : /\ b = FALSE <=> Yields(l) = <<>> /\ Gone(l)
                               /\ parser'.outcomes = WithOutcome(parser.outcomes, b)
      BY <1>10, <2>2
    <3>2. PICK Y : Y = Lost'
      OBVIOUS
    <3>3. b = FALSE <=> n \in Y
      BY <1>8, <2>2, <3>1, <3>2
    <3>4. \A i \in Lines : i \in Lost <=> i \in Y
      BY <1>7, <3>2
    <3>5. Ranked(Lines) /\ Judges(parser.outcomes, Lines, Lost) /\ n \in Nat /\ \A i \in Lines : i < n
      BY <1>2, <1>5 DEF ConfInv
    <3>6. Judges(WithOutcome(parser.outcomes, b), Lines \cup {n}, Y)
      BY <3>3, <3>4, <3>5, JudgesNext
    <3>7. Ranked(Lines \cup {n}) /\ Cardinality(Lines \cup {n}) = Cardinality(Lines) + 1
      BY <3>5, RanksGrow
    <3> QED
      BY <1>6, <1>10, <2>2, <3>1, <3>2, <3>6, <3>7 DEF ConfInv
  <2> QED
    BY <2>1, <2>2
<1>12. opened' \in 0 .. Len(file')
  BY <1>1, <1>2, <1>4
<1>13. "own" \in DOMAIN health' /\ (resumes' = 0 => health'.own = None)
  <2>1. "own" \in DOMAIN health /\ (resumes = 0 => health.own = None)
    BY DEF ConfInv
  <2>2. "own" \in DOMAIN health' /\ health'.own = health.own
    BY <1>0, <2>1
  <2> QED
    BY <1>1, <2>1, <2>2
<1> QED
  BY <1>1, <1>10, <1>11, <1>12, <1>13 DEF ConfInv

LEMMA NothingJudged ==
  ASSUME NEW L, L = {}, NEW X
  PROVE  Ranked(L) /\ Judges(NewParser.outcomes, L, X) /\ NewParser.total = Cardinality(L)
<1>1. Cardinality(L) = 0 /\ IsFiniteSet(L)
  BY FS_EmptySet
<1>2. NewParser.outcomes = <<>> /\ NewParser.total = 0
  BY DEF NewParser
<1>3. Window \in Nat \ {0}
  BY ParserAssumption
<1>4. <<>> \in Seq(BOOLEAN) /\ Len(<<>>) = 0
  OBVIOUS
<1> QED
  BY <1>1, <1>2, <1>3, <1>4 DEF Ranked, Judges

LEMMA ConfStart == Init => ConfInv
<1> SUFFICES ASSUME Init PROVE ConfInv
  OBVIOUS
<1>1. /\ file = <<>> /\ opened = 0 /\ parser = NewParser /\ resumes = 0
      /\ health.own = None /\ "own" \in DOMAIN health
  BY DEF Init
<1>2. Len(file) = 0
  BY <1>1
<1>3. Lines = {}
  BY <1>1, <1>2 DEF Lines
<1>4. PICK L, X : L = Lines /\ X = Lost /\ L = {}
  BY <1>3
<1>5. Ranked(L) /\ Judges(NewParser.outcomes, L, X) /\ NewParser.total = Cardinality(L)
  BY <1>4, NothingJudged
<1> QED
  BY <1>1, <1>2, <1>4, <1>5 DEF ConfInv

LEMMA ConfSteps ==
  ASSUME ToldInv, ConfInv, [Next]_vars
  PROVE  ConfInv'
<1>1. CASE \E l \in alphabet : IngestLine(l)
  BY <1>1, ConfIngests
<1>2. CASE \E size \in Sizes : Resume(size)
  <2>1. /\ file' = file /\ opened' = Len(file) /\ parser' = NewParser /\ resumes' = resumes + 1
    BY <1>2 DEF Resume
  <2>2. Len(file) \in Nat
    BY SeqIs DEF ToldInv
  <2>3. Lines' = {}
    BY <2>1, <2>2 DEF Lines
  <2>4. resumes' \in Nat /\ resumes' # 0
    BY <2>1 DEF ConfInv
  <2>5. PICK L, X : L = Lines' /\ X = Lost' /\ L = {}
    BY <2>3
  <2>6. Ranked(L) /\ Judges(NewParser.outcomes, L, X) /\ NewParser.total = Cardinality(L)
    BY <2>5, NothingJudged
  <2>7. "own" \in DOMAIN health'
    BY <1>2 DEF Resume
  <2> QED
    BY <2>1, <2>2, <2>4, <2>5, <2>6, <2>7 DEF ConfInv
<1>3. CASE Evict \/ UNCHANGED vars
  <2>1. /\ told' = told /\ file' = file /\ opened' = opened /\ parser' = parser
        /\ health' = health /\ resumes' = resumes
    BY <1>3 DEF Evict, vars, history, collectors
  <2>2. Lines' = Lines
    BY <2>1 DEF Lines
  <2>3. Lost' = Lost
    BY <2>1, <2>2 DEF Lost
  <2> QED
    BY <2>1, <2>2, <2>3 DEF ConfInv
<1> QED
  BY <1>1, <1>2, <1>3 DEF Next

LEMMA ConfTells == ConfInv => ConfidenceIsRecent
<1> SUFFICES ASSUME ConfInv PROVE ConfidenceIsRecent
  OBVIOUS
<1> DEFINE recent == {i \in Lines : After(Lines, i) < Window}
           lost == {i \in recent \cap Mute :
                      \/ file[i].form # "object"
                      \/ Kind(file[i]) \notin {"assistant", "user", Structural}
                      \/ Kind(file[i]) # Structural /\ file[i].body = "flat"}
<1>1. lost = recent \cap Lost
  BY DEF Mute, Lines, Lost, Gone
<1>2. /\ Len(parser.outcomes) = Cardinality(recent)
      /\ Cardinality(Bad(parser.outcomes)) = Cardinality(recent \cap Lost)
      /\ recent \subseteq Lost => Bad(parser.outcomes) = DOMAIN parser.outcomes
  BY JudgesCount DEF ConfInv
<1>3. ASSUME resumes = 0, Cardinality(Lines) >= HealthWindow, lost = recent, HealthNum > 0
      PROVE  HealthCritical
  <2>1. health.own = None /\ parser.total = Cardinality(Lines)
    BY <1>3 DEF ConfInv
  <2>2. \A k \in DOMAIN parser.outcomes : ~parser.outcomes[k]
    BY <1>1, <1>2, <1>3 DEF Bad
  <2>3. {k \in DOMAIN parser.outcomes : parser.outcomes[k]} = {}
    BY <2>2
  <2>4. Cardinality({k \in DOMAIN parser.outcomes : parser.outcomes[k]}) = 0
    BY <2>3, FS_EmptySet
  <2>5. Len(parser.outcomes) \in Nat \ {0}
    <3>1. Cardinality(Lines) \in Nat
      BY FS_CardinalityType DEF ConfInv, Ranked
    <3> QED
      BY <1>3, <3>1, HealthAssumption, ParserAssumption DEF ConfInv, Judges
  <2>6. PICK c, n : c = 0 /\ n \in Nat \ {0} /\ n = Len(parser.outcomes)
                    /\ c = Cardinality({k \in DOMAIN parser.outcomes : parser.outcomes[k]})
    BY <2>4, <2>5
  <2>7. c * HealthDen < HealthNum * n
    <3>1. c * HealthDen = 0
      BY <2>6, HealthAssumption
    <3>2. HealthNum * n > 0
      <4>1. HealthNum \in Nat \ {0} /\ n \in Nat \ {0}
        BY <1>3, <2>6, HealthAssumption
      <4> QED
        BY <4>1
    <3> QED
      BY <2>6, <3>1, <3>2, HealthAssumption
  <2>8. ConfidenceBelow(parser, HealthNum, HealthDen)
    BY <2>6, <2>7 DEF ConfidenceBelow
  <2> QED
    BY <1>3, <2>1, <2>8 DEF HealthCritical
<1>4. recent = {i \in Lines : Cardinality({j \in Lines : j > i}) < Window}
  BY DEF After
<1>5. Lines = {i \in opened + 1 .. Len(file) : file[i].form # "blank"}
  BY DEF Lines
<1> HIDE DEF recent, lost
<1> QED
  BY <1>1, <1>2, <1>3, <1>4, <1>5 DEF ConfidenceIsRecent, Bad, recent, lost

\* ConfidenceIsRecent: parse_confidence is the share of good lines among the
\* last Window lines of the process and of no others (parser.py:218), and
\* parse_health is CRITICAL when a full window was lost from the start.
THEOREM ConfidenceForgets == Spec => []ConfidenceIsRecent
<1>1. Init => ToldInv /\ EachMessageOnce /\ ConfInv
  BY ToldStart, ConfStart
<1>2. ToldInv /\ EachMessageOnce /\ ConfInv /\ [Next]_vars =>
        ToldInv' /\ EachMessageOnce' /\ ConfInv'
  BY ToldStep, ConfSteps
<1>3. ConfInv => ConfidenceIsRecent
  BY ConfTells
<1> QED
  BY <1>1, <1>2, <1>3, PTL DEF Spec

---------------------------------------------------------------------------
(* Sums.  The sum over a set is a recursive function of its subsets.        *)

First(S) == CHOOSE x \in S : TRUE
Sums(h, f, T) ==
  \A S \in SUBSET T : h[S] = IF S = {} THEN 0 ELSE f[First(S)] + h[S \ {First(S)}]

LEMMA Smaller ==
  ASSUME NEW T, IsFiniteSet(T), NEW S \in SUBSET T
  PROVE  /\ IsFiniteSet(S) /\ Cardinality(S) \in Nat /\ (Cardinality(S) = 0 <=> S = {})
         /\ \A x \in S : S \ {x} \in SUBSET T /\ Cardinality(S \ {x}) = Cardinality(S) - 1
         /\ S # {} => First(S) \in S
<1>1. IsFiniteSet(S) /\ Cardinality(S) \in Nat
  BY FS_Subset, FS_CardinalityType
<1>2. Cardinality(S) = 0 <=> S = {}
  BY <1>1, FS_EmptySet
<1>3. \A x \in S : Cardinality(S \ {x}) = Cardinality(S) - 1
  BY <1>1, FS_RemoveElement
<1> QED
  BY <1>1, <1>2, <1>3 DEF First

LEMMA SumExists ==
  ASSUME NEW T, IsFiniteSet(T), NEW f, \A x \in T : f[x] \in Nat
  PROVE  \E h \in [SUBSET T -> Nat] : Sums(h, f, T)
<1> DEFINE upTo(k) == {S \in SUBSET T : Cardinality(S) <= k}
           fits(h, k) == \A S \in upTo(k) :
             h[S] = IF S = {} THEN 0 ELSE f[First(S)] + h[S \ {First(S)}]
           K == {k \in Nat : \E h \in [upTo(k) -> Nat] : fits(h, k)}
<1>1. 0 \in K
  <2>1. \A S \in upTo(0) : S = {}
    BY Smaller
  <2>2. [S \in upTo(0) |-> 0] \in [upTo(0) -> Nat] /\ fits([S \in upTo(0) |-> 0], 0)
    BY <2>1
  <2> QED
    BY <2>2
<1>2. ASSUME NEW k \in Nat, k \in K PROVE k + 1 \in K
  <2>1. PICK h \in [upTo(k) -> Nat] : fits(h, k)
    BY <1>2
  <2> DEFINE next(S) == IF S = {} THEN 0 ELSE f[First(S)] + h[S \ {First(S)}]
             g == [S \in upTo(k + 1) |-> next(S)]
  <2>2. \A S \in upTo(k + 1) : S # {} => First(S) \in T /\ S \ {First(S)} \in upTo(k)
    <3> SUFFICES ASSUME NEW S \in upTo(k + 1), S # {}
                 PROVE  First(S) \in T /\ S \ {First(S)} \in upTo(k)
      OBVIOUS
    <3>1. S \in SUBSET T /\ Cardinality(S) <= k + 1
      OBVIOUS
    <3>2. /\ First(S) \in S /\ Cardinality(S) \in Nat /\ S \ {First(S)} \in SUBSET T
          /\ Cardinality(S \ {First(S)}) = Cardinality(S) - 1
      BY <3>1, Smaller
    <3>3. Cardinality(S) - 1 <= k
      BY <3>1, <3>2
    <3> QED
      BY <3>1, <3>2, <3>3
  <2>3. \A S \in upTo(k + 1) : next(S) \in Nat
    <3> SUFFICES ASSUME NEW S \in upTo(k + 1), S # {} PROVE next(S) \in Nat
      OBVIOUS
    <3>1. f[First(S)] \in Nat /\ h[S \ {First(S)}] \in Nat
      BY <2>2
    <3> QED
      BY <3>1
  <2>4. \A S \in upTo(k) : S \in upTo(k + 1) /\ g[S] = h[S]
    <3> SUFFICES ASSUME NEW S \in upTo(k) PROVE S \in upTo(k + 1) /\ g[S] = h[S]
      OBVIOUS
    <3>1. S \in upTo(k + 1)
      BY Smaller
    <3> QED
      BY <2>1, <3>1
  <2>5. g \in [upTo(k + 1) -> Nat]
    <3> HIDE DEF next
    <3> QED
      BY <2>3
  <2>6. fits(g, k + 1)
    <3>1. \A S \in upTo(k + 1) : g[S] = next(S)
      OBVIOUS
    <3> HIDE DEF g
    <3> QED
      BY <2>2, <2>4, <3>1
  <2> HIDE DEF g, fits, upTo
  <2>7. \E g1 \in [upTo(k + 1) -> Nat] : fits(g1, k + 1)
    BY <2>5, <2>6
  <2> QED
    BY <2>7
<1>3. Cardinality(T) \in K
  <2> HIDE DEF K
  <2> QED
    BY <1>1, <1>2, Induction, FS_CardinalityType
<1>4. upTo(Cardinality(T)) = SUBSET T
  BY FS_Subset
<1> QED
  BY <1>3, <1>4 DEF Sums

LEMMA SumIs ==
  ASSUME NEW T, IsFiniteSet(T), NEW f, \A x \in T : f[x] \in Nat
  PROVE  \E h \in [SUBSET T -> Nat] : Sums(h, f, T) /\ SumFunctionOnSet(f, T) = h[T]
<1> DEFINE isSum(g) == g = [s \in SUBSET T |->
                              IF s = {} THEN 0 ELSE f[CHOOSE x \in s : TRUE] + g[s \ {CHOOSE x \in s : TRUE}]]
           sum == CHOOSE g : isSum(g)
<1>1. SumFunctionOnSet(f, T) = sum[T]
  BY DEF SumFunctionOnSet, FoldFunctionOnSet, MapThenFoldSet
<1> HIDE DEF isSum, sum
<1>2. PICK h \in [SUBSET T -> Nat] : Sums(h, f, T)
  BY SumExists
<1>3. isSum(h)
  BY <1>2 DEF Sums, isSum, First
<1>4. isSum(sum)
  BY <1>3 DEF sum
<1>5. \A s \in SUBSET T : sum[s] = IF s = {} THEN 0 ELSE f[First(s)] + sum[s \ {First(s)}]
  BY <1>4 DEF isSum, First
<1> DEFINE K == {k \in Nat : \A S \in SUBSET T : Cardinality(S) = k => sum[S] = h[S]}
<1>6. 0 \in K
  BY <1>2, <1>5, Smaller DEF Sums
<1>7. ASSUME NEW k \in Nat, k \in K PROVE k + 1 \in K
  <2> SUFFICES ASSUME NEW S \in SUBSET T, Cardinality(S) = k + 1 PROVE sum[S] = h[S]
    OBVIOUS
  <2>1. /\ S # {} /\ S \ {First(S)} \in SUBSET T /\ Cardinality(S \ {First(S)}) = k
    BY Smaller
  <2>2. sum[S \ {First(S)}] = h[S \ {First(S)}]
    BY <1>7, <2>1
  <2> QED
    BY <1>2, <1>5, <2>1, <2>2 DEF Sums
<1>8. Cardinality(T) \in K
  <2> HIDE DEF K
  <2> QED
    BY <1>6, <1>7, Induction, FS_CardinalityType
<1>9. sum[T] = h[T]
  BY <1>8
<1> QED
  BY <1>1, <1>2, <1>9

\* A sum is a number, and grows with its terms.
LEMMA SumGrows ==
  ASSUME NEW T, IsFiniteSet(T), NEW f, NEW g, \A x \in T : f[x] \in Nat /\ g[x] \in Nat /\ f[x] <= g[x]
  PROVE  /\ SumFunctionOnSet(f, T) \in Nat /\ SumFunctionOnSet(g, T) \in Nat
         /\ SumFunctionOnSet(f, T) <= SumFunctionOnSet(g, T)
         /\ (\E x \in T : f[x] < g[x]) => SumFunctionOnSet(f, T) < SumFunctionOnSet(g, T)
<1>1. PICK a \in [SUBSET T -> Nat] : Sums(a, f, T) /\ SumFunctionOnSet(f, T) = a[T]
  BY SumIs
<1>2. PICK b \in [SUBSET T -> Nat] : Sums(b, g, T) /\ SumFunctionOnSet(g, T) = b[T]
  BY SumIs
<1> DEFINE K == {k \in Nat : \A S \in SUBSET T : Cardinality(S) = k =>
                   a[S] <= b[S] /\ ((\E x \in S : f[x] < g[x]) => a[S] < b[S])}
<1>3. 0 \in K
  BY <1>1, <1>2, Smaller DEF Sums
<1>4. ASSUME NEW k \in Nat, k \in K PROVE k + 1 \in K
  <2> SUFFICES ASSUME NEW S \in SUBSET T, Cardinality(S) = k + 1
               PROVE  a[S] <= b[S] /\ ((\E x \in S : f[x] < g[x]) => a[S] < b[S])
    OBVIOUS
  <2>1. PICK x : x = First(S)
    OBVIOUS
  <2>2. PICK R : R = S \ {x}
    OBVIOUS
  <2>3. S # {} /\ x \in S /\ R \in SUBSET T /\ Cardinality(R) = k
    BY <2>1, <2>2, Smaller
  <2>4. a[R] <= b[R] /\ ((\E y \in R : f[y] < g[y]) => a[R] < b[R])
    BY <1>4, <2>3
  <2>5. a[S] = f[x] + a[R] /\ b[S] = g[x] + b[R]
    BY <1>1, <1>2, <2>1, <2>2, <2>3 DEF Sums
  <2>6. a[R] \in Nat /\ b[R] \in Nat /\ f[x] \in Nat /\ g[x] \in Nat /\ f[x] <= g[x]
    BY <2>3
  <2>7. a[S] <= b[S]
    BY <2>4, <2>5, <2>6
  <2>8. ASSUME NEW y \in S, f[y] < g[y] PROVE a[S] < b[S]
    <3>1. CASE y = x
      BY <2>4, <2>5, <2>6, <2>8, <3>1
    <3>2. CASE y # x
      BY <2>2, <2>4, <2>5, <2>6, <2>8, <3>2
    <3> QED
      BY <3>1, <3>2
  <2> QED
    BY <2>7, <2>8
<1>5. Cardinality(T) \in K
  <2> HIDE DEF K
  <2> QED
    BY <1>3, <1>4, Induction, FS_CardinalityType
<1> QED
  BY <1>1, <1>2, <1>5

---------------------------------------------------------------------------
(* Drift leaves a trace                                                    *)

LEMMA OnlyNone ==
  ASSUME NEW s, IsSeq(s), NEW A, Only(s, A) = <<>>
  PROVE  \A x \in Range(s) : x \notin A
<1>1. PICK T : T = Range(s)
  OBVIOUS
<1>2. s \in Seq(T)
  BY <1>1 DEF IsSeq
<1>3. PICK f : Filters(f, T, s, A)
  BY <1>2, OnlyFolds
<1>4. Len(s) \in Nat /\ DOMAIN s = 1 .. Len(s) /\ \A i \in 1 .. Len(s) : s[i] \in T
  BY <1>2, LenProperties
<1> DEFINE K == {k \in Nat : k <= Len(s) /\ f[k] = <<>> => \A i \in 1 .. k : s[i] \notin A}
<1>5. 0 \in K
  OBVIOUS
<1>6. ASSUME NEW k \in Nat, k \in K PROVE k + 1 \in K
  <2> SUFFICES ASSUME k + 1 <= Len(s), f[k + 1] = <<>>
               PROVE  \A i \in 1 .. (k + 1) : s[i] \notin A
    OBVIOUS
  <2>1. k + 1 \in 1 .. Len(s) /\ (k + 1) - 1 = k /\ k \in 0 .. Len(s) /\ k <= Len(s)
    BY <1>4
  <2>2. f[k + 1] = IF s[k + 1] \in A THEN Append(f[k], s[k + 1]) ELSE f[k]
    BY <1>3, <2>1 DEF Filters
  <2>3. f[k] \in Seq(T \cap A) /\ s[k + 1] \in T
    BY <1>3, <1>4, <2>1 DEF Filters
  <2>4. ASSUME s[k + 1] \in A PROVE FALSE
    <3>1. PICK a \in Seq(T) : a = f[k]
      BY <2>3
    <3>2. PICK x \in T : x = s[k + 1]
      BY <2>3
    <3>3. Append(a, x) # <<>>
      <4>1. Len(Append(a, x)) = Len(a) + 1 /\ Len(a) \in Nat
        BY AppendProperties, LenProperties
      <4>2. Len(<<>>) = 0
        BY EmptyIs
      <4> QED
        BY <4>1, <4>2
    <3> QED
      BY <2>2, <2>4, <3>1, <3>2, <3>3
  <2>5. \A i \in 1 .. k : s[i] \notin A
    BY <1>6, <2>1, <2>2, <2>4
  <2> QED
    BY <2>4, <2>5
<1>7. Len(s) \in K
  <2> HIDE DEF K
  <2> QED
    BY <1>4, <1>5, <1>6, Induction
<1>8. f[Len(s)] = <<>>
  BY <1>3 DEF Filters
<1> QED
  BY <1>4, <1>7, <1>8 DEF Range

\* A line that yields nothing, is no duplicate and is not vacuous, misses a field.
LEMMA QuietLinesMiss ==
  ASSUME NEW l, LineOK(l), l.form = "object", Kind(l) # None, Yields(l) = <<>>,
         ~ Duplicate(l), ~ Vacuous(l)
  PROVE  \E r \in Range(Results(l)) : Marks(r)
<1> DEFINE A == {r \in Range(Results(l)) : r.kind # None}
           built == Only(Results(l), A)
<1>1. IsSeq(Results(l)) /\ \A r \in Range(Results(l)) : ResultOK(r)
  BY ResultsAre
<1>2. built = <<>>
  <2> HIDE DEF A
  <2>1. IsSeq(built)
    BY <1>1, OnlyIsSeq
  <2>2. PICK b : b = built
    OBVIOUS
  <2>3. EventsOf(l) = [i \in DOMAIN b |->
          [kind |-> b[i].kind, payload |-> b[i].payload, resolved |-> l.ts = "good",
           id |-> MessageId(l)]]
    BY <2>2 DEF EventsOf, Filtered, A
  <2>4. DOMAIN b = DOMAIN EventsOf(l)
    BY <2>3
  <2>5. EventsOf(l) = <<>>
    BY DEF Yields
  <2>6. DOMAIN b = {}
    BY <2>4, <2>5, EmptyIs
  <2> QED
    BY <2>1, <2>2, <2>6, SeqIs, EmptyIs
<1>3. \A r \in Range(Results(l)) : r.kind = None
  <2>1. \A r \in Range(Results(l)) : r \notin A
    <3> HIDE DEF A
    <3> QED
      BY <1>1, <1>2, OnlyNone
  <2> QED
    BY <2>1
<1>4. \A r \in Range(Results(l)) : Marks(r)
  BY <1>1, <1>3 DEF ResultOK
<1>5. Results(l) # <<>>
  <2> SUFFICES ASSUME Results(l) = <<>> PROVE FALSE
    OBVIOUS
  <2>0. <<SystemEvent>> # <<>> /\ \A f : <<Misses(f)>> # <<>>
    OBVIOUS
  <2>1. Kind(l) # Structural
    BY DEF Vacuous
  <2>2. Kind(l) \in {"assistant", "user"}
    BY <2>0, <2>1 DEF Results
  <2>3. /\ BlockResults(l) = <<>> /\ l.body # "flat"
        /\ ~ (l.body = "message" /\ Kind(l) = "user")
    <3>1. PICK r : r = BlockResults(l)
      OBVIOUS
    <3>2. Results(l) = IF r = <<>> /\ l.body = "flat" THEN << Misses("message") >>
                       ELSE IF r = <<>> /\ l.body = "message" /\ Kind(l) = "user"
                            THEN << Misses("text") >> ELSE r
      BY <2>2, <3>1 DEF Results, Structural
    <3> QED
      BY <2>0, <3>1, <3>2
  <2>4. <<Kind(l), l.body>> \in {<<"user", "content">>, <<"assistant", "content">>,
                                 <<"assistant", "message">>}
    BY <2>2, <2>3 DEF LineOK
  <2>5. ContentBlocks(l) = <<>>
    <3>1. IsSeq(ContentBlocks(l))
      BY OnlyIsSeq DEF ContentBlocks, Filtered, LineOK
    <3>2. PICK c : c = ContentBlocks(l)
      OBVIOUS
    <3>3. BlockResults(l) = [i \in DOMAIN c |-> IF Kind(l) = "assistant" THEN AssistantBlock(c[i]) ELSE UserBlock(c[i])]
      BY <2>3, <3>2 DEF BlockResults
    <3>4. DOMAIN c = DOMAIN BlockResults(l)
      BY <3>3
    <3> QED
      BY <2>3, <3>1, <3>2, <3>4, SeqIs, EmptyIs
  <2>6. \A b \in Range(l.blocks) : b.kind = "junk"
    <3>1. PICK B : B = {x \in Range(l.blocks) : x.kind # "junk"}
      OBVIOUS
    <3>2. Only(l.blocks, B) = <<>> /\ IsSeq(l.blocks)
      BY <2>5, <3>1 DEF ContentBlocks, Filtered, LineOK
    <3>3. \A b \in Range(l.blocks) : b \notin B
      BY <3>2, OnlyNone
    <3> QED
      BY <3>1, <3>3
  <2> QED
    BY <2>4, <2>6 DEF Vacuous
<1>6. \E r : r \in Range(Results(l))
  <2>1. PICK s : s = Results(l)
    OBVIOUS
  <2>2. DOMAIN s # {}
    BY <1>1, <1>5, <2>1, SeqIs, EmptyIs
  <2> QED
    BY <2>1, <2>2 DEF Range
<1> QED
  BY <1>4, <1>6

\* The statistics that a line may move.
Stats == parser.missing \in [Fields -> Nat] /\ parser.duplicates \in Nat /\ DOMAIN parser = DOMAIN NewParser
More(m, n) == \A f \in Fields : m[f] <= n[f]

LEMMA MissingGrows ==
  ASSUME Stats, NEW l, LineOK(l)
  PROVE  /\ Missing(l) \in [Fields -> Nat] /\ More(parser.missing, Missing(l))
         /\ \A r \in Range(Results(l)), f \in Fields :
              f \in r.missing => parser.missing[f] < Missing(l)[f]
<1>1. PICK s : s = Results(l)
  OBVIOUS
<1> DEFINE lacks(f) == {i \in DOMAIN s : f \in s[i].missing}
           undated(f) == IF f = "timestamp" /\ l.ts \in {"bad", "none"} THEN 1 ELSE 0
<1>2. IsSeq(s)
  BY <1>1, ResultsAre
<1>3. IsFiniteSet(DOMAIN s)
  <2>1. DOMAIN s = 1 .. Len(s) /\ Len(s) \in Nat
    BY <1>2, SeqIs
  <2> QED
    BY <2>1, FS_Interval
<1>4. Missing(l) = [f \in Fields |-> parser.missing[f] + Cardinality(lacks(f)) + undated(f)]
  BY <1>1 DEF Missing
<1>5. \A f : Cardinality(lacks(f)) \in Nat /\ (lacks(f) # {} => Cardinality(lacks(f)) > 0)
  <2> SUFFICES ASSUME NEW f PROVE Cardinality(lacks(f)) \in Nat /\ (lacks(f) # {} => Cardinality(lacks(f)) > 0)
    OBVIOUS
  <2>1. lacks(f) \in SUBSET DOMAIN s
    OBVIOUS
  <2> HIDE DEF lacks
  <2>2. Cardinality(lacks(f)) \in Nat /\ (Cardinality(lacks(f)) = 0 <=> lacks(f) = {})
    BY <1>3, <2>1, Smaller
  <2> QED
    BY <2>2
<1>6. \A r \in Range(s), f \in Fields : f \in r.missing => lacks(f) # {}
  BY DEF Range
<1>7. \A f \in Fields : parser.missing[f] \in Nat
  BY DEF Stats
<1>8. \A f : undated(f) \in {0, 1}
  OBVIOUS
<1> HIDE DEF lacks, undated
<1>9. PICK m : m = Missing(l)
  OBVIOUS
<1>10. \A f \in Fields : m[f] = parser.missing[f] + Cardinality(lacks(f)) + undated(f)
  BY <1>4, <1>9
<1>11. \A f \in Fields : m[f] \in Nat /\ parser.missing[f] <= m[f] /\ (lacks(f) # {} => parser.missing[f] < m[f])
  BY <1>5, <1>7, <1>8, <1>10
<1>12. m \in [Fields -> Nat]
  BY <1>4, <1>9, <1>11
<1> QED
  BY <1>1, <1>6, <1>9, <1>11, <1>12 DEF More

\* What a line does to the statistics, and where it leaves a trace.
Shown == Fields \ {"timestamp"}

LEMMA FieldsAreFinite == IsFiniteSet(Shown)
<1>1. /\ IsFiniteSet({"__json__", "__object__", "type"} \cup {"content.type"})
      /\ IsFiniteSet({"text"} \cup {"tool_name"}) /\ IsFiniteSet({"tool_use_id"} \cup {"input"})
      /\ IsFiniteSet({"thinking"} \cup {"message"})
  <2>1. IsFiniteSet({"__json__"} \cup {"__object__"})
    BY FS_Singleton, FS_Union
  <2>2. IsFiniteSet(({"__json__"} \cup {"__object__"}) \cup {"type"})
    BY <2>1, FS_Singleton, FS_Union
  <2>3. ({"__json__"} \cup {"__object__"}) \cup {"type"} = {"__json__", "__object__", "type"}
    OBVIOUS
  <2> QED
    BY <2>2, <2>3, FS_Singleton, FS_Union
<1>2. IsFiniteSet((({"__json__", "__object__", "type"} \cup {"content.type"}) \cup ({"text"} \cup {"tool_name"}))
                  \cup (({"tool_use_id"} \cup {"input"}) \cup ({"thinking"} \cup {"message"})))
  BY <1>1, FS_Union
<1>3. Shown = (({"__json__", "__object__", "type"} \cup {"content.type"}) \cup ({"text"} \cup {"tool_name"}))
              \cup (({"tool_use_id"} \cup {"input"}) \cup ({"thinking"} \cup {"message"}))
  BY DEF Shown, Fields
<1> QED
  BY <1>2, <1>3

LEMMA StatsMove ==
  ASSUME Stats, NEW l, LineOK(l), ParseLine(l)
  PROVE  /\ Stats' /\ More(parser.missing, parser'.missing) /\ parser.duplicates <= parser'.duplicates
         /\ \/ l.form = "blank" \/ Yields(l) # <<>> \/ Vacuous(l)
            \/ parser.duplicates < parser'.duplicates
            \/ \E f \in Shown : parser.missing[f] < parser'.missing[f]
<1>0. /\ {"total", "parsed", "duplicates", "outcomes", "missing", "seen", "noted"} \subseteq DOMAIN parser
      /\ \A f \in Fields : parser.missing[f] \in Nat
      /\ More(parser.missing, parser.missing) /\ parser.duplicates \in Nat
      /\ DOMAIN parser = DOMAIN NewParser
  BY DEF NewParser, Stats, More
<1>9. \A f \in {"__json__", "__object__", "type"} :
        LET m == [parser.missing EXCEPT ![f] = parser.missing[f] + 1]
        IN /\ f \in Shown /\ m \in [Fields -> Nat] /\ More(parser.missing, m)
           /\ parser.missing[f] < m[f]
  <2> SUFFICES ASSUME NEW f \in {"__json__", "__object__", "type"}
               PROVE  LET m == [parser.missing EXCEPT ![f] = parser.missing[f] + 1]
                      IN /\ f \in Shown /\ m \in [Fields -> Nat] /\ More(parser.missing, m)
                         /\ parser.missing[f] < m[f]
    OBVIOUS
  <2>1. f \in Fields /\ f \in Shown
    BY DEF Shown, Fields
  <2> QED
    BY <1>0, <2>1 DEF Stats, More
<1>1. CASE SkipBlank(l)
  <2>1. parser' = parser /\ l.form = "blank"
    BY <1>1 DEF SkipBlank
  <2> QED
    BY <1>0, <2>1 DEF Stats
<1>2. CASE Malformed(l)
  <2>0. PICK f : f = IF l.form = "garbage" THEN "__json__" ELSE "__object__"
    OBVIOUS
  <2>4. f \in {"__json__", "__object__"} /\ f \in Fields
    BY <2>0 DEF Fields
  <2>1. PICK n, o : parser' =
          [[[parser EXCEPT !.total = n]
              EXCEPT !.missing = [parser.missing EXCEPT ![f] = parser.missing[f] + 1]]
             EXCEPT !.outcomes = o]
    <3>1. PICK n : n = [parser EXCEPT !.total = parser.total + 1]
      OBVIOUS
    <3>2. n.missing = parser.missing
      BY <1>0, <3>1
    <3>3. \E o : parser' = [[n EXCEPT !.missing = [n.missing EXCEPT ![f] = n.missing[f] + 1]]
                            EXCEPT !.outcomes = o]
      BY <1>2, <2>0, <3>1 DEF Malformed
    <3> QED
      BY <3>1, <3>2, <3>3
  <2>2. PICK m : m = [parser.missing EXCEPT ![f] = parser.missing[f] + 1]
    OBVIOUS
  <2>3. /\ parser'.missing = m /\ parser'.duplicates = parser.duplicates
        /\ DOMAIN parser' = DOMAIN parser
    BY <1>0, <2>1, <2>2
  <2>5. f \in Shown /\ m \in [Fields -> Nat] /\ More(parser.missing, m) /\ parser.missing[f] < m[f]
    BY <1>9, <2>2, <2>4
  <2> QED
    BY <1>0, <2>3, <2>5 DEF Stats
<1>5. /\ DOMAIN AfterSample(l) = DOMAIN parser /\ AfterSample(l).missing = parser.missing
      /\ AfterSample(l).duplicates = parser.duplicates
  BY <1>0 DEF AfterSample
<1>3. CASE Typeless(l)
  <2>1. PICK o : parser' = [[AfterSample(l) EXCEPT
                               !.missing = [AfterSample(l).missing EXCEPT !["type"] = AfterSample(l).missing["type"] + 1]]
                              EXCEPT !.outcomes = o]
    BY <1>3 DEF Typeless
  <2>2. PICK m : m = [parser.missing EXCEPT !["type"] = parser.missing["type"] + 1]
    OBVIOUS
  <2> HIDE DEF AfterSample
  <2>3. /\ parser'.missing = m /\ parser'.duplicates = parser.duplicates
        /\ DOMAIN parser' = DOMAIN parser
    BY <1>0, <1>5, <2>1, <2>2
  <2> QED
    BY <1>0, <1>9, <2>2, <2>3 DEF Stats
<1>4. CASE Dispatch(l)
  <2>1. l.form = "object" /\ Kind(l) # None
    BY <1>4 DEF Dispatch
  <2>2. PICK d : d = IF Duplicate(l) THEN AfterSample(l).duplicates + 1 ELSE AfterSample(l).duplicates
    OBVIOUS
  <2>3. PICK p, o, s, n : parser' =
                [[[[[[AfterSample(l) EXCEPT !.parsed = p] EXCEPT !.duplicates = d]
                     EXCEPT !.missing = Missing(l)]
                    EXCEPT !.outcomes = o]
                   EXCEPT !.seen = s] EXCEPT !.noted = n]
    BY <1>4, <2>2 DEF Dispatch
  <2>4. PICK m : m = Missing(l)
    OBVIOUS
  <2> HIDE DEF AfterSample
  <2>5. /\ parser'.missing = m /\ parser'.duplicates = d /\ DOMAIN parser' = DOMAIN parser
    BY <1>0, <1>5, <2>3, <2>4
  <2>6. d \in Nat /\ parser.duplicates <= d /\ (Duplicate(l) => parser.duplicates < d)
    BY <1>0, <1>5, <2>2
  <2>7. m \in [Fields -> Nat] /\ More(parser.missing, m)
    BY <2>4, MissingGrows
  <2>8. ASSUME Yields(l) = <<>>, ~ Vacuous(l), ~ Duplicate(l)
        PROVE  \E f \in Shown : parser.missing[f] < m[f]
    <3>1. PICK r \in Range(Results(l)), f \in Shown : f \in r.missing
      BY <2>1, <2>8, QuietLinesMiss DEF Marks, Shown
    <3> QED
      BY <2>4, <3>1, MissingGrows DEF Shown
  <2> QED
    BY <1>0, <2>5, <2>6, <2>7, <2>8 DEF Stats
<1> QED
  BY <1>1, <1>2, <1>3, <1>4 DEF ParseLine

DriftInv == ToldInv /\ Stats

LEMMA QuietMeansTold ==
  ASSUME ToldInv, NEW l \in alphabet, IngestLine(l), told' = told
  PROVE  Yields(l) = <<>>
<1>1. \A i \in DOMAIN told' : told'[i].line \in 1 .. Len(file)
  BY DEF ToldInv
<1>2. Len(file) \in Nat /\ (Yields(l) # <<>> => \E i \in DOMAIN told' : told'[i].line = Len(file) + 1)
  BY ToldGrows
<1> QED
  BY <1>1, <1>2

LEMMA TraceIsLeft ==
  ASSUME DriftInv, NEW l \in alphabet, IngestLine(l), told' = told
  PROVE  l.form = "blank" \/ Vacuous(l) \/ Traces(parser') > Traces(parser)
<1>1. ParseLine(l) /\ LineOK(l) /\ Yields(l) = <<>>
  BY QuietMeansTold, LinesAreOK DEF IngestLine, DriftInv, ToldInv
<1>2. PICK m : m = parser.missing
  OBVIOUS
<1>3. PICK n : n = parser'.missing
  OBVIOUS
<1>4. /\ m \in [Fields -> Nat] /\ n \in [Fields -> Nat] /\ More(m, n)
      /\ parser.duplicates \in Nat /\ parser'.duplicates \in Nat /\ parser.duplicates <= parser'.duplicates
  BY <1>1, <1>2, <1>3, StatsMove DEF DriftInv, Stats
<1>5. \A f \in Shown : m[f] \in Nat /\ n[f] \in Nat /\ m[f] <= n[f]
  BY <1>4 DEF Shown, More
<1>6. /\ SumFunctionOnSet(m, Shown) \in Nat /\ SumFunctionOnSet(n, Shown) \in Nat
      /\ SumFunctionOnSet(m, Shown) <= SumFunctionOnSet(n, Shown)
      /\ (\E f \in Shown : m[f] < n[f]) => SumFunctionOnSet(m, Shown) < SumFunctionOnSet(n, Shown)
  BY <1>5, FieldsAreFinite, SumGrows
<1>7. /\ Traces(parser) = parser.duplicates + SumFunctionOnSet(m, Shown)
      /\ Traces(parser') = parser'.duplicates + SumFunctionOnSet(n, Shown)
  BY <1>2, <1>3 DEF Traces, Shown
<1>8. \/ l.form = "blank" \/ Vacuous(l) \/ parser.duplicates < parser'.duplicates
      \/ \E f \in Shown : m[f] < n[f]
  BY <1>1, <1>2, <1>3, StatsMove DEF DriftInv
<1> QED
  BY <1>4, <1>6, <1>7, <1>8

LEMMA StatsStart == Init => Stats
  BY DEF Init, Stats, NewParser

LEMMA StatsStep ==
  ASSUME ToldInv, Stats, [Next]_vars
  PROVE  Stats'
<1>1. ASSUME NEW l \in alphabet, IngestLine(l) PROVE Stats'
  <2>1. ParseLine(l) /\ LineOK(l)
    BY <1>1, LinesAreOK DEF IngestLine, ToldInv
  <2> QED
    BY <2>1, StatsMove
<1>2. CASE \E size \in Sizes : Resume(size)
  <2>1. parser' = NewParser
    BY <1>2 DEF Resume
  <2> QED
    BY <2>1 DEF Stats, NewParser
<1>3. CASE Evict \/ UNCHANGED vars
  <2>1. parser' = parser
    BY <1>3 DEF Evict, vars
  <2> QED
    BY <2>1 DEF Stats
<1> QED
  BY <1>1, <1>2, <1>3 DEF Next

\* DriftLeavesATrace: a line that tells nothing, and is not one that is known to
\* hold nothing, moves the statistics that parse_health shows: a field counts as
\* missing, or the message as a duplicate (docs/design.md:429).
THEOREM TracesAreLeft == Spec => DriftLeavesATrace
<1>1. Init => DriftInv
  BY ToldStart, StatsStart DEF DriftInv
<1>2. ToldInv /\ EachMessageOnce /\ Stats /\ [Next]_vars => (ToldInv /\ EachMessageOnce /\ Stats)'
  BY ToldStep, StatsStep
<1>3. ASSUME ToldInv, EachMessageOnce, Stats, [Next]_vars
      PROVE  [Len(file') > Len(file) /\ told' = told =>
                LET l == Last(file')
                IN l.form = "blank" \/ Vacuous(l) \/ Traces(parser') > Traces(parser)]_vars
  <2> SUFFICES ASSUME Next, Len(file') > Len(file), told' = told
               PROVE  LET l == Last(file')
                      IN l.form = "blank" \/ Vacuous(l) \/ Traces(parser') > Traces(parser)
    BY <1>3
  <2>1. Len(file) \in Nat
    BY <1>3, SeqIs DEF ToldInv
  <2>2. PICK l \in alphabet : IngestLine(l)
    BY <2>1 DEF Next, Resume, Evict, history
  <2>3. Last(file') = l
    <3>1. file' = Append(file, l) /\ IsSeq(file)
      BY <1>3, <2>2 DEF IngestLine, ToldInv
    <3>2. PICK v : v = Append(file, l)
      OBVIOUS
    <3>3. Len(v) = Len(file) + 1 /\ v[Len(file) + 1] = l
      BY <3>1, <3>2, IsSeqAppend
    <3> QED
      BY <3>1, <3>2, <3>3 DEF Last
  <2>4. l.form = "blank" \/ Vacuous(l) \/ Traces(parser') > Traces(parser)
    BY <1>3, <2>2, TraceIsLeft DEF DriftInv
  <2> QED
    BY <2>3, <2>4
<1> QED
  BY <1>1, <1>2, <1>3, ToldStart, PTL DEF Spec, DriftLeavesATrace, DriftInv

---------------------------------------------------------------------------
(* Concatenations and counts, over a sequence from its beginning.           *)

LEMMA StepwiseGrows ==
  ASSUME NEW S, NEW E, NEW step, IsStep(step, S, E), NEW base \in S, NEW s \in Seq(E), NEW x \in E,
         NEW f, Stepwise(f, S, step, base, s), NEW g, Stepwise(g, S, step, base, Append(s, x))
  PROVE  f[Len(s)] \in S /\ g[Len(s) + 1] = step[<<f[Len(s)], x>>]
<1>1. PICK u : u = Append(s, x)
  OBVIOUS
<1>2. PICK n \in Nat : n = Len(s)
  BY LenProperties
<1>3. Len(u) = n + 1 /\ u[n + 1] = x /\ \A i \in 1 .. n : u[i] = s[i]
  BY <1>1, <1>2, AppendProperties
<1>4. /\ f[0] = base /\ \A i \in 1 .. n : f[i] = step[<<f[i - 1], s[i]>>]
      /\ g[0] = base /\ \A i \in 1 .. (n + 1) : g[i] = step[<<g[i - 1], u[i]>>]
      /\ f \in [0 .. n -> S]
  BY <1>1, <1>2, <1>3 DEF Stepwise
<1> DEFINE K == {k \in Nat : k <= n => f[k] = g[k]}
<1>5. 0 \in K
  BY <1>4
<1>6. ASSUME NEW k \in Nat, k \in K PROVE k + 1 \in K
  <2> SUFFICES ASSUME k + 1 <= n PROVE f[k + 1] = g[k + 1]
    OBVIOUS
  <2>1. k + 1 \in 1 .. n /\ k + 1 \in 1 .. (n + 1) /\ (k + 1) - 1 = k /\ k <= n
    OBVIOUS
  <2>2. f[k] = g[k]
    BY <1>6, <2>1
  <2>3. f[k + 1] = step[<<f[k], s[k + 1]>>] /\ g[k + 1] = step[<<g[k], u[k + 1]>>]
    BY <1>4, <2>1
  <2> QED
    BY <1>3, <2>1, <2>2, <2>3
<1>7. n \in K
  <2> HIDE DEF K
  <2> QED
    BY <1>5, <1>6, Induction
<1>8. f[n] = g[n] /\ n + 1 \in 1 .. (n + 1) /\ (n + 1) - 1 = n /\ n \in 0 .. n
  BY <1>7
<1>9. g[n + 1] = step[<<g[n], u[n + 1]>>]
  BY <1>4, <1>8
<1> QED
  BY <1>2, <1>3, <1>4, <1>8, <1>9

Joins(T) == [a \in Seq(T) \X Seq(T) |-> a[1] \o a[2]]

LEMMA JoinsIs ==
  ASSUME NEW T
  PROVE  /\ IsStep(Joins(T), Seq(T), Seq(T)) /\ <<>> \in Seq(T)
         /\ \A a \in Seq(T), x \in Seq(T) : Joins(T)[<<a, x>>] = a \o x
<1>1. PICK S : S = Seq(T)
  OBVIOUS
<1>2. \A a \in S, x \in S : a \o x \in S
  BY <1>1
<1>3. <<>> \in S
  BY <1>1
<1>4. Joins(T) = [a \in S \X S |-> a[1] \o a[2]]
  BY <1>1 DEF Joins
<1>5. IsStep(Joins(T), S, S) /\ \A a \in S, x \in S : Joins(T)[<<a, x>>] = a \o x
  <2>1. \A a \in S, x \in S : Joins(T)[<<a, x>>] = a \o x
    BY <1>4
  <2>2. \A p \in S \X S : p[1] \o p[2] \in S
    BY <1>2
  <2>3. Joins(T) \in [S \X S -> S]
    BY <1>4, <2>2
  <2> QED
    BY <2>1, <2>3 DEF IsStep
<1> QED
  BY <1>1, <1>3, <1>5

LEMMA FlattenSteps ==
  ASSUME NEW T, NEW s \in Seq(Seq(T))
  PROVE  \E f : Stepwise(f, Seq(T), Joins(T), <<>>, s) /\ f[Len(s)] = FlattenSeq(s)
<1> DEFINE isFlat(g) == g = [i \in 1 .. Len(s) |-> IF i = 1 THEN s[i] ELSE g[i - 1] \o s[i]]
           flat == CHOOSE g : isFlat(g)
<1>1. FlattenSeq(s) = IF Len(s) = 0 THEN s ELSE flat[Len(s)]
  BY DEF FlattenSeq
<1>2. Len(s) \in Nat /\ DOMAIN s = 1 .. Len(s) /\ \A i \in 1 .. Len(s) : s[i] \in Seq(T)
  BY LenProperties
<1> HIDE DEF isFlat, flat
<1>3. PICK f : Stepwise(f, Seq(T), Joins(T), <<>>, s)
  <2>1. PICK base \in Seq(T) : base = <<>>
    BY JoinsIs
  <2>2. PICK h \in [SUBSET DOMAIN s -> Seq(T)] : Folds(h, Seq(T), Seq(T), Joins(T), base, s)
    BY JoinsIs, FoldExists
  <2>3. Recurses(h, Seq(T), Joins(T), base, s)
    BY <2>2 DEF Folds, Recurses
  <2> QED
    BY JoinsIs, <2>1, <2>3, FoldSteps
<1>4. f \in [0 .. Len(s) -> Seq(T)] /\ f[0] = <<>>
  BY <1>3 DEF Stepwise
<1>5. \A i \in 1 .. Len(s) : f[i] = f[i - 1] \o s[i]
  <2> SUFFICES ASSUME NEW i \in 1 .. Len(s) PROVE f[i] = f[i - 1] \o s[i]
    OBVIOUS
  <2>1. i - 1 \in 0 .. Len(s)
    BY <1>2
  <2>2. f[i - 1] \in Seq(T) /\ s[i] \in Seq(T)
    BY <1>2, <1>4, <2>1
  <2>3. f[i] = Joins(T)[<<f[i - 1], s[i]>>]
    BY <1>3 DEF Stepwise
  <2> QED
    BY <2>2, <2>3, JoinsIs
<1>6. 1 \in 1 .. Len(s) => f[1] = s[1]
  <2> SUFFICES ASSUME 1 \in 1 .. Len(s) PROVE f[1] = s[1]
    OBVIOUS
  <2>1. f[1] = f[0] \o s[1]
    <3>1. PICK i \in 1 .. Len(s) : i = 1
      OBVIOUS
    <3>2. f[i] = f[i - 1] \o s[i]
      BY <1>5, Zenon
    <3>3. i - 1 = 0
      BY <3>1
    <3>4. f[i] = f[0] \o s[i]
      BY <3>2, <3>3, Zenon
    <3> QED
      BY <3>1, <3>4, Zenon
  <2>2. PICK v \in Seq(T) : v = s[1]
    BY <1>2
  <2>3. <<>> \o v = v
    BY ConcatEmptySeq
  <2> QED
    BY <1>4, <2>1, <2>2, <2>3
<1>7. \A i \in 1 .. Len(s) : f[i] = IF i = 1 THEN s[i] ELSE f[i - 1] \o s[i]
  BY <1>5, <1>6
<1> DEFINE g == [i \in 1 .. Len(s) |-> f[i]]
<1>8. isFlat(g)
  <2>1. \A i \in 1 .. Len(s) : i # 1 => i - 1 \in 1 .. Len(s)
    BY <1>2
  <2>2. \A i \in 1 .. Len(s) : g[i] = IF i = 1 THEN s[i] ELSE g[i - 1] \o s[i]
    BY <1>7, <2>1
  <2>3. DOMAIN g = 1 .. Len(s) /\ g = [i \in 1 .. Len(s) |-> g[i]]
    OBVIOUS
  <2> HIDE DEF g
  <2> QED
    BY <2>2, <2>3 DEF isFlat
<1>9. isFlat(flat)
  <2> HIDE DEF g
  <2> QED
    BY <1>8 DEF flat
<1> DEFINE K == {k \in Nat : k + 1 <= Len(s) => flat[k + 1] = f[k + 1]}
<1>10. \A i \in 1 .. Len(s) : flat[i] = IF i = 1 THEN s[i] ELSE flat[i - 1] \o s[i]
  BY <1>9 DEF isFlat
<1>11. 0 \in K
  BY <1>2, <1>6, <1>10
<1>12. ASSUME NEW k \in Nat, k \in K PROVE k + 1 \in K
  <2> SUFFICES ASSUME (k + 1) + 1 <= Len(s) PROVE flat[(k + 1) + 1] = f[(k + 1) + 1]
    OBVIOUS
  <2>1. PICK j : j = (k + 1) + 1
    OBVIOUS
  <2>2. j \in 1 .. Len(s) /\ j # 1 /\ j - 1 = k + 1 /\ k + 1 <= Len(s)
    BY <1>2, <2>1
  <2>3. flat[k + 1] = f[k + 1]
    BY <1>12, <2>2
  <2>4. flat[j] = flat[j - 1] \o s[j] /\ f[j] = f[j - 1] \o s[j]
    BY <1>5, <1>10, <2>2
  <2> QED
    BY <2>1, <2>2, <2>3, <2>4
<1>13. \A k \in Nat : k \in K
  <2> HIDE DEF K
  <2> QED
    BY <1>11, <1>12, Induction
<1>14. Len(s) # 0 => flat[Len(s)] = f[Len(s)]
  <2> SUFFICES ASSUME Len(s) # 0 PROVE flat[Len(s)] = f[Len(s)]
    OBVIOUS
  <2>1. PICK k \in Nat : k + 1 = Len(s)
    <3>1. Len(s) - 1 \in Nat /\ (Len(s) - 1) + 1 = Len(s)
      BY <1>2
    <3> QED
      BY <3>1
  <2>2. k \in K
    BY <1>13
  <2> QED
    BY <1>2, <2>1, <2>2
<1>15. Len(s) = 0 => f[Len(s)] = s
  BY <1>4
<1> QED
  BY <1>1, <1>3, <1>14, <1>15

LEMMA FlattenAppend ==
  ASSUME NEW T, NEW s \in Seq(Seq(T)), NEW t \in Seq(T)
  PROVE  FlattenSeq(s) \in Seq(T) /\ FlattenSeq(Append(s, t)) = FlattenSeq(s) \o t
<1>0. IsStep(Joins(T), Seq(T), Seq(T)) /\ \A a \in Seq(T), x \in Seq(T) : Joins(T)[<<a, x>>] = a \o x
  BY JoinsIs
<1>1. PICK base \in Seq(T) : base = <<>>
  BY JoinsIs
<1>2. PICK f : Stepwise(f, Seq(T), Joins(T), base, s) /\ f[Len(s)] = FlattenSeq(s)
  BY <1>1, FlattenSteps
<1>3. PICK u \in Seq(Seq(T)) : u = Append(s, t)
  BY AppendProperties
<1>4. PICK g : Stepwise(g, Seq(T), Joins(T), base, u) /\ g[Len(u)] = FlattenSeq(u)
  BY <1>1, FlattenSteps
<1>5. Len(u) = Len(s) + 1
  BY <1>3, AppendProperties
<1>6. f[Len(s)] \in Seq(T) /\ g[Len(s) + 1] = Joins(T)[<<f[Len(s)], t>>]
  BY <1>0, <1>2, <1>3, <1>4, StepwiseGrows
<1> QED
  BY <1>0, <1>2, <1>3, <1>4, <1>5, <1>6

LEMMA FlattenNothing == FlattenSeq(<<>>) = <<>>
  BY EmptyIs DEF FlattenSeq

\* The events that turns have counted.
CountOf(parts) ==
  LET Counted(n, part) == n + part.count
  IN FoldLeft(Counted, 0, parts)

LEMMA CountSteps ==
  ASSUME NEW P, \A p \in P : p.count \in Nat, NEW s \in Seq(P)
  PROVE  LET step == [a \in Nat \X P |-> a[1] + a[2].count]
         IN \E f : Stepwise(f, Nat, step, 0, s) /\ f[Len(s)] = CountOf(s)
<1> DEFINE step == [a \in Nat \X P |-> a[1] + a[2].count]
           isFold(g) == g = [t \in SUBSET DOMAIN s |->
                               IF t = {} THEN 0 ELSE g[t \ {Max(t)}] + s[Max(t)].count]
           fold == CHOOSE g : isFold(g)
<1>1. CountOf(s) = fold[DOMAIN s]
  BY DEF CountOf, FoldLeft, MapThenFoldSet
<1> HIDE DEF isFold, fold
<1>3. IsStep(step, Nat, P) /\ \A a \in Nat, x \in P : step[<<a, x>>] = a + x.count
  BY DEF IsStep
<1>4. DOMAIN s = 1 .. Len(s) /\ Len(s) \in Nat /\ \A i \in 1 .. Len(s) : s[i] \in P
  BY LenProperties
<1>5. \A t \in SUBSET DOMAIN s : t # {} => Max(t) \in DOMAIN s /\ t \ {Max(t)} \in SUBSET DOMAIN s
  BY <1>4, MaxIs
<1> HIDE DEF step
<1>6. PICK base \in Nat : base = 0
  OBVIOUS
<1>7. PICK h \in [SUBSET DOMAIN s -> Nat] : Folds(h, Nat, P, step, base, s)
  BY <1>3, FoldExists
<1>8. isFold(h)
  <2>1. \A t \in SUBSET DOMAIN s : h[t] = IF t = {} THEN 0 ELSE h[t \ {Max(t)}] + s[Max(t)].count
    BY <1>3, <1>4, <1>5, <1>6, <1>7 DEF Folds
  <2> QED
    BY <2>1 DEF isFold
<1>9. isFold(fold)
  BY <1>8 DEF fold
<1>10. Recurses(fold, Nat, step, base, s)
  <2>1. \A t \in SUBSET DOMAIN s :
          fold[t] = IF t = {} THEN 0 ELSE fold[t \ {Max(t)}] + s[Max(t)].count
    BY <1>9 DEF isFold
  <2> QED
    BY <1>3, <1>4, <1>5, <1>6, <2>1 DEF Recurses
<1>11. PICK f : Stepwise(f, Nat, step, base, s) /\ f[Len(s)] = fold[DOMAIN s]
  <2>1. PICK N : N = Nat
    OBVIOUS
  <2>2. IsStep(step, N, P) /\ base \in N /\ Recurses(fold, N, step, base, s)
    BY <1>3, <1>10, <2>1
  <2>3. \E f : Stepwise(f, N, step, base, s) /\ f[Len(s)] = fold[DOMAIN s]
    BY <2>2, FoldSteps
  <2> QED
    BY <2>1, <2>3
<1> QED
  BY <1>1, <1>6, <1>11 DEF step

LEMMA CountGrows ==
  ASSUME NEW P, \A p \in P : p.count \in Nat, NEW s \in Seq(P), NEW x \in P
  PROVE  CountOf(s) \in Nat /\ CountOf(Append(s, x)) = CountOf(s) + x.count
<1> DEFINE step == [a \in Nat \X P |-> a[1] + a[2].count]
<1>1. IsStep(step, Nat, P) /\ \A a \in Nat, y \in P : step[<<a, y>>] = a + y.count
  BY DEF IsStep
<1>2. PICK f : Stepwise(f, Nat, step, 0, s) /\ f[Len(s)] = CountOf(s)
  BY CountSteps
<1>3. PICK u \in Seq(P) : u = Append(s, x)
  BY AppendProperties
<1>4. PICK g : Stepwise(g, Nat, step, 0, u) /\ g[Len(u)] = CountOf(u)
  BY CountSteps
<1>5. Len(u) = Len(s) + 1
  BY <1>3, AppendProperties
<1> HIDE DEF step
<1>6. f[Len(s)] \in Nat /\ g[Len(s) + 1] = step[<<f[Len(s)], x>>]
  <2>1. PICK N : N = Nat
    OBVIOUS
  <2>2. PICK base \in N : base = 0
    BY <2>1
  <2>3. IsStep(step, N, P) /\ Stepwise(f, N, step, base, s) /\ Stepwise(g, N, step, base, Append(s, x))
    BY <1>1, <1>2, <1>3, <1>4, <2>1, <2>2
  <2>4. f[Len(s)] \in N /\ g[Len(s) + 1] = step[<<f[Len(s)], x>>]
    BY <2>3, StepwiseGrows
  <2> QED
    BY <2>1, <2>4
<1> QED
  BY <1>1, <1>2, <1>3, <1>4, <1>5, <1>6

LEMMA CountNothing == CountOf(<<>>) = 0
<1>1. PICK s \in Seq({}) : s = <<>> /\ Len(s) = 0
  <2>1. <<>> \in Seq({}) /\ Len(<<>>) = 0
    OBVIOUS
  <2> QED
    BY <2>1
<1>2. \A p \in {} : p.count \in Nat
  OBVIOUS
<1>3. PICK step, f : Stepwise(f, Nat, step, 0, s) /\ f[Len(s)] = CountOf(s)
  BY <1>2, CountSteps
<1> QED
  BY <1>1, <1>3 DEF Stepwise

---------------------------------------------------------------------------
(* The turns cover the session                                             *)

LEMMA MinIs ==
  ASSUME NEW S \in SUBSET Nat, S # {}
  PROVE  Min(S) \in S /\ \A y \in S : Min(S) <= y
<1>1. PICK x \in S : \A y \in S : ~ (<<y, x>> \in OpToRel(<, Nat))
  BY NatLessThanWellFounded, WFMin
<1>3. x \in Nat /\ \A y \in S : y \in Nat /\ ~ (y < x)
  BY <1>1 DEF OpToRel
<1>2. \A y \in S : x <= y
  BY <1>3
<1> QED
  BY <1>2 DEF Min

\* The first user message of a process that began after k events, and the events from it on.
Starts(u, k) == {i \in (k + 1) .. Len(u) : u[i].kind = "USER_MESSAGE"}
Rest(u, k) == IF Starts(u, k) = {} THEN <<>> ELSE SubSeq(u, Min(Starts(u, k)), Len(u))

RestFrom(r, u, k, m) ==
  /\ m \in 1 .. Len(u) /\ m \in Starts(u, k) /\ \A i \in Starts(u, k) : m <= i
  /\ Len(r) = (Len(u) - m) + 1
  /\ \A i \in 1 .. (Len(u) - m) + 1 : r[i] = u[(m + i) - 1]

LEMMA RestIs ==
  ASSUME NEW E, NEW u \in Seq(E), NEW k \in 0 .. Len(u)
  PROVE  /\ Rest(u, k) \in Seq(E)
         /\ Starts(u, k) # {} => RestFrom(Rest(u, k), u, k, Min(Starts(u, k)))
<1>1. PICK n \in Nat : n = Len(u)
  BY LenProperties
<1>2. \A i \in 1 .. n : u[i] \in E
  BY <1>1, LenProperties
<1>3. CASE Starts(u, k) = {}
  BY <1>3 DEF Rest
<1>4. CASE Starts(u, k) # {}
  <2>1. Starts(u, k) \in SUBSET Nat /\ \A i \in Starts(u, k) : i \in 1 .. n
    BY <1>1 DEF Starts
  <2>2. PICK m : m = Min(Starts(u, k))
    OBVIOUS
  <2>3. m \in Starts(u, k) /\ m \in 1 .. n /\ \A i \in Starts(u, k) : m <= i
    BY <1>4, <2>1, <2>2, MinIs
  <2>4. /\ SubSeq(u, m, n) \in Seq(E) /\ Len(SubSeq(u, m, n)) = (n - m) + 1
        /\ \A i \in 1 .. (n - m) + 1 : SubSeq(u, m, n)[i] = u[(m + i) - 1]
    BY <1>2, <2>3, SubSeqProperties
  <2>5. Rest(u, k) = SubSeq(u, m, n)
    BY <1>1, <1>4, <2>2 DEF Rest
  <2> QED
    BY <1>1, <2>2, <2>3, <2>4, <2>5 DEF RestFrom
<1> QED
  BY <1>3, <1>4

LEMMA RestGrows ==
  ASSUME NEW E, NEW u \in Seq(E), NEW k \in 0 .. Len(u), NEW x \in E
  PROVE  LET v == Append(u, x)
             opens == x.kind = "USER_MESSAGE"
         IN /\ Starts(v, k) # {} <=> Starts(u, k) # {} \/ opens
            /\ Rest(v, k) = IF Starts(u, k) # {} \/ opens THEN Append(Rest(u, k), x) ELSE Rest(u, k)
<1>1. PICK n \in Nat : n = Len(u)
  BY LenProperties
<1>2. PICK v \in Seq(E) : v = Append(u, x)
  BY AppendProperties
<1>3. Len(v) = n + 1 /\ v[n + 1] = x /\ \A i \in 1 .. n : v[i] = u[i]
  BY <1>1, <1>2, AppendProperties
<1>4. k \in 0 .. n /\ k \in 0 .. Len(v) /\ k \in Nat
  BY <1>1, <1>3
<1>5. Starts(v, k) = Starts(u, k) \cup (IF x.kind = "USER_MESSAGE" THEN {n + 1} ELSE {})
  <2>1. \A i \in (k + 1) .. (n + 1) : (i \in 1 .. n /\ i \in (k + 1) .. n) \/ i = n + 1
    BY <1>4
  <2>2. n + 1 \in (k + 1) .. (n + 1) /\ \A i \in (k + 1) .. n : i \in (k + 1) .. (n + 1) /\ i \in 1 .. n
    BY <1>4
  <2> QED
    BY <1>1, <1>3, <2>1, <2>2 DEF Starts
<1>6. PICK r \in Seq(E) : r = Rest(u, k)
  BY RestIs
<1>7. PICK w \in Seq(E) : w = Rest(v, k)
  BY <1>4, RestIs
<1>8. CASE Starts(u, k) # {}
  <2>1. PICK m : RestFrom(r, u, k, m)
    BY <1>6, <1>8, RestIs
  <2>2. /\ m \in 1 .. n /\ m \in Starts(u, k) /\ \A i \in Starts(u, k) : m <= i
        /\ Len(r) = (n - m) + 1 /\ \A i \in 1 .. (n - m) + 1 : r[i] = u[(m + i) - 1]
    BY <1>1, <2>1 DEF RestFrom
  <2>3. PICK p : RestFrom(w, v, k, p)
    BY <1>4, <1>5, <1>7, <1>8, RestIs
  <2>4. /\ p \in Starts(v, k) /\ p \in Nat /\ \A i \in Starts(v, k) : p <= i
        /\ Len(w) = ((n + 1) - p) + 1 /\ \A i \in 1 .. ((n + 1) - p) + 1 : w[i] = v[(p + i) - 1]
    BY <1>3, <2>3 DEF RestFrom
  <2>5. p <= m /\ m <= p
    BY <1>5, <2>2, <2>4
  <2>6. p = m
    BY <2>2, <2>4, <2>5
  <2>7. PICK z \in Seq(E) : z = Append(r, x)
    BY AppendProperties
  <2>8. Len(z) = Len(r) + 1 /\ z[Len(r) + 1] = x /\ \A i \in 1 .. Len(r) : z[i] = r[i]
    BY <2>7, AppendProperties
  <2>9. Len(w) = Len(z)
    BY <2>2, <2>4, <2>6, <2>8
  <2>10. ASSUME NEW i \in 1 .. Len(w) PROVE w[i] = z[i]
    <3>1. i \in 1 .. ((n + 1) - m) + 1
      BY <2>4, <2>6
    <3>2. w[i] = v[(m + i) - 1]
      BY <2>4, <2>6, <3>1
    <3>3. CASE i = (n - m) + 2
      <4>1. (m + i) - 1 = n + 1 /\ i = Len(r) + 1
        BY <2>2, <3>3
      <4> QED
        BY <1>3, <2>8, <3>2, <4>1
    <3>4. CASE i # (n - m) + 2
      <4>1. i \in 1 .. (n - m) + 1 /\ (m + i) - 1 \in 1 .. n
        BY <2>2, <3>1, <3>4
      <4> QED
        BY <1>3, <2>2, <2>8, <3>2, <4>1
    <3> QED
      BY <3>3, <3>4
  <2>11. w = z
    BY <2>9, <2>10, SeqEqual
  <2> QED
    BY <1>2, <1>5, <1>6, <1>7, <1>8, <2>7, <2>11
<1>9. CASE Starts(u, k) = {} /\ x.kind = "USER_MESSAGE"
  <2>1. Starts(v, k) = {n + 1}
    BY <1>5, <1>9
  <2>2. PICK p : RestFrom(w, v, k, p)
    BY <1>4, <1>7, <2>1, RestIs
  <2>3. p = n + 1 /\ Len(w) = ((n + 1) - p) + 1 /\ \A i \in 1 .. ((n + 1) - p) + 1 : w[i] = v[(p + i) - 1]
    BY <1>3, <2>1, <2>2 DEF RestFrom
  <2>7. ((n + 1) - p) + 1 = 1 /\ (p + 1) - 1 = n + 1
    BY <2>3
  <2>8. w[1] = v[(p + 1) - 1]
    <3>1. 1 \in 1 .. ((n + 1) - p) + 1
      BY <2>7
    <3> QED
      BY <2>3, <3>1
  <2>4. Len(w) = 1 /\ w[1] = v[n + 1]
    BY <2>3, <2>7, <2>8
  <2>5. r = <<>>
    BY <1>6, <1>9 DEF Rest
  <2>6. w = Append(r, x)
    BY <1>3, <2>4, <2>5
  <2> QED
    BY <1>2, <1>6, <1>7, <1>9, <2>1, <2>6
<1>10. CASE Starts(u, k) = {} /\ x.kind # "USER_MESSAGE"
  BY <1>2, <1>5, <1>10 DEF Rest
<1> QED
  BY <1>8, <1>9, <1>10

\* The values of a function at the items of a sequence.
Mapped(s, f) == [i \in DOMAIN s |-> f[s[i]]]
Maps(f, P, Q) == f \in [P -> Q]

LEMMA MappedGrows ==
  ASSUME NEW P, NEW Q, NEW f, Maps(f, P, Q), NEW s \in Seq(P), NEW x \in P
  PROVE  Mapped(s, f) \in Seq(Q) /\ Mapped(Append(s, x), f) = Append(Mapped(s, f), f[x])
<1>0. f \in [P -> Q]
  BY DEF Maps
<1>1. PICK n \in Nat : n = Len(s)
  BY LenProperties
<1>2. PICK u \in Seq(P) : u = Append(s, x)
  BY AppendProperties
<1>3. /\ Len(u) = n + 1 /\ u[n + 1] = x /\ \A i \in 1 .. n : u[i] = s[i]
      /\ DOMAIN s = 1 .. n /\ DOMAIN u = 1 .. n + 1 /\ \A i \in 1 .. n : s[i] \in P
  BY <1>1, <1>2, AppendProperties, LenProperties
<1>4. /\ Mapped(s, f) \in Seq(Q) /\ Len(Mapped(s, f)) = n
      /\ \A i \in 1 .. n : Mapped(s, f)[i] = f[s[i]]
  BY <1>0, <1>3 DEF Mapped
<1>5. /\ Mapped(u, f) \in Seq(Q) /\ Len(Mapped(u, f)) = n + 1
      /\ \A i \in 1 .. n : Mapped(u, f)[i] = f[s[i]] /\ Mapped(u, f)[n + 1] = f[x]
  <2>1. \A i \in 1 .. n + 1 : u[i] \in P
    BY <1>2, <1>3, LenProperties
  <2>2. /\ Mapped(u, f) \in Seq(Q) /\ Len(Mapped(u, f)) = n + 1
        /\ \A i \in 1 .. n + 1 : Mapped(u, f)[i] = f[u[i]]
    BY <1>0, <1>3, <2>1 DEF Mapped
  <2> QED
    BY <1>3, <2>2
<1>6. PICK a \in Seq(Q) : a = Mapped(s, f)
  BY <1>4
<1>7. PICK b \in Seq(Q) : b = Mapped(u, f)
  BY <1>5
<1>8. f[x] \in Q
  BY <1>0
<1>9. b[n + 1] = f[x]
  <2>1. n + 1 \in 1 .. n + 1 /\ u \in Seq(P)
    OBVIOUS
  <2>2. b[n + 1] = f[u[n + 1]]
    BY <1>3, <1>7, <2>1 DEF Mapped
  <2> QED
    BY <1>3, <2>2
<1>10. b = Append(a, f[x])
  <2>1. PICK c \in Seq(Q) : c = Append(a, f[x])
    BY <1>8, AppendProperties
  <2>2. Len(c) = n + 1 /\ c[n + 1] = f[x] /\ \A i \in 1 .. n : c[i] = a[i]
    BY <1>4, <1>6, <1>8, <2>1, AppendProperties
  <2>3. Len(b) = n + 1 /\ \A i \in 1 .. n : b[i] = a[i]
    BY <1>4, <1>5, <1>6, <1>7
  <2>4. \A i \in 1 .. n + 1 : i \in 1 .. n \/ i = n + 1
    OBVIOUS
  <2>5. b = c
    BY <1>9, <2>2, <2>3, <2>4, SeqEqual
  <2> QED
    BY <2>1, <2>5
<1> QED
  BY <1>2, <1>6, <1>7, <1>10

\* The tools of the calls among some events, those without a name left out.
IsNamed(x) == x.kind = "TOOL_CALL" /\ x.payload.tool # ""
Named(v) == Only(v, {x \in Range(v) : IsNamed(x)})
Tools(v) == [i \in DOMAIN Named(v) |-> Named(v)[i].payload.tool]

LEMMA NamedGrow ==
  ASSUME NEW E, NEW v \in Seq(E), NEW e \in E
  PROVE  /\ Named(v) \in Seq(E)
         /\ Named(Append(v, e)) = IF IsNamed(e) THEN Append(Named(v), e) ELSE Named(v)
<1> DEFINE A == {x \in Range(Append(v, e)) : IsNamed(x)}
           B == {x \in Range(v) : IsNamed(x)}
<1>1. /\ DOMAIN v = 1 .. Len(v) /\ Append(v, e) \in Seq(E) /\ Len(Append(v, e)) = Len(v) + 1
      /\ Len(v) \in Nat /\ DOMAIN Append(v, e) = 1 .. Len(v) + 1
      /\ \A i \in 1 .. Len(v) : Append(v, e)[i] = v[i]
      /\ Append(v, e)[Len(v) + 1] = e
  BY LenProperties, AppendProperties
<1>2. \A i \in 1 .. Len(v) : v[i] \in Range(v) /\ v[i] \in Range(Append(v, e))
  BY <1>1 DEF Range
<1>3. e \in Range(Append(v, e))
  BY <1>1 DEF Range
<1>4. (\A i \in 1 .. Len(v) : v[i] \in A <=> v[i] \in B) /\ (e \in A <=> IsNamed(e))
  BY <1>2, <1>3
<1>5. Named(Append(v, e)) = Only(Append(v, e), A) /\ Named(v) = Only(v, B)
  BY DEF Named
<1> HIDE DEF A, B
<1>6. Only(Append(v, e), A) = IF e \in A THEN Append(Only(v, B), e) ELSE Only(v, B)
  BY <1>4, OnlyAppend
<1>7. Only(v, B) \in Seq(E \cap B)
  BY OnlyType
<1>8. Named(v) \in Seq(E)
  BY <1>5, <1>7
<1> QED
  BY <1>4, <1>5, <1>6, <1>8

LEMMA ToolsGrow ==
  ASSUME NEW E, NEW T, ToolIn(E, T), NEW v \in Seq(E), NEW e \in E
  PROVE  /\ Tools(v) \in Seq(T)
         /\ Tools(Append(v, e)) = IF IsNamed(e) THEN Append(Tools(v), e.payload.tool) ELSE Tools(v)
<1> DEFINE f == [x \in E |-> x.payload.tool]
<1>1. Maps(f, E, T) /\ f[e] = e.payload.tool
  BY DEF ToolIn, Maps
<1>2. \A u \in Seq(E) : Mapped(u, f) = [i \in DOMAIN u |-> u[i].payload.tool]
  <2> SUFFICES ASSUME NEW u \in Seq(E) PROVE Mapped(u, f) = [i \in DOMAIN u |-> u[i].payload.tool]
    OBVIOUS
  <2>1. \A i \in DOMAIN u : u[i] \in E
    BY LenProperties
  <2> QED
    BY <2>1 DEF Mapped
<1>3. PICK a \in Seq(E) : a = Named(v)
  BY NamedGrow
<1>4. PICK b \in Seq(E) : b = Named(Append(v, e)) /\ b = IF IsNamed(e) THEN Append(a, e) ELSE a
  BY <1>3, NamedGrow, AppendProperties
<1>5. Tools(v) = Mapped(a, f) /\ Tools(Append(v, e)) = Mapped(b, f)
  BY <1>2, <1>3, <1>4 DEF Tools
<1> HIDE DEF f
<1>6. Mapped(a, f) \in Seq(T) /\ Mapped(Append(a, e), f) = Append(Mapped(a, f), f[e])
  BY <1>1, MappedGrows
<1> QED
  BY <1>1, <1>4, <1>5, <1>6

LEMMA NoTools == Tools(<<>>) = <<>>
<1>1. PICK s : s = Named(<<>>)
  OBVIOUS
<1>2. s = <<>> /\ DOMAIN s = {} /\ IsSeq(s)
  BY <1>1, OnlyEmpty, EmptyIs DEF Named
<1>3. PICK u : u = Tools(<<>>)
  OBVIOUS
<1>4. u = [i \in {} |-> s[i].payload.tool]
  BY <1>1, <1>2, <1>3 DEF Tools
<1>5. DOMAIN u = {} /\ u = [i \in {} |-> u[i]]
  BY <1>4
<1>6. DOMAIN u = 1 .. 0 /\ u = [i \in 1 .. 0 |-> u[i]]
  BY <1>5
<1>7. IsSeq(u) /\ Len(u) = 0
  BY <1>6, IsSeqIf
<1> QED
  BY <1>3, <1>5, <1>7, EmptyIs, SeqIs

\* The tools of each turn.
Bodies(turns) == [i \in DOMAIN turns |-> turns[i].tools]

LEMMA BodiesGrow ==
  ASSUME NEW P, NEW T, \A p \in P : p.tools \in Seq(T), NEW s \in Seq(P), NEW x \in P
  PROVE  Bodies(s) \in Seq(Seq(T)) /\ Bodies(Append(s, x)) = Append(Bodies(s), x.tools)
<1> DEFINE f == [p \in P |-> p.tools]
<1>1. Maps(f, P, Seq(T)) /\ f[x] = x.tools
  BY DEF Maps
<1>2. \A u \in Seq(P) : Mapped(u, f) = Bodies(u)
  <2> SUFFICES ASSUME NEW u \in Seq(P) PROVE Mapped(u, f) = Bodies(u)
    OBVIOUS
  <2>1. \A i \in DOMAIN u : u[i] \in P
    BY LenProperties
  <2> QED
    BY <2>1 DEF Mapped, Bodies
<1>3. PICK Q : Q = Seq(T)
  OBVIOUS
<1>4. PICK u \in Seq(P) : u = Append(s, x)
  BY AppendProperties
<1>5. Mapped(s, f) = Bodies(s) /\ Mapped(u, f) = Bodies(u)
  BY <1>2
<1> HIDE DEF f
<1>6. Mapped(s, f) \in Seq(Q) /\ Mapped(Append(s, x), f) = Append(Mapped(s, f), f[x])
  BY <1>1, <1>3, MappedGrows
<1> QED
  BY <1>1, <1>3, <1>4, <1>5, <1>6

\* The user messages among some events.
IsAsked(x) == x.kind = "USER_MESSAGE"
Asked(v) == Only(v, {x \in Range(v) : IsAsked(x)})

LEMMA AskedGrow ==
  ASSUME NEW E, NEW v \in Seq(E), NEW e \in E
  PROVE  /\ Len(Asked(v)) \in Nat
         /\ Len(Asked(Append(v, e))) = IF IsAsked(e) THEN Len(Asked(v)) + 1 ELSE Len(Asked(v))
<1> DEFINE A == {x \in Range(Append(v, e)) : IsAsked(x)}
           B == {x \in Range(v) : IsAsked(x)}
<1>1. /\ DOMAIN v = 1 .. Len(v) /\ Len(v) \in Nat /\ DOMAIN Append(v, e) = 1 .. Len(v) + 1
      /\ \A i \in 1 .. Len(v) : Append(v, e)[i] = v[i]
      /\ Append(v, e)[Len(v) + 1] = e
  BY LenProperties, AppendProperties
<1>2. \A i \in 1 .. Len(v) : v[i] \in Range(v) /\ v[i] \in Range(Append(v, e))
  BY <1>1 DEF Range
<1>3. e \in Range(Append(v, e))
  BY <1>1 DEF Range
<1>4. (\A i \in 1 .. Len(v) : v[i] \in A <=> v[i] \in B) /\ (e \in A <=> IsAsked(e))
  BY <1>2, <1>3
<1>5. Asked(Append(v, e)) = Only(Append(v, e), A) /\ Asked(v) = Only(v, B)
  BY DEF Asked
<1> HIDE DEF A, B
<1>6. Only(Append(v, e), A) = IF e \in A THEN Append(Only(v, B), e) ELSE Only(v, B)
  BY <1>4, OnlyAppend
<1>7. Only(v, B) \in Seq(E \cap B)
  BY OnlyType
<1>8. PICK a \in Seq(E) : a = Asked(v)
  BY <1>5, <1>7
<1>9. Len(a) \in Nat /\ Len(Append(a, e)) = Len(a) + 1
  BY LenProperties, AppendProperties
<1> QED
  BY <1>4, <1>5, <1>6, <1>8, <1>9

LEMMA NoneAsked == Len(Asked(<<>>)) = 0
  BY OnlyEmpty, EmptyIs DEF Asked

\* What the turns add up to, with r the events from the first user message on.
Flat(g) == FlattenSeq(Bodies(g.turns))
Adds(g, r) ==
  IF g.open = NoTurn
  THEN /\ Flat(g) = Tools(r) /\ CountOf(g.turns) = Len(r)
       /\ Len(g.turns) = Len(Asked(r))
  ELSE /\ Flat(g) \o g.open.tools = Tools(r) /\ CountOf(g.turns) + g.open.count = Len(r)
       /\ Len(g.turns) + 1 = Len(Asked(r))

\* The turns are those of the events u of a process that began after k of them.
Covers(g, u, k) ==
  /\ Adds(g, Rest(u, k))
  /\ g.open = NoTurn <=> Starts(u, k) = {}

\* Closing a turn keeps what the turns add up to.
LEMMA ClosingAdds ==
  ASSUME NEW T, NEW turns \in Seq(TurnsOf(T)), NEW o \in TurnsOf(T)
  PROVE  LET closed == Append(turns, o)
         IN /\ FlattenSeq(Bodies(turns)) \in Seq(T) /\ CountOf(turns) \in Nat /\ Len(turns) \in Nat
            /\ FlattenSeq(Bodies(closed)) = FlattenSeq(Bodies(turns)) \o o.tools
            /\ CountOf(closed) = CountOf(turns) + o.count
            /\ Len(closed) = Len(turns) + 1
<1>1. PICK P : P = TurnsOf(T)
  OBVIOUS
<1>2. \A p \in P : p.tools \in Seq(T) /\ p.count \in Nat
  BY <1>1 DEF TurnsOf
<1>3. turns \in Seq(P) /\ o \in P
  BY <1>1
<1>4. Bodies(turns) \in Seq(Seq(T)) /\ Bodies(Append(turns, o)) = Append(Bodies(turns), o.tools)
  BY <1>2, <1>3, BodiesGrow
<1>5. CountOf(turns) \in Nat /\ CountOf(Append(turns, o)) = CountOf(turns) + o.count
  BY <1>2, <1>3, CountGrows
<1>6. PICK b \in Seq(Seq(T)) : b = Bodies(turns)
  BY <1>4
<1>7. PICK t \in Seq(T) : t = o.tools
  BY <1>2, <1>3
<1>8. FlattenSeq(b) \in Seq(T) /\ FlattenSeq(Append(b, t)) = FlattenSeq(b) \o t
  BY FlattenAppend
<1>9. Len(turns) \in Nat /\ Len(Append(turns, o)) = Len(turns) + 1
  BY LenProperties, AppendProperties
<1> QED
  BY <1>4, <1>5, <1>6, <1>7, <1>8, <1>9

\* A call adds its tool to the open turn.
LEMMA JoinAppended ==
  ASSUME NEW T, NEW a \in Seq(T), NEW b \in Seq(T), NEW t \in T
  PROVE  a \o Append(b, t) = Append(a \o b, t)
<1>1. PICK c \in Seq(T) : c = Append(b, t)
  BY AppendProperties
<1>2. PICK d \in Seq(T) : d = a \o b
  BY ConcatProperties
<1>3. PICK u \in Seq(T) : u = a \o c
  BY ConcatProperties
<1>4. PICK v \in Seq(T) : v = Append(d, t)
  BY AppendProperties
<1>5. PICK m \in Nat : m = Len(a)
  BY LenProperties
<1>6. PICK n \in Nat : n = Len(b)
  BY LenProperties
<1>7. Len(c) = n + 1 /\ c[n + 1] = t /\ \A i \in 1 .. n : c[i] = b[i]
  BY <1>1, <1>6, AppendProperties
<1>8. Len(d) = m + n /\ \A i \in 1 .. m + n : d[i] = IF i <= m THEN a[i] ELSE b[i - m]
  BY <1>2, <1>5, <1>6, ConcatProperties
<1>9. Len(u) = (m + n) + 1 /\ \A i \in 1 .. (m + n) + 1 : u[i] = IF i <= m THEN a[i] ELSE c[i - m]
  <2>1. Len(u) = Len(a) + Len(c) /\ \A i \in 1 .. Len(a) + Len(c) : u[i] = IF i <= Len(a) THEN a[i] ELSE c[i - Len(a)]
    BY <1>3, ConcatProperties
  <2>2. Len(a) + Len(c) = (m + n) + 1
    BY <1>5, <1>6, <1>7
  <2> QED
    BY <1>5, <2>1, <2>2
<1>10. Len(v) = (m + n) + 1 /\ v[(m + n) + 1] = t /\ \A i \in 1 .. m + n : v[i] = d[i]
  BY <1>4, <1>8, AppendProperties
<1>11. ASSUME NEW i \in 1 .. Len(u) PROVE u[i] = v[i]
  <2>1. i \in 1 .. (m + n) + 1
    BY <1>9
  <2>2. CASE i <= m
    <3>1. i \in 1 .. m + n
      BY <2>1, <2>2
    <3> QED
      BY <1>8, <1>9, <1>10, <2>1, <2>2, <3>1
  <2>3. CASE m < i /\ i <= m + n
    <3>1. i - m \in 1 .. n /\ i \in 1 .. m + n /\ ~ (i <= m)
      BY <2>3
    <3> QED
      BY <1>7, <1>8, <1>9, <1>10, <2>1, <3>1
  <2>4. CASE i = (m + n) + 1
    <3>1. i - m = n + 1 /\ ~ (i <= m)
      BY <2>4
    <3> QED
      BY <1>7, <1>9, <1>10, <2>1, <2>4, <3>1
  <2>5. i <= m \/ (m < i /\ i <= m + n) \/ i = (m + n) + 1
    BY <2>1
  <2> QED
    BY <2>2, <2>3, <2>4, <2>5
<1>12. u = v
  BY <1>9, <1>10, <1>11, SeqEqual
<1> QED
  BY <1>1, <1>2, <1>3, <1>4, <1>12

LEMMA GroupCovers ==
  ASSUME NEW T, NEW E, ToolIn(E, T), NEW g \in Groupers(T), NEW u \in Seq(E),
         NEW k \in 0 .. Len(u), NEW e \in E, Covers(g, u, k)
  PROVE  Covers(Group(g, e), Append(u, e), k)
<1>1. PICK r \in Seq(E) : r = Rest(u, k)
  BY RestIs
<1>2. PICK v \in Seq(E) : v = Append(u, e)
  BY AppendProperties
<1>3. PICK w \in Seq(E) : w = Append(r, e) /\ Len(w) = Len(r) + 1 /\ Len(r) \in Nat
  BY AppendProperties, LenProperties
<1>4. /\ Starts(v, k) # {} <=> Starts(u, k) # {} \/ e.kind = "USER_MESSAGE"
      /\ Rest(v, k) = IF Starts(u, k) # {} \/ e.kind = "USER_MESSAGE" THEN w ELSE r
  BY <1>1, <1>2, <1>3, RestGrows
<1>5. /\ Tools(r) \in Seq(T)
      /\ Tools(w) = IF IsNamed(e) THEN Append(Tools(r), e.payload.tool) ELSE Tools(r)
  BY <1>3, ToolsGrow
<1>6. /\ Len(Asked(r)) \in Nat
      /\ Len(Asked(w)) = IF e.kind = "USER_MESSAGE" THEN Len(Asked(r)) + 1 ELSE Len(Asked(r))
  BY <1>3, AskedGrow DEF IsAsked
<1>7. PICK turns \in Seq(TurnsOf(T)) : turns = g.turns
  BY DEF Groupers
<1>8. Adds(g, r) /\ (g.open = NoTurn <=> Starts(u, k) = {})
  BY <1>1 DEF Covers
<1>9. PICK h : h = Group(g, e)
  OBVIOUS
<1>10. CASE e.kind = "USER_MESSAGE"
  <2>1. ~ IsNamed(e) /\ Tools(w) = Tools(r)
    BY <1>5, <1>10 DEF IsNamed
  <2>2. h.open # NoTurn /\ h.open.tools = <<>> /\ h.open.count = 1
    <3>1. h.open = Opened
      BY <1>9, <1>10 DEF Group
    <3> QED
      BY <3>1 DEF Opened, NoTurn
  <2>3. Flat(h) = Tools(r) /\ CountOf(h.turns) = Len(r) /\ Len(h.turns) = Len(Asked(r))
    <3>1. CASE g.open = NoTurn
      <4>1. h.turns = turns
        BY <1>7, <1>9, <1>10, <3>1 DEF Group
      <4> QED
        BY <1>7, <1>8, <3>1, <4>1 DEF Adds, Flat
    <3>2. CASE g.open # NoTurn
      <4>1. PICK o \in TurnsOf(T) : o = g.open
        BY <3>2 DEF Groupers
      <4>2. h.turns = Append(turns, o)
        BY <1>7, <1>9, <1>10, <3>2, <4>1 DEF Group
      <4>3. /\ FlattenSeq(Bodies(Append(turns, o))) = FlattenSeq(Bodies(turns)) \o o.tools
            /\ CountOf(Append(turns, o)) = CountOf(turns) + o.count
            /\ Len(Append(turns, o)) = Len(turns) + 1
        BY ClosingAdds
      <4> QED
        BY <1>7, <1>8, <3>2, <4>1, <4>2, <4>3 DEF Adds, Flat
    <3> QED
      BY <3>1, <3>2
  <2>4. Flat(h) \o <<>> = Tools(w)
    BY <1>5, <2>1, <2>3, ConcatEmptySeq
  <2>5. Adds(h, w)
    BY <1>3, <1>6, <1>10, <2>2, <2>3, <2>4 DEF Adds
  <2> QED
    BY <1>2, <1>4, <1>9, <1>10, <2>2, <2>5 DEF Covers
<1>11. CASE e.kind # "USER_MESSAGE" /\ g.open = NoTurn
  <2>1. h = g
    BY <1>9, <1>11 DEF Group
  <2> QED
    BY <1>2, <1>4, <1>8, <1>9, <1>11, <2>1 DEF Covers
<1>12. CASE e.kind # "USER_MESSAGE" /\ g.open # NoTurn
  <2>1. PICK o \in TurnsOf(T) : o = g.open
    BY <1>12 DEF Groupers
  <2>2. PICK tools : tools = IF IsNamed(e) THEN Append(o.tools, e.payload.tool) ELSE o.tools
    OBVIOUS
  <2>3. h = [g EXCEPT !.open.count = @ + 1, !.open.tools = tools]
    BY <1>9, <1>12, <2>1, <2>2 DEF Group, IsNamed
  <2>4. h.turns = turns /\ h.open.count = o.count + 1 /\ h.open.tools = tools
    BY <1>7, <2>1, <2>3 DEF Groupers, TurnsOf
  <2>5. o.count \in Nat /\ o.tools \in Seq(T)
    BY DEF TurnsOf
  <2>6. h.open # NoTurn
    BY <2>4, <2>5 DEF NoTurn
  <2>7. FlattenSeq(Bodies(turns)) \in Seq(T) /\ CountOf(turns) \in Nat
    BY ClosingAdds
  <2>8. /\ Flat(h) \o o.tools = Tools(r) /\ CountOf(turns) + o.count = Len(r)
        /\ Len(h.turns) + 1 = Len(Asked(r))
    BY <1>7, <1>8, <1>12, <2>1, <2>4 DEF Adds, Flat
  <2>9. Flat(h) \o tools = Tools(w)
    <3>1. CASE IsNamed(e)
      <4>1. e.payload.tool \in T
        BY DEF ToolIn
      <4>2. PICK a \in Seq(T) : a = Flat(h)
        BY <2>4, <2>7 DEF Flat
      <4>3. PICK b \in Seq(T) : b = o.tools
        BY <2>5
      <4>4. PICK t \in T : t = e.payload.tool
        BY <4>1
      <4>5. a \o Append(b, t) = Append(a \o b, t)
        BY ONLY a \in Seq(T), b \in Seq(T), t \in T, JoinAppended
      <4> QED
        BY <1>5, <2>2, <2>8, <3>1, <4>2, <4>3, <4>4, <4>5
    <3>2. CASE ~ IsNamed(e)
      BY <1>5, <2>2, <2>8, <3>2
    <3> QED
      BY <3>1, <3>2
  <2>10. CountOf(h.turns) + h.open.count = Len(w)
    <3>1. PICK m \in Nat : m = CountOf(turns)
      BY <2>7
    <3>2. PICK n \in Nat : n = o.count
      BY <2>5
    <3>3. m + n = Len(r) /\ Len(w) = Len(r) + 1 /\ m + (n + 1) = (m + n) + 1
      BY <1>3, <2>8, <3>1, <3>2
    <3> QED
      BY <2>4, <3>1, <3>2, <3>3
  <2>11. Adds(h, w)
    BY <1>6, <1>12, <2>4, <2>6, <2>8, <2>9, <2>10 DEF Adds
  <2> QED
    BY <1>2, <1>4, <1>8, <1>9, <1>12, <2>6, <2>11 DEF Covers
<1> QED
  BY <1>10, <1>11, <1>12

LEMMA GroupsCover ==
  ASSUME NEW T, NEW E, ToolIn(E, T), NEW s \in Seq(E), NEW g \in Groupers(T),
         NEW u \in Seq(E), NEW k \in 0 .. Len(u), Covers(g, u, k)
  PROVE  /\ Grouped(g, s) \in Groupers(T)
         /\ Covers(Grouped(g, s), u \o s, k)
<1> DEFINE R == {r \in Groupers(T) \X Seq(E) : k \in 0 .. Len(r[2]) /\ Covers(r[1], r[2], k)}
<1>1. PICK S : S = Groupers(T)
  OBVIOUS
<1>2. PICK step : step = Groups(T, E)
  OBVIOUS
<1>3. IsStep(step, S, E)
  BY <1>1, <1>2, GroupedIs
<1>4. PICK fold : Recurses(fold, S, step, g, s) /\ Grouped(g, s) = fold[DOMAIN s]
  BY <1>1, <1>2, GroupedIs
<1>5. Keeps(R, S, E, step)
  <2> SUFFICES ASSUME NEW a \in S, NEW v \in Seq(E), NEW x \in E, k \in 0 .. Len(v), Covers(a, v, k)
               PROVE  <<step[<<a, x>>], Append(v, x)>> \in R
    BY DEF Keeps
  <2>1. step[<<a, x>>] = Group(a, x) /\ step[<<a, x>>] \in S
    BY <1>1, <1>2, <1>3 DEF Groups, IsStep
  <2>2. Covers(Group(a, x), Append(v, x), k)
    BY <1>1, GroupCovers
  <2>3. Append(v, x) \in Seq(E) /\ k \in 0 .. Len(Append(v, x))
    BY AppendProperties, LenProperties
  <2> QED
    BY <1>1, <2>1, <2>2, <2>3
<1>6. <<g, u>> \in R
  OBVIOUS
<1>7. fold[DOMAIN s] \in S /\ <<fold[DOMAIN s], u \o s>> \in R
  <2> HIDE DEF R
  <2> QED
    BY <1>1, <1>3, <1>4, <1>5, <1>6, FoldKeeps
<1> QED
  BY <1>1, <1>4, <1>7

\* The part of the session that the grouper has is the one of its process.
CoverInv ==
  /\ opened \in 0 .. Len(file)
  /\ \E k \in 0 .. Len(told) :
       /\ Here = (k + 1) .. Len(told)
       /\ Adds(grouper, Rest(Events, k))
       /\ live => (grouper.open = NoTurn <=> Starts(Events, k) = {})

LEMMA EventsLength ==
  ASSUME EventsInv
  PROVE  /\ Len(told) \in Nat /\ DOMAIN told = 1 .. Len(told) /\ Len(Events) = Len(told)
         /\ \A i \in 1 .. Len(told) : Events[i] = told[i].event
<1>1. DOMAIN told = 1 .. Len(told) /\ Len(told) \in Nat
  BY SeqIs DEF EventsInv
<1>2. PICK v : v = Events
  OBVIOUS
<1>3. DOMAIN v = 1 .. Len(told) /\ \A i \in 1 .. Len(told) : v[i] = told[i].event
  BY <1>1, <1>2 DEF Events
<1>4. DOMAIN v = 1 .. Len(v) /\ Len(v) \in Nat
  BY <1>2, EventsAreSeq, SeqIs
<1>5. Len(v) = Len(told)
  BY <1>1, <1>3, <1>4
<1> QED
  BY <1>1, <1>2, <1>3, <1>5

LEMMA NoRest == \A u, k : Starts(u, k) = {} => Rest(u, k) = <<>>
  BY DEF Rest

LEMMA NoTurnsCover ==
  ASSUME NEW u, NEW k, Starts(u, k) = {}
  PROVE  Covers(NoTurns, u, k)
<1>1. Rest(u, k) = <<>>
  BY NoRest
<1>2. NoTurns.open = NoTurn /\ NoTurns.turns = <<>>
  BY DEF NoTurns
<1>3. PICK b : b = Bodies(NoTurns.turns)
  OBVIOUS
<1>4. b = <<>>
  <2>1. PICK s : s = <<>>
    OBVIOUS
  <2>2. DOMAIN s = {} /\ s = [i \in 1 .. Len(s) |-> s[i]] /\ DOMAIN s = 1 .. Len(s)
    BY <2>1, EmptyIs, SeqIs
  <2>3. b = [i \in {} |-> s[i].tools]
    BY <1>2, <1>3, <2>1, <2>2 DEF Bodies
  <2> QED
    BY <2>1, <2>2, <2>3
<1>5. Flat(NoTurns) = Tools(<<>>)
  BY <1>3, <1>4, FlattenNothing, NoTools DEF Flat
<1>6. CountOf(NoTurns.turns) = 0 /\ Len(<<>>) = 0
  BY <1>2, CountNothing, EmptyIs
<1>7. Adds(NoTurns, Rest(u, k))
  BY <1>1, <1>2, <1>5, <1>6, NoneAsked DEF Adds
<1> QED
  BY <1>2, <1>7 DEF Covers

LEMMA CoverStart == Init => CoverInv
<1> SUFFICES ASSUME Init PROVE CoverInv
  OBVIOUS
<1>1. /\ told = <<>> /\ file = <<>> /\ opened = 0 /\ grouper = NoTurns /\ DOMAIN told = {}
      /\ Len(told) = 0 /\ Len(file) = 0
  BY EmptyIs DEF Init
<1>2. Events = <<>> /\ Len(Events) = 0
  BY EventsStart, EmptyIs
<1>3. Here = (0 + 1) .. Len(told) /\ 0 \in 0 .. Len(told) /\ opened \in 0 .. Len(file)
  BY <1>1 DEF Here
<1>4. Starts(Events, 0) = {}
  BY <1>2 DEF Starts
<1>5. Covers(grouper, Events, 0)
  BY <1>1, <1>4, NoTurnsCover
<1> QED
  BY <1>3, <1>5 DEF CoverInv, Covers

LEMMA CoverIngests ==
  ASSUME EventsInv, ToldInv, GrouperInv, CoverInv, NEW l \in alphabet, IngestLine(l)
  PROVE  CoverInv'
<1>1. PICK E : EventsOK(E) /\ Events \in Seq(E) /\ Yields(l) \in Seq(E)
  BY EventsGrow
<1>2. PICK u \in Seq(E) : u = Events
  BY <1>1
<1>3. PICK s \in Seq(E) : s = Yields(l)
  BY <1>1
<1>4. EventsInv' /\ Events' = u \o s
  BY <1>2, <1>3, EventsGrow
<1>5. PICK n \in Nat : n = Len(told) /\ n = Len(u) /\ DOMAIN told = 1 .. n
  BY <1>2, EventsLength
<1>6. PICK m \in Nat : m = Len(told') /\ m = Len(u \o s) /\ DOMAIN told' = 1 .. m
  <2>1. DOMAIN told' = 1 .. Len(told') /\ Len(told') \in Nat
    BY <1>4, SeqIs DEF EventsInv
  <2>2. DOMAIN Events' = DOMAIN told'
    BY DEF Events
  <2>3. DOMAIN (u \o s) = 1 .. Len(u \o s) /\ Len(u \o s) \in Nat
    BY LenProperties, ConcatProperties
  <2>4. Len(u \o s) = Len(told')
    <3>1. PICK p \in Nat : p = Len(told')
      BY <2>1
    <3>2. PICK q \in Nat : q = Len(u \o s)
      BY <2>3
    <3>3. 1 .. p = 1 .. q
      BY <1>4, <2>1, <2>2, <2>3, <3>1, <3>2
    <3>4. p = q
      BY <3>3
    <3> QED
      BY <3>1, <3>2, <3>4
  <2> QED
    BY <2>1, <2>4
<1>7. PICK k \in 0 .. n :
        /\ Here = (k + 1) .. n
        /\ Adds(grouper, Rest(u, k))
        /\ live => (grouper.open = NoTurn <=> Starts(u, k) = {})
  BY <1>2, <1>5 DEF CoverInv
<1>8. PICK c \in Nat : c = Len(file)
  BY SeqIs DEF EventsInv
<1>9. PICK V : grouper \in Groupers(V)
  BY DEF GrouperInv
<1>10. PICK T : T = V \cup {e.payload.tool : e \in E}
  OBVIOUS
<1>11. grouper \in Groupers(T) /\ ToolIn(E, T)
  BY <1>9, <1>10, GroupersGrow DEF ToolIn
<1>12. Covers(grouper, u, k)
  <2>1. live
    BY DEF IngestLine
  <2> QED
    BY <1>7, <2>1 DEF Covers
<1>13. Covers(Grouped(grouper, s), u \o s, k)
  <2>1. k \in 0 .. Len(u)
    BY <1>5
  <2> QED
    BY <1>11, <1>12, <2>1, GroupsCover
<1>14. grouper' = Grouped(grouper, s)
  BY <1>3 DEF IngestLine, Grouped
<1>15. n <= m /\ Here' = (k + 1) .. m
  <2>1. /\ DOMAIN told \subseteq DOMAIN told' /\ \A i \in DOMAIN told : told'[i] = told[i]
        /\ \A i \in DOMAIN told' \ DOMAIN told : told'[i].line = c + 1
    BY <1>8, ToldGrows
  <2>2. opened' = opened /\ opened \in 0 .. c
    BY <1>8 DEF IngestLine, CoverInv
  <2>3. n <= m
    <3>1. n = 0 \/ n \in 1 .. n
      OBVIOUS
    <3> QED
      BY <1>5, <1>6, <2>1, <3>1
  <2>4. \A i \in 1 .. m : i \in Here' <=> (i \in Here \/ i > n)
    <3> SUFFICES ASSUME NEW i \in 1 .. m PROVE i \in Here' <=> (i \in Here \/ i > n)
      OBVIOUS
    <3>1. CASE i \in 1 .. n
      BY <1>5, <1>6, <2>1, <2>2, <3>1 DEF Here
    <3>2. CASE i \notin 1 .. n
      <4>1. told'[i].line = c + 1 /\ i > n
        BY <1>5, <1>6, <2>1, <3>2
      <4> QED
        BY <1>6, <2>2, <4>1 DEF Here
    <3> QED
      BY <3>1, <3>2
  <2>5. Here' \subseteq 1 .. m
    BY <1>6 DEF Here
  <2>6. \A i \in 1 .. m : i \in Here' <=> i \in (k + 1) .. m
    BY <1>7, <2>3, <2>4
  <2>7. (k + 1) .. m \subseteq 1 .. m
    OBVIOUS
  <2> QED
    BY <2>3, <2>5, <2>6, <2>7
<1>16. Len(file') = c + 1 /\ opened' \in 0 .. Len(file') /\ k \in 0 .. Len(told')
  <2>1. Len(file') = c + 1
    BY <1>8, ToldGrows
  <2>2. opened' = opened /\ opened \in 0 .. c
    BY <1>8 DEF IngestLine, CoverInv
  <2> QED
    BY <1>6, <1>15, <2>1, <2>2
<1>17. Covers(grouper', Events', k)
  BY <1>4, <1>13, <1>14, <1>16
<1>18. /\ Here' = (k + 1) .. Len(told') /\ Adds(grouper', Rest(Events', k))
       /\ grouper'.open = NoTurn <=> Starts(Events', k) = {}
  BY <1>6, <1>15, <1>17 DEF Covers
<1>19. CoverInv' <=>
         /\ opened' \in 0 .. Len(file')
         /\ \E j \in 0 .. Len(told') :
              /\ Here' = (j + 1) .. Len(told')
              /\ Adds(grouper', Rest(Events', j))
              /\ live' => (grouper'.open = NoTurn <=> Starts(Events', j) = {})
  BY DEF CoverInv, Adds, Rest, Starts, Flat, Asked
<1> QED
  BY <1>16, <1>18, <1>19

\* Evict closes the open turn.
LEMMA FinalizedAdds ==
  ASSUME NEW T, NEW g \in Groupers(T), NEW r, Adds(g, r)
  PROVE  Adds(Finalized(g), r)
<1>1. CASE g.open = NoTurn
  BY <1>1 DEF Finalized
<1>2. CASE g.open # NoTurn
  <2>1. PICK o \in TurnsOf(T) : o = g.open
    BY <1>2 DEF Groupers
  <2>2. PICK turns \in Seq(TurnsOf(T)) : turns = g.turns
    BY DEF Groupers
  <2>3. PICK h : h = Finalized(g)
    OBVIOUS
  <2>4. h.open = NoTurn /\ h.turns = Append(turns, o)
    BY <1>2, <2>1, <2>2, <2>3 DEF Finalized
  <2>5. /\ FlattenSeq(Bodies(Append(turns, o))) = FlattenSeq(Bodies(turns)) \o o.tools
        /\ CountOf(Append(turns, o)) = CountOf(turns) + o.count
        /\ Len(Append(turns, o)) = Len(turns) + 1
    BY ClosingAdds
  <2>6. Flat(h) = Tools(r) /\ CountOf(h.turns) = Len(r) /\ Len(h.turns) = Len(Asked(r))
    BY <1>2, <2>1, <2>2, <2>4, <2>5 DEF Adds, Flat
  <2> QED
    BY <2>3, <2>4, <2>6 DEF Adds
<1> QED
  BY <1>1, <1>2

LEMMA CoverSteps ==
  ASSUME EventsInv, ToldInv, GrouperInv, CoverInv, [Next]_vars
  PROVE  CoverInv'
<1>1. CASE \E l \in alphabet : IngestLine(l)
  BY <1>1, CoverIngests
<1>2. CASE (\E size \in Sizes : Resume(size)) \/ Evict \/ UNCHANGED vars
  <2>1. told' = told /\ file' = file /\ Events' = Events
    <3>1. told' = told /\ file' = file
      BY <1>2 DEF Resume, Evict, vars, history
    <3> QED
      BY <3>1 DEF Events
  <2>2. PICK n \in Nat : n = Len(told) /\ DOMAIN told = 1 .. n /\ n = Len(Events)
    BY EventsLength
  <2>3. PICK c \in Nat : c = Len(file) /\ \A i \in 1 .. n : told[i].line \in 1 .. c
    BY <2>2, SeqIs DEF ToldInv
  <2>4. PICK k \in 0 .. n :
          /\ Here = (k + 1) .. n
          /\ Adds(grouper, Rest(Events, k))
          /\ live => (grouper.open = NoTurn <=> Starts(Events, k) = {})
    BY <2>2, <2>3 DEF CoverInv
  <2>5. ASSUME opened' \in 0 .. c,
               NEW j \in 0 .. n, Here' = (j + 1) .. n,
               Adds(grouper', Rest(Events, j)),
               live' => (grouper'.open = NoTurn <=> Starts(Events, j) = {})
        PROVE  CoverInv'
    <3>1. CoverInv' <=>
            /\ opened' \in 0 .. Len(file')
            /\ \E i \in 0 .. Len(told') :
                 /\ Here' = (i + 1) .. Len(told')
                 /\ Adds(grouper', Rest(Events', i))
                 /\ live' => (grouper'.open = NoTurn <=> Starts(Events', i) = {})
      BY DEF CoverInv, Adds, Rest, Starts, Flat, Asked
    <3> QED
      BY <2>1, <2>2, <2>3, <2>5, <3>1
  <2>6. CASE \E size \in Sizes : Resume(size)
    <3>1. opened' = c /\ grouper' = NoTurns
      BY <2>3, <2>6 DEF Resume
    <3>2. Here' = (n + 1) .. n
      BY <2>1, <2>2, <2>3, <3>1 DEF Here
    <3>3. Starts(Events, n) = {}
      BY <2>2 DEF Starts
    <3>4. Covers(grouper', Events, n)
      BY <3>1, <3>3, NoTurnsCover
    <3>5. n \in 0 .. n /\ c \in 0 .. c
      OBVIOUS
    <3> QED
      BY <2>5, <3>1, <3>2, <3>4, <3>5 DEF Covers
  <2>7. CASE Evict \/ UNCHANGED vars
    <3>1. opened' = opened /\ Here' = Here
      <4>1. opened' = opened
        BY <2>7 DEF Evict, vars, history
      <4> QED
        BY <2>1, <4>1 DEF Here
    <3>2. opened \in 0 .. c
      BY <2>3 DEF CoverInv
    <3>3. PICK T : grouper \in Groupers(T)
      BY DEF GrouperInv
    <3>4. PICK r : r = Rest(Events, k)
      OBVIOUS
    <3>5. CASE Evict
      <4>1. grouper' = Finalized(grouper) /\ ~ live'
        BY <3>5 DEF Evict
      <4>2. Adds(grouper', r)
        BY <2>4, <3>3, <3>4, <4>1, FinalizedAdds
      <4> QED
        BY <2>4, <2>5, <3>1, <3>2, <3>4, <4>1, <4>2
    <3>6. CASE UNCHANGED vars
      <4>1. grouper' = grouper /\ live' = live
        BY <3>6 DEF vars
      <4> QED
        BY <2>4, <2>5, <3>1, <3>2, <4>1
    <3> QED
      BY <2>7, <3>5, <3>6
  <2> QED
    BY <1>2, <2>6, <2>7
<1> QED
  BY <1>1, <1>2 DEF Next

LEMMA OnlyGrows ==
  ASSUME NEW T, NEW s \in Seq(T), NEW x \in T, NEW A
  PROVE  Only(Append(s, x), A) = IF x \in A THEN Append(Only(s, A), x) ELSE Only(s, A)
<1>1. \A i \in 1 .. Len(s) : s[i] \in A <=> s[i] \in A
  OBVIOUS
<1> QED
  BY <1>1, OnlyAppend

\* A filter of values is the values of a filter.
LEMMA OnlyMapped ==
  ASSUME NEW P, NEW Q, NEW f, Maps(f, P, Q), NEW s \in Seq(P), NEW A, NEW B,
         \A i \in 1 .. Len(s) : s[i] \in A <=> f[s[i]] \in B
  PROVE  Only(Mapped(s, f), B) = Mapped(Only(s, A), f)
<1> DEFINE K == {n \in Nat : \A t \in Seq(P) :
                   Len(t) = n /\ (\A i \in 1 .. n : t[i] \in A <=> f[t[i]] \in B) =>
                     Only(Mapped(t, f), B) = Mapped(Only(t, A), f)}
<1>1. 0 \in K
  <2> SUFFICES ASSUME NEW t \in Seq(P), Len(t) = 0
               PROVE  Only(Mapped(t, f), B) = Mapped(Only(t, A), f)
    OBVIOUS
  <2>1. t = <<>> /\ DOMAIN t = {}
    OBVIOUS
  <2>2. Mapped(t, f) = t
    BY <2>1 DEF Mapped
  <2> QED
    BY <2>1, <2>2, OnlyEmpty
<1>2. ASSUME NEW n \in Nat, n \in K
      PROVE  n + 1 \in K
  <2> SUFFICES ASSUME NEW t \in Seq(P), Len(t) = n + 1,
                      \A i \in 1 .. n + 1 : t[i] \in A <=> f[t[i]] \in B
               PROVE  Only(Mapped(t, f), B) = Mapped(Only(t, A), f)
    OBVIOUS
  <2>1. \A i \in 1 .. n + 1 : t[i] \in P
    BY LenProperties
  <2>2. PICK u \in Seq(P) : Len(u) = n /\ \A i \in 1 .. n : u[i] = t[i]
    <3>1. [i \in 1 .. n |-> t[i]] \in [1 .. n -> P]
      BY <2>1
    <3>2. PICK u : u = [i \in 1 .. n |-> t[i]]
      OBVIOUS
    <3>3. u \in Seq(P) /\ Len(u) = n /\ \A i \in 1 .. n : u[i] = t[i]
      BY <3>1, <3>2
    <3> QED
      BY <3>3
  <2>3. PICK x \in P : x = t[n + 1]
    BY <2>1
  <2>4. t = Append(u, x)
    <3>1. PICK v \in Seq(P) : v = Append(u, x)
      BY AppendProperties
    <3>2. Len(v) = n + 1 /\ v[n + 1] = x /\ \A i \in 1 .. n : v[i] = u[i]
      BY <2>2, <3>1, AppendProperties
    <3>3. \A i \in 1 .. n + 1 : i \in 1 .. n \/ i = n + 1
      OBVIOUS
    <3>4. Len(v) = Len(t) /\ \A i \in 1 .. Len(v) : v[i] = t[i]
      BY <2>2, <2>3, <3>2, <3>3
    <3>5. v = t
      BY <3>4, SeqEqual
    <3> QED
      BY <3>1, <3>5
  <2>5. \A i \in 1 .. n : u[i] \in A <=> f[u[i]] \in B
    BY <2>2
  <2>6. Only(Mapped(u, f), B) = Mapped(Only(u, A), f)
    BY <1>2, <2>2, <2>5
  <2>7. x \in A <=> f[x] \in B
    BY <2>3
  <2>8. PICK a \in Seq(P) : a = Only(u, A)
    <3>1. Only(u, A) \in Seq(P \cap A)
      BY OnlyType
    <3> QED
      BY <3>1
  <2>9. Only(t, A) = IF x \in A THEN Append(a, x) ELSE a
    BY <2>4, <2>8, OnlyAppend
  <2>10. PICK b \in Seq(Q) : b = Mapped(u, f)
    BY MappedGrows, <2>3
  <2>11. Mapped(t, f) = Append(b, f[x])
    BY <2>4, <2>10, MappedGrows
  <2>12. f[x] \in Q
    BY DEF Maps
  <2>13. Only(Append(b, f[x]), B) = IF f[x] \in B THEN Append(Only(b, B), f[x]) ELSE Only(b, B)
    <3>1. PICK y \in Q : y = f[x]
      BY <2>12
    <3> HIDE DEF K
    <3>3. Only(Append(b, y), B) = IF y \in B THEN Append(Only(b, B), y) ELSE Only(b, B)
      BY ONLY b \in Seq(Q), y \in Q, OnlyGrows
    <3> QED
      BY <3>1, <3>3
  <2>14. Mapped(Append(a, x), f) = Append(Mapped(a, f), f[x])
    BY MappedGrows
  <2> QED
    BY <2>6, <2>7, <2>8, <2>9, <2>10, <2>11, <2>13, <2>14
<1>3. PICK n \in Nat : n = Len(s)
  BY LenProperties
<1>4. n \in K
  <2> HIDE DEF K
  <2> QED
    BY <1>1, <1>2, <1>3, Induction
<1> QED
  BY <1>3, <1>4

\* What is told, and the events of a part of it.
EventOf(P) == [x \in P |-> x.event]

LEMMA EventsOfRest ==
  ASSUME EventsInv, NEW P, NEW s \in Seq(P), s = told, NEW k \in 0 .. Len(s), NEW rest,
         rest = IF Starts(Events, k) = {} THEN <<>> ELSE SubSeq(s, Min(Starts(Events, k)), Len(s))
  PROVE  rest \in Seq(P) /\ Mapped(rest, EventOf(P)) = Rest(Events, k)
<1>1. PICK n \in Nat : n = Len(s) /\ n = Len(Events) /\ \A i \in 1 .. n : Events[i] = s[i].event
  BY EventsLength
<1>2. PICK E : E = Range(Events)
  OBVIOUS
<1>3. PICK u \in Seq(E) : u = Events
  BY <1>2, EventsAreSeq DEF IsSeq
<1>4. CASE Starts(u, k) = {}
  <2>1. rest = <<>> /\ Rest(u, k) = <<>>
    BY <1>3, <1>4, NoRest
  <2>2. DOMAIN rest = {} /\ rest = [i \in 1 .. Len(rest) |-> rest[i]] /\ DOMAIN rest = 1 .. Len(rest)
    BY <2>1, EmptyIs, SeqIs
  <2>3. Mapped(rest, EventOf(P)) = rest
    BY <2>2 DEF Mapped
  <2>4. rest \in Seq(P)
    BY <2>1, JoinsIs
  <2> QED
    BY <1>3, <2>1, <2>3, <2>4
<1>5. CASE Starts(u, k) # {}
  <2>1. PICK r \in Seq(E) : r = Rest(u, k)
    BY <1>1, <1>3, RestIs
  <2>2. PICK m : m = Min(Starts(u, k)) /\ RestFrom(r, u, k, m)
    BY <1>1, <1>3, <1>5, <2>1, RestIs
  <2>3. /\ m \in 1 .. n /\ Len(r) = (n - m) + 1
        /\ \A i \in 1 .. (n - m) + 1 : r[i] = u[(m + i) - 1]
    BY <1>1, <1>3, <2>2 DEF RestFrom
  <2>4. \A i \in 1 .. n : s[i] \in P
    BY <1>1, LenProperties
  <2>5. rest = SubSeq(s, m, n)
    BY <1>1, <1>3, <1>5, <2>2
  <2>6. /\ rest \in Seq(P) /\ Len(rest) = (n - m) + 1
        /\ \A i \in 1 .. (n - m) + 1 : rest[i] = s[(m + i) - 1]
    <3>1. /\ SubSeq(s, m, n) \in Seq(P) /\ Len(SubSeq(s, m, n)) = (n - m) + 1
          /\ \A i \in 1 .. (n - m) + 1 : SubSeq(s, m, n)[i] = s[(m + i) - 1]
      BY <2>3, <2>4, SubSeqProperties
    <3> QED
      BY <2>5, <3>1
  <2>7. DOMAIN rest = 1 .. (n - m) + 1 /\ \A i \in 1 .. (n - m) + 1 : rest[i] \in P
    BY <2>6, LenProperties
  <2>8. Mapped(rest, EventOf(P)) = [i \in 1 .. (n - m) + 1 |-> rest[i].event]
    BY <2>7 DEF Mapped, EventOf
  <2>9. \A i \in 1 .. (n - m) + 1 : rest[i].event = r[i]
    <3> SUFFICES ASSUME NEW i \in 1 .. (n - m) + 1 PROVE rest[i].event = r[i]
      OBVIOUS
    <3>1. PICK j \in 1 .. n : j = (m + i) - 1
      BY <2>3
    <3>2. rest[i] = s[j] /\ r[i] = u[j]
      BY <2>3, <2>6, <3>1
    <3> QED
      BY <1>1, <1>3, <3>2
  <2>10. DOMAIN r = 1 .. (n - m) + 1 /\ r = [i \in 1 .. (n - m) + 1 |-> r[i]]
    BY <2>3, LenProperties
  <2>11. Mapped(rest, EventOf(P)) = r
    BY <2>8, <2>9, <2>10
  <2> QED
    BY <1>3, <2>1, <2>6, <2>11
<1> QED
  BY <1>4, <1>5

\* The calls with a name, the user messages, and what TurnsCoverTheSession says
\* of the turns and them.
NamedTold(rest) == Filtered(rest, LAMBDA t : t.event.kind = "TOOL_CALL" /\ t.event.payload.tool # "")
AskedTold(rest) == Filtered(rest, LAMBDA t : t.event.kind = "USER_MESSAGE")
Covered(parts, rest, messages, calls) ==
  LET tools == FlattenSeq([i \in DOMAIN parts |-> parts[i].tools])
      Counted(n, part) == n + part.count
  IN /\ Len(parts) = Len(messages)
     /\ tools = [i \in DOMAIN calls |-> calls[i].event.payload.tool]
     /\ FoldLeft(Counted, 0, parts) = Len(rest)
Parts == IF grouper.open = NoTurn THEN grouper.turns ELSE Append(grouper.turns, grouper.open)
Own ==
  LET starts == {i \in Here : told[i].event.kind = "USER_MESSAGE"}
  IN IF starts = {} THEN <<>> ELSE SubSeq(told, Min(starts), Len(told))

LEMMA CoverIs == TurnsCoverTheSession = Covered(Parts, Own, AskedTold(Own), NamedTold(Own))
  BY DEF TurnsCoverTheSession, Covered, Parts, Own, AskedTold, NamedTold, FoldLeft, MapThenFoldSet

LEMMA CoveredIf ==
  ASSUME NEW parts, NEW rest, NEW messages, NEW calls, Len(parts) = Len(messages),
         FlattenSeq(Bodies(parts)) = [i \in DOMAIN calls |-> calls[i].event.payload.tool],
         CountOf(parts) = Len(rest)
  PROVE  Covered(parts, rest, messages, calls)
<1>1. FlattenSeq([i \in DOMAIN parts |-> parts[i].tools]) = [i \in DOMAIN calls |-> calls[i].event.payload.tool]
  BY DEF Bodies
<1> QED
  BY <1>1 DEF Covered, CountOf, FoldLeft, MapThenFoldSet

LEMMA AskedOfRest ==
  ASSUME NEW P, NEW rest \in Seq(P)
  PROVE  Len(Asked(Mapped(rest, EventOf(P)))) = Len(AskedTold(rest))
<1> DEFINE A == {x \in Range(rest) : IsAsked(x.event)}
<1>1. PICK Q : Q = {x.event : x \in P}
  OBVIOUS
<1>2. PICK f : f = EventOf(P)
  OBVIOUS
<1>3. Maps(f, P, Q) /\ \A x \in P : f[x] = x.event
  BY <1>1, <1>2 DEF EventOf, Maps
<1>4. \A i \in 1 .. Len(rest) : rest[i] \in P /\ rest[i] \in Range(rest) /\ i \in DOMAIN rest
  BY LenProperties DEF Range
<1>5. PICK v : v = Mapped(rest, f)
  OBVIOUS
<1>6. \A i \in 1 .. Len(rest) : v[i] = f[rest[i]] /\ v[i] \in Range(v)
  BY <1>4, <1>5 DEF Mapped, Range
<1> DEFINE B == {y \in Range(v) : IsAsked(y)}
<1>7. \A i \in 1 .. Len(rest) : rest[i] \in A <=> f[rest[i]] \in B
  BY <1>3, <1>4, <1>6
<1>8. AskedTold(rest) = Only(rest, A)
  BY DEF AskedTold, Filtered, IsAsked
<1>9. Asked(v) = Only(v, B)
  BY DEF Asked
<1> HIDE DEF A, B
<1>10. Only(Mapped(rest, f), B) = Mapped(Only(rest, A), f)
  BY <1>3, <1>7, OnlyMapped
<1>11. PICK a \in Seq(P) : a = Only(rest, A)
  <2>1. Only(rest, A) \in Seq(P \cap A)
    BY OnlyType
  <2>2. PICK a \in Seq(P \cap A) : a = Only(rest, A)
    BY <2>1
  <2> QED
    BY <2>2
<1>12. Len(Mapped(a, f)) = Len(a)
  <2>1. DOMAIN a = 1 .. Len(a) /\ Len(a) \in Nat
    BY LenProperties
  <2>2. PICK w : w = Mapped(a, f)
    OBVIOUS
  <2>3. DOMAIN w = 1 .. Len(a) /\ w = [i \in 1 .. Len(a) |-> w[i]]
    BY <2>1, <2>2 DEF Mapped
  <2> QED
    BY <2>1, <2>2, <2>3, IsSeqIf
<1> QED
  BY <1>2, <1>5, <1>8, <1>9, <1>10, <1>11, <1>12

LEMMA ToolsOfRest ==
  ASSUME NEW P, NEW rest \in Seq(P), NEW calls,
         calls = NamedTold(rest)
  PROVE  /\ Tools(Mapped(rest, EventOf(P))) = [i \in DOMAIN calls |-> calls[i].event.payload.tool]
         /\ Len(Mapped(rest, EventOf(P))) = Len(rest)
<1> DEFINE A == {x \in Range(rest) : IsNamed(x.event)}
<1>1. PICK Q : Q = {x.event : x \in P}
  OBVIOUS
<1>2. PICK f : f = EventOf(P)
  OBVIOUS
<1>3. Maps(f, P, Q) /\ \A x \in P : f[x] = x.event
  BY <1>1, <1>2 DEF EventOf, Maps
<1>4. /\ DOMAIN rest = 1 .. Len(rest) /\ Len(rest) \in Nat
      /\ \A i \in 1 .. Len(rest) : rest[i] \in P /\ rest[i] \in Range(rest)
  BY LenProperties DEF Range
<1>5. PICK v : v = Mapped(rest, f)
  OBVIOUS
<1>6. DOMAIN v = 1 .. Len(rest) /\ \A i \in 1 .. Len(rest) : v[i] = f[rest[i]] /\ v[i] \in Q /\ v[i] \in Range(v)
  BY <1>3, <1>4, <1>5 DEF Mapped, Maps, Range
<1>7. Len(v) = Len(rest)
  <2>1. v = [i \in 1 .. Len(rest) |-> v[i]]
    BY <1>4, <1>5 DEF Mapped
  <2> QED
    BY <1>4, <1>6, <2>1, IsSeqIf
<1> DEFINE B == {y \in Range(v) : IsNamed(y)}
<1>8. \A i \in 1 .. Len(rest) : rest[i] \in A <=> f[rest[i]] \in B
  BY <1>3, <1>4, <1>6
<1>9. calls = Only(rest, A)
  BY DEF NamedTold, Filtered, IsNamed
<1>10. calls \in Seq(P)
  <2> HIDE DEF A
  <2>1. Only(rest, A) \in Seq(P \cap A)
    BY OnlyType
  <2>2. PICK a \in Seq(P \cap A) : a = calls
    BY <1>9, <2>1
  <2> QED
    BY <2>2
<1>11. Named(v) = Mapped(calls, f)
  <2>1. Named(v) = Only(v, B)
    BY DEF Named
  <2> HIDE DEF A, B
  <2>2. Only(Mapped(rest, f), B) = Mapped(Only(rest, A), f)
    BY <1>3, <1>8, OnlyMapped
  <2> QED
    BY <1>5, <1>9, <2>1, <2>2
<1>12. \A i \in DOMAIN calls : calls[i] \in P
  BY <1>10, LenProperties
<1>13. DOMAIN Named(v) = DOMAIN calls /\ \A i \in DOMAIN calls : Named(v)[i] = calls[i].event
  BY <1>3, <1>11, <1>12 DEF Mapped
<1>14. Tools(v) = [i \in DOMAIN calls |-> calls[i].event.payload.tool]
  <2> HIDE DEF A, B
  <2> QED
    BY <1>13 DEF Tools
<1> QED
  BY <1>2, <1>5, <1>7, <1>14

LEMMA PartsAdd ==
  ASSUME NEW T, NEW g \in Groupers(T), NEW r, Adds(g, r)
  PROVE  LET parts == IF g.open = NoTurn THEN g.turns ELSE Append(g.turns, g.open)
         IN /\ FlattenSeq(Bodies(parts)) = Tools(r) /\ CountOf(parts) = Len(r)
            /\ Len(parts) = Len(Asked(r))
<1>1. CASE g.open = NoTurn
  BY <1>1 DEF Adds, Flat
<1>2. CASE g.open # NoTurn
  <2>1. PICK o \in TurnsOf(T) : o = g.open
    BY <1>2 DEF Groupers
  <2>2. PICK turns \in Seq(TurnsOf(T)) : turns = g.turns
    BY DEF Groupers
  <2>3. /\ FlattenSeq(Bodies(Append(turns, o))) = FlattenSeq(Bodies(turns)) \o o.tools
        /\ CountOf(Append(turns, o)) = CountOf(turns) + o.count
        /\ Len(Append(turns, o)) = Len(turns) + 1
    BY ClosingAdds
  <2>4. /\ FlattenSeq(Bodies(turns)) \o o.tools = Tools(r) /\ CountOf(turns) + o.count = Len(r)
        /\ Len(turns) + 1 = Len(Asked(r))
    BY <1>2, <2>1, <2>2 DEF Adds, Flat
  <2> QED
    BY <1>2, <2>1, <2>2, <2>3, <2>4
<1> QED
  BY <1>1, <1>2

LEMMA CoverTells ==
  ASSUME EventsInv, GrouperInv, CoverInv
  PROVE  TurnsCoverTheSession
<1>1. PICK n \in Nat : /\ n = Len(told) /\ n = Len(Events) /\ DOMAIN told = 1 .. n
                       /\ \A i \in 1 .. n : Events[i] = told[i].event
  BY EventsLength
<1>2. PICK k \in 0 .. n :
        /\ Here = (k + 1) .. n
        /\ Adds(grouper, Rest(Events, k))
  BY <1>1 DEF CoverInv
<1>3. PICK starts : starts = {i \in Here : told[i].event.kind = "USER_MESSAGE"}
  OBVIOUS
<1>4. starts = Starts(Events, k)
  BY <1>1, <1>2, <1>3 DEF Starts
<1>5. PICK P : P = Range(told)
  OBVIOUS
<1>6. PICK s \in Seq(P) : s = told
  BY <1>5 DEF EventsInv, IsSeq
<1>7. PICK rest : rest = Own
  OBVIOUS
<1>8. rest \in Seq(P) /\ Mapped(rest, EventOf(P)) = Rest(Events, k)
  <2>1. rest = IF starts = {} THEN <<>> ELSE SubSeq(s, Min(starts), Len(s))
    BY <1>3, <1>6, <1>7 DEF Own
  <2> QED
    BY <1>1, <1>4, <1>6, <2>1, EventsOfRest
<1>9. PICK calls : calls = NamedTold(rest)
  OBVIOUS
<1>10. /\ Tools(Rest(Events, k)) = [i \in DOMAIN calls |-> calls[i].event.payload.tool]
       /\ Len(Rest(Events, k)) = Len(rest) /\ Len(Asked(Rest(Events, k))) = Len(AskedTold(rest))
  <2>1. /\ Tools(Mapped(rest, EventOf(P))) = [i \in DOMAIN calls |-> calls[i].event.payload.tool]
        /\ Len(Mapped(rest, EventOf(P))) = Len(rest)
    BY <1>8, <1>9, ToolsOfRest
  <2>2. Len(Asked(Mapped(rest, EventOf(P)))) = Len(AskedTold(rest))
    BY <1>8, AskedOfRest
  <2> QED
    BY <1>8, <2>1, <2>2
<1>11. PICK parts : parts = Parts
  OBVIOUS
<1>12. PICK T : grouper \in Groupers(T)
  BY DEF GrouperInv
<1>13. /\ FlattenSeq(Bodies(parts)) = Tools(Rest(Events, k)) /\ CountOf(parts) = Len(Rest(Events, k))
       /\ Len(parts) = Len(Asked(Rest(Events, k)))
  BY <1>2, <1>11, <1>12, PartsAdd DEF Parts
<1>14. Covered(parts, rest, AskedTold(rest), calls)
  BY <1>10, <1>13, CoveredIf
<1> QED
  BY <1>7, <1>9, <1>11, <1>14, CoverIs

\* TurnsCoverTheSession: from the first user message of a process on, there is a
\* turn for each user message, and the turns, the open one included, have every
\* event once and the calls in order (turns.py, TurnGrouper.ingest and
\* finalize).
THEOREM TurnsCover == Spec => []TurnsCoverTheSession
<1> DEFINE Inv == EventsInv /\ ToldInv /\ EachMessageOnce /\ GrouperInv /\ CoverInv
<1>1. Init => Inv
  BY EventsStart, ToldStart, GrouperStart, CoverStart
<1>2. Inv /\ [Next]_vars => Inv'
  <2> SUFFICES ASSUME Inv, [Next]_vars PROVE Inv'
    OBVIOUS
  <2>1. EventsInv'
    <3>1. CASE \E l \in alphabet : IngestLine(l)
      BY <3>1, EventsGrow
    <3>2. CASE ~ \E l \in alphabet : IngestLine(l)
      BY <3>2, EventsStay DEF Next
    <3> QED
      BY <3>1, <3>2
  <2>2. ToldInv' /\ EachMessageOnce'
    BY ToldStep
  <2>3. GrouperInv'
    BY GrouperSteps
  <2>4. CoverInv'
    BY CoverSteps
  <2> QED
    BY <2>1, <2>2, <2>3, <2>4
<1>3. Inv => TurnsCoverTheSession
  BY CoverTells
<1> QED
  BY <1>1, <1>2, <1>3, PTL DEF Spec

---------------------------------------------------------------------------
(* A sum loses the term of an element that is taken out                     *)

LEMMA SumsAgree ==
  ASSUME NEW T, IsFiniteSet(T), NEW U \in SUBSET T, NEW f, NEW a, NEW b, Sums(a, f, T), Sums(b, f, U)
  PROVE  a[U] = b[U]
<1> DEFINE K == {k \in Nat : \A S \in SUBSET U : Cardinality(S) = k => a[S] = b[S]}
<1>0. IsFiniteSet(U)
  BY FS_Subset
<1>1. 0 \in K
  <2> SUFFICES ASSUME NEW S \in SUBSET U, Cardinality(S) = 0 PROVE a[S] = b[S]
    OBVIOUS
  <2>1. S = {}
    BY <1>0, Smaller
  <2> QED
    BY <2>1 DEF Sums
<1>2. ASSUME NEW k \in Nat, k \in K PROVE k + 1 \in K
  <2> SUFFICES ASSUME NEW S \in SUBSET U, Cardinality(S) = k + 1 PROVE a[S] = b[S]
    OBVIOUS
  <2>1. PICK R : R = S \ {First(S)}
    OBVIOUS
  <2>2. S # {} /\ R \in SUBSET U /\ Cardinality(R) = k
    <3>1. Cardinality(S) # 0
      OBVIOUS
    <3>2. S # {} /\ First(S) \in S
      BY <1>0, <3>1, Smaller
    <3>3. \A x \in S : S \ {x} \in SUBSET U /\ Cardinality(S \ {x}) = k
      <4>1. \A x \in S : S \ {x} \in SUBSET U /\ Cardinality(S \ {x}) = Cardinality(S) - 1
        BY <1>0, Smaller
      <4> QED
        BY <4>1
    <3> QED
      BY <2>1, <3>2, <3>3
  <2>3. a[R] = b[R]
    BY <1>2, <2>2
  <2>4. S \in SUBSET T
    OBVIOUS
  <2>5. a[S] = f[First(S)] + a[R] /\ b[S] = f[First(S)] + b[R]
    BY <2>1, <2>2, <2>4 DEF Sums
  <2> QED
    BY <2>3, <2>5
<1>3. Cardinality(U) \in K
  <2> HIDE DEF K
  <2> QED
    BY <1>0, <1>1, <1>2, Induction, FS_CardinalityType
<1> QED
  BY <1>3

LEMMA SumLess ==
  ASSUME NEW T, IsFiniteSet(T), NEW f, \A x \in T : f[x] \in Nat, NEW c \in T
  PROVE  /\ SumFunctionOnSet(f, T) \in Nat /\ SumFunctionOnSet(f, T \ {c}) \in Nat
         /\ SumFunctionOnSet(f, T) = f[c] + SumFunctionOnSet(f, T \ {c})
<1>1. PICK h \in [SUBSET T -> Nat] : Sums(h, f, T) /\ SumFunctionOnSet(f, T) = h[T]
  BY SumIs
<1>2. PICK U : U = T \ {c}
  OBVIOUS
<1>3. U \in SUBSET T /\ IsFiniteSet(U) /\ \A x \in U : f[x] \in Nat
  BY <1>2, FS_Subset
<1>4. PICK b \in [SUBSET U -> Nat] : Sums(b, f, U) /\ SumFunctionOnSet(f, U) = b[U]
  BY <1>3, SumIs
<1>5. h[U] = b[U]
  BY <1>1, <1>3, <1>4, SumsAgree
<1> DEFINE K == {k \in Nat : \A S \in SUBSET T : Cardinality(S) = k =>
                   \A x \in S : h[S] = f[x] + h[S \ {x}]}
<1>6. 0 \in K
  BY Smaller
<1>7. ASSUME NEW k \in Nat, k \in K PROVE k + 1 \in K
  <2> SUFFICES ASSUME NEW S \in SUBSET T, Cardinality(S) = k + 1, NEW x \in S
               PROVE  h[S] = f[x] + h[S \ {x}]
    OBVIOUS
  <2>1. PICK y : y = First(S)
    OBVIOUS
  <2>2. y \in S /\ h[S] = f[y] + h[S \ {y}]
    BY <1>1, <2>1, Smaller DEF Sums
  <2>3. CASE x = y
    BY <2>2, <2>3
  <2>4. CASE x # y
    <3>1. PICK R : R = S \ {y}
      OBVIOUS
    <3>2. PICK Q : Q = S \ {x}
      OBVIOUS
    <3>3. PICK P : P = R \ {x} /\ P = Q \ {y}
      <4>1. R \ {x} = Q \ {y}
        BY <3>1, <3>2
      <4> QED
        BY <4>1
    <3>4. /\ R \in SUBSET T /\ Cardinality(R) = k /\ x \in R
          /\ Q \in SUBSET T /\ Cardinality(Q) = k /\ y \in Q /\ P \in SUBSET T
      <4>1. \A z \in S : S \ {z} \in SUBSET T /\ Cardinality(S \ {z}) = Cardinality(S) - 1
        BY Smaller
      <4> QED
        BY <2>2, <2>4, <3>1, <3>2, <3>3, <4>1
    <3>5. h[R] = f[x] + h[P] /\ h[Q] = f[y] + h[P]
      BY <1>7, <3>3, <3>4
    <3>6. h[P] \in Nat /\ f[x] \in Nat /\ f[y] \in Nat
      BY <2>2, <3>4
    <3>7. h[S] = f[y] + h[R]
      BY <2>2, <3>1
    <3>8. f[y] + (f[x] + h[P]) = f[x] + (f[y] + h[P])
      BY <3>6
    <3> QED
      BY <3>2, <3>5, <3>7, <3>8
  <2> QED
    BY <2>3, <2>4
<1>8. Cardinality(T) \in K
  <2> HIDE DEF K
  <2> QED
    BY <1>6, <1>7, Induction, FS_CardinalityType
<1>9. h[T] = f[c] + h[U]
  BY <1>2, <1>8
<1>10. h[T] \in Nat /\ b[U] \in Nat
  OBVIOUS
<1> QED
  BY <1>1, <1>2, <1>4, <1>5, <1>9, <1>10

\* A dictionary of counts in which one is incremented.
Incremented(f, c) == Put(f, c, IF c \in DOMAIN f THEN f[c] + 1 ELSE 1)

LEMMA SumPut ==
  ASSUME NEW D, IsFiniteSet(D), NEW f \in [D -> Nat], NEW c
  PROVE  LET g == Incremented(f, c)
         IN /\ IsFiniteSet(D \cup {c}) /\ g \in [D \cup {c} -> Nat]
            /\ SumFunction(f) \in Nat /\ SumFunction(g) = SumFunction(f) + 1
<1>1. PICK g : g = Incremented(f, c)
  OBVIOUS
<1>2. PICK T : T = D \cup {c}
  OBVIOUS
<1>3. PICK U : U = T \ {c}
  OBVIOUS
<1>4. IsFiniteSet(T) /\ IsFiniteSet(U) /\ U \subseteq D /\ U = D \ {c}
  <2>1. IsFiniteSet(T)
    BY <1>2, FS_AddElement
  <2>2. IsFiniteSet(U)
    BY <1>3, <2>1, FS_Subset
  <2> QED
    BY <1>2, <1>3, <2>1, <2>2
<1>5. /\ g \in [T -> Nat] /\ (\A x \in U : g[x] = f[x])
      /\ g[c] = IF c \in D THEN f[c] + 1 ELSE 1
  BY <1>1, <1>2, <1>3 DEF Incremented, Put
<1>6. SumFunctionOnSet(g, T) = g[c] + SumFunctionOnSet(g, U) /\ SumFunctionOnSet(g, U) \in Nat
  <2>1. c \in T /\ \A x \in T : g[x] \in Nat
    BY <1>2, <1>5
  <2> QED
    BY <1>3, <1>4, <2>1, SumLess
<1>7. SumFunctionOnSet(g, U) = SumFunctionOnSet(f, U)
  <2>1. \A x \in U : f[x] \in Nat /\ g[x] \in Nat /\ f[x] <= g[x] /\ g[x] <= f[x]
    BY <1>4, <1>5
  <2>2. /\ SumFunctionOnSet(f, U) \in Nat /\ SumFunctionOnSet(g, U) \in Nat
        /\ SumFunctionOnSet(f, U) <= SumFunctionOnSet(g, U)
    BY <1>4, <2>1, SumGrows
  <2>3. SumFunctionOnSet(g, U) <= SumFunctionOnSet(f, U)
    BY <1>4, <2>1, SumGrows
  <2> QED
    BY <2>2, <2>3
<1>8. SumFunctionOnSet(f, D) \in Nat /\ SumFunctionOnSet(g, T) = SumFunctionOnSet(f, D) + 1
  <2>1. CASE c \in D
    <3>1. /\ SumFunctionOnSet(f, D) \in Nat /\ SumFunctionOnSet(f, D) = f[c] + SumFunctionOnSet(f, D \ {c})
      BY <2>1, SumLess
    <3>2. f[c] \in Nat /\ g[c] = f[c] + 1
      BY <1>5, <2>1
    <3> QED
      BY <1>4, <1>6, <1>7, <3>1, <3>2
  <2>2. CASE c \notin D
    <3>1. U = D /\ g[c] = 1
      BY <1>4, <1>5, <2>2
    <3> QED
      BY <1>6, <1>7, <3>1
  <2> QED
    BY <2>1, <2>2
<1>9. SumFunction(f) = SumFunctionOnSet(f, D) /\ SumFunction(g) = SumFunctionOnSet(g, T)
  <2>1. DOMAIN f = D /\ DOMAIN g = T
    BY <1>5
  <2> QED
    BY <2>1 DEF SumFunction
<1> QED
  BY <1>1, <1>2, <1>4, <1>5, <1>8, <1>9

---------------------------------------------------------------------------
(* The recent hits are the last ones                                        *)

\* The last items slide on by one.
LEMMA LastSlides ==
  ASSUME NEW T, NEW a \in Seq(T), NEW x \in T, NEW n \in Nat
  PROVE  LET listed == Append(LastOf(a, n), x)
         IN LastOf(Append(a, x), n) = IF Len(listed) > n THEN Tail(listed) ELSE listed
<1>1. PICK m \in Nat : m = Len(a)
  BY LenProperties
<1>2. PICK w \in Seq(T) : w = LastOf(a, n)
  BY LastOfIs
<1>3. /\ Len(w) = IF m > n THEN n ELSE m
      /\ \A i \in 1 .. Len(w) : w[i] = a[(m - Len(w)) + i]
  BY <1>1, <1>2, LastOfIs
<1>4. PICK b \in Seq(T) : b = Append(a, x)
  BY AppendProperties
<1>5. Len(b) = m + 1 /\ b[m + 1] = x /\ \A i \in 1 .. m : b[i] = a[i]
  BY <1>1, <1>4, AppendProperties
<1>6. PICK v \in Seq(T) : v = LastOf(b, n)
  BY LastOfIs
<1>7. /\ Len(v) = IF m + 1 > n THEN n ELSE m + 1
      /\ \A i \in 1 .. Len(v) : v[i] = b[((m + 1) - Len(v)) + i]
  <2>1. /\ Len(v) = IF Len(b) > n THEN n ELSE Len(b)
        /\ \A i \in 1 .. Len(v) : v[i] = b[(Len(b) - Len(v)) + i]
    BY <1>6, LastOfIs
  <2> QED
    BY <1>5, <2>1
<1>8. PICK k \in Nat : k = Len(w) /\ k <= m
  BY <1>3
<1>9. PICK listed \in Seq(T) : listed = Append(w, x)
  BY AppendProperties
<1>10. Len(listed) = k + 1 /\ listed[k + 1] = x /\ \A i \in 1 .. k : listed[i] = w[i]
  BY <1>8, <1>9, AppendProperties
<1>11. CASE m < n
  <2>1. k = m /\ Len(v) = m + 1 /\ ~ (Len(listed) > n) /\ (m + 1) - Len(v) = 0 /\ m - k = 0
    BY <1>3, <1>7, <1>8, <1>10, <1>11
  <2>2. ASSUME NEW i \in 1 .. m + 1 PROVE v[i] = listed[i]
    <3>1. v[i] = b[i]
      <4>1. ((m + 1) - Len(v)) + i = i
        BY <2>1
      <4> QED
        BY <1>7, <2>1, <4>1
    <3>2. CASE i = m + 1
      BY <1>5, <1>10, <2>1, <3>1, <3>2
    <3>3. CASE i # m + 1
      <4>1. i \in 1 .. m /\ (m - k) + i = i
        BY <2>1, <3>3
      <4> QED
        BY <1>3, <1>5, <1>8, <1>10, <2>1, <3>1, <4>1
    <3> QED
      BY <3>2, <3>3
  <2>3. v = listed
    BY <1>10, <2>1, <2>2, SeqEqual
  <2> QED
    BY <1>2, <1>4, <1>6, <1>9, <2>1, <2>3
<1>12. CASE ~ (m < n)
  <2>1. k = n /\ Len(v) = n /\ Len(listed) > n
    BY <1>3, <1>7, <1>8, <1>10, <1>12
  <2>2. PICK t \in Seq(T) : t = Tail(listed)
    <3>1. listed # <<>>
      BY <1>10, EmptyIs
    <3> QED
      BY <3>1, HeadTailProperties
  <2>3. Len(t) = n /\ \A i \in 1 .. n : t[i] = listed[i + 1]
    <3>1. listed # <<>>
      BY <1>10, EmptyIs
    <3>2. Len(t) = Len(listed) - 1 /\ \A i \in 1 .. Len(t) : t[i] = listed[i + 1]
      BY <2>2, <3>1, HeadTailProperties
    <3>3. Len(t) = n
      BY <1>10, <2>1, <3>2
    <3> QED
      BY <3>2, <3>3
  <2>4. ASSUME NEW i \in 1 .. n PROVE v[i] = t[i]
    <3>1. v[i] = b[((m + 1) - n) + i] /\ t[i] = listed[i + 1]
      BY <1>7, <2>1, <2>3
    <3>2. CASE i = n
      <4>1. ((m + 1) - n) + i = m + 1 /\ i + 1 = k + 1
        BY <2>1, <3>2
      <4> QED
        BY <1>5, <1>10, <3>1, <4>1
    <3>3. CASE i # n
      <4>1. i + 1 \in 1 .. k /\ ((m + 1) - n) + i \in 1 .. m /\ ((m + 1) - n) + i = (m - k) + (i + 1)
        BY <1>12, <2>1, <3>3
      <4> QED
        BY <1>3, <1>5, <1>8, <1>10, <3>1, <4>1
    <3> QED
      BY <3>2, <3>3
  <2>5. v = t
    BY <2>1, <2>3, <2>4, SeqEqual
  <2> QED
    BY <1>2, <1>4, <1>6, <1>9, <2>1, <2>2, <2>5
<1> QED
  BY <1>11, <1>12

\* The categories of hits, and a collector of them.
Kinds == UNION {Range(StopHits[t]) : t \in DOMAIN LoopHits}
Hits == Kinds \X Nat
Tallies == UNION {[D -> Nat] : D \in {S \in SUBSET Kinds : IsFiniteSet(S)}}
Phrases ==
  [messages : Nat, hits : Nat, withHit : Nat, byCategory : Tallies, recent : Seq(Hits)]

\* It has taken the hits of all.
Took(p, all) ==
  p.hits = Len(all) /\ p.recent = LastOf(all, RecentCap) /\ SumFunction(p.byCategory) = p.hits

LEMMA HitTakes ==
  ASSUME NEW p \in Phrases, NEW c \in Kinds, NEW all \in Seq(Hits), Took(p, all)
  PROVE  /\ Hit(p, c) \in Phrases /\ Hit(p, c).messages = p.messages
         /\ Hit(p, c).withHit = p.withHit
         /\ Took(Hit(p, c), Append(all, <<c, p.messages>>))
<1>1. PICK hit \in Hits : hit = <<c, p.messages>>
  BY DEF Phrases, Hits
<1>2. PICK listed \in Seq(Hits) : listed = Append(p.recent, hit)
  <2>1. p.recent \in Seq(Hits)
    BY DEF Phrases
  <2> QED
    BY <2>1, AppendProperties
<1>3. PICK recent \in Seq(Hits) : recent = IF Len(listed) > RecentCap THEN Tail(listed) ELSE listed
  <2>1. RecentCap \in Nat /\ Len(listed) \in Nat
    BY CollectorsAssumption, LenProperties
  <2>2. Len(listed) > RecentCap => listed # <<>>
    BY <2>1, EmptyIs
  <2>3. Len(listed) > RecentCap => Tail(listed) \in Seq(Hits)
    BY <2>2, HeadTailProperties
  <2> QED
    BY <2>3
<1>4. PICK D \in SUBSET Kinds : IsFiniteSet(D) /\ p.byCategory \in [D -> Nat]
  BY DEF Phrases, Tallies
<1>5. PICK f \in [D -> Nat] : f = p.byCategory
  BY <1>4
<1>6. PICK g : g = Incremented(f, c)
  OBVIOUS
<1>7. /\ IsFiniteSet(D \cup {c}) /\ g \in [D \cup {c} -> Nat]
      /\ SumFunction(f) \in Nat /\ SumFunction(g) = SumFunction(f) + 1
  BY <1>4, <1>6, SumPut
<1>8. g \in Tallies
  <2>1. D \cup {c} \in SUBSET Kinds
    OBVIOUS
  <2> QED
    BY <1>7, <2>1 DEF Tallies
<1>9. PICK hits \in Nat : hits = p.hits + 1
  BY DEF Phrases
<1>10. Hit(p, c) = [p EXCEPT !.hits = hits, !.byCategory = g, !.recent = recent]
  BY <1>1, <1>2, <1>3, <1>5, <1>6, <1>9 DEF Hit, Incremented, Phrases
<1>11. /\ Hit(p, c) \in Phrases /\ Hit(p, c).messages = p.messages /\ Hit(p, c).hits = hits
       /\ Hit(p, c).withHit = p.withHit
       /\ Hit(p, c).byCategory = g /\ Hit(p, c).recent = recent
  BY <1>8, <1>10 DEF Phrases
<1>12. Len(Append(all, hit)) = hits
  BY <1>9, AppendProperties DEF Took
<1>13. SumFunction(g) = hits
  BY <1>5, <1>7, <1>9 DEF Took
<1>14. LastOf(Append(all, hit), RecentCap) = recent
  <2>1. RecentCap \in Nat
    BY CollectorsAssumption
  <2>2. LastOf(Append(all, hit), RecentCap) =
          IF Len(Append(LastOf(all, RecentCap), hit)) > RecentCap
          THEN Tail(Append(LastOf(all, RecentCap), hit)) ELSE Append(LastOf(all, RecentCap), hit)
    BY <2>1, LastSlides
  <2>3. p.recent = LastOf(all, RecentCap)
    BY DEF Took
  <2> QED
    BY <1>2, <1>3, <2>2, <2>3
<1> QED
  BY <1>1, <1>11, <1>12, <1>13, <1>14 DEF Took

\* The hits of a message, with its number.
Numbered(h, n) == [j \in DOMAIN h |-> <<h[j], n>>]

LEMMA NumberedGrows ==
  ASSUME NEW h \in Seq(Kinds), NEW c \in Kinds, NEW n \in Nat
  PROVE  /\ Numbered(h, n) \in Seq(Hits)
         /\ Numbered(Append(h, c), n) = Append(Numbered(h, n), <<c, n>>)
<1> DEFINE f == [x \in Kinds |-> <<x, n>>]
<1>1. Maps(f, Kinds, Hits) /\ f[c] = <<c, n>>
  BY DEF Maps, Hits
<1>2. \A u \in Seq(Kinds) : Mapped(u, f) = Numbered(u, n)
  <2> SUFFICES ASSUME NEW u \in Seq(Kinds) PROVE Mapped(u, f) = Numbered(u, n)
    OBVIOUS
  <2>1. \A i \in DOMAIN u : u[i] \in Kinds
    BY LenProperties
  <2> QED
    BY <2>1 DEF Mapped, Numbered
<1>3. PICK u \in Seq(Kinds) : u = Append(h, c)
  BY AppendProperties
<1>4. Mapped(h, f) = Numbered(h, n) /\ Mapped(u, f) = Numbered(u, n)
  BY <1>2
<1> HIDE DEF f
<1>5. Mapped(h, f) \in Seq(Hits) /\ Mapped(Append(h, c), f) = Append(Mapped(h, f), f[c])
  BY <1>1, MappedGrows
<1> QED
  BY <1>1, <1>3, <1>4, <1>5

LEMMA NumberedIs ==
  ASSUME NEW h \in Seq(Kinds), NEW n \in Nat
  PROVE  Numbered(h, n) \in Seq(Hits)
<1>1. CASE h = <<>>
  <2>1. PICK none \in Seq(Hits) : none = <<>>
    BY JoinsIs
  <2>2. DOMAIN none = {} /\ none = [i \in 1 .. Len(none) |-> none[i]] /\ DOMAIN none = 1 .. Len(none)
    BY <2>1, EmptyIs, LenProperties
  <2>3. Numbered(h, n) = none
    BY <1>1, <2>1, <2>2 DEF Numbered
  <2> QED
    BY <2>3
<1>2. CASE h # <<>>
  <2>1. PICK c \in Kinds : TRUE
    BY <1>2, EmptyIs, LenProperties
  <2> QED
    BY <2>1, NumberedGrows
<1> QED
  BY <1>1, <1>2

LEMMA HitFolds ==
  ASSUME NEW p \in Phrases, NEW h \in Seq(Kinds), NEW all \in Seq(Hits), Took(p, all)
  PROVE  LET q == FoldLeft(Hit, p, h)
         IN /\ q \in Phrases /\ q.messages = p.messages /\ q.withHit = p.withHit
            /\ Numbered(h, p.messages) \in Seq(Hits) /\ Took(q, all \o Numbered(h, p.messages))
<1> DEFINE S == {a \in Phrases : a.messages = p.messages /\ a.withHit = p.withHit /\ \E u \in Seq(Hits) : Took(a, u)}
           step == [a \in S \X Kinds |-> Hit(a[1], a[2])]
           isFold(f) == f = [t \in SUBSET DOMAIN h |->
                               IF t = {} THEN p ELSE Hit(f[t \ {Max(t)}], h[Max(t)])]
           fold == CHOOSE f : isFold(f)
           R == {r \in S \X Seq(Kinds) : Took(r[1], all \o Numbered(r[2], p.messages))}
<1>0. p.messages \in Nat
  BY DEF Phrases
<1>1. FoldLeft(Hit, p, h) = fold[DOMAIN h]
  BY DEF FoldLeft, MapThenFoldSet
<1>2. \A a \in S, x \in Kinds : Hit(a, x) \in S
  <2> SUFFICES ASSUME NEW a \in S, NEW x \in Kinds PROVE Hit(a, x) \in S
    OBVIOUS
  <2>1. PICK u \in Seq(Hits) : Took(a, u)
    OBVIOUS
  <2>2. a \in Phrases /\ a.messages = p.messages /\ a.withHit = p.withHit
    OBVIOUS
  <2>3. <<x, a.messages>> \in Hits
    BY <1>0, <2>2 DEF Hits
  <2>4. Append(u, <<x, a.messages>>) \in Seq(Hits)
    BY <2>3, AppendProperties
  <2>5. /\ Hit(a, x) \in Phrases /\ Hit(a, x).messages = a.messages /\ Hit(a, x).withHit = a.withHit
        /\ Took(Hit(a, x), Append(u, <<x, a.messages>>))
    BY <2>1, <2>2, HitTakes
  <2> QED
    BY <2>2, <2>4, <2>5
<1>3. p \in S
  OBVIOUS
<1> HIDE DEF isFold, fold
<1>4. IsStep(step, S, Kinds) /\ \A a \in S, x \in Kinds : step[<<a, x>>] = Hit(a, x)
  <2> HIDE DEF S
  <2> QED
    BY <1>2 DEF IsStep
<1>5. DOMAIN h = 1 .. Len(h) /\ Len(h) \in Nat /\ \A i \in 1 .. Len(h) : h[i] \in Kinds
  BY LenProperties
<1>6. \A t \in SUBSET DOMAIN h : t # {} => Max(t) \in DOMAIN h /\ t \ {Max(t)} \in SUBSET DOMAIN h
  BY <1>5, MaxIs
<1> HIDE DEF step, S
<1>7. PICK g \in [SUBSET DOMAIN h -> S] : Folds(g, S, Kinds, step, p, h)
  BY <1>3, <1>4, FoldExists
<1>8. isFold(g)
  <2>1. \A t \in SUBSET DOMAIN h :
          g[t] = IF t = {} THEN p ELSE Hit(g[t \ {Max(t)}], h[Max(t)])
    BY <1>4, <1>5, <1>6, <1>7 DEF Folds
  <2> QED
    BY <2>1 DEF isFold
<1>9. isFold(fold)
  BY <1>8 DEF fold
<1>10. Recurses(fold, S, step, p, h)
  <2>1. \A t \in SUBSET DOMAIN h :
          fold[t] = IF t = {} THEN p ELSE Hit(fold[t \ {Max(t)}], h[Max(t)])
    BY <1>9 DEF isFold
  <2> QED
    BY <1>4, <1>5, <1>6, <2>1 DEF Recurses
<1>11. Keeps(R, S, Kinds, step)
  <2> SUFFICES ASSUME NEW a \in S, NEW v \in Seq(Kinds), NEW x \in Kinds,
                      Took(a, all \o Numbered(v, p.messages))
               PROVE  /\ step[<<a, x>>] \in S /\ Append(v, x) \in Seq(Kinds)
                      /\ Took(step[<<a, x>>], all \o Numbered(Append(v, x), p.messages))
    BY DEF Keeps
  <2>1. a \in Phrases /\ a.messages = p.messages
    BY DEF S
  <2>2. PICK n \in Nat : n = p.messages
    BY <1>0
  <2>3. PICK z \in Seq(Hits) : z = Numbered(v, n)
    BY NumberedGrows
  <2>4. PICK hit \in Hits : hit = <<x, n>>
    BY DEF Hits
  <2>5. Numbered(Append(v, x), n) = Append(z, hit)
    BY <2>3, <2>4, NumberedGrows
  <2>6. all \o Append(z, hit) = Append(all \o z, hit)
    BY ONLY all \in Seq(Hits), z \in Seq(Hits), hit \in Hits, JoinAppended
  <2>7. PICK w \in Seq(Hits) : w = all \o z
    BY ConcatProperties
  <2>8. Took(Hit(a, x), Append(w, hit))
    BY <2>1, <2>2, <2>3, <2>4, <2>7, HitTakes
  <2>9. step[<<a, x>>] = Hit(a, x) /\ Hit(a, x) \in S
    BY <1>2, <1>4
  <2>10. Append(v, x) \in Seq(Kinds)
    BY AppendProperties
  <2> QED
    BY <2>2, <2>5, <2>6, <2>7, <2>8, <2>9, <2>10
<1>12. PICK none \in Seq(Kinds) : none = <<>>
  BY JoinsIs
<1>13. Numbered(none, p.messages) = <<>> /\ all \o <<>> = all
  <2>1. DOMAIN none = {} /\ none = [i \in 1 .. Len(none) |-> none[i]] /\ DOMAIN none = 1 .. Len(none)
    BY <1>12, EmptyIs, SeqIs
  <2>2. Numbered(none, p.messages) = none
    BY <2>1 DEF Numbered
  <2>3. all \o <<>> = all
    BY ConcatEmptySeq
  <2> QED
    BY <1>12, <2>2, <2>3
<1>14. <<p, none>> \in R
  BY <1>3, <1>13
<1>15. fold[DOMAIN h] \in S /\ <<fold[DOMAIN h], none \o h>> \in R
  <2> HIDE DEF R
  <2> QED
    BY <1>4, <1>10, <1>11, <1>14, <1>3, FoldKeeps
<1>16. none \o h = h
  BY <1>12, ConcatEmptySeq
<1>17. /\ fold[DOMAIN h] \in Phrases /\ fold[DOMAIN h].messages = p.messages
       /\ fold[DOMAIN h].withHit = p.withHit
  BY <1>15 DEF S
<1>18. Numbered(h, p.messages) \in Seq(Hits)
  BY <1>0, NumberedIs
<1> QED
  BY <1>1, <1>15, <1>16, <1>17, <1>18

\* The hits of each message, and all of them.
Lists(said) == [i \in DOMAIN said |-> Numbered(StopHits[said[i].payload], i)]
AllHits(said) == FlattenSeq(Lists(said))

LEMMA TextHits ==
  ASSUME NEW e, EventOK(e), IsSaid(e)
  PROVE  StopHits[e.payload] \in Seq(Kinds)
<1>1. PICK t \in DOMAIN LoopHits : t = e.payload
  BY DEF EventOK, IsSaid, Texts
<1>2. PICK h \in Seq(Range(StopHits[t])) : h = StopHits[t]
  BY CollectorsAssumption
<1>3. Range(StopHits[t]) \in SUBSET Kinds
  BY DEF Kinds
<1>4. h \in Seq(Kinds)
  <2>1. PICK T : T = Range(StopHits[t])
    OBVIOUS
  <2>2. T \in SUBSET Kinds /\ h \in Seq(T)
    BY <1>2, <1>3, <2>1
  <2> QED
    BY ONLY <2>2
<1> QED
  BY <1>1, <1>2, <1>4

LEMMA ListsGrow ==
  ASSUME NEW E, NEW said \in Seq(E), NEW e \in E, Lists(said) \in Seq(Seq(Hits)),
         StopHits[e.payload] \in Seq(Kinds)
  PROVE  LET one == Numbered(StopHits[e.payload], Len(said) + 1)
         IN /\ one \in Seq(Hits) /\ AllHits(said) \in Seq(Hits)
            /\ Lists(Append(said, e)) \in Seq(Seq(Hits))
            /\ AllHits(Append(said, e)) = AllHits(said) \o one
<1>1. PICK n \in Nat : n = Len(said)
  BY LenProperties
<1>2. PICK one \in Seq(Hits) : one = Numbered(StopHits[e.payload], n + 1)
  BY NumberedIs
<1>3. PICK T : T = Seq(Hits)
  OBVIOUS
<1>4. PICK v \in Seq(T) : v = Lists(said)
  BY <1>3
<1>5. DOMAIN said = 1 .. n
  BY <1>1, LenProperties
<1>6. Len(v) = n /\ \A i \in 1 .. n : v[i] = Numbered(StopHits[said[i].payload], i)
  <2>1. DOMAIN v = 1 .. n
    BY <1>4, <1>5 DEF Lists
  <2>2. Len(v) = n
    BY <1>1, <2>1, LenProperties
  <2> QED
    BY <1>4, <1>5, <2>2 DEF Lists
<1>7. PICK u \in Seq(E) : u = Append(said, e)
  BY AppendProperties
<1>8. Len(u) = n + 1 /\ u[n + 1] = e /\ \A i \in 1 .. n : u[i] = said[i]
  BY <1>1, <1>7, AppendProperties
<1>9. PICK w \in Seq(T) : w = Append(v, one)
  BY <1>2, <1>3, AppendProperties
<1>10. Len(w) = n + 1 /\ w[n + 1] = one /\ \A i \in 1 .. n : w[i] = v[i]
  BY <1>2, <1>3, <1>6, <1>9, AppendProperties
<1>11. DOMAIN u = 1 .. n + 1 /\ DOMAIN w = 1 .. n + 1 /\ w = [i \in 1 .. n + 1 |-> w[i]]
  BY <1>8, <1>10, LenProperties
<1>12. Lists(u) = w
  <2>1. \A i \in 1 .. n + 1 : w[i] = Numbered(StopHits[u[i].payload], i)
    <3> SUFFICES ASSUME NEW i \in 1 .. n + 1 PROVE w[i] = Numbered(StopHits[u[i].payload], i)
      OBVIOUS
    <3>1. CASE i = n + 1
      BY <1>2, <1>8, <1>10, <3>1
    <3>2. CASE i # n + 1
      <4>1. i \in 1 .. n
        BY <3>2
      <4> QED
        BY <1>6, <1>8, <1>10, <4>1
    <3> QED
      BY <3>1, <3>2
  <2> QED
    BY <1>11, <2>1 DEF Lists
<1>13. FlattenSeq(v) \in Seq(Hits) /\ FlattenSeq(Append(v, one)) = FlattenSeq(v) \o one
  BY <1>2, <1>3, <1>4, FlattenAppend
<1> QED
  BY <1>1, <1>2, <1>3, <1>4, <1>7, <1>9, <1>12, <1>13 DEF AllHits

\* The collector has taken all hits of what was said.
PhrasesRight(p, said) ==
  /\ p.messages = Len(said) /\ p.withHit <= p.messages
  /\ Lists(said) \in Seq(Seq(Hits)) /\ Took(p, AllHits(said))

LEMMA PhraseStep ==
  ASSUME NEW E, EventsOK(E), NEW v \in Seq(E), NEW e \in E, NEW p \in Phrases,
         PhrasesRight(p, SaidOf(v))
  PROVE  FoldPhrases(p, e) \in Phrases /\ PhrasesRight(FoldPhrases(p, e), SaidOf(Append(v, e)))
<1>1. /\ SaidOf(v) \in Seq(E)
      /\ SaidOf(Append(v, e)) = IF IsSaid(e) THEN Append(SaidOf(v), e) ELSE SaidOf(v)
  BY SaidAppend
<1>2. CASE IsSaid(e)
  <2>1. PICK h \in Seq(Kinds) : h = StopHits[e.payload]
    BY <1>2, TextHits DEF EventsOK
  <2>2. PICK w \in Seq(E) : w = SaidOf(v)
    BY <1>1
  <2>3. PICK n \in Nat : n = Len(w)
    BY LenProperties
  <2>4. p.messages = n /\ p.withHit <= n /\ Lists(w) \in Seq(Seq(Hits)) /\ Took(p, AllHits(w))
    BY <2>2, <2>3 DEF PhrasesRight
  <2>5. PICK q : q = [p EXCEPT !.messages = p.messages + 1,
                               !.withHit = IF h = <<>> THEN p.withHit ELSE p.withHit + 1]
    OBVIOUS
  <2>6. q \in Phrases /\ q.messages = n + 1 /\ q.hits = p.hits /\ q.recent = p.recent
        /\ q.byCategory = p.byCategory /\ q.withHit <= n + 1
    <3>1. p.withHit \in Nat
      BY DEF Phrases
    <3>2. PICK k \in Nat : k = (IF h = <<>> THEN p.withHit ELSE p.withHit + 1) /\ k <= n + 1
      BY <2>4, <3>1
    <3>3. PICK m \in Nat : m = n + 1
      OBVIOUS
    <3>4. q = [p EXCEPT !.messages = m, !.withHit = k]
      BY <2>4, <2>5, <3>2, <3>3
    <3>5. [p EXCEPT !.messages = m, !.withHit = k] \in Phrases
      BY DEF Phrases
    <3>6. /\ q.messages = m /\ q.hits = p.hits /\ q.recent = p.recent /\ q.byCategory = p.byCategory
          /\ q.withHit = k
      BY <3>4 DEF Phrases
    <3> QED
      BY <3>2, <3>3, <3>4, <3>5, <3>6
  <2>7. Took(q, AllHits(w))
    BY <2>4, <2>6 DEF Took
  <2>8. FoldPhrases(p, e) = FoldLeft(Hit, q, h)
    BY <1>2, <2>1, <2>5 DEF FoldPhrases, IsSaid
  <2>9. /\ AllHits(w) \in Seq(Hits) /\ Lists(Append(w, e)) \in Seq(Seq(Hits))
        /\ AllHits(Append(w, e)) = AllHits(w) \o Numbered(h, n + 1)
    BY <2>1, <2>3, <2>4, ListsGrow
  <2>10. PICK all \in Seq(Hits) : all = AllHits(w)
    BY <2>9
  <2>11. PICK r : r = FoldLeft(Hit, q, h)
    OBVIOUS
  <2>12. r \in Phrases /\ r.messages = q.messages /\ r.withHit = q.withHit /\ Took(r, all \o Numbered(h, q.messages))
    BY <2>6, <2>7, <2>10, <2>11, HitFolds
  <2>13. Len(Append(w, e)) = n + 1
    BY <2>3, AppendProperties
  <2>14. PhrasesRight(r, Append(w, e))
    BY <2>6, <2>9, <2>10, <2>12, <2>13 DEF PhrasesRight
  <2> QED
    BY <1>1, <1>2, <2>2, <2>8, <2>11, <2>12, <2>14
<1>3. CASE ~ IsSaid(e)
  <2>1. FoldPhrases(p, e) = p
    BY <1>3 DEF FoldPhrases, IsSaid
  <2> QED
    BY <1>1, <1>3, <2>1
<1> QED
  BY <1>2, <1>3

LEMMA PhraseFolds ==
  ASSUME NEW E, EventsOK(E), NEW u \in Seq(E), NEW s \in Seq(E), NEW p \in Phrases,
         PhrasesRight(p, SaidOf(u))
  PROVE  /\ FoldLeft(FoldPhrases, p, s) \in Phrases
         /\ PhrasesRight(FoldLeft(FoldPhrases, p, s), SaidOf(u \o s))
<1> DEFINE S == {a \in Phrases : \E v \in Seq(E) : PhrasesRight(a, SaidOf(v))}
           step == [a \in S \X E |-> FoldPhrases(a[1], a[2])]
           isFold(g) == g = [t \in SUBSET DOMAIN s |->
                               IF t = {} THEN p ELSE FoldPhrases(g[t \ {Max(t)}], s[Max(t)])]
           fold == CHOOSE g : isFold(g)
           R == {r \in S \X Seq(E) : PhrasesRight(r[1], SaidOf(r[2]))}
<1>1. FoldLeft(FoldPhrases, p, s) = fold[DOMAIN s]
  BY DEF FoldLeft, MapThenFoldSet
<1>2. \A a \in S, x \in E : FoldPhrases(a, x) \in S
  <2> SUFFICES ASSUME NEW a \in Phrases, NEW v \in Seq(E), PhrasesRight(a, SaidOf(v)), NEW x \in E
               PROVE  FoldPhrases(a, x) \in S
    OBVIOUS
  <2>1. PICK w \in Seq(E) : w = Append(v, x)
    BY AppendProperties
  <2>2. FoldPhrases(a, x) \in Phrases /\ PhrasesRight(FoldPhrases(a, x), SaidOf(w))
    BY <2>1, PhraseStep
  <2> QED
    BY <2>2
<1>3. p \in S
  OBVIOUS
<1> HIDE DEF isFold, fold
<1>4. IsStep(step, S, E) /\ \A a \in S, x \in E : step[<<a, x>>] = FoldPhrases(a, x)
  <2> HIDE DEF S
  <2> QED
    BY <1>2 DEF IsStep
<1>5. DOMAIN s = 1 .. Len(s) /\ Len(s) \in Nat /\ \A i \in 1 .. Len(s) : s[i] \in E
  BY LenProperties
<1>6. \A t \in SUBSET DOMAIN s : t # {} => Max(t) \in DOMAIN s /\ t \ {Max(t)} \in SUBSET DOMAIN s
  BY <1>5, MaxIs
<1>7. \A a \in S : a \in Phrases
  OBVIOUS
<1> HIDE DEF step, S
<1>8. PICK h \in [SUBSET DOMAIN s -> S] : Folds(h, S, E, step, p, s)
  BY <1>3, <1>4, FoldExists
<1>9. isFold(h)
  <2>1. \A t \in SUBSET DOMAIN s :
          h[t] = IF t = {} THEN p ELSE FoldPhrases(h[t \ {Max(t)}], s[Max(t)])
    BY <1>4, <1>5, <1>6, <1>8 DEF Folds
  <2> QED
    BY <2>1 DEF isFold
<1>10. isFold(fold)
  BY <1>9 DEF fold
<1>11. Recurses(fold, S, step, p, s)
  <2>1. \A t \in SUBSET DOMAIN s :
          fold[t] = IF t = {} THEN p ELSE FoldPhrases(fold[t \ {Max(t)}], s[Max(t)])
    BY <1>10 DEF isFold
  <2> QED
    BY <1>4, <1>5, <1>6, <2>1 DEF Recurses
<1>12. Keeps(R, S, E, step)
  <2> SUFFICES ASSUME NEW a \in S, NEW v \in Seq(E), NEW x \in E, PhrasesRight(a, SaidOf(v))
               PROVE  /\ step[<<a, x>>] \in S /\ Append(v, x) \in Seq(E)
                      /\ PhrasesRight(step[<<a, x>>], SaidOf(Append(v, x)))
    BY DEF Keeps
  <2>1. PhrasesRight(FoldPhrases(a, x), SaidOf(Append(v, x)))
    BY <1>7, PhraseStep
  <2>2. step[<<a, x>>] = FoldPhrases(a, x) /\ FoldPhrases(a, x) \in S
    BY <1>2, <1>4
  <2>3. Append(v, x) \in Seq(E)
    BY AppendProperties
  <2> QED
    BY <2>1, <2>2, <2>3
<1>13. <<p, u>> \in R
  BY <1>3
<1>14. fold[DOMAIN s] \in S /\ <<fold[DOMAIN s], u \o s>> \in R
  <2> HIDE DEF R
  <2> QED
    BY <1>3, <1>4, <1>11, <1>12, <1>13, FoldKeeps
<1> QED
  BY <1>1, <1>7, <1>14

PhrasesInv == phrases \in Phrases /\ PhrasesRight(phrases, Said)

LEMMA PhrasesIngest ==
  ASSUME EventsInv, PhrasesInv, NEW l \in alphabet, IngestLine(l)
  PROVE  PhrasesInv'
<1>1. PICK E : EventsOK(E) /\ Events \in Seq(E) /\ Yields(l) \in Seq(E)
  BY EventsGrow
<1>2. PICK u \in Seq(E) : u = Events
  BY <1>1
<1>3. PICK s \in Seq(E) : s = Yields(l)
  BY <1>1
<1>4. phrases \in Phrases /\ PhrasesRight(phrases, SaidOf(u))
  BY <1>2 DEF PhrasesInv, Said
<1>5. PICK q : q = FoldLeft(FoldPhrases, phrases, s)
  OBVIOUS
<1>6. q \in Phrases /\ PhrasesRight(q, SaidOf(u \o s))
  BY <1>1, <1>4, <1>5, PhraseFolds
<1>7. phrases' = q
  BY <1>3, <1>5 DEF IngestLine
<1>8. Said' = SaidOf(u \o s)
  <2>1. Said' = SaidOf(Events') /\ Events' = u \o s
    BY <1>2, <1>3, EventsGrow DEF Said
  <2> QED
    BY <2>1
<1>9. PICK w : w = SaidOf(u \o s)
  OBVIOUS
<1>10. phrases' \in Phrases /\ PhrasesRight(phrases', Said')
  BY <1>6, <1>7, <1>8
<1> QED
  BY <1>10 DEF PhrasesInv, PhrasesRight, Took, AllHits, Lists, Numbered

LEMMA NoHits ==
  ASSUME NEW said, said = <<>>
  PROVE  Lists(said) \in Seq(Seq(Hits)) /\ AllHits(said) = <<>> /\ Len(said) = 0
<1>1. PICK T : T = Seq(Hits)
  OBVIOUS
<1>2. PICK none \in Seq(T) : none = <<>>
  BY JoinsIs
<1>3. DOMAIN none = {} /\ none = [i \in 1 .. Len(none) |-> none[i]] /\ DOMAIN none = 1 .. Len(none)
      /\ Len(none) = 0
  BY <1>2, EmptyIs, LenProperties
<1>4. Lists(said) = none
  BY <1>2, <1>3 DEF Lists
<1> QED
  BY <1>1, <1>2, <1>3, <1>4, FlattenNothing DEF AllHits

LEMMA NewPhrasesIs == NewPhrases \in Phrases /\ Took(NewPhrases, <<>>)
<1>1. PICK none \in Seq(Hits) : none = <<>>
  BY JoinsIs
<1>2. DOMAIN none = {} /\ none = [i \in {} |-> none[i]] /\ Len(none) = 0
  <2>1. DOMAIN none = {} /\ none = [i \in 1 .. Len(none) |-> none[i]] /\ DOMAIN none = 1 .. Len(none)
        /\ Len(none) = 0
    BY <1>1, EmptyIs, LenProperties
  <2> QED
    BY <2>1
<1>3. none \in [{} -> Nat]
  BY <1>2
<1>4. none \in Tallies
  <2>1. {} \in SUBSET Kinds /\ IsFiniteSet({})
    BY FS_EmptySet
  <2> QED
    BY <1>3, <2>1 DEF Tallies
<1>5. NewPhrases \in Phrases
  BY <1>1, <1>4 DEF NewPhrases, Phrases
<1>6. LastOf(none, RecentCap) = none
  <2>1. PICK n \in Nat : n = RecentCap
    BY CollectorsAssumption
  <2>2. Len(none) <= n
    BY <1>2
  <2> QED
    BY <2>1, <2>2, LastOfIs
<1>7. SumFunction(none) = 0
  BY <1>2 DEF SumFunction, SumFunctionOnSet, FoldFunctionOnSet, MapThenFoldSet
<1> QED
  BY <1>1, <1>2, <1>5, <1>6, <1>7 DEF Took, NewPhrases

LEMMA PhrasesStart == Init => PhrasesInv
<1> SUFFICES ASSUME Init PROVE PhrasesInv
  OBVIOUS
<1>1. PICK s : s = Said /\ s = <<>>
  BY EventsStart, NothingSaid DEF Said
<1>2. phrases = NewPhrases /\ phrases.messages = 0 /\ phrases.withHit = 0
  BY DEF Init, NewPhrases
<1>3. PhrasesRight(phrases, s)
  BY <1>1, <1>2, NoHits, NewPhrasesIs DEF PhrasesRight
<1> QED
  BY <1>1, <1>2, <1>3, NewPhrasesIs DEF PhrasesInv

LEMMA PhrasesSteps ==
  ASSUME EventsInv, PhrasesInv, [Next]_vars
  PROVE  EventsInv' /\ PhrasesInv'
<1>1. CASE \E l \in alphabet : IngestLine(l)
  BY <1>1, PhrasesIngest, EventsGrow
<1>2. CASE (\E size \in Sizes : Resume(size)) \/ Evict \/ UNCHANGED vars
  <2>1. EventsInv' /\ Events' = Events
    BY <1>2, EventsStay
  <2>2. RestoredPhrases(phrases) = phrases
    BY DEF RestoredPhrases, PhrasesInv, Phrases
  <2>3. phrases' = phrases
    BY <1>2, <2>2 DEF Resume, Evict, vars, collectors
  <2>4. Said' = Said
    BY <2>1 DEF Said
  <2> QED
    BY <2>1, <2>3, <2>4 DEF PhrasesInv
<1> QED
  BY <1>1, <1>2 DEF Next

LEMMA PhrasesTell == PhrasesInv => RecentHitsAreLast
<1> SUFFICES ASSUME PhrasesInv PROVE RecentHitsAreLast
  OBVIOUS
<1>1. Took(phrases, AllHits(Said))
  BY DEF PhrasesInv, PhrasesRight
<1>2. /\ phrases.recent = LastOf(AllHits(Said), RecentCap)
      /\ SumFunction(phrases.byCategory) = phrases.hits
      /\ StopSeverity(phrases.hits) = StopSeverity(Len(AllHits(Said)))
  BY <1>1 DEF Took
<1> QED
  BY <1>2 DEF RecentHitsAreLast, AllHits, Lists, Numbered

\* RecentHitsAreLast: the recent hits of stop_phrase are the last of the
\* session, whatever texts and restarts there were (stop_phrase.py:176), its
\* counts by category add up to the hits, and the severity is that of all hits.
THEOREM RecentHits == Spec => []RecentHitsAreLast
<1>1. Init => EventsInv /\ PhrasesInv
  BY EventsStart, PhrasesStart
<1>2. EventsInv /\ PhrasesInv /\ [Next]_vars => (EventsInv /\ PhrasesInv)'
  BY PhrasesSteps
<1>3. PhrasesInv => RecentHitsAreLast
  BY PhrasesTell
<1> QED
  BY <1>1, <1>2, <1>3, PTL DEF Spec

---------------------------------------------------------------------------
(* Types                                                                   *)

\* A fold stays in the set of its steps.
LEMMA FoldStays ==
  ASSUME NEW S, NEW E, NEW step, IsStep(step, S, E), NEW base \in S, NEW s \in Seq(E), NEW g,
         Recurses(g, S, step, base, s)
  PROVE  g[DOMAIN s] \in S
<1>1. PICK f : Stepwise(f, S, step, base, s) /\ f[Len(s)] = g[DOMAIN s]
  BY FoldSteps
<1>2. Len(s) \in 0 .. Len(s)
  BY LenProperties
<1> QED
  BY <1>1, <1>2 DEF Stepwise

\* Of each category the counts have no fewer calls than the window, also after
\* it shrank; each mutation is a write or an edit, and the blind ones had a path.
AtLeast(counts, w) == \A c \in Categories : CountIn(w, {c}) <= counts[c]
Tallied(r) ==
  /\ AtLeast(r.counts, r.window) /\ r.mutations = r.writes + r.edits
  /\ r.blind <= r.withPath /\ r.withPath <= r.mutations
TalliedRatios(P) == {r \in Ratios(P) : Tallied(r)}

LEMMA AtLeastSlides ==
  ASSUME NEW P, NEW r \in Ratios(P), NEW c \in Categories, AtLeast(r.counts, r.window)
  PROVE  AtLeast(SlidCounts(r, c), SlidWindow(r, c))
<1>1. PICK w \in Seq(Categories) : w = r.window
  BY DEF Ratios
<1>2. PICK k \in [Categories -> Int] : k = r.counts
  BY DEF Ratios
<1>3. \A d \in Categories : CountIn(w, {d}) <= k[d]
  BY <1>1, <1>2 DEF AtLeast
<1>4. PICK full \in BOOLEAN : full = (Len(w) = r.size)
  OBVIOUS
<1>5. full => w # <<>>
  BY <1>1, <1>4 DEF Ratios
<1> DEFINE rest == IF full THEN Tail(w) ELSE w
           gone == IF full THEN [k EXCEPT ![Head(w)] = @ - 1] ELSE k
<1>6. rest \in Seq(Categories) /\ gone \in [Categories -> Int]
  <2>1. full => Tail(w) \in Seq(Categories) /\ Head(w) \in Categories
    BY <1>5
  <2> QED
    BY <2>1
<1>7. \A d \in Categories : CountIn(rest, {d}) <= gone[d]
  <2> SUFFICES ASSUME NEW d \in Categories, full PROVE CountIn(Tail(w), {d}) <= gone[d]
    BY <1>3
  <2>1. CountIn(Tail(w), {d}) = IF Head(w) \in {d} THEN CountIn(w, {d}) - 1 ELSE CountIn(w, {d})
    BY <1>5, CountTail
  <2>2. CountIn(w, {d}) \in Nat
    BY CountFinite
  <2> QED
    BY <1>3, <2>1, <2>2
<1>8. SlidWindow(r, c) = Append(rest, c) /\ SlidCounts(r, c) = [gone EXCEPT ![c] = @ + 1]
  BY <1>1, <1>2, <1>4 DEF SlidWindow, SlidCounts
<1> HIDE DEF rest, gone
<1>9. \A d \in Categories : CountIn(Append(rest, c), {d}) <= [gone EXCEPT ![c] = @ + 1][d]
  <2> SUFFICES ASSUME NEW d \in Categories
               PROVE  CountIn(Append(rest, c), {d}) <= [gone EXCEPT ![c] = @ + 1][d]
    OBVIOUS
  <2>1. PICK v \in Seq(Categories) : v = rest
    BY <1>6
  <2>2. CountIn(Append(v, c), {d}) = IF c \in {d} THEN CountIn(v, {d}) + 1 ELSE CountIn(v, {d})
    BY CountAppend
  <2>3. CountIn(v, {d}) \in Nat /\ CountIn(v, {d}) <= gone[d] /\ gone[d] \in Int
    BY <1>6, <1>7, <2>1, CountFinite
  <2>4. [gone EXCEPT ![c] = @ + 1][d] = IF c = d THEN gone[d] + 1 ELSE gone[d]
    BY <1>6
  <2> QED
    BY <2>1, <2>2, <2>3, <2>4
<1> QED
  BY <1>8, <1>9 DEF AtLeast

LEMMA SlidKeeps ==
  ASSUME NEW P, NEW r \in Ratios(P), NEW c \in Categories
  PROVE  LET q == Slid(r, c)
         IN /\ q.mutations = r.mutations /\ q.withPath = r.withPath /\ q.blind = r.blind
            /\ q.writes = r.writes /\ q.edits = r.edits
<1>1. PICK w, k, i : w = SlidWindow(r, c) /\ k = SlidCounts(r, c) /\ i = r.index + 1
  OBVIOUS
<1>2. PICK q : q = [r EXCEPT !.window = w, !.counts = k, !.index = i]
  OBVIOUS
<1>3. /\ q.mutations = r.mutations /\ q.withPath = r.withPath /\ q.blind = r.blind
      /\ q.writes = r.writes /\ q.edits = r.edits
  BY <1>2 DEF Ratios
<1>4. q = Slid(r, c)
  <2>1. Slid(r, c) = [r EXCEPT !.window = SlidWindow(r, c), !.counts = SlidCounts(r, c),
                               !.index = r.index + 1]
    BY SlidType
  <2> QED
    BY <1>1, <1>2, <2>1, Zenon
<1> QED
  BY <1>3, <1>4

LEMMA MutatedKeeps ==
  ASSUME NEW P, NEW r \in Ratios(P), Tallied(r), NEW tool, NEW path
  PROVE  Tallied(Mutated(r, tool, path))
<1>1. PICK w, e, m, h, b :
        /\ m = r.mutations + 1 /\ w = (IF tool = "write" THEN r.writes + 1 ELSE r.writes)
        /\ e = (IF tool # "write" THEN r.edits + 1 ELSE r.edits)
        /\ h = (IF path # None THEN r.withPath + 1 ELSE r.withPath)
        /\ b = (IF path # None /\ IsBlind(r, path) THEN r.blind + 1 ELSE r.blind)
  OBVIOUS
<1>2. /\ r.mutations \in Nat /\ r.writes \in Nat /\ r.edits \in Nat /\ r.withPath \in Nat
      /\ r.blind \in Nat
  BY DEF Ratios
<1>3. PICK q : q = [r EXCEPT !.mutations = m, !.writes = w, !.edits = e, !.withPath = h, !.blind = b]
  OBVIOUS
<1>4. /\ q.window = r.window /\ q.counts = r.counts /\ q.mutations = m /\ q.writes = w /\ q.edits = e
      /\ q.withPath = h /\ q.blind = b
  BY <1>3 DEF Ratios
<1>5. q = Mutated(r, tool, path)
  BY <1>1, <1>3 DEF Mutated
<1>6. r.mutations = r.writes + r.edits /\ r.blind <= r.withPath /\ r.withPath <= r.mutations
  BY DEF Tallied
<1>7. m = w + e
  BY <1>1, <1>2, <1>6
<1>8. b <= h /\ h <= m
  <2>1. CASE path # None
    BY <1>1, <1>2, <1>6, <2>1
  <2>2. CASE path = None
    BY <1>1, <1>2, <1>6, <2>2
  <2> QED
    BY <2>1, <2>2
<1>9. Tallied(q)
  BY <1>4, <1>7, <1>8 DEF Tallied
<1> QED
  BY <1>5, <1>9

LEMMA RatioCallTallies ==
  ASSUME NEW P, NEW r \in Ratios(P), Tallied(r), NEW tool, NEW path
  PROVE  Tallied(RatioCall(r, tool, path))
<1>1. PICK c \in Categories : c = Classify(tool)
  BY ClassifyType
<1>2. PICK s : s = Slid(r, c)
  OBVIOUS
<1>3. /\ s \in Ratios(P) /\ s.window = SlidWindow(r, c) /\ s.counts = SlidCounts(r, c)
  BY <1>2, SlidIs
<1>4. /\ s.mutations = r.mutations /\ s.withPath = r.withPath /\ s.blind = r.blind
      /\ s.writes = r.writes /\ s.edits = r.edits
  BY <1>2, SlidKeeps
<1>5. Tallied(s)
  <2>1. AtLeast(r.counts, r.window)
    BY DEF Tallied
  <2>2. AtLeast(s.counts, s.window)
    BY <1>3, <2>1, AtLeastSlides
  <2> QED
    BY <1>4, <2>2 DEF Tallied
<1>6. CASE c = "mutation"
  <2>1. RatioCall(r, tool, path) = Mutated(s, tool, path)
    BY <1>1, <1>2, <1>6 DEF RatioCall
  <2> QED
    BY <1>3, <1>5, <2>1, MutatedKeeps
<1>7. CASE c \in {"read", "research"} /\ path # None
  <2>1. PICK f : RatioCall(r, tool, path) = [s EXCEPT !.lastSeen = f]
    BY <1>1, <1>2, <1>7 DEF RatioCall
  <2>2. PICK q : q = [s EXCEPT !.lastSeen = f]
    OBVIOUS
  <2>3. /\ q.window = s.window /\ q.counts = s.counts /\ q.mutations = s.mutations
        /\ q.withPath = s.withPath /\ q.blind = s.blind /\ q.writes = s.writes /\ q.edits = s.edits
    BY <1>3, <2>2 DEF Ratios
  <2>4. Tallied(q)
    BY <1>5, <2>3 DEF Tallied
  <2> QED
    BY <2>1, <2>2, <2>4
<1>8. CASE ~ (c = "mutation") /\ ~ (c \in {"read", "research"} /\ path # None)
  <2>1. RatioCall(r, tool, path) = s
    BY <1>1, <1>2, <1>8 DEF RatioCall
  <2> QED
    BY <1>5, <2>1
<1> QED
  BY <1>6, <1>7, <1>8

LEMMA RatioTallies ==
  ASSUME NEW P, NEW E, Paths(E) \subseteq P, NEW s \in Seq(E), NEW r \in TalliedRatios(P)
  PROVE  FoldLeft(FoldRatio, r, s) \in TalliedRatios(P)
<1> DEFINE S == TalliedRatios(P)
           step == [a \in S \X E |-> FoldRatio(a[1], a[2])]
           isFold(g) == g = [t \in SUBSET DOMAIN s |->
                               IF t = {} THEN r ELSE FoldRatio(g[t \ {Max(t)}], s[Max(t)])]
           fold == CHOOSE g : isFold(g)
<1>1. FoldLeft(FoldRatio, r, s) = fold[DOMAIN s]
  BY DEF FoldLeft, MapThenFoldSet
<1>2. \A a \in S, x \in E : FoldRatio(a, x) \in S
  <2> SUFFICES ASSUME NEW a \in Ratios(P), Tallied(a), NEW x \in E PROVE FoldRatio(a, x) \in S
    BY DEF TalliedRatios
  <2>1. CASE IsCall(x)
    <3>1. PICK path \in P : path = x.payload.path
      BY DEF Paths
    <3>2. \A tool : RatioCall(a, tool, path) \in Ratios(P)
      BY RatioCallIs
    <3>3. \A tool : Tallied(RatioCall(a, tool, path))
      BY RatioCallTallies
    <3> QED
      BY <2>1, <3>1, <3>2, <3>3 DEF FoldRatio, IsCall, TalliedRatios
  <2>2. CASE ~ IsCall(x)
    BY <2>2 DEF FoldRatio, IsCall, TalliedRatios
  <2> QED
    BY <2>1, <2>2
<1> HIDE DEF isFold, fold, S
<1>3. IsStep(step, S, E) /\ \A a \in S, x \in E : step[<<a, x>>] = FoldRatio(a, x)
  BY <1>2 DEF IsStep
<1>4. DOMAIN s = 1 .. Len(s) /\ Len(s) \in Nat /\ \A i \in 1 .. Len(s) : s[i] \in E
  BY LenProperties
<1>5. \A t \in SUBSET DOMAIN s : t # {} => Max(t) \in DOMAIN s /\ t \ {Max(t)} \in SUBSET DOMAIN s
  BY <1>4, MaxIs
<1>6. r \in S
  BY DEF S
<1> HIDE DEF step
<1>7. PICK h \in [SUBSET DOMAIN s -> S] : Folds(h, S, E, step, r, s)
  BY <1>3, <1>6, FoldExists
<1>8. isFold(h)
  <2>1. \A t \in SUBSET DOMAIN s :
          h[t] = IF t = {} THEN r ELSE FoldRatio(h[t \ {Max(t)}], s[Max(t)])
    BY <1>3, <1>4, <1>5, <1>7 DEF Folds
  <2> QED
    BY <2>1 DEF isFold
<1>9. isFold(fold)
  BY <1>8 DEF fold
<1>10. Recurses(fold, S, step, r, s)
  <2>1. \A t \in SUBSET DOMAIN s :
          fold[t] = IF t = {} THEN r ELSE FoldRatio(fold[t \ {Max(t)}], s[Max(t)])
    BY <1>9 DEF isFold
  <2> QED
    BY <1>3, <1>4, <1>5, <2>1 DEF Recurses
<1> QED
  BY <1>1, <1>3, <1>6, <1>10, FoldStays DEF S

\* Lengths are kept of blocks that can be read, and of no others.
Thinkings(L, G) == [blocks : Nat, visible : Nat, lengths : Seq(L), signatures : Seq(G)]
Measured(p) == p.visible <= p.blocks /\ Len(p.lengths) <= p.visible
MeasuredThinkings(L, G) == {p \in Thinkings(L, G) : Measured(p)}

LEMMA ThinkingStep ==
  ASSUME NEW L, NEW G, NEW p \in MeasuredThinkings(L, G), NEW e, e.payload.length \in L,
         e.payload.signature \in G
  PROVE  FoldThinking(p, e) \in MeasuredThinkings(L, G)
<1>1. /\ p.blocks \in Nat /\ p.visible \in Nat /\ p.lengths \in Seq(L) /\ p.signatures \in Seq(G)
      /\ p.visible <= p.blocks /\ Len(p.lengths) <= p.visible
  BY DEF MeasuredThinkings, Thinkings, Measured
<1>2. CASE e.kind # "THINKING"
  BY <1>2 DEF FoldThinking
<1>3. CASE e.kind = "THINKING"
  <2>1. PICK signatures \in Seq(G) :
          signatures = IF e.payload.signature \in {None, 0} THEN p.signatures
                       ELSE Append(p.signatures, e.payload.signature)
    BY <1>1, AppendProperties
  <2>2. PICK lengths \in Seq(L), visible \in Nat :
          /\ lengths = IF e.payload.redacted \/ e.payload.length = 0 THEN p.lengths
                       ELSE Append(p.lengths, e.payload.length)
          /\ visible = IF e.payload.redacted THEN p.visible ELSE p.visible + 1
          /\ Len(lengths) <= visible /\ visible <= p.blocks + 1
    <3>1. CASE e.payload.redacted
      <4>1. p.visible <= p.blocks + 1
        BY <1>1
      <4> QED
        BY <1>1, <3>1, <4>1, Zenon
    <3>2. CASE ~ e.payload.redacted
      <4>0. Append(p.lengths, e.payload.length) \in Seq(L)
            /\ Len(Append(p.lengths, e.payload.length)) = Len(p.lengths) + 1
        BY <1>1, AppendProperties
      <4>1. PICK longer \in Seq(L) : longer = Append(p.lengths, e.payload.length) /\ Len(longer) = Len(p.lengths) + 1
        BY <4>0
      <4>2. PICK v \in Nat : v = p.visible + 1
        BY <1>1
      <4>3. Len(p.lengths) <= v /\ Len(longer) <= v /\ v <= p.blocks + 1
        BY <1>1, <4>1, <4>2, LenProperties
      <4> QED
        BY <1>1, <3>2, <4>1, <4>2, <4>3, Zenon
    <3> QED
      BY <3>1, <3>2
  <2>3. FoldThinking(p, e) =
          [blocks |-> p.blocks + 1, visible |-> visible, lengths |-> lengths, signatures |-> signatures]
    BY <1>3, <2>1, <2>2, Zenon DEF FoldThinking
  <2>4. PICK blocks \in Nat : blocks = p.blocks + 1
    BY <1>1
  <2>5. PICK q : q = [blocks |-> blocks, visible |-> visible, lengths |-> lengths, signatures |-> signatures]
    OBVIOUS
  <2>6. q \in Thinkings(L, G) /\ q.blocks = blocks /\ q.visible = visible /\ q.lengths = lengths
    BY <2>5 DEF Thinkings
  <2>7. Measured(q)
    BY <2>2, <2>4, <2>6 DEF Measured
  <2> QED
    BY <2>3, <2>4, <2>5, <2>6, <2>7 DEF MeasuredThinkings
<1> QED
  BY <1>2, <1>3

LEMMA ThinkingFolds ==
  ASSUME NEW L, NEW G, NEW E, \A e \in E : e.payload.length \in L /\ e.payload.signature \in G,
         NEW s \in Seq(E), NEW p \in MeasuredThinkings(L, G)
  PROVE  FoldLeft(FoldThinking, p, s) \in MeasuredThinkings(L, G)
<1> DEFINE S == MeasuredThinkings(L, G)
           step == [a \in S \X E |-> FoldThinking(a[1], a[2])]
           isFold(g) == g = [t \in SUBSET DOMAIN s |->
                               IF t = {} THEN p ELSE FoldThinking(g[t \ {Max(t)}], s[Max(t)])]
           fold == CHOOSE g : isFold(g)
<1>1. FoldLeft(FoldThinking, p, s) = fold[DOMAIN s]
  BY DEF FoldLeft, MapThenFoldSet
<1>2. \A a \in S, x \in E : FoldThinking(a, x) \in S
  BY ThinkingStep
<1> HIDE DEF isFold, fold, S
<1>3. IsStep(step, S, E) /\ \A a \in S, x \in E : step[<<a, x>>] = FoldThinking(a, x)
  BY <1>2 DEF IsStep
<1>4. DOMAIN s = 1 .. Len(s) /\ Len(s) \in Nat /\ \A i \in 1 .. Len(s) : s[i] \in E
  BY LenProperties
<1>5. \A t \in SUBSET DOMAIN s : t # {} => Max(t) \in DOMAIN s /\ t \ {Max(t)} \in SUBSET DOMAIN s
  BY <1>4, MaxIs
<1>6. p \in S
  BY DEF S
<1> HIDE DEF step
<1>7. PICK h \in [SUBSET DOMAIN s -> S] : Folds(h, S, E, step, p, s)
  BY <1>3, <1>6, FoldExists
<1>8. isFold(h)
  <2>1. \A t \in SUBSET DOMAIN s :
          h[t] = IF t = {} THEN p ELSE FoldThinking(h[t \ {Max(t)}], s[Max(t)])
    BY <1>3, <1>4, <1>5, <1>7 DEF Folds
  <2> QED
    BY <2>1 DEF isFold
<1>9. isFold(fold)
  BY <1>8 DEF fold
<1>10. Recurses(fold, S, step, p, s)
  <2>1. \A t \in SUBSET DOMAIN s :
          fold[t] = IF t = {} THEN p ELSE FoldThinking(fold[t \ {Max(t)}], s[Max(t)])
    BY <1>9 DEF isFold
  <2> QED
    BY <1>3, <1>4, <1>5, <2>1 DEF Recurses
<1> QED
  BY <1>1, <1>3, <1>6, <1>10, FoldStays DEF S

LEMMA ThinkingsGrow ==
  ASSUME NEW L, NEW G, NEW M, NEW H, L \subseteq M, G \subseteq H
  PROVE  MeasuredThinkings(L, G) \subseteq MeasuredThinkings(M, H)
<1>1. Seq(L) \subseteq Seq(M) /\ Seq(G) \subseteq Seq(H)
  OBVIOUS
<1>2. Thinkings(L, G) \subseteq Thinkings(M, H)
  BY <1>1 DEF Thinkings
<1> QED
  BY <1>2 DEF MeasuredThinkings

\* A turn counts its user message besides its tools.
CountsTools(g) == g.open # NoTurn => g.open.count > Len(g.open.tools)

LEMMA GroupCounts ==
  ASSUME NEW T, NEW g \in Groupers(T), CountsTools(g), NEW e,
         e.kind = "TOOL_CALL" => e.payload.tool \in T
  PROVE  CountsTools(Group(g, e))
<1>1. g.open \in TurnsOf(T) \cup {NoTurn}
  BY DEF Groupers
<1>2. CASE e.kind = "USER_MESSAGE"
  <2>1. PICK turns : Group(g, e) = [open |-> Opened, turns |-> turns]
    BY <1>2 DEF Group
  <2>2. Opened.count = 1 /\ Opened.tools = <<>> /\ Len(<<>>) = 0
    BY EmptyIs DEF Opened
  <2>3. Opened.count > Len(Opened.tools)
    BY <2>2
  <2>4. Group(g, e).open = Opened
    BY <2>1
  <2> QED
    BY <2>3, <2>4 DEF CountsTools
<1>3. CASE e.kind # "USER_MESSAGE" /\ g.open # NoTurn
  <2>1. PICK o \in TurnsOf(T) : o = g.open
    BY <1>1, <1>3
  <2>2. PICK tools \in Seq(T) :
          /\ tools = IF e.kind = "TOOL_CALL" /\ e.payload.tool # ""
                     THEN Append(o.tools, e.payload.tool) ELSE o.tools
          /\ Len(tools) <= Len(o.tools) + 1
    <3>1. o.tools \in Seq(T) /\ Len(o.tools) \in Nat
      BY LenProperties DEF TurnsOf
    <3>2. e.kind = "TOOL_CALL" => Append(o.tools, e.payload.tool) \in Seq(T)
                                  /\ Len(Append(o.tools, e.payload.tool)) = Len(o.tools) + 1
      BY <3>1, AppendProperties
    <3>3. Len(o.tools) <= Len(o.tools) + 1 /\ Len(o.tools) + 1 <= Len(o.tools) + 1
      BY <3>1
    <3> QED
      BY <3>1, <3>2, <3>3, Zenon
  <2>3. PICK count \in Nat : count = o.count + 1
    BY DEF TurnsOf
  <2>4. PICK p : p = [o EXCEPT !.count = count, !.tools = tools]
    OBVIOUS
  <2>5. p.count = count /\ p.tools = tools
    BY <2>4 DEF TurnsOf
  <2>6. Group(g, e).open = p
    <3>1. Group(g, e) = [g EXCEPT !.open.count = @ + 1, !.open.tools = tools]
      BY <1>3, <2>1, <2>2 DEF Group
    <3> QED
      BY <2>1, <2>3, <2>4, <3>1 DEF Groupers, TurnsOf
  <2>7. o.count > Len(o.tools) /\ o.count \in Nat /\ Len(o.tools) \in Nat /\ Len(tools) \in Nat
    BY <1>3, <2>1, LenProperties DEF CountsTools, TurnsOf
  <2>8. count > Len(tools)
    <3>1. Len(tools) <= Len(o.tools) + 1
      BY <2>2, Zenon
    <3>2. PICK i, j, k \in Nat : i = Len(tools) /\ j = Len(o.tools) /\ k = o.count
      BY <2>7
    <3>3. i <= j + 1 /\ k > j /\ count = k + 1
      BY <2>3, <2>7, <3>1, <3>2
    <3>4. count > i
      BY <3>3
    <3> QED
      BY <3>2, <3>4
  <2> QED
    BY <2>5, <2>6, <2>8 DEF CountsTools
<1>4. CASE e.kind # "USER_MESSAGE" /\ g.open = NoTurn
  BY <1>4 DEF Group
<1> QED
  BY <1>2, <1>3, <1>4

LEMMA GroupedCount ==
  ASSUME NEW T, NEW E, ToolIn(E, T), NEW s \in Seq(E), NEW g \in Groupers(T),
         CountsTools(g)
  PROVE  CountsTools(Grouped(g, s))
<1>1. PICK S : S = Groupers(T)
  OBVIOUS
<1>2. PICK step : step = Groups(T, E)
  OBVIOUS
<1>3. IsStep(step, S, E)
  BY <1>1, <1>2, GroupedIs
<1>4. PICK fold : Recurses(fold, S, step, g, s) /\ Grouped(g, s) = fold[DOMAIN s]
  BY <1>1, <1>2, GroupedIs
<1> DEFINE R == {r \in S \X Seq(E) : CountsTools(r[1])}
<1>5. \A a \in S, x \in E : step[<<a, x>>] = Group(a, x)
  BY <1>1, <1>2 DEF Groups
<1>6. Keeps(R, S, E, step)
  <2> SUFFICES ASSUME NEW a \in S, NEW v \in Seq(E), NEW x \in E, CountsTools(a)
               PROVE  step[<<a, x>>] \in S /\ Append(v, x) \in Seq(E) /\ CountsTools(step[<<a, x>>])
    BY DEF Keeps
  <2>1. Append(v, x) \in Seq(E)
    BY AppendProperties
  <2>2. CountsTools(Group(a, x)) /\ Group(a, x) \in S
    BY <1>1, GroupCounts, GroupType DEF ToolIn
  <2> QED
    BY <1>5, <2>1, <2>2
<1>7. PICK none \in Seq(E) : none = <<>>
  BY JoinsIs
<1>8. <<g, none>> \in R /\ g \in S
  BY <1>1
<1>9. <<fold[DOMAIN s], none \o s>> \in R
  <2> HIDE DEF R
  <2> QED
    BY <1>3, <1>4, <1>6, <1>8, FoldKeeps
<1> QED
  BY <1>4, <1>9

\* The events that parse() counts are a number.
LEMMA ParsedGrows ==
  ASSUME NEW l, LineOK(l), ParseLine(l), DOMAIN parser = DOMAIN NewParser, parser.parsed \in Nat
  PROVE  parser'.parsed \in Nat
<1>0. {"total", "parsed", "outcomes", "missing"} \subseteq DOMAIN parser
  BY DEF NewParser
<1>1. CASE SkipBlank(l)
  BY <1>1 DEF SkipBlank
<1>2. CASE Malformed(l)
  <2>1. PICK m, o, t : parser' = [[[parser EXCEPT !.total = t] EXCEPT !.missing = m] EXCEPT !.outcomes = o]
    BY <1>2 DEF Malformed
  <2> QED
    BY <1>0, <2>1
<1>3. DOMAIN AfterSample(l) = DOMAIN parser /\ AfterSample(l).parsed = parser.parsed
  BY <1>0 DEF AfterSample
<1>4. CASE Typeless(l)
  <2>1. PICK m, o : parser' = [[AfterSample(l) EXCEPT !.missing = m] EXCEPT !.outcomes = o]
    BY <1>4 DEF Typeless
  <2> HIDE DEF AfterSample
  <2> QED
    BY <1>0, <1>3, <2>1
<1>5. CASE Dispatch(l)
  <2>1. ParsedBy(l) \in Nat
    BY <1>5, NothingParsed DEF Dispatch
  <2>2. PICK p \in Nat : p = AfterSample(l).parsed + ParsedBy(l)
    BY <1>3, <2>1
  <2>3. PICK d, m, o, s, n : parser' =
          [[[[[[AfterSample(l) EXCEPT !.parsed = p] EXCEPT !.duplicates = d]
               EXCEPT !.missing = m] EXCEPT !.outcomes = o]
             EXCEPT !.seen = s] EXCEPT !.noted = n]
    BY <1>5, <2>2 DEF Dispatch
  <2> HIDE DEF AfterSample
  <2> QED
    BY <1>0, <1>3, <2>3
<1> QED
  BY <1>1, <1>2, <1>4, <1>5 DEF ParseLine

\* Every part has its type, and what makes it last.
PartsInv ==
  /\ Tallied(ratio) /\ CountsTools(grouper) /\ parser.parsed \in Nat
  /\ \E L, G : thinking \in MeasuredThinkings(L, G)
  /\ DOMAIN health = {"window", "own"} /\ health.window \in 0 .. HealthWindow
TypeInv ==
  /\ ToldInv /\ EachMessageOnce /\ EventsInv /\ ConfInv /\ Stats
  /\ RatioInv /\ PhrasesInv /\ GrouperInv /\ PartsInv

LEMMA HealthFits ==
  ASSUME NEW n \in Nat, NEW w, w = IF n > HealthWindow THEN HealthWindow ELSE n
  PROVE  w \in 0 .. HealthWindow
  BY HealthAssumption

\* The last of a sequence has no more of a set than the sequence.
LEMMA LastCounts ==
  ASSUME NEW T, NEW w \in Seq(T), NEW n \in Nat, NEW S
  PROVE  CountIn(LastOf(w, n), S) <= CountIn(w, S)
<1>1. PICK v \in Seq(T) : v = LastOf(w, n)
  BY LastOfIs
<1>2. /\ Len(v) = IF Len(w) > n THEN n ELSE Len(w)
      /\ \A i \in 1 .. Len(v) : v[i] = w[(Len(w) - Len(v)) + i]
  BY <1>1, LastOfIs
<1>3. /\ Len(w) \in Nat /\ DOMAIN w = 1 .. Len(w) /\ Len(v) \in Nat /\ DOMAIN v = 1 .. Len(v)
  BY LenProperties
<1>4. Len(v) <= Len(w)
  BY <1>2, <1>3
<1> DEFINE d == Len(w) - Len(v)
           I == {i \in DOMAIN v : v[i] \in S}
           J == {i \in DOMAIN w : w[i] \in S}
           f == [i \in I |-> d + i]
<1>5. IsFiniteSet(I) /\ IsFiniteSet(J)
  BY CountFinite
<1>6. d \in Nat /\ \A i \in DOMAIN v : d + i \in DOMAIN w
  BY <1>3, <1>4
<1>7. \A i \in DOMAIN v : v[i] = w[d + i]
  BY <1>2, <1>3
<1> HIDE DEF d
<1>8. \A i \in I : d + i \in J
  BY <1>6, <1>7
<1>9. \A i, k \in I : d + i = d + k => i = k
  BY <1>3, <1>6
<1> HIDE DEF I, J
<1>10. f \in Injection(I, J)
  BY <1>8, <1>9 DEF Injection, IsInjective
<1>11. Cardinality(I) <= Cardinality(J)
  BY <1>5, <1>10, FS_Injection
<1> QED
  BY <1>1, <1>11 DEF CountIn, I, J

LEMMA PartsStart == Init => PartsInv
<1> SUFFICES ASSUME Init PROVE PartsInv
  OBVIOUS
<1>1. PICK size \in Sizes : ratio = NewRatio(size)
  BY DEF Init
<1>2. Tallied(ratio)
  <2>1. PICK none \in Seq(Categories) : none = <<>>
    BY JoinsIs
  <2>2. DOMAIN none = {}
    BY <2>1, EmptyIs
  <2>3. PICK zero : zero = [c \in Categories |-> 0]
    OBVIOUS
  <2>4. \A c \in Categories : CountIn(none, {c}) = 0 /\ zero[c] = 0
    BY <2>2, <2>3, FS_EmptySet DEF CountIn
  <2>5. ratio.window = none /\ ratio.counts = zero
    BY <1>1, <2>1, <2>3 DEF NewRatio
  <2>6. /\ ratio.mutations = 0 /\ ratio.writes = 0 /\ ratio.edits = 0 /\ ratio.withPath = 0
        /\ ratio.blind = 0
    BY <1>1 DEF NewRatio
  <2> QED
    BY <2>4, <2>5, <2>6 DEF Tallied, AtLeast
<1>3. CountsTools(grouper)
  BY DEF Init, NoTurns, CountsTools
<1>4. parser.parsed \in Nat
  BY DEF Init, NewParser
<1>5. thinking \in MeasuredThinkings({}, {})
  <2>1. PICK L : L = {}
    OBVIOUS
  <2>2. PICK none \in Seq(L) : none = <<>> /\ Len(none) = 0
    BY JoinsIs, EmptyIs
  <2>3. thinking = [blocks |-> 0, visible |-> 0, lengths |-> none, signatures |-> none]
    BY <2>2 DEF Init, NewThinking
  <2> QED
    BY <2>1, <2>2, <2>3 DEF MeasuredThinkings, Thinkings, Measured
<1>6. DOMAIN health = {"window", "own"} /\ health.window \in 0 .. HealthWindow
  BY HealthAssumption DEF Init
<1> QED
  BY <1>2, <1>3, <1>4, <1>5, <1>6 DEF PartsInv

LEMMA PartsIngest ==
  ASSUME TypeInv, NEW l \in alphabet, IngestLine(l)
  PROVE  PartsInv'
<1>1. PICK E : EventsOK(E) /\ Events \in Seq(E) /\ Yields(l) \in Seq(E)
  BY EventsGrow DEF TypeInv
<1>2. PICK s \in Seq(E) : s = Yields(l)
  BY <1>1
<1>3. Tallied(ratio')
  <2>1. PICK Q : ratio \in Ratios(Q)
    BY DEF TypeInv, RatioInv
  <2>2. PICK P : P = Q \cup Paths(E)
    OBVIOUS
  <2>3. ratio \in TalliedRatios(P) /\ Paths(E) \subseteq P
    BY <2>1, <2>2, RatiosGrow DEF TypeInv, PartsInv, TalliedRatios
  <2>4. FoldLeft(FoldRatio, ratio, s) \in TalliedRatios(P)
    BY <2>3, RatioTallies
  <2>5. ratio' = FoldLeft(FoldRatio, ratio, s)
    BY <1>2 DEF IngestLine
  <2> QED
    BY <2>4, <2>5 DEF TalliedRatios
<1>4. CountsTools(grouper')
  <2>1. PICK T : grouper \in Groupers(T)
    BY DEF TypeInv, GrouperInv
  <2>2. PICK U : U = T \cup {e.payload.tool : e \in E}
    OBVIOUS
  <2>3. grouper \in Groupers(U) /\ ToolIn(E, U)
    BY <2>1, <2>2, GroupersGrow DEF ToolIn
  <2>4. CountsTools(Grouped(grouper, s))
    BY <2>3, GroupedCount DEF TypeInv, PartsInv
  <2>5. grouper' = Grouped(grouper, s)
    BY <1>2 DEF IngestLine, Grouped
  <2> QED
    BY <2>4, <2>5
<1>5. parser'.parsed \in Nat
  <2>1. LineOK(l) /\ ParseLine(l)
    BY LinesAreOK DEF TypeInv, EventsInv, IngestLine
  <2> QED
    BY <2>1, ParsedGrows DEF TypeInv, PartsInv, Stats
<1>6. \E L, G : thinking' \in MeasuredThinkings(L, G)
  <2>1. PICK L, G : thinking \in MeasuredThinkings(L, G)
    BY DEF TypeInv, PartsInv
  <2>2. PICK M, H : M = L \cup {e.payload.length : e \in E} /\ H = G \cup {e.payload.signature : e \in E}
    OBVIOUS
  <2>3. /\ thinking \in MeasuredThinkings(M, H)
        /\ \A e \in E : e.payload.length \in M /\ e.payload.signature \in H
    BY <2>1, <2>2, ThinkingsGrow
  <2>4. FoldLeft(FoldThinking, thinking, s) \in MeasuredThinkings(M, H)
    BY <2>3, ThinkingFolds
  <2>5. thinking' = FoldLeft(FoldThinking, thinking, s)
    BY <1>2 DEF IngestLine
  <2> QED
    BY <2>4, <2>5
<1>7. DOMAIN health' = {"window", "own"} /\ health'.window \in 0 .. HealthWindow
  <2>1. PICK n : n = health.window + Len(s)
    OBVIOUS
  <2>2. n \in Nat
    <3>1. health.window \in Nat /\ Len(s) \in Nat
      BY LenProperties DEF TypeInv, PartsInv
    <3> QED
      BY <2>1, <3>1
  <2>3. PICK w : w = IF n > HealthWindow THEN HealthWindow ELSE n
    OBVIOUS
  <2>4. w \in 0 .. HealthWindow
    BY <2>2, <2>3, HealthFits
  <2>5. health' = [health EXCEPT !.window = w]
    BY <1>2, <2>1, <2>3 DEF IngestLine
  <2>6. DOMAIN health = {"window", "own"}
    BY DEF TypeInv, PartsInv
  <2> QED
    BY <2>4, <2>5, <2>6
<1> QED
  BY <1>3, <1>4, <1>5, <1>6, <1>7 DEF PartsInv

LEMMA PartsResume ==
  ASSUME TypeInv, NEW size \in Sizes, Resume(size)
  PROVE  PartsInv'
<1>1. Tallied(ratio')
  <2>1. PICK P : ratio \in Ratios(P)
    BY DEF TypeInv, RatioInv
  <2>2. PICK w \in Seq(Categories) : w = ratio.window
    BY <2>1 DEF Ratios
  <2>3. size \in Nat
    BY SizesAssumption
  <2>4. PICK v \in Seq(Categories) : v = LastOf(w, size)
    BY <2>3, LastOfIs
  <2>5. PICK q : q = [ratio EXCEPT !.size = size, !.window = v]
    OBVIOUS
  <2>6. ratio' = q
    BY <2>2, <2>4, <2>5 DEF Resume, RestoredRatio
  <2>7. /\ q.window = v /\ q.counts = ratio.counts /\ q.mutations = ratio.mutations
        /\ q.writes = ratio.writes /\ q.edits = ratio.edits /\ q.withPath = ratio.withPath
        /\ q.blind = ratio.blind
    BY <2>1, <2>5 DEF Ratios
  <2>8. \A c \in Categories : CountIn(v, {c}) <= CountIn(w, {c})
    BY <2>2, <2>3, <2>4, LastCounts
  <2>9. \A c \in Categories : CountIn(v, {c}) <= ratio.counts[c]
    <3> SUFFICES ASSUME NEW c \in Categories PROVE CountIn(v, {c}) <= ratio.counts[c]
      OBVIOUS
    <3>1. CountIn(v, {c}) \in Nat /\ CountIn(w, {c}) \in Nat /\ ratio.counts[c] \in Int
      BY <2>1, CountFinite DEF Ratios
    <3>2. CountIn(w, {c}) <= ratio.counts[c]
      BY <2>2 DEF TypeInv, PartsInv, Tallied, AtLeast
    <3> QED
      BY <2>8, <3>1, <3>2
  <2> QED
    BY <2>6, <2>7, <2>9 DEF TypeInv, PartsInv, Tallied, AtLeast
<1>2. CountsTools(grouper')
  BY DEF Resume, NoTurns, CountsTools
<1>3. parser'.parsed \in Nat
  BY DEF Resume, NewParser
<1>4. \E L, G : thinking' \in MeasuredThinkings(L, G)
  <2>1. PICK L, G : thinking \in MeasuredThinkings(L, G)
    BY DEF TypeInv, PartsInv
  <2>2. RestoredThinking(thinking) = thinking
    BY <2>1 DEF RestoredThinking, MeasuredThinkings, Thinkings
  <2> QED
    BY <2>1, <2>2 DEF Resume
<1>5. DOMAIN health' = {"window", "own"} /\ health'.window \in 0 .. HealthWindow
  BY HealthAssumption DEF Resume
<1> QED
  BY <1>1, <1>2, <1>3, <1>4, <1>5 DEF PartsInv

LEMMA TypeSteps ==
  ASSUME TypeInv, [Next]_vars
  PROVE  TypeInv'
<1>1. ToldInv' /\ EachMessageOnce' /\ ConfInv' /\ Stats'
  BY ToldStep, ConfSteps, StatsStep DEF TypeInv
<1>2. EventsInv' /\ RatioInv'
  BY RatioSteps DEF TypeInv
<1>3. PhrasesInv' /\ GrouperInv'
  BY PhrasesSteps, GrouperSteps DEF TypeInv
<1>4. PartsInv'
  <2>1. CASE \E l \in alphabet : IngestLine(l)
    BY <2>1, PartsIngest
  <2>2. CASE \E size \in Sizes : Resume(size)
    BY <2>2, PartsResume
  <2>3. CASE Evict
    <3>1. CountsTools(grouper')
      BY <2>3 DEF Evict, Finalized, CountsTools, TypeInv, PartsInv
    <3>2. ratio' = ratio /\ thinking' = thinking /\ health' = health /\ parser' = parser
      BY <2>3 DEF Evict, collectors
    <3> QED
      BY <3>1, <3>2 DEF TypeInv, PartsInv
  <2>4. CASE UNCHANGED vars
    BY <2>4 DEF vars, collectors, TypeInv, PartsInv
  <2> QED
    BY <2>1, <2>2, <2>3, <2>4 DEF Next
<1> QED
  BY <1>1, <1>2, <1>3, <1>4 DEF TypeInv

LEMMA TypesFollow == TypeInv => TypeOK
<1> SUFFICES ASSUME TypeInv PROVE TypeOK
  OBVIOUS
<1>1. PICK P : ratio \in Ratios(P)
  BY DEF TypeInv, RatioInv
<1>2. alphabet \in Files /\ parser.parsed \in Nat /\ parser.missing \in [Fields -> Nat]
  BY DEF TypeInv, EventsInv, PartsInv, Stats
<1>3. parser.total \in Nat /\ parser.outcomes \in Seq(BOOLEAN) /\ Len(parser.outcomes) <= Window
  <2>1. parser.total \in Nat /\ Cardinality(Lines) \in Nat
    BY FS_CardinalityType DEF TypeInv, ConfInv, Ranked
  <2>2. Judges(parser.outcomes, Lines, Lost)
    BY DEF TypeInv, ConfInv
  <2>3. PICK n \in Nat : n = Cardinality(Lines)
    BY <2>1
  <2>4. parser.outcomes \in Seq(BOOLEAN) /\ Len(parser.outcomes) = IF n > Window THEN Window ELSE n
    BY <2>2, <2>3 DEF Judges
  <2>5. Len(parser.outcomes) <= Window
    BY <2>3, <2>4, ParserAssumption
  <2> QED
    BY <2>1, <2>4, <2>5
<1>4. ratio.size \in Sizes /\ Len(ratio.window) <= ratio.size
  BY DEF TypeInv, RatioInv, RatioRight, WindowRight
<1>5. PICK w \in Seq(Categories), k \in [Categories -> Int] : w = ratio.window /\ k = ratio.counts
  BY <1>1 DEF Ratios
<1>6. k \in [Categories -> Nat]
  <2>1. \A c \in Categories : k[c] \in Nat
    <3> SUFFICES ASSUME NEW c \in Categories PROVE k[c] \in Nat
      OBVIOUS
    <3>1. CountIn(w, {c}) \in Nat
      BY CountFinite
    <3>2. CountIn(w, {c}) <= k[c]
      BY <1>5 DEF TypeInv, PartsInv, Tallied, AtLeast
    <3> QED
      BY <3>1, <3>2
  <2> QED
    BY <2>1
<1>7. ratio.blind + (ratio.mutations - ratio.withPath) <= ratio.writes + ratio.edits
  <2>1. /\ ratio.mutations \in Nat /\ ratio.writes \in Nat /\ ratio.edits \in Nat
        /\ ratio.withPath \in Nat /\ ratio.blind \in Nat
    BY <1>1 DEF Ratios
  <2>2. ratio.mutations = ratio.writes + ratio.edits /\ ratio.blind <= ratio.withPath
    BY DEF TypeInv, PartsInv, Tallied
  <2> QED
    BY <2>1, <2>2
<1>8. phrases.withHit <= phrases.messages
  BY DEF TypeInv, PhrasesInv, PhrasesRight
<1>9. Len(phrases.recent) <= RecentCap
  <2>0. PICK lists \in Seq(Seq(Hits)) : lists = Lists(Said)
    BY DEF TypeInv, PhrasesInv, PhrasesRight
  <2>6. PICK none \in Seq(Hits) : none = <<>>
    BY JoinsIs
  <2>7. FlattenSeq(lists) \in Seq(Hits)
    BY <2>6, FlattenAppend
  <2>1. PICK all \in Seq(Hits) : phrases.recent = LastOf(all, RecentCap)
    BY <2>0, <2>7 DEF TypeInv, PhrasesInv, PhrasesRight, Took, AllHits
  <2>2. PICK n \in Nat : n = RecentCap
    BY CollectorsAssumption
  <2>3. Len(LastOf(all, n)) = IF Len(all) > n THEN n ELSE Len(all)
    BY LastOfIs
  <2>4. Len(all) \in Nat
    BY <2>1, LenProperties
  <2>5. Len(LastOf(all, n)) <= n
    BY <2>3, <2>4
  <2> QED
    BY <2>1, <2>2, <2>5
<1>10. thinking.visible <= thinking.blocks /\ Len(thinking.lengths) <= thinking.visible
  BY DEF TypeInv, PartsInv, MeasuredThinkings, Measured
<1>11. health.window <= HealthWindow
  BY HealthAssumption DEF TypeInv, PartsInv
<1>12. grouper.open # NoTurn => grouper.open.count > Len(grouper.open.tools)
  BY DEF TypeInv, PartsInv, CountsTools
<1> QED
  BY <1>2, <1>3, <1>4, <1>5, <1>6, <1>7, <1>8, <1>9, <1>10, <1>11, <1>12 DEF TypeOK

\* TypeOK: the parts keep their types, and a window, a list or a share never
\* outgrows what it is a part of: a resume with another window_size and the
\* slide of a window whose counts outlive their calls bring no count below 0.
THEOREM TypeCorrect == Spec => []TypeOK
<1>1. Init => TypeInv
  BY ToldStart, EventsStart, ConfStart, StatsStart, RatioStart, PhrasesStart, GrouperStart,
     PartsStart DEF TypeInv
<1>2. TypeInv /\ [Next]_vars => TypeInv'
  BY TypeSteps
<1>3. TypeInv => TypeOK
  BY TypesFollow
<1> QED
  BY <1>1, <1>2, <1>3, PTL DEF Spec
=============================================================================
