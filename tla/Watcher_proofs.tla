--------------------------- MODULE Watcher_proofs ---------------------------
(***************************************************************************)
(* Theorems about Watcher, for every value of its constants.               *)
(***************************************************************************)
EXTENDS Watcher, SequenceTheorems, FiniteSetTheorems, WellFoundedInduction, TLAPS

---------------------------------------------------------------------------
(* Sequences of bytes                                                      *)

\* A part of a byte sequence that lies within it is a byte sequence.
LEMMA PartOfBytes ==
  ASSUME NEW s \in Seq(Bytes), NEW m \in Nat \ {0}, NEW n \in Nat, n <= Len(s)
  PROVE  /\ SubSeq(s, m, n) \in Seq(Bytes)
         /\ Len(SubSeq(s, m, n)) = IF m <= n THEN n - m + 1 ELSE 0
         /\ \A i \in 1 .. n - m + 1 : SubSeq(s, m, n)[i] = s[m + i - 1]
<1>1. \A i \in m .. n : s[i] \in Bytes
  BY ElementOfSeq
<1>2. m \in Int /\ n \in Int
  OBVIOUS
<1> QED
  BY <1>1, <1>2, SubSeqProperties

\* What is left of a byte sequence after its first n bytes.
LEMMA TailOfBytes ==
  ASSUME NEW s \in Seq(Bytes), NEW n \in 0 .. Len(s)
  PROVE  /\ SubSeq(s, n + 1, Len(s)) \in Seq(Bytes)
         /\ Len(SubSeq(s, n + 1, Len(s))) = Len(s) - n
         /\ \A j \in 1 .. Len(s) - n : SubSeq(s, n + 1, Len(s))[j] = s[n + j]
<1> DEFINE tail == SubSeq(s, n + 1, Len(s))
<1>1. Len(s) \in Nat
  BY LenProperties
<1>2. n \in Nat /\ n + 1 \in Nat \ {0} /\ n <= Len(s) /\ Len(s) <= Len(s)
  BY <1>1
<1>3. /\ tail \in Seq(Bytes)
      /\ Len(tail) = IF n + 1 <= Len(s) THEN Len(s) - (n + 1) + 1 ELSE 0
      /\ \A i \in 1 .. Len(s) - (n + 1) + 1 : tail[i] = s[(n + 1) + i - 1]
  BY <1>1, <1>2, PartOfBytes, Zenon
<1> HIDE DEF tail
<1>4. Len(s) - (n + 1) + 1 = Len(s) - n
  BY <1>1, <1>2
<1>5. Len(tail) = Len(s) - n
  BY <1>1, <1>2, <1>3
<1>6. \A j \in 1 .. Len(s) - n : tail[j] = s[n + j]
  <2> TAKE j \in 1 .. Len(s) - n
  <2>1. (n + 1) + j - 1 = n + j
    BY <1>1, <1>2
  <2> QED
    BY <1>3, <1>4, <2>1
<1> QED
  BY <1>3, <1>5, <1>6 DEF tail

\* What a prefix of a byte sequence is.
LEMMA TakeType ==
  ASSUME NEW s \in Seq(Bytes), NEW n \in Nat
  PROVE  Take(s, n) \in Seq(Bytes)
<1>1. MinOf(n, Len(s)) \in Nat /\ MinOf(n, Len(s)) <= Len(s)
  BY LenProperties DEF MinOf
<1> QED
  BY <1>1, PartOfBytes DEF Take

\* The bytes one read returns.
LEMMA ChunkType ==
  ASSUME TypeOK, pc = "read"
  PROVE  /\ Chunk \in Seq(Bytes)
         /\ Chunk # << >> =>
              /\ rd.pos + Len(Chunk) <= Size(rd.handle)
              /\ Chunk = SubSeq(disk[rd.handle].data, rd.pos + 1, rd.pos + Len(Chunk))
<1> DEFINE s == disk[rd.handle].data
           e == MinOf(MinOf(rd.want, rd.pos + ChunkSize), Len(s))
<1>1. s \in Seq(Bytes) /\ rd.pos \in Nat /\ rd.want \in Nat
  BY DEF TypeOK
<1>2. e \in Nat /\ e <= Len(s)
  BY <1>1, LenProperties, BoundsAssumption DEF MinOf
<1>3. Chunk = SubSeq(s, rd.pos + 1, e)
  BY DEF Chunk, Size
<1> HIDE DEF s, e
<1>4. /\ Chunk \in Seq(Bytes)
      /\ Len(Chunk) = IF rd.pos + 1 <= e THEN e - rd.pos ELSE 0
  <2>1. rd.pos + 1 \in Nat \ {0}
    BY <1>1
  <2>2. /\ SubSeq(s, rd.pos + 1, e) \in Seq(Bytes)
        /\ Len(SubSeq(s, rd.pos + 1, e)) =
             IF rd.pos + 1 <= e THEN e - (rd.pos + 1) + 1 ELSE 0
    BY <1>1, <1>2, <2>1, PartOfBytes
  <2> QED
    BY <1>1, <1>2, <1>3, <2>2
<1>5. ASSUME Chunk # << >>
      PROVE  rd.pos + Len(Chunk) = e
  <2>1. Len(Chunk) \in Nat \ {0}
    BY <1>4, <1>5, EmptySeq
  <2> QED
    BY <1>1, <1>2, <1>4, <2>1
<1> QED
  BY <1>2, <1>3, <1>4, <1>5 DEF Size, s

---------------------------------------------------------------------------
(* Type correctness                                                        *)

LEMMA InitType == Init => TypeOK
<1> SUFFICES ASSUME Init PROVE TypeOK
  OBVIOUS
<1>1. << >> \in Seq(Bytes)
  BY EmptySeq
<1>2. Mixed \in Versioned
  BY DEF Mixed, Versioned
<1>3. NoHist \in Hist
  BY <1>1, <1>2 DEF NoHist, NewHist, Hist
<1>4. MaxStops \in Nat
  BY BoundsAssumption
<1> QED
  BY <1>1, <1>2, <1>3, <1>4 DEF Init, TypeOK, NoRead

LEMMA WritersType == TypeOK /\ Writers => TypeOK'
<1> SUFFICES ASSUME TypeOK, NEW p \in Paths,
                    \/ \E i \in Inodes : Create(p, i)
                    \/ \E b \in Bytes : Write(p, b)
                    \/ \E n \in 0 .. MaxLen : Truncate(p, n)
                    \/ Unlink(p)
             PROVE  TypeOK'
  BY DEF Writers
<1> USE DEF TypeOK, EnvStep
<1>1. ASSUME NEW i \in Inodes, Create(p, i) PROVE TypeOK'
  BY <1>1, EmptySeq DEF Create, Blank
<1>2. ASSUME NEW b \in Bytes, Write(p, b) PROVE TypeOK'
  <2>1. name[p] \in Inodes
    BY <1>2 DEF Write
  <2>2. Append(disk[name[p]].data, b) \in Seq(Bytes)
    BY <2>1, AppendProperties
  <2>3. disk' \in [Inodes -> [data : Seq(Bytes), ver : Nat]]
    BY <1>2, <2>1, <2>2 DEF Write
  <2> QED
    BY <1>2, <2>3 DEF Write
<1>3. ASSUME NEW n \in 0 .. MaxLen, Truncate(p, n) PROVE TypeOK'
  <2>1. name[p] \in Inodes
    BY <1>3 DEF Truncate
  <2>2. SubSeq(disk[name[p]].data, 1, n) \in Seq(Bytes)
    BY <1>3, <2>1, PartOfBytes, LenProperties, BoundsAssumption DEF Truncate, Size
  <2>3. disk' \in [Inodes -> [data : Seq(Bytes), ver : Nat]]
    <3> DEFINE cut == [data |-> SubSeq(disk[name[p]].data, 1, n),
                       ver |-> disk[name[p]].ver + 1]
    <3>1. cut \in [data : Seq(Bytes), ver : Nat]
      BY <2>1, <2>2
    <3>2. disk' = [disk EXCEPT ![name[p]] = cut]
      BY <1>3 DEF Truncate
    <3> HIDE DEF cut
    <3> QED
      BY <3>1, <3>2
  <2> QED
    BY <1>3, <2>3 DEF Truncate
<1>4. CASE Unlink(p)
  BY <1>4 DEF Unlink
<1> QED
  BY <1>1, <1>2, <1>3, <1>4

\* What is saved of a tracked file that is there.

\* What is saved of a tracked file that is there.
LEMMA CachedType ==
  ASSUME TypeOK, NEW p \in Paths, cursor[p] # None, name[p] # None,
         NEW readable \in BOOLEAN
  PROVE  CachedCursorOf(p, readable) \in Seed
<1>1. /\ Take(disk[name[p]].data, FingerprintLen) \in Seq(Bytes)
      /\ << >> \in Seq(Bytes)
  BY TakeType, BoundsAssumption, EmptySeq DEF TypeOK
<1> QED
  BY <1>1 DEF CachedCursorOf, Seed, Cursor, TypeOK

LEMMA StartStopType == TypeOK /\ (Start \/ Close \/ Crash) => TypeOK'
<1> SUFFICES ASSUME TypeOK, Start \/ Close \/ Crash PROVE TypeOK'
  OBVIOUS
<1>0. NoHist \in Hist /\ Mixed \in Versioned
  BY EmptySeq DEF NoHist, NewHist, Mixed, Versioned, Hist
<1>1. CASE Start
  BY <1>1 DEF Start, TypeOK
<1>2. ASSUME Forget, UNCHANGED <<name, disk>>,
             cache' \in [Paths -> Seed \cup {None}]
      PROVE  TypeOK'
  BY <1>0, <1>2, BoundsAssumption DEF Forget, TypeOK, NoRead
<1>3. CASE Close
  <2>1. PICK Readable \in SUBSET Paths :
          cache' = [p \in Paths |-> IF cursor[p] = None \/ name[p] = None
                                    THEN None ELSE CachedCursorOf(p, p \in Readable)]
    BY <1>3 DEF Close
  <2>2. ASSUME NEW p \in Paths, cursor[p] # None, name[p] # None
        PROVE  CachedCursorOf(p, p \in Readable) \in Seed
    <3>1. (p \in Readable) \in BOOLEAN
      OBVIOUS
    <3>2. \A readable \in BOOLEAN : CachedCursorOf(p, readable) \in Seed
      BY <2>2, CachedType
    <3> QED
      BY <3>1, <3>2, Zenon
  <2>3. cache' \in [Paths -> Seed \cup {None}]
    BY <2>1, <2>2
  <2> QED
    BY <1>2, <1>3, <2>3 DEF Close, env
<1>4. CASE Crash
  BY <1>2, <1>4 DEF Crash, TypeOK
<1> QED
  BY <1>1, <1>3, <1>4

\* The path a stat is about is one of the walk, and its inode is one of Inodes.
LEMMA LeastIn ==
  ASSUME NEW S \in SUBSET Paths, S # {}
  PROVE  Least(S) \in S
<1>1. S \subseteq Nat
  BY PathsAssumption
<1>2. \E x \in S : \A y \in S : ~ (<<y, x>> \in OpToRel(<, Nat))
  BY <1>1, NatLessThanWellFounded, WFMin
<1>3. \E x \in S : \A y \in S : x <= y
  <2>1. PICK x \in S : \A y \in S : ~ (<<y, x>> \in OpToRel(<, Nat))
    BY <1>2
  <2>2. \A y \in S : ~ (y < x)
    BY <1>1, <2>1 DEF OpToRel
  <2> QED
    BY <1>1, <2>2
<1> QED
  BY <1>3 DEF Least

\* What looking at path p makes of it; v is the version that was statted.
Looks(p, v) ==
  \/ seeds[p] # None /\ Resume(p, v)
  \/ \E flaws \in SUBSET Flaws : Discover(p, v, flaws)
  \/ v = Version(v[1]) /\ (Restart(p, v[1]) \/ Follow(p, v[1]))

\* The shapes of the steps that look: a path that is gone, one whose seed is to
\* be consulted, and one that is looked at, by a stat or after a consultation.
LEMMA StatLooks ==
  ASSUME TypeOK, Stat, NEW p, p = Least(todo), NEW i, i = name[p]
  PROVE  /\ p \in Paths /\ p \in todo /\ pc = "stat"
         /\ todo' = todo \ {p} /\ seen' = seen \cup {p}
         /\ UNCHANGED <<name, disk, cache, stops>>
         /\ \/ i = None /\ UNCHANGED <<cursor, seeds, hist, rd, pc>>
            \/ /\ i \in Inodes /\ cursor[p] = None /\ Fingerprinted(seeds[p], i)
               /\ pc' = "check"
               /\ rd' = [NoRead EXCEPT !.path = p, !.at = Version(i), !.want = Size(i)]
               /\ UNCHANGED <<cursor, seeds, hist>>
            \/ i \in Inodes /\ Looks(p, Version(i)) /\ ReadUpTo(p, Size(i))
<1>1. p \in Paths /\ p \in todo
  BY LeastIn DEF Stat, TypeOK
<1>2. /\ pc = "stat" /\ todo' = todo \ {p} /\ seen' = seen \cup {p}
      /\ UNCHANGED <<name, disk, cache, stops>>
  BY DEF Stat
<1>3. i # None => i \in Inodes
  BY <1>1 DEF TypeOK
<1>4. ASSUME i # None,
             \/ SeedFits(seeds[p], i) /\ ~ Fingerprinted(seeds[p], i) /\ Resume(p, Version(i))
             \/ ~ SeedFits(seeds[p], i) /\ Discover(p, Version(i), {})
             \/ Restart(p, i)
             \/ Follow(p, i)
      PROVE  Looks(p, Version(i))
  <2>1. Version(i)[1] = i
    BY DEF Version
  <2>2. CASE SeedFits(seeds[p], i) /\ Resume(p, Version(i))
    BY <2>2 DEF SeedFits, Looks
  <2>3. CASE Discover(p, Version(i), {})
    BY <2>3 DEF Looks
  <2>4. CASE Restart(p, i) \/ Follow(p, i)
    BY <2>1, <2>4 DEF Looks
  <2> QED
    BY <1>4, <2>2, <2>3, <2>4
<1> QED
  BY <1>1, <1>2, <1>3, <1>4 DEF Stat

LEMMA CheckLooks ==
  ASSUME TypeOK, Check, NEW p, p = rd.path, NEW v, v = rd.at
  PROVE  /\ p \in Paths /\ pc = "check" /\ v \in Inodes \X Nat /\ rd.want \in Nat
         /\ cursor[p] = None /\ seeds[p] # None
         /\ UNCHANGED <<name, disk, cache, todo, seen, stops>>
         /\ Looks(p, v) /\ ReadUpTo(p, rd.want)
<1>1. /\ pc = "check" /\ ReadUpTo(p, rd.want) /\ cursor[p] = None
      /\ UNCHANGED <<name, disk, cache, todo, seen, stops>>
      /\ \/ Resume(p, v)
         \/ Discover(p, v, {})
         \/ Discover(p, v, {"refused"})
  BY DEF Check, Resume, Discover
<1>2. /\ p \in Paths /\ v \in Inodes \X Nat /\ seeds[p] # None /\ rd.want \in Nat
  BY <1>1 DEF TypeOK, Versioned
<1>3. Looks(p, v)
  BY <1>1, <1>2 DEF Looks, Flaws
<1> QED
  BY <1>1, <1>2, <1>3

\* What looking leaves of the path that is looked at, case by case: a resumed
\* cursor, a fresh one, or the one it had.
LEMMA LookShape ==
  ASSUME TypeOK, NEW p \in Paths, NEW v \in Inodes \X Nat, Looks(p, v)
  PROVE  /\ \A q \in Paths \ {p} : /\ cursor'[q] = cursor[q]
                                   /\ hist'[q] = hist[q]
                                   /\ seeds'[q] = seeds[q]
         /\ \/ /\ cursor[p] = None /\ seeds[p] \in Seed /\ seeds'[p] = None
               /\ Resume(p, v)
               /\ cursor'[p] = ResumedCursor(seeds[p])
               /\ hist'[p].out = seeds[p].hist.out
               /\ hist'[p].sent = seeds[p].hist.sent
               /\ hist'[p].src = Join(seeds[p].hist.src, v)
               /\ hist'[p].flaws = seeds[p].hist.flaws \ {"refused"}
            \/ /\ cursor[p] = None /\ seeds'[p] = None
               /\ cursor'[p] = FreshCursor(v[1])
               /\ \E flaws \in SUBSET Flaws :
                    Discover(p, v, flaws) /\ hist'[p] = NewHist(v, flaws)
            \/ /\ cursor[p] # None /\ Replaced(p, v[1]) /\ seeds'[p] = seeds[p]
               /\ v = Version(v[1])
               /\ cursor'[p] = FreshCursor(v[1])
               /\ hist'[p] = NewHist(v, {})
            \/ /\ cursor[p] # None /\ ~ Replaced(p, v[1])
               /\ v = Version(v[1])
               /\ UNCHANGED <<cursor, seeds>>
               /\ hist'[p].out = hist[p].out /\ hist'[p].sent = hist[p].sent
               /\ hist'[p].flaws = hist[p].flaws
               /\ hist'[p].src \in {hist[p].src, Join(hist[p].src, v)}
         /\ cursor'[p] \in Cursor /\ cursor'[p] # None /\ hist'[p] \in Hist
<1>0. /\ cursor \in [Paths -> Cursor \cup {None}] /\ seeds \in [Paths -> Seed \cup {None}]
      /\ hist \in [Paths -> Hist]
  BY DEF TypeOK
<1>1. /\ v \in Versioned /\ v[1] \in Inodes
      /\ \A src \in Versioned : Join(src, v) \in Versioned
  BY DEF Versioned, Join, Mixed
<1>2. FreshCursor(v[1]) \in Cursor /\ FreshCursor(v[1]) # None
  <2>1. FreshCursor(v[1]) \in Cursor
    BY <1>1, EmptySeq DEF FreshCursor, Cursor
  <2> QED
    BY <2>1, NoneAssumption
<1>3. \A flaws \in SUBSET Flaws : NewHist(v, flaws) \in Hist
  BY <1>1, EmptySeq DEF NewHist, Hist
<1>4. CASE seeds[p] # None /\ Resume(p, v)
  <2>1. seeds[p] \in Seed
    BY <1>0, <1>4
  <2>2. ResumedCursor(seeds[p]) \in Cursor /\ ResumedCursor(seeds[p]) # None
    BY <2>1, NoneAssumption DEF ResumedCursor, Seed, Cursor
  <2> DEFINE h == seeds[p].hist
             src == Join(h.src, v)
             flaws == h.flaws \ {"refused"}
  <2>3. h \in Hist
    BY <2>1 DEF Seed
  <2>4. src \in Versioned /\ flaws \in SUBSET Flaws
    BY <1>1, <2>3 DEF Hist
  <2>5. /\ cursor[p] = None
        /\ cursor' = [cursor EXCEPT ![p] = ResumedCursor(seeds[p])]
        /\ hist' = [hist EXCEPT ![p] = [h EXCEPT !.src = src, !.flaws = flaws]]
        /\ seeds' = [seeds EXCEPT ![p] = None]
    BY <1>4 DEF Resume
  <2> HIDE DEF h, src, flaws
  <2>6. hist'[p] = [h EXCEPT !.src = src, !.flaws = flaws]
    BY <1>0, <2>5
  <2>7. /\ hist'[p] \in Hist
        /\ hist'[p].out = h.out /\ hist'[p].sent = h.sent
        /\ hist'[p].src = src /\ hist'[p].flaws = flaws
    BY <2>3, <2>4, <2>6 DEF Hist
  <2>8. /\ cursor'[p] = ResumedCursor(seeds[p]) /\ seeds'[p] = None
        /\ \A q \in Paths \ {p} : /\ cursor'[q] = cursor[q]
                                  /\ hist'[q] = hist[q]
                                  /\ seeds'[q] = seeds[q]
    BY <1>0, <2>5
  <2> QED
    BY <1>4, <2>1, <2>2, <2>5, <2>7, <2>8 DEF h, src, flaws
<1>5. ASSUME NEW flaws \in SUBSET Flaws, Discover(p, v, flaws)
      PROVE  /\ \A q \in Paths \ {p} : /\ cursor'[q] = cursor[q]
                                       /\ hist'[q] = hist[q]
                                       /\ seeds'[q] = seeds[q]
             /\ cursor[p] = None /\ seeds'[p] = None
             /\ cursor'[p] = FreshCursor(v[1]) /\ hist'[p] = NewHist(v, flaws)
  BY <1>0, <1>5 DEF Discover
<1>6. CASE v = Version(v[1]) /\ Restart(p, v[1])
  <2>1. /\ cursor[p] # None /\ Replaced(p, v[1]) /\ seeds' = seeds
        /\ cursor' = [cursor EXCEPT ![p] = FreshCursor(v[1])]
        /\ hist' = [hist EXCEPT ![p] = NewHist(v, {})]
    BY <1>6 DEF Restart
  <2>2. /\ cursor'[p] = FreshCursor(v[1]) /\ hist'[p] = NewHist(v, {})
        /\ \A q \in Paths \ {p} : cursor'[q] = cursor[q] /\ hist'[q] = hist[q]
    BY <1>0, <2>1
  <2> QED
    BY <1>2, <1>3, <1>6, <2>1, <2>2
<1>7. CASE v = Version(v[1]) /\ Follow(p, v[1])
  <2> DEFINE src == Join(hist[p].src, v)
  <2>1. /\ cursor[p] # None /\ ~ Replaced(p, v[1]) /\ UNCHANGED <<cursor, seeds>>
        /\ hist' = hist \/ hist' = [hist EXCEPT ![p].src = src]
    BY <1>7, Zenon DEF Follow
  <2>2. hist[p] \in Hist /\ src \in Versioned
    BY <1>0, <1>1 DEF Hist
  <2> HIDE DEF src
  <2>3. /\ hist'[p] = hist[p] \/ hist'[p] = [hist[p] EXCEPT !.src = src]
        /\ \A q \in Paths \ {p} : hist'[q] = hist[q]
    BY <1>0, <2>1
  <2>4. /\ hist'[p] \in Hist
        /\ hist'[p].out = hist[p].out /\ hist'[p].sent = hist[p].sent
        /\ hist'[p].flaws = hist[p].flaws
        /\ hist'[p].src \in {hist[p].src, src}
    BY <2>2, <2>3 DEF Hist
  <2>5. cursor'[p] \in Cursor
    BY <1>0, <2>1
  <2> QED
    BY <1>7, <2>1, <2>3, <2>4, <2>5 DEF src
<1> QED
  BY <1>2, <1>3, <1>4, <1>5, <1>6, <1>7 DEF Looks

\* Looking keeps the types of what it changes, and so does what follows it.
LEMMA LookType ==
  ASSUME TypeOK, NEW p \in Paths, NEW v \in Inodes \X Nat, Looks(p, v),
         NEW n \in Nat, ReadUpTo(p, n),
         UNCHANGED <<name, disk, cache, stops>>,
         todo' \subseteq Paths, seen' \subseteq Paths
  PROVE  TypeOK'
<1>1. /\ \A q \in Paths \ {p} : /\ cursor'[q] = cursor[q]
                                /\ hist'[q] = hist[q]
                                /\ seeds'[q] = seeds[q]
      /\ seeds'[p] \in {seeds[p], None}
      /\ cursor'[p] \in Cursor /\ cursor'[p] # None /\ hist'[p] \in Hist
  BY LookShape
<1>2. /\ \E c : cursor' = [cursor EXCEPT ![p] = c] \/ cursor' = cursor
      /\ \E h : hist' = [hist EXCEPT ![p] = h] \/ hist' = hist
      /\ seeds' = [seeds EXCEPT ![p] = None] \/ seeds' = seeds
  <2>1. \A src : [hist EXCEPT ![p].src = src] = [hist EXCEPT ![p] = [hist[p] EXCEPT !.src = src]]
    BY DEF TypeOK
  <2> QED
    BY <2>1 DEF Looks, Resume, Discover, Restart, Follow
<1>3. /\ cursor' \in [Paths -> Cursor \cup {None}]
      /\ hist' \in [Paths -> Hist]
      /\ seeds' \in [Paths -> Seed \cup {None}]
  <2>1. cursor' \in [Paths -> Cursor \cup {None}]
    BY <1>1, <1>2 DEF TypeOK
  <2>2. hist' \in [Paths -> Hist]
    BY <1>1, <1>2 DEF TypeOK
  <2>3. seeds' \in [Paths -> Seed \cup {None}]
    BY <1>2 DEF TypeOK
  <2> QED
    BY <2>1, <2>2, <2>3
<1>4. Mixed \in Versioned
  BY DEF Mixed, Versioned
<1>5. /\ pc' \in {"open", "stat"}
      /\ rd' \in [path : Paths \cup {None}, at : Versioned, want : Nat,
                  handle : Inodes \cup {None}, pos : Nat]
      /\ pc' = "open" => rd'.path = p
  <2>1. NoRead \in [path : Paths \cup {None}, at : Versioned, want : Nat,
                    handle : Inodes \cup {None}, pos : Nat]
    BY <1>4 DEF NoRead
  <2>2. /\ [NoRead EXCEPT !.path = p, !.want = n]
             \in [path : Paths \cup {None}, at : Versioned, want : Nat,
                  handle : Inodes \cup {None}, pos : Nat]
        /\ [NoRead EXCEPT !.path = p, !.want = n].path = p
    BY <1>4 DEF NoRead
  <2> QED
    BY <2>1, <2>2 DEF ReadUpTo
<1> QED
  BY <1>1, <1>3, <1>5 DEF TypeOK

LEMMA StatType == TypeOK /\ (Stat \/ Check) => TypeOK'
<1> SUFFICES ASSUME TypeOK, Stat \/ Check PROVE TypeOK'
  OBVIOUS
<1>1. CASE Stat
  <2> DEFINE p == Least(todo)
             i == name[p]
  <2>1. /\ p \in Paths /\ p \in todo /\ pc = "stat"
        /\ todo' = todo \ {p} /\ seen' = seen \cup {p}
        /\ UNCHANGED <<name, disk, cache, stops>>
        /\ \/ i = None /\ UNCHANGED <<cursor, seeds, hist, rd, pc>>
           \/ /\ i \in Inodes /\ cursor[p] = None /\ Fingerprinted(seeds[p], i)
              /\ pc' = "check"
              /\ rd' = [NoRead EXCEPT !.path = p, !.at = Version(i), !.want = Size(i)]
              /\ UNCHANGED <<cursor, seeds, hist>>
           \/ i \in Inodes /\ Looks(p, Version(i)) /\ ReadUpTo(p, Size(i))
    BY <1>1, StatLooks
  <2> HIDE DEF p, i
  <2>2. todo' \subseteq Paths /\ seen' \subseteq Paths
    BY <2>1 DEF TypeOK
  <2>3. ASSUME i \in Inodes
        PROVE  Version(i) \in Inodes \X Nat /\ Version(i) \in Versioned /\ Size(i) \in Nat
    BY <2>3, LenProperties DEF Version, Versioned, Size, TypeOK
  <2>4. CASE i = None /\ UNCHANGED <<cursor, seeds, hist, rd, pc>>
    BY <2>1, <2>2, <2>4 DEF TypeOK
  <2>5. CASE /\ i \in Inodes /\ Fingerprinted(seeds[p], i) /\ pc' = "check"
             /\ rd' = [NoRead EXCEPT !.path = p, !.at = Version(i), !.want = Size(i)]
             /\ UNCHANGED <<cursor, seeds, hist>>
    <3>1. seeds'[p] # None
      BY <2>5 DEF Fingerprinted, SeedFits
    <3>2. /\ rd' \in [path : Paths \cup {None}, at : Versioned, want : Nat,
                      handle : Inodes \cup {None}, pos : Nat]
          /\ rd'.path = p /\ rd'.at[1] = i
      BY <2>1, <2>3, <2>5 DEF NoRead, Version
    <3> QED
      BY <2>1, <2>2, <2>5, <3>1, <3>2 DEF TypeOK
  <2>6. CASE i \in Inodes /\ Looks(p, Version(i)) /\ ReadUpTo(p, Size(i))
    BY <2>1, <2>2, <2>3, <2>6, LookType
  <2> QED
    BY <2>1, <2>4, <2>5, <2>6
<1>2. CASE Check
  <2>1. /\ rd.path \in Paths /\ rd.at \in Inodes \X Nat /\ rd.want \in Nat
        /\ UNCHANGED <<name, disk, cache, todo, seen, stops>>
        /\ Looks(rd.path, rd.at) /\ ReadUpTo(rd.path, rd.want)
    BY <1>2, CheckLooks
  <2> QED
    BY <2>1, LookType DEF TypeOK
<1> QED
  BY <1>1, <1>2

LEMMA ReadType == TypeOK /\ (Open \/ ReadChunk \/ FinishRead) => TypeOK'
<1> SUFFICES ASSUME TypeOK, Open \/ ReadChunk \/ FinishRead PROVE TypeOK'
  OBVIOUS
<1> DEFINE p == rd.path
<1>0. p \in Paths /\ cursor[p] \in Cursor
  BY DEF Open, ReadChunk, FinishRead, TypeOK
<1>1. CASE Open
  <2>1. CASE name[p] = None
    BY <1>1, <2>1 DEF Open, TypeOK, NoRead, Mixed, Versioned
  <2>2. CASE name[p] # None
    BY <1>0, <1>1, <2>2 DEF Open, TypeOK, Cursor
  <2> QED
    BY <2>1, <2>2
<1>2. CASE ReadChunk
  <2>1. /\ rd.handle \in Inodes /\ pc = "read" /\ Chunk \in Seq(Bytes)
        /\ Len(Chunk) \in Nat
    BY <1>2, ChunkType, LenProperties DEF ReadChunk, TypeOK
  <2>2. Buffer \in Seq(Bytes)
    BY <1>0, <2>1, ConcatProperties DEF Buffer, Cursor
  <2>3. PICK n \in 0 .. Len(Buffer) :
          /\ cursor' = [cursor EXCEPT ![p].pending = SubSeq(Buffer, n + 1, Len(Buffer))]
          /\ hist' = [hist EXCEPT ![p].out = @ \o SubSeq(Buffer, 1, n),
                                  ![p].src = Join(@, Version(rd.handle))]
    BY <1>2 DEF ReadChunk
  <2>4. /\ SubSeq(Buffer, 1, n) \in Seq(Bytes)
        /\ SubSeq(Buffer, n + 1, Len(Buffer)) \in Seq(Bytes)
    BY <2>2, PartOfBytes, LenProperties
  <2>5. Join(hist[p].src, Version(rd.handle)) \in Versioned
    BY <1>0, <2>1 DEF Join, Mixed, Version, Versioned, Hist, TypeOK
  <2>6. hist[p].out \o SubSeq(Buffer, 1, n) \in Seq(Bytes)
    BY <1>0, <2>4, ConcatProperties DEF Hist, TypeOK
  <2>7. cursor' \in [Paths -> Cursor \cup {None}] /\ cursor'[p] \in Cursor
    BY <1>0, <2>3, <2>4 DEF Cursor, TypeOK
  <2>8. hist' \in [Paths -> Hist]
    <3> DEFINE out == hist[p].out \o SubSeq(Buffer, 1, n)
               src == Join(hist[p].src, Version(rd.handle))
    <3>1. hist[p] \in Hist /\ out \in Seq(Bytes) /\ src \in Versioned
      BY <1>0, <2>5, <2>6 DEF TypeOK
    <3>2. hist' = [hist EXCEPT ![p] = [hist[p] EXCEPT !.out = out, !.src = src]]
      BY <1>0, <2>3 DEF TypeOK
    <3> HIDE DEF out, src
    <3>3. [hist[p] EXCEPT !.out = out, !.src = src] \in Hist
      BY <3>1 DEF Hist
    <3> QED
      BY <3>2, <3>3 DEF TypeOK
  <2>9. rd' = [rd EXCEPT !.pos = @ + Len(Chunk)]
    BY <1>2 DEF ReadChunk
  <2>10. cursor'[rd'.path] # None
    BY <2>7, <2>9, NoneAssumption DEF TypeOK
  <2>11. rd' \in [path : Paths \cup {None}, at : Versioned, want : Nat,
                  handle : Inodes \cup {None}, pos : Nat]
    <3>1. rd.pos + Len(Chunk) \in Nat
      BY <2>1 DEF TypeOK
    <3>2. \A k \in Nat : [rd EXCEPT !.pos = k] \in
            [path : Paths \cup {None}, at : Versioned, want : Nat,
             handle : Inodes \cup {None}, pos : Nat]
      BY DEF TypeOK
    <3> QED
      BY <2>9, <3>1, <3>2
  <2>12. UNCHANGED <<name, disk, seeds, cache, pc, todo, seen, stops>>
    BY <1>2 DEF ReadChunk
  <2>13. rd'.path = p /\ rd'.handle = rd.handle
    BY <2>9 DEF TypeOK
  <2> QED
    BY <1>0, <2>1, <2>7, <2>8, <2>10, <2>11, <2>12, <2>13 DEF TypeOK
<1>3. CASE FinishRead
  <2>1. cursor' \in [Paths -> Cursor \cup {None}]
    BY <1>0, <1>3 DEF FinishRead, Cursor, TypeOK
  <2> QED
    BY <1>3, <2>1 DEF FinishRead, TypeOK, NoRead, Mixed, Versioned
<1> QED
  BY <1>1, <1>2, <1>3

\* A poll that ends, or raises, keeps the types of the histories.
LEMMA SentType ==
  ASSUME TypeOK, NEW p \in Paths
  PROVE  /\ NoHist \in Hist
         /\ [hist[p] EXCEPT !.sent = Len(hist[p].out)] \in Hist
         /\ [hist[p] EXCEPT !.out = Take(@, hist[p].sent),
                             !.flaws = @ \cup {"lost"}] \in Hist
<1> DEFINE h == hist[p]
           cut == Take(h.out, h.sent)
           flaws == h.flaws \cup {"lost"}
<1>1. h \in Hist /\ Len(h.out) \in Nat
  BY LenProperties DEF Hist, TypeOK
<1>2. cut \in Seq(Bytes)
  BY <1>1, TakeType DEF Hist
<1>3. flaws \in SUBSET Flaws
  BY <1>1 DEF Hist, Flaws
<1>4. NoHist \in Hist
  BY EmptySeq DEF NoHist, NewHist, Mixed, Versioned, Hist
<1> HIDE DEF cut, flaws
<1>5. \A n \in Nat : [h EXCEPT !.sent = n] \in Hist
  BY <1>1 DEF Hist
<1>6. [h EXCEPT !.out = cut, !.flaws = flaws] \in Hist
  BY <1>1, <1>2, <1>3 DEF Hist
<1> QED
  BY <1>1, <1>4, <1>5, <1>6 DEF cut, flaws

LEMMA EndType == TypeOK /\ (EndPoll \/ Raise) => TypeOK'
<1> SUFFICES ASSUME TypeOK, EndPoll \/ Raise PROVE TypeOK'
  OBVIOUS
<1>1. CASE EndPoll
  <2>1. hist' \in [Paths -> Hist]
    BY <1>1, SentType DEF EndPoll
  <2> QED
    BY <1>1, <2>1 DEF EndPoll, TypeOK
<1>2. CASE Raise
  <2>1. hist' \in [Paths -> Hist]
    <3>1. \A p \in Paths : hist[p] \in Hist
      BY DEF TypeOK
    <3> QED
      BY <1>2, <3>1, SentType DEF Raise
  <2>2. Mixed \in Versioned
    BY DEF Mixed, Versioned
  <2> QED
    BY <1>2, <2>1, <2>2 DEF Raise, TypeOK, NoRead
<1> QED
  BY <1>1, <1>2

LEMMA NextType == TypeOK /\ [Next]_vars => TypeOK'
<1> SUFFICES ASSUME TypeOK, [Next]_vars PROVE TypeOK'
  OBVIOUS
<1>1. CASE Walk
  BY <1>1 DEF Walk, Walked, TypeOK
<1>2. CASE UNCHANGED vars
  BY <1>2 DEF vars, TypeOK
<1> QED
  BY <1>1, <1>2, WritersType, StartStopType, StatType, ReadType, EndType
  DEF Next, Poll

\* Every reachable state of the watcher, of its files and of its cache has the
\* type TypeOK states: a read in progress is always of a tracked path.
THEOREM TypeCorrect == Spec => []TypeOK
<1> QED
  BY InitType, NextType, PTL DEF Spec

---------------------------------------------------------------------------
(* Whole lines.  WholeLines speaks of tracked paths; what keeps it true is  *)
(* that the cached cursors, from which paths are tracked again, are whole   *)
(* too, and that what the polls have returned ends at a newline: a poll     *)
(* that raises takes back the rest.                                         *)

Partial(pending) == \A j \in 1 .. Len(pending) : pending[j] # NL

Ended(out, n) == n <= Len(out) /\ (n # 0 => out[n] = NL)

Lined(h) ==
  /\ h.out # << >> => h.out[Len(h.out)] = NL
  /\ Ended(h.out, h.sent)

SeedWhole(seed) == seed # None => Lined(seed.hist) /\ Partial(seed.pending)

WholeInv ==
  \A p \in Paths :
    /\ Lined(hist[p])
    /\ cursor[p] # None => Partial(cursor[p].pending)
    /\ SeedWhole(seeds[p])
    /\ SeedWhole(cache[p])

\* Nothing emitted and nothing pending is whole.
LEMMA EmptyWhole ==
  /\ Partial(<< >>) /\ Lined(NoHist)
  /\ \A v, flaws : Lined(NewHist(v, flaws))
<1>1. Len(<< >>) = 0
  OBVIOUS
<1> QED
  BY <1>1 DEF Partial, Lined, Ended, NoHist, NewHist

\* Cutting at the last newline leaves whole lines before it, and no newline
\* after it.
LEMMA SplitWhole ==
  ASSUME NEW out \in Seq(Bytes), NEW buf \in Seq(Bytes),
         NEW n \in 0 .. Len(buf), SplitsAt(buf, n),
         out # << >> => out[Len(out)] = NL
  PROVE  /\ LET longer == out \o SubSeq(buf, 1, n)
            IN  longer # << >> => longer[Len(longer)] = NL
         /\ Partial(SubSeq(buf, n + 1, Len(buf)))
<1> DEFINE head == SubSeq(buf, 1, n)
           tail == SubSeq(buf, n + 1, Len(buf))
<1>0. Len(buf) \in Nat /\ n \in Nat /\ n <= Len(buf) /\ Len(out) \in Nat
  BY LenProperties
<1>1. head \in Seq(Bytes) /\ Len(head) = n
      /\ \A i \in 1 .. n : head[i] = buf[i]
  <2>1. /\ head \in Seq(Bytes)
        /\ Len(head) = IF 1 <= n THEN n - 1 + 1 ELSE 0
        /\ \A i \in 1 .. n - 1 + 1 : head[i] = buf[1 + i - 1]
    BY <1>0, PartOfBytes
  <2> QED
    BY <1>0, <2>1
<1>2. \A j \in 1 .. Len(tail) : tail[j] # NL
  <2>1. Len(tail) = Len(buf) - n /\ \A j \in 1 .. Len(buf) - n : tail[j] = buf[n + j]
    BY TailOfBytes, Zenon
  <2> HIDE DEF tail
  <2>2. \A j \in 1 .. Len(tail) : n + j \in n + 1 .. Len(buf)
    BY <1>0, <2>1
  <2>3. \A k \in n + 1 .. Len(buf) : buf[k] # NL
    BY DEF SplitsAt
  <2> QED
    BY <2>1, <2>2, <2>3
<1>3. ASSUME out \o head # << >>
      PROVE  (out \o head)[Len(out \o head)] = NL
  <2>1. /\ Len(out \o head) = Len(out) + n
        /\ \A i \in 1 .. Len(out) + n : (out \o head)[i] =
             IF i <= Len(out) THEN out[i] ELSE head[i - Len(out)]
    BY <1>1, ConcatProperties
  <2>2. CASE n = 0
    <3>1. head = << >>
      BY <2>2, SubSeqEmpty
    <3>2. out \o head = out
      BY <3>1, ConcatEmptySeq
    <3> QED
      BY <1>3, <3>2
  <2>3. CASE n > 0
    <3>1. (out \o head)[Len(out) + n] = head[n]
      BY <1>0, <2>1, <2>3
    <3>2. head[n] = buf[n] /\ buf[n] = NL
      BY <1>0, <1>1, <2>3 DEF SplitsAt
    <3> QED
      BY <2>1, <3>1, <3>2
  <2>4. n = 0 \/ n > 0
    BY <1>0
  <2> QED
    BY <2>2, <2>3, <2>4
<1> QED
  BY <1>2, <1>3 DEF Partial

\* What ends at a newline goes on to do so when more is emitted.
LEMMA EndedGrows ==
  ASSUME NEW out \in Seq(Bytes), NEW more \in Seq(Bytes), NEW n \in Nat, Ended(out, n)
  PROVE  Ended(out \o more, n)
<1>1. /\ Len(out) \in Nat /\ Len(more) \in Nat
      /\ Len(out \o more) = Len(out) + Len(more)
      /\ \A k \in 1 .. Len(out) + Len(more) :
           (out \o more)[k] = IF k <= Len(out) THEN out[k] ELSE more[k - Len(out)]
  BY LenProperties, ConcatProperties
<1> QED
  BY <1>1 DEF Ended

\* What a poll that raises takes back leaves whole lines.
LEMMA CutLined ==
  ASSUME NEW h \in Hist, Lined(h),
         NEW g, g = [h EXCEPT !.out = Take(@, h.sent), !.flaws = @ \cup {"lost"}]
  PROVE  Lined(g) /\ g.sent = h.sent /\ g.src = h.src /\ "lost" \in g.flaws
<1> DEFINE cut == Take(h.out, h.sent)
           flaws == h.flaws \cup {"lost"}
<1>1. /\ h.out \in Seq(Bytes) /\ h.sent \in Nat /\ Len(h.out) \in Nat
      /\ h.sent <= Len(h.out)
  BY LenProperties DEF Hist, Lined, Ended
<1>2. cut = SubSeq(h.out, 1, h.sent)
  BY <1>1 DEF Take, MinOf
<1> HIDE DEF cut, flaws
<1>3. /\ Len(cut) = IF 1 <= h.sent THEN h.sent - 1 + 1 ELSE 0
      /\ \A k \in 1 .. h.sent - 1 + 1 : cut[k] = h.out[1 + k - 1]
      /\ cut \in Seq(Bytes)
  BY <1>1, <1>2, PartOfBytes
<1>4. Len(cut) = h.sent /\ \A k \in 1 .. h.sent : cut[k] = h.out[k]
  BY <1>1, <1>3
<1>5. /\ g.out = cut /\ g.sent = h.sent /\ g.src = h.src /\ g.flaws = flaws
  BY DEF Hist, cut, flaws
<1>6. cut # << >> => h.sent # 0
  BY <1>3, <1>4, EmptySeq
<1>7. h.sent # 0 => cut[h.sent] = NL
  BY <1>1, <1>4 DEF Lined, Ended
<1>8. h.sent <= Len(cut)
  BY <1>1, <1>4
<1> QED
  BY <1>4, <1>5, <1>6, <1>7, <1>8 DEF Lined, Ended, flaws

LEMMA WholeInit == Init => WholeInv
  BY EmptyWhole DEF Init, WholeInv, SeedWhole

\* Looking at a path, and ending a read, keep everything whole.
LEMMA WholeLook ==
  ASSUME TypeOK, WholeInv, NEW p \in Paths, NEW v \in Inodes \X Nat, Looks(p, v),
         UNCHANGED cache
  PROVE  WholeInv'
<1>1. \A q \in Paths \ {p} : /\ cursor'[q] = cursor[q]
                            /\ hist'[q] = hist[q]
                            /\ seeds'[q] = seeds[q]
  BY LookShape
<1>2. /\ SeedWhole(seeds[p]) /\ SeedWhole(None) /\ Lined(hist[p])
      /\ cursor[p] # None => Partial(cursor[p].pending)
  BY DEF WholeInv, SeedWhole
<1>3. /\ Lined(hist'[p]) /\ SeedWhole(seeds'[p])
      /\ Partial(cursor'[p].pending)
  <2>1. CASE /\ seeds[p] \in Seed /\ seeds'[p] = None
             /\ cursor'[p] = ResumedCursor(seeds[p])
             /\ hist'[p].out = seeds[p].hist.out
             /\ hist'[p].sent = seeds[p].hist.sent
    BY <1>2, <2>1, NoneAssumption DEF SeedWhole, Lined, ResumedCursor
  <2>2. CASE /\ seeds'[p] \in {seeds[p], None} /\ cursor'[p] = FreshCursor(v[1])
             /\ \E flaws : hist'[p] = NewHist(v, flaws)
    BY <1>2, <2>2, EmptyWhole DEF FreshCursor
  <2>3. CASE /\ cursor[p] # None /\ UNCHANGED <<cursor, seeds>>
             /\ hist'[p].out = hist[p].out /\ hist'[p].sent = hist[p].sent
    BY <1>2, <2>3 DEF Lined
  <2> QED
    BY <2>1, <2>2, <2>3, LookShape
<1> QED
  BY <1>1, <1>3 DEF WholeInv, SeedWhole

LEMMA WholeRead == TypeOK /\ WholeInv /\ (ReadChunk \/ FinishRead) => WholeInv'
<1> SUFFICES ASSUME TypeOK, WholeInv, ReadChunk \/ FinishRead PROVE WholeInv'
  OBVIOUS
<1>1. CASE ReadChunk
  <2> DEFINE p == rd.path
  <2>1. /\ p \in Paths /\ cursor[p] \in Cursor /\ hist[p] \in Hist
        /\ cursor[p] # None /\ Chunk \in Seq(Bytes)
    BY <1>1, ChunkType, NoneAssumption DEF ReadChunk, TypeOK
  <2>2. Buffer \in Seq(Bytes)
    BY <2>1, ConcatProperties DEF Buffer, Cursor
  <2>3. PICK n \in 0 .. Len(Buffer) :
          /\ SplitsAt(Buffer, n)
          /\ cursor' = [cursor EXCEPT ![p].pending = SubSeq(Buffer, n + 1, Len(Buffer))]
          /\ hist' = [hist EXCEPT ![p].out = @ \o SubSeq(Buffer, 1, n),
                                  ![p].src = Join(@, Version(rd.handle))]
    BY <1>1 DEF ReadChunk
  <2> DEFINE head == SubSeq(Buffer, 1, n)
             out == hist[p].out
             longer == out \o head
  <2>4. /\ out # << >> => out[Len(out)] = NL
        /\ Ended(out, hist[p].sent)
        /\ out \in Seq(Bytes) /\ hist[p].sent \in Nat
    BY <2>1 DEF WholeInv, Lined, Hist
  <2>5. /\ longer # << >> => longer[Len(longer)] = NL
        /\ Partial(SubSeq(Buffer, n + 1, Len(Buffer)))
    BY <2>2, <2>3, <2>4, SplitWhole
  <2>6. head \in Seq(Bytes)
    BY <2>2, PartOfBytes, LenProperties
  <2>7. Ended(longer, hist[p].sent)
    BY <2>4, <2>6, EndedGrows
  <2>8. /\ cursor'[p].pending = SubSeq(Buffer, n + 1, Len(Buffer))
        /\ hist'[p].out = longer /\ hist'[p].sent = hist[p].sent
    BY <2>1, <2>3 DEF TypeOK, Cursor, Hist
  <2>9. \A q \in Paths \ {p} : cursor'[q] = cursor[q] /\ hist'[q] = hist[q]
    BY <2>3 DEF TypeOK
  <2>10. UNCHANGED <<seeds, cache>>
    BY <1>1 DEF ReadChunk
  <2> HIDE DEF longer
  <2> QED
    BY <2>5, <2>7, <2>8, <2>9, <2>10 DEF WholeInv, SeedWhole, Lined
<1>2. CASE FinishRead
  <2>1. \A q \in Paths : /\ cursor[q] # None => cursor'[q].pending = cursor[q].pending
                         /\ cursor[q] = None => cursor'[q] = None
    BY <1>2 DEF FinishRead, TypeOK, Cursor
  <2>2. UNCHANGED <<seeds, cache, hist>>
    BY <1>2 DEF FinishRead
  <2> QED
    BY <2>1, <2>2 DEF WholeInv, SeedWhole
<1> QED
  BY <1>1, <1>2

\* At its end a poll has returned all it emitted; one that raises, nothing.
LEMMA WholeEnd == TypeOK /\ WholeInv /\ (EndPoll \/ Raise) => WholeInv'
<1> SUFFICES ASSUME TypeOK, WholeInv, EndPoll \/ Raise, NEW p \in Paths
             PROVE  /\ Lined(hist'[p])
                    /\ cursor'[p] # None => cursor[p] # None /\ cursor'[p] = cursor[p]
                    /\ UNCHANGED <<seeds, cache>>
  BY DEF WholeInv, SeedWhole
<1>1. hist[p] \in Hist /\ Lined(hist[p]) /\ Lined(NoHist)
  BY EmptyWhole DEF WholeInv, TypeOK
<1>2. CASE EndPoll
  <2> DEFINE h == [hist[p] EXCEPT !.sent = Len(hist[p].out)]
  <2>1. h.out = hist[p].out /\ h.sent = Len(hist[p].out) /\ hist[p].out \in Seq(Bytes)
    BY <1>1 DEF Hist
  <2>2. Len(hist[p].out) # 0 => hist[p].out # << >>
    BY <2>1, EmptySeq
  <2>3. Len(hist[p].out) <= Len(hist[p].out)
    BY <2>1, LenProperties
  <2> HIDE DEF h
  <2>4. Lined(h)
    BY <1>1, <2>1, <2>2, <2>3 DEF Lined, Ended
  <2>5. hist'[p] \in {NoHist, h} /\ cursor'[p] \in {None, cursor[p]}
    BY <1>2 DEF EndPoll, h
  <2> QED
    BY <1>1, <1>2, <2>4, <2>5 DEF EndPoll
<1>3. CASE Raise
  <2> DEFINE g == [hist[p] EXCEPT !.out = Take(@, hist[p].sent), !.flaws = @ \cup {"lost"}]
  <2>1. hist'[p] \in {g, hist[p]} /\ cursor' = cursor
    BY <1>3 DEF Raise
  <2>2. Lined(g)
    BY <1>1, CutLined
  <2> HIDE DEF g
  <2> QED
    BY <1>1, <1>3, <2>1, <2>2 DEF Raise
<1> QED
  BY <1>2, <1>3

LEMMA WholeStep == TypeOK /\ WholeInv /\ [Next]_vars => WholeInv'
<1> SUFFICES ASSUME TypeOK, WholeInv, [Next]_vars PROVE WholeInv'
  OBVIOUS
<1>1. ASSUME UNCHANGED <<cursor, seeds, cache, hist>> PROVE WholeInv'
  BY <1>1 DEF WholeInv, SeedWhole
<1>2. CASE Writers \/ Walk \/ Open \/ UNCHANGED vars
  BY <1>1, <1>2
  DEF Writers, Create, Write, Truncate, Unlink, EnvStep, Walk, Open, vars
<1>3. CASE Start
  BY <1>3 DEF Start, WholeInv, SeedWhole
<1>4. CASE Close
  BY <1>4, EmptyWhole DEF Close, Forget, CachedCursorOf, WholeInv, SeedWhole
<1>5. CASE Crash
  BY <1>5, EmptyWhole DEF Crash, Forget, WholeInv, SeedWhole
<1>6. CASE Stat
  <2> DEFINE p == Least(todo)
             i == name[p]
  <2>1. /\ p \in Paths /\ UNCHANGED cache
        /\ \/ UNCHANGED <<cursor, seeds, hist>>
           \/ i \in Inodes /\ Looks(p, Version(i))
    BY <1>6, StatLooks
  <2>2. i \in Inodes => Version(i) \in Inodes \X Nat
    BY DEF Version, TypeOK
  <2> HIDE DEF p, i
  <2> QED
    BY <1>1, <2>1, <2>2, WholeLook
<1>7. CASE Check
  BY <1>7, CheckLooks, WholeLook
<1> QED
  BY <1>2, <1>3, <1>4, <1>5, <1>6, <1>7, WholeRead, WholeEnd DEF Next, Poll

\* What is emitted for a path always ends with a complete line, and nothing
\* complete is held back, however the writers, the polls and the restarts
\* interleave, polls that raise included: no torn line is ever told.
THEOREM NoTornLines == Spec => []WholeLines
<1>1. WholeInv => WholeLines
  BY DEF WholeInv, Lined, Partial, WholeLines
<1> QED
  BY <1>1, WholeInit, WholeStep, TypeCorrect, PTL DEF Spec

---------------------------------------------------------------------------
(* Exactly once.  ExactPrefix speaks of a tracked path while no read, or    *)
(* the read in progress, is of it.  It is preserved because the same holds  *)
(* of every cached cursor, and because no history comes from a version of a *)
(* file later than the one on disk: a rewritten file is never mistaken for  *)
(* the version that was read.  Of a history that has lost events only the   *)
(* position is known.                                                      *)

Known(src) == \A i \in Inodes : src[1] = i => src[2] <= disk[i].ver

StandsFor(h, i, pending, n) ==
  /\ n <= Size(i)
  /\ "lost" \notin h.flaws => h.out \o pending = SubSeq(disk[i].data, 1, n)

Faithful(h, i, pending, n) ==
  /\ Known(h.src)
  /\ h.src = Version(i) => StandsFor(h, i, pending, n)

CursorFaithful(p) ==
  cursor[p] # None => Faithful(hist[p], cursor[p].ino, cursor[p].pending, Consumed(p))

SeedFaithful(seed) ==
  seed # None => Faithful(seed.hist, seed.ino, seed.pending, seed.offset)

\* What is in hand: the version that was statted, and the read in progress.
InHand ==
  /\ pc = "check" => Known(rd.at)
  /\ pc = "read" => cursor[rd.path].offset <= rd.pos

ExactInv ==
  /\ InHand
  /\ \A p \in Paths : CursorFaithful(p) /\ SeedFaithful(seeds[p]) /\ SeedFaithful(cache[p])

\* Appending to a file leaves its prefixes alone.
LEMMA PrefixOfAppend ==
  ASSUME NEW s \in Seq(Bytes), NEW b \in Bytes, NEW n \in 0 .. Len(s)
  PROVE  /\ n <= Len(Append(s, b))
         /\ SubSeq(Append(s, b), 1, n) = SubSeq(s, 1, n)
<1>0. Len(s) \in Nat /\ Len(Append(s, b)) = Len(s) + 1
  BY LenProperties, AppendProperties
<1>1. CASE n = 0
  <2>1. 0 < 1 /\ 0 \in Int /\ 1 \in Int
    OBVIOUS
  <2> QED
    BY <1>0, <1>1, <2>1, SubSeqEmpty
<1>2. CASE n # 0
  <2>1. Append(s, b) = s \o <<b>> /\ <<b>> \in Seq(Bytes)
    BY AppendIsConcat
  <2>2. n \in 1 .. Len(s) /\ 1 \in 1 .. Len(s)
    BY <1>0, <1>2
  <2> QED
    BY <1>0, <2>1, <2>2, SubSeqOfConcat1
<1> QED
  BY <1>1, <1>2

\* A writer either extends a file or makes it a new version.
LEMMA WritersExtend ==
  ASSUME TypeOK, Writers, NEW i \in Inodes
  PROVE  \/ disk'[i].ver = disk[i].ver + 1
         \/ /\ disk'[i].ver = disk[i].ver
            /\ \A n \in 0 .. Size(i) :
                 /\ n <= Len(disk'[i].data)
                 /\ SubSeq(disk'[i].data, 1, n) = SubSeq(disk[i].data, 1, n)
<1> USE DEF Size
<1>0. disk[i].data \in Seq(Bytes) /\ disk[i].ver \in Nat /\ Len(disk[i].data) \in Nat
  BY LenProperties DEF TypeOK
<1>1. ASSUME disk'[i] = disk[i]
      PROVE  /\ disk'[i].ver = disk[i].ver
             /\ \A n \in 0 .. Len(disk[i].data) :
                  /\ n <= Len(disk'[i].data)
                  /\ SubSeq(disk'[i].data, 1, n) = SubSeq(disk[i].data, 1, n)
  BY <1>0, <1>1
<1>2. PICK p \in Paths : \/ \E j \in Inodes : Create(p, j)
                         \/ \E b \in Bytes : Write(p, b)
                         \/ \E n \in 0 .. MaxLen : Truncate(p, n)
                         \/ Unlink(p)
  BY DEF Writers
<1>3. ASSUME NEW j \in Inodes, Create(p, j)
      PROVE  disk'[i] = disk[i] \/ disk'[i].ver = disk[i].ver + 1
  BY <1>3 DEF Create, Blank, TypeOK
<1>4. ASSUME NEW b \in Bytes, Write(p, b)
      PROVE  disk'[i] = disk[i] \/ disk'[i] = [disk[i] EXCEPT !.data = Append(@, b)]
  BY <1>4 DEF Write, TypeOK
<1>5. ASSUME NEW n \in 0 .. MaxLen, Truncate(p, n)
      PROVE  disk'[i] = disk[i] \/ disk'[i].ver = disk[i].ver + 1
  BY <1>5 DEF Truncate, TypeOK
<1>6. CASE Unlink(p)
  BY <1>1, <1>6 DEF Unlink
<1>7. ASSUME NEW b \in Bytes, disk'[i] = [disk[i] EXCEPT !.data = Append(@, b)]
      PROVE  /\ disk'[i].ver = disk[i].ver
             /\ \A n \in 0 .. Len(disk[i].data) :
                  /\ n <= Len(disk'[i].data)
                  /\ SubSeq(disk'[i].data, 1, n) = SubSeq(disk[i].data, 1, n)
  <2> DEFINE s == Append(disk[i].data, b)
  <2>1. disk[i] \in [data : Seq(Bytes), ver : Nat]
    BY DEF TypeOK
  <2>2. disk'[i].ver = disk[i].ver /\ disk'[i].data = s
    <3> HIDE DEF s
    <3>1. disk'[i] = [disk[i] EXCEPT !.data = s]
      BY <1>7 DEF s
    <3> QED
      BY <2>1, <3>1
  <2> QED
    BY <1>0, <2>2, PrefixOfAppend
<1> QED
  BY <1>1, <1>2, <1>3, <1>4, <1>5, <1>6, <1>7

\* What holds of a history stays true whatever the writers do.
LEMMA WritersKnown ==
  ASSUME TypeOK, Writers, NEW src \in Versioned, Known(src)
  PROVE  Known(src)'
<1> SUFFICES ASSUME NEW j \in Inodes, src[1] = j PROVE src[2] <= disk'[j].ver
  BY DEF Known
<1>1. src[2] <= disk[j].ver /\ disk[j].ver \in Nat /\ src[2] \in Nat
  BY DEF Known, TypeOK, Versioned
<1>2. disk'[j].ver = disk[j].ver \/ disk'[j].ver = disk[j].ver + 1
  BY WritersExtend
<1> QED
  BY <1>1, <1>2

LEMMA WritersFaithful ==
  ASSUME TypeOK, Writers, NEW h, h.src \in Versioned,
         NEW i \in Inodes, NEW pending, NEW n \in Nat, Faithful(h, i, pending, n)
  PROVE  Faithful(h, i, pending, n)'
<1>0. \A j \in Inodes : disk[j].ver \in Nat /\ Size(j) \in Nat
  BY LenProperties DEF TypeOK, Size
<1>1. Known(h.src)'
  <2>1. \A src \in Versioned : Known(src) => Known(src)'
    BY WritersKnown
  <2> QED
    BY <2>1 DEF Faithful, Known
<1>2. ASSUME h.src = <<i, disk'[i].ver>>
      PROVE  /\ n <= Len(disk'[i].data)
             /\ "lost" \notin h.flaws => h.out \o pending = SubSeq(disk'[i].data, 1, n)
  <2>1. disk'[i].ver <= disk[i].ver
    BY <1>2 DEF Faithful, Known
  <2>2. /\ disk'[i].ver = disk[i].ver
        /\ \A k \in 0 .. Size(i) :
             /\ k <= Len(disk'[i].data)
             /\ SubSeq(disk'[i].data, 1, k) = SubSeq(disk[i].data, 1, k)
    BY <1>0, <2>1, WritersExtend
  <2>3. /\ n <= Size(i)
        /\ "lost" \notin h.flaws => h.out \o pending = SubSeq(disk[i].data, 1, n)
    BY <1>2, <2>2 DEF Faithful, StandsFor, Version
  <2> QED
    BY <1>0, <2>2, <2>3
<1> QED
  BY <1>1, <1>2 DEF Faithful, StandsFor, Version, Size

\* Joining the version a read comes from to a history: the result is that of
\* one version only if it was that one before.
LEMMA JoinKnown ==
  ASSUME TypeOK, NEW src, NEW v, Known(v)
  PROVE  /\ Known(Join(src, v))
         /\ \A j \in Inodes : Join(src, v) = Version(j) => src = v /\ v = Version(j)
<1>1. Known(Mixed)
  BY NoneAssumption DEF Known, Mixed
<1>2. \A j \in Inodes : Mixed # Version(j)
  BY NoneAssumption DEF Mixed, Version
<1> QED
  BY <1>1, <1>2 DEF Join

LEMMA VersionKnown ==
  ASSUME TypeOK, NEW i \in Inodes
  PROVE  /\ Version(i) \in Inodes \X Nat /\ Known(Version(i))
         /\ \A j : Version(i) = Version(j) => i = j
<1>1. disk[i].ver \in Nat
  BY DEF TypeOK
<1> QED
  BY <1>1 DEF Known, Version

LEMMA ExactInit == Init => ExactInv
  BY DEF Init, ExactInv, InHand, CursorFaithful, SeedFaithful

\* The types the history of a tracked path, and a cached cursor, have.
LEMMA TrackedType ==
  ASSUME TypeOK, NEW p \in Paths
  PROVE  /\ hist[p].src \in Versioned
         /\ cursor[p] # None => cursor[p].ino \in Inodes /\ Consumed(p) \in Nat
         /\ \A seed \in {seeds[p], cache[p]} : seed # None =>
              /\ seed.ino \in Inodes /\ seed.offset \in Nat
              /\ seed.hist.src \in Versioned
  BY DEF TypeOK, Cursor, Hist, Seed, Consumed

LEMMA SeedWriters ==
  ASSUME TypeOK, Writers, NEW seed \in Seed \cup {None}, SeedFaithful(seed)
  PROVE  SeedFaithful(seed)'
<1>1. CASE seed = None
  BY <1>1 DEF SeedFaithful
<1>2. CASE seed # None
  <2>1. /\ seed.ino \in Inodes /\ seed.offset \in Nat
        /\ seed.hist.src \in Versioned
    BY <1>2 DEF Seed, Hist
  <2>2. Faithful(seed.hist, seed.ino, seed.pending, seed.offset)
    BY <1>2 DEF SeedFaithful
  <2>3. Faithful(seed.hist, seed.ino, seed.pending, seed.offset)'
    BY <2>1, <2>2, WritersFaithful
  <2> QED
    BY <2>3 DEF SeedFaithful
<1> QED
  BY <1>1, <1>2

LEMMA ExactWriters == TypeOK /\ ExactInv /\ Writers => ExactInv'
<1> SUFFICES ASSUME TypeOK, ExactInv, Writers PROVE ExactInv'
  OBVIOUS
<1>1. UNCHANGED <<cursor, seeds, cache, pc, rd, hist>>
  BY DEF Writers, Create, Write, Truncate, Unlink, EnvStep
<1>2. InHand'
  <2>1. ASSUME pc = "check" PROVE Known(rd.at)'
    <3>1. rd.at \in Versioned /\ Known(rd.at)
      BY <2>1 DEF ExactInv, InHand, TypeOK
    <3>2. \A src \in Versioned : Known(src) => Known(src)'
      BY WritersKnown
    <3>3. rd' = rd
      BY <1>1
    <3> QED
      BY <3>1, <3>2, <3>3 DEF Known
  <2> QED
    BY <1>1, <2>1 DEF ExactInv, InHand
<1>3. ASSUME NEW p \in Paths PROVE CursorFaithful(p)'
  <2> SUFFICES ASSUME cursor[p] # None
               PROVE  Faithful(hist[p], cursor[p].ino, cursor[p].pending, Consumed(p))'
    BY <1>1 DEF CursorFaithful
  <2>1. Faithful(hist[p], cursor[p].ino, cursor[p].pending, Consumed(p))
    BY DEF ExactInv, CursorFaithful
  <2> DEFINE h == hist[p]
             i == cursor[p].ino
             pending == cursor[p].pending
             n == Consumed(p)
  <2>2. h' = h /\ i' = i /\ pending' = pending /\ n' = n
    BY <1>1 DEF Consumed
  <2>3. h.src \in Versioned /\ i \in Inodes /\ n \in Nat
    BY TrackedType
  <2> QED
    BY <2>1, <2>2, <2>3, WritersFaithful
<1>4. ASSUME NEW p \in Paths PROVE SeedFaithful(seeds[p])' /\ SeedFaithful(cache[p])'
  <2>1. seeds' = seeds /\ cache' = cache
    BY <1>1
  <2>2. seeds[p] \in Seed \cup {None} /\ cache[p] \in Seed \cup {None}
    BY DEF TypeOK
  <2>3. SeedFaithful(seeds[p]) /\ SeedFaithful(cache[p])
    BY DEF ExactInv
  <2> QED
    BY <2>1, <2>2, <2>3, SeedWriters
<1> QED
  BY <1>2, <1>3, <1>4 DEF ExactInv

\* What a step that leaves the files alone has to show of a tracked path.
LEMMA NewFaithful ==
  ASSUME NEW p \in Paths, UNCHANGED disk,
         cursor'[p] # None =>
           Faithful(hist'[p], cursor'[p].ino, cursor'[p].pending, Consumed(p)')
  PROVE  CursorFaithful(p)'
  BY DEF CursorFaithful, Faithful, Known, StandsFor, Version, Size

\* Such a step keeps what holds of a path if it keeps its cursor, its history
\* and what it has consumed.
LEMMA KeptFaithful ==
  ASSUME NEW p \in Paths, CursorFaithful(p), UNCHANGED disk,
         cursor'[p] # None =>
           /\ cursor[p] # None
           /\ hist'[p].src = hist[p].src /\ hist'[p].out = hist[p].out
           /\ hist'[p].flaws = hist[p].flaws
           /\ cursor'[p].ino = cursor[p].ino /\ cursor'[p].pending = cursor[p].pending
           /\ Consumed(p)' = Consumed(p)
  PROVE  CursorFaithful(p)'
  BY NewFaithful DEF CursorFaithful, Faithful, StandsFor

LEMMA KeptSeed ==
  ASSUME NEW seed, SeedFaithful(seed), UNCHANGED disk
  PROVE  SeedFaithful(seed)'
  BY DEF SeedFaithful, Faithful, Known, StandsFor, Version, Size

\* A fresh cursor has told nothing of the version it is about to read.
LEMMA FreshFaithful ==
  ASSUME TypeOK, NEW v \in Inodes \X Nat, Known(v), NEW flaws
  PROVE  Faithful(NewHist(v, flaws), v[1], << >>, 0)
<1>1. v[1] \in Inodes /\ disk[v[1]].data \in Seq(Bytes)
  BY DEF TypeOK
<1>2. Len(disk[v[1]].data) \in Nat
  BY <1>1, LenProperties
<1>3. SubSeq(disk[v[1]].data, 1, 0) = << >>
  BY SubSeqEmpty
<1>4. << >> \o << >> = << >>
  BY EmptySeq, ConcatEmptySeq
<1> QED
  BY <1>2, <1>3, <1>4 DEF Faithful, StandsFor, Size, NewHist

\* Looking at a path, at its stat or after its seed was consulted.
LEMMA ExactLook ==
  ASSUME TypeOK, ExactInv, NEW p \in Paths, NEW v \in Inodes \X Nat, Known(v),
         Looks(p, v), NEW n, ReadUpTo(p, n), pc \in {"stat", "check"},
         UNCHANGED <<disk, cache>>
  PROVE  ExactInv'
<1>1. pc' \in {"stat", "open"}
  BY DEF ReadUpTo
<1>2. /\ \A q \in Paths : Consumed(q) = cursor[q].offset /\ Consumed(q)' = cursor'[q].offset
      /\ InHand'
  BY <1>1 DEF Consumed, InHand
<1>3. \A q \in Paths \ {p} : /\ cursor'[q] = cursor[q]
                            /\ hist'[q] = hist[q]
                            /\ seeds'[q] = seeds[q]
  BY LookShape
<1>4. seeds'[p] \in {seeds[p], None}
  BY LookShape
<1>5. CursorFaithful(p)'
  <2>1. CASE /\ seeds[p] \in Seed
             /\ cursor'[p] = ResumedCursor(seeds[p])
             /\ hist'[p].out = seeds[p].hist.out
             /\ hist'[p].src = Join(seeds[p].hist.src, v)
             /\ hist'[p].flaws = seeds[p].hist.flaws \ {"refused"}
    <3> DEFINE seed == seeds[p]
    <3>1. Faithful(seed.hist, seed.ino, seed.pending, seed.offset) /\ seed.ino \in Inodes
      BY <2>1, NoneAssumption DEF ExactInv, SeedFaithful, Seed
    <3>2. /\ cursor'[p].ino = seed.ino /\ cursor'[p].pending = seed.pending
          /\ cursor'[p].offset = seed.offset
      BY <2>1 DEF ResumedCursor
    <3>3. /\ Known(hist'[p].src)
          /\ hist'[p].src = Version(seed.ino) => seed.hist.src = Version(seed.ino)
      <4>1. /\ Known(Join(seed.hist.src, v))
            /\ \A j \in Inodes : Join(seed.hist.src, v) = Version(j)
                  => seed.hist.src = v /\ v = Version(j)
        BY JoinKnown
      <4> QED
        BY <2>1, <3>1, <4>1
    <3>4. "lost" \in hist'[p].flaws <=> "lost" \in seed.hist.flaws
      BY <2>1
    <3> HIDE DEF seed
    <3>5. Faithful(hist'[p], seed.ino, seed.pending, seed.offset)
      BY <2>1, <3>1, <3>3, <3>4 DEF Faithful, StandsFor, seed
    <3> QED
      BY <1>2, <3>2, <3>5, NewFaithful
  <2>2. CASE /\ cursor'[p] = FreshCursor(v[1])
             /\ \E flaws : hist'[p] = NewHist(v, flaws)
    <3>1. /\ cursor'[p].ino = v[1] /\ cursor'[p].pending = << >>
          /\ cursor'[p].offset = 0
      BY <2>2 DEF FreshCursor
    <3>2. Faithful(hist'[p], v[1], << >>, 0)
      BY <2>2, FreshFaithful
    <3> QED
      BY <1>2, <3>1, <3>2, NewFaithful
  <2>3. CASE /\ cursor[p] # None /\ UNCHANGED cursor
             /\ hist'[p].out = hist[p].out /\ hist'[p].flaws = hist[p].flaws
             /\ hist'[p].src \in {hist[p].src, Join(hist[p].src, v)}
    <3>1. Faithful(hist[p], cursor[p].ino, cursor[p].pending, cursor[p].offset)
      BY <1>2, <2>3 DEF ExactInv, CursorFaithful
    <3>2. cursor[p].ino \in Inodes
      BY <2>3, TrackedType
    <3>3. /\ Known(hist'[p].src)
          /\ hist'[p].src = Version(cursor[p].ino) => hist[p].src = Version(cursor[p].ino)
      <4>1. /\ Known(Join(hist[p].src, v)) /\ Known(hist[p].src)
            /\ \A j \in Inodes : Join(hist[p].src, v) = Version(j)
                  => hist[p].src = v /\ v = Version(j)
        BY <3>1, JoinKnown DEF Faithful
      <4> QED
        BY <2>3, <3>2, <4>1
    <3>4. Faithful(hist'[p], cursor[p].ino, cursor[p].pending, cursor[p].offset)
      BY <2>3, <3>1, <3>3 DEF Faithful, StandsFor
    <3> QED
      BY <1>2, <2>3, <3>4, NewFaithful
  <2> QED
    BY <2>1, <2>2, <2>3, LookShape
<1>6. \A q \in Paths \ {p} : CursorFaithful(q)'
  BY <1>2, <1>3, KeptFaithful DEF ExactInv
<1>7. \A q \in Paths : SeedFaithful(seeds[q])' /\ SeedFaithful(cache[q])'
  <2>1. SeedFaithful(None)'
    BY DEF SeedFaithful
  <2>2. \A q \in Paths : SeedFaithful(seeds[q]) /\ SeedFaithful(cache[q])
    BY DEF ExactInv
  <2>3. ASSUME NEW q \in Paths PROVE SeedFaithful(seeds[q])'
    <3>1. CASE seeds'[q] = seeds[q]
      BY <2>2, <3>1, KeptSeed
    <3>2. CASE seeds'[q] = None
      BY <2>1, <3>2
    <3> QED
      BY <1>3, <1>4, <3>1, <3>2
  <2> QED
    BY <2>2, <2>3, KeptSeed
<1> QED
  BY <1>2, <1>5, <1>6, <1>7 DEF ExactInv

LEMMA ExactStat == TypeOK /\ ExactInv /\ (Stat \/ Check) => ExactInv'
<1> SUFFICES ASSUME TypeOK, ExactInv, Stat \/ Check PROVE ExactInv'
  OBVIOUS
<1>1. CASE Stat
  <2> DEFINE p == Least(todo)
             i == name[p]
  <2>1. /\ p \in Paths /\ pc = "stat" /\ UNCHANGED <<disk, cache>>
        /\ \/ UNCHANGED <<cursor, seeds, hist, rd, pc>>
           \/ /\ i \in Inodes /\ pc' = "check"
              /\ rd' = [NoRead EXCEPT !.path = p, !.at = Version(i), !.want = Size(i)]
              /\ UNCHANGED <<cursor, seeds, hist>>
           \/ i \in Inodes /\ Looks(p, Version(i)) /\ ReadUpTo(p, Size(i))
    BY <1>1, StatLooks
  <2> HIDE DEF p, i
  <2>2. ASSUME UNCHANGED <<cursor, seeds, hist>>, InHand', pc' \in {"stat", "check"}
        PROVE  ExactInv'
    <3>1. \A q \in Paths : Consumed(q)' = Consumed(q)
      BY <2>1, <2>2 DEF Consumed
    <3>2. \A q \in Paths : CursorFaithful(q)' /\ SeedFaithful(seeds[q])' /\ SeedFaithful(cache[q])'
      BY <2>1, <2>2, <3>1, KeptFaithful, KeptSeed DEF ExactInv
    <3> QED
      BY <2>2, <3>2 DEF ExactInv
  <2>3. CASE UNCHANGED <<cursor, seeds, hist, rd, pc>>
    BY <2>1, <2>2, <2>3 DEF InHand
  <2>4. CASE /\ i \in Inodes /\ pc' = "check"
             /\ rd' = [NoRead EXCEPT !.path = p, !.at = Version(i), !.want = Size(i)]
             /\ UNCHANGED <<cursor, seeds, hist>>
    <3>1. rd'.at = Version(i) /\ Known(Version(i))
      BY <2>4, VersionKnown DEF NoRead
    <3>2. Known(rd'.at)
      BY <3>1
    <3> QED
      BY <2>1, <2>2, <2>4, <3>2 DEF InHand, Known
  <2>5. CASE i \in Inodes /\ Looks(p, Version(i)) /\ ReadUpTo(p, Size(i))
    BY <2>1, <2>5, VersionKnown, ExactLook
  <2> QED
    BY <2>1, <2>3, <2>4, <2>5
<1>2. CASE Check
  <2>1. Known(rd.at)
    BY <1>2 DEF Check, ExactInv, InHand
  <2> QED
    BY <1>2, <2>1, CheckLooks, ExactLook
<1> QED
  BY <1>1, <1>2

LEMMA Associative ==
  ASSUME NEW a \in Seq(Bytes), NEW b \in Seq(Bytes), NEW c \in Seq(Bytes)
  PROVE  (a \o b) \o c = a \o (b \o c)
<1>1. a \o b \in Seq(Bytes) /\ b \o c \in Seq(Bytes)
  BY ConcatProperties
<1> DEFINE l == (a \o b) \o c
           r == a \o (b \o c)
<1>2. l \in Seq(Bytes) /\ r \in Seq(Bytes)
  BY <1>1, ConcatProperties
<1>3. Len(a) \in Nat /\ Len(b) \in Nat /\ Len(c) \in Nat
  BY LenProperties
<1>4. Len(l) = Len(a) + Len(b) + Len(c) /\ Len(r) = Len(a) + Len(b) + Len(c)
  BY <1>1, <1>3, ConcatProperties
<1>5. \A i \in 1 .. Len(l) : l[i] = r[i]
  BY <1>1, <1>3, <1>4, ConcatProperties
<1> QED
  BY <1>2, <1>4, <1>5, SeqEqual

\* Two cut parts make the whole again.
LEMMA CutJoins ==
  ASSUME NEW buf \in Seq(Bytes), NEW n \in 0 .. Len(buf)
  PROVE  /\ SubSeq(buf, 1, n) \in Seq(Bytes)
         /\ SubSeq(buf, n + 1, Len(buf)) \in Seq(Bytes)
         /\ SubSeq(buf, 1, n) \o SubSeq(buf, n + 1, Len(buf)) = buf
<1>1. Len(buf) \in Nat /\ n \in Nat
  BY LenProperties
<1>2. SubSeq(buf, 1, n) \in Seq(Bytes) /\ SubSeq(buf, n + 1, Len(buf)) \in Seq(Bytes)
  BY <1>1, PartOfBytes
<1>3. 1 \in 1 .. Len(buf) + 1 /\ n \in 1 - 1 .. Len(buf) /\ Len(buf) \in n .. Len(buf)
  BY <1>1
<1>4. SubSeq(buf, 1, n) \o SubSeq(buf, n + 1, Len(buf)) = SubSeq(buf, 1, Len(buf))
  BY <1>3, ConcatAdjacentSubSeq
<1> QED
  BY <1>2, <1>4, SubSeqFull

\* A prefix and the bytes after it make a longer prefix.
LEMMA PrefixGrows ==
  ASSUME NEW data \in Seq(Bytes), NEW pos \in Nat, NEW k \in Nat, pos + k <= Len(data)
  PROVE  SubSeq(data, 1, pos) \o SubSeq(data, pos + 1, pos + k) = SubSeq(data, 1, pos + k)
<1>1. Len(data) \in Nat
  BY LenProperties
<1>2. 1 \in 1 .. Len(data) + 1 /\ pos \in 1 - 1 .. Len(data) /\ pos + k \in pos .. Len(data)
  BY <1>1
<1> QED
  BY <1>2, ConcatAdjacentSubSeq

LEMMA ExactReadChunk ==
  ASSUME TypeOK, ExactInv, ReadChunk, NEW p \in Paths, p = rd.path, NEW h, h = rd.handle
  PROVE  ExactInv'
<1>1. /\ pc = "read" /\ h \in Inodes
      /\ UNCHANGED <<disk, seeds, cache, pc>>
      /\ rd'.path = p /\ rd'.pos = rd.pos + Len(Chunk)
  <2>1. /\ pc = "read" /\ UNCHANGED <<disk, seeds, cache, pc>>
        /\ rd' = [rd EXCEPT !.pos = @ + Len(Chunk)]
    BY DEF ReadChunk
  <2>2. rd'.path = p /\ rd'.pos = rd.pos + Len(Chunk)
    BY <2>1 DEF TypeOK
  <2> QED
    BY <2>1, <2>2 DEF TypeOK
<1>2. /\ cursor[p] \in Cursor /\ hist[p] \in Hist /\ rd.pos \in Nat
      /\ Chunk \in Seq(Bytes) /\ Chunk # << >>
      /\ rd.pos + Len(Chunk) <= Size(h)
      /\ Chunk = SubSeq(disk[h].data, rd.pos + 1, rd.pos + Len(Chunk))
  BY <1>1, ChunkType DEF ReadChunk, TypeOK
<1>3. Buffer \in Seq(Bytes) /\ Buffer = cursor[p].pending \o Chunk
  BY <1>2, ConcatProperties DEF Buffer, Cursor
<1>4. PICK n \in 0 .. Len(Buffer) :
        /\ cursor' = [cursor EXCEPT ![p].pending = SubSeq(Buffer, n + 1, Len(Buffer))]
        /\ hist' = [hist EXCEPT ![p].out = @ \o SubSeq(Buffer, 1, n),
                                ![p].src = Join(@, Version(h))]
  BY DEF ReadChunk
<1>5. /\ cursor'[p].ino = cursor[p].ino
      /\ cursor'[p].pending = SubSeq(Buffer, n + 1, Len(Buffer))
      /\ hist'[p].out = hist[p].out \o SubSeq(Buffer, 1, n)
      /\ hist'[p].src = Join(hist[p].src, Version(h))
      /\ hist'[p].flaws = hist[p].flaws
      /\ cursor'[p].offset = cursor[p].offset
  BY <1>2, <1>4 DEF TypeOK, Cursor, Hist
<1>6. \A q \in Paths \ {p} : cursor'[q] = cursor[q] /\ hist'[q] = hist[q]
  BY <1>4 DEF TypeOK
<1>7. CursorFaithful(p)'
  <2>1. /\ Consumed(p) = rd.pos /\ Consumed(p)' = rd.pos + Len(Chunk)
    BY <1>1 DEF Consumed
  <2>2. Faithful(hist[p], cursor[p].ino, cursor[p].pending, rd.pos)
    BY <1>2, <2>1, NoneAssumption DEF ExactInv, CursorFaithful
  <2>3. ASSUME hist'[p].src = Version(cursor[p].ino)
        PROVE  StandsFor(hist'[p], cursor[p].ino, cursor'[p].pending, rd.pos + Len(Chunk))
    <3>1. hist[p].src = Version(h) /\ cursor[p].ino = h
      <4>1. Join(hist[p].src, Version(h)) = Version(cursor[p].ino)
        BY <1>5, <2>3
      <4>2. cursor[p].ino \in Inodes
        BY <1>2 DEF Cursor
      <4>3. h \in Inodes
        BY <1>1
      <4>4. \A j \in Inodes : Join(hist[p].src, Version(h)) = Version(j)
              => hist[p].src = Version(h) /\ h = j
        <5>1. \A j \in Inodes : Join(hist[p].src, Version(h)) = Version(j)
                => hist[p].src = Version(h) /\ Version(h) = Version(j)
          BY <4>3, VersionKnown, JoinKnown
        <5> QED
          BY <4>3, <5>1, VersionKnown
      <4> QED
        BY <4>1, <4>2, <4>4, Zenon
    <3> SUFFICES ASSUME "lost" \notin hist[p].flaws
                 PROVE  hist'[p].out \o cursor'[p].pending
                          = SubSeq(disk[h].data, 1, rd.pos + Len(Chunk))
      BY <1>2, <1>5, <3>1 DEF StandsFor
    <3>2. hist[p].out \o cursor[p].pending = SubSeq(disk[h].data, 1, rd.pos)
      BY <2>2, <3>1 DEF Faithful, StandsFor
    <3>3. /\ hist[p].out \in Seq(Bytes) /\ cursor[p].pending \in Seq(Bytes)
          /\ disk[h].data \in Seq(Bytes)
      BY <1>1, <1>2 DEF Cursor, Hist, TypeOK
    <3>4. hist'[p].out \o cursor'[p].pending = SubSeq(disk[h].data, 1, rd.pos + Len(Chunk))
      <4> DEFINE data == disk[h].data
                 chunk == Chunk
                 out == hist[p].out
                 pending == cursor[p].pending
                 pos == rd.pos
                 buf == Buffer
      <4>1. /\ out \in Seq(Bytes) /\ pending \in Seq(Bytes) /\ chunk \in Seq(Bytes)
            /\ data \in Seq(Bytes) /\ pos \in Nat
        BY <1>2, <3>3
      <4>2. /\ chunk # << >> /\ pos + Len(chunk) <= Len(data)
            /\ chunk = SubSeq(data, pos + 1, pos + Len(chunk))
        BY <1>2 DEF Size
      <4>3. out \o pending = SubSeq(data, 1, pos)
        BY <3>2
      <4>4. buf = pending \o chunk /\ n \in 0 .. Len(buf)
        BY <1>3
      <4>5. hist'[p].out = out \o SubSeq(buf, 1, n)
        BY <1>5
      <4>6. cursor'[p].pending = SubSeq(buf, n + 1, Len(buf))
        BY <1>5
      <4>7. (out \o SubSeq(buf, 1, n)) \o SubSeq(buf, n + 1, Len(buf))
              = SubSeq(data, 1, pos + Len(chunk))
        <5> DEFINE head == SubSeq(buf, 1, n)
                   tail == SubSeq(buf, n + 1, Len(buf))
        <5> HIDE DEF data, chunk, out, pending, pos, buf
        <5>1. buf \in Seq(Bytes) /\ Len(chunk) \in Nat
          BY <4>1, <4>4, ConcatProperties, LenProperties
        <5>2. head \in Seq(Bytes) /\ tail \in Seq(Bytes) /\ head \o tail = buf
          BY <4>4, <5>1, CutJoins
        <5> HIDE DEF head, tail
        <5>3. (out \o head) \o tail = out \o (head \o tail)
          <6>1. out \in Seq(Bytes)
            BY <4>1
          <6> QED
            BY <5>2, <6>1, Associative, Zenon
        <5>4. (out \o pending) \o chunk = out \o (pending \o chunk)
          <6>1. out \in Seq(Bytes) /\ pending \in Seq(Bytes) /\ chunk \in Seq(Bytes)
            BY <4>1
          <6> QED
            BY ONLY <6>1, Associative, Zenon
        <5>5. SubSeq(data, 1, pos) \o SubSeq(data, pos + 1, pos + Len(chunk))
                = SubSeq(data, 1, pos + Len(chunk))
          BY <4>1, <4>2, <5>1, PrefixGrows
        <5>6. (out \o head) \o tail = SubSeq(data, 1, pos + Len(chunk))
          BY <4>2, <4>3, <4>4, <5>2, <5>3, <5>4, <5>5, Zenon
        <5> QED
          BY <5>6 DEF head, tail
      <4> HIDE DEF out, buf
      <4> QED
        BY <4>5, <4>6, <4>7
    <3> QED
      BY <3>4
  <2>4. Known(hist'[p].src)
    BY <1>1, <1>5, VersionKnown, JoinKnown
  <2> QED
    BY <1>1, <1>5, <2>1, <2>3, <2>4, NewFaithful DEF Faithful
<1>8. \A q \in Paths \ {p} : CursorFaithful(q)'
  <2>1. \A q \in Paths \ {p} : Consumed(q)' = Consumed(q)
    BY <1>1, <1>6 DEF Consumed
  <2> QED
    BY <1>1, <1>6, <2>1, KeptFaithful DEF ExactInv
<1>9. \A q \in Paths : SeedFaithful(seeds[q])' /\ SeedFaithful(cache[q])'
  BY <1>1, KeptSeed DEF ExactInv
<1>10. InHand'
  <2>1. cursor[p].offset <= rd.pos /\ cursor[p].offset \in Nat /\ Len(Chunk) \in Nat
    BY <1>1, <1>2, LenProperties DEF ExactInv, InHand, Cursor
  <2> QED
    BY <1>1, <1>2, <1>5, <2>1 DEF InHand
<1> QED
  BY <1>7, <1>8, <1>9, <1>10 DEF ExactInv

\* The other steps of a poll tell nothing.
LEMMA ExactQuiet ==
  TypeOK /\ ExactInv /\ (Walk \/ Open \/ FinishRead \/ EndPoll \/ UNCHANGED vars)
    => ExactInv'
<1>0. ASSUME TypeOK, ExactInv, Walk \/ Open \/ FinishRead \/ EndPoll \/ UNCHANGED vars
      PROVE  InHand'
  <2>1. CASE Walk \/ FinishRead \/ EndPoll
    BY <2>1 DEF Walk, FinishRead, EndPoll, InHand
  <2>2. CASE Open
    <3>1. rd.path \in Paths /\ cursor[rd.path].offset \in Nat
      BY <1>0, <2>2 DEF Open, TypeOK, Cursor
    <3>2. /\ cursor' = cursor /\ pc' \in {"stat", "read"}
          /\ pc' = "read" => rd'.path = rd.path /\ rd'.pos = cursor[rd.path].offset
      BY <1>0, <2>2 DEF Open, TypeOK
    <3> QED
      BY <3>1, <3>2 DEF InHand
  <2>3. CASE UNCHANGED vars
    BY <1>0, <2>3 DEF vars, ExactInv, InHand, Known
  <2> QED
    BY <1>0, <2>1, <2>2, <2>3
<1> SUFFICES ASSUME TypeOK, ExactInv,
                    Walk \/ Open \/ FinishRead \/ EndPoll \/ UNCHANGED vars,
                    NEW q \in Paths
             PROVE  (CursorFaithful(q) /\ SeedFaithful(seeds[q]) /\ SeedFaithful(cache[q]))'
  BY <1>0 DEF ExactInv
<1>1. UNCHANGED <<disk, seeds, cache>>
  BY DEF Walk, Open, FinishRead, EndPoll, vars
<1>2. cursor'[q] # None =>
        /\ cursor[q] # None
        /\ hist'[q].src = hist[q].src /\ hist'[q].out = hist[q].out
        /\ hist'[q].flaws = hist[q].flaws
        /\ cursor'[q].ino = cursor[q].ino /\ cursor'[q].pending = cursor[q].pending
        /\ Consumed(q)' = Consumed(q)
  <2>1. CASE Walk
    BY <2>1 DEF Walk, Consumed
  <2>2. CASE Open
    BY <2>2 DEF Open, Consumed, NoRead, TypeOK
  <2>3. CASE FinishRead
    <3>1. /\ pc = "read" /\ pc' = "stat" /\ hist' = hist
          /\ rd.path \in Paths /\ cursor[rd.path] \in Cursor
          /\ cursor' = [cursor EXCEPT ![rd.path].offset = rd.pos,
                                      ![rd.path].size = rd.want]
      BY <2>3 DEF FinishRead, TypeOK
    <3>2. /\ cursor'[rd.path].offset = rd.pos
          /\ cursor'[rd.path].ino = cursor[rd.path].ino
          /\ cursor'[rd.path].pending = cursor[rd.path].pending
          /\ cursor[rd.path] # None
          /\ q # rd.path => cursor'[q] = cursor[q]
      BY <3>1, NoneAssumption DEF TypeOK, Cursor
    <3>3. CASE q = rd.path
      <4>1. Consumed(q) = rd.pos /\ Consumed(q)' = cursor'[q].offset
        BY <3>1, <3>3 DEF Consumed
      <4> QED
        BY <3>1, <3>2, <3>3, <4>1
    <3>4. CASE q # rd.path
      <4>1. Consumed(q) = cursor[q].offset /\ Consumed(q)' = cursor'[q].offset
        BY <3>1, <3>4 DEF Consumed
      <4> QED
        BY <3>1, <3>2, <3>4, <4>1
    <3> QED
      BY <3>3, <3>4
  <2>4. CASE EndPoll
    <3>1. cursor'[q] # None => q \notin Deleted
      BY <2>4 DEF EndPoll
    <3>2. q \notin Deleted =>
            cursor'[q] = cursor[q] /\ hist'[q] = [hist[q] EXCEPT !.sent = Len(hist[q].out)]
      BY <2>4 DEF EndPoll
    <3>3. hist[q] \in Hist
      BY DEF TypeOK
    <3>4. q \notin Deleted =>
            /\ hist'[q].src = hist[q].src /\ hist'[q].out = hist[q].out
            /\ hist'[q].flaws = hist[q].flaws
      BY <3>2, <3>3 DEF Hist
    <3> QED
      BY <2>4, <3>1, <3>2, <3>4 DEF EndPoll, Consumed
  <2>5. CASE UNCHANGED vars
    BY <2>5 DEF vars, Consumed
  <2> QED
    BY <2>1, <2>2, <2>3, <2>4, <2>5
<1>3. CursorFaithful(q)'
  BY <1>1, <1>2, KeptFaithful DEF ExactInv
<1> QED
  BY <1>1, <1>3, KeptSeed DEF ExactInv

\* A poll that raises flags the histories whose events are lost; of those only
\* the position stays known.
LEMMA ExactRaise == TypeOK /\ WholeInv /\ ExactInv /\ Raise => ExactInv'
<1> SUFFICES ASSUME TypeOK, WholeInv, ExactInv, Raise PROVE ExactInv'
  OBVIOUS
<1>1. UNCHANGED <<disk, cursor, seeds, cache>> /\ pc' = "raised"
  BY DEF Raise
<1>2. InHand'
  BY <1>1 DEF InHand
<1>3. ASSUME NEW p \in Paths, cursor[p] # None PROVE CursorFaithful(p)'
  <2>1. /\ Faithful(hist[p], cursor[p].ino, cursor[p].pending, Consumed(p))
        /\ cursor[p].ino \in Inodes /\ cursor[p].offset \in Nat /\ Consumed(p) \in Nat
        /\ cursor[p].offset <= Consumed(p)
        /\ Size(cursor[p].ino) \in Nat
    <3>1. /\ cursor[p].ino \in Inodes /\ Consumed(p) \in Nat /\ cursor[p].offset \in Nat
      BY <1>3, TrackedType DEF TypeOK, Cursor
    <3>2. cursor[p].offset <= Consumed(p)
      BY <3>1 DEF Consumed, ExactInv, InHand
    <3> QED
      BY <1>3, <3>1, <3>2, LenProperties DEF ExactInv, CursorFaithful, TypeOK, Size
  <2>2. Consumed(p)' = cursor[p].offset
    BY <1>1 DEF Consumed
  <2>3. CASE Undelivered(p)
    <3>1. hist'[p] = [hist[p] EXCEPT !.out = Take(@, hist[p].sent), !.flaws = @ \cup {"lost"}]
      BY <2>3 DEF Raise
    <3>2. /\ hist[p] \in Hist /\ Lined(hist[p])
      BY DEF TypeOK, WholeInv
    <3>3. hist'[p].src = hist[p].src /\ "lost" \in hist'[p].flaws
      BY <3>1, <3>2, CutLined
    <3>4. Faithful(hist'[p], cursor[p].ino, cursor[p].pending, cursor[p].offset)
      <4>1. hist[p].src = Version(cursor[p].ino) => cursor[p].offset <= Size(cursor[p].ino)
        <5>1. hist[p].src = Version(cursor[p].ino) => Consumed(p) <= Size(cursor[p].ino)
          BY <2>1 DEF Faithful, StandsFor
        <5> QED
          BY <2>1, <5>1
      <4>2. Known(hist'[p].src)
        BY <2>1, <3>3 DEF Faithful
      <4> QED
        BY <3>3, <4>1, <4>2 DEF Faithful, StandsFor
    <3> QED
      BY <1>1, <2>2, <3>4, NewFaithful
  <2>4. CASE ~ Undelivered(p)
    <3>1. hist'[p] = hist[p] /\ Consumed(p) = cursor[p].offset
      BY <2>4 DEF Raise, Undelivered, Consumed
    <3> QED
      BY <1>1, <2>1, <2>2, <3>1, NewFaithful
  <2> QED
    BY <2>3, <2>4
<1>4. ASSUME NEW p \in Paths, cursor[p] = None PROVE CursorFaithful(p)'
  BY <1>1, <1>4 DEF CursorFaithful
<1>5. \A p \in Paths : SeedFaithful(seeds[p])' /\ SeedFaithful(cache[p])'
  BY <1>1, KeptSeed DEF ExactInv
<1> QED
  BY <1>2, <1>3, <1>4, <1>5 DEF ExactInv

LEMMA ExactStartStop == TypeOK /\ ExactInv /\ (Start \/ Close \/ Crash) => ExactInv'
<1>0. Start \/ Close \/ Crash => InHand'
  BY DEF Start, Close, Crash, Forget, InHand
<1> SUFFICES ASSUME TypeOK, ExactInv, Start \/ Close \/ Crash, NEW q \in Paths
             PROVE  (CursorFaithful(q) /\ SeedFaithful(seeds[q]) /\ SeedFaithful(cache[q]))'
  BY <1>0 DEF ExactInv
<1>1. UNCHANGED disk
  BY DEF Start, Close, Crash, env
<1>2. SeedFaithful(seeds[q]) /\ SeedFaithful(cache[q]) /\ CursorFaithful(q)
  BY DEF ExactInv
<1>3. SeedFaithful(None)
  BY DEF SeedFaithful
<1>4. CursorFaithful(q)'
  <2>1. CASE Start
    BY <1>1, <1>2, <2>1, KeptFaithful DEF Start, Consumed
  <2>2. CASE Close \/ Crash
    BY <1>1, <2>2, NewFaithful DEF Close, Crash, Forget
  <2> QED
    BY <2>1, <2>2
<1>5. SeedFaithful(seeds'[q]) /\ SeedFaithful(cache'[q])
  <2>1. CASE Start
    BY <1>2, <2>1 DEF Start
  <2>2. CASE Crash
    BY <1>2, <1>3, <2>2 DEF Crash, Forget
  <2>3. CASE Close
    <3>1. seeds'[q] = None
      BY <2>3 DEF Close, Forget
    <3>2. CASE cursor[q] = None \/ name[q] = None
      BY <1>3, <2>3, <3>1, <3>2 DEF Close
    <3>3. CASE cursor[q] # None /\ name[q] # None
      <4>1. PICK readable : cache'[q] = CachedCursorOf(q, readable)
        BY <2>3, <3>3 DEF Close
      <4>2. Consumed(q) = cursor[q].offset
        BY <2>3 DEF Close, Consumed
      <4>3. SeedFaithful(CachedCursorOf(q, readable))
        BY <1>2, <3>3, <4>2 DEF CursorFaithful, SeedFaithful, CachedCursorOf
      <4> QED
        BY <1>3, <3>1, <4>1, <4>3
    <3> QED
      BY <3>2, <3>3
  <2> QED
    BY <2>1, <2>2, <2>3
<1>6. SeedFaithful(seeds[q])' /\ SeedFaithful(cache[q])'
  <2>1. \A seed : SeedFaithful(seed) => (SeedFaithful(seed))'
    BY <1>1, KeptSeed
  <2> QED
    BY <1>5, <2>1
<1> QED
  BY <1>4, <1>6

LEMMA ExactStep == TypeOK /\ WholeInv /\ ExactInv /\ [Next]_vars => ExactInv'
<1> SUFFICES ASSUME TypeOK, WholeInv, ExactInv, [Next]_vars PROVE ExactInv'
  OBVIOUS
<1>1. CASE ReadChunk
  <2>1. rd.path \in Paths
    BY <1>1 DEF ReadChunk, TypeOK
  <2> QED
    BY <1>1, <2>1, ExactReadChunk
<1> QED
  BY <1>1, ExactWriters, ExactStartStop, ExactStat, ExactQuiet, ExactRaise DEF Next, Poll

\* Exactly once, for any number of files, writers, polls, crashes and restarts,
\* any chunk size and any resume fingerprint: what has been told of a file that
\* was only appended to, and what is pending, is the file up to the offset. The
\* exception are the files of which a poll that raised had read: what it read is
\* told to nobody (NothingSkipped).
THEOREM ToldExactlyOnce == Spec => []ExactPrefix
<1>1. ExactInv => ExactPrefix
  <2> SUFFICES ASSUME ExactInv, NEW p \in Paths, Clean(p), "lost" \notin hist[p].flaws
               PROVE  Exact(p)
    BY DEF ExactPrefix
  <2>1. cursor[p] # None /\ CursorFaithful(p)
    BY DEF ExactInv, Clean
  <2> QED
    BY <2>1 DEF CursorFaithful, Faithful, StandsFor, Exact, Clean
<1> QED
  BY <1>1, WholeInit, WholeStep, ExactInit, ExactStep, TypeCorrect, PTL DEF Spec

---------------------------------------------------------------------------
(* The watcher implements the Source protocol of SessionFeed: every step is *)
(* one of the protocol, or tells nothing.  A poll that raises is the end of *)
(* the feed: nothing is heard of any path after it.                        *)

Told == [p \in Paths |-> IF p \in Heard THEN hist[p].out ELSE << >>]

\* A read in progress changes the cursor and the history of its path only.
LEMMA ReadKeeps ==
  ASSUME TypeOK, ReadChunk \/ FinishRead
  PROVE  /\ rd.path \in Paths /\ cursor[rd.path] \in Cursor /\ cursor[rd.path] # None
         /\ cursor'[rd.path] # None /\ cursor'[rd.path].ino = cursor[rd.path].ino
         /\ \A q \in Paths \ {rd.path} : cursor'[q] = cursor[q] /\ hist'[q] = hist[q]
<1> DEFINE p == rd.path
<1>1. p \in Paths /\ cursor[p] \in Cursor /\ cursor[p] # None
  BY DEF ReadChunk, FinishRead, TypeOK
<1>2. CASE ReadChunk
  <2>1. PICK n \in 0 .. Len(Buffer) :
          /\ cursor' = [cursor EXCEPT ![p].pending = SubSeq(Buffer, n + 1, Len(Buffer))]
          /\ hist' = [hist EXCEPT ![p].out = @ \o SubSeq(Buffer, 1, n),
                                  ![p].src = Join(@, Version(rd.handle))]
    BY <1>2 DEF ReadChunk
  <2>2. /\ cursor'[p].ino = cursor[p].ino
        /\ \A q \in Paths \ {p} : cursor'[q] = cursor[q] /\ hist'[q] = hist[q]
    BY <1>1, <2>1 DEF TypeOK, Cursor
  <2>3. cursor'[p] # None
    <3>1. TypeOK'
      BY <1>2, ReadType
    <3>2. pc' = "read" /\ rd'.path = p
      BY <1>2 DEF ReadChunk, TypeOK
    <3> QED
      BY <3>1, <3>2 DEF TypeOK
  <2> QED
    BY <1>1, <2>2, <2>3
<1>3. CASE FinishRead
  <2>1. /\ cursor' = [cursor EXCEPT ![p].offset = rd.pos, ![p].size = rd.want]
        /\ hist' = hist
    BY <1>3 DEF FinishRead
  <2>2. cursor'[p] = [cursor[p] EXCEPT !.offset = rd.pos, !.size = rd.want]
    BY <1>1, <2>1 DEF TypeOK
  <2>3. cursor'[p] \in Cursor /\ cursor'[p].ino = cursor[p].ino
    BY <1>1, <2>2 DEF TypeOK, Cursor
  <2> QED
    BY <1>1, <2>1, <2>3, NoneAssumption DEF TypeOK
<1> QED
  BY <1>2, <1>3

\* At first, and after a poll that raised, nothing is heard of.
LEMMA FeedInit == Init => Feed!Init
<1> SUFFICES ASSUME Init PROVE Heard = {} /\ Told = [p \in Paths |-> << >>]
  BY DEF Feed!Init, Told
<1>1. Heard = {}
  BY DEF Init, Heard
<1> QED
  BY <1>1 DEF Told

LEMMA FeedSame ==
  ASSUME Heard' = Heard, \A p \in Heard : hist'[p].out = hist[p].out
  PROVE  [Feed!Next]_(Feed!feed)
<1>1. Told' = Told
  BY DEF Told
<1> QED
  BY <1>1 DEF Feed!feed, Told

\* Ends of the process and of a poll: DELETE of what is no longer heard of.
LEMMA FeedDelete ==
  ASSUME NEW G \in SUBSET Paths, Heard' = Heard \ G,
         \A p \in Heard' : hist'[p].out = hist[p].out
  PROVE  [Feed!Next]_(Feed!feed)
<1> DEFINE gone == G \cap Heard
<1>1. Heard' = Heard \ gone /\ gone \subseteq Heard
  OBVIOUS
<1>2. CASE gone = {}
  BY <1>1, <1>2, FeedSame
<1>3. CASE gone # {}
  <2>1. PICK Q \in SUBSET Paths : Q = gone
    OBVIOUS
  <2>2. Told' = [p \in Paths |-> IF p \in Q THEN << >> ELSE Told[p]]
    BY <1>1, <2>1 DEF Told
  <2> HIDE DEF gone
  <2>3. Feed!Delete(Q)
    BY <1>1, <1>3, <2>1, <2>2 DEF Feed!Delete, Told
  <2> QED
    BY <2>3 DEF Feed!Next
<1> QED
  BY <1>2, <1>3

\* The event of one path: NEW_SESSION, lines, or ROTATE and TRUNCATE.
LEMMA FeedOne ==
  ASSUME TypeOK, NEW p \in Paths, pc # "raised", pc' # "raised",
         \A q \in Paths \ {p} : cursor'[q] = cursor[q] /\ hist'[q].out = hist[q].out,
         cursor'[p] # None,
         \/ cursor[p] = None /\ (hist'[p].out = << >> \/ hist'[p].out[Len(hist'[p].out)] = NL)
         \/ cursor[p] # None /\ hist'[p].out \in {<< >>, hist[p].out}
         \/ cursor[p] # None /\ Feed!Extends(hist'[p].out, hist[p].out)
  PROVE  [Feed!Next]_(Feed!feed)
<1>1. Heard' = Heard \cup {p} /\ (p \in Heard <=> cursor[p] # None)
  BY DEF Heard
<1>2. Told' = [Told EXCEPT ![p] = hist'[p].out]
  BY <1>1 DEF Told, Heard
<1>3. CASE cursor[p] = None /\ (hist'[p].out = << >> \/ hist'[p].out[Len(hist'[p].out)] = NL)
  <2>1. p \notin Heard /\ Told'[p] = hist'[p].out
    BY <1>1, <1>3 DEF Told
  <2>2. Feed!NewSession(p)
    BY <1>1, <1>2, <1>3, <2>1 DEF Feed!NewSession, Told
  <2> QED
    BY <2>2 DEF Feed!Next
<1>4. CASE cursor[p] # None
  <2>1. p \in Heard /\ Heard' = Heard
    BY <1>1, <1>4
  <2>2. CASE hist'[p].out = hist[p].out
    BY <1>2, <2>1, <2>2, FeedSame DEF Heard
  <2>3. CASE hist'[p].out = << >>
    <3>1. Feed!Void(p)
      BY <1>2, <2>1, <2>3 DEF Feed!Void, Told
    <3> QED
      BY <3>1 DEF Feed!Next
  <2>4. CASE Feed!Extends(hist'[p].out, hist[p].out)
    <3>1. Told'[p] = hist'[p].out /\ Told[p] = hist[p].out
      BY <2>1 DEF Told
    <3>2. Feed!Lines(p)
      BY <1>2, <2>1, <2>4, <3>1 DEF Feed!Lines, Told
    <3> QED
      BY <3>2 DEF Feed!Next
  <2> QED
    BY <1>4, <2>2, <2>3, <2>4
<1> QED
  BY <1>3, <1>4

\* Looking at a path introduces it, voids it or tells nothing.
LEMMA FeedLook ==
  ASSUME TypeOK, WholeInv, NEW p \in Paths, NEW v \in Inodes \X Nat, Looks(p, v),
         pc # "raised", pc' # "raised"
  PROVE  [Feed!Next]_(Feed!feed)
<1>1. /\ \A q \in Paths \ {p} : cursor'[q] = cursor[q] /\ hist'[q] = hist[q]
      /\ cursor'[p] # None
  BY LookShape
<1>2. CASE /\ cursor[p] = None /\ seeds[p] \in Seed
           /\ hist'[p].out = seeds[p].hist.out
  <2>1. seeds[p].hist.out # << >> => seeds[p].hist.out[Len(seeds[p].hist.out)] = NL
    BY <1>2, NoneAssumption DEF WholeInv, SeedWhole, Lined
  <2> QED
    BY <1>1, <1>2, <2>1, FeedOne
<1>3. ASSUME \E flaws : hist'[p] = NewHist(v, flaws)
      PROVE  [Feed!Next]_(Feed!feed)
  <2>1. hist'[p].out = << >>
    BY <1>3 DEF NewHist
  <2> QED
    BY <1>1, <2>1, FeedOne
<1>4. CASE cursor[p] # None /\ hist'[p].out = hist[p].out
  BY <1>1, <1>4, FeedOne
<1> QED
  BY <1>2, <1>3, <1>4, LookShape

\* A chunk tells the lines it completes, or nothing.
LEMMA FeedChunk ==
  ASSUME TypeOK, ReadChunk, NEW p \in Paths, p = rd.path
  PROVE  [Feed!Next]_(Feed!feed)
<1>1. /\ cursor[p] \in Cursor /\ hist[p] \in Hist
      /\ cursor[p] # None /\ cursor'[p] # None
      /\ \A q \in Paths \ {p} : cursor'[q] = cursor[q] /\ hist'[q] = hist[q]
      /\ pc # "raised" /\ pc' # "raised"
  BY ReadKeeps DEF TypeOK, ReadChunk
<1>2. Buffer \in Seq(Bytes)
  BY <1>1, ChunkType, ConcatProperties DEF Buffer, Cursor, ReadChunk
<1>3. PICK n \in 0 .. Len(Buffer) :
        /\ SplitsAt(Buffer, n)
        /\ hist' = [hist EXCEPT ![p].out = @ \o SubSeq(Buffer, 1, n),
                                ![p].src = Join(@, Version(rd.handle))]
  BY DEF ReadChunk
<1> DEFINE head == SubSeq(Buffer, 1, n)
           out == hist[p].out
<1>4. hist'[p].out = out \o head
  BY <1>1, <1>3 DEF TypeOK, Hist
<1>5. /\ Len(Buffer) \in Nat /\ out \in Seq(Bytes) /\ Len(out) \in Nat
  BY <1>1, <1>2, LenProperties DEF Hist
<1>6. CASE n = 0
  <2>1. out \o head = out
    BY <1>5, <1>6, SubSeqEmpty, ConcatEmptySeq
  <2> QED
    BY <1>1, <1>4, <2>1, FeedOne
<1>7. CASE n > 0
  <2>1. /\ head \in Seq(Bytes) /\ Len(head) = n
        /\ \A k \in 1 .. n : head[k] = Buffer[k]
    <3>1. /\ head \in Seq(Bytes)
          /\ Len(head) = IF 1 <= n THEN n - 1 + 1 ELSE 0
          /\ \A k \in 1 .. n - 1 + 1 : head[k] = Buffer[1 + k - 1]
      BY <1>2, <1>5, PartOfBytes
    <3> QED
      BY <1>5, <1>7, <3>1
  <2> HIDE DEF head, out
  <2>2. /\ out \o head \in Seq(Bytes)
        /\ Len(out \o head) = Len(out) + n
        /\ \A k \in 1 .. Len(out) + n : (out \o head)[k] =
              IF k <= Len(out) THEN out[k] ELSE head[k - Len(out)]
    BY <1>5, <2>1, ConcatProperties
  <2>3. SubSeq(out \o head, 1, Len(out)) = out
    <3>1. /\ SubSeq(out \o head, 1, Len(out)) \in Seq(Bytes)
          /\ Len(SubSeq(out \o head, 1, Len(out))) = IF 1 <= Len(out) THEN Len(out) - 1 + 1 ELSE 0
          /\ \A k \in 1 .. Len(out) - 1 + 1 :
               SubSeq(out \o head, 1, Len(out))[k] = (out \o head)[1 + k - 1]
      BY <1>5, <1>7, <2>2, PartOfBytes
    <3>2. Len(SubSeq(out \o head, 1, Len(out))) = Len(out)
      BY <1>5, <3>1
    <3>3. \A k \in 1 .. Len(out) : SubSeq(out \o head, 1, Len(out))[k] = out[k]
      BY <1>5, <1>7, <2>2, <3>1
    <3> QED
      BY <1>5, <3>1, <3>2, <3>3, SeqEqual
  <2>4. (out \o head)[Len(out \o head)] = NL
    <3>1. (out \o head)[Len(out) + n] = head[n] /\ head[n] = Buffer[n]
      BY <1>5, <1>7, <2>1, <2>2
    <3> QED
      BY <1>3, <1>7, <2>2, <3>1 DEF SplitsAt
  <2>5. Feed!Extends(hist'[p].out, hist[p].out)
    BY <1>4, <1>5, <1>7, <2>2, <2>3, <2>4 DEF Feed!Extends, out
  <2> QED
    BY <1>1, <2>5, FeedOne
<1> QED
  BY <1>5, <1>6, <1>7

LEMMA FeedStep == TypeOK /\ WholeInv /\ [Next]_vars => [Feed!Next]_(Feed!feed)
<1> SUFFICES ASSUME TypeOK, WholeInv, [Next]_vars PROVE [Feed!Next]_(Feed!feed)
  OBVIOUS
<1>1. ASSUME UNCHANGED <<cursor, hist>>, pc' = pc \/ {pc, pc'} \cap {"raised"} = {}
      PROVE  [Feed!Next]_(Feed!feed)
  <2>1. Heard' = Heard
    BY <1>1 DEF Heard
  <2> QED
    BY <1>1, <2>1, FeedSame
<1>2. CASE Writers \/ Start \/ Walk \/ Open \/ UNCHANGED vars
  BY <1>1, <1>2
  DEF Writers, Create, Write, Truncate, Unlink, EnvStep, Start, Walk, Open, vars
<1>3. CASE Close \/ Crash \/ Raise
  <2>1. Heard' = {}
    BY <1>3 DEF Close, Crash, Forget, Raise, Heard
  <2>2. Heard \subseteq Paths /\ Heard' = Heard \ Paths
    BY <2>1 DEF Heard
  <2> QED
    BY <2>1, <2>2, FeedDelete
<1>4. CASE Stat
  <2> DEFINE p == Least(todo)
             i == name[p]
  <2>1. /\ p \in Paths /\ pc = "stat"
        /\ \/ UNCHANGED <<cursor, hist>> /\ pc' \in {"stat", "check"}
           \/ i \in Inodes /\ Looks(p, Version(i)) /\ ReadUpTo(p, Size(i))
    BY <1>4, StatLooks
  <2>2. i \in Inodes => Version(i) \in Inodes \X Nat
    BY VersionKnown
  <2> HIDE DEF p, i
  <2> QED
    BY <1>1, <2>1, <2>2, FeedLook DEF ReadUpTo
<1>5. CASE Check
  BY <1>5, CheckLooks, FeedLook DEF ReadUpTo
<1>6. CASE ReadChunk
  BY <1>6, FeedChunk, ReadKeeps
<1>7. CASE FinishRead
  <2>1. hist' = hist /\ pc = "read" /\ pc' = "stat"
    BY <1>7 DEF FinishRead
  <2> QED
    BY <1>7, <2>1, ReadKeeps, FeedOne
<1>8. CASE EndPoll
  <2>1. Heard' = Heard \ Deleted
    BY <1>8 DEF EndPoll, Heard
  <2>2. ASSUME NEW p \in Heard' PROVE hist'[p].out = hist[p].out
    <3>1. p \in Paths /\ p \notin Deleted
      BY <1>8, <2>2 DEF EndPoll, Heard
    <3>2. hist'[p] = [hist[p] EXCEPT !.sent = Len(hist[p].out)] /\ hist[p] \in Hist
      BY <1>8, <3>1 DEF EndPoll, TypeOK
    <3> QED
      BY <3>2 DEF Hist
  <2>3. Deleted \in SUBSET Paths
    BY DEF Deleted
  <2> QED
    BY <2>1, <2>2, <2>3, FeedDelete
<1> QED
  BY <1>2, <1>3, <1>4, <1>5, <1>6, <1>7, <1>8 DEF Next, Poll

\* The watcher implements the Source protocol, for any number of files and
\* whatever the writers do: a path is introduced once, told whole lines only,
\* voided or deleted only while it is known, and never told of after that.
THEOREM ImplementsSourceProtocol == Spec => KeepsSourceProtocol
<1> QED
  BY FeedInit, WholeInit, WholeStep, FeedStep, TypeCorrect, PTL
  DEF Spec, KeepsSourceProtocol, Feed!Spec

---------------------------------------------------------------------------
(* Resume points advance.  What decides it is whether a cursor is ever      *)
(* started again, from offset 0, on a file whose cached cursor is still     *)
(* good.  The invariant says why it is not, as long as a walk lists every   *)
(* file and its first bytes can be read: the path is tracked, or its seed   *)
(* is waiting and matches.                                                  *)

\* A cached cursor all of one version of its file, still there.
Valid(c) == c # None /\ c.hist.src = Version(c.ino)

\* The next close would write a resume point over a good one.
Rewrites(p) == Valid(cache[p]) /\ cursor[p] # None /\ cursor[p].ino = cache[p].ino

Reading(p) == pc \in {"open", "read"} /\ rd.path = p

SeedCached(p) ==
  /\ seeds[p] \in {None, cache[p]}
  /\ pc = "down" => cursor[p] = None /\ seeds[p] = None

\* A good cached cursor still looks like its file.
CacheMatches(p) ==
  Valid(cache[p]) =>
    /\ cache[p].size <= Size(cache[p].ino)
    /\ name[p] = cache[p].ino =>
         /\ Len(cache[p].prefix) <= Size(cache[p].ino)
         /\ Take(disk[cache[p].ino].data, Len(cache[p].prefix)) = cache[p].prefix

Advanced(p) ==
  Rewrites(p) /\ name[p] = cache[p].ino /\ "refused" \notin hist[p].flaws
    => cursor[p].offset >= cache[p].offset

Resumable(p) ==
  Valid(cache[p]) /\ name[p] = cache[p].ino /\ pc # "down" =>
    IF cursor[p] = None THEN seeds[p] = cache[p] ELSE cursor[p].ino = cache[p].ino

\* The size a cursor records is one its file has reached.
Sized(p) ==
  Rewrites(p) \/ Clean(p) =>
    /\ cursor[p].size <= Size(cursor[p].ino)
    /\ Reading(p) => rd.want <= Size(cursor[p].ino)

\* The seed that is being consulted is of the file that was statted, which is
\* still the version a good cached cursor is of.
Consulting(p) ==
  pc = "check" /\ rd.path = p =>
    /\ cursor[p] = None /\ seeds[p] # None /\ seeds[p].ino = rd.at[1]
    /\ rd.at = Version(rd.at[1]) => rd.want <= Size(rd.at[1])
    /\ Valid(cache[p]) /\ cache[p].ino = rd.at[1] => rd.at = Version(rd.at[1])

Listed(p) ==
  pc \in {"stat", "check", "open", "read"} /\ p \notin seen \cup todo /\ Valid(cache[p])
    => name[p] # cache[p].ino

AdvPath(p) ==
  /\ SeedCached(p) /\ CacheMatches(p) /\ Advanced(p)
  /\ Resumable(p) /\ Sized(p) /\ Consulting(p) /\ Listed(p)

AdvInv == \A p \in Paths : AdvPath(p)

LEMMA AdvInit == Init => AdvInv
  BY NoneAssumption
  DEF Init, AdvInv, AdvPath, SeedCached, CacheMatches, Advanced, Resumable, Sized,
      Consulting, Listed, Valid, Rewrites, Clean

\* A prefix has no more bytes than the whole, and is its own prefix.
LEMMA TakePrefix ==
  ASSUME NEW s \in Seq(Bytes), NEW n \in Nat
  PROVE  /\ Len(Take(s, n)) <= Len(s)
         /\ Take(s, Len(Take(s, n))) = Take(s, n)
<1> DEFINE m == MinOf(n, Len(s))
<1>1. m \in Nat /\ m <= Len(s) /\ Len(s) \in Nat
  BY LenProperties DEF MinOf
<1>2. Take(s, n) = SubSeq(s, 1, m)
  BY DEF Take
<1> HIDE DEF m
<1>3. Len(SubSeq(s, 1, m)) = IF 1 <= m THEN m - 1 + 1 ELSE 0
  BY <1>1, PartOfBytes
<1>4. Len(SubSeq(s, 1, m)) = m
  BY <1>1, <1>3
<1>5. MinOf(m, Len(s)) = m
  BY <1>1 DEF MinOf
<1> QED
  BY <1>1, <1>2, <1>4, <1>5 DEF Take

\* What the writers leave of a version that is still there.
LEMMA WritersKeep ==
  ASSUME TypeOK, Writers, NEW i \in Inodes, NEW src \in Versioned,
         Known(src), src = <<i, disk'[i].ver>>
  PROVE  /\ src = Version(i) /\ disk'[i].ver = disk[i].ver
         /\ Size(i) <= Len(disk'[i].data)
         /\ \A n \in 0 .. Size(i) : Take(disk'[i].data, n) = Take(disk[i].data, n)
         /\ \A p \in Paths : name'[p] = i => name[p] = i
<1>1. /\ disk[i].ver \in Nat /\ Size(i) \in Nat
      /\ disk[i].data \in Seq(Bytes) /\ disk'[i].data \in Seq(Bytes)
      /\ Len(disk'[i].data) \in Nat
  <2>1. TypeOK'
    BY WritersType
  <2> QED
    BY <2>1, LenProperties DEF TypeOK, Size
<1>2. disk'[i].ver <= disk[i].ver
  BY DEF Known
<1>3. /\ disk'[i].ver = disk[i].ver
      /\ \A n \in 0 .. Size(i) :
           /\ n <= Len(disk'[i].data)
           /\ SubSeq(disk'[i].data, 1, n) = SubSeq(disk[i].data, 1, n)
  BY <1>1, <1>2, WritersExtend
<1>4. Size(i) <= Len(disk'[i].data)
  BY <1>1, <1>3
<1>5. ASSUME NEW n \in 0 .. Size(i)
      PROVE  Take(disk'[i].data, n) = Take(disk[i].data, n)
  <2>1. MinOf(n, Len(disk'[i].data)) = n /\ MinOf(n, Len(disk[i].data)) = n
    BY <1>1, <1>3 DEF MinOf, Size
  <2> QED
    BY <1>3, <2>1 DEF Take
<1>6. ASSUME NEW p \in Paths, name'[p] = i, name[p] # i PROVE FALSE
  <2>1. PICK q \in Paths : \/ \E j \in Inodes : Create(q, j)
                           \/ \E b \in Bytes : Write(q, b)
                           \/ \E n \in 0 .. MaxLen : Truncate(q, n)
                           \/ Unlink(q)
    BY DEF Writers
  <2>2. PICK j \in Inodes : Create(q, j)
    BY <1>6, <2>1, NoneAssumption DEF Write, Truncate, Unlink, TypeOK
  <2>3. i = j
    BY <1>6, <2>2 DEF Create, TypeOK
  <2>4. disk'[i].ver = disk[i].ver + 1
    BY <2>2, <2>3 DEF Create, Blank, TypeOK
  <2> QED
    BY <1>1, <1>3, <2>4
<1> QED
  BY <1>3, <1>4, <1>5, <1>6 DEF Version

\* The types of what the invariant speaks of.
LEMMA AdvTypes ==
  ASSUME TypeOK, NEW p \in Paths
  PROVE  /\ cursor[p] # None => /\ cursor[p].ino \in Inodes /\ cursor[p].size \in Nat
                                /\ cursor[p].offset \in Nat /\ Consumed(p) \in Nat
         /\ cache[p] # None => /\ cache[p].ino \in Inodes /\ cache[p].size \in Nat
                               /\ cache[p].offset \in Nat /\ cache[p].prefix \in Seq(Bytes)
                               /\ Len(cache[p].prefix) \in Nat
                               /\ cache[p].hist.src \in Versioned
         /\ hist[p].src \in Versioned
         /\ rd.want \in Nat /\ rd.pos \in Nat
         /\ \A i \in Inodes : Size(i) \in Nat
  BY LenProperties DEF TypeOK, Cursor, Hist, Seed, Consumed, Size

LEMMA AdvWriters == TypeOK /\ ExactInv /\ AdvInv /\ Writers => AdvInv'
<1> SUFFICES ASSUME TypeOK, ExactInv, AdvInv, Writers, NEW p \in Paths
             PROVE  AdvPath(p)'
  BY DEF AdvInv
<1>1. UNCHANGED <<cursor, seeds, cache, pc, todo, seen, rd, hist>>
  BY DEF Writers, Create, Write, Truncate, Unlink, EnvStep
<1>2. AdvPath(p)
  BY DEF AdvInv
<1> DEFINE i == cache[p].ino
           c == cursor[p].ino
<1>3. ASSUME Valid(cache[p])'
      PROVE  /\ Valid(cache[p])
             /\ i \in Inodes /\ Size(i) \in Nat /\ Len(disk'[i].data) \in Nat
             /\ disk'[i].ver = disk[i].ver
             /\ Size(i) <= Len(disk'[i].data)
             /\ \A n \in 0 .. Size(i) : Take(disk'[i].data, n) = Take(disk[i].data, n)
             /\ name'[p] = i => name[p] = i
  <2>1. /\ cache[p] # None /\ cache[p].hist.src = <<i, disk'[i].ver>>
        /\ i \in Inodes /\ cache[p].hist.src \in Versioned
    BY <1>1, <1>3, AdvTypes DEF Valid, Version
  <2>2. Known(cache[p].hist.src)
    BY <2>1 DEF ExactInv, SeedFaithful, Faithful
  <2>3. TypeOK'
    BY WritersType
  <2>4. Size(i) \in Nat /\ Len(disk'[i].data) \in Nat
    BY <2>1, <2>3, LenProperties DEF TypeOK, Size
  <2> QED
    BY <2>1, <2>2, <2>4, WritersKeep DEF Valid
<1>4. SeedCached(p)' /\ Resumable(p)' /\ Listed(p)'
  <2>1. SeedCached(p)'
    BY <1>1, <1>2 DEF AdvPath, SeedCached
  <2>2. Resumable(p)'
    BY <1>1, <1>2, <1>3 DEF AdvPath, Resumable
  <2>3. Listed(p)'
    BY <1>1, <1>2, <1>3 DEF AdvPath, Listed
  <2> QED
    BY <2>1, <2>2, <2>3
<1>5. CacheMatches(p)'
  <2> SUFFICES ASSUME Valid(cache[p])'
               PROVE  /\ cache[p].size <= Len(disk'[i].data)
                      /\ name'[p] = i =>
                           /\ Len(cache[p].prefix) <= Len(disk'[i].data)
                           /\ Take(disk'[i].data, Len(cache[p].prefix)) = cache[p].prefix
    BY <1>1 DEF CacheMatches, Size
  <2>1. /\ Valid(cache[p]) /\ i \in Inodes /\ Size(i) \in Nat /\ Len(disk'[i].data) \in Nat
        /\ Size(i) <= Len(disk'[i].data)
        /\ \A n \in 0 .. Size(i) : Take(disk'[i].data, n) = Take(disk[i].data, n)
        /\ name'[p] = i => name[p] = i
    BY <1>3
  <2>2. /\ cache[p].size \in Nat /\ Len(cache[p].prefix) \in Nat
    BY <2>1, AdvTypes DEF Valid
  <2>3. /\ cache[p].size <= Size(i)
        /\ name[p] = i => /\ Len(cache[p].prefix) <= Size(i)
                          /\ Take(disk[i].data, Len(cache[p].prefix)) = cache[p].prefix
    BY <1>2, <2>1 DEF AdvPath, CacheMatches
  <2> HIDE DEF i
  <2> QED
    BY <2>1, <2>2, <2>3
<1>6. Advanced(p)'
  BY <1>1, <1>2, <1>3 DEF AdvPath, Advanced, Rewrites
<1>7. Sized(p)'
  <2> SUFFICES ASSUME Rewrites(p)' \/ Clean(p)'
               PROVE  /\ cursor[p].size <= Len(disk'[c].data)
                      /\ Reading(p) => rd.want <= Len(disk'[c].data)
    BY <1>1 DEF Sized, Reading, Size
  <2>1. cursor[p] # None
    BY <1>1 DEF Rewrites, Clean
  <2>2. TypeOK'
    BY WritersType
  <2>3. /\ c \in Inodes /\ cursor[p].size \in Nat /\ rd.want \in Nat
        /\ Size(c) \in Nat /\ Len(disk'[c].data) \in Nat
    BY <2>1, <2>2, AdvTypes, LenProperties DEF TypeOK
  <2>4. (Rewrites(p) \/ Clean(p)) /\ Size(c) <= Len(disk'[c].data)
    <3>1. CASE Rewrites(p)'
      BY <1>1, <1>3, <3>1 DEF Rewrites
    <3>2. CASE Clean(p)'
      <4>1. hist[p].src = <<c, disk'[c].ver>> /\ hist[p].src \in Versioned
        BY <1>1, <3>2, AdvTypes DEF Clean, Version
      <4>2. Known(hist[p].src)
        BY <2>1 DEF ExactInv, CursorFaithful, Faithful
      <4> QED
        BY <2>1, <2>3, <4>1, <4>2, WritersKeep DEF Clean
    <3> QED
      BY <3>1, <3>2
  <2>5. /\ cursor[p].size <= Size(c)
        /\ Reading(p) => rd.want <= Size(c)
    BY <1>2, <2>4 DEF AdvPath, Sized
  <2> HIDE DEF c
  <2> QED
    BY <2>3, <2>4, <2>5
<1>8. Consulting(p)'
  <2> SUFFICES ASSUME pc = "check", rd.path = p
               PROVE  Consulting(p)'
    BY <1>1 DEF Consulting
  <2> DEFINE a == rd.at[1]
  <2>1. /\ a \in Inodes /\ rd.at \in Versioned /\ Known(rd.at)
        /\ rd.want \in Nat /\ Size(a) \in Nat
    BY AdvTypes DEF TypeOK, ExactInv, InHand
  <2>2. ASSUME rd.at = <<a, disk'[a].ver>>
        PROVE  rd.want <= Len(disk'[a].data)
    <3>1. rd.at = Version(a) /\ Size(a) <= Len(disk'[a].data)
      BY <2>1, <2>2, WritersKeep
    <3>2. rd.want <= Size(a)
      BY <1>2, <3>1 DEF AdvPath, Consulting
    <3>3. Len(disk'[a].data) \in Nat
      <4>1. TypeOK'
        BY WritersType
      <4> QED
        BY <2>1, <4>1, LenProperties DEF TypeOK
    <3> QED
      BY <2>1, <3>1, <3>2, <3>3
  <2>3. ASSUME Valid(cache[p])', i = a PROVE rd.at = <<a, disk'[a].ver>>
    BY <1>2, <1>3, <2>3 DEF AdvPath, Consulting, Version
  <2> HIDE DEF a
  <2>4. /\ cursor[p] = None /\ seeds[p] # None /\ seeds[p].ino = a
    BY <1>2 DEF AdvPath, Consulting, a
  <2>5. rd' = rd /\ cache' = cache /\ cursor' = cursor /\ seeds' = seeds
    BY <1>1
  <2> QED
    BY <2>2, <2>3, <2>4, <2>5 DEF Consulting, Version, Size, a
<1> QED
  BY <1>4, <1>5, <1>6, <1>7, <1>8 DEF AdvPath

LEMMA AdvStartStop == TypeOK /\ AdvInv /\ (Start \/ Close \/ Crash) => AdvInv'
<1> SUFFICES ASSUME TypeOK, AdvInv, Start \/ Close \/ Crash, NEW p \in Paths
             PROVE  AdvPath(p)'
  BY DEF AdvInv
<1>1. AdvPath(p) /\ UNCHANGED <<name, disk>>
  BY DEF AdvInv, Start, Close, Crash, env
<1>2. CASE Start
  <2>1. /\ cursor[p] = None /\ cursor'[p] = None /\ seeds'[p] = cache[p] /\ pc' = "idle"
        /\ UNCHANGED <<name, disk, cursor, cache, hist>>
    BY <1>1, <1>2 DEF Start, AdvPath, SeedCached
  <2>2. SeedCached(p)' /\ CacheMatches(p)' /\ Resumable(p)'
    BY <1>1, <2>1 DEF AdvPath, SeedCached, CacheMatches, Resumable, Valid, Size, Version
  <2>3. Advanced(p)' /\ Sized(p)' /\ Listed(p)' /\ Consulting(p)'
    BY <2>1 DEF Advanced, Sized, Listed, Consulting, Rewrites, Clean
  <2> QED
    BY <2>2, <2>3 DEF AdvPath
<1>3. CASE Close \/ Crash
  <2>1. cursor'[p] = None /\ seeds'[p] = None /\ pc' = "down"
    BY <1>3 DEF Close, Crash, Forget
  <2>2. /\ SeedCached(p)' /\ Advanced(p)' /\ Resumable(p)' /\ Sized(p)' /\ Listed(p)'
        /\ Consulting(p)'
    BY <2>1 DEF SeedCached, Advanced, Resumable, Sized, Listed, Consulting, Rewrites, Clean
  <2>3. CacheMatches(p)'
    <3>1. CASE Crash
      BY <1>1, <3>1 DEF Crash, AdvPath, CacheMatches, Valid, Size, Version
    <3>2. CASE Close /\ (cursor[p] = None \/ name[p] = None)
      BY <3>2 DEF Close, CacheMatches, Valid
    <3>3. CASE Close /\ cursor[p] # None /\ name[p] # None
      <4> SUFFICES ASSUME Valid(cache[p])' PROVE CacheMatches(p)'
        BY DEF CacheMatches
      <4> DEFINE i == cursor[p].ino
                 taken == Take(disk[name[p]].data, FingerprintLen)
      <4>0. PICK readable : cache'[p] = CachedCursorOf(p, readable)
        BY <3>3 DEF Close
      <4> DEFINE prefix == IF readable THEN taken ELSE << >>
      <4>1. cache'[p] = [ino |-> i, size |-> cursor[p].size, offset |-> cursor[p].offset,
                         pending |-> cursor[p].pending, prefix |-> prefix, hist |-> hist[p]]
        BY <4>0 DEF CachedCursorOf
      <4> HIDE DEF i, prefix
      <4>2. /\ cache'[p].ino = i /\ cache'[p].size = cursor[p].size
            /\ cache'[p].prefix = prefix /\ cache'[p].hist = hist[p]
        BY <4>1
      <4>3. Clean(p)
        BY <1>1, <3>3, <4>2 DEF Valid, Clean, Version, i
      <4>4. cursor[p].size <= Size(i)
        BY <1>1, <4>3 DEF AdvPath, Sized, i
      <4>5. ASSUME name[p] = i
            PROVE  Len(prefix) <= Size(i) /\ Take(disk[i].data, Len(prefix)) = prefix
        <5>1. i \in Inodes /\ disk[i].data \in Seq(Bytes) /\ FingerprintLen \in Nat
          BY <3>3, AdvTypes, BoundsAssumption DEF i, TypeOK
        <5>2. Len(taken) <= Size(i) /\ Take(disk[i].data, Len(taken)) = taken
          BY <4>5, <5>1, TakePrefix DEF Size
        <5>3. Len(<< >>) <= Size(i) /\ Take(disk[i].data, Len(<< >>)) = << >>
          <6>1. Len(<< >>) = 0 /\ Len(disk[i].data) \in Nat
            BY <5>1, LenProperties
          <6>2. SubSeq(disk[i].data, 1, 0) = << >>
            BY <5>1, SubSeqEmpty
          <6> QED
            BY <6>1, <6>2 DEF Take, MinOf, Size
        <5> QED
          BY <5>2, <5>3 DEF prefix
      <4> QED
        BY <1>1, <4>2, <4>4, <4>5 DEF CacheMatches, Size
    <3> QED
      BY <1>3, <3>1, <3>2, <3>3
  <2> QED
    BY <2>2, <2>3 DEF AdvPath
<1> QED
  BY <1>2, <1>3

\* A walk with room for every path lists every file there is.
LEMMA WalksAll ==
  ASSUME TypeOK, Cardinality(Paths) <= MaxFiles
  PROVE  Walked = {p \in Paths : name[p] # None}
<1> DEFINE found == {p \in Paths : name[p] # None}
<1> SUFFICES ASSUME NEW p \in found
             PROVE  Cardinality({q \in found : q < p}) < MaxFiles
  BY DEF Walked
<1> DEFINE before == {q \in found : q < p}
<1>1. before \in SUBSET (Paths \ {p}) /\ p \in Paths
  BY PathsAssumption
<1> HIDE DEF before
<1>2. /\ Cardinality(Paths) \in Nat /\ IsFiniteSet(Paths \ {p})
      /\ Cardinality(Paths \ {p}) = Cardinality(Paths) - 1
  BY <1>1, PathsAssumption, FS_RemoveElement, FS_CardinalityType
<1>3. /\ Cardinality(before) \in Nat
      /\ Cardinality(before) <= Cardinality(Paths \ {p})
  BY <1>1, <1>2, FS_Subset, FS_CardinalityType
<1> QED
  BY <1>2, <1>3, BoundsAssumption DEF before

LEMMA AdvWalk ==
  Cardinality(Paths) <= MaxFiles /\ TypeOK /\ AdvInv /\ Walk => AdvInv'
<1> SUFFICES ASSUME Cardinality(Paths) <= MaxFiles, TypeOK, AdvInv, Walk, NEW p \in Paths
             PROVE  AdvPath(p)'
  BY DEF AdvInv
<1>1. /\ UNCHANGED <<name, disk, cursor, seeds, cache, rd, hist>>
      /\ pc = "idle" /\ pc' = "stat"
      /\ AdvPath(p)
  BY DEF AdvInv, Walk
<1>2. SeedCached(p)' /\ CacheMatches(p)' /\ Resumable(p)'
  BY <1>1 DEF AdvPath, SeedCached, CacheMatches, Resumable, Valid, Size, Version
<1>3. Advanced(p)' /\ Sized(p)' /\ Consulting(p)'
  BY <1>1
  DEF AdvPath, Advanced, Sized, Consulting, Rewrites, Clean, Valid, Size, Version, Reading
<1>4. Listed(p)'
  <2>1. todo' = {q \in Paths : name[q] # None}
    BY WalksAll DEF Walk
  <2>2. cache[p] # None => cache[p].ino # None
    BY AdvTypes, NoneAssumption
  <2> QED
    BY <1>1, <2>1, <2>2 DEF Listed, Valid
<1> QED
  BY <1>2, <1>3, <1>4 DEF AdvPath

\* Looks, as it may be relied on: a resumed seed is of the file that was
\* statted, and a seed that was good is not given up unless it was refused.
LooksWell(p, v) ==
  \/ seeds[p] # None /\ seeds[p].ino = v[1] /\ Resume(p, v)
  \/ \E flaws \in SUBSET Flaws :
       /\ Discover(p, v, flaws)
       /\ \/ "refused" \in flaws
          \/ ~ (Valid(cache[p]) /\ cache[p].ino = v[1] /\ name[p] = v[1])
  \/ v = Version(v[1]) /\ name[p] = v[1] /\ (Restart(p, v[1]) \/ Follow(p, v[1]))

\* What looking at a file makes of its path.
LEMMA AdvLook ==
  ASSUME TypeOK, ExactInv, NEW p \in Paths, AdvPath(p),
         NEW v \in Inodes \X Nat, Known(v), UNCHANGED <<name, disk, cache>>,
         LooksWell(p, v)
  PROVE  /\ Looks(p, v)
         /\ cursor'[p] # None /\ cursor'[p].ino = v[1] /\ seeds'[p] \in {None, seeds[p]}
         /\ Clean(p)' => v = Version(v[1])
         /\ (Rewrites(p) \/ Clean(p))' => cursor'[p].size <= Size(v[1])
         /\ /\ Valid(cache[p]) /\ cache[p].ino = v[1] /\ name[p] = v[1]
            /\ "refused" \notin hist'[p].flaws
            => cursor'[p].offset >= cache[p].offset
<1>0. Looks(p, v)
  BY DEF LooksWell, Looks
<1>1. /\ cursor'[p] # None /\ v[1] \in Inodes /\ Size(v[1]) \in Nat
      /\ Rewrites(p)' => Valid(cache[p]) /\ cache[p].ino = cursor'[p].ino
      /\ \A i \in Inodes : Version(i)' = Version(i)
  BY <1>0, LookShape, AdvTypes DEF Rewrites, Valid, Version
<1>2. \A src : Join(src, v) = Version(v[1]) => src = v /\ v = Version(v[1])
  BY <1>1, JoinKnown
<1>3. CASE seeds[p] # None /\ seeds[p].ino = v[1] /\ Resume(p, v)
  <2> DEFINE seed == seeds[p]
  <2>1. seed = cache[p] /\ seed \in Seed /\ seed.offset \in Nat
    BY <1>3 DEF AdvPath, SeedCached, TypeOK, Seed
  <2>2. /\ cursor'[p] = ResumedCursor(seed) /\ seeds'[p] = None
        /\ hist'[p].src = Join(seed.hist.src, v)
    <3> DEFINE src == Join(seed.hist.src, v)
               flaws == seed.hist.flaws \ {"refused"}
    <3>1. /\ cursor' = [cursor EXCEPT ![p] = ResumedCursor(seed)]
          /\ seeds' = [seeds EXCEPT ![p] = None]
          /\ hist' = [hist EXCEPT ![p] = [seed.hist EXCEPT !.src = src, !.flaws = flaws]]
      BY <1>3 DEF Resume
    <3>2. seed.hist \in Hist
      BY <2>1 DEF Seed
    <3> HIDE DEF src, flaws, seed
    <3>3. hist'[p] = [seed.hist EXCEPT !.src = src, !.flaws = flaws]
      BY <3>1 DEF TypeOK
    <3>4. hist'[p].src = src
      BY <3>2, <3>3 DEF Hist
    <3> QED
      BY <3>1, <3>4 DEF TypeOK, src
  <2>3. /\ cursor'[p].ino = v[1] /\ cursor'[p].size = seed.offset
        /\ cursor'[p].offset = seed.offset
    BY <1>3, <2>2 DEF ResumedCursor
  <2>4. ASSUME Clean(p)' PROVE v = Version(v[1]) /\ Valid(cache[p])
    <3>1. hist'[p].src = Version(v[1])
      BY <1>1, <2>3, <2>4 DEF Clean
    <3> QED
      BY <1>2, <1>3, <2>1, <2>2, <3>1 DEF Valid
  <2>5. Valid(cache[p]) => seed.offset <= Size(v[1])
    BY <1>3, <2>1 DEF Valid, ExactInv, SeedFaithful, Faithful, StandsFor
  <2> QED
    BY <1>0, <1>1, <2>1, <2>2, <2>3, <2>4, <2>5
<1>4. ASSUME NEW flaws \in SUBSET Flaws, Discover(p, v, flaws),
             \/ "refused" \in flaws
             \/ ~ (Valid(cache[p]) /\ cache[p].ino = v[1] /\ name[p] = v[1])
      PROVE  /\ cursor'[p].ino = v[1] /\ cursor'[p].size = 0 /\ seeds'[p] = None
             /\ Clean(p)' => v = Version(v[1])
             /\ "refused" \notin hist'[p].flaws =>
                   ~ (Valid(cache[p]) /\ cache[p].ino = v[1] /\ name[p] = v[1])
  <2>1. /\ cursor'[p].ino = v[1] /\ cursor'[p].size = 0 /\ seeds'[p] = None
        /\ hist'[p].src = v /\ hist'[p].flaws = flaws
    BY <1>4 DEF Discover, FreshCursor, NewHist, TypeOK
  <2> QED
    BY <1>1, <1>4, <2>1 DEF Clean
<1>5. CASE v = Version(v[1]) /\ name[p] = v[1] /\ Restart(p, v[1])
  <2>1. /\ cursor'[p].ino = v[1] /\ cursor'[p].size = 0 /\ seeds'[p] = seeds[p]
        /\ cursor[p] # None /\ Replaced(p, v[1])
    BY <1>5 DEF Restart, FreshCursor, TypeOK
  <2>2. ASSUME Valid(cache[p]), cache[p].ino = v[1] PROVE FALSE
    <3>0. pc # "down"
      BY <2>1 DEF AdvPath, SeedCached
    <3>1. cursor[p].ino = v[1] /\ Rewrites(p)
      BY <1>5, <2>1, <2>2, <3>0 DEF AdvPath, Resumable, Rewrites
    <3>2. cursor[p].size <= Size(v[1]) /\ cursor[p].size \in Nat
      BY <2>1, <3>1, AdvTypes DEF AdvPath, Sized
    <3> QED
      BY <1>1, <2>1, <3>1, <3>2 DEF Replaced
  <2> QED
    BY <1>0, <1>1, <1>5, <2>1, <2>2
<1>6. CASE v = Version(v[1]) /\ name[p] = v[1] /\ Follow(p, v[1])
  <2>1. /\ cursor' = cursor /\ seeds' = seeds /\ cursor[p] # None /\ cursor[p].ino = v[1]
    BY <1>6 DEF Follow, Replaced
  <2>2. /\ hist'[p].flaws = hist[p].flaws
        /\ hist'[p].src \in {hist[p].src, Join(hist[p].src, v)}
    BY <1>0, <2>1, LookShape, <1>6 DEF Follow
  <2>3. ASSUME Clean(p)' PROVE Clean(p)
    <3>1. hist'[p].src = Version(v[1])
      BY <1>1, <2>1, <2>3 DEF Clean
    <3> QED
      BY <1>2, <1>6, <2>1, <2>2, <3>1 DEF Clean
  <2>4. Rewrites(p)' => Rewrites(p)
    BY <2>1 DEF Rewrites, Valid, Version
  <2>5. (Rewrites(p) \/ Clean(p))' => cursor'[p].size <= Size(v[1])
    BY <2>1, <2>3, <2>4 DEF AdvPath, Sized
  <2>6. /\ Valid(cache[p]) /\ cache[p].ino = v[1] /\ name[p] = v[1]
        /\ "refused" \notin hist'[p].flaws
        => cursor'[p].offset >= cache[p].offset
    BY <2>1, <2>2 DEF AdvPath, Advanced, Rewrites
  <2> QED
    BY <1>0, <1>6, <2>1, <2>5, <2>6
<1> QED
  BY <1>0, <1>1, <1>3, <1>4, <1>5, <1>6 DEF LooksWell

LEMMA AdvLooked ==
  ASSUME TypeOK, ExactInv, AdvInv, NEW p \in Paths, NEW v \in Inodes \X Nat, Known(v),
         LooksWell(p, v), NEW n \in Nat, ReadUpTo(p, n), pc \in {"stat", "check"},
         UNCHANGED <<name, disk, cache>>, seen' \cup todo' = seen \cup todo,
         v = Version(v[1]) => n <= Size(v[1]),
         Valid(cache[p]) /\ cache[p].ino = v[1] => v = Version(v[1]),
         Valid(cache[p]) /\ name[p] = cache[p].ino => cache[p].ino = v[1]
  PROVE  AdvInv'
<1>1. pc' \in {"stat", "open"} /\ (pc' = "open" => rd'.path = p /\ rd'.want = n)
  BY DEF ReadUpTo, NoRead
<1>2. ASSUME NEW q \in Paths PROVE CacheMatches(q)' /\ Listed(q)' /\ Consulting(q)'
  BY <1>1
  DEF AdvInv, AdvPath, CacheMatches, Listed, Consulting, Valid, Size, Version
<1>3. AdvPath(p)'
  <2>1. /\ cursor'[p] # None /\ cursor'[p].ino = v[1] /\ seeds'[p] \in {None, seeds[p]}
        /\ Clean(p)' => v = Version(v[1])
        /\ (Rewrites(p) \/ Clean(p))' => cursor'[p].size <= Size(v[1])
        /\ /\ Valid(cache[p]) /\ cache[p].ino = v[1] /\ name[p] = v[1]
           /\ "refused" \notin hist'[p].flaws
           => cursor'[p].offset >= cache[p].offset
        /\ AdvPath(p)
    BY AdvLook DEF AdvInv
  <2>2. SeedCached(p)' /\ Resumable(p)'
    BY <1>1, <2>1 DEF AdvPath, SeedCached, Resumable, Valid, Version
  <2>3. Advanced(p)'
    BY <2>1 DEF Advanced, Rewrites, Valid, Version
  <2>4. Sized(p)'
    <3>1. Rewrites(p)' => v = Version(v[1])
      BY <2>1 DEF Rewrites, Valid, Version
    <3>2. Reading(p)' => rd'.want = n
      BY <1>1 DEF Reading
    <3> QED
      BY <2>1, <3>1, <3>2 DEF Sized, Size
  <2> QED
    BY <1>2, <2>2, <2>3, <2>4 DEF AdvPath
<1>4. ASSUME NEW q \in Paths \ {p} PROVE AdvPath(q)'
  <2>1. cursor'[q] = cursor[q] /\ seeds'[q] = seeds[q] /\ hist'[q] = hist[q]
    <3>1. Looks(p, v)
      BY DEF LooksWell, Looks
    <3> QED
      BY <3>1, LookShape
  <2>2. ~ Reading(q)' /\ AdvPath(q)
    BY <1>1 DEF Reading, AdvInv
  <2>3. SeedCached(q)' /\ Resumable(q)'
    BY <1>1, <2>1, <2>2 DEF AdvPath, SeedCached, Resumable, Valid, Version
  <2>4. Advanced(q)' /\ Sized(q)'
    BY <2>1, <2>2 DEF AdvPath, Advanced, Sized, Rewrites, Clean, Valid, Version, Size
  <2> QED
    BY <1>2, <2>3, <2>4 DEF AdvPath
<1> QED
  BY <1>3, <1>4 DEF AdvInv

LEMMA AdvStat == TypeOK /\ ExactInv /\ AdvInv /\ Stat => AdvInv'
<1> SUFFICES ASSUME TypeOK, ExactInv, AdvInv, Stat PROVE AdvInv'
  OBVIOUS
<1>p. PICK p : p = Least(todo)
  OBVIOUS
<1>i. PICK i : i = name[p]
  OBVIOUS
<1>1. /\ p \in Paths /\ p \in todo /\ pc = "stat"
      /\ todo' = todo \ {p} /\ seen' = seen \cup {p}
      /\ UNCHANGED <<name, disk, cache>>
      /\ \/ UNCHANGED <<cursor, seeds, hist, rd, pc>>
         \/ /\ i \in Inodes /\ cursor[p] = None /\ Fingerprinted(seeds[p], i)
            /\ pc' = "check"
            /\ rd' = [NoRead EXCEPT !.path = p, !.at = Version(i), !.want = Size(i)]
            /\ UNCHANGED <<cursor, seeds, hist>>
         \/ i \in Inodes /\ Looks(p, Version(i)) /\ ReadUpTo(p, Size(i))
  BY StatLooks, <1>p, <1>i
<1>s. \/ i = None /\ pc' = pc
      \/ pc' = "check"
      \/ SeedFits(seeds[p], i) /\ ~ Fingerprinted(seeds[p], i) /\ Resume(p, Version(i))
      \/ ~ SeedFits(seeds[p], i) /\ Discover(p, Version(i), {})
      \/ Restart(p, i)
      \/ Follow(p, i)
  BY <1>p, <1>i DEF Stat
<1>2. seen' \cup todo' = seen \cup todo
  BY <1>1
<1>3. ASSUME UNCHANGED <<cursor, seeds, hist>>, pc' \in {"stat", "check"},
             \A q \in Paths : Consulting(q)'
      PROVE  AdvInv'
  BY <1>1, <1>2, <1>3
  DEF AdvInv, AdvPath, SeedCached, CacheMatches, Advanced, Resumable, Sized, Listed,
      Valid, Rewrites, Clean, Size, Version, Reading
<1>4. CASE UNCHANGED <<cursor, seeds, hist, rd, pc>>
  BY <1>1, <1>3, <1>4 DEF Consulting
<1>5. CASE /\ i \in Inodes /\ cursor[p] = None /\ Fingerprinted(seeds[p], i)
           /\ pc' = "check"
           /\ rd' = [NoRead EXCEPT !.path = p, !.at = Version(i), !.want = Size(i)]
           /\ UNCHANGED <<cursor, seeds, hist>>
  <2>1. rd'.at = Version(i) /\ rd'.want = Size(i) /\ rd'.path = p /\ Version(i)[1] = i
    BY <1>5 DEF NoRead, Version
  <2>2. Size(i) \in Nat
    BY <1>1, <1>5, AdvTypes
  <2>3. Consulting(p)'
    BY <1>1, <1>5, <2>1, <2>2 DEF Consulting, Fingerprinted, SeedFits, Valid, Version, Size
  <2>4. \A q \in Paths \ {p} : Consulting(q)'
    BY <2>1 DEF Consulting
  <2>5. \A q \in Paths : Consulting(q)'
    BY <2>3, <2>4
  <2> QED
    BY <1>3, <1>5, <2>5
<1>6. CASE i \in Inodes /\ Looks(p, Version(i)) /\ ReadUpTo(p, Size(i))
  <2>1. Version(i) \in Inodes \X Nat /\ Known(Version(i)) /\ Version(i)[1] = i
    BY <1>6, VersionKnown DEF Version
  <2>2. AdvPath(p) /\ Size(i) \in Nat
    BY <1>1, <1>6, AdvTypes DEF AdvInv
  <2>3. i # None /\ pc' # "check"
    BY <1>6, NoneAssumption DEF ReadUpTo
  <2>7. LooksWell(p, Version(i))
    <3>1. CASE SeedFits(seeds[p], i) /\ Resume(p, Version(i))
      <4>1. seeds[p] # None /\ seeds[p].ino = Version(i)[1]
        BY <2>1, <3>1 DEF SeedFits
      <4> QED
        BY <3>1, <4>1 DEF LooksWell
    <3>2. CASE ~ SeedFits(seeds[p], i) /\ Discover(p, Version(i), {})
      <4>1. ASSUME Valid(cache[p]), cache[p].ino = i, name[p] = i PROVE FALSE
        <5>1. cursor[p] = None /\ pc # "down"
          BY <1>1, <3>2 DEF Discover
        <5>2. seeds[p] = cache[p]
          BY <2>2, <4>1, <5>1 DEF AdvPath, Resumable
        <5> QED
          BY <2>2, <3>2, <4>1, <5>2 DEF AdvPath, CacheMatches, SeedFits, Valid
      <4>2. {} \in SUBSET Flaws
        OBVIOUS
      <4> QED
        BY <2>1, <3>2, <4>1, <4>2 DEF LooksWell
    <3>3. CASE Restart(p, i) \/ Follow(p, i)
      BY <1>i, <2>1, <3>3 DEF LooksWell
    <3> QED
      BY <1>s, <1>1, <2>3, <3>1, <3>2, <3>3
  <2>8. Valid(cache[p]) /\ name[p] = cache[p].ino => cache[p].ino = Version(i)[1]
    BY <1>i, <2>1
  <2>9. /\ Version(i) = Version(Version(i)[1]) => Size(i) <= Size(Version(i)[1])
        /\ Valid(cache[p]) /\ cache[p].ino = Version(i)[1] => Version(i) = Version(Version(i)[1])
    BY <2>1, <2>2
  <2> QED
    BY <1>1, <1>2, <1>6, <2>1, <2>2, <2>7, <2>8, <2>9, AdvLooked
<1> QED
  BY <1>1, <1>4, <1>5, <1>6

LEMMA AdvCheck == TypeOK /\ ExactInv /\ AdvInv /\ Check => AdvInv'
<1> SUFFICES ASSUME TypeOK, ExactInv, AdvInv, Check PROVE AdvInv'
  OBVIOUS
<1> DEFINE p == rd.path
           v == rd.at
<1>1. /\ p \in Paths /\ pc = "check" /\ v \in Inodes \X Nat /\ rd.want \in Nat
      /\ UNCHANGED <<name, disk, cache, todo, seen>>
      /\ ReadUpTo(p, rd.want) /\ Known(v)
      /\ AdvPath(p)
  BY CheckLooks DEF ExactInv, InHand, AdvInv
<1>2. /\ cursor[p] = None /\ seeds[p] # None /\ seeds[p].ino = v[1]
      /\ v = Version(v[1]) => rd.want <= Size(v[1])
      /\ Valid(cache[p]) /\ cache[p].ino = v[1] => v = Version(v[1])
  BY <1>1 DEF AdvPath, Consulting
<1>3. Valid(cache[p]) /\ name[p] = cache[p].ino => seeds[p] = cache[p]
  BY <1>1, <1>2 DEF AdvPath, Resumable
<1>4. LooksWell(p, v)
  <2>1. CASE Resume(p, v)
    BY <1>2, <2>1 DEF LooksWell
  <2>2. CASE Discover(p, v, {"refused"})
    BY <2>2 DEF LooksWell, Flaws
  <2>3. CASE ~ SamePrefix(seeds[p], name[p]) /\ Discover(p, v, {})
    <3>1. ASSUME Valid(cache[p]), cache[p].ino = v[1], name[p] = v[1] PROVE FALSE
      BY <1>1, <1>3, <2>3, <3>1 DEF AdvPath, CacheMatches, SamePrefix
    <3> QED
      BY <2>3, <3>1 DEF LooksWell
  <2> QED
    BY <2>1, <2>2, <2>3 DEF Check
<1>5. seen' \cup todo' = seen \cup todo
  BY <1>1
<1>6. Valid(cache[p]) /\ name[p] = cache[p].ino => cache[p].ino = v[1]
  BY <1>2, <1>3
<1> HIDE DEF p, v
<1> QED
  BY <1>1, <1>2, <1>4, <1>5, <1>6, AdvLooked

LEMMA AdvOpen == TypeOK /\ AdvInv /\ Open => AdvInv'
<1> SUFFICES ASSUME TypeOK, AdvInv, Open, NEW p \in Paths PROVE AdvPath(p)'
  BY DEF AdvInv
<1>1. /\ UNCHANGED <<name, disk, cursor, seeds, cache, todo, seen, hist>>
      /\ pc = "open" /\ pc' \in {"stat", "read"} /\ AdvPath(p)
  BY DEF Open, AdvInv
<1>2. SeedCached(p)' /\ CacheMatches(p)' /\ Resumable(p)' /\ Listed(p)'
  BY <1>1
  DEF AdvPath, SeedCached, CacheMatches, Resumable, Listed, Valid, Size, Version
<1>3. Reading(p)' => Reading(p) /\ rd'.want = rd.want
  BY <1>1 DEF Open, Reading, NoRead, TypeOK
<1>4. Advanced(p)' /\ Sized(p)' /\ Consulting(p)'
  BY <1>1, <1>3
  DEF AdvPath, Advanced, Sized, Consulting, Rewrites, Clean, Valid, Version, Size
<1> QED
  BY <1>2, <1>4 DEF AdvPath

LEMMA AdvRead == TypeOK /\ ExactInv /\ AdvInv /\ (ReadChunk \/ FinishRead) => AdvInv'
<1> SUFFICES ASSUME TypeOK, ExactInv, AdvInv, ReadChunk \/ FinishRead, NEW p \in Paths
             PROVE  AdvPath(p)'
  BY DEF AdvInv
<1> DEFINE r == rd.path
<1>1. /\ UNCHANGED <<name, disk, seeds, cache, todo, seen>>
      /\ pc = "read" /\ pc' \in {"stat", "read"} /\ AdvPath(p)
  BY DEF ReadChunk, FinishRead, AdvInv
<1>2. /\ r \in Paths /\ cursor[r] \in Cursor /\ cursor[r] # None /\ cursor'[r] # None
      /\ cursor'[r].ino = cursor[r].ino
      /\ \A q \in Paths \ {r} : cursor'[q] = cursor[q] /\ hist'[q] = hist[q]
  BY ReadKeeps
<1>3. /\ (cursor'[p] = None <=> cursor[p] = None)
      /\ cursor[p] # None => cursor'[p].ino = cursor[p].ino
  BY <1>2
<1>4. SeedCached(p)' /\ CacheMatches(p)' /\ Resumable(p)' /\ Listed(p)' /\ Consulting(p)'
  BY <1>1, <1>3
  DEF AdvPath, SeedCached, CacheMatches, Resumable, Listed, Consulting, Valid, Size, Version
<1>5. Rewrites(p)' <=> Rewrites(p)
  BY <1>1, <1>3 DEF Rewrites, Valid, Version
<1>6. Clean(p)' => Clean(p)
  <2>1. CASE p = r /\ ReadChunk
    <3> DEFINE src == Join(hist[p].src, Version(rd.handle))
    <3>1. PICK out : hist' = [hist EXCEPT ![p].out = out, ![p].src = src]
      BY <2>1 DEF ReadChunk
    <3>2. rd.handle \in Inodes /\ hist[p] \in Hist
      BY <1>1 DEF TypeOK
    <3>3. \A j \in Inodes : src = Version(j) => hist[p].src = Version(j)
      BY <3>2, VersionKnown, JoinKnown
    <3> HIDE DEF src
    <3>4. hist'[p].src = src
      BY <3>1, <3>2 DEF TypeOK, Hist
    <3> QED
      BY <1>1, <1>2, <2>1, <3>3, <3>4 DEF Clean, Version, Cursor
  <2>2. CASE p # r \/ FinishRead
    BY <1>1, <1>2, <1>3, <2>2 DEF FinishRead, Clean, Version
  <2> QED
    BY <2>1, <2>2
<1>7. hist'[p].flaws = hist[p].flaws
  <2>1. CASE ReadChunk /\ p = r
    <3> DEFINE src == Join(hist[p].src, Version(rd.handle))
    <3>1. PICK out : hist' = [hist EXCEPT ![p].out = out, ![p].src = src]
      BY <2>1 DEF ReadChunk
    <3> HIDE DEF src
    <3> QED
      BY <3>1 DEF TypeOK, Hist
  <2>2. CASE FinishRead \/ p # r
    BY <1>2, <2>2 DEF FinishRead
  <2> QED
    BY <2>1, <2>2
<1>8. CASE p # r
  <2>1. ~ Reading(p)' /\ cursor'[p] = cursor[p]
    BY <1>1, <1>2, <1>8, NoneAssumption DEF ReadChunk, FinishRead, Reading, NoRead, TypeOK
  <2>2. Advanced(p)' /\ Sized(p)'
    BY <1>1, <1>5, <1>6, <1>7, <2>1 DEF AdvPath, Advanced, Sized, Size
  <2> QED
    BY <1>4, <2>2 DEF AdvPath
<1>9. CASE p = r /\ ReadChunk
  <2>1. cursor'[p].size = cursor[p].size /\ cursor'[p].offset = cursor[p].offset
    <3>1. PICK rest : cursor' = [cursor EXCEPT ![p].pending = rest]
      BY <1>9 DEF ReadChunk
    <3> QED
      BY <1>2, <1>9, <3>1 DEF TypeOK, Cursor
  <2>2. rd'.want = rd.want /\ rd'.path = r
    BY <1>9 DEF ReadChunk, TypeOK
  <2>3. Reading(p) /\ Reading(p)'
    BY <1>1, <1>9, <2>2 DEF Reading, ReadChunk
  <2>4. Advanced(p)' /\ Sized(p)'
    BY <1>1, <1>2, <1>5, <1>6, <1>7, <1>9, <2>1, <2>2, <2>3
    DEF AdvPath, Advanced, Sized, Size
  <2> QED
    BY <1>4, <2>4 DEF AdvPath
<1>10. CASE p = r /\ FinishRead
  <2>1. cursor'[p] = [cursor[p] EXCEPT !.offset = rd.pos, !.size = rd.want]
    BY <1>2, <1>10 DEF FinishRead, TypeOK
  <2>2. cursor'[p].size = rd.want /\ cursor'[p].offset = rd.pos
    BY <1>2, <1>10, <2>1 DEF Cursor
  <2>3. Reading(p) /\ ~ Reading(p)'
    BY <1>1, <1>10 DEF Reading, FinishRead
  <2>4. rd.pos >= cursor[p].offset /\ cursor[p].offset \in Nat /\ rd.pos \in Nat
    BY <1>1, <1>2, <1>10 DEF ExactInv, InHand, Cursor, TypeOK
  <2>5. Advanced(p)'
    <3> SUFFICES ASSUME Rewrites(p), name[p] = cache[p].ino, "refused" \notin hist[p].flaws
                 PROVE  rd.pos >= cache[p].offset
      BY <1>1, <1>5, <1>7, <2>2 DEF Advanced
    <3>1. cursor[p].offset >= cache[p].offset /\ cache[p].offset \in Nat
      BY <1>1, AdvTypes DEF AdvPath, Advanced, Rewrites, Valid
    <3> QED
      BY <2>4, <3>1
  <2>6. Sized(p)'
    BY <1>1, <1>2, <1>5, <1>6, <1>10, <2>2, <2>3 DEF AdvPath, Sized, Size
  <2> QED
    BY <1>4, <2>5, <2>6 DEF AdvPath
<1> QED
  BY <1>8, <1>9, <1>10

LEMMA AdvEndPoll == TypeOK /\ AdvInv /\ EndPoll => AdvInv'
<1> SUFFICES ASSUME TypeOK, AdvInv, EndPoll, NEW p \in Paths PROVE AdvPath(p)'
  BY DEF AdvInv
<1>1. /\ UNCHANGED <<name, disk, seeds, cache, rd>>
      /\ pc = "stat" /\ pc' = "idle" /\ todo = {} /\ AdvPath(p)
      /\ cursor'[p] = IF p \in Deleted THEN None ELSE cursor[p]
      /\ p \notin Deleted => hist'[p].src = hist[p].src /\ hist'[p].flaws = hist[p].flaws
  <2>1. hist[p] \in Hist
    BY DEF TypeOK
  <2>2. p \notin Deleted => hist'[p] = [hist[p] EXCEPT !.sent = Len(hist[p].out)]
    BY DEF EndPoll
  <2>3. p \notin Deleted => hist'[p].src = hist[p].src /\ hist'[p].flaws = hist[p].flaws
    BY <2>1, <2>2 DEF Hist
  <2> QED
    BY <2>3 DEF EndPoll, AdvInv
<1>2. SeedCached(p)' /\ CacheMatches(p)' /\ Listed(p)' /\ Consulting(p)'
  BY <1>1 DEF AdvPath, SeedCached, CacheMatches, Listed, Consulting, Valid, Size, Version
<1>3. Resumable(p)'
  BY <1>1 DEF AdvPath, Listed, Resumable, Valid, Version, Deleted
<1>4. Advanced(p)' /\ Sized(p)'
  BY <1>1
  DEF AdvPath, Advanced, Sized, Rewrites, Clean, Valid, Size, Version, Reading
<1> QED
  BY <1>2, <1>3, <1>4 DEF AdvPath

LEMMA AdvRaise == TypeOK /\ AdvInv /\ Raise => AdvInv'
<1> SUFFICES ASSUME TypeOK, AdvInv, Raise, NEW p \in Paths PROVE AdvPath(p)'
  BY DEF AdvInv
<1>1. /\ UNCHANGED <<name, disk, cursor, seeds, cache>>
      /\ pc # "down" /\ pc' = "raised" /\ AdvPath(p)
  BY DEF Raise, AdvInv
<1>2. /\ hist'[p].src = hist[p].src
      /\ "refused" \in hist[p].flaws => "refused" \in hist'[p].flaws
  <2>1. hist[p] \in Hist
    BY DEF TypeOK
  <2>2. \/ hist'[p] = hist[p]
        \/ hist'[p] = [hist[p] EXCEPT !.out = Take(@, hist[p].sent), !.flaws = @ \cup {"lost"}]
    BY DEF Raise
  <2> QED
    BY <2>1, <2>2 DEF Hist
<1>3. SeedCached(p)' /\ CacheMatches(p)' /\ Resumable(p)' /\ Listed(p)' /\ Consulting(p)'
  BY <1>1
  DEF AdvPath, SeedCached, CacheMatches, Resumable, Listed, Consulting, Valid, Size, Version
<1>4. Advanced(p)' /\ Sized(p)'
  BY <1>1, <1>2
  DEF AdvPath, Advanced, Sized, Rewrites, Clean, Valid, Size, Version, Reading
<1> QED
  BY <1>3, <1>4 DEF AdvPath

LEMMA AdvStep ==
  Cardinality(Paths) <= MaxFiles /\ TypeOK /\ ExactInv /\ AdvInv /\ [Next]_vars => AdvInv'
<1>1. TypeOK /\ AdvInv /\ UNCHANGED vars => AdvInv'
  BY DEF vars, AdvInv, AdvPath, SeedCached, CacheMatches, Advanced, Resumable, Sized,
         Consulting, Listed, Valid, Rewrites, Clean, Size, Version, Reading
<1> QED
  BY <1>1, AdvWriters, AdvStartStop, AdvWalk, AdvStat, AdvCheck, AdvOpen, AdvRead,
     AdvEndPoll, AdvRaise DEF Next, Poll

\* What a close saves of a cursor.
LEMMA SavedFields ==
  ASSUME NEW p \in Paths, NEW readable
  PROVE  /\ CachedCursorOf(p, readable).ino = cursor[p].ino
         /\ CachedCursorOf(p, readable).offset = cursor[p].offset
         /\ CachedCursorOf(p, readable).hist = hist[p]
<1> DEFINE prefix == IF readable THEN Take(disk[name[p]].data, FingerprintLen) ELSE << >>
<1>1. CachedCursorOf(p, readable) =
        [ino |-> cursor[p].ino, size |-> cursor[p].size, offset |-> cursor[p].offset,
         pending |-> cursor[p].pending, prefix |-> prefix, hist |-> hist[p]]
  BY DEF CachedCursorOf
<1> HIDE DEF prefix
<1> QED
  BY <1>1

\* No step writes a resume point before a good one.
LEMMA StepAdvances ==
  ASSUME TypeOK, AdvInv, [Next]_vars, NEW p \in Paths,
         cache[p] # None, cache'[p] # None, cache[p].ino = cache'[p].ino,
         cache[p].ino = name[p], cache[p].hist.src = Version(cache[p].ino),
         "refused" \notin cache'[p].hist.flaws
  PROVE  cache'[p].offset >= cache[p].offset
<1>1. CASE UNCHANGED cache
  BY <1>1, AdvTypes
<1>2. CASE Close
  <2>1. PICK readable : cursor[p] # None /\ cache'[p] = CachedCursorOf(p, readable)
    BY <1>2 DEF Close
  <2>2. /\ cache'[p].ino = cursor[p].ino /\ cache'[p].offset = cursor[p].offset
        /\ cache'[p].hist = hist[p]
    BY <2>1, SavedFields
  <2>3. Rewrites(p)
    BY <2>1, <2>2 DEF Rewrites, Valid
  <2> QED
    BY <2>2, <2>3 DEF AdvInv, AdvPath, Advanced
<1> QED
  BY <1>1, <1>2
  DEF Next, Poll, vars, Writers, Create, Write, Truncate, Unlink, EnvStep, Start, Crash,
      Walk, Stat, Check, Open, ReadChunk, FinishRead, EndPoll, Raise

\* As long as a walk has room for every session file, a saved resume point of a
\* file that is there and has only been appended to never moves back, whatever the
\* crashes, polls that raise, restarts and writers, unless the file could not be
\* read when its seed was consulted. Without room for all of them it can: a path a
\* walk left out is DELETEd, and read from the start when a later walk finds it.
THEOREM SavedPointsAdvance ==
  ASSUME Cardinality(Paths) <= MaxFiles
  PROVE  Spec => ResumePointAdvances
<1>1. TypeOK /\ ExactInv /\ AdvInv /\ [Next]_vars => AdvInv'
  BY AdvStep
<1>2. TypeOK /\ AdvInv /\ [Next]_vars =>
        [\A p \in Paths :
           /\ cache[p] # None /\ cache'[p] # None
           /\ cache[p].ino = cache'[p].ino /\ cache[p].ino = name[p]
           /\ cache[p].hist.src = Version(cache[p].ino)
           /\ "refused" \notin cache'[p].hist.flaws
           => cache'[p].offset >= cache[p].offset]_vars
  BY StepAdvances
<1> QED
  BY <1>1, <1>2, AdvInit, WholeInit, WholeStep, ExactInit, ExactStep, TypeCorrect, PTL
  DEF Spec, ResumePointAdvances

=============================================================================
