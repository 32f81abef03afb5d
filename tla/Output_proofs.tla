--------------------------- MODULE Output_proofs ---------------------------
(***************************************************************************)
(* Theorems about what codevigil shows: the reports (Reports, with Cohort) *)
(* and the screen (Screen), for every value of their constants: any files, *)
(* lines, commands, windows and changes while a report is made, and any    *)
(* fleets, ids, roots, directories and store contents.                     *)
(***************************************************************************)
EXTENDS Reports, Screen, FiniteSetTheorems, SequenceTheorems, NaturalsInduction, TLAPS

---------------------------------------------------------------------------
(* Least and greatest elements                                             *)

LEMMA MinIs ==
  ASSUME NEW S \in SUBSET Nat, S # {}
  PROVE  Min(S) \in S /\ \A y \in S : Min(S) <= y
<1>1. PICK x \in S : \A y \in S : ~ (<<y, x>> \in OpToRel(<, Nat))
  BY NatLessThanWellFounded, WFMin
<1>2. \A y \in S : ~ (y < x)
  BY <1>1 DEF OpToRel
<1>3. \A y \in S : x <= y
  BY <1>2
<1> QED
  BY <1>3 DEF Min

\* The element with the fewest greater ones is the greatest.
LEMMA MaxIs ==
  ASSUME NEW S \in SUBSET Nat, S # {}, IsFiniteSet(S)
  PROVE  Max(S) \in S /\ \A y \in S : y <= Max(S)
<1> DEFINE above(x) == {y \in S : x < y}
           counts == {Cardinality(above(x)) : x \in S}
<1>1. \A x \in S : IsFiniteSet(above(x)) /\ Cardinality(above(x)) \in Nat
  BY FS_Subset, FS_CardinalityType
<1>2. counts \subseteq Nat /\ counts # {}
  BY <1>1
<1>3. Min(counts) \in counts /\ \A y \in counts : Min(counts) <= y
  BY <1>2, MinIs
<1>4. PICK x \in S : \A y \in S : Cardinality(above(x)) <= Cardinality(above(y))
  BY <1>3
<1>5. \A y \in S : ~ (x < y)
  <2> SUFFICES ASSUME NEW y \in S, x < y
               PROVE  FALSE
    OBVIOUS
  <2>0. x \in Nat /\ y \in Nat /\ x < y /\ S \subseteq Nat
    OBVIOUS
  <2>1. above(y) \subseteq above(x) /\ y \in above(x) /\ y \notin above(y)
    <3>1. \A z \in S : y < z => x < z
      BY <2>0
    <3>2. ~ (y < y)
      BY <2>0
    <3> QED
      BY <2>0, <3>1, <3>2
  <2>2. Cardinality(above(y)) <= Cardinality(above(x)) /\ Cardinality(above(y)) # Cardinality(above(x))
    <3> HIDE DEF above
    <3> QED
      BY <1>1, <2>1, FS_Subset
  <2> HIDE DEF above
  <2> QED
    BY <1>1, <1>4, <2>2
<1>6. \A y \in S : x >= y
  BY <1>5
<1> QED
  BY <1>6 DEF Max

\* So is that of a bounded set, which is reached from its bound.
LEMMA Greatest ==
  ASSUME NEW S \in SUBSET Nat, S # {}, NEW b \in Nat, \A y \in S : y <= b
  PROVE  /\ \E x \in S : \A y \in S : y <= x
         /\ Max(S) \in S /\ \A y \in S : y <= Max(S)
<1> DEFINE T == {b - y : y \in S}
<1>1. T \in SUBSET Nat /\ T # {}
  <2>1. \A y \in S : b - y \in Nat
    OBVIOUS
  <2> QED
    BY <2>1
<1>2. PICK t \in T : \A u \in T : t <= u
  BY <1>1, MinIs
<1>3. PICK x \in S : t = b - x
  BY <1>2
<1>4. ASSUME NEW y \in S PROVE y <= x
  <2>1. b - x <= b - y
    BY <1>2, <1>3
  <2> QED
    BY <2>1
<1> QED
  BY <1>4 DEF Max

\* The day of an instant, and its week.
LEMMA DayIs ==
  ASSUME NEW t \in Nat
  PROVE  /\ DayOf(t) \in Nat /\ DayOf(t) <= t /\ (t >= DayLength => DayOf(t) >= 1)
         /\ DayOf(t) * DayLength <= t /\ t < DayOf(t) * DayLength + DayLength
         /\ DayOf(t) \div WeekLength \in Nat /\ DayOf(t) \div WeekLength <= t
<1>1. PICK d \in Nat \ {0} : d = DayLength
  BY CohortAssumption
<1>2. /\ t \div d \in Nat /\ t \div d <= t /\ (t >= d => t \div d >= 1)
      /\ (t \div d) * d <= t /\ t < (t \div d) * d + d
  OBVIOUS
<1>3. PICK w \in Nat \ {0} : w = WeekLength
  BY CohortAssumption
<1>4. \A n \in Nat : n \div w \in Nat /\ n \div w <= n
  OBVIOUS
<1>5. PICK n \in Nat : n = t \div d
  BY <1>2
<1>6. n \div w \in Nat /\ n \div w <= t
  <2>1. n \div w \in Nat /\ n \div w <= n
    BY <1>4
  <2> QED
    BY <1>2, <1>5, <2>1
<1> QED
  BY <1>1, <1>2, <1>3, <1>5, <1>6 DEF DayOf

---------------------------------------------------------------------------
(* What is read of a file                                                  *)

FileLine ==
  {l \in [at : Nat, kind : {"think", "plain", "junk"}] : l.at = Undated \/ l.at >= DayLength}

\* Days are numbered from 1, also that of an undated event.
LEMMA TimesAre ==
  ASSUME clock \in Nat, clock >= DayLength, NEW l \in FileLine
  PROVE  TimeOf(l) \in Nat /\ TimeOf(l) >= DayLength
  BY CohortAssumption DEF TimeOf, FileLine

\* The events counted are finitely many.
LEMMA CountedAre ==
  ASSUME NEW lines \in Seq(FileLine), NEW lo, NEW hi
  PROVE  /\ Counted(lines, lo, hi) \subseteq 1 .. Len(lines) /\ IsFiniteSet(Counted(lines, lo, hi))
         /\ Cardinality(Counted(lines, lo, hi)) \in Nat
<1>1. DOMAIN lines = 1 .. Len(lines) /\ Len(lines) \in Nat
  BY LenProperties
<1>2. Counted(lines, lo, hi) \subseteq 1 .. Len(lines)
  BY <1>1 DEF Counted, UpToTheEnd, EventsOf
<1>3. IsFiniteSet(1 .. Len(lines))
  BY <1>1, FS_Interval
<1> QED
  BY <1>2, <1>3, FS_Subset, FS_CardinalityType

\* A row is of the file, within the window, and counts what is counted.
LEMMA LoadedIs ==
  ASSUME clock \in Nat, clock >= DayLength,
         NEW f, NEW lines \in Seq(FileLine), NEW lo, NEW hi, NEW r \in LoadOne(f, lines, lo, hi)
  PROVE  /\ r.file = f /\ InWindow(r.start, lo, hi) /\ InWindow(r.end, lo, hi)
         /\ r.start \in Nat /\ r.start >= DayLength
         /\ Counted(lines, lo, hi) # {} /\ r.count = Cardinality(Counted(lines, lo, hi))
<1>1. PICK S \in SUBSET Nat : S = Counted(lines, lo, hi)
  <2>1. 1 .. Len(lines) \subseteq Nat
    BY LenProperties
  <2> QED
    BY <2>1, CountedAre
<1>2. S # {} /\ r = RowFor(f, lines, S)
  BY <1>1 DEF LoadOne
<1>3. Min(S) \in S
  BY <1>2, MinIs
<1>4. Max(S) \in S
  <2>1. \A y \in S : y <= Len(lines)
    BY <1>1, CountedAre, LenProperties
  <2> QED
    BY <1>2, <2>1, LenProperties, Greatest
<1>5. \A k \in S : lines[k] \in FileLine /\ InWindow(TimeOf(lines[k]), lo, hi)
  BY <1>1, CountedAre, LenProperties DEF Counted
<1>6. r.file = f /\ r.start = TimeOf(lines[Min(S)]) /\ r.end = TimeOf(lines[Max(S)])
      /\ r.count = Cardinality(S)
  BY <1>2 DEF RowFor
<1> QED
  BY <1>1, <1>2, <1>3, <1>4, <1>5, <1>6, TimesAre

\* Of a file in order nothing in the window lies behind an event past it.
LEMMA AllIsCounted ==
  ASSUME NEW lines \in Seq(FileLine), Chronologic(lines), NEW lo \in Int, NEW hi \in Int
  PROVE  Counted(lines, lo, hi) =
           {k \in DOMAIN lines : lines[k].kind # "junk" /\ InWindow(lines[k].at, lo, hi)}
<1>1. ASSUME NEW k \in DOMAIN lines, lines[k].kind # "junk"
      PROVE  TimeOf(lines[k]) = lines[k].at /\ lines[k].at \in Nat
  <2>1. lines[k] \in FileLine
    BY LenProperties
  <2> QED
    BY <1>1, <2>1 DEF Chronologic, TimeOf, FileLine
<1>2. ASSUME NEW k \in DOMAIN lines, lines[k].kind # "junk", InWindow(lines[k].at, lo, hi),
             NEW j \in DOMAIN lines, lines[j].kind # "junk", j <= k
      PROVE  ~ IsAfter(lines[j].at, hi)
  <2>1. lines[j].at \in Nat /\ lines[k].at \in Nat
    BY <1>1, <1>2
  <2>2. lines[j].at <= lines[k].at
    <3>1. CASE j = k
      BY <2>1, <3>1
    <3>2. CASE j # k
      <4>1. j < k
        BY <1>2, <3>2, LenProperties
      <4> QED
        BY <1>2, <4>1 DEF Chronologic
    <3> QED
      BY <3>1, <3>2
  <2> QED
    BY <1>2, <2>1, <2>2 DEF InWindow, IsAfter
<1> QED
  BY <1>1, <1>2 DEF Counted, UpToTheEnd, EventsOf

IsPrefixOf(a, b) == Len(a) <= Len(b) /\ \A k \in 1 .. Len(a) : a[k] = b[k]

\* Of a file that has grown, a window that begins no later counts no less.
LEMMA CountedGrow ==
  ASSUME clock \in Nat, clock >= DayLength, NEW a \in Seq(FileLine), NEW b \in Seq(FileLine), IsPrefixOf(a, b),
         NEW v \in Int, NEW w \in Int, v >= w, NEW hi
  PROVE  Counted(a, v, hi) \subseteq Counted(b, w, hi)
<1>1. DOMAIN a = 1 .. Len(a) /\ DOMAIN b = 1 .. Len(b) /\ Len(a) \in Nat /\ Len(b) \in Nat
  BY LenProperties
<1>2. \A k \in 1 .. Len(a) : k \in 1 .. Len(b) /\ a[k] = b[k] /\ TimeOf(a[k]) \in Nat
  BY <1>1, TimesAre, LenProperties DEF IsPrefixOf
<1> SUFFICES ASSUME NEW k \in Counted(a, v, hi) PROVE k \in Counted(b, w, hi)
  OBVIOUS
<1>3. k \in EventsOf(a) /\ InWindow(TimeOf(a[k]), v, hi)
      /\ \A j \in EventsOf(a) : j <= k => ~ IsAfter(TimeOf(a[j]), hi)
  BY DEF Counted, UpToTheEnd
<1>4. k \in EventsOf(b) /\ InWindow(TimeOf(b[k]), w, hi)
  <2>1. k \in 1 .. Len(a)
    BY <1>1, <1>3 DEF EventsOf
  <2> QED
    BY <1>1, <1>2, <1>3, <2>1 DEF EventsOf, InWindow, NoBound
<1>5. \A j \in EventsOf(b) : j <= k => j \in EventsOf(a) /\ a[j] = b[j]
  <2> SUFFICES ASSUME NEW j \in EventsOf(b), j <= k PROVE j \in EventsOf(a) /\ a[j] = b[j]
    OBVIOUS
  <2>1. k \in 1 .. Len(a) /\ j \in 1 .. Len(b)
    BY <1>1, <1>3 DEF EventsOf
  <2>2. j \in 1 .. Len(a)
    BY <1>1, <2>1
  <2> QED
    BY <1>1, <1>2, <2>2 DEF EventsOf
<1> QED
  BY <1>3, <1>4, <1>5 DEF Counted, UpToTheEnd

---------------------------------------------------------------------------
(* The inductive invariant of Reports                                      *)

MetricSets == UNION {[D -> Nat] : D \in SUBSET {"events", "thinking"}}
Rows ==
  [file : Files, start : Nat, end : Nat, count : Nat, metrics : MetricSets]
    \cup [file : Files, count : Nat, drifts : BOOLEAN]
Bounds == [lo : Int, hi : Int]
Reads == [window : Nat, file : Files, lines : Seq(FileLine)]

DiskOK ==
  /\ disk \in [Files -> Seq(FileLine)] /\ there \in SUBSET Files
  /\ clock \in Nat /\ clock >= DayLength

Loading ==
  [pc : {"filter", "load"}, args : Commands, windows : Seq(Bounds), todo : SUBSET Files,
   files : SUBSET Files, rows : Seq(SUBSET Rows), read : SUBSET Reads]

\* Each file is read once for a window, and gives the rows of the window.
EachOnce(read) == \A x, y \in read : x.window = y.window /\ x.file = y.file => x = y
RowsRead(windows, rows, read) ==
  /\ \A x \in read : x.window \in DOMAIN rows
  /\ \A v \in DOMAIN rows : \A r :
       r \in rows[v] <=>
         \E x \in read : x.window = v /\ r \in LoadOne(x.file, x.lines, windows[v].lo, windows[v].hi)
  /\ \E b \in Nat : \A v \in DOMAIN rows : \A r \in rows[v] : r.start <= b

\* What is read of a file that is there only grows.
Grown(read) ==
  \A x \in read : x.file \in there =>
    /\ IsPrefixOf(x.lines, disk[x.file])
    /\ \A y \in read : x.file = y.file /\ x.window <= y.window => IsPrefixOf(x.lines, y.lines)

\* Every file was read for the windows before, and those not to do for this one.
Covered(c) ==
  /\ c.todo \subseteq c.files /\ \A x \in c.read : x.file \in c.files
  /\ \A v \in DOMAIN c.rows, f \in c.files :
       (v < Len(c.rows) \/ f \notin c.todo) <=> \E x \in c.read : x.window = v /\ x.file = f

Windowed(c) ==
  c.args.mode = "multi" => \E now \in Nat : now >= DayLength /\ c.windows = WindowsAt(now)

\* A command that reads.
LoadFor(c) ==
  /\ c \in Loading /\ ~ RefusedArgs(c.args) /\ Windowed(c)
  /\ Len(c.rows) >= 1 /\ Len(c.rows) <= Len(c.windows)
  /\ c.pc = "filter" => c.args.mode = "single"
  /\ c.args.mode # "single" =>
       /\ EachOnce(c.read) /\ RowsRead(c.windows, c.rows, c.read) /\ Grown(c.read) /\ Covered(c)

\* A command that is done has its result, and has read all its files for each window.
DoneFor(c) ==
  /\ c.args \in Commands /\ ~ RefusedArgs(c.args) /\ Windowed(c)
  /\ c.windows \in Seq(Bounds) /\ c.rows \in Seq(SUBSET Rows) /\ c.read \in SUBSET Reads
  /\ Len(c.rows) >= 1 /\ Len(c.rows) = Len(c.windows)
  /\ c.result = Result(c.args, c.rows[1]) /\ c.result.exit = 0
  /\ c.args.mode # "single" =>
       /\ EachOnce(c.read) /\ RowsRead(c.windows, c.rows, c.read) /\ Grown(c.read)
       /\ \A x \in c.read : \A w \in DOMAIN c.windows :
            \E y \in c.read : y.window = w /\ y.file = x.file

LoadInv == cmd.pc \in {"filter", "load"} => LoadFor(cmd)
DoneInv == cmd.pc = "done" /\ cmd.exit = 0 => DoneFor(cmd)
ReportInv == DiskOK /\ cmd.pc \in {"idle", "filter", "load", "done"} /\ LoadInv /\ DoneInv

\* What is loaded has the type of rows.
LEMMA RowsAre ==
  ASSUME clock \in Nat, clock >= DayLength, NEW f \in Files, NEW lines \in Seq(FileLine),
         NEW lo, NEW hi
  PROVE  LoadOne(f, lines, lo, hi) \in SUBSET Rows
<1> SUFFICES ASSUME NEW r \in LoadOne(f, lines, lo, hi) PROVE r \in Rows
  OBVIOUS
<1>1. PICK S \in SUBSET Nat : S = Counted(lines, lo, hi) /\ IsFiniteSet(S)
  <2>1. 1 .. Len(lines) \subseteq Nat
    BY LenProperties
  <2> QED
    BY <2>1, CountedAre
<1>2. S # {} /\ r = RowFor(f, lines, S)
  BY <1>1 DEF LoadOne
<1>3. PICK n \in Nat : n = Cardinality(S)
  BY <1>1, FS_CardinalityType
<1>4. PICK k \in Nat : k = Thinks(lines, S)
  <2>1. IsFiniteSet({i \in S : lines[i].kind = "think"})
    BY <1>1, FS_Subset
  <2> QED
    BY <2>1, FS_CardinalityType DEF Thinks
<1>5. PICK D \in SUBSET {"events", "thinking"} :
        D = {"events"} \cup IF k = 0 THEN {} ELSE {"thinking"}
  OBVIOUS
<1>6. PICK metrics \in [D -> Nat] : metrics = [m \in D |-> IF m = "events" THEN n ELSE k]
  OBVIOUS
<1>7. metrics = MetricsIn(lines, S) /\ metrics \in MetricSets
  BY <1>3, <1>4, <1>5, <1>6 DEF MetricsIn, MetricSets
<1>8. Min(S) \in S
  BY <1>2, MinIs
<1>9. Max(S) \in S
  <2>1. \A y \in S : y <= Len(lines)
    BY <1>1, CountedAre, LenProperties
  <2> QED
    BY <1>2, <2>1, LenProperties, Greatest
<1>10. \A i \in S : TimeOf(lines[i]) \in Nat
  <2>1. \A i \in S : lines[i] \in FileLine
    BY <1>1, CountedAre, LenProperties
  <2> QED
    BY <2>1, TimesAre
<1>11. r = [file |-> f, start |-> TimeOf(lines[Min(S)]), end |-> TimeOf(lines[Max(S)]),
            count |-> n, metrics |-> metrics]
  BY <1>2, <1>3, <1>7 DEF RowFor
<1> QED
  BY <1>7, <1>8, <1>9, <1>10, <1>11 DEF Rows

\* The clock stands still while a command reads.
LEMMA LoadStays ==
  ASSUME UNCHANGED clock, NEW f, NEW lines, NEW lo, NEW hi
  PROVE  LoadOne(f, lines, lo, hi)' = LoadOne(f, lines, lo, hi)
<1>1. \A l : TimeOf(l)' = TimeOf(l)
  BY DEF TimeOf
<1>2. Counted(lines, lo, hi)' = Counted(lines, lo, hi)
  BY <1>1 DEF Counted, UpToTheEnd
<1>3. \A S : RowFor(f, lines, S)' = RowFor(f, lines, S)
  BY <1>1 DEF RowFor
<1> QED
  BY <1>2, <1>3 DEF LoadOne

\* A file that is gone reads as empty.
LEMMA LinesAre ==
  ASSUME DiskOK, NEW f \in Files
  PROVE  Lines(f) \in Seq(FileLine) /\ (f \in there => Lines(f) = disk[f])
<1>1. PICK none \in Seq(FileLine) : none = <<>>
  BY EmptySeq
<1> QED
  BY <1>1 DEF DiskOK, Lines

LEMMA Reflexive == \A s \in Seq(FileLine) : IsPrefixOf(s, s)
  BY LenProperties DEF IsPrefixOf

---------------------------------------------------------------------------
(* Every step of a report and of the agents keeps it                       *)

LEMMA StartsRight == ReportInit => ReportInv
  BY ReportsAssumption DEF ReportInit, ReportInv, DiskOK, LoadInv, DoneInv, FileLine

\* The windows of a command that is not refused.
LEMMA WindowsAre ==
  ASSUME DiskOK, NEW c \in Commands, ~ RefusedArgs(c)
  PROVE  /\ WindowsOf(c) \in Seq(Bounds) /\ Len(WindowsOf(c)) >= 1
         /\ c.mode = "multi" => WindowsOf(c) = WindowsAt(clock)
<1>1. PICK d \in Nat \ {0}, p \in Nat, q \in Nat : d = DayLength /\ p = Spans[1] /\ q = Spans[2]
  BY CohortAssumption, ReportsAssumption
<1>2. PICK t \in Nat : t = clock
  BY DEF DiskOK
<1>3. CASE c.mode = "multi"
  <2>1. PICK n \in Nat : n = DayOf(t)
    BY DayIs
  <2>2. n * d \in Int /\ t - p \in Int /\ t - q \in Int
    OBVIOUS
  <2>3. PICK b1 \in Bounds, b2 \in Bounds, b3 \in Bounds :
          b1 = [lo |-> n * d, hi |-> t] /\ b2 = [lo |-> t - p, hi |-> t] /\ b3 = [lo |-> t - q, hi |-> t]
    <3>1. \A x \in Int, y \in Int : [lo |-> x, hi |-> y] \in Bounds
      BY DEF Bounds
    <3>2. [lo |-> n * d, hi |-> t] \in Bounds /\ [lo |-> t - p, hi |-> t] \in Bounds
          /\ [lo |-> t - q, hi |-> t] \in Bounds
      BY <2>2, <3>1
    <3> QED
      BY <3>2
  <2>4. WindowsOf(c) = WindowsAt(clock) /\ WindowsAt(clock) = << b1, b2, b3 >>
    BY <1>1, <1>2, <1>3, <2>1, <2>3 DEF WindowsOf, WindowsAt
  <2>5. << b1, b2, b3 >> \in Seq(Bounds) /\ Len(<< b1, b2, b3 >>) = 3
    OBVIOUS
  <2> QED
    BY <2>4, <2>5
<1>4. CASE c.mode \in {"group", "single"}
  <2>1. c.from \in Nat \cup {BadDate} /\ c.to \in Nat \cup {BadDate}
    BY <1>4, ReportsAssumption
  <2>2. FirstOf(c.from) \in Int /\ LastInstant(c.to) \in Int
    BY <1>1, <2>1 DEF FirstOf, LastInstant, DateOf, NoBound, NoDate, BadDate
  <2>3. PICK b \in Bounds : b = [lo |-> FirstOf(c.from), hi |-> LastInstant(c.to)]
    BY <2>2 DEF Bounds
  <2>4. WindowsOf(c) = << b >>
    BY <1>4, <2>3 DEF WindowsOf
  <2> QED
    BY <1>4, <2>4
<1>5. CASE c.mode \in {"compare", "pivot"}
  <2>1. PICK b \in Bounds : b = [lo |-> NoBound, hi |-> NoBound]
    <3>1. [lo |-> NoBound, hi |-> NoBound] \in Bounds
      BY DEF Bounds, NoBound
    <3> QED
      BY <3>1
  <2>2. WindowsOf(c) = << b >>
    BY <1>5, <2>1 DEF WindowsOf
  <2> QED
    BY <1>5, <2>2
<1>6. c.mode \in {"multi", "single", "group", "compare", "pivot"}
  BY ReportsAssumption DEF RefusedArgs
<1> QED
  BY <1>3, <1>4, <1>5, <1>6

\* A command that starts has read nothing yet.
LEMMA StartKeeps ==
  ASSUME ReportInv, NEW c \in Commands, ReportStart(c)
  PROVE  ReportInv'
<1>1. DiskOK /\ DiskOK'
  BY CohortAssumption DEF ReportInv, DiskOK, ReportStart
<1>2. CASE RefusedArgs(c)
  BY <1>1, <1>2 DEF ReportStart, ReportInv, LoadInv, DoneInv
<1>3. CASE ~ RefusedArgs(c)
  <2>1. PICK windows \in Seq(Bounds) : windows = WindowsOf(c) /\ Len(windows) >= 1
    BY <1>1, <1>3, WindowsAre
  <2>2. PICK pc \in {"filter", "load"} : pc = IF c.mode = "single" THEN "filter" ELSE "load"
    OBVIOUS
  <2>3. PICK rows \in Seq(SUBSET Rows) : rows = <<{}>>
    <3>1. PICK e \in SUBSET Rows : e = {}
      OBVIOUS
    <3>2. PICK R : R = SUBSET Rows
      OBVIOUS
    <3>3. <<e>> \in Seq(R)
      BY <3>1, <3>2
    <3> QED
      BY <3>1, <3>2, <3>3
  <2>4. Len(rows) = 1 /\ DOMAIN rows = {1} /\ rows[1] = {}
    BY <2>3
  <2>5. cmd' = [pc |-> pc, args |-> c, windows |-> windows, todo |-> there, files |-> there,
                rows |-> rows, read |-> {}]
    BY <1>3, <2>1, <2>2, <2>3 DEF ReportStart
  <2>6. PICK k : k = cmd'
    OBVIOUS
  <2>7. /\ k \in Loading /\ k.pc = pc /\ k.args = c /\ k.windows = windows /\ k.rows = rows
        /\ k.read = {} /\ k.todo = there /\ k.files = there
    BY <1>1, <2>5, <2>6 DEF Loading, DiskOK
  <2>8. Windowed(k)
    BY <1>1, <1>3, <2>1, <2>7, WindowsAre DEF Windowed, DiskOK
  <2>9. EachOnce(k.read) /\ Covered(k)
    <3>1. EachOnce(k.read)
      BY <2>7 DEF EachOnce
    <3>2. k.todo \subseteq k.files /\ \A x \in k.read : x.file \in k.files
      BY <2>7
    <3>3. \A v \in DOMAIN k.rows, f \in k.files :
            ~ (v < Len(k.rows) \/ f \notin k.todo) /\ ~ \E x \in k.read : x.window = v /\ x.file = f
      <4>1. DOMAIN k.rows = {1} /\ Len(k.rows) = 1
        BY ONLY <2>4, <2>7
      <4>2. k.files = k.todo /\ k.read = {}
        BY ONLY <2>7
      <4> QED
        BY ONLY <4>1, <4>2
    <3> QED
      BY <3>1, <3>2, <3>3 DEF Covered
  <2>10. RowsRead(windows, rows, {})'
    <3>1. \A v \in DOMAIN rows : rows[v] = {}
      BY <2>4
    <3> QED
      BY <3>1 DEF RowsRead
  <2>11. Grown({})'
    BY DEF Grown
  <2>12. LoadInv'
    <3>1. ~ RefusedArgs(k.args)
      BY <1>3, <2>7
    <3>2. Len(k.rows) >= 1 /\ Len(k.rows) <= Len(k.windows)
      <4>1. Len(k.rows) = 1 /\ k.windows = windows
        BY ONLY <2>4, <2>7
      <4>2. PICK n \in Nat : n = Len(windows)
        BY LenProperties
      <4>3. n >= 1
        BY ONLY <2>1, <4>2
      <4> QED
        BY ONLY <4>1, <4>2, <4>3
    <3>3. k.pc = "filter" => k.args.mode = "single"
      BY <2>2, <2>7
    <3>4. RowsRead(k.windows, k.rows, k.read)' /\ Grown(k.read)'
      BY <2>7, <2>10, <2>11
    <3>5. RefusedArgs(k.args)' = RefusedArgs(k.args) /\ Windowed(k)' = Windowed(k)
          /\ EachOnce(k.read)' = EachOnce(k.read) /\ Covered(k)' = Covered(k)
      BY DEF RefusedArgs, Windowed, WindowsAt, EachOnce, Covered
    <3> QED
      BY <2>6, <2>7, <2>8, <2>9, <3>1, <3>2, <3>3, <3>4, <3>5 DEF LoadInv, LoadFor
  <2> QED
    BY <1>1, <2>2, <2>5, <2>12 DEF ReportInv, DoneInv
<1> QED
  BY <1>2, <1>3

LEMMA FilterKeeps ==
  ASSUME ReportInv, ReportFilter \/ ReportFiltered
  PROVE  ReportInv'
<1>1. DiskOK /\ DiskOK' /\ cmd.pc = "filter" /\ cmd \in Loading /\ cmd.args.mode = "single"
  BY DEF ReportInv, LoadInv, LoadFor, DiskOK, ReportFilter, ReportFiltered
<1>2. PICK pc \in {"filter", "load"}, todo \in SUBSET Files, files \in SUBSET Files :
        cmd' = [cmd EXCEPT !.pc = pc, !.todo = todo, !.files = files]
  <2>1. CASE ReportFilter
    <3>1. PICK f : f = Min(cmd.todo)
      OBVIOUS
    <3>2. PICK files : files = IF KeptByDate(f, cmd.windows[1].lo, cmd.windows[1].hi) THEN cmd.files
                               ELSE cmd.files \ {f}
      OBVIOUS
    <3>3. cmd' = [cmd EXCEPT !.todo = cmd.todo \ {f}, !.files = files]
      BY <2>1, <3>1, <3>2, <1>1 DEF ReportFilter, Loading
    <3>4. cmd.pc \in {"filter", "load"} /\ cmd.todo \ {f} \in SUBSET Files /\ files \in SUBSET Files
      BY <1>1, <3>2 DEF Loading
    <3>5. cmd' = [cmd EXCEPT !.pc = cmd.pc, !.todo = cmd.todo \ {f}, !.files = files]
      BY <1>1, <3>3 DEF Loading
    <3> QED
      BY <3>4, <3>5
  <2>2. CASE ReportFiltered
    <3>1. cmd' = [cmd EXCEPT !.pc = "load", !.todo = cmd.files]
      BY <2>2 DEF ReportFiltered
    <3>2. cmd' = [cmd EXCEPT !.pc = "load", !.todo = cmd.files, !.files = cmd.files]
      BY <1>1, <3>1 DEF Loading
    <3>3. cmd.files \in SUBSET Files
      BY <1>1 DEF Loading
    <3> QED
      BY <3>2, <3>3
  <2> QED
    BY <2>1, <2>2
<1>3. cmd' \in Loading /\ cmd'.args = cmd.args /\ cmd'.windows = cmd.windows /\ cmd'.rows = cmd.rows
      /\ cmd'.pc = pc
  BY <1>1, <1>2 DEF Loading
<1>4. LoadInv'
  BY <1>1, <1>3 DEF ReportInv, LoadInv, LoadFor, RefusedArgs, Windowed, WindowsAt
<1> QED
  BY <1>1, <1>3, <1>4 DEF ReportInv, DoneInv

\* What depends on the files and the clock alone.
LEMMA ReadStays ==
  ASSUME UNCHANGED clock, NEW windows, NEW rows, NEW read
  PROVE  RowsRead(windows, rows, read)' <=> RowsRead(windows, rows, read)
<1>1. \A f, lines, lo, hi : LoadOne(f, lines, lo, hi)' = LoadOne(f, lines, lo, hi)
  BY LoadStays
<1> QED
  BY <1>1 DEF RowsRead

\* While a command reads, nothing that leaves it alone but the lines it has read
\* and the files that are there can disturb it.
LEMMA OthersKeep ==
  ASSUME ReportInv, DiskOK', UNCHANGED <<clock, cmd>>, \A read : Grown(read) /\ read \in SUBSET Reads => Grown(read)'
  PROVE  ReportInv'
<1>1. PICK c : c = cmd
  OBVIOUS
<1>2. cmd' = c
  BY <1>1
<1>3. LoadFor(c) => LoadFor(c)'
  <2> SUFFICES ASSUME LoadFor(c) PROVE LoadFor(c)'
    OBVIOUS
  <2>1. c.read \in SUBSET Reads
    BY DEF LoadFor, Loading
  <2>2. c.args.mode # "single" => RowsRead(c.windows, c.rows, c.read)' /\ Grown(c.read)'
    BY <2>1, ReadStays DEF LoadFor
  <2>3. RefusedArgs(c.args)' = RefusedArgs(c.args) /\ Windowed(c)' = Windowed(c)
        /\ EachOnce(c.read)' = EachOnce(c.read) /\ Covered(c)' = Covered(c)
    BY DEF RefusedArgs, Windowed, WindowsAt, EachOnce, Covered
  <2> QED
    BY <2>2, <2>3 DEF LoadFor
<1>4. DoneFor(c) => DoneFor(c)'
  <2> SUFFICES ASSUME DoneFor(c) PROVE DoneFor(c)'
    OBVIOUS
  <2>1. c.args.mode # "single" => RowsRead(c.windows, c.rows, c.read)' /\ Grown(c.read)'
    BY ReadStays DEF DoneFor
  <2>2. RefusedArgs(c.args)' = RefusedArgs(c.args) /\ Windowed(c)' = Windowed(c)
        /\ EachOnce(c.read)' = EachOnce(c.read) /\ Result(c.args, c.rows[1])' = Result(c.args, c.rows[1])
    BY DEF RefusedArgs, Windowed, WindowsAt, EachOnce
  <2> QED
    BY <2>1, <2>2 DEF DoneFor
<1> QED
  BY <1>1, <1>2, <1>3, <1>4 DEF ReportInv, LoadInv, DoneInv

\* What was a prefix stays one of the file with a line more.
LEMMA AppendedIsPrefix ==
  ASSUME NEW a \in Seq(FileLine), NEW b \in Seq(FileLine), NEW l \in FileLine, IsPrefixOf(a, b)
  PROVE  IsPrefixOf(a, Append(b, l))
<1>1. PICK m \in Nat, n \in Nat : m = Len(a) /\ n = Len(b)
  BY LenProperties
<1>2. Len(Append(b, l)) = n + 1 /\ \A k \in 1 .. n : Append(b, l)[k] = b[k]
  BY <1>1, AppendProperties
<1>3. m <= n /\ \A k \in 1 .. m : a[k] = b[k]
  BY <1>1 DEF IsPrefixOf
<1>4. m <= n + 1 /\ \A k \in 1 .. m : k \in 1 .. n
  BY <1>3
<1> QED
  BY <1>1, <1>2, <1>3, <1>4 DEF IsPrefixOf

LEMMA AppendsKeep ==
  ASSUME ReportInv, NEW f \in Files, AgentAppends(f)
  PROVE  ReportInv'
<1>1. PICK l \in FileLine : disk' = [disk EXCEPT ![f] = Append(disk[f], l)]
  <2>1. PICK l \in Appended \cup {[at |-> clock, kind |-> "plain"]} :
          disk' = [disk EXCEPT ![f] = Append(disk[f], l)]
    BY DEF AgentAppends
  <2>2. l \in FileLine
    BY <2>1, ReportsAssumption DEF FileLine, ReportInv, DiskOK
  <2> QED
    BY <2>1, <2>2
<1>2. disk \in [Files -> Seq(FileLine)] /\ UNCHANGED <<there, clock, cmd>>
  BY DEF ReportInv, DiskOK, AgentAppends
<1>3. PICK s \in Seq(FileLine) : s = Append(disk[f], l)
  BY <1>1, <1>2, AppendProperties
<1>4. disk' \in [Files -> Seq(FileLine)] /\ disk'[f] = s /\ \A g \in Files : g # f => disk'[g] = disk[g]
  BY <1>1, <1>2, <1>3
<1>5. DiskOK'
  BY <1>2, <1>4 DEF ReportInv, DiskOK
<1>6. ASSUME NEW read \in SUBSET Reads, Grown(read)
      PROVE  Grown(read)'
  <2>1. ASSUME NEW x \in read, x.file \in there
        PROVE  IsPrefixOf(x.lines, disk'[x.file])
    <3>1. PICK g \in Files, a \in Seq(FileLine) : g = x.file /\ a = x.lines /\ IsPrefixOf(a, disk[g])
      BY <1>6, <2>1 DEF Grown, Reads
    <3>2. PICK b \in Seq(FileLine) : b = disk[g]
      BY <1>2
    <3>3. IsPrefixOf(a, Append(b, l))
      BY <3>1, <3>2, AppendedIsPrefix
    <3> QED
      BY <1>3, <1>4, <3>1, <3>2, <3>3
  <2> QED
    BY <1>2, <1>6, <2>1 DEF Grown
<1> QED
  BY <1>2, <1>5, <1>6, OthersKeep

LEMMA RemovesKeep ==
  ASSUME ReportInv, NEW f \in Files, AgentRemoves(f)
  PROVE  ReportInv'
<1>1. UNCHANGED <<disk, clock, cmd>> /\ there' = there \ {f}
  BY DEF AgentRemoves
<1>2. DiskOK'
  BY <1>1 DEF ReportInv, DiskOK
<1>3. \A read : Grown(read) => Grown(read)'
  BY <1>1 DEF Grown
<1> QED
  BY <1>1, <1>2, <1>3, OthersKeep

LEMMA StutterKeeps ==
  ASSUME ReportInv, UNCHANGED reportVars
  PROVE  ReportInv'
<1>1. UNCHANGED <<disk, there, clock, cmd>>
  BY DEF reportVars
<1>2. DiskOK'
  BY <1>1 DEF ReportInv, DiskOK
<1>3. \A read : Grown(read) => Grown(read)'
  BY <1>1 DEF Grown
<1> QED
  BY <1>1, <1>2, <1>3, OthersKeep

\* One more file: it was not read for this window before, and what was read of
\* it for an earlier one is a prefix of what is read now.
LEMMA LoadKeeps ==
  ASSUME ReportInv, ReportLoad
  PROVE  ReportInv'
<1>1. /\ LoadFor(cmd) /\ cmd.pc = "load" /\ cmd.todo # {} /\ DiskOK
      /\ UNCHANGED <<disk, there, clock>>
  BY DEF ReportInv, LoadInv, ReportLoad
<1>2. DiskOK'
  BY <1>1 DEF DiskOK
<1>3. PICK c \in Loading : c = cmd
  BY <1>1 DEF LoadFor
<1>4. PICK n \in Nat : n = Len(c.rows) /\ n \in DOMAIN c.rows /\ n \in DOMAIN c.windows /\ DOMAIN c.rows = 1 .. n
  <2>1. PICK R : R = SUBSET Rows
    OBVIOUS
  <2>2. c.rows \in Seq(R) /\ c.windows \in Seq(Bounds)
    BY <1>3, <2>1 DEF Loading
  <2>3. /\ Len(c.rows) \in Nat /\ DOMAIN c.rows = 1 .. Len(c.rows)
        /\ Len(c.windows) \in Nat /\ DOMAIN c.windows = 1 .. Len(c.windows)
    BY <2>2, LenProperties
  <2>4. Len(c.rows) >= 1 /\ Len(c.rows) <= Len(c.windows)
    BY <1>1, <1>3 DEF LoadFor
  <2> QED
    BY <2>3, <2>4
<1>5. PICK f \in Files : f = Min(c.todo) /\ f \in c.todo
  <2>1. c.todo \in SUBSET Nat /\ c.todo # {} /\ c.todo \subseteq Files
    BY <1>1, <1>3, ReportsAssumption DEF Loading
  <2> QED
    BY <2>1, MinIs
<1>6. PICK lines \in Seq(FileLine) : lines = Lines(f) /\ (f \in there => lines = disk[f])
  BY <1>1, LinesAre
<1>7. PICK win : win = c.windows[n]
  OBVIOUS
<1>8. PICK new \in SUBSET Rows :
        new = IF c.args.mode = "single" THEN {WholeRow(f)} ELSE LoadOne(f, lines, win.lo, win.hi)
  <2>1. WholeRow(f) \in Rows
    <3>1. PICK s \in Seq(FileLine) : s = lines
      OBVIOUS
    <3>2. EventsOf(s) \subseteq 1 .. Len(s)
      BY LenProperties DEF EventsOf
    <3>3. PICK k \in Nat : k = Cardinality(EventsOf(s))
      <4>1. PICK m \in Nat : m = Len(s)
        BY LenProperties
      <4>2. IsFiniteSet(1 .. m)
        BY FS_Interval
      <4> QED
        BY <3>2, <4>1, <4>2, FS_Subset, FS_CardinalityType
    <3>4. PICK b \in BOOLEAN : b = \E i \in DOMAIN s : s[i].kind = "junk"
      OBVIOUS
    <3>5. WholeRow(f) = [file |-> f, count |-> k, drifts |-> b]
      BY <1>6, <3>1, <3>3, <3>4 DEF WholeRow
    <3> QED
      BY <3>5 DEF Rows
  <2>2. LoadOne(f, lines, win.lo, win.hi) \in SUBSET Rows
    BY <1>1, RowsAre DEF DiskOK
  <2> QED
    BY <2>1, <2>2
<1>9. PICK z \in Reads : z = [window |-> n, file |-> f, lines |-> lines]
  BY DEF Reads
<1>10. PICK rows : rows = [c.rows EXCEPT ![n] = c.rows[n] \cup new]
  OBVIOUS
<1>11. /\ rows \in Seq(SUBSET Rows) /\ Len(rows) = n /\ DOMAIN rows = 1 .. n
       /\ rows[n] = c.rows[n] \cup new /\ \A v \in 1 .. n : v # n => rows[v] = c.rows[v]
  <2>1. PICK R : R = SUBSET Rows
    OBVIOUS
  <2>2. c.rows \in Seq(R)
    BY <1>3, <2>1 DEF Loading
  <2>3. c.rows[n] \cup new \in R
    BY <1>4, <2>1, <2>2
  <2>4. PICK e \in R : e = c.rows[n] \cup new
    BY <2>3
  <2>5. rows = [c.rows EXCEPT ![n] = e]
    BY <1>10, <2>4
  <2>6. rows \in Seq(R) /\ Len(rows) = Len(c.rows)
    BY <1>4, <2>2, <2>5, ExceptSeq
  <2> QED
    BY <1>4, <2>1, <2>2, <2>4, <2>5, <2>6
<1>12. PICK k : k = cmd'
  OBVIOUS
<1>13. k = [c EXCEPT !.todo = c.todo \ {f}, !.rows = rows, !.read = c.read \cup {z}]
  <2>1. Lines(f) = lines
    BY <1>6
  <2>2. cmd' = [c EXCEPT !.todo = c.todo \ {f}, !.rows = [c.rows EXCEPT ![n] = c.rows[n] \cup new],
                         !.read = c.read \cup {[window |-> n, file |-> f, lines |-> lines]}]
    BY <1>3, <1>4, <1>5, <1>7, <1>8, <2>1 DEF ReportLoad, Loading
  <2> QED
    BY <1>9, <1>10, <1>12, <2>2
<1>14. /\ k \in Loading /\ k.args = c.args /\ k.windows = c.windows /\ k.pc = "load" /\ k.files = c.files
       /\ k.todo = c.todo \ {f} /\ k.rows = rows /\ k.read = c.read \cup {z}
  BY <1>1, <1>3, <1>9, <1>11, <1>13 DEF Loading
<1>15. ASSUME c.args.mode # "single"
       PROVE  EachOnce(k.read) /\ RowsRead(k.windows, k.rows, k.read) /\ Grown(k.read) /\ Covered(k)
  <2>1. EachOnce(c.read) /\ RowsRead(c.windows, c.rows, c.read) /\ Grown(c.read) /\ Covered(c)
    BY <1>1, <1>3, <1>15 DEF LoadFor
  <2>2. f \in c.files /\ z.window = n /\ z.file = f /\ z.lines = lines
    BY <1>5, <1>9, <2>1 DEF Covered
  <2>3. \A x \in c.read : ~ (x.window = n /\ x.file = f)
    BY <1>4, <1>5, <2>1, <2>2 DEF Covered
  <2>4. \A x \in c.read : x.window \in 1 .. n
    BY <1>4, <2>1 DEF RowsRead
  <2>5. EachOnce(k.read)
    BY <1>14, <2>1, <2>2, <2>3 DEF EachOnce
  <2>6. new = LoadOne(z.file, z.lines, c.windows[n].lo, c.windows[n].hi)
    BY <1>7, <1>8, <1>15, <2>2
  <2>7. RowsRead(c.windows, rows, c.read \cup {z})
    <3>1. \A x \in c.read \cup {z} : x.window \in DOMAIN rows
      BY <1>4, <1>11, <2>2, <2>4
    <3>2. ASSUME NEW v \in DOMAIN rows, NEW r
          PROVE  r \in rows[v] <=>
                   \E x \in c.read \cup {z} :
                     x.window = v /\ r \in LoadOne(x.file, x.lines, c.windows[v].lo, c.windows[v].hi)
      <4>1. r \in c.rows[v] <=>
              \E x \in c.read :
                x.window = v /\ r \in LoadOne(x.file, x.lines, c.windows[v].lo, c.windows[v].hi)
        BY <1>4, <1>11, <2>1, <3>2 DEF RowsRead
      <4>2. CASE v = n
        BY <1>11, <2>2, <2>6, <4>1, <4>2
      <4>3. CASE v # n
        BY <1>11, <2>2, <4>1, <4>3
      <4> QED
        BY <4>2, <4>3
    <3>3. \E b \in Nat : \A v \in DOMAIN rows : \A r \in rows[v] : r.start <= b
      <4>1. PICK b \in Nat : \A v \in DOMAIN c.rows : \A r \in c.rows[v] : r.start <= b
        BY <2>1 DEF RowsRead
      <4>2. PICK d \in Nat : d >= b /\ \A r \in new : r.start <= d
        <5>1. CASE new = {}
          BY <5>1
        <5>2. CASE new # {}
          <6>1. PICK r \in new : new = {r}
            <7>1. PICK q : q = RowFor(z.file, z.lines, Counted(z.lines, c.windows[n].lo, c.windows[n].hi))
              OBVIOUS
            <7>2. new = {q}
              BY <2>6, <5>2, <7>1 DEF LoadOne
            <7> QED
              BY <7>2
          <6>2. PICK s \in Nat : s = r.start
            BY <1>1, <2>2, <2>6, LoadedIs DEF DiskOK
          <6>3. PICK d \in Nat : d >= b /\ s <= d
            <7>1. b + s >= b /\ s <= b + s /\ b + s \in Nat
              OBVIOUS
            <7> QED
              BY <7>1
          <6> QED
            BY <6>1, <6>2, <6>3
        <5> QED
          BY <5>1, <5>2
      <4>3. ASSUME NEW v \in DOMAIN rows, NEW r \in rows[v] PROVE r.start <= d
        <5>1. CASE r \in new
          BY <4>2, <5>1
        <5>2. CASE r \in c.rows[v]
          <6>1. r.start \in Nat /\ r.start <= b
            <7>1. PICK x \in c.read : r \in LoadOne(x.file, x.lines, c.windows[v].lo, c.windows[v].hi)
              BY <1>4, <1>11, <2>1, <4>3, <5>2 DEF RowsRead
            <7>2. x.lines \in Seq(FileLine)
              BY <1>3 DEF Loading, Reads
            <7>3. r.start \in Nat
              BY <1>1, <7>1, <7>2, LoadedIs DEF DiskOK
            <7> QED
              BY <1>4, <1>11, <4>1, <4>3, <5>2, <7>3
          <6> QED
            BY <4>2, <6>1
        <5> QED
          BY <1>11, <4>3, <5>1, <5>2
      <4> QED
        BY <4>3
    <3> QED
      BY <3>1, <3>2, <3>3 DEF RowsRead
  <2>8. Grown(c.read \cup {z})
    <3>1. \A x \in c.read : x.lines \in Seq(FileLine)
      BY <1>3 DEF Loading, Reads
    <3>2. ASSUME NEW x \in c.read \cup {z}, x.file \in there
          PROVE  IsPrefixOf(x.lines, disk[x.file])
      BY <1>6, <2>1, <2>2, <3>2, Reflexive DEF Grown
    <3>3. ASSUME NEW x \in c.read \cup {z}, x.file \in there,
                 NEW y \in c.read \cup {z}, x.file = y.file, x.window <= y.window
          PROVE  IsPrefixOf(x.lines, y.lines)
      <4>1. CASE y \in c.read /\ x \in c.read
        BY <2>1, <3>3, <4>1 DEF Grown
      <4>2. CASE y = z
        BY <1>6, <2>2, <3>2, <3>3, <4>2
      <4>3. CASE x = z /\ y \in c.read
        BY <2>2, <2>3, <2>4, <3>3, <4>3
      <4> QED
        BY <3>3, <4>1, <4>2, <4>3
    <3> QED
      BY <3>2, <3>3 DEF Grown
  <2>9. Covered(k)
    <3>1. k.todo \subseteq k.files /\ \A x \in k.read : x.file \in k.files
      BY <1>14, <2>1, <2>2 DEF Covered
    <3>2. ASSUME NEW v \in 1 .. n, NEW g \in c.files
          PROVE  (v < n \/ g \notin c.todo \ {f}) <=> \E x \in c.read \cup {z} : x.window = v /\ x.file = g
      <4>1. (v < n \/ g \notin c.todo) <=> \E x \in c.read : x.window = v /\ x.file = g
        BY <1>4, <2>1 DEF Covered
      <4>2. z.window = v /\ z.file = g <=> v = n /\ g = f
        BY <2>2
      <4>3. v < n \/ v = n
        OBVIOUS
      <4> QED
        BY <4>1, <4>2, <4>3
    <3>3. DOMAIN k.rows = 1 .. n /\ Len(k.rows) = n
      BY <1>11, <1>14
    <3> QED
      BY <1>14, <3>1, <3>2, <3>3 DEF Covered
  <2> QED
    BY <1>14, <2>5, <2>7, <2>8, <2>9
<1>16. LoadFor(k)'
  <2>1. RowsRead(k.windows, k.rows, k.read)' <=> RowsRead(k.windows, k.rows, k.read)
    BY <1>1, ReadStays
  <2>2. Grown(k.read)' <=> Grown(k.read)
    BY <1>1 DEF Grown
  <2>3. RefusedArgs(k.args)' = RefusedArgs(c.args) /\ Windowed(k)' = Windowed(c)
        /\ EachOnce(k.read)' = EachOnce(k.read) /\ Covered(k)' = Covered(k)
    BY <1>14 DEF RefusedArgs, Windowed, WindowsAt, EachOnce, Covered
  <2>4. ~ RefusedArgs(c.args) /\ Windowed(c)
    BY <1>1, <1>3 DEF LoadFor
  <2>5. Len(k.rows) >= 1 /\ Len(k.rows) <= Len(k.windows)
    BY <1>1, <1>3, <1>4, <1>11, <1>14 DEF LoadFor
  <2> QED
    BY <1>14, <1>15, <2>1, <2>2, <2>3, <2>4, <2>5 DEF LoadFor
<1> QED
  BY <1>2, <1>12, <1>14, <1>16 DEF ReportInv, LoadInv, DoneInv

\* The next window: all files have been read for the ones before.
LEMMA NextWindowKeeps ==
  ASSUME ReportInv, ReportNextWindow
  PROVE  ReportInv'
<1>1. /\ LoadFor(cmd) /\ cmd.pc = "load" /\ cmd.todo = {} /\ Len(cmd.rows) < Len(cmd.windows) /\ DiskOK
      /\ UNCHANGED <<disk, there, clock>>
  BY DEF ReportInv, LoadInv, ReportNextWindow
<1>2. DiskOK'
  BY <1>1 DEF DiskOK
<1>3. PICK c \in Loading : c = cmd
  BY <1>1 DEF LoadFor
<1>4. PICK R : R = SUBSET Rows
  OBVIOUS
<1>5. PICK e \in R : e = {}
  BY <1>4
<1>6. PICK n \in Nat : n = Len(c.rows) /\ DOMAIN c.rows = 1 .. n
  <2>1. c.rows \in Seq(R)
    BY <1>3, <1>4 DEF Loading
  <2> QED
    BY <2>1, LenProperties
<1>7. PICK rows : rows = Append(c.rows, e)
  OBVIOUS
<1>8. /\ rows \in Seq(SUBSET Rows) /\ Len(rows) = n + 1 /\ DOMAIN rows = 1 .. n + 1
      /\ rows[n + 1] = {} /\ \A v \in 1 .. n : rows[v] = c.rows[v]
  <2>1. c.rows \in Seq(R)
    BY <1>3, <1>4 DEF Loading
  <2>2. rows \in Seq(R) /\ Len(rows) = n + 1 /\ rows[n + 1] = e /\ \A v \in 1 .. n : rows[v] = c.rows[v]
    BY <1>6, <1>7, <2>1, AppendProperties
  <2>3. DOMAIN rows = 1 .. n + 1
    BY <2>2, LenProperties
  <2> QED
    BY <1>4, <1>5, <2>2, <2>3
<1>9. PICK k : k = cmd'
  OBVIOUS
<1>10. k = [c EXCEPT !.todo = c.files, !.rows = rows]
  BY <1>3, <1>5, <1>7, <1>9 DEF ReportNextWindow, Loading
<1>11. /\ k \in Loading /\ k.args = c.args /\ k.windows = c.windows /\ k.pc = "load" /\ k.files = c.files
       /\ k.todo = c.files /\ k.rows = rows /\ k.read = c.read
  BY <1>1, <1>3, <1>8, <1>10 DEF Loading
<1>12. ASSUME c.args.mode # "single"
       PROVE  RowsRead(c.windows, rows, c.read) /\ Covered(k)
  <2>1. RowsRead(c.windows, c.rows, c.read) /\ Covered(c)
    BY <1>1, <1>3, <1>12 DEF LoadFor
  <2>2. \A x \in c.read : x.window \in 1 .. n
    BY <1>6, <2>1 DEF RowsRead
  <2>3. RowsRead(c.windows, rows, c.read)
    <3>1. \A x \in c.read : x.window \in DOMAIN rows
      BY <1>8, <2>2
    <3>2. ASSUME NEW v \in DOMAIN rows, NEW r
          PROVE  r \in rows[v] <=>
                   \E x \in c.read :
                     x.window = v /\ r \in LoadOne(x.file, x.lines, c.windows[v].lo, c.windows[v].hi)
      <4>1. CASE v \in 1 .. n
        BY <1>6, <1>8, <2>1, <4>1 DEF RowsRead
      <4>2. CASE v = n + 1
        BY <1>8, <2>2, <4>2
      <4> QED
        BY <1>8, <4>1, <4>2
    <3>3. \E b \in Nat : \A v \in DOMAIN rows : \A r \in rows[v] : r.start <= b
      <4>1. PICK b \in Nat : \A v \in DOMAIN c.rows : \A r \in c.rows[v] : r.start <= b
        BY <2>1 DEF RowsRead
      <4>2. \A v \in DOMAIN rows : v \in 1 .. n \/ v = n + 1
        BY <1>8
      <4> QED
        BY <1>6, <1>8, <4>1, <4>2
    <3> QED
      BY <3>1, <3>2, <3>3 DEF RowsRead
  <2>4. Covered(k)
    <3>1. k.todo \subseteq k.files /\ \A x \in k.read : x.file \in k.files
      BY <1>11, <2>1 DEF Covered
    <3>2. ASSUME NEW v \in 1 .. n + 1, NEW g \in c.files
          PROVE  (v < n + 1 \/ g \notin c.files) <=> \E x \in c.read : x.window = v /\ x.file = g
      <4>1. CASE v \in 1 .. n
        <5>1. \E x \in c.read : x.window = v /\ x.file = g
          BY <1>1, <1>3, <1>6, <2>1, <4>1 DEF Covered
        <5> QED
          BY <4>1, <5>1
      <4>2. CASE v = n + 1
        BY <2>2, <4>2
      <4> QED
        BY <4>1, <4>2
    <3>3. DOMAIN k.rows = 1 .. n + 1 /\ Len(k.rows) = n + 1
      BY <1>8, <1>11
    <3> QED
      BY <1>11, <3>1, <3>2, <3>3 DEF Covered
  <2> QED
    BY <2>3, <2>4
<1>13. LoadFor(k)'
  <2>1. RowsRead(k.windows, k.rows, k.read)' <=> RowsRead(k.windows, k.rows, k.read)
    BY <1>1, ReadStays
  <2>2. Grown(k.read)' <=> Grown(c.read)
    BY <1>1, <1>11 DEF Grown
  <2>3. RefusedArgs(k.args)' = RefusedArgs(c.args) /\ Windowed(k)' = Windowed(c)
        /\ EachOnce(k.read)' = EachOnce(c.read) /\ Covered(k)' = Covered(k)
    BY <1>11 DEF RefusedArgs, Windowed, WindowsAt, EachOnce, Covered
  <2>4. ~ RefusedArgs(c.args) /\ Windowed(c)
        /\ (c.args.mode # "single" => EachOnce(c.read) /\ Grown(c.read))
    BY <1>1, <1>3 DEF LoadFor
  <2>5. Len(k.rows) >= 1 /\ Len(k.rows) <= Len(k.windows)
    <3>1. Len(c.windows) \in Nat
      BY <1>3, LenProperties DEF Loading
    <3>2. n < Len(c.windows)
      BY <1>1, <1>3, <1>6
    <3> QED
      BY <1>8, <1>11, <3>1, <3>2
  <2> QED
    BY <1>11, <1>12, <2>1, <2>2, <2>3, <2>4, <2>5 DEF LoadFor
<1> QED
  BY <1>2, <1>9, <1>11, <1>13 DEF ReportInv, LoadInv, DoneInv

\* The end: every file has been read for every window.
LEMMA FinishKeeps ==
  ASSUME ReportInv, ReportFinish
  PROVE  ReportInv'
<1>1. /\ LoadFor(cmd) /\ cmd.pc = "load" /\ cmd.todo = {} /\ Len(cmd.rows) = Len(cmd.windows) /\ DiskOK
      /\ UNCHANGED <<disk, there, clock>>
  BY DEF ReportInv, LoadInv, ReportFinish
<1>2. DiskOK'
  BY <1>1 DEF DiskOK
<1>3. PICK c \in Loading : c = cmd
  BY <1>1 DEF LoadFor
<1>4. PICK result : result = Result(c.args, c.rows[1])
  OBVIOUS
<1>5. PICK k : k = cmd'
  OBVIOUS
<1>6. k = [pc |-> "done", args |-> c.args, exit |-> result.exit, result |-> result,
           windows |-> c.windows, rows |-> c.rows, read |-> c.read]
  BY <1>3, <1>4, <1>5 DEF ReportFinish
<1>7. /\ k.pc = "done" /\ k.args = c.args /\ k.windows = c.windows /\ k.rows = c.rows /\ k.read = c.read
      /\ k.result = Result(c.args, c.rows[1]) /\ k.exit = k.result.exit
  BY <1>4, <1>6
<1>8. ASSUME c.args.mode # "single", NEW x \in c.read, NEW w \in DOMAIN c.windows
      PROVE  \E y \in c.read : y.window = w /\ y.file = x.file
  <2>1. Covered(c)
    BY <1>1, <1>3, <1>8 DEF LoadFor
  <2>2. DOMAIN c.rows = DOMAIN c.windows
    <3>1. PICK R : R = SUBSET Rows
      OBVIOUS
    <3>2. c.rows \in Seq(R) /\ c.windows \in Seq(Bounds)
      BY <1>3, <3>1 DEF Loading
    <3> QED
      BY <1>1, <1>3, <3>2, LenProperties
  <2> QED
    BY <1>1, <1>3, <1>8, <2>1, <2>2 DEF Covered
<1>9. ASSUME k.exit = 0 PROVE DoneFor(k)'
  <2>1. RowsRead(k.windows, k.rows, k.read)' <=> RowsRead(c.windows, c.rows, c.read)
    BY <1>1, <1>7, ReadStays
  <2>2. Grown(k.read)' <=> Grown(c.read)
    BY <1>1, <1>7 DEF Grown
  <2>3. RefusedArgs(k.args)' = RefusedArgs(c.args) /\ Windowed(k)' = Windowed(c)
        /\ EachOnce(k.read)' = EachOnce(c.read)
    BY <1>7 DEF RefusedArgs, Windowed, WindowsAt, EachOnce
  <2>4. Result(k.args, k.rows[1])' = Result(c.args, c.rows[1])
    BY <1>7
  <2>5. /\ c.args \in Commands /\ c.windows \in Seq(Bounds) /\ c.rows \in Seq(SUBSET Rows)
        /\ c.read \in SUBSET Reads
    BY <1>3 DEF Loading
  <2>6. /\ ~ RefusedArgs(c.args) /\ Windowed(c) /\ Len(c.rows) >= 1 /\ Len(c.rows) = Len(c.windows)
        /\ (c.args.mode # "single" => /\ EachOnce(c.read) /\ Grown(c.read)
                                      /\ RowsRead(c.windows, c.rows, c.read))
    BY <1>1, <1>3 DEF LoadFor
  <2> QED
    BY <1>7, <1>8, <1>9, <2>1, <2>2, <2>3, <2>4, <2>5, <2>6 DEF DoneFor
<1> QED
  BY <1>2, <1>5, <1>7, <1>9 DEF ReportInv, LoadInv, DoneInv

LEMMA ReportInvariant == ReportSpec => []ReportInv
<1>1. ReportInit => ReportInv
  BY StartsRight
<1>2. ReportInv /\ [ReportNext]_reportVars => ReportInv'
  <2> SUFFICES ASSUME ReportInv, [ReportNext]_reportVars PROVE ReportInv'
    OBVIOUS
  <2>1. ASSUME NEW f \in Files, AgentAppends(f) PROVE ReportInv'
    BY <2>1, AppendsKeep
  <2>2. ASSUME NEW f \in Files, AgentRemoves(f) PROVE ReportInv'
    BY <2>2, RemovesKeep
  <2>3. ASSUME NEW c \in Commands, ReportStart(c) PROVE ReportInv'
    BY <2>3, StartKeeps
  <2>4. CASE ReportFilter \/ ReportFiltered
    BY <2>4, FilterKeeps
  <2>5. CASE ReportLoad
    BY <2>5, LoadKeeps
  <2>6. CASE ReportNextWindow
    BY <2>6, NextWindowKeeps
  <2>7. CASE ReportFinish
    BY <2>7, FinishKeeps
  <2>8. CASE UNCHANGED reportVars
    BY <2>8, StutterKeeps
  <2> QED
    BY <2>1, <2>2, <2>3, <2>4, <2>5, <2>6, <2>7, <2>8 DEF ReportNext
<1> QED
  BY <1>1, <1>2, PTL DEF ReportSpec

---------------------------------------------------------------------------
(* What the invariant says of a report                                     *)

\* Of the rows of a window, those of a file that was read.
LEMMA RowsOfAre ==
  ASSUME DiskOK, NEW windows, NEW rows, NEW read \in SUBSET Reads,
         EachOnce(read), RowsRead(windows, rows, read), NEW x \in read
  PROVE  /\ x.window \in DOMAIN rows
         /\ {r \in rows[x.window] : r.file = x.file}
              = LoadOne(x.file, x.lines, windows[x.window].lo, windows[x.window].hi)
<1>1. \A y \in read : y.lines \in Seq(FileLine)
  BY DEF Reads
<1>2. ASSUME NEW y \in read, NEW lo, NEW hi, NEW r \in LoadOne(y.file, y.lines, lo, hi)
      PROVE  r.file = y.file
  BY <1>1, LoadedIs DEF DiskOK
<1>3. PICK v : v = x.window /\ v \in DOMAIN rows
  BY DEF RowsRead
<1>4. ASSUME NEW r PROVE
        r \in rows[v] /\ r.file = x.file <=> r \in LoadOne(x.file, x.lines, windows[v].lo, windows[v].hi)
  <2>1. r \in rows[v] <=>
          \E y \in read : y.window = v /\ r \in LoadOne(y.file, y.lines, windows[v].lo, windows[v].hi)
    BY <1>3 DEF RowsRead
  <2>2. \A y \in read : y.window = v /\ y.file = x.file => y = x
    BY <1>3 DEF EachOnce
  <2> QED
    BY <1>2, <1>3, <2>1, <2>2
<1> QED
  BY <1>3, <1>4

LEMMA LoadsFollow == ReportInv => LoadsTheWindow
<1> SUFFICES ASSUME ReportInv, cmd.pc = "done", cmd.args.mode \in {"multi", "group"}, cmd.exit = 0,
                    NEW x \in cmd.read
             PROVE  LET win    == cmd.windows[x.window]
                        row    == {r \in cmd.rows[x.window] : r.file = x.file}
                        inside == {k \in DOMAIN x.lines : x.lines[k].kind # "junk"
                                                          /\ InWindow(x.lines[k].at, win.lo, win.hi)}
                    IN /\ \A r \in row : InWindow(r.start, win.lo, win.hi) /\ InWindow(r.end, win.lo, win.hi)
                       /\ Chronologic(x.lines) => /\ row = {} <=> inside = {}
                                                  /\ \A r \in row : r.count = Cardinality(inside)
  BY DEF LoadsTheWindow
<1>1. DoneFor(cmd) /\ DiskOK /\ cmd.args.mode # "single"
  BY DEF ReportInv, DoneInv
<1>2. /\ cmd.read \in SUBSET Reads /\ EachOnce(cmd.read) /\ RowsRead(cmd.windows, cmd.rows, cmd.read)
      /\ cmd.windows \in Seq(Bounds) /\ Len(cmd.rows) = Len(cmd.windows)
  BY <1>1 DEF DoneFor
<1>3. x.window \in DOMAIN cmd.rows /\ DOMAIN cmd.rows = DOMAIN cmd.windows
  <2>1. PICK R : R = SUBSET Rows
    OBVIOUS
  <2>2. cmd.rows \in Seq(R)
    BY <1>1, <2>1 DEF DoneFor
  <2> QED
    BY <1>2, <2>2, RowsOfAre, <1>1, LenProperties
<1>4. PICK win \in Bounds : win = cmd.windows[x.window]
  BY <1>2, <1>3
<1>5. PICK lo \in Int, hi \in Int : lo = win.lo /\ hi = win.hi
  BY DEF Bounds
<1>6. PICK f \in Files, lines \in Seq(FileLine) : f = x.file /\ lines = x.lines
  BY <1>2 DEF Reads
<1>7. PICK row : row = {r \in cmd.rows[x.window] : r.file = x.file}
  OBVIOUS
<1>8. row = LoadOne(f, lines, lo, hi)
  BY <1>1, <1>2, <1>4, <1>5, <1>6, <1>7, RowsOfAre
<1>9. \A r \in row : /\ InWindow(r.start, lo, hi) /\ InWindow(r.end, lo, hi)
                     /\ r.count = Cardinality(Counted(lines, lo, hi))
  BY <1>1, <1>8, LoadedIs DEF DiskOK
<1>10. row = {} <=> Counted(lines, lo, hi) = {}
  BY <1>8 DEF LoadOne
<1>11. Chronologic(lines) =>
         Counted(lines, lo, hi) = {k \in DOMAIN lines : lines[k].kind # "junk" /\ InWindow(lines[k].at, lo, hi)}
  BY AllIsCounted
<1> QED
  BY <1>4, <1>5, <1>6, <1>7, <1>9, <1>10, <1>11

\* A window that begins no later than another is one after it.
LEMMA WindowsInOrder ==
  ASSUME NEW now \in Nat, now >= DayLength,
         NEW v \in DOMAIN WindowsAt(now), NEW w \in DOMAIN WindowsAt(now),
         WindowsAt(now)[v].lo >= WindowsAt(now)[w].lo
  PROVE  /\ v \in 1 .. 3 /\ w \in 1 .. 3 /\ v <= w
         /\ WindowsAt(now)[v].hi = now /\ WindowsAt(now)[w].hi = now
         /\ WindowsAt(now)[v].lo \in Int /\ WindowsAt(now)[w].lo \in Int
<1>1. PICK d \in Nat \ {0}, p \in Nat, q \in Nat :
        d = DayLength /\ p = Spans[1] /\ q = Spans[2] /\ d <= p /\ p < q
  BY CohortAssumption, ReportsAssumption
<1>2. PICK today \in Nat : today = DayOf(now) * d /\ now < today + d
  <2>1. PICK n \in Nat : n = DayOf(now) /\ now < n * d + d
    BY <1>1, DayIs
  <2>2. n * d \in Nat
    OBVIOUS
  <2> QED
    BY <2>1, <2>2
<1>3. PICK s : s = WindowsAt(now)
  OBVIOUS
<1>4. s = << [lo |-> today, hi |-> now], [lo |-> now - p, hi |-> now], [lo |-> now - q, hi |-> now] >>
  BY <1>1, <1>2, <1>3 DEF WindowsAt
<1>5. DOMAIN s = {1, 2, 3} /\ s[1].lo = today /\ s[2].lo = now - p /\ s[3].lo = now - q
      /\ s[1].hi = now /\ s[2].hi = now /\ s[3].hi = now
  BY <1>4
<1>6. today > now - p /\ now - p > now - q
  BY <1>1, <1>2
<1>7. v \in {1, 2, 3} /\ w \in {1, 2, 3} /\ s[v].lo >= s[w].lo
  BY <1>3, <1>5
<1>8. v <= w
  BY <1>1, <1>2, <1>5, <1>6, <1>7
<1> QED
  BY <1>1, <1>2, <1>3, <1>5, <1>7, <1>8

LEMMA NestFollows == ReportInv => WindowsNest
<1> SUFFICES ASSUME ReportInv, Reported("multi"),
                    NEW v \in DOMAIN cmd.windows, NEW w \in DOMAIN cmd.windows,
                    cmd.windows[v].lo >= cmd.windows[w].lo,
                    NEW r \in cmd.rows[v], r.file \in there
             PROVE  \E q \in cmd.rows[w] : q.file = r.file /\ q.count >= r.count
  BY DEF WindowsNest
<1>1. DoneFor(cmd) /\ DiskOK /\ cmd.args.mode = "multi"
  BY DEF ReportInv, DoneInv, Reported
<1>2. PICK windows, rows, read :
        /\ windows = cmd.windows /\ rows = cmd.rows /\ read = cmd.read /\ read \in SUBSET Reads
        /\ EachOnce(read) /\ RowsRead(windows, rows, read) /\ Grown(read) /\ DOMAIN rows = DOMAIN windows
        /\ \A x \in read : \A u \in DOMAIN windows : \E y \in read : y.window = u /\ y.file = x.file
  <2>1. PICK R : R = SUBSET Rows
    OBVIOUS
  <2>2. cmd.rows \in Seq(R) /\ cmd.windows \in Seq(Bounds) /\ Len(cmd.rows) = Len(cmd.windows)
    BY <1>1, <2>1 DEF DoneFor
  <2>3. DOMAIN cmd.rows = DOMAIN cmd.windows
    BY <2>2, LenProperties
  <2>4. cmd.args.mode # "single"
    BY <1>1
  <2>5. /\ cmd.read \in SUBSET Reads
        /\ EachOnce(cmd.read) /\ RowsRead(cmd.windows, cmd.rows, cmd.read) /\ Grown(cmd.read)
        /\ \A x \in cmd.read : \A u \in DOMAIN cmd.windows :
             \E y \in cmd.read : y.window = u /\ y.file = x.file
    BY <1>1, <2>4 DEF DoneFor
  <2> QED
    BY <2>3, <2>5
<1>3. PICK now \in Nat : now >= DayLength /\ windows = WindowsAt(now)
  BY <1>1, <1>2 DEF DoneFor, Windowed
<1>4. PICK a \in Int, b \in Int :
        /\ a = windows[v].lo /\ b = windows[w].lo /\ a >= b /\ v <= w
        /\ windows[v].hi = now /\ windows[w].hi = now
  BY <1>2, <1>3, WindowsInOrder
<1>5. PICK x \in read : x.window = v /\ r \in LoadOne(x.file, x.lines, a, now)
  BY <1>2, <1>4 DEF RowsRead
<1>6. PICK f \in Files, s \in Seq(FileLine) : f = x.file /\ s = x.lines
  BY <1>2 DEF Reads
<1>7. r.file = f /\ Counted(s, a, now) # {} /\ r.count = Cardinality(Counted(s, a, now))
  BY <1>1, <1>5, <1>6, LoadedIs DEF DiskOK
<1>8. PICK y \in read : y.window = w /\ y.file = f
  BY <1>2, <1>6
<1>9. PICK t \in Seq(FileLine) : t = y.lines
  BY <1>2 DEF Reads
<1>10. IsPrefixOf(s, t)
  BY <1>2, <1>4, <1>5, <1>6, <1>7, <1>8, <1>9 DEF Grown
<1>11. Counted(s, a, now) \subseteq Counted(t, b, now)
  BY <1>1, <1>4, <1>10, CountedGrow DEF DiskOK
<1>12. IsFiniteSet(Counted(t, b, now))
  BY CountedAre
<1>13. PICK m \in Nat, n \in Nat :
         m = Cardinality(Counted(s, a, now)) /\ n = Cardinality(Counted(t, b, now)) /\ m <= n
  BY <1>11, <1>12, CountedAre, FS_Subset
<1>14. PICK q : q = RowFor(f, t, Counted(t, b, now))
  OBVIOUS
<1>15. q \in LoadOne(f, t, b, now)
  BY <1>7, <1>11, <1>14 DEF LoadOne
<1>16. q.file = f /\ q.count = n
  BY <1>13, <1>14 DEF RowFor
<1>17. q \in rows[w]
  BY <1>2, <1>4, <1>8, <1>9, <1>15 DEF RowsRead
<1> QED
  BY <1>2, <1>7, <1>13, <1>16, <1>17

\* What the sessions of a window have for a start.
LEMMA StartsAre ==
  ASSUME DiskOK, NEW windows, NEW rows, NEW read \in SUBSET Reads, RowsRead(windows, rows, read)
  PROVE  \E b \in Nat : \A v \in DOMAIN rows : \A r \in rows[v] :
           r.start \in Nat /\ r.start >= DayLength /\ r.start <= b
<1>1. PICK b \in Nat : \A v \in DOMAIN rows : \A r \in rows[v] : r.start <= b
  BY DEF RowsRead
<1>2. ASSUME NEW v \in DOMAIN rows, NEW r \in rows[v]
      PROVE  r.start \in Nat /\ r.start >= DayLength
  <2>1. PICK x \in read : r \in LoadOne(x.file, x.lines, windows[v].lo, windows[v].hi)
    BY DEF RowsRead
  <2>2. x.lines \in Seq(FileLine)
    BY DEF Reads
  <2> QED
    BY <2>1, <2>2, LoadedIs DEF DiskOK
<1> QED
  BY <1>1, <1>2

\* The days before the pivot, and those from it on.
LEMMA PivotSides ==
  ASSUME NEW rows, NEW b \in Nat, NEW day \in Nat \ {0}, ~ PivotRefused(rows, day),
         \A r \in rows : r.start \in Nat /\ r.start >= DayLength /\ r.start <= b
  PROVE  /\ Before(rows, day) \cup OnOrAfter(rows, day) = rows
         /\ Before(rows, day) \cap OnOrAfter(rows, day) = {}
         /\ Before(rows, day) # {} /\ OnOrAfter(rows, day) # {}
<1>1. \A r \in rows : DayOf(r.start) \in Nat /\ DayOf(r.start) >= 1 /\ DayOf(r.start) <= b
  <2> SUFFICES ASSUME NEW r \in rows
               PROVE  DayOf(r.start) \in Nat /\ DayOf(r.start) >= 1 /\ DayOf(r.start) <= b
    OBVIOUS
  <2>1. PICK t \in Nat : t = r.start /\ t >= DayLength /\ t <= b
    OBVIOUS
  <2>2. PICK d \in Nat : d = DayOf(t) /\ d <= t /\ d >= 1
    BY <2>1, DayIs
  <2> QED
    BY <2>1, <2>2
<1>2. PICK days : days = {DayOf(r.start) : r \in rows}
  OBVIOUS
<1>3. days \in SUBSET Nat /\ days # {} /\ \A d \in days : d >= 1 /\ d <= b
  BY <1>1, <1>2 DEF PivotRefused
<1>4. PICK first \in days : first = Min(days) /\ \A d \in days : first <= d
  BY <1>3, MinIs
<1>5. PICK last \in days : last = Max(days) /\ \A d \in days : d <= last
  BY <1>3, Greatest
<1>6. first < day /\ day <= last
  <2>1. ~ (day <= first \/ day > last)
    BY <1>2, <1>4, <1>5 DEF PivotRefused
  <2> QED
    BY <1>3, <2>1
<1>7. Before(rows, day) = {r \in rows : DayOf(r.start) <= day - 1}
  <2>1. first # NoDate /\ day - 1 # NoDate
    BY <1>3, <1>4, <1>6 DEF NoDate
  <2>2. \A r \in rows : DayOf(r.start) >= first
    BY <1>1, <1>2, <1>3, <1>4
  <2>3. Before(rows, day) = InPeriod(rows, first, day - 1)
    BY <1>2, <1>4 DEF Before
  <2> QED
    BY <2>1, <2>2, <2>3 DEF InPeriod
<1>8. OnOrAfter(rows, day) = {r \in rows : DayOf(r.start) >= day}
  <2>1. last # NoDate /\ day # NoDate
    BY <1>3, <1>5 DEF NoDate
  <2>2. \A r \in rows : DayOf(r.start) <= last
    BY <1>1, <1>2, <1>3, <1>5
  <2>3. OnOrAfter(rows, day) = InPeriod(rows, day, last)
    BY <1>2, <1>5 DEF OnOrAfter
  <2> QED
    BY <2>1, <2>2, <2>3 DEF InPeriod
<1>9. \A r \in rows : (DayOf(r.start) <= day - 1) <=> ~ (DayOf(r.start) >= day)
  BY <1>1
<1>10. \E r \in rows : DayOf(r.start) <= day - 1
  <2>1. PICK r \in rows : DayOf(r.start) = first
    BY <1>2
  <2>2. first <= day - 1
    BY <1>3, <1>6
  <2> QED
    BY <2>1, <2>2
<1>11. \E r \in rows : DayOf(r.start) >= day
  <2>1. PICK r \in rows : DayOf(r.start) = last
    BY <1>2
  <2>2. last >= day
    BY <1>3, <1>6
  <2> QED
    BY <2>1, <2>2
<1> QED
  BY <1>7, <1>8, <1>9, <1>10, <1>11

LEMMA PivotFollows == ReportInv => PivotPartitions
<1> SUFFICES ASSUME ReportInv, Reported("pivot")
             PROVE  /\ cmd.result.before \cup cmd.result.after = cmd.rows[1]
                    /\ cmd.result.before \cap cmd.result.after = {}
                    /\ cmd.result.before # {} /\ cmd.result.after # {}
  BY DEF PivotPartitions
<1>1. DoneFor(cmd) /\ DiskOK /\ cmd.args.mode = "pivot"
  BY DEF ReportInv, DoneInv, Reported
<1>2. PICK day \in Nat \ {0} : day = cmd.args.day
  BY <1>1, ReportsAssumption DEF DoneFor, RefusedArgs
<1>3. PICK rows : rows = cmd.rows[1]
  OBVIOUS
<1>4. cmd.result = Result(cmd.args, rows) /\ cmd.result.exit = 0
  BY <1>1, <1>3 DEF DoneFor
<1>5. ~ PivotRefused(rows, day)
  BY <1>1, <1>2, <1>4 DEF Result
<1>6. cmd.result.before = Before(rows, day) /\ cmd.result.after = OnOrAfter(rows, day)
  BY <1>1, <1>2, <1>4, <1>5 DEF Result
<1>7. \E b \in Nat : \A r \in rows : r.start \in Nat /\ r.start >= DayLength /\ r.start <= b
  <2>1. 1 \in DOMAIN cmd.rows
    <3>1. PICK R : R = SUBSET Rows
      OBVIOUS
    <3>2. cmd.rows \in Seq(R) /\ Len(cmd.rows) >= 1
      BY <1>1, <3>1 DEF DoneFor
    <3>3. Len(cmd.rows) \in Nat /\ DOMAIN cmd.rows = 1 .. Len(cmd.rows)
      BY <3>2, LenProperties
    <3> QED
      BY <3>2, <3>3
  <2>2. cmd.read \in SUBSET Reads /\ RowsRead(cmd.windows, cmd.rows, cmd.read)
    BY <1>1 DEF DoneFor
  <2> QED
    BY <1>1, <1>3, <2>1, <2>2, StartsAre
<1>8. PICK b \in Nat : \A r \in rows : r.start \in Nat /\ r.start >= DayLength /\ r.start <= b
  BY <1>7
<1>9. /\ Before(rows, day) \cup OnOrAfter(rows, day) = rows
      /\ Before(rows, day) \cap OnOrAfter(rows, day) = {}
      /\ Before(rows, day) # {} /\ OnOrAfter(rows, day) # {}
  BY <1>5, <1>8, PivotSides
<1> QED
  BY <1>3, <1>6, <1>9

\* The keys of the cells by day and by week.
LEMMA KeysAre ==
  ASSUME NEW rows, NEW b \in Nat, \A r \in rows : r.start \in Nat /\ r.start <= b,
         NEW dimension \in Chronological, NEW c \in Reduce(rows, dimension)
  PROVE  c.key \in Nat /\ c.key <= b
<1>1. PICK r \in rows : c.key = KeyOf(r, dimension)[1]
  <2> DEFINE keyed == {r \in rows : KeyOf(r, dimension) # <<>>}
             keys  == {KeyOf(r, dimension)[1] : r \in keyed}
             of(k) == {r \in keyed : KeyOf(r, dimension)[1] = k}
             cell(k, m) ==
               LET measured == Having(of(k), m)
               IN [key |-> k, metric |-> m, n |-> Cardinality(measured), sum |-> Total(measured, m)]
  <2>1. c \in UNION {{cell(k, m) : m \in MetricsOf(of(k))} : k \in keys}
    BY DEF Reduce
  <2>2. PICK k \in keys : \E m : c = cell(k, m)
    BY <2>1
  <2>3. c.key = k
    BY <2>2
  <2> QED
    BY <2>3
<1>2. PICK t \in Nat : t = r.start /\ t <= b
  OBVIOUS
<1>3. PICK d \in Nat, w \in Nat : d = DayOf(t) /\ w = d \div WeekLength /\ d <= t /\ w <= t
  BY DayIs
<1>4. KeyOf(r, dimension) = IF dimension = "day" THEN << d >> ELSE << w >>
  BY <1>2, <1>3 DEF KeyOf, Chronological
<1> QED
  BY <1>1, <1>2, <1>3, <1>4

\* A set of cells with bounded keys has a first one and a last one.
LEMMA EndsAre ==
  ASSUME NEW S, S # {}, NEW b \in Nat, \A c \in S : c.key \in Nat /\ c.key <= b
  PROVE  /\ \E c \in S : \A d \in S : c.key <= d.key
         /\ \E c \in S : \A d \in S : d.key <= c.key
<1>1. PICK keys : keys = {c.key : c \in S}
  OBVIOUS
<1>2. keys \in SUBSET Nat /\ keys # {} /\ \A k \in keys : k <= b
  BY <1>1
<1>3. PICK k \in keys : \A j \in keys : k <= j
  BY <1>2, MinIs
<1>4. PICK l \in keys : \A j \in keys : j <= l
  BY <1>2, Greatest
<1> QED
  BY <1>1, <1>3, <1>4

\* Both cells of a mover are printed ones.
LEMMA MoversAreGuarded ==
  ASSUME NEW cells, NEW dimension, NEW b \in Nat,
         dimension \in Chronological => \A c \in cells : c.key \in Nat /\ c.key <= b,
         NEW x \in Movers(cells, dimension), NEW c \in x.tells
  PROVE  c.n >= MinCell
<1> DEFINE shown == {d \in cells : Guarded(d)}
           of(m) == {d \in shown : d.metric = m}
           first(m) == CHOOSE d \in of(m) : \A e \in of(m) : d.key <= e.key
           last(m)  == CHOOSE d \in of(m) : \A e \in of(m) : e.key <= d.key
<1>1. dimension \in Chronological
  BY DEF Movers
<1> DEFINE moved == {d.metric : d \in {e \in shown : first(e.metric).key # last(e.metric).key
                                                      /\ first(e.metric).sum # 0}}
<1>2. PICK m : (\E d \in shown : d.metric = m) /\ x.tells = {first(m), last(m)}
  <2>1. x \in {[metric |-> m, tells |-> {first(m), last(m)}] : m \in moved}
    BY <1>1 DEF Movers
  <2>2. PICK m \in moved : x = [metric |-> m, tells |-> {first(m), last(m)}]
    BY <2>1
  <2>3. \E d \in shown : d.metric = m
    BY <2>2
  <2> QED
    BY <2>2, <2>3
<1>3. of(m) # {} /\ \A d \in of(m) : d.key \in Nat /\ d.key <= b
  BY <1>1, <1>2
<1> HIDE DEF shown, of
<1>4. first(m) \in of(m) /\ last(m) \in of(m)
  BY <1>3, EndsAre
<1>5. c \in of(m)
  BY <1>2, <1>4
<1> USE DEF shown, of
<1> QED
  BY <1>5 DEF Guarded

LEMMA HiddenFollows == ReportInv => SmallCellsHidden
<1> SUFFICES ASSUME ReportInv, Reported("group"),
                    NEW shown \in {x.tells : x \in cmd.result.printed} \cup {x.tells : x \in cmd.result.movers},
                    NEW c \in shown
             PROVE  c.n >= MinCell
  BY DEF SmallCellsHidden
<1>1. DoneFor(cmd) /\ DiskOK /\ cmd.args.mode = "group"
  BY DEF ReportInv, DoneInv, Reported
<1>2. PICK dimension, rows : dimension = cmd.args.dimension
        /\ rows = InPeriod(cmd.rows[1], DateOf(cmd.args.from), DateOf(cmd.args.to))
  OBVIOUS
<1>3. PICK cells : cells = Reduce(rows, dimension)
  OBVIOUS
<1>4. cmd.result.printed = Printed(cells, dimension) /\ cmd.result.movers = Movers(cells, dimension)
  BY <1>1, <1>2, <1>3 DEF DoneFor, Result
<1>5. PICK b \in Nat : \A r \in rows : r.start \in Nat /\ r.start <= b
  <2>1. 1 \in DOMAIN cmd.rows
    <3>1. PICK R : R = SUBSET Rows
      OBVIOUS
    <3>2. cmd.rows \in Seq(R) /\ Len(cmd.rows) >= 1
      BY <1>1, <3>1 DEF DoneFor
    <3>3. Len(cmd.rows) \in Nat /\ DOMAIN cmd.rows = 1 .. Len(cmd.rows)
      BY <3>2, LenProperties
    <3> QED
      BY <3>2, <3>3
  <2>2. cmd.read \in SUBSET Reads /\ RowsRead(cmd.windows, cmd.rows, cmd.read)
    BY <1>1 DEF DoneFor
  <2>3. rows \subseteq cmd.rows[1]
    BY <1>2 DEF InPeriod
  <2> QED
    BY <1>1, <2>1, <2>2, <2>3, StartsAre
<1>6. dimension \in Chronological => \A d \in cells : d.key \in Nat /\ d.key <= b
  BY <1>3, <1>5, KeysAre
<1>7. CASE shown \in {x.tells : x \in cmd.result.printed}
  BY <1>4, <1>7 DEF Printed, Prior, Guarded
<1>8. CASE shown \in {x.tells : x \in cmd.result.movers}
  <2>1. PICK x \in Movers(cells, dimension) : shown = x.tells
    BY <1>4, <1>8
  <2> QED
    BY <1>6, <2>1, MoversAreGuarded
<1> QED
  BY <1>7, <1>8

---------------------------------------------------------------------------
(* The theorems about reports                                              *)

\* LoadsTheWindow: of every file in order, however many lines it has, the rows
\* of a window have the events that lie in it and no others
\* (loader.py:_ingest_events, _load_one).
THEOREM LoadsAreWhole == ReportSpec => []LoadsTheWindow
<1>1. ReportInv => LoadsTheWindow
  BY LoadsFollow
<1> QED
  BY <1>1, ReportInvariant, PTL

\* WindowsNest: whatever the agents append while the windows are loaded one
\* after the other, a longer window has every session of a shorter one, with no
\* fewer events (cli.py:_run_report_multi_period).
THEOREM LongerWindowsHoldMore == ReportSpec => []WindowsNest
<1>1. ReportInv => WindowsNest
  BY NestFollows
<1> QED
  BY <1>1, ReportInvariant, PTL

\* PivotPartitions: a pivot that is not refused has each loaded session on one
\* side of the day and no side empty (cli.py:_run_report_pivot).
THEOREM PivotSplits == ReportSpec => []PivotPartitions
<1>1. ReportInv => PivotPartitions
  BY PivotFollows
<1> QED
  BY <1>1, ReportInvariant, PTL

\* SmallCellsHidden: no mean over fewer observations than required is told by
\* the trend table or by the movers, whatever sessions were loaded
\* (renderer.py:_render_trend_table, cli.py:_compute_top_movers).
THEOREM CellsStayHidden == ReportSpec => []SmallCellsHidden
<1>1. ReportInv => SmallCellsHidden
  BY HiddenFollows
<1> QED
  BY <1>1, ReportInvariant, PTL

---------------------------------------------------------------------------
(* Labels                                                                  *)

IsFleet(fleet) == fleet \subseteq Sessions

LEMMA FleetIsFinite ==
  ASSUME NEW fleet, IsFleet(fleet)
  PROVE  IsFiniteSet(fleet) /\ fleet \subseteq Nat /\ \A s \in fleet : IdOf[s] \in Seq(Nat)
  BY ScreenAssumption, FS_Subset DEF IsFleet

\* The longest id of a fleet.
LEMMA LongestIs ==
  ASSUME NEW fleet, IsFleet(fleet), fleet # {}
  PROVE  Max({Len(IdOf[s]) : s \in fleet}) \in Nat
<1> DEFINE lengths == {Len(IdOf[s]) : s \in fleet}
           f == [s \in fleet |-> Len(IdOf[s])]
<1>1. f \in Surjection(fleet, lengths)
  BY DEF Surjection
<1>2. IsFiniteSet(lengths)
  BY <1>1, FleetIsFinite, FS_Surjection
<1>3. \A s \in fleet : Len(IdOf[s]) \in Nat
  BY FleetIsFinite
<1>4. lengths \subseteq Nat /\ lengths # {}
  BY <1>3
<1> HIDE DEF lengths
<1>5. Max(lengths) \in lengths
  BY <1>2, <1>4, MaxIs
<1> QED
  BY <1>4, <1>5 DEF lengths

\* Where no prefix tells the sessions apart, the ids and the numbers do.
Numbered(fleet, s) ==
  LET before == {t \in fleet : t < s /\ IdOf[t] = IdOf[s]}
  IN IF before = {} THEN IdOf[s] ELSE Append(IdOf[s], -Cardinality(before))

\* A number at the end of an id is no part of an id, and tells which it is.
LEMMA NumberTells ==
  ASSUME NEW a \in Seq(Nat), NEW b \in Seq(Nat), NEW c \in Int, NEW d \in Int
  PROVE  /\ d < 0 => a # Append(b, d)
         /\ Append(a, c) = Append(b, d) => a = b /\ c = d
<1>1. a \in Seq(Int) /\ b \in Seq(Int) /\ c \in Int /\ d \in Int
  OBVIOUS
<1>2. /\ Len(Append(a, c)) = Len(a) + 1 /\ Len(Append(b, d)) = Len(b) + 1
      /\ \A k \in 1..Len(a) : Append(a, c)[k] = a[k]
      /\ \A k \in 1..Len(b) : Append(b, d)[k] = b[k]
      /\ Append(a, c)[Len(a) + 1] = c /\ Append(b, d)[Len(b) + 1] = d
  BY <1>1, AppendProperties
<1>3. Len(a) \in Nat /\ Len(b) \in Nat
  OBVIOUS
<1>4. d < 0 => a # Append(b, d)
  <2> SUFFICES ASSUME d < 0, a = Append(b, d)
               PROVE  FALSE
    OBVIOUS
  <2>1. Len(a) = Len(b) + 1 /\ a[Len(a)] = d
    BY <1>2
  <2>2. a[Len(a)] \in Nat
    BY <1>3, <2>1
  <2> QED
    BY <2>1, <2>2
<1>5. ASSUME Append(a, c) = Append(b, d)
      PROVE  a = b /\ c = d
  <2>1. Len(a) + 1 = Len(b) + 1 /\ c = d
    BY <1>2, <1>3, <1>5
  <2>2. Len(a) = Len(b)
    BY <1>3, <2>1
  <2>3. \A k \in 1..Len(a) : a[k] = b[k]
    BY <1>2, <1>5, <2>2
  <2> QED
    BY <2>1, <2>2, <2>3
<1> QED
  BY <1>4, <1>5

LEMMA NumbersDiffer ==
  ASSUME NEW fleet, IsFleet(fleet), NEW s \in fleet, NEW t \in fleet, s < t
  PROVE  Numbered(fleet, s) # Numbered(fleet, t)
<1> DEFINE before(u) == {v \in fleet : v < u /\ IdOf[v] = IdOf[u]}
           count(u) == Cardinality(before(u))
<1>1. IsFiniteSet(fleet) /\ fleet \subseteq Nat /\ \A u \in fleet : IdOf[u] \in Seq(Nat)
  BY FleetIsFinite
<1>2. \A u \in fleet : /\ IsFiniteSet(before(u)) /\ count(u) \in Nat
                       /\ before(u) # {} => count(u) # 0
  BY <1>1, FS_Subset, FS_CardinalityType, FS_EmptySet
<1>3. \A u \in fleet : Numbered(fleet, u) = IF before(u) = {} THEN IdOf[u] ELSE Append(IdOf[u], -count(u))
  BY DEF Numbered
<1>4. IdOf[s] = IdOf[t] => s \in before(t) /\ before(s) \subseteq before(t) /\ s \notin before(s)
  <2> SUFFICES ASSUME IdOf[s] = IdOf[t]
               PROVE  s \in before(t) /\ before(s) \subseteq before(t) /\ s \notin before(s)
    OBVIOUS
  <2>1. s \in Nat /\ t \in Nat /\ fleet \subseteq Nat
    BY <1>1
  <2>2. \A v \in fleet : v < s => v < t
    BY <2>1
  <2>3. ~ (s < s)
    BY <2>1
  <2> QED
    BY <2>2, <2>3
<1>5. IdOf[s] = IdOf[t] => count(s) # count(t)
  <2> SUFFICES ASSUME IdOf[s] = IdOf[t]
               PROVE  count(s) # count(t)
    OBVIOUS
  <2>1. before(s) \subseteq before(t) /\ before(s) # before(t)
    BY <1>4
  <2> HIDE DEF before
  <2> QED
    BY <1>2, <2>1, FS_Subset
<1> HIDE DEF before, count
<1>6. \A u \in fleet, v \in fleet :
        /\ IdOf[u] # Append(IdOf[v], -count(v)) \/ count(v) = 0
        /\ Append(IdOf[u], -count(u)) = Append(IdOf[v], -count(v)) =>
             IdOf[u] = IdOf[v] /\ count(u) = count(v)
  <2> SUFFICES ASSUME NEW u \in fleet, NEW v \in fleet
               PROVE  /\ IdOf[u] # Append(IdOf[v], -count(v)) \/ count(v) = 0
                      /\ Append(IdOf[u], -count(u)) = Append(IdOf[v], -count(v)) =>
                           IdOf[u] = IdOf[v] /\ count(u) = count(v)
    OBVIOUS
  <2>1. /\ IdOf[u] \in Seq(Nat) /\ IdOf[v] \in Seq(Nat)
        /\ count(u) \in Nat /\ count(v) \in Nat
    BY <1>1, <1>2
  <2>2. PICK c, d : c = -count(u) /\ d = -count(v)
    OBVIOUS
  <2>0. c \in Int /\ d \in Int
    BY <2>1, <2>2
  <2>3. (count(v) # 0 => d < 0) /\ (c = d => count(u) = count(v))
    BY <2>1, <2>2
  <2>4. /\ d < 0 => IdOf[u] # Append(IdOf[v], d)
        /\ Append(IdOf[u], c) = Append(IdOf[v], d) => IdOf[u] = IdOf[v] /\ c = d
    <3>1. PICK a, b : a = IdOf[u] /\ b = IdOf[v]
      OBVIOUS
    <3>2. a \in Seq(Nat) /\ b \in Seq(Nat)
      BY <2>1, <3>1
    <3>3. /\ d < 0 => a # Append(b, d)
          /\ Append(a, c) = Append(b, d) => a = b /\ c = d
      BY <2>0, <3>2, NumberTells
    <3> QED
      BY <3>1, <3>3
  <2> QED
    BY <2>2, <2>3, <2>4
<1> QED
  BY <1>2, <1>3, <1>4, <1>5, <1>6

\* _build_label_map labels no two sessions of a fleet alike.
LEMMA LabelsDiffer ==
  ASSUME NEW fleet, IsFleet(fleet)
  PROVE  DOMAIN LabelMap(fleet) = fleet /\ IsInjective(LabelMap(fleet))
<1> DEFINE longest == Max({Len(IdOf[s]) : s \in fleet})
           enough  == {n \in MinPrefix..longest : IsInjective([s \in fleet |-> Prefix(s, n)])}
<1>1. LabelMap(fleet) =
        IF fleet = {} THEN <<>>
        ELSE IF enough # {} THEN [s \in fleet |-> Prefix(s, Min(enough))]
        ELSE [s \in fleet |-> Numbered(fleet, s)]
  BY DEF LabelMap, Numbered
<1>2. CASE fleet = {}
  BY <1>1, <1>2 DEF IsInjective
<1>3. CASE fleet # {} /\ enough # {}
  <2>1. longest \in Nat /\ MinPrefix \in Nat
    BY <1>3, LongestIs, ScreenAssumption
  <2>2. enough \subseteq Nat
    <3> HIDE DEF longest
    <3> QED
      BY <2>1
  <2>3. Min(enough) \in enough
    <3> HIDE DEF enough
    <3> QED
      BY <1>3, <2>2, MinIs
  <2>4. IsInjective([s \in fleet |-> Prefix(s, Min(enough))])
    <3>1. \A n \in enough : IsInjective([s \in fleet |-> Prefix(s, n)])
      OBVIOUS
    <3> HIDE DEF enough
    <3> QED
      BY <2>3, <3>1
  <2> HIDE DEF enough
  <2> QED
    BY <1>1, <1>3, <2>4
<1>4. CASE fleet # {} /\ enough = {}
  <2>1. LabelMap(fleet) = [s \in fleet |-> Numbered(fleet, s)]
    <3> HIDE DEF enough
    <3> QED
      BY <1>1, <1>4
  <2>2. ASSUME NEW s \in fleet, NEW t \in fleet, Numbered(fleet, s) = Numbered(fleet, t)
        PROVE  s = t
    <3>1. s \in Nat /\ t \in Nat
      BY FleetIsFinite
    <3>2. ~ (s < t) /\ ~ (t < s)
      BY <2>2, NumbersDiffer
    <3> QED
      BY <3>1, <3>2
  <2> QED
    BY <2>1, <2>2 DEF IsInjective
<1> QED
  BY <1>2, <1>3, <1>4

---------------------------------------------------------------------------
(* Rows of projects                                                        *)

\* The live row of a project is the only one, and is as bad as its worst session.
IsBlocks(blocks) ==
  /\ IsFiniteSet(blocks)
  /\ \A b \in blocks : b.rank \in Nat /\ b.at \in Nat

LiveRow(blocks, k) ==
  LET of == {b \in blocks : b.project = k}
  IN [key |-> k, sessions |-> Cardinality(of), rank |-> Min({b.rank : b \in of}),
      at |-> Max({b.at : b \in of}), live |-> TRUE]

LEMMA LiveRowIs ==
  ASSUME NEW blocks, IsBlocks(blocks), NEW b \in blocks
  PROVE  LET r == LiveRow(blocks, b.project) IN
         /\ r.key = b.project /\ r.live /\ r.rank <= b.rank /\ b.at <= r.at
         /\ r.sessions = Cardinality({c \in blocks : c.project = b.project})
<1> DEFINE of == {c \in blocks : c.project = b.project}
           ranks == {c.rank : c \in of}
           ats == {c.at : c \in of}
           r == LiveRow(blocks, b.project)
<1>1. of \subseteq blocks /\ IsFiniteSet(of) /\ b \in of
  BY FS_Subset DEF IsBlocks
<1>2. ranks \subseteq Nat /\ b.rank \in ranks /\ ats \subseteq Nat /\ b.at \in ats
  BY DEF IsBlocks
<1>3. IsFiniteSet(ats)
  <2> DEFINE f == [c \in of |-> c.at]
  <2>1. f \in Surjection(of, ats)
    BY DEF Surjection
  <2> QED
    BY <1>1, <2>1, FS_Surjection
<1>4. /\ r.key = b.project /\ r.live = TRUE /\ r.rank = Min(ranks) /\ r.at = Max(ats)
      /\ r.sessions = Cardinality(of)
  BY DEF LiveRow
<1> HIDE DEF ranks, ats, r
<1>5. Min(ranks) <= b.rank
  BY <1>2, MinIs
<1>6. b.at <= Max(ats)
  BY <1>2, <1>3, MaxIs
<1> QED
  BY <1>4, <1>5, <1>6 DEF r

LEMMA OverlayKeepsLive ==
  ASSUME NEW blocks, NEW b \in blocks, NEW stored
  PROVE  {r \in Overlay(LiveRows(blocks), stored) : r.key = b.project} =
           {LiveRow(blocks, b.project)}
<1> DEFINE live == LiveRows(blocks)
           late == {q \in RecentRows(stored) : \A l \in live : l.key # q.key}
           kept == {[key |-> q.key, sessions |-> q.sessions, rank |-> q.rank, at |-> q.at,
                     live |-> FALSE] : q \in late}
           mine == LiveRow(blocks, b.project)
<1>1. live = {LiveRow(blocks, k) : k \in {c.project : c \in blocks}}
  BY DEF LiveRows, LiveRow
<1>2. \A k : LiveRow(blocks, k).key = k
  BY DEF LiveRow
<1>3. mine \in live /\ mine.key = b.project
  BY <1>1, <1>2
<1>4. \A r \in live : r.key = b.project => r = mine
  BY <1>1, <1>2
<1>5. \A r \in kept : r.key # b.project
  <2> SUFFICES ASSUME NEW q \in late
               PROVE  [key |-> q.key, sessions |-> q.sessions, rank |-> q.rank, at |-> q.at,
                       live |-> FALSE].key # b.project
    OBVIOUS
  <2>1. q.key # b.project
    BY <1>3
  <2> QED
    BY <2>1
<1>6. Overlay(live, stored) = live \cup kept
  BY DEF Overlay
<1> HIDE DEF live, kept, mine
<1> QED
  BY <1>3, <1>4, <1>5, <1>6 DEF live, mine

---------------------------------------------------------------------------
(* The inductive invariant of Screen                                       *)

\* The renderer's labels tell the sessions of the last fleet apart.
LabelsTell == IsInjective(labels)

\* The alternate screen is entered as often as it was not left, and the loop
\* has not ended otherwise than by the finally clause.
ScreenHeld ==
  /\ loop = [pc |-> loop.pc, mode |-> loop.mode, tty |-> loop.tty, raised |-> loop.raised]
  /\ loop.pc \in {"watching", "closing", "ended"}
  /\ terminal = [alt |-> terminal.alt, entered |-> terminal.entered]
  /\ terminal.alt \in BOOLEAN
  /\ terminal.entered = IF terminal.alt THEN 1 ELSE 0
  /\ loop.pc = "ended" /\ ~ loop.raised => ~ terminal.alt

IInv == LabelsTell /\ HeadersDiffer /\ LiveProjectsAreLive /\ ScreenHeld

LEMMA InitInvariant == ScreenInit => IInv
<1> SUFFICES ASSUME ScreenInit PROVE IInv
  OBVIOUS
<1>1. /\ loop \in [pc : {"watching"}, mode : {"session", "project"}, tty : BOOLEAN, raised : {FALSE}]
      /\ labels = <<>> /\ frame = NoFrame /\ terminal = [alt |-> FALSE, entered |-> 0]
  BY DEF ScreenInit
<1>2. LabelsTell
  BY <1>1 DEF LabelsTell, IsInjective
<1>3. HeadersDiffer /\ LiveProjectsAreLive
  BY <1>1 DEF HeadersDiffer, LiveProjectsAreLive
<1>4. ScreenHeld
  BY <1>1 DEF ScreenHeld
<1> QED
  BY <1>2, <1>3, <1>4 DEF IInv

\* What ScreenTick leaves: the labels and the frame of a fleet.
LEMMA TickIs ==
  ASSUME IInv, ScreenTick
  PROVE  /\ \E fleet \in SUBSET Sessions : \E blocks, stored :
              /\ IsBlocks(blocks)
              /\ labels' = LabelsFor(labels, fleet)
              /\ frame' = Body(loop.mode, blocks, stored,
                               [s \in fleet |-> <<LabelOf(labels', s),
                                  IF ShowsRoots(fleet) THEN RootOf[s] ELSE 0>>])
         /\ terminal' = IF loop.tty THEN Entered(terminal) ELSE terminal
         /\ loop' = loop
<1>1. PICK fleet \in SUBSET Sessions, stored \in StoredRows :
      \E rank \in [fleet -> 0..2], at \in [fleet -> 1..MaxAt], n \in NamesSeen :
       LET blocks == {[key |-> s, rank |-> rank[s], at |-> at[s],
                       project |-> NameOf(n, ProjectOf[s])] : s \in fleet}
       IN /\ names' = n
          /\ labels' = LabelsFor(labels, fleet)
          /\ frame' = Body(loop.mode, blocks, stored,
                           [s \in fleet |-> <<LabelOf(labels', s),
                              IF ShowsRoots(fleet) THEN RootOf[s] ELSE 0>>])
  BY DEF ScreenTick
<1>2. PICK rank \in [fleet -> 0..2], at \in [fleet -> 1..MaxAt], n \in NamesSeen :
       LET blocks == {[key |-> s, rank |-> rank[s], at |-> at[s],
                       project |-> NameOf(n, ProjectOf[s])] : s \in fleet}
       IN /\ names' = n
          /\ labels' = LabelsFor(labels, fleet)
          /\ frame' = Body(loop.mode, blocks, stored,
                           [s \in fleet |-> <<LabelOf(labels', s),
                              IF ShowsRoots(fleet) THEN RootOf[s] ELSE 0>>])
  BY <1>1
<1> DEFINE block(s) == [key |-> s, rank |-> rank[s], at |-> at[s],
                        project |-> NameOf(n, ProjectOf[s])]
           blocks == {block(s) : s \in fleet}
<1>3. IsBlocks(blocks)
  <2> DEFINE f == [s \in fleet |-> block(s)]
  <2>1. IsFiniteSet(fleet)
    BY ScreenAssumption, FS_Subset
  <2>2. f \in Surjection(fleet, blocks)
    <3> HIDE DEF block
    <3> QED
      BY DEF Surjection
  <2>3. IsFiniteSet(blocks)
    <3> HIDE DEF f, blocks
    <3> QED
      BY <2>1, <2>2, FS_Surjection
  <2>4. \A s \in fleet : block(s).rank \in Nat /\ block(s).at \in Nat
    BY ScreenAssumption
  <2> HIDE DEF block
  <2> QED
    BY <2>3, <2>4 DEF IsBlocks
<1>4. /\ labels' = LabelsFor(labels, fleet)
      /\ frame' = Body(loop.mode, blocks, stored,
                       [s \in fleet |-> <<LabelOf(labels', s),
                          IF ShowsRoots(fleet) THEN RootOf[s] ELSE 0>>])
  BY <1>2
<1>5. terminal' = (IF loop.tty THEN Entered(terminal) ELSE terminal) /\ loop' = loop
  BY DEF ScreenTick
<1> HIDE DEF blocks
<1> QED
  BY <1>3, <1>4, <1>5

LEMMA TickStep ==
  ASSUME IInv, ScreenTick
  PROVE  IInv'
<1>0. PICK fleet \in SUBSET Sessions : \E blocks, stored :
        /\ IsBlocks(blocks)
        /\ labels' = LabelsFor(labels, fleet)
        /\ frame' = Body(loop.mode, blocks, stored,
                         [s \in fleet |-> <<LabelOf(labels', s),
                            IF ShowsRoots(fleet) THEN RootOf[s] ELSE 0>>])
  BY TickIs
<1>1. PICK blocks, stored :
        /\ IsBlocks(blocks)
        /\ labels' = LabelsFor(labels, fleet)
        /\ frame' = Body(loop.mode, blocks, stored,
                         [s \in fleet |-> <<LabelOf(labels', s),
                            IF ShowsRoots(fleet) THEN RootOf[s] ELSE 0>>])
  BY <1>0
<1> DEFINE header == [s \in fleet |-> <<LabelOf(labels', s),
                                        IF ShowsRoots(fleet) THEN RootOf[s] ELSE 0>>]
<1>2. /\ frame'.blocks = blocks /\ frame'.header = header
      /\ frame'.rows = IF loop.mode = "session" THEN blocks ELSE Overlay(LiveRows(blocks), stored)
  <2>1. frame' = Body(loop.mode, blocks, stored, header)
    BY <1>1
  <2> HIDE DEF header
  <2> QED
    BY <2>1 DEF Body
<1>3. DOMAIN labels' = fleet /\ IsInjective(labels')
  BY <1>1, LabelsDiffer DEF LabelsFor, IInv, LabelsTell, IsFleet
<1>4. HeadersDiffer'
  <2>1. ASSUME NEW s \in fleet, NEW t \in fleet, header[s] = header[t]
        PROVE  s = t
    <3>1. LabelOf(labels', s) = LabelOf(labels', t)
      BY <2>1
    <3>2. labels'[s] = labels'[t]
      BY <1>3, <3>1 DEF LabelOf
    <3> QED
      BY <1>3, <3>2 DEF IsInjective
  <2>2. DOMAIN header = fleet
    OBVIOUS
  <2> HIDE DEF header
  <2> QED
    BY <1>2, <2>1, <2>2 DEF HeadersDiffer, IsInjective
<1>5. LiveProjectsAreLive'
  <2> SUFFICES ASSUME loop.mode = "project", NEW b \in blocks
               PROVE  LET mine == {r \in frame'.rows : r.key = b.project} IN
                      /\ Cardinality(mine) = 1
                      /\ \A r \in mine :
                           /\ r.live /\ r.rank <= b.rank /\ r.at >= b.at
                           /\ r.sessions = Cardinality({c \in blocks : c.project = r.key})
    BY <1>2, TickIs DEF LiveProjectsAreLive
  <2> DEFINE row == LiveRow(blocks, b.project)
  <2>1. {r \in frame'.rows : r.key = b.project} = {row}
    BY <1>2, OverlayKeepsLive
  <2>2. /\ row.key = b.project /\ row.live /\ row.rank <= b.rank /\ b.at <= row.at
        /\ row.sessions = Cardinality({c \in blocks : c.project = b.project})
    BY <1>1, LiveRowIs
  <2> HIDE DEF row
  <2>3. Cardinality({row}) = 1
    BY FS_Singleton
  <2> QED
    BY <2>1, <2>2, <2>3
<1>6. ScreenHeld'
  <2>1. terminal' = (IF loop.tty THEN Entered(terminal) ELSE terminal) /\ loop' = loop
    BY TickIs
  <2>2. loop.pc = "watching"
    BY DEF ScreenTick
  <2>3. /\ terminal = [alt |-> terminal.alt, entered |-> terminal.entered]
        /\ terminal.alt \in BOOLEAN /\ terminal.entered = IF terminal.alt THEN 1 ELSE 0
    BY DEF IInv, ScreenHeld
  <2>4. \/ terminal' = terminal
        \/ terminal' = [alt |-> TRUE, entered |-> 1]
    <3>1. CASE loop.tty /\ ~ terminal.alt
      <4>1. terminal.entered + 1 = 1
        BY <2>3, <3>1
      <4> QED
        BY <2>1, <3>1, <4>1 DEF Entered
    <3>2. CASE ~ loop.tty \/ terminal.alt
      BY <2>1, <3>2 DEF Entered
    <3> QED
      BY <3>1, <3>2
  <2>5. /\ terminal' = [alt |-> terminal'.alt, entered |-> terminal'.entered]
        /\ terminal'.alt \in BOOLEAN /\ terminal'.entered = IF terminal'.alt THEN 1 ELSE 0
    <3>1. CASE terminal' = terminal
      BY <2>3, <3>1
    <3>2. CASE terminal' = [alt |-> TRUE, entered |-> 1]
      BY <3>2
    <3> QED
      BY <2>4, <3>1, <3>2
  <2>6. loop'.pc = "watching" /\ loop' = loop
    BY <2>1, <2>2
  <2> QED
    BY <2>5, <2>6 DEF IInv, ScreenHeld
<1> QED
  BY <1>3, <1>4, <1>5, <1>6 DEF IInv, LabelsTell

LEMMA BeginStep ==
  ASSUME IInv, ScreenBegin
  PROVE  IInv'
<1>1. /\ frame' = NoFrame /\ loop' = loop /\ labels' = labels /\ terminal' = terminal
  BY DEF ScreenBegin
<1>2. LabelsTell' /\ HeadersDiffer' /\ LiveProjectsAreLive'
  BY <1>1 DEF IInv, LabelsTell, HeadersDiffer, LiveProjectsAreLive
<1>3. ScreenHeld'
  BY <1>1 DEF IInv, ScreenHeld
<1> QED
  BY <1>2, <1>3 DEF IInv

\* The steps that end the loop change neither labels nor frame.
LEMMA EndSteps ==
  ASSUME IInv, ScreenStop \/ ScreenClose \/ ScreenCloseRaises
  PROVE  IInv'
<1>1. /\ frame' = frame /\ labels' = labels
      /\ loop = [pc |-> loop.pc, mode |-> loop.mode, tty |-> loop.tty, raised |-> loop.raised]
      /\ terminal = [alt |-> terminal.alt, entered |-> terminal.entered]
      /\ terminal.alt \in BOOLEAN /\ terminal.entered = IF terminal.alt THEN 1 ELSE 0
  BY DEF ScreenStop, ScreenClose, ScreenCloseRaises, IInv, ScreenHeld
<1>2. loop'.mode = loop.mode /\ ScreenHeld'
  <2>1. CASE ScreenStop
    <3>1. loop' = [loop EXCEPT !.pc = "closing"] /\ terminal' = terminal
      BY <2>1 DEF ScreenStop
    <3>2. loop' = [pc |-> "closing", mode |-> loop.mode, tty |-> loop.tty, raised |-> loop.raised]
      BY <1>1, <3>1
    <3> QED
      BY <1>1, <3>1, <3>2 DEF ScreenHeld
  <2>2. CASE ScreenClose
    <3>1. /\ loop' = [loop EXCEPT !.pc = "ended"]
          /\ terminal' = IF terminal.alt THEN [alt |-> FALSE, entered |-> terminal.entered - 1]
                         ELSE terminal
      BY <2>2 DEF ScreenClose
    <3>2. loop' = [pc |-> "ended", mode |-> loop.mode, tty |-> loop.tty, raised |-> loop.raised]
      BY <1>1, <3>1
    <3>3. terminal' = [alt |-> FALSE, entered |-> 0]
      <4>1. CASE terminal.alt
        <5>1. terminal.entered - 1 = 0
          BY <1>1, <4>1
        <5> QED
          BY <3>1, <4>1, <5>1
      <4>2. CASE ~ terminal.alt
        <5>1. terminal.alt = FALSE /\ terminal.entered = 0
          BY <1>1, <4>2
        <5>2. terminal' = terminal
          BY <3>1, <4>2
        <5> QED
          BY Zenon, <1>1, <5>1, <5>2
      <4> QED
        BY <4>1, <4>2
    <3> QED
      BY <3>2, <3>3 DEF ScreenHeld
  <2>3. CASE ScreenCloseRaises
    <3>1. loop' = [[loop EXCEPT !.pc = "ended"] EXCEPT !.raised = TRUE] /\ terminal' = terminal
      BY <1>1, <2>3 DEF ScreenCloseRaises
    <3>2. [loop EXCEPT !.pc = "ended"] =
            [pc |-> "ended", mode |-> loop.mode, tty |-> loop.tty, raised |-> loop.raised]
      BY <1>1
    <3>3. loop' = [pc |-> "ended", mode |-> loop.mode, tty |-> loop.tty, raised |-> TRUE]
      BY <3>1, <3>2
    <3> QED
      BY <1>1, <3>1, <3>3 DEF ScreenHeld
  <2> QED
    BY <2>1, <2>2, <2>3
<1>3. LabelsTell' /\ HeadersDiffer' /\ LiveProjectsAreLive'
  BY <1>1, <1>2 DEF IInv, LabelsTell, HeadersDiffer, LiveProjectsAreLive
<1> QED
  BY <1>2, <1>3 DEF IInv

LEMMA Invariant == ScreenSpec => []IInv
<1>1. ScreenInit => IInv
  BY InitInvariant
<1>2. IInv /\ [ScreenNext]_screenVars => IInv'
  <2> SUFFICES ASSUME IInv, [ScreenNext]_screenVars
               PROVE  IInv'
    OBVIOUS
  <2>1. CASE UNCHANGED screenVars
    BY <2>1 DEF screenVars, IInv, LabelsTell, HeadersDiffer, LiveProjectsAreLive, ScreenHeld
  <2> QED
    BY <2>1, TickStep, BeginStep, EndSteps DEF ScreenNext
<1> QED
  BY <1>1, <1>2, PTL DEF ScreenSpec

---------------------------------------------------------------------------
(* The theorems about the screen                                           *)

\* In every frame the sessions go by headers of their own, whatever their ids
\* have in common and however the fleet changed (terminal.py:_build_label_map).
THEOREM HeadersTellApart == ScreenSpec => []HeadersDiffer
<1>1. IInv => HeadersDiffer
  BY DEF IInv
<1> QED
  BY <1>1, Invariant, PTL

\* A live project has one row, its own, whatever the store has of it
\* (terminal.py:_live_project_aggregates, _overlay_store_projects).
THEOREM LiveRowsWin == ScreenSpec => []LiveProjectsAreLive
<1>1. IInv => LiveProjectsAreLive
  BY DEF IInv
<1> QED
  BY <1>1, Invariant, PTL

\* The screen of the shell is given back however the loop ends, but where
\* aggregator.close() raises (cli.py:_run_watch, terminal.py:close).
THEOREM ScreenIsGivenBack == ScreenSpec => []ScreenGivenBack
<1>1. IInv => ScreenGivenBack
  BY DEF IInv, ScreenHeld, ScreenGivenBack
<1> QED
  BY <1>1, Invariant, PTL
=============================================================================
