------------------------ MODULE WatchSystem_proofs ------------------------
(***************************************************************************)
(* Theorems about WatchSystem, for every value of its constants.           *)
(***************************************************************************)
EXTENDS WatchSystem, WellFoundedInduction, TLAPS

---------------------------------------------------------------------------
(* Keys and databases                                                      *)

\* Session keys are keys, tell the paths apart, and are never legacy ones.
LEMMA KeysDiffer ==
  ASSUME NEW p \in Paths
  PROVE  /\ SessionKey(p) \in SessionKeys /\ SessionKey(p) \in Keys
         /\ \A q \in Paths : SessionKey(p) = SessionKey(q) => p = q
         /\ \A id : SessionKey(p) # LegacyKey(id) /\ SessionKey(p) # BareKey(id)
         /\ LegacyKey(Stem[p]) \in Keys
  BY LegacyAssumption, NamesAssumption
  DEF SessionKey, SessionKeys, Keys, LegacyKey, BareKey, Ids

Db == [version : Nat \cup {None}, rows : [Keys -> Row \cup {None}]]

\* What opening a database leaves of its rows.
LEMMA OpenedType ==
  ASSUME NEW d \in Db
  PROVE  /\ Opened(d) \in Db /\ Opened(d).version # None /\ Opened(d).version # 1
         /\ ~ Refused(d) => Opened(d).version = 2
         /\ (Refused(d) \/ d.version = 2) => Opened(d) = d
         /\ \A k \in Keys : Opened(d).rows[k] # None =>
              \E j \in Keys : d.rows[j] = Opened(d).rows[k]
         /\ \A p \in Paths : Opened(d).rows[SessionKey(p)] \in {None, d.rows[SessionKey(p)]}
<1>0. None # 1 /\ None # 2
  BY NoneAssumption
<1>1. CASE d.version = None
  <2>1. Opened(d) = [version |-> 2, rows |-> NoRows]
    BY <1>0, <1>1 DEF Opened
  <2>2. NoRows \in [Keys -> Row \cup {None}] /\ \A k \in Keys : NoRows[k] = None
    BY DEF NoRows
  <2>3. Opened(d).rows = NoRows /\ Opened(d).version = 2 /\ Opened(d) \in Db
    BY <2>1, <2>2 DEF Db
  <2>4. ~ Refused(d) /\ d.version # 2
    BY <1>0, <1>1 DEF Refused
  <2> QED
    BY <1>0, <2>2, <2>3, <2>4, KeysDiffer
<1>2. CASE d.version = 1
  <2> DEFINE m == Migrated(d.rows)
  <2>1. Opened(d) = [version |-> 2, rows |-> m]
    BY <1>0, <1>2 DEF Opened
  <2>2. \A k \in Keys :
          m[k] = IF k \in {LegacyKey(id) : id \in Ids} THEN d.rows[BareKey(k[2])] ELSE None
    BY DEF Migrated
  <2>3. \A id \in Ids : LegacyKey(id)[2] = id /\ BareKey(id) \in Keys
    BY DEF LegacyKey, Keys
  <2>4. \A k \in Keys : m[k] # None => \E j \in Keys : d.rows[j] = m[k]
    BY <2>2, <2>3
  <2>5. m \in [Keys -> Row \cup {None}]
    BY <2>2, <2>3 DEF Migrated, Db
  <2>6. \A p \in Paths : m[SessionKey(p)] = None
    BY <2>2, KeysDiffer
  <2> HIDE DEF m
  <2> QED
    BY <1>0, <1>2, <2>1, <2>4, <2>5, <2>6 DEF Db, Refused
<1>3. CASE d.version # None /\ d.version # 1
  <2>1. Opened(d) = d
    BY <1>3 DEF Opened
  <2> QED
    BY <1>0, <1>3, <2>1, KeysDiffer DEF Refused
<1> QED
  BY <1>1, <1>2, <1>3

\* The row found for a path is one of the database and of that path.
LEMMA FoundByPath ==
  ASSUME NEW d \in Db, NEW p \in Paths, GetByPath(d, p) # None
  PROVE  \E k \in Keys : d.rows[k] = GetByPath(d, p) /\ d.rows[k] # None /\ d.rows[k].path = p
  BY KeysDiffer DEF GetByPath

\* The next path of a walk is one of those left.
LEMMA NextLeft ==
  ASSUME NEW todo \in SUBSET Paths, todo # {}
  PROVE  NextPath(todo) \in todo
<1>1. todo \subseteq Nat
  BY PathsAssumption
<1>2. PICK x \in todo : \A y \in todo : ~ (<<y, x>> \in OpToRel(<, Nat))
  BY <1>1, NatLessThanWellFounded, WFMin
<1>3. \A y \in todo : ~ (y < x)
  BY <1>1, <1>2 DEF OpToRel
<1>4. \A y \in todo : x <= y
  BY <1>1, <1>3
<1> QED
  BY <1>4 DEF NextPath

---------------------------------------------------------------------------
(* The invariant.                                                          *)

FileInv(p) ==
  /\ file[p].size <= 3 * MaxLines[p]
  /\ cursors[p] # None =>
       /\ watch = "up"
       /\ cursors[p].ino <= file[p].ino
       /\ cursors[p].ino = file[p].ino => cursors[p].at <= file[p].size
       /\ cursors[p].from <= cursors[p].at /\ cursors[p].at <= 3 * MaxLines[p]
       /\ \A k \in LinesOf(p) : 3 * k <= cursors[p].at => 3 * k <= cursors[p].from
       /\ seeds[p] = None
  /\ contexts[SessionKey(p)] # None => cursors[p] # None
  /\ seeds[p] # None => watch = "up" /\ seeds[p].offset = seeds[p].size

RowInv ==
  /\ db.version = None => db.rows = NoRows
  /\ watch = "up" => db.version # None /\ db.version # 1
  /\ \A k \in Keys : db.rows[k] # None => db.rows[k].offset = db.rows[k].size
  /\ \A p \in Paths : LET row == db.rows[SessionKey(p)]
       IN row # None => LeftBehind(row, p, file[p])

JobInv ==
  job # None =>
    /\ db.version = 2
    /\ job.by = "watch" => watch = "ingesting"
    /\ job.todo \cap {d[1] : d \in job.done} = {} /\ job.at \notin job.todo
    /\ job.at \notin {d[1] : d \in job.done}
    /\ (job.at = None <=> job.stat = None) /\ (job.fold # None => job.at # None)
    /\ job.at # None =>
         /\ job.stat.there /\ job.stat.ino <= file[job.at].ino
         /\ job.stat.ino = file[job.at].ino => job.stat.size <= file[job.at].size
    /\ job.fold # None =>
         /\ OwnLines(job.fold, job.at)
         /\ job.flaws = {} => Exact(job.fold, job.at, job.stat.ino, job.stat.size)
    /\ \A d \in job.done :
         \E k \in Keys : db.rows[k] # None /\ db.rows[k].path = d[1]
                          /\ db.rows[k].ino = d[2] /\ db.rows[k].size = d[3]

\* A row that was there when the watch read its seeds is of an earlier file, or of
\* no more of this one than was read.
SeedInv(p) ==
  LET row == db.rows[SessionKey(p)]
  IN (watch = "up" /\ p \notin touched /\ row # None /\ ~ Refused(db)) =>
       IF cursors[p] # None
       THEN /\ row.ino <= cursors[p].ino
            /\ row.ino = cursors[p].ino => row.size <= cursors[p].at
       ELSE seeds[p] = None => ~ file[p].there \/ row.ino < file[p].ino

ContextInv(p) ==
  LET k == SessionKey(p)
  IN contexts[k] # None =>
       /\ OwnLines(contexts[k], p)
       /\ flaws[k] = {} => Exact(contexts[k], p, cursors[p].ino, cursors[p].from)

---------------------------------------------------------------------------
(* Types                                                                   *)

Reasons == {"raced", "torn", "legacy", "ingested", "evicted"}

TypeInv ==
  /\ file \in [Paths -> File]
  /\ db \in Db
  /\ job \in Job \cup {None}
  /\ watch \in {"down", "ingesting", "up"}
  /\ cursors \in [Paths -> Cursor \cup {None}]
  /\ seeds \in [Paths -> Row \cup {None}]
  /\ contexts \in [SessionKeys -> Fold \cup {None}]
  /\ flaws \in [SessionKeys -> SUBSET Reasons]
  /\ touched \subseteq Paths

LEMMA TypeInit == Init => TypeInv
  BY StoresAssumption
  DEF Init, TypeInv, Db, FirstFile, File

\* Lines of a path, in a fold.
LEMMA LinesType ==
  ASSUME TypeInv, NEW p \in Paths, NEW numbers \in SUBSET LinesOf(p)
  PROVE  /\ Lines(p, numbers) \in SUBSET Place
         /\ \A line \in Lines(p, numbers) : line[1] = p /\ line[2] = file[p].ino
         /\ \A k, i : <<p, i, k>> \in Lines(p, numbers) <=> i = file[p].ino /\ k \in numbers
<1>1. file[p].ino \in Nat /\ numbers \subseteq Nat
  BY BoundsAssumption DEF LinesOf, TypeInv, File
<1>2. \A line \in Lines(p, numbers) : \E k \in numbers : line = <<p, file[p].ino, k>>
  BY DEF Lines
<1>3. \A k \in numbers : <<p, file[p].ino, k>> \in Lines(p, numbers)
  BY DEF Lines
<1>4. \A k \in numbers : <<p, file[p].ino, k>> \in Place
  BY <1>1 DEF Place
<1>5. \A i, k : <<p, i, k>> \in Lines(p, numbers) => i = file[p].ino /\ k \in numbers
  BY <1>2
<1> QED
  BY <1>2, <1>3, <1>4, <1>5

LEMMA FedType ==
  ASSUME NEW fold \in Fold, NEW whole \in SUBSET Place, NEW torn \in SUBSET Place
  PROVE  Fed(fold, whole, torn) \in Fold
  BY DEF Fed, Fold

LEMMA AgentsType == TypeInv /\ Agents => TypeInv'
<1> SUFFICES ASSUME TypeInv, NEW p \in Paths,
                    (\E n \in Writes : Append(p, n)) \/ Replace(p) \/ Remove(p)
             PROVE  TypeInv'
  BY DEF Agents
<1>1. UNCHANGED <<db, command, observer, touched>>
  BY DEF Append, Replace, Remove
<1>2. file[p] \in File
  BY DEF TypeInv
<1>3. file' \in [Paths -> File]
  <2>1. ASSUME NEW n \in Writes, Append(p, n) PROVE file' \in [Paths -> File]
    BY <1>2, <2>1, WritesAssumption DEF Append, TypeInv, File
  <2>2. CASE Replace(p)
    BY <1>2, <2>2 DEF Replace, TypeInv, File
  <2>3. CASE Remove(p)
    BY <1>2, <2>3 DEF Remove, TypeInv, File
  <2> QED
    BY <2>1, <2>2, <2>3
<1> QED
  BY <1>1, <1>3 DEF TypeInv, command, observer

LEMMA JobOf ==
  ASSUME TypeInv, job # None
  PROVE  /\ job \in Job /\ job.todo \subseteq Paths /\ job.done \in SUBSET Place
         /\ job.at # None => job.at \in Paths
         /\ job.stat # None => job.stat \in File
         /\ job.fold # None => job.fold \in Fold
  BY DEF TypeInv, Job

LEMMA NewJobType ==
  ASSUME TypeInv, NEW by \in {"command", "watch"}, NEW force \in BOOLEAN
  PROVE  NewJob(by, force) \in Job
  BY DEF NewJob, Job

\* What a split of a file makes.
LEMMA SplitType ==
  ASSUME TypeInv, NEW p \in Paths
  PROVE  /\ Split(p)[1] \in SUBSET Place /\ Split(p)[2] \in SUBSET Place
         /\ \A line \in Split(p)[1] \cup Split(p)[2] : line[1] = p /\ line[2] = file[p].ino
<1> DEFINE begun == {k \in LinesOf(p) : 3 * k - 2 <= file[p].size}
           whole == {k \in begun : 3 * k - 1 <= file[p].size /\ <<p, k>> \notin Separated}
<1>1. Split(p) = <<Lines(p, whole), Lines(p, begun \ whole)>>
  BY DEF Split
<1>2. whole \in SUBSET LinesOf(p) /\ begun \ whole \in SUBSET LinesOf(p)
  OBVIOUS
<1> HIDE DEF whole, begun
<1> QED
  BY <1>1, <1>2, LinesType

LEMMA IngestType ==
  TypeInv /\ JobInv /\ Ingesting => TypeInv'
<1> SUFFICES ASSUME TypeInv, JobInv, Ingesting PROVE TypeInv'
  OBVIOUS
<1>1. CASE \E force \in BOOLEAN : StartIngest(force)
  <2>1. PICK force \in BOOLEAN : StartIngest(force)
    BY <1>1
  <2>2. db' \in Db /\ job' \in Job \cup {None}
    BY <2>1, OpenedType, NewJobType DEF StartIngest, TypeInv
  <2> QED
    BY <2>1, <2>2 DEF StartIngest, TypeInv, observer
<1>2. CASE IngestStat
  <2> DEFINE p == NextPath(job.todo)
  <2>1. p \in Paths /\ job \in Job /\ job.done \in SUBSET Place
    BY <1>2, JobOf, NextLeft DEF IngestStat
  <2>2. file[p] \in File /\ <<p, file[p].ino, file[p].size>> \in Place
    BY <2>1 DEF TypeInv, File, Place
  <2> HIDE DEF p
  <2>3. job' \in Job
    <3>1. \/ job' = [job EXCEPT !.todo = @ \ {p}]
          \/ job' = [job EXCEPT !.todo = @ \ {p},
                                !.done = @ \cup {<<p, file[p].ino, file[p].size>>}]
          \/ job' = [job EXCEPT !.todo = @ \ {p}, !.at = p, !.stat = file[p]]
      BY <1>2 DEF IngestStat, p
    <3>2. CASE job' = [job EXCEPT !.todo = @ \ {p}]
      BY <2>1, <3>2 DEF Job
    <3>3. CASE job' = [job EXCEPT !.todo = @ \ {p},
                                  !.done = @ \cup {<<p, file[p].ino, file[p].size>>}]
      BY <2>1, <2>2, <3>3 DEF Job
    <3>4. CASE job' = [job EXCEPT !.todo = @ \ {p}, !.at = p, !.stat = file[p]]
      BY <2>1, <2>2, <3>4 DEF Job
    <3> QED
      BY <3>1, <3>2, <3>3, <3>4
  <2> QED
    BY <1>2, <2>3 DEF IngestStat, TypeInv, observer
<1>3. CASE IngestFeed
  <2> DEFINE whole == IF file[job.at].there THEN Split(job.at)[1] ELSE {}
             torn == IF file[job.at].there THEN Split(job.at)[2] ELSE {}
             fold == Fed(Nothing, whole, torn)
             why == (IF file[job.at] # job.stat THEN {"raced"} ELSE {})
                    \cup (IF torn # {} THEN {"torn"} ELSE {})
  <2>1. job.at \in Paths /\ job \in Job
    BY <1>3, JobOf DEF IngestFeed
  <2>2. whole \in SUBSET Place /\ torn \in SUBSET Place
    BY <2>1, SplitType
  <2>3. Nothing \in Fold
    BY DEF Nothing, Fold
  <2>4. fold \in Fold /\ why \in SUBSET {"raced", "torn"}
    BY <2>2, <2>3, FedType
  <2>5. job' = [job EXCEPT !.fold = fold, !.flaws = why]
    BY <1>3 DEF IngestFeed
  <2> HIDE DEF whole, torn, fold, why
  <2>6. job' \in Job
    BY <2>1, <2>4, <2>5 DEF Job
  <2> QED
    BY <1>3, <2>6 DEF IngestFeed, TypeInv, observer
<1>4. CASE IngestUpsert
  <2> DEFINE p == job.at
             place == <<p, job.stat.ino, job.stat.size>>
  <2>1. p \in Paths /\ job \in Job /\ job.stat \in File /\ job.fold \in Fold
    BY <1>4, JobOf DEF IngestUpsert, JobInv
  <2>2. Record(p) \in Row /\ place \in Place
    BY <2>1 DEF Record, Row, File, Place, Job
  <2>3. db' \in Db
    BY <1>4, <2>1, <2>2, KeysDiffer DEF IngestUpsert, Upserted, TypeInv, Db
  <2>4. job' = [job EXCEPT !.at = None, !.stat = None, !.fold = None, !.flaws = {},
                           !.done = @ \cup {place}]
    BY <1>4 DEF IngestUpsert
  <2> HIDE DEF p, place
  <2>5. job' \in Job
    BY <2>1, <2>2, <2>4 DEF Job
  <2>6. touched' \subseteq Paths
    BY <1>4, <2>1 DEF IngestUpsert, TypeInv, p
  <2> QED
    BY <1>4, <2>3, <2>5, <2>6 DEF IngestUpsert, TypeInv, observer
<1>5. CASE IngestEnd
  BY <1>5 DEF IngestEnd, TypeInv, observer
<1>6. CASE IngestCrash
  BY <1>6 DEF IngestCrash, TypeInv
<1> QED
  BY <1>1, <1>2, <1>3, <1>4, <1>5, <1>6 DEF Ingesting, IngestStep

LEMMA WatchingType == TypeInv /\ Watching => TypeInv'
<1> SUFFICES ASSUME TypeInv, Watching PROVE TypeInv'
  OBVIOUS
<1>1. CASE StartWatch
  <2>1. db' \in Db /\ job' \in Job \cup {None}
    BY <1>1, OpenedType, NewJobType DEF StartWatch, TypeInv, command
  <2> QED
    BY <1>1, <2>1 DEF StartWatch, TypeInv
<1>2. CASE LoadSeeds
  <2>1. Opened(db) \in Db
    BY OpenedType DEF TypeInv
  <2>2. \A p \in Paths : GetByPath(Opened(db), p) \in Row \cup {None}
    BY <2>1, FoundByPath DEF Db
  <2> QED
    BY <1>2, <2>1, <2>2 DEF LoadSeeds, NoMemory, TypeInv, command
<1>3. CASE StopWatch
  BY <1>3 DEF StopWatch, NoMemory, TypeInv, command
<1>4. CASE \E k \in SessionKeys : Evict(k)
  BY <1>4 DEF Evict, TypeInv, command
<1> QED
  BY <1>1, <1>2, <1>3, <1>4 DEF Watching

\* The last line boundary of a file.
LEMMA LastBoundary ==
  ASSUME NEW n \in Nat
  PROVE  \E q \in Nat : n \div 3 = q /\ 3 * q <= n /\ n < 3 * q + 3
  OBVIOUS

LEMMA ResumedType ==
  ASSUME TypeInv, NEW p \in Paths
  PROVE  Resumed(p) \in Cursor /\ Read(p, Resumed(p)) \in Cursor
<1>1. file[p].ino \in Nat /\ file[p].size \in Nat
  BY DEF TypeInv, File
<1>2. Resumed(p) \in Cursor
  <2>1. seeds[p] # None => seeds[p].offset \in Nat
    BY DEF TypeInv, Row
  <2>2. cursors[p] # None => cursors[p] \in Cursor
    BY DEF TypeInv
  <2> QED
    BY <1>1, <2>1, <2>2 DEF Resumed, SeedMatches, Cursor
<1>3. PICK q \in Nat : file[p].size \div 3 = q
  BY <1>1, LastBoundary
<1> DEFINE c == Resumed(p)
           from == IF 3 * q > c.at THEN 3 * q ELSE c.from
<1>4. Read(p, c) = [c EXCEPT !.at = file[p].size, !.from = from]
  BY <1>3 DEF Read
<1>5. from \in Nat
  BY <1>2 DEF Cursor
<1> HIDE DEF c, from
<1>6. Read(p, c) \in Cursor
  BY <1>1, <1>2, <1>4, <1>5 DEF Cursor, c
<1> QED
  BY <1>2, <1>6 DEF c

\* What the collectors are restored from.
LEMMA RestoredType == ASSUME TypeInv, NEW p \in Paths PROVE Restored(p) \in Fold
<1>1. Opened(db) \in Db /\ SessionKey(p) \in Keys
  BY OpenedType, KeysDiffer DEF TypeInv
<1>2. GetSession(Opened(db), p) \in Row \cup {None}
  BY <1>1 DEF GetSession, Db
<1> QED
  BY <1>2 DEF Restored, Nothing, Fold, Row

LEMMA PollingType == TypeInv /\ Polling => TypeInv'
<1> SUFFICES ASSUME TypeInv, NEW p \in Paths, PollFile(p) \/ PollGone(p) PROVE TypeInv'
  BY DEF Polling
<1>1. CASE PollFile(p)
  <2> DEFINE c == Resumed(p)
             k == SessionKey(p)
             fold == IF contexts[k] = None THEN Restored(p) ELSE contexts[k]
             whole == Lines(p, Whole(p, c))
             torn == Lines(p, Ended(p, c) \ Whole(p, c))
  <2>1. k \in SessionKeys /\ Read(p, c) \in Cursor /\ fold \in Fold
    BY KeysDiffer, ResumedType, RestoredType DEF TypeInv
  <2>2. whole \in SUBSET Place /\ torn \in SUBSET Place
    <3>1. Whole(p, c) \in SUBSET LinesOf(p) /\ Ended(p, c) \ Whole(p, c) \in SUBSET LinesOf(p)
      BY DEF Whole, Ended
    <3> QED
      BY <3>1, LinesType
  <2>3. Fed(fold, whole, torn) \in Fold
    BY <2>1, <2>2, FedType
  <2>4. StartFlaws(p, c) \in SUBSET Reasons
    <3>1. Opened(db) \in Db /\ SessionKey(p) \in Keys
      BY OpenedType, KeysDiffer DEF TypeInv
    <3>2. GetSession(Opened(db), p) \in Row \cup {None}
      BY <3>1 DEF GetSession, Db
    <3> QED
      BY <3>2 DEF StartFlaws, Reasons, Row
  <2>5. /\ cursors' = [cursors EXCEPT ![p] = Read(p, c)]
        /\ seeds' = [seeds EXCEPT ![p] = IF cursors[p] = None THEN None ELSE @]
        /\ contexts' \in {contexts, [contexts EXCEPT ![k] = Fed(fold, whole, torn)]}
        /\ flaws' \in {flaws, [flaws EXCEPT ![k] = StartFlaws(p, c)],
                       [flaws EXCEPT ![k] = flaws[k]]}
        /\ db' \in {db, Opened(db)}
        /\ UNCHANGED <<file, job, watch, touched>>
    BY <1>1 DEF PollFile, command
  <2> HIDE DEF c, k, fold, whole, torn
  <2>6. contexts' \in [SessionKeys -> Fold \cup {None}]
    BY <2>1, <2>3, <2>5 DEF TypeInv
  <2>7. flaws' \in [SessionKeys -> SUBSET Reasons]
    BY <2>1, <2>4, <2>5 DEF TypeInv
  <2>8. cursors' \in [Paths -> Cursor \cup {None}] /\ seeds' \in [Paths -> Row \cup {None}]
    BY <2>1, <2>5 DEF TypeInv
  <2>9. db' \in Db
    BY <2>5, OpenedType DEF TypeInv
  <2> QED
    BY <2>5, <2>6, <2>7, <2>8, <2>9 DEF TypeInv
<1>2. CASE PollGone(p)
  BY <1>2, KeysDiffer DEF PollGone, TypeInv, command
<1> QED
  BY <1>1, <1>2

---------------------------------------------------------------------------
(* The invariant holds at first, and whatever the agents do.               *)

PathInv(p) == FileInv(p) /\ SeedInv(p) /\ ContextInv(p)

IInv == TypeInv /\ RowInv /\ JobInv /\ \A p \in Paths : PathInv(p)

LEMMA IInit == Init => IInv
<1> SUFFICES ASSUME Init PROVE IInv
  OBVIOUS
<1>1. TypeInv
  BY TypeInit
<1>2. RowInv
  <2>1. db \in Stores /\ watch = "down" /\ \A p \in Paths : file[p] = FirstFile
    BY DEF Init
  <2>2. \A p \in Paths : SessionKey(p) = <<Root[p], Stem[p]>> /\ SessionKey(p) \in Keys
    BY KeysDiffer DEF SessionKey
  <2> QED
    BY <2>1, <2>2, StoresAssumption DEF RowInv
<1>3. ASSUME NEW p \in Paths PROVE PathInv(p)
  <2>1. /\ file[p] = FirstFile /\ cursors[p] = None /\ contexts[SessionKey(p)] = None
        /\ seeds[p] = None /\ watch = "down"
    BY KeysDiffer DEF Init
  <2>2. MaxLines[p] \in Nat \ {0}
    BY BoundsAssumption
  <2> QED
    BY <2>1, <2>2 DEF PathInv, FileInv, SeedInv, ContextInv, FirstFile
<1> QED
  BY <1>1, <1>2, <1>3 DEF Init, IInv, JobInv

\* What a file may be after another.
Later(f, g) ==
  /\ f.ino <= g.ino
  /\ f.ino = g.ino => f.size <= g.size /\ (g.there => f.there)

LEMMA LeftLater ==
  ASSUME NEW p \in Paths, NEW row \in Row, NEW f \in File, NEW g \in File,
         LeftBehind(row, p, f), Later(f, g)
  PROVE  LeftBehind(row, p, g)
  BY DEF LeftBehind, Later, Row, File

LEMMA AgentsLater ==
  ASSUME IInv, Agents, NEW q \in Paths
  PROVE  /\ Later(file[q], file'[q]) /\ file'[q].size <= 3 * MaxLines[q]
         /\ UNCHANGED <<db, job, watch, cursors, seeds, contexts, flaws, touched>>
<1>1. PICK p \in Paths : (\E n \in Writes : Append(p, n)) \/ Replace(p) \/ Remove(p)
  BY DEF Agents
<1>2. UNCHANGED <<db, job, watch, cursors, seeds, contexts, flaws, touched>>
  BY <1>1 DEF Append, Replace, Remove, command, observer
<1>3. /\ file[p] \in File /\ file[q] \in File /\ file[q].size <= 3 * MaxLines[q]
      /\ MaxLines[p] \in Nat \ {0} /\ MaxLines[q] \in Nat \ {0}
  BY BoundsAssumption DEF IInv, TypeInv, PathInv, FileInv
<1>4. Later(file[q], file[q])
  BY <1>3 DEF Later, File
<1>5. ASSUME NEW n \in Writes, Append(p, n)
      PROVE  Later(file[q], file'[q]) /\ file'[q].size <= 3 * MaxLines[q]
  <2>1. file'[q] = IF q = p THEN [file[p] EXCEPT !.size = file[p].size + n] ELSE file[q]
    BY <1>5 DEF Append, IInv, TypeInv
  <2> QED
    BY <1>3, <1>4, <1>5, <2>1, WritesAssumption DEF Append, Later, File
<1>6. ASSUME Replace(p)
      PROVE  Later(file[q], file'[q]) /\ file'[q].size <= 3 * MaxLines[q]
  <2>1. file'[q] = IF q = p THEN [ino |-> file[p].ino + 1, size |-> 0, there |-> TRUE]
                            ELSE file[q]
    BY <1>6 DEF Replace, IInv, TypeInv
  <2> QED
    BY <1>3, <1>4, <2>1 DEF Later, File
<1>7. ASSUME Remove(p)
      PROVE  Later(file[q], file'[q]) /\ file'[q].size <= 3 * MaxLines[q]
  <2>1. file'[q] = IF q = p THEN [file[p] EXCEPT !.there = FALSE] ELSE file[q]
    BY <1>7 DEF Remove, IInv, TypeInv
  <2> QED
    BY <1>3, <1>4, <2>1 DEF Later, File
<1> QED
  BY <1>1, <1>2, <1>5, <1>6, <1>7

LEMMA AgentsKeep == IInv /\ Agents => IInv'
<1> SUFFICES ASSUME IInv, Agents PROVE IInv'
  OBVIOUS
<1>0. \A q \in Paths :
        /\ Later(file[q], file'[q]) /\ file'[q].size <= 3 * MaxLines[q]
        /\ UNCHANGED <<db, job, watch, cursors, seeds, contexts, flaws, touched>>
  BY AgentsLater
<1>1. UNCHANGED <<db, job, watch, cursors, seeds, contexts, flaws, touched>>
  BY DEF Agents, Append, Replace, Remove, command, observer
<1>2. TypeInv' /\ \A q \in Paths : file[q] \in File /\ file'[q] \in File
  BY AgentsType DEF IInv, TypeInv
<1>3. RowInv'
  <2>1. ASSUME NEW p \in Paths, db.rows[SessionKey(p)] # None
        PROVE  LeftBehind(db.rows[SessionKey(p)], p, file'[p])
    <3>1. db.rows[SessionKey(p)] \in Row /\ LeftBehind(db.rows[SessionKey(p)], p, file[p])
      BY <2>1, KeysDiffer DEF IInv, RowInv, TypeInv, Db
    <3> QED
      BY <1>0, <1>2, <3>1, LeftLater
  <2> QED
    BY <1>1, <2>1 DEF IInv, RowInv
<1>4. JobInv'
  <2>1. job # None /\ job.at # None => job.at \in Paths /\ job.stat \in File
    BY JobOf DEF IInv, JobInv
  <2>2. ASSUME job # None, job.at # None
        PROVE  /\ job.stat.ino <= file'[job.at].ino
               /\ job.stat.ino = file'[job.at].ino => job.stat.size <= file'[job.at].size
    <3>1. /\ Later(file[job.at], file'[job.at])
          /\ job.stat.ino <= file[job.at].ino
          /\ job.stat.ino = file[job.at].ino => job.stat.size <= file[job.at].size
      BY <1>0, <2>1, <2>2 DEF IInv, JobInv
    <3> QED
      BY <1>2, <2>1, <2>2, <3>1 DEF Later, File
  <2> QED
    BY <1>1, <2>2 DEF IInv, JobInv
<1>5. ASSUME NEW p \in Paths PROVE PathInv(p)'
  <2>1. PathInv(p) /\ Later(file[p], file'[p]) /\ file'[p].size <= 3 * MaxLines[p]
    BY <1>0 DEF IInv
  <2>2. file[p] \in File /\ file'[p] \in File /\ cursors[p] \in Cursor \cup {None}
    BY <1>2 DEF IInv, TypeInv
  <2>3. FileInv(p)'
    BY <1>1, <2>1, <2>2 DEF PathInv, FileInv, Later, File, Cursor
  <2>4. SeedInv(p)'
    <3>1. db.rows[SessionKey(p)] # None =>
            /\ db.rows[SessionKey(p)].ino \in Nat
            /\ db.rows[SessionKey(p)].ino <= file[p].ino
      BY KeysDiffer DEF IInv, RowInv, TypeInv, Db, Row, LeftBehind
    <3> QED
      BY <1>1, <2>1, <2>2, <3>1 DEF PathInv, SeedInv, Later, File
  <2>5. ContextInv(p)'
    BY <1>1, <2>1 DEF PathInv, ContextInv
  <2> QED
    BY <2>3, <2>4, <2>5 DEF PathInv
<1> QED
  BY <1>2, <1>3, <1>4, <1>5 DEF IInv

---------------------------------------------------------------------------
(* Ingest keeps the invariant.                                             *)

\* What opening the database leaves.
LEMMA OpenedRows ==
  ASSUME IInv
  PROVE  /\ Opened(db) \in Db /\ Opened(db).version # None /\ Opened(db).version # 1
         /\ ~ Refused(db) => Opened(db).version = 2
         /\ (Refused(db) \/ job # None) => Opened(db) = db
         /\ \A k \in Keys : Opened(db).rows[k] # None =>
              Opened(db).rows[k] \in Row /\ Opened(db).rows[k].offset = Opened(db).rows[k].size
         /\ \A p \in Paths : LET row == Opened(db).rows[SessionKey(p)]
              IN row # None => row = db.rows[SessionKey(p)] /\ LeftBehind(row, p, file[p])
<1>1. db \in Db /\ (job # None => db.version = 2)
  BY DEF IInv, TypeInv, JobInv
<1>2. \A k \in Keys : db.rows[k] # None => db.rows[k].offset = db.rows[k].size
  BY DEF IInv, RowInv
<1>3. \A k \in Keys : Opened(db).rows[k] # None =>
        Opened(db).rows[k] \in Row /\ Opened(db).rows[k].offset = Opened(db).rows[k].size
  BY <1>1, <1>2, OpenedType DEF Db
<1>4. \A p \in Paths : LET row == Opened(db).rows[SessionKey(p)]
        IN row # None => row = db.rows[SessionKey(p)] /\ LeftBehind(row, p, file[p])
  BY <1>1, OpenedType DEF IInv, RowInv
<1> QED
  BY <1>1, <1>3, <1>4, OpenedType

\* Opening the database keeps what is true of its rows and of what was read of them.
LEMMA OpeningKeeps ==
  ASSUME IInv, db' = Opened(db), UNCHANGED <<file, cursors, seeds, contexts, flaws, touched>>,
         watch' = watch \/ (watch' # "up" /\ watch # "up")
  PROVE  RowInv' /\ \A p \in Paths : PathInv(p)'
<1>1. RowInv'
  BY OpenedRows DEF RowInv
<1>2. ASSUME NEW p \in Paths PROVE PathInv(p)'
  <2>1. PathInv(p)
    BY DEF IInv
  <2>2. FileInv(p)' /\ ContextInv(p)'
    BY <2>1 DEF PathInv, FileInv, ContextInv
  <2>3. SeedInv(p)'
    <3>1. ~ Refused(db') => ~ Refused(db)
      BY OpenedRows
    <3>2. db'.rows[SessionKey(p)] # None => db'.rows[SessionKey(p)] = db.rows[SessionKey(p)]
      BY OpenedRows
    <3> QED
      BY <2>1, <3>1, <3>2 DEF PathInv, SeedInv
  <2> QED
    BY <2>2, <2>3 DEF PathInv
<1> QED
  BY <1>1, <1>2

\* A job that starts has nothing behind it.
LEMMA NewJobInv ==
  ASSUME IInv, NEW by \in {"command", "watch"}, NEW force \in BOOLEAN,
         db'.version = 2, job' = NewJob(by, force), by = "watch" => watch' = "ingesting"
  PROVE  JobInv'
<1>1. /\ job'.todo \subseteq Paths /\ job'.done = {} /\ job'.at = None /\ job'.fold = None
      /\ job'.stat = None /\ job'.by = by
  BY DEF NewJob
<1>2. None \notin Paths
  BY PathsAssumption, NoneAssumption
<1>3. {d[1] : d \in job'.done} = {}
  BY <1>1
<1> QED
  BY <1>1, <1>2, <1>3 DEF JobInv

\* The split of a file in whole lines is exact.
LEMMA SplitExact ==
  ASSUME TypeInv, NEW p \in Paths, Split(p)[2] = {}
  PROVE  Exact(Fed(Nothing, Split(p)[1], Split(p)[2]), p, file[p].ino, file[p].size)
<1> DEFINE begun == {k \in LinesOf(p) : 3 * k - 2 <= file[p].size}
           whole == {k \in begun : 3 * k - 1 <= file[p].size /\ <<p, k>> \notin Separated}
<1>1. Split(p) = <<Lines(p, whole), Lines(p, begun \ whole)>>
  BY DEF Split
<1>2. whole \in SUBSET LinesOf(p) /\ begun \ whole \in SUBSET LinesOf(p)
  OBVIOUS
<1>3. file[p].ino \in Nat /\ file[p].size \in Nat /\ LinesOf(p) \subseteq Nat
  BY BoundsAssumption DEF TypeInv, File, LinesOf
<1>4. \A k \in LinesOf(p) : k \in begun <=> 3 * k - 2 <= file[p].size
  OBVIOUS
<1>5. \A k \in whole : 3 * k - 1 <= file[p].size
  OBVIOUS
<1> HIDE DEF whole, begun
<1>6. begun = whole
  <2>1. \A k \in begun \ whole : <<p, file[p].ino, k>> \in Lines(p, begun \ whole)
    BY <1>2, LinesType
  <2>2. Lines(p, begun \ whole) = {}
    BY <1>1
  <2>3. begun \ whole = {} /\ whole \subseteq begun
    BY <2>1, <2>2 DEF begun, whole
  <2> QED
    BY <2>3
<1>7. Fed(Nothing, Split(p)[1], Split(p)[2]) =
        [once |-> Lines(p, whole), again |-> {}, torn |-> {}]
  BY <1>1 DEF Fed, Nothing
<1>8. \A k \in LinesOf(p) : k \in whole <=> 3 * k - 1 <= file[p].size
  BY <1>3, <1>4, <1>5, <1>6
<1>9. \A k \in LinesOf(p) : file[p].size # 3 * k - 2
  BY <1>3, <1>4, <1>5, <1>6
<1>10. \A k : <<p, file[p].ino, k>> \in Lines(p, whole) <=> k \in whole
  BY <1>2, LinesType
<1>11. \A line \in Lines(p, whole) : line[2] <= file[p].ino
  BY <1>2, <1>3, LinesType
<1> QED
  BY <1>7, <1>8, <1>9, <1>10, <1>11 DEF Exact

LEMMA JobSteps ==
  IInv /\ (IngestStat \/ IngestFeed \/ IngestUpsert) => JobInv'
<1> SUFFICES ASSUME IInv, IngestStat \/ IngestFeed \/ IngestUpsert PROVE JobInv'
  OBVIOUS
<1>1. /\ job # None /\ job \in Job /\ JobInv /\ TypeInv /\ UNCHANGED <<file, watch>>
      /\ job.todo \subseteq Paths /\ job.done \in SUBSET Place
  BY JobOf DEF IInv, IngestStat, IngestFeed, IngestUpsert, observer
<1>2. CASE IngestStat
  <2> DEFINE p == NextPath(job.todo)
             place == <<p, file[p].ino, file[p].size>>
  <2>1. p \in job.todo /\ p \in Paths /\ job.at = None /\ job.fold = None /\ job.stat = None
    BY <1>1, <1>2, NextLeft DEF IngestStat, JobInv
  <2>2. file[p] \in File /\ None # p /\ db' = db
    BY <1>1, <1>2, <2>1, PathsAssumption, NoneAssumption DEF TypeInv, IngestStat
  <2>3. CASE job' = [job EXCEPT !.todo = @ \ {p}]
    <3>1. /\ job'.todo = job.todo \ {p} /\ job'.done = job.done /\ job'.at = None
          /\ job'.fold = None /\ job'.stat = None /\ job'.by = job.by
      BY <1>1, <2>1, <2>3 DEF Job
    <3>2. /\ job'.todo \cap {d[1] : d \in job'.done} = {} /\ job'.at \notin job'.todo
          /\ job'.at \notin {d[1] : d \in job'.done}
      BY <1>1, <2>1, <3>1 DEF JobInv
    <3> QED
      BY <1>1, <2>2, <3>1, <3>2 DEF JobInv
  <2>4. CASE /\ ShouldSkip(p)
             /\ job' = [job EXCEPT !.todo = @ \ {p}, !.done = @ \cup {place}]
    <3>1. /\ job'.todo = job.todo \ {p} /\ job'.done = job.done \cup {place}
          /\ job'.at = None /\ job'.fold = None /\ job'.stat = None /\ job'.by = job.by
      BY <1>1, <2>1, <2>4 DEF Job
    <3>2. \E k \in Keys : db.rows[k] # None /\ db.rows[k].path = p
                           /\ db.rows[k].ino = file[p].ino /\ db.rows[k].size = file[p].size
      BY <1>1, <2>1, <2>4, FoundByPath DEF ShouldSkip, TypeInv
    <3>3. \A d \in job'.done : \E k \in Keys :
            db.rows[k] # None /\ db.rows[k].path = d[1]
            /\ db.rows[k].ino = d[2] /\ db.rows[k].size = d[3]
      BY <1>1, <3>1, <3>2 DEF JobInv
    <3>4. {d[1] : d \in job'.done} = {d[1] : d \in job.done} \cup {p}
      <4>1. place[1] = p
        OBVIOUS
      <4> HIDE DEF place
      <4> QED
        BY <3>1, <4>1
    <3>5. /\ job'.todo \cap {d[1] : d \in job'.done} = {} /\ job'.at \notin job'.todo
          /\ job'.at \notin {d[1] : d \in job'.done}
      BY <1>1, <2>1, <2>2, <3>1, <3>4 DEF JobInv
    <3> QED
      BY <1>1, <2>2, <3>1, <3>3, <3>5 DEF JobInv
  <2>5. CASE /\ file[p].there
             /\ job' = [job EXCEPT !.todo = @ \ {p}, !.at = p, !.stat = file[p]]
    <3>1. /\ job'.todo = job.todo \ {p} /\ job'.done = job.done /\ job'.at = p
          /\ job'.fold = None /\ job'.stat = file[p] /\ job'.by = job.by
      BY <1>1, <2>1, <2>5 DEF Job
    <3>2. file[p].ino <= file[p].ino /\ file[p].size <= file[p].size /\ file[p] # None
      BY <2>2, NoneAssumption DEF File
    <3>3. p \notin {d[1] : d \in job.done}
      BY <1>1, <2>1 DEF JobInv
    <3> QED
      BY <1>1, <2>2, <2>5, <3>1, <3>2, <3>3 DEF JobInv
  <2> QED
    BY <1>2, <2>3, <2>4, <2>5 DEF IngestStat
<1>3. CASE IngestFeed
  <2> DEFINE p == job.at
             whole == IF file[p].there THEN Split(p)[1] ELSE {}
             torn == IF file[p].there THEN Split(p)[2] ELSE {}
             fold == Fed(Nothing, whole, torn)
             why == (IF file[p] # job.stat THEN {"raced"} ELSE {})
                    \cup (IF torn # {} THEN {"torn"} ELSE {})
  <2>1. p \in Paths /\ p # None /\ db' = db /\ job' = [job EXCEPT !.fold = fold, !.flaws = why]
    BY <1>1, <1>3, JobOf DEF IngestFeed
  <2>2. OwnLines(fold, p)
    <3>1. \A line \in whole \cup torn : line[1] = p
      BY <1>1, <2>1, SplitType
    <3> HIDE DEF whole, torn, p
    <3> QED
      BY <3>1 DEF OwnLines, Fed, Nothing
  <2>3. ASSUME why = {} PROVE Exact(fold, p, job.stat.ino, job.stat.size)
    <3>1. file[p] = job.stat /\ torn = {}
      BY <2>3
    <3>2. job.stat.there
      BY <1>1, <2>1 DEF JobInv
    <3>3. whole = Split(p)[1] /\ torn = Split(p)[2]
      BY <3>1, <3>2
    <3> HIDE DEF whole, torn, p
    <3> QED
      BY <1>1, <2>1, <3>1, <3>3, SplitExact
  <2> HIDE DEF p, whole, torn, fold, why
  <2>4. /\ job'.todo = job.todo /\ job'.done = job.done /\ job'.at = job.at
        /\ job'.stat = job.stat /\ job'.fold = fold /\ job'.flaws = why /\ job'.by = job.by
    BY <1>1, <2>1 DEF Job
  <2> QED
    BY <1>1, <2>1, <2>2, <2>3, <2>4 DEF JobInv, p
<1>4. CASE IngestUpsert
  <2> DEFINE p == job.at
             place == <<p, job.stat.ino, job.stat.size>>
             key == SessionKey(p)
  <2>1. /\ p \in Paths /\ key \in Keys /\ Record(p).path = p
        /\ Record(p).ino = job.stat.ino /\ Record(p).size = job.stat.size
        /\ Record(p) # None
    <3>1. p \in Paths /\ job.stat \in File /\ job.fold \in Fold
      BY <1>1, <1>4, JobOf DEF IngestUpsert, JobInv
    <3>2. Record(p) \in Row
      BY <1>1, <3>1 DEF Record, Row, File, Job
    <3> QED
      BY <3>1, <3>2, KeysDiffer, NoneAssumption DEF Record
  <2>2. /\ db'.version = 2
        /\ \A k \in Keys : db'.rows[k] = IF k = key THEN Record(p) ELSE db.rows[k]
    BY <1>1, <1>4, <2>1 DEF IngestUpsert, Upserted, TypeInv, Db, JobInv
  <2>3. job' = [job EXCEPT !.at = None, !.stat = None, !.fold = None, !.flaws = {},
                           !.done = @ \cup {place}]
    BY <1>4 DEF IngestUpsert
  <2>4. p \notin {d[1] : d \in job.done} /\ p \notin job.todo
    BY <1>1 DEF JobInv
  <2>5. db.rows[key] # None => db.rows[key].path = p
    BY <2>1 DEF IInv, RowInv, LeftBehind
  <2> HIDE DEF place
  <2>6. /\ job'.todo = job.todo /\ job'.done = job.done \cup {place} /\ job'.at = None
        /\ job'.stat = None /\ job'.fold = None /\ job'.by = job.by
    BY <1>1, <2>3 DEF Job
  <2> HIDE DEF p, key
  <2>7. \A d \in job.done : \E k \in Keys : db'.rows[k] # None /\ db'.rows[k].path = d[1]
                           /\ db'.rows[k].ino = d[2] /\ db'.rows[k].size = d[3]
    <3> SUFFICES ASSUME NEW d \in job.done
                 PROVE  \E k \in Keys : db'.rows[k] # None /\ db'.rows[k].path = d[1]
                           /\ db'.rows[k].ino = d[2] /\ db'.rows[k].size = d[3]
      OBVIOUS
    <3>1. PICK k \in Keys : db.rows[k] # None /\ db.rows[k].path = d[1]
                             /\ db.rows[k].ino = d[2] /\ db.rows[k].size = d[3]
      BY <1>1 DEF JobInv
    <3>2. k # key
      BY <2>4, <2>5, <3>1
    <3> QED
      BY <2>2, <3>1, <3>2
  <2>8. db'.rows[key] # None /\ db'.rows[key].path = place[1]
        /\ db'.rows[key].ino = place[2] /\ db'.rows[key].size = place[3]
    BY <2>1, <2>2 DEF place
  <2>9. \A d \in job'.done : \E k \in Keys : db'.rows[k] # None /\ db'.rows[k].path = d[1]
                           /\ db'.rows[k].ino = d[2] /\ db'.rows[k].size = d[3]
    BY <2>1, <2>6, <2>7, <2>8
  <2>10. {d[1] : d \in job'.done} = {d[1] : d \in job.done} \cup {p}
    <3>1. place[1] = p
      BY DEF place
    <3> QED
      BY <2>6, <3>1
  <2>11. None \notin Paths
    BY PathsAssumption, NoneAssumption
  <2>12. /\ job'.todo \cap {d[1] : d \in job'.done} = {} /\ job'.at \notin job'.todo
         /\ job'.at \notin {d[1] : d \in job'.done}
    <3>1. \A d \in job.done : d[1] \in Paths
      BY <1>1 DEF Place
    <3> QED
      BY <1>1, <2>1, <2>4, <2>6, <2>10, <2>11, <3>1 DEF JobInv
  <2> QED
    BY <1>1, <2>2, <2>6, <2>9, <2>12 DEF JobInv
<1> QED
  BY <1>2, <1>3, <1>4

\* What stays of a path when neither the database nor the watch changes.
LEMMA PathKept ==
  ASSUME IInv, NEW p \in Paths,
         UNCHANGED <<file, db, watch, cursors, seeds, contexts, flaws, touched>>
  PROVE  PathInv(p)'
<1>1. PathInv(p)
  BY DEF IInv
<1>2. FileInv(p)' /\ ContextInv(p)'
  BY <1>1 DEF PathInv, FileInv, ContextInv
<1>3. SeedInv(p)'
  BY <1>1 DEF PathInv, SeedInv, Refused
<1> QED
  BY <1>2, <1>3 DEF PathInv

\* An upsert: the row of the path is the one just made, of the file it was.
LEMMA UpsertKeeps ==
  IInv /\ IngestUpsert => RowInv' /\ \A p \in Paths : PathInv(p)'
<1> SUFFICES ASSUME IInv, IngestUpsert PROVE RowInv' /\ \A p \in Paths : PathInv(p)'
  OBVIOUS
<1> DEFINE a == job.at
<1>1. /\ job # None /\ job.fold # None /\ a \in Paths /\ job \in Job
      /\ job.stat \in File /\ job.fold \in Fold /\ db.version = 2
      /\ UNCHANGED <<file, watch, cursors, seeds, contexts, flaws>>
  BY JobOf DEF IInv, JobInv, IngestUpsert, observer
<1>2. Record(a) \in Row
  BY <1>1 DEF Record, Row, File, Job
<1>3. LeftBehind(Record(a), a, file[a]) /\ Record(a).offset = Record(a).size
  <2>1. /\ Record(a).path = a /\ Record(a).ino = job.stat.ino /\ Record(a).size = job.stat.size
        /\ Record(a).offset = job.stat.size
        /\ Record(a).fold = job.fold /\ Record(a).flaws = job.flaws
    BY DEF Record
  <2>2. /\ job.stat.ino <= file[a].ino
        /\ job.stat.ino = file[a].ino => job.stat.size <= file[a].size
        /\ OwnLines(job.fold, a)
        /\ job.flaws = {} => Exact(job.fold, a, job.stat.ino, job.stat.size)
    BY <1>1, NoneAssumption, PathsAssumption DEF IInv, JobInv
  <2> HIDE DEF a
  <2> QED
    BY <2>1, <2>2 DEF LeftBehind
<1> HIDE DEF a
<1>4. \A k \in Keys : db'.rows[k] = IF k = SessionKey(a) THEN Record(a) ELSE db.rows[k]
  BY <1>1, KeysDiffer DEF IngestUpsert, Upserted, IInv, TypeInv, Db, a
<1>5. db'.version = 2
  BY <1>1 DEF IngestUpsert, Upserted, IInv, TypeInv, Db
<1>6. \A p \in Paths : db'.rows[SessionKey(p)] =
                         IF p = a THEN Record(a) ELSE db.rows[SessionKey(p)]
  BY <1>1, <1>4, KeysDiffer
<1>7. RowInv'
  <2>1. \A k \in Keys : db'.rows[k] # None => db'.rows[k].offset = db'.rows[k].size
    BY <1>3, <1>4 DEF IInv, RowInv
  <2>2. \A p \in Paths : db'.rows[SessionKey(p)] # None
          => LeftBehind(db'.rows[SessionKey(p)], p, file[p])
    BY <1>3, <1>6 DEF IInv, RowInv
  <2> QED
    BY <1>1, <1>5, <2>1, <2>2, NoneAssumption DEF RowInv
<1>8. ASSUME NEW p \in Paths PROVE PathInv(p)'
  <2>1. PathInv(p)
    BY DEF IInv
  <2>2. FileInv(p)' /\ ContextInv(p)'
    BY <1>1, <2>1 DEF PathInv, FileInv, ContextInv
  <2>3. SeedInv(p)'
    <3>1. watch = "up" => touched' = touched \cup {a}
      BY DEF IngestUpsert, a
    <3>2. ~ Refused(db)
      BY <1>1 DEF Refused
    <3> QED
      BY <1>1, <1>6, <2>1, <3>1, <3>2 DEF PathInv, SeedInv
  <2> QED
    BY <2>2, <2>3 DEF PathInv
<1> QED
  BY <1>7, <1>8

LEMMA IngestKeeps == IInv /\ Ingesting => IInv'
<1> SUFFICES ASSUME IInv, Ingesting PROVE IInv'
  OBVIOUS
<1>1. TypeInv'
  BY IngestType DEF IInv
<1>2. CASE \E force \in BOOLEAN : StartIngest(force)
  <2>1. PICK force \in BOOLEAN : StartIngest(force)
    BY <1>2
  <2>2. RowInv' /\ \A p \in Paths : PathInv(p)'
    BY <2>1, OpeningKeeps DEF StartIngest, observer
  <2>3. JobInv'
    <3>1. CASE Refused(db)
      BY <2>1, <3>1 DEF StartIngest, JobInv
    <3>2. CASE ~ Refused(db)
      BY <2>1, <3>2, OpenedRows, NewJobInv DEF StartIngest
    <3> QED
      BY <3>1, <3>2
  <2> QED
    BY <1>1, <2>2, <2>3 DEF IInv
<1>3. CASE IngestStat \/ IngestFeed
  <2>1. UNCHANGED <<file, db, watch, cursors, seeds, contexts, flaws, touched>>
    BY <1>3 DEF IngestStat, IngestFeed, observer
  <2>2. RowInv'
    BY <2>1 DEF IInv, RowInv
  <2> QED
    BY <1>1, <1>3, <2>1, <2>2, JobSteps, PathKept DEF IInv
<1>4. CASE IngestUpsert
  BY <1>1, <1>4, JobSteps, UpsertKeeps DEF IInv
<1>5. CASE IngestEnd
  <2>1. UNCHANGED <<file, db, watch, cursors, seeds, contexts, flaws, touched>> /\ job' = None
    BY <1>5 DEF IngestEnd, observer
  <2>2. RowInv' /\ JobInv'
    BY <2>1 DEF IInv, RowInv, JobInv
  <2> QED
    BY <1>1, <2>1, <2>2, PathKept DEF IInv
<1>6. CASE IngestCrash
  <2>1. /\ UNCHANGED <<file, db, cursors, seeds, contexts, flaws, touched>> /\ job' = None
        /\ watch' = watch \/ (watch # "up" /\ watch' # "up")
    BY <1>6 DEF IngestCrash, IInv, JobInv
  <2>2. RowInv' /\ JobInv'
    BY <2>1 DEF IInv, RowInv, JobInv
  <2>3. ASSUME NEW p \in Paths PROVE PathInv(p)'
    <3>1. PathInv(p)
      BY DEF IInv
    <3>2. FileInv(p)' /\ SeedInv(p)' /\ ContextInv(p)'
      BY <2>1, <3>1 DEF PathInv, FileInv, SeedInv, ContextInv, Refused
    <3> QED
      BY <3>2 DEF PathInv
  <2> QED
    BY <1>1, <2>2, <2>3 DEF IInv
<1> QED
  BY <1>2, <1>3, <1>4, <1>5, <1>6 DEF Ingesting, IngestStep

---------------------------------------------------------------------------
(* The watch keeps the invariant.                                          *)

\* A watch that has read nothing yet, or no longer runs.
LEMMA NoMemoryKeeps ==
  ASSUME IInv, NEW p \in Paths, NoMemory, UNCHANGED file,
         seeds'[p] # None => watch' = "up" /\ seeds'[p].offset = seeds'[p].size
  PROVE  FileInv(p)' /\ ContextInv(p)' /\ cursors'[p] = None
<1>1. cursors'[p] = None /\ contexts'[SessionKey(p)] = None
  BY KeysDiffer DEF NoMemory
<1>2. file'[p].size <= 3 * MaxLines[p]
  BY DEF IInv, PathInv, FileInv
<1> QED
  BY <1>1, <1>2 DEF FileInv, ContextInv

LEMMA LoadKeeps == IInv /\ LoadSeeds => RowInv' /\ JobInv' /\ \A p \in Paths : PathInv(p)'
<1> SUFFICES ASSUME IInv, LoadSeeds PROVE RowInv' /\ JobInv' /\ \A p \in Paths : PathInv(p)'
  OBVIOUS
<1>1. db' = Opened(db) /\ watch' = "up" /\ touched' = {} /\ NoMemory /\ UNCHANGED <<file, job>>
  BY DEF LoadSeeds, command
<1>2. RowInv'
  BY <1>1, OpenedRows DEF RowInv
<1>3. JobInv'
  <2>1. job # None => job.by # "watch" /\ db' = db
    BY <1>1, OpenedRows DEF LoadSeeds
  <2> QED
    BY <1>1, <2>1 DEF IInv, JobInv
<1>4. ASSUME NEW p \in Paths PROVE PathInv(p)'
  <2>1. seeds'[p] = IF Refused(db) THEN None ELSE GetByPath(Opened(db), p)
    BY DEF LoadSeeds
  <2>2. seeds'[p] # None => seeds'[p].offset = seeds'[p].size
    BY <2>1, OpenedRows, FoundByPath
  <2>3. FileInv(p)' /\ ContextInv(p)' /\ cursors'[p] = None
    BY <1>1, <2>2, NoMemoryKeeps
  <2>4. SeedInv(p)'
    <3> SUFFICES ASSUME db'.rows[SessionKey(p)] # None, ~ Refused(db') PROVE seeds'[p] # None
      BY <2>3 DEF SeedInv
    <3>1. ~ Refused(db)
      BY <1>1, OpenedRows
    <3>2. db'.rows[SessionKey(p)].path = p
      BY <1>1, OpenedRows DEF LeftBehind
    <3> QED
      BY <1>1, <2>1, <3>1, <3>2 DEF GetByPath
  <2> QED
    BY <2>3, <2>4 DEF PathInv
<1> QED
  BY <1>2, <1>3, <1>4

LEMMA WatchingKeeps == IInv /\ Watching => IInv'
<1> SUFFICES ASSUME IInv, Watching PROVE IInv'
  OBVIOUS
<1>1. TypeInv'
  BY WatchingType DEF IInv
<1>2. CASE StartWatch
  <2>1. /\ watch # "up" /\ watch' = "ingesting"
        /\ UNCHANGED <<file, cursors, seeds, contexts, flaws, touched>>
    BY <1>2 DEF StartWatch
  <2>2. CASE Exists(db)
    <3>1. UNCHANGED <<db, job>>
      BY <1>2, <2>2 DEF StartWatch, command
    <3>2. RowInv' /\ JobInv'
      BY <1>2, <2>1, <3>1 DEF IInv, RowInv, JobInv
    <3>3. ASSUME NEW p \in Paths PROVE PathInv(p)'
      <4>1. PathInv(p)
        BY DEF IInv
      <4>2. FileInv(p)' /\ SeedInv(p)' /\ ContextInv(p)'
        BY <2>1, <3>1, <4>1 DEF PathInv, FileInv, SeedInv, ContextInv
      <4> QED
        BY <4>2 DEF PathInv
    <3> QED
      BY <1>1, <3>2, <3>3 DEF IInv
  <2>3. CASE ~ Exists(db)
    <3>1. db' = Opened(db) /\ job' = NewJob("watch", FALSE)
      BY <1>2, <2>3 DEF StartWatch
    <3>2. RowInv' /\ \A p \in Paths : PathInv(p)'
      BY <2>1, <3>1, OpeningKeeps
    <3>3. ~ Refused(db)
      BY <2>3 DEF Exists, Refused
    <3>4. JobInv'
      BY <2>1, <3>1, <3>3, OpenedRows, NewJobInv
    <3> QED
      BY <1>1, <3>2, <3>4 DEF IInv
  <2> QED
    BY <2>2, <2>3
<1>3. CASE LoadSeeds
  BY <1>1, <1>3, LoadKeeps DEF IInv
<1>4. CASE StopWatch
  <2>1. /\ watch = "up" /\ watch' = "down" /\ NoMemory /\ UNCHANGED <<file, db, job>>
        /\ \A p \in Paths : seeds'[p] = None
    BY <1>4 DEF StopWatch, command
  <2>2. RowInv' /\ JobInv'
    BY <2>1 DEF IInv, RowInv, JobInv
  <2>3. ASSUME NEW p \in Paths PROVE PathInv(p)'
    BY <2>1, NoMemoryKeeps DEF PathInv, SeedInv
  <2> QED
    BY <1>1, <2>2, <2>3 DEF IInv
<1>5. ASSUME NEW k \in SessionKeys, Evict(k) PROVE IInv'
  <2>1. UNCHANGED <<file, db, job, watch, cursors, seeds, touched>>
    BY <1>5 DEF Evict, command
  <2>2. \A p \in Paths : LET j == SessionKey(p) IN
          contexts'[j] # None => contexts'[j] = contexts[j] /\ flaws'[j] = flaws[j]
    BY <1>5, KeysDiffer DEF Evict, IInv, TypeInv
  <2>3. RowInv' /\ JobInv'
    BY <2>1 DEF IInv, RowInv, JobInv
  <2>4. ASSUME NEW p \in Paths PROVE PathInv(p)'
    <3>1. PathInv(p)
      BY DEF IInv
    <3>2. FileInv(p)' /\ ContextInv(p)'
      BY <2>1, <2>2, <3>1 DEF PathInv, FileInv, ContextInv
    <3>3. SeedInv(p)'
      BY <2>1, <3>1 DEF PathInv, SeedInv, Refused
    <3> QED
      BY <3>2, <3>3 DEF PathInv
  <2> QED
    BY <1>1, <2>3, <2>4 DEF IInv
<1> QED
  BY <1>2, <1>3, <1>4, <1>5 DEF Watching

---------------------------------------------------------------------------
(* A poll keeps the invariant: what the cursor stands for, what the fold    *)
(* has, and why they agree when the session starts from a row.              *)

\* Numbers of lines are positive.
LEMMA LineNumbers == ASSUME NEW p \in Paths PROVE LinesOf(p) \subseteq Nat \ {0}
  BY BoundsAssumption DEF LinesOf

\* A fold that is exact of one file has nothing of a later one.
LEMMA ExactLater ==
  ASSUME NEW p \in Paths, NEW fold \in Fold, NEW i \in Nat, NEW j \in Nat, NEW n \in Nat,
         i < j, Exact(fold, p, i, n)
  PROVE  Exact(fold, p, j, 0)
<1>1. \A line \in fold.once \cup fold.again : line[2] \in Nat /\ line[2] <= i
  BY DEF Exact, Fold, Place
<1>2. \A line \in fold.once \cup fold.again : line[2] <= j /\ line[2] # j
  BY <1>1
<1>3. \A k : <<p, j, k>>[2] = j
  OBVIOUS
<1>4. \A k : <<p, j, k>> \notin fold.once /\ <<p, j, k>> \notin fold.again
  BY <1>2, <1>3
<1>5. \A k \in LinesOf(p) : 0 # 3 * k - 2 /\ ~ (3 * k - 1 <= 0)
  BY LineNumbers
<1> QED
  BY <1>2, <1>4, <1>5 DEF Exact

LEMMA NothingExact ==
  ASSUME NEW p \in Paths, NEW i \in Nat
  PROVE  Exact(Nothing, p, i, 0) /\ OwnLines(Nothing, p)
<1>1. \A k \in LinesOf(p) : 0 # 3 * k - 2 /\ ~ (3 * k - 1 <= 0)
  BY LineNumbers
<1> QED
  BY <1>1 DEF Exact, OwnLines, Nothing

\* The cursor before the read stands within its file, and no whole line of it is
\* pending.
LEMMA ResumedWithin ==
  ASSUME IInv, NEW p \in Paths
  PROVE  /\ Resumed(p).ino = file[p].ino
         /\ Resumed(p).from \in Nat /\ Resumed(p).at \in Nat /\ file[p].size \in Nat
         /\ Resumed(p).from <= Resumed(p).at /\ Resumed(p).at <= file[p].size
         /\ \A k \in LinesOf(p) : 3 * k <= Resumed(p).at => 3 * k <= Resumed(p).from
<1>1. FileInv(p) /\ file[p].size \in Nat /\ file[p].ino \in Nat /\ Resumed(p) \in Cursor
  BY ResumedType DEF IInv, PathInv, TypeInv, File
<1>2. CASE cursors[p] # None /\ cursors[p].ino = file[p].ino
  BY <1>1, <1>2 DEF Resumed, FileInv, Cursor
<1>3. CASE ~ (cursors[p] # None /\ cursors[p].ino = file[p].ino)
  <2> DEFINE start == IF cursors[p] = None /\ SeedMatches(p) THEN seeds[p].offset ELSE 0
  <2>1. Resumed(p) = [ino |-> file[p].ino, at |-> start, from |-> start]
    BY <1>3 DEF Resumed
  <2>2. start \in Nat /\ start <= file[p].size
    <3>1. seeds[p] # None => seeds[p].offset = seeds[p].size /\ seeds[p].size \in Nat
      BY <1>1 DEF FileInv, IInv, TypeInv, Row
    <3> QED
      BY <1>1, <3>1 DEF SeedMatches
  <2> HIDE DEF start
  <2> QED
    BY <1>1, <2>1, <2>2
<1> QED
  BY <1>2, <1>3

\* The cursor after it stands for each line it stood for, and those that ended.
LEMMA ReadWithin ==
  ASSUME IInv, NEW p \in Paths, NEW c \in Cursor,
         c.from <= c.at, c.at <= file[p].size,
         \A k \in LinesOf(p) : 3 * k <= c.at => 3 * k <= c.from
  PROVE  /\ Read(p, c).ino = c.ino /\ Read(p, c).at = file[p].size
         /\ Read(p, c).from \in Nat /\ Read(p, c).from <= file[p].size
         /\ \A k \in LinesOf(p) :
              /\ 3 * k <= file[p].size => 3 * k <= Read(p, c).from
              /\ c.from # 3 * k - 2 => Read(p, c).from # 3 * k - 2
              /\ 3 * k - 1 <= Read(p, c).from <=> 3 * k - 1 <= c.from \/ k \in Ended(p, c)
         /\ (file[p].size \div 3) * 3 <= c.at =>
              Read(p, c).from = c.from /\ Ended(p, c) = {}
<1> DEFINE n == file[p].size
<1>1. n \in Nat /\ c.at \in Nat /\ c.from \in Nat
  BY DEF IInv, TypeInv, File, Cursor
<1>2. PICK q \in Nat : n \div 3 = q /\ 3 * q <= n /\ n < 3 * q + 3
  BY <1>1, LastBoundary
<1> DEFINE from == IF 3 * q > c.at THEN 3 * q ELSE c.from
           r == Read(p, c)
<1>3. r = [c EXCEPT !.at = n, !.from = from]
  BY <1>2 DEF Read
<1>4. \A k \in LinesOf(p) : k \in Ended(p, c) <=> c.at < 3 * k /\ 3 * k <= n /\ c.from < 3 * k - 1
  BY DEF Ended
<1>5. \A k \in LinesOf(p) : k \in Nat \ {0} /\ (3 * k <= n <=> k <= q)
  BY <1>1, <1>2, LineNumbers
<1> HIDE DEF from, n, r
<1>6. r.ino = c.ino /\ r.at = n /\ r.from = from
  BY <1>3 DEF Cursor
<1>7. CASE 3 * q > c.at
  <2>1. from = 3 * q
    BY <1>7 DEF from
  <2>2. \A k \in LinesOf(p) :
          /\ 3 * k <= n => 3 * k <= from
          /\ from # 3 * k - 2
          /\ 3 * k - 1 <= from <=> 3 * k - 1 <= c.from \/ k \in Ended(p, c)
    BY <1>1, <1>2, <1>4, <1>5, <1>7, <2>1
  <2>3. ~ (q * 3 <= c.at) /\ from \in Nat /\ from <= n
    BY <1>1, <1>2, <1>7, <2>1
  <2> QED
    BY <1>2, <1>6, <2>2, <2>3 DEF n, r
<1>8. CASE ~ (3 * q > c.at)
  <2>1. from = c.from /\ from \in Nat /\ from <= n
    BY <1>1, <1>8 DEF from, n
  <2>2. \A k \in LinesOf(p) : k \notin Ended(p, c)
    BY <1>1, <1>4, <1>5, <1>8
  <2>3. Ended(p, c) = {}
    BY <2>2 DEF Ended
  <2>4. \A k \in LinesOf(p) : 3 * k <= n => 3 * k <= from
    BY <1>1, <1>5, <1>8, <2>1
  <2> QED
    BY <1>6, <2>1, <2>3, <2>4 DEF n, r
<1> QED
  BY <1>7, <1>8

\* Feeding the lines that ended makes an exact fold exact of what was read.
LEMMA FedExact ==
  ASSUME IInv, NEW p \in Paths, NEW c \in Cursor, NEW fold \in Fold, c.ino = file[p].ino,
         c.from <= c.at, c.at <= file[p].size,
         \A k \in LinesOf(p) : 3 * k <= c.at => 3 * k <= c.from,
         Exact(fold, p, c.ino, c.from)
  PROVE  Exact(Fed(fold, Lines(p, Whole(p, c)), Lines(p, Ended(p, c) \ Whole(p, c))),
               p, c.ino, Read(p, c).from)
<1> DEFINE whole == Lines(p, Whole(p, c))
           torn == Lines(p, Ended(p, c) \ Whole(p, c))
           from == Read(p, c).from
<1>1. TypeInv /\ c.from \in Nat /\ c.ino \in Nat
  BY DEF IInv, Cursor
<1>2. /\ Ended(p, c) \in SUBSET LinesOf(p) /\ Whole(p, c) = Ended(p, c)
  <2>1. \A k \in Ended(p, c) : c.from < 3 * k - 1 /\ c.from # 3 * k - 2 /\ k \in LinesOf(p)
    BY DEF Ended, Exact
  <2>2. \A k \in Ended(p, c) : c.from < 3 * k - 2
    BY <1>1, <2>1, LineNumbers
  <2> QED
    BY <2>1, <2>2 DEF Whole
<1>3. torn = {}
  BY <1>2 DEF Lines
<1>4. /\ \A k : <<p, c.ino, k>> \in whole <=> k \in Ended(p, c)
      /\ \A line \in whole : line[2] = c.ino
  BY <1>1, <1>2, LinesType
<1> HIDE DEF whole, torn, from
<1>5. \A k \in LinesOf(p) :
        /\ from # 3 * k - 2
        /\ 3 * k - 1 <= from <=> 3 * k - 1 <= c.from \/ k \in Ended(p, c)
  BY ReadWithin DEF from, Exact
<1>6. Fed(fold, whole, torn) =
        [once |-> fold.once \cup whole, again |-> fold.again \cup (fold.once \cap whole),
         torn |-> fold.torn \cup torn]
  BY DEF Fed
<1>7. \A k \in LinesOf(p) :
        <<p, c.ino, k>> \in fold.once \cup whole <=> 3 * k - 1 <= from
  BY <1>4, <1>5 DEF Exact
<1>8. \A k \in LinesOf(p) : <<p, c.ino, k>> \notin fold.again \cup (fold.once \cap whole)
  <2>1. \A k \in Ended(p, c) : ~ (3 * k - 1 <= c.from)
    BY <1>1, LineNumbers DEF Ended
  <2> QED
    BY <1>4, <2>1 DEF Exact
<1>9. \A line \in fold.once \cup whole \cup fold.again : line[2] <= c.ino
  BY <1>1, <1>4 DEF Exact
<1>10. Exact(Fed(fold, whole, torn), p, c.ino, from)
  BY <1>3, <1>5, <1>6, <1>7, <1>8, <1>9 DEF Exact
<1> QED
  BY <1>10 DEF whole, torn, from

LEMMA FedOwn ==
  ASSUME NEW p \in Paths, NEW fold \in Fold, TypeInv, NEW c,
         OwnLines(fold, p)
  PROVE  OwnLines(Fed(fold, Lines(p, Whole(p, c)), Lines(p, Ended(p, c) \ Whole(p, c))), p)
<1> DEFINE whole == Lines(p, Whole(p, c))
           torn == Lines(p, Ended(p, c) \ Whole(p, c))
<1>1. \A line \in whole \cup torn : line[1] = p
  BY DEF Lines
<1> HIDE DEF whole, torn
<1>2. OwnLines(Fed(fold, whole, torn), p)
  BY <1>1 DEF OwnLines, Fed
<1> QED
  BY <1>2 DEF whole, torn

\* The database is open while the watch is up.
LEMMA UpIsOpened ==
  ASSUME IInv, watch = "up"
  PROVE  Opened(db) = db
  BY DEF IInv, RowInv, Opened

\* A session restored from its row, or from nothing, has the lines that the
\* cursor stands for, but for the reasons noted.
LEMMA StartExact ==
  ASSUME IInv, NEW p \in Paths, watch = "up", contexts[SessionKey(p)] = None, file[p].there
  PROVE  /\ OwnLines(Restored(p), p)
         /\ StartFlaws(p, Resumed(p)) = {} =>
              Exact(Restored(p), p, file[p].ino, Resumed(p).from)
<1> DEFINE own == db.rows[SessionKey(p)]
           row == IF Refused(db) THEN None ELSE own
           c == Resumed(p)
<1>1. /\ TypeInv /\ FileInv(p) /\ SeedInv(p) /\ file[p].ino \in Nat /\ file[p].size \in Nat
      /\ c \in Cursor
  BY ResumedType DEF IInv, PathInv, TypeInv, File
<1>2. /\ Restored(p) = IF row = None THEN Nothing ELSE row.fold
      /\ StartFlaws(p, c) =
           (IF row # None THEN row.flaws ELSE {})
           \cup (IF seeds[p] # None /\ seeds[p] # row THEN {"legacy"} ELSE {})
           \cup (IF p \in touched THEN {"ingested"} ELSE {})
           \cup (IF cursors[p] = c /\ c.at > 0 THEN {"evicted"} ELSE {})
  BY UpIsOpened DEF Restored, StartFlaws, GetSession
<1>3. c = IF cursors[p] # None /\ cursors[p].ino = file[p].ino THEN cursors[p]
          ELSE LET start == IF cursors[p] = None /\ SeedMatches(p) THEN seeds[p].offset ELSE 0
               IN [ino |-> file[p].ino, at |-> start, from |-> start]
  BY DEF Resumed
<1>4. row # None =>
        /\ row \in Row /\ LeftBehind(row, p, file[p]) /\ row.fold \in Fold
        /\ row.ino \in Nat /\ row.size \in Nat /\ row.offset = row.size
  <2>1. row # None => own # None /\ row = own /\ SessionKey(p) \in Keys
    BY KeysDiffer
  <2>2. own # None /\ SessionKey(p) \in Keys =>
          own \in Row /\ LeftBehind(own, p, file[p]) /\ own.offset = own.size
    BY DEF IInv, TypeInv, Db, RowInv
  <2> HIDE DEF row, own
  <2> QED
    BY <2>1, <2>2 DEF Row
<1>5. row # None /\ p \notin touched =>
        IF cursors[p] # None
        THEN /\ row.ino <= cursors[p].ino
             /\ row.ino = cursors[p].ino => row.size <= cursors[p].at
        ELSE seeds[p] = None => row.ino < file[p].ino
  BY <1>1 DEF SeedInv
<1> HIDE DEF row, own, c
<1>6. OwnLines(Restored(p), p)
  BY <1>1, <1>2, <1>4, NothingExact DEF LeftBehind
<1>7. ASSUME StartFlaws(p, c) = {} PROVE Exact(Restored(p), p, file[p].ino, c.from)
  <2>1. /\ row # None => row.flaws = {}
        /\ seeds[p] # None => seeds[p] = row
        /\ p \notin touched
        /\ cursors[p] = c => ~ (c.at > 0)
    BY <1>2, <1>7
  <2>2. cursors[p] # None => /\ cursors[p] \in Cursor /\ cursors[p].ino \in Nat
                              /\ cursors[p].at \in Nat /\ cursors[p].from \in Nat
    BY <1>1 DEF TypeInv, Cursor
  <2>3. CASE row = None
    <3>1. c.from = 0
      BY <1>1, <1>3, <2>1, <2>2, <2>3 DEF FileInv, SeedMatches
    <3> QED
      BY <1>1, <1>2, <2>3, <3>1, NothingExact
  <2>4. CASE row # None
    <3>1. Exact(row.fold, p, row.ino, row.size) /\ Restored(p) = row.fold
      BY <1>2, <1>4, <2>1, <2>4 DEF LeftBehind
    <3>2. row.ino <= file[p].ino /\ (row.ino = file[p].ino => row.size <= file[p].size)
      BY <1>4, <2>4 DEF LeftBehind
    <3>3. \/ row.ino = file[p].ino /\ c.from = row.size
          \/ row.ino < file[p].ino /\ c.from = 0
      <4>1. CASE cursors[p] # None /\ cursors[p].ino = file[p].ino
        <5>1. c = cursors[p] /\ c.at = 0 /\ c.from = 0
          BY <1>1, <1>3, <2>1, <2>2, <4>1 DEF FileInv
        <5> QED
          BY <1>1, <1>4, <1>5, <2>1, <2>2, <2>4, <4>1, <5>1
      <4>2. CASE cursors[p] # None /\ cursors[p].ino # file[p].ino
        <5>1. cursors[p].ino < file[p].ino
          BY <1>1, <2>2, <4>2 DEF FileInv
        <5>2. c.from = 0
          BY <1>3, <4>2
        <5> QED
          BY <1>1, <1>4, <1>5, <2>1, <2>2, <2>4, <4>2, <5>1, <5>2
      <4>3. CASE cursors[p] = None /\ seeds[p] = None
        <5>1. c.from = 0
          BY <1>3, <4>3 DEF SeedMatches
        <5> QED
          BY <1>5, <2>1, <2>4, <4>3, <5>1
      <4>4. CASE cursors[p] = None /\ seeds[p] # None
        <5>1. seeds[p] = row
          BY <2>1, <4>4
        <5>2. CASE SeedMatches(p)
          BY <1>3, <1>4, <2>4, <4>4, <5>1, <5>2 DEF SeedMatches
        <5>3. CASE ~ SeedMatches(p)
          <6>1. row.ino # file[p].ino
            BY <2>4, <3>2, <4>4, <5>1, <5>3 DEF SeedMatches
          <6>2. c.from = 0
            BY <1>3, <4>4, <5>3
          <6> QED
            BY <1>1, <1>4, <2>4, <3>2, <6>1, <6>2
        <5> QED
          BY <5>2, <5>3
      <4> QED
        BY <4>1, <4>2, <4>3, <4>4
    <3> QED
      BY <1>1, <1>4, <2>4, <3>1, <3>3, ExactLater
  <2> QED
    BY <2>3, <2>4
<1> QED
  BY <1>6, <1>7 DEF c

\* A session that goes on has the lines that its cursor stands for.
LEMMA OldExact ==
  ASSUME IInv, NEW p \in Paths, contexts[SessionKey(p)] # None
  PROVE  /\ contexts[SessionKey(p)] \in Fold /\ OwnLines(contexts[SessionKey(p)], p)
         /\ flaws[SessionKey(p)] = {} =>
              Exact(contexts[SessionKey(p)], p, file[p].ino, Resumed(p).from)
<1> DEFINE k == SessionKey(p)
<1>1. /\ FileInv(p) /\ ContextInv(p) /\ cursors[p] # None /\ cursors[p] \in Cursor
      /\ k \in SessionKeys /\ contexts[k] \in Fold /\ file[p].ino \in Nat
  BY KeysDiffer DEF IInv, PathInv, FileInv, TypeInv, File
<1>2. CASE cursors[p].ino = file[p].ino
  BY <1>1, <1>2 DEF ContextInv, Resumed
<1>3. CASE cursors[p].ino # file[p].ino
  <2>1. cursors[p].ino < file[p].ino /\ cursors[p].ino \in Nat /\ cursors[p].from \in Nat
    BY <1>1, <1>3 DEF FileInv, Cursor
  <2>2. Resumed(p).from = 0
    BY <1>1, <1>3 DEF Resumed
  <2> QED
    BY <1>1, <2>1, <2>2, ExactLater DEF ContextInv
<1> QED
  BY <1>2, <1>3

LEMMA PollFileKeeps == ASSUME IInv, NEW p \in Paths, PollFile(p) PROVE IInv'
<1> DEFINE c == Resumed(p)
           k == SessionKey(p)
           r == Read(p, c)
           fold == IF contexts[k] = None THEN Restored(p) ELSE contexts[k]
           fed == Fed(fold, Lines(p, Whole(p, c)), Lines(p, Ended(p, c) \ Whole(p, c)))
<1>1. TypeInv' /\ TypeInv
  BY PollingType DEF IInv, Polling
<1>2. UNCHANGED <<file, db, job, watch, touched>> /\ watch = "up"
  BY UpIsOpened DEF PollFile, command
<1>3. /\ k \in SessionKeys /\ c \in Cursor /\ fold \in Fold
      /\ c.ino = file[p].ino /\ c.from <= c.at /\ c.at <= file[p].size
      /\ \A j \in LinesOf(p) : 3 * j <= c.at => 3 * j <= c.from
  BY <1>1, KeysDiffer, ResumedType, RestoredType, ResumedWithin, OldExact
<1>4. /\ r.ino = file[p].ino /\ r.at = file[p].size
      /\ r.from \in Nat /\ r.from <= file[p].size
      /\ \A j \in LinesOf(p) : 3 * j <= file[p].size => 3 * j <= r.from
      /\ (file[p].size \div 3) * 3 <= c.at => r.from = c.from
  BY <1>3, ReadWithin
<1>5. /\ \A q \in Paths : cursors'[q] = IF q = p THEN r ELSE cursors[q]
      /\ \A q \in Paths : seeds'[q] = IF q = p /\ cursors[p] = None THEN None ELSE seeds[q]
  BY <1>1 DEF PollFile, TypeInv
<1>6. IF Speaks(p, c)
      THEN /\ contexts' = [contexts EXCEPT ![k] = fed]
           /\ flaws' = [flaws EXCEPT ![k] = IF contexts[k] = None THEN StartFlaws(p, c) ELSE @]
      ELSE UNCHANGED <<contexts, flaws>>
  BY DEF PollFile
<1>7. OwnLines(fold, p)
  BY <1>2, StartExact, OldExact DEF PollFile
<1> HIDE DEF c, k, r, fold, fed
<1>8. \A q \in Paths \ {p} : LET j == SessionKey(q) IN
        contexts'[j] = contexts[j] /\ flaws'[j] = flaws[j]
  BY <1>1, <1>3, <1>6, KeysDiffer DEF k, TypeInv
<1>9. file[p].size <= 3 * MaxLines[p] /\ file[p].ino \in Nat /\ file[p].size \in Nat
  BY <1>1 DEF IInv, PathInv, FileInv, TypeInv, File
<1>10. RowInv' /\ JobInv'
  BY <1>2 DEF IInv, RowInv, JobInv
<1>11. ASSUME NEW q \in Paths, q # p PROVE PathInv(q)'
  <2>1. PathInv(q)
    BY DEF IInv
  <2>2. /\ cursors'[q] = cursors[q] /\ seeds'[q] = seeds[q]
        /\ contexts'[SessionKey(q)] = contexts[SessionKey(q)]
        /\ flaws'[SessionKey(q)] = flaws[SessionKey(q)]
    BY <1>5, <1>8, <1>11
  <2>3. FileInv(q)' /\ ContextInv(q)'
    BY <1>2, <2>1, <2>2 DEF PathInv, FileInv, ContextInv
  <2>4. SeedInv(q)'
    BY <1>2, <2>1, <2>2 DEF PathInv, SeedInv, Refused
  <2> QED
    BY <2>3, <2>4 DEF PathInv
<1>12. cursors'[p] = r /\ r # None /\ r \in Cursor
  <2>1. r \in Cursor
    BY <1>1, ResumedType DEF r, c
  <2> QED
    BY <1>5, <2>1, NoneAssumption
<1>13. FileInv(p)'
  <2>1. FileInv(p)
    BY DEF IInv, PathInv
  <2>2. seeds'[p] = None
    BY <1>5, <2>1 DEF FileInv
  <2> QED
    BY <1>2, <1>4, <1>9, <1>12, <2>2 DEF FileInv
<1>14. SeedInv(p)'
  <2>1. db.rows[SessionKey(p)] # None => LeftBehind(db.rows[SessionKey(p)], p, file[p])
    BY DEF IInv, RowInv
  <2> QED
    BY <1>2, <1>4, <1>12, <2>1 DEF SeedInv, LeftBehind
<1>15. ContextInv(p)'
  <2>1. CASE Speaks(p, c)
    <3>1. /\ contexts'[k] = fed
          /\ flaws'[k] = IF contexts[k] = None THEN StartFlaws(p, c) ELSE flaws[k]
      BY <1>1, <1>3, <1>6, <2>1 DEF TypeInv
    <3>2. OwnLines(fed, p)
      BY <1>1, <1>3, <1>7, FedOwn DEF fed
    <3>3. ASSUME flaws'[k] = {} PROVE Exact(fed, p, r.ino, r.from)
      <4>1. Exact(fold, p, c.ino, c.from)
        BY <1>2, <1>3, <3>1, <3>3, StartExact, OldExact DEF fold, k, c, PollFile
      <4> QED
        BY <1>3, <1>4, <4>1, FedExact DEF fed, r
    <3> QED
      BY <1>12, <3>1, <3>2, <3>3 DEF ContextInv, k
  <2>2. CASE ~ Speaks(p, c)
    <3>1. contexts'[k] = contexts[k] /\ flaws'[k] = flaws[k] /\ r.from = c.from
      BY <1>4, <1>6, <1>9, <2>2, <1>3 DEF Speaks, Cursor
    <3> QED
      BY <1>3, <1>4, <1>12, <3>1, OldExact DEF ContextInv, k, c
  <2> QED
    BY <2>1, <2>2
<1> QED
  BY <1>1, <1>10, <1>11, <1>13, <1>14, <1>15 DEF IInv, PathInv

LEMMA PollGoneKeeps == ASSUME IInv, NEW p \in Paths, PollGone(p) PROVE IInv'
<1>1. TypeInv' /\ TypeInv
  BY PollingType DEF IInv, Polling
<1>2. UNCHANGED <<file, db, job, watch, seeds, touched>> /\ watch = "up" /\ ~ file[p].there
  BY DEF PollGone, command
<1>3. /\ cursors'[p] = None /\ contexts'[SessionKey(p)] = None
      /\ \A q \in Paths \ {p} :
           /\ cursors'[q] = cursors[q]
           /\ contexts'[SessionKey(q)] = contexts[SessionKey(q)]
           /\ flaws'[SessionKey(q)] = flaws[SessionKey(q)]
  BY <1>1, KeysDiffer DEF PollGone, TypeInv
<1>4. RowInv' /\ JobInv'
  BY <1>2 DEF IInv, RowInv, JobInv
<1>5. ASSUME NEW q \in Paths PROVE PathInv(q)'
  <2>1. PathInv(q)
    BY DEF IInv
  <2>2. FileInv(q)' /\ ContextInv(q)'
    BY <1>2, <1>3, <2>1 DEF PathInv, FileInv, ContextInv
  <2>3. SeedInv(q)'
    BY <1>2, <1>3, <2>1 DEF PathInv, SeedInv, Refused
  <2> QED
    BY <2>2, <2>3 DEF PathInv
<1> QED
  BY <1>1, <1>4, <1>5 DEF IInv

LEMMA IStep == IInv /\ [Next]_vars => IInv'
<1> SUFFICES ASSUME IInv, UNCHANGED vars PROVE IInv'
  BY AgentsKeep, WatchingKeeps, IngestKeeps, PollFileKeeps, PollGoneKeeps DEF Next, Polling
<1>1. /\ UNCHANGED <<file, db, job, watch, cursors, seeds, contexts, flaws, touched>>
  BY DEF vars, command, observer
<1>2. TypeInv' /\ RowInv' /\ JobInv'
  BY <1>1 DEF IInv, TypeInv, RowInv, JobInv
<1> QED
  BY <1>1, <1>2, PathKept DEF IInv

---------------------------------------------------------------------------
(* Theorems                                                                *)

LEMMA Inductive == Spec => []IInv
<1> QED
  BY IInit, IStep, PTL DEF Spec

\* Every reachable state is well typed: a database without a version has no rows,
\* an ingest comes by no file twice, and a cursor stands within its file, in a
\* watch that is up.
THEOREM TypeCorrect == Spec => []TypeOK
<1>1. IInv => TypeOK
  <2> SUFFICES ASSUME IInv PROVE TypeOK
    OBVIOUS
  <2>1. TypeInv /\ RowInv /\ JobInv /\ \A p \in Paths : FileInv(p)
    BY DEF IInv, PathInv
  <2> QED
    BY <2>1 DEF TypeOK, TypeInv, Db, RowInv, JobInv, FileInv
<1> QED
  BY <1>1, Inductive, PTL

\* For any roots, files and databases of earlier runs: no live session is given
\* a line of another file, raced, torn or migrated rows included.
THEOREM NoForeignLines == Spec => []FoldsStayApart
<1>1. IInv => FoldsStayApart
  BY DEF IInv, PathInv, ContextInv, FoldsStayApart
<1> QED
  BY <1>1, Inductive, PTL

\* Each line before the cursor is counted once, over all runs of ingest and watch
\* and whatever the agents do between two of their steps, unless one of the
\* reasons the history notes applies.
THEOREM LinesCountedOnce == Spec => []CountedOnce
<1>1. IInv => CountedOnce
  <2> SUFFICES ASSUME IInv, NEW p \in Paths, cursors[p] # None,
                      contexts[SessionKey(p)] # None, flaws[SessionKey(p)] = {}
               PROVE  Matches(contexts[SessionKey(p)], p, cursors[p].ino, cursors[p].at)
    BY DEF CountedOnce
  <2> DEFINE fold == contexts[SessionKey(p)]
             c == cursors[p]
  <2>1. /\ Exact(fold, p, c.ino, c.from) /\ c.from <= c.at /\ c.from \in Nat /\ c.at \in Nat
        /\ \A k \in LinesOf(p) : 3 * k <= c.at => 3 * k <= c.from
    BY DEF IInv, PathInv, ContextInv, FileInv, TypeInv, Cursor
  <2> HIDE DEF fold, c
  <2>2. \A k \in LinesOf(p) :
          /\ 3 * k <= c.at => 3 * k - 1 <= c.from
          /\ c.at <= 3 * k - 3 => ~ (3 * k - 1 <= c.from)
    BY <2>1, LineNumbers
  <2>3. Matches(fold, p, c.ino, c.at)
    BY <2>1, <2>2 DEF Exact, Matches
  <2> QED
    BY <2>3 DEF fold, c
<1> QED
  BY <1>1, Inductive, PTL

\* An ingest that ends leaves a row of every file it has come by, as far as it
\* was then, whatever a watch and the agents do meanwhile.
THEOREM RowsAreLeft == Spec => IngestLeavesRows
<1>1. IInv /\ [Next]_vars =>
        [IngestEnd =>
           \A d \in job.done :
             \E k \in Keys : db.rows[k] # None /\ db.rows[k].path = d[1] /\ db.rows[k].ino = d[2]
                              /\ db.rows[k].size = d[3]]_vars
  BY DEF IInv, JobInv, IngestEnd
<1> QED
  BY <1>1, Inductive, PTL DEF Spec, IngestLeavesRows
=============================================================================
