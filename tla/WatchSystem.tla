---------------------------- MODULE WatchSystem ----------------------------
(***************************************************************************)
(* The commands `ingest` and `watch` (cli.py) around the processed-session  *)
(* store, with agents that write the session files meanwhile.               *)
(*                                                                         *)
(* ingest (ingest.py) reads each file whole and leaves a row.  watch starts *)
(* from the rows: its source (watcher.py) seeks to the offset of the row,   *)
(* its aggregator restores the collectors from it, and from then on reads   *)
(* what is appended.  watch never writes a row.  When there is no database  *)
(* it runs ingest first.                                                    *)
(*                                                                         *)
(* Module Watcher has the system calls of one poll; here a poll of one file *)
(* and the handling of its events is one step.  A line is three bytes, the  *)
(* last one its newline: a piece of it may be its beginning, or all but the *)
(* newline.                                                                 *)
(***************************************************************************)
EXTENDS ProcessedStore

CONSTANTS
  MaxLines,    \* bound: lines of each path's files
  Writes,      \* how many bytes an agent writes at once
  Separated,   \* lines, by path, with a Unicode line separator in a text
  Stores,      \* databases there may be at first
  MaxFiles,    \* bound: files each path has, one after another
  MaxIngests,  \* bound: runs of ingest, those of watch included
  MaxWatches   \* bound: runs of watch

ASSUME PathsAssumption == Paths \subseteq Nat
ASSUME WritesAssumption == Writes \subseteq Nat \ {0}
ASSUME BoundsAssumption ==
  /\ MaxLines \in [Paths -> Nat \ {0}] /\ MaxFiles \in [Paths -> Nat \ {0}]
  /\ MaxIngests \in Nat /\ MaxWatches \in Nat

\* What the program keeps, and the place of a line: its path, the inode and its
\* number.
Place == Paths \X Nat \X Nat
Fold == [once : SUBSET Place, again : SUBSET Place, torn : SUBSET Place]
File == [ino : Nat, size : Nat, there : BOOLEAN]
Cursor == [ino : Nat, at : Nat, from : Nat]
Row == [path : Paths, ino : Nat, size : Nat, offset : Nat, fold : Fold,
        flaws : SUBSET {"raced", "torn"}]
Job == [by : {"command", "watch"}, force : BOOLEAN, todo : SUBSET Paths,
        done : SUBSET Place, at : Paths \cup {None}, stat : File \cup {None},
        fold : Fold \cup {None}, flaws : SUBSET {"raced", "torn"}]

ASSUME NoneAssumption ==
  None \notin Nat /\ None \notin Fold \cup File \cup Cursor \cup Row \cup Job

LinesOf(p) == 1 .. MaxLines[p]

\* A fold of the lines of p only.
OwnLines(fold, p) == \A line \in fold.once \cup fold.torn : line[1] = p

\* A fold that has each line of a file up to byte n exactly once: those that end
\* there or lack only their newline, and none in part.
Exact(fold, p, ino, n) ==
  /\ fold.torn = {}
  /\ \A k \in LinesOf(p) :
       /\ n # 3 * k - 2
       /\ <<p, ino, k>> \in fold.once <=> 3 * k - 1 <= n
       /\ <<p, ino, k>> \notin fold.again
  /\ \A line \in fold.once \cup fold.again : line[2] <= ino

\* A row that an ingest has left of p, whose file is now f.
LeftBehind(row, p, f) ==
  /\ row.path = p /\ OwnLines(row.fold, p)
  /\ row.ino <= f.ino /\ (row.ino = f.ino => row.size <= f.size)
  /\ row.flaws = {} => Exact(row.fold, p, row.ino, row.size)

FirstFile == [ino |-> 1, size |-> 3, there |-> TRUE]

\* The databases that earlier runs may have left of the first files.
ASSUME StoresAssumption ==
  \A d \in Stores :
    /\ d \in [version : Nat \cup {None}, rows : [Keys -> Row \cup {None}]]
    /\ d.version = None => d.rows = NoRows
    /\ \A k \in Keys : d.rows[k] # None =>
         /\ d.rows[k].offset = d.rows[k].size
         /\ \A p \in Paths : k = <<Root[p], Stem[p]>> => LeftBehind(d.rows[k], p, FirstFile)

VARIABLES
  file,     \* of each path: its inode, its size, and whether it is there
  db,       \* the database file
  job,      \* the ingest under way, or None
  watch,    \* the watch command: down, ingesting, up
  cursors,  \* its source's cursors, by path
  seeds,    \* its source's seeds, by path
  contexts, \* its aggregator's sessions: the fold of each key, or None
  flaws,    \* history: by key, why the fold of a session may be wrong
  touched,  \* history: paths upserted since the watch read its seeds
  ingests, watches

command == <<job, ingests>>
observer == <<watch, cursors, seeds, contexts, flaws, watches>>
vars == <<file, db, command, observer, touched>>

Lines(p, numbers) == {<<p, file[p].ino, k>> : k \in numbers}

---------------------------------------------------------------------------
(* The agents.                                                              *)

Append(p, n) ==
  /\ file[p].there /\ file[p].size + n <= 3 * MaxLines[p]
  /\ file' = [file EXCEPT ![p].size = @ + n]
  /\ UNCHANGED <<db, command, observer, touched>>

\* The file is made, or replaced by another one.
Replace(p) ==
  /\ file[p].ino < MaxFiles[p]
  /\ file' = [file EXCEPT ![p] = [ino |-> @.ino + 1, size |-> 0, there |-> TRUE]]
  /\ UNCHANGED <<db, command, observer, touched>>

Remove(p) ==
  /\ file[p].there /\ file[p].ino < MaxFiles[p]
  /\ file' = [file EXCEPT ![p].there = FALSE]
  /\ UNCHANGED <<db, command, observer, touched>>

---------------------------------------------------------------------------
(* ingest.                                                                  *)

NewJob(by, force) == 
  [by |-> by, force |-> force, todo |-> {p \in Paths : file[p].there}, done |-> {},
   at |-> None, stat |-> None, fold |-> None, flaws |-> {}]

\* _run_ingest, with --force or without: the database is opened, then run_ingest
\* walks the roots.
StartIngest(force) ==
  /\ job = None /\ ingests < MaxIngests
  /\ ingests' = ingests + 1
  /\ db' = Opened(db)
  /\ job' = IF Refused(db) THEN None ELSE NewJob("command", force)
  /\ UNCHANGED <<file, observer, touched>>

\* _should_skip.  (Two states of a file that differ in their mtime differ here
\* in inode or size.)
ShouldSkip(p) ==
  /\ ~ job.force
  /\ LET row == GetByPath(db, p)
     IN row # None /\ row.ino = file[p].ino /\ row.size = file[p].size

NextPath(todo) == CHOOSE p \in todo : \A q \in todo : p <= q

\* The stat of the next file, which may be gone, or skipped.
IngestStat ==
  /\ job # None /\ job.at = None /\ job.todo # {}
  /\ LET p == NextPath(job.todo)
     IN IF ~ file[p].there
        THEN job' = [job EXCEPT !.todo = @ \ {p}]
        ELSE IF ShouldSkip(p)
             THEN job' = [job EXCEPT !.todo = @ \ {p},
                                     !.done = @ \cup {<<p, file[p].ino, file[p].size>>}]
             ELSE job' = [job EXCEPT !.todo = @ \ {p}, !.at = p, !.stat = file[p]]
  /\ UNCHANGED <<file, db, ingests, observer, touched>>

\* What splitlines makes of a whole file: its last line may lack its newline,
\* or more; a line with a separator becomes two.
Split(p) ==
  LET begun == {k \in LinesOf(p) : 3 * k - 2 <= file[p].size}
      whole == {k \in begun : 3 * k - 1 <= file[p].size /\ <<p, k>> \notin Separated}
  IN <<Lines(p, whole), Lines(p, begun \ whole)>>

\* _feed_file, from read_bytes on, into a new context: the file as it is now.
\* flaws is history: not the file of the stat, or not in whole lines.
IngestFeed ==
  /\ job # None /\ job.at # None /\ job.fold = None
  /\ LET whole == IF file[job.at].there THEN Split(job.at)[1] ELSE {}
         torn == IF file[job.at].there THEN Split(job.at)[2] ELSE {}
     IN job' = [job EXCEPT
          !.fold = Fed(Nothing, whole, torn),
          !.flaws = (IF file[job.at] # job.stat THEN {"raced"} ELSE {})
                    \cup (IF torn # {} THEN {"torn"} ELSE {})]
  /\ UNCHANGED <<file, db, ingests, observer, touched>>

\* _snapshot_to_record: the resume point is the one of the stat.
Record(p) ==
  [path |-> p, ino |-> job.stat.ino, size |-> job.stat.size, offset |-> job.stat.size,
   fold |-> job.fold, flaws |-> job.flaws]

\* upsert_session, and the context is dropped.
IngestUpsert ==
  /\ job # None /\ job.fold # None
  /\ db' = Upserted(db, job.at, Record(job.at))
  /\ touched' = IF watch = "up" THEN touched \cup {job.at} ELSE {}
  /\ job' = [job EXCEPT !.at = None, !.stat = None, !.fold = None, !.flaws = {},
                        !.done = @ \cup {<<job.at, job.stat.ino, job.stat.size>>}]
  /\ UNCHANGED <<file, ingests, observer>>

IngestEnd ==
  /\ job # None /\ job.at = None /\ job.todo = {}
  /\ job' = None
  /\ UNCHANGED <<file, db, ingests, observer, touched>>

\* The process is killed; what it has upserted stays.
IngestCrash ==
  /\ job # None
  /\ job' = None
  /\ watch' = IF job.by = "watch" THEN "down" ELSE watch
  /\ UNCHANGED <<file, db, ingests, cursors, seeds, contexts, flaws, watches, touched>>

IngestStep == IngestStat \/ IngestFeed \/ IngestUpsert \/ IngestEnd

---------------------------------------------------------------------------
(* watch.                                                                   *)

NoMemory ==
  /\ cursors' = [p \in Paths |-> None]
  /\ contexts' = [k \in SessionKeys |-> None]
  /\ flaws' = [k \in SessionKeys |-> {}]

\* _run_watch up to _auto_ingest_if_missing.
StartWatch ==
  /\ watch = "down" /\ watches < MaxWatches
  /\ watches' = watches + 1
  /\ watch' = "ingesting"
  /\ IF Exists(db)
     THEN UNCHANGED <<db, command>>
     ELSE /\ job = None /\ ingests < MaxIngests
          /\ ingests' = ingests + 1
          /\ db' = Opened(db)
          /\ job' = NewJob("watch", FALSE)
  /\ UNCHANGED <<file, cursors, seeds, contexts, flaws, touched>>

\* _load_cursor_seeds_from_store, once ingest has ended; a database that is
\* refused gives no seeds.
LoadSeeds ==
  /\ watch = "ingesting" /\ (job # None => job.by # "watch")
  /\ watch' = "up"
  /\ db' = Opened(db)
  /\ seeds' = [p \in Paths |-> IF Refused(db) THEN None ELSE GetByPath(Opened(db), p)]
  /\ touched' = {}
  /\ NoMemory
  /\ UNCHANGED <<file, command, watches>>

\* Mutant: the offset of a file that was replaced is resumed from.
AnySeed(p) == seeds[p] # None /\ seeds[p].size <= file[p].size

\* _seed_matches_file; seeds from the store have no fingerprint.
SeedMatches(p) ==
  seeds[p] # None /\ seeds[p].ino = file[p].ino /\ seeds[p].size <= file[p].size

\* The cursor before the read: at, its offset, and from, where its pending bytes
\* begin.
Resumed(p) ==
  LET start == IF cursors[p] = None /\ SeedMatches(p) THEN seeds[p].offset ELSE 0
  IN IF cursors[p] # None /\ cursors[p].ino = file[p].ino THEN cursors[p]
     ELSE [ino |-> file[p].ino, at |-> start, from |-> start]

\* The lines that end in the bytes read, but for the one that lacks all but its
\* newline: that one is blank.
Ended(p, c) == {k \in LinesOf(p) : c.at < 3 * k /\ 3 * k <= file[p].size /\ c.from < 3 * k - 1}
Whole(p, c) == {k \in Ended(p, c) : c.from < 3 * k - 2}
Read(p, c) ==
  [c EXCEPT !.at = file[p].size,
            !.from = LET last == 3 * (file[p].size \div 3) IN IF last > c.at THEN last ELSE @]

\* A blank line is an event of the source as well.
Speaks(p, c) == cursors[p] = None \/ (file[p].size \div 3) * 3 > c.at

\* _maybe_restore_collector_state: the provider opens the database again.
Restored(p) ==
  LET row == IF Refused(db) THEN None ELSE GetSession(Opened(db), p)
  IN IF row = None THEN Nothing ELSE row.fold

\* History: why a context made now may start from something else than the lines
\* before the cursor.
StartFlaws(p, c) ==
  LET row == IF Refused(db) THEN None ELSE GetSession(Opened(db), p)
  IN (IF row # None THEN row.flaws ELSE {})
     \cup (IF seeds[p] # None /\ seeds[p] # row THEN {"legacy"} ELSE {})
     \cup (IF p \in touched THEN {"ingested"} ELSE {})
     \cup (IF cursors[p] = c /\ c.at > 0 THEN {"evicted"} ELSE {})

\* One file of a poll, and what the aggregator makes of its events.
PollFile(p) ==
  /\ watch = "up" /\ file[p].there
  /\ LET c == Resumed(p)
         k == SessionKey(p)
         made == contexts[k] = None
         fold == IF made THEN Restored(p) ELSE contexts[k]
     IN /\ c # cursors[p] \/ c.at # file[p].size
        /\ cursors' = [cursors EXCEPT ![p] = Read(p, c)]
        /\ seeds' = [seeds EXCEPT ![p] = IF cursors[p] = None THEN None ELSE @]
        /\ IF Speaks(p, c)
           THEN /\ contexts' = [contexts EXCEPT ![k] =
                     Fed(fold, Lines(p, Whole(p, c)), Lines(p, Ended(p, c) \ Whole(p, c)))]
                /\ flaws' = [flaws EXCEPT ![k] = IF made THEN StartFlaws(p, c) ELSE @]
                /\ db' = IF made THEN Opened(db) ELSE db
           ELSE UNCHANGED <<contexts, flaws, db>>
  /\ UNCHANGED <<file, command, watch, watches, touched>>

\* The end of a poll: DELETE, which evicts the session.
PollGone(p) ==
  /\ watch = "up" /\ ~ file[p].there /\ cursors[p] # None
  /\ cursors' = [cursors EXCEPT ![p] = None]
  /\ contexts' = [contexts EXCEPT ![SessionKey(p)] = None]
  /\ flaws' = [flaws EXCEPT ![SessionKey(p)] = {}]
  /\ UNCHANGED <<file, db, command, watch, seeds, watches, touched>>

\* The lifecycle pass evicts a silent session; its cursor stays.
Evict(k) ==
  /\ watch = "up" /\ contexts[k] # None
  /\ contexts' = [contexts EXCEPT ![k] = None]
  /\ flaws' = [flaws EXCEPT ![k] = {}]
  /\ UNCHANGED <<file, db, command, watch, cursors, seeds, watches, touched>>

\* SIGINT, an exception that _run_one_tick does not catch, or a kill: close()
\* leaves nothing behind that a later watch starts from.
StopWatch ==
  /\ watch = "up"
  /\ watch' = "down"
  /\ seeds' = [p \in Paths |-> None] /\ touched' = {}
  /\ NoMemory
  /\ UNCHANGED <<file, db, command, watches>>

---------------------------------------------------------------------------
Init ==
  /\ file = [p \in Paths |-> FirstFile]
  /\ db \in Stores
  /\ job = None /\ watch = "down"
  /\ cursors = [p \in Paths |-> None] /\ seeds = [p \in Paths |-> None]
  /\ contexts = [k \in SessionKeys |-> None] /\ flaws = [k \in SessionKeys |-> {}]
  /\ touched = {} /\ ingests = 0 /\ watches = 0

Agents == \E p \in Paths : (\E n \in Writes : Append(p, n)) \/ Replace(p) \/ Remove(p)
Watching == StartWatch \/ LoadSeeds \/ StopWatch \/ \E k \in SessionKeys : Evict(k)
Polling == \E p \in Paths : PollFile(p) \/ PollGone(p)
Ingesting == (\E force \in BOOLEAN : StartIngest(force)) \/ IngestStep \/ IngestCrash

Next == Agents \/ Watching \/ Polling \/ Ingesting
Spec == Init /\ [][Next]_vars

---------------------------------------------------------------------------
(* Properties                                                              *)

TypeOK ==
  /\ \A k \in Keys : db.rows[k] # None => db.rows[k] \in Row
  /\ db.version = None => db.rows = NoRows
  /\ watch \in {"down", "ingesting", "up"}
  /\ job # None => job.todo \cap {d[1] : d \in job.done} = {} /\ job.at \notin job.todo
  /\ \A p \in Paths : cursors[p] # None =>
       watch = "up" /\ cursors[p].from <= cursors[p].at /\ cursors[p].at <= 3 * MaxLines[p]

\* The fold has each line of the file that ends at or before byte n, exactly
\* once, none that begins after it, and no torn one.
Matches(fold, p, ino, n) ==
  /\ \A k \in LinesOf(p) :
       /\ 3 * k <= n => <<p, ino, k>> \in fold.once \ fold.again
       /\ n <= 3 * k - 3 => <<p, ino, k>> \notin fold.once
  /\ fold.torn = {}

\* What the collectors of a live session have been given of its file, over all
\* processes, is each line before the cursor once: unless the row they started
\* from was raced by the agent or had a torn line, was left behind by the
\* migration, was written after the seeds were read, or was restored again
\* after an eviction.
CountedOnce ==
  \A p \in Paths :
    LET k == SessionKey(p)
    IN (cursors[p] # None /\ contexts[k] # None /\ flaws[k] = {})
       => Matches(contexts[k], p, cursors[p].ino, cursors[p].at)

\* "even when different roots contain the same `session_id`" (README.md:127): no
\* session is given lines of another file, flawed or not.
FoldsStayApart ==
  \A p \in Paths :
    LET fold == contexts[SessionKey(p)]
    IN fold # None => OwnLines(fold, p)

\* An ingest ends with every file it has come by in the database, as far as it
\* was then: one file's row does not take the place of another's.
IngestLeavesRows ==
  [][IngestEnd =>
      \A d \in job.done :
        \E k \in Keys : db.rows[k] # None /\ db.rows[k].path = d[1] /\ db.rows[k].ino = d[2]
                         /\ db.rows[k].size = d[3]]_vars

=============================================================================
