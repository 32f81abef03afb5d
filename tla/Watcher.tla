------------------------------ MODULE Watcher ------------------------------
(***************************************************************************)
(* codevigil/watcher.py: PollingSource, the stat-and-read tailer of a tree *)
(* of append-only session files, and the cursor cache (watcher_cache.py)   *)
(* it may resume from.                                                     *)
(*                                                                         *)
(* The watcher is one thread; the agents that write the session files are  *)
(* other processes.  A poll is therefore modelled as the sequence of its   *)
(* system calls (walk, stat, fingerprint, open, read of one chunk); the    *)
(* writers may act between any two of them, and any of them may fail with  *)
(* an error that poll() lets through.                                      *)
(*                                                                         *)
(* Bytes are abstracted to Bytes, one of which is the newline NL.          *)
(***************************************************************************)
EXTENDS Naturals, Sequences, FiniteSets

CONSTANTS
  Paths,           \* session files under the root, numbered in path order
  Inodes,
  Bytes, NL,       \* the alphabet of file contents, and its newline
  MaxFiles,        \* cap on the number of files of a walk
  ChunkSize,       \* bytes asked of one read (1 MiB in the code)
  FingerprintLen,  \* bytes of the resume fingerprint (4096 in the code; 0 when
                   \* the seeds come from the session store, which keeps none)
  None,            \* "no inode", "no cursor", "no seed"
  MaxLen,          \* bound: bytes of a file
  MaxVersion,      \* bound: file creations and truncations, all files together
  MaxStops         \* bound: exits of the watching process

ASSUME PathsAssumption == Paths \subseteq Nat /\ IsFiniteSet(Paths)
ASSUME NLAssumption == NL \in Bytes
ASSUME BoundsAssumption ==
  /\ MaxFiles \in Nat
  /\ ChunkSize \in Nat \ {0}
  /\ FingerprintLen \in Nat
  /\ MaxLen \in Nat /\ MaxVersion \in Nat /\ MaxStops \in Nat

\* What the program keeps of a file while it is tracked (FileCursor), and in the
\* cache (CachedCursor); Hist is the history of either.
Cursor == [ino : Inodes, size : Nat, offset : Nat, pending : Seq(Bytes)]
\* What may be wrong with a history: events of it were lost with a poll that
\* raised; its resume point was refused because the file could not be read.
Flaws == {"lost", "refused"}
Versioned == (Inodes \cup {None}) \X Nat
Hist == [out : Seq(Bytes), src : Versioned,
         sent : Nat, flaws : SUBSET Flaws]
Seed == [ino : Inodes, size : Nat, offset : Nat, pending : Seq(Bytes),
         prefix : Seq(Bytes), hist : Hist]

ASSUME NoneAssumption == None \notin Inodes \cup Cursor \cup Seed

VARIABLES
  name,    \* the directory: the inode each path names, or None
  disk,    \* the contents of each inode, and how often it was written anew
  cursor,  \* the _cursors table: a FileCursor per tracked path, or None
  seeds,   \* the _pending_seeds table: cached cursors not consulted yet
  cache,   \* the cursor cache file
  pc,      \* where the watcher is: down, idle, inside poll, or out of a poll
           \* that raised
  todo,    \* paths of this walk not handled yet
  seen,    \* the seen_paths of this poll
  rd,      \* the read, or the consultation of a seed, in progress
  stops,   \* exits so far
  hist     \* history: the bytes emitted as complete lines for each cursor,
           \* the contents they came from, how many of them a poll has returned,
           \* and flaws; never read by the program

env == <<name, disk>>
mem == <<cursor, seeds, hist>>
vars == <<name, disk, cursor, seeds, cache, pc, todo, seen, rd, stops, hist>>

Least(S) == CHOOSE x \in S : \A y \in S : x <= y
MinOf(a, b) == IF a <= b THEN a ELSE b
Take(s, n) == SubSeq(s, 1, MinOf(n, Len(s)))

Size(i) == Len(disk[i].data)
Version(i) == <<i, disk[i].ver>>

\* More than one version of a file has been read through one cursor.
Mixed == <<None, 0>>
Join(src, v) == IF src = v THEN v ELSE Mixed

NoRead == [path |-> None, at |-> Mixed, want |-> 0, handle |-> None, pos |-> 0]
NewHist(src, flaws) == [out |-> << >>, src |-> src, sent |-> 0, flaws |-> flaws]
NoHist == NewHist(Mixed, {})

---------------------------------------------------------------------------
(* The writers.  Any of these may happen between two calls of the watcher. *)

\* An inode may be (re)used once no path names it and no handle holds it.
Free(i) == rd.handle # i /\ \A p \in Paths : name[p] # i

\* The versions of all files so far; MaxVersion bounds how many there are.
Versions == UNION {{i} \X (1 .. disk[i].ver) : i \in Inodes}
MayRewrite == Cardinality(Versions) < MaxVersion

Blank(i) ==
  /\ MayRewrite
  /\ disk' = [disk EXCEPT ![i] = [data |-> << >>, ver |-> @.ver + 1]]

EnvStep == UNCHANGED <<cursor, seeds, cache, pc, todo, seen, rd, stops, hist>>

\* A session file appears, or is replaced by another file renamed over it.
Create(p, i) ==
  /\ Free(i)
  /\ Blank(i)
  /\ name' = [name EXCEPT ![p] = i]
  /\ EnvStep

\* The agent writes; a write need not end at a newline.
Write(p, b) ==
  /\ name[p] # None
  /\ Size(name[p]) < MaxLen
  /\ disk' = [disk EXCEPT ![name[p]].data = Append(@, b)]
  /\ UNCHANGED name
  /\ EnvStep

\* The file is cut short in place, keeping n bytes.
Truncate(p, n) ==
  /\ name[p] # None
  /\ n < Size(name[p])
  /\ MayRewrite
  /\ disk' = [disk EXCEPT ![name[p]] =
                [data |-> SubSeq(@.data, 1, n), ver |-> @.ver + 1]]
  /\ UNCHANGED name
  /\ EnvStep

Unlink(p) ==
  /\ name[p] # None
  /\ name' = [name EXCEPT ![p] = None]
  /\ UNCHANGED disk
  /\ EnvStep

Writers ==
  \E p \in Paths :
    \/ \E i \in Inodes : Create(p, i)
    \/ \E b \in Bytes : Write(p, b)
    \/ \E n \in 0 .. MaxLen : Truncate(p, n)
    \/ Unlink(p)

---------------------------------------------------------------------------
(* Starting, and the two ways of ending.                                   *)

\* PollingSource(cache_path=...): an empty table, and the cached cursors.
Start ==
  /\ pc = "down"
  /\ pc' = "idle"
  /\ seeds' = cache
  /\ UNCHANGED <<name, disk, cursor, cache, todo, seen, rd, stops, hist>>

\* The fingerprint is taken of the file the path names now; a file that cannot
\* be read is saved without one.
CachedCursorOf(p, readable) ==
  [ino |-> cursor[p].ino, size |-> cursor[p].size,
   offset |-> cursor[p].offset, pending |-> cursor[p].pending,
   prefix |-> IF readable THEN Take(disk[name[p]].data, FingerprintLen) ELSE << >>,
   hist |-> hist[p]]

\* The memory of the process is gone.
Forget ==
  /\ stops < MaxStops
  /\ stops' = stops + 1
  /\ pc' = "down"
  /\ cursor' = [p \in Paths |-> None]
  /\ seeds' = [p \in Paths |-> None]
  /\ hist' = [p \in Paths |-> NoHist]
  /\ todo' = {} /\ seen' = {} /\ rd' = NoRead

\* close(), between polls or after one that raised: flush_cursor_cache, then
\* drop the table.  Readable are the files whose fingerprint can be taken.
Close ==
  /\ pc \in {"idle", "raised"}
  /\ \E Readable \in SUBSET Paths :
       cache' = [p \in Paths |-> IF cursor[p] = None \/ name[p] = None
                                THEN None ELSE CachedCursorOf(p, p \in Readable)]
  /\ Forget
  /\ UNCHANGED env

\* The process dies at any point; the cache file stays as it was.
Crash ==
  /\ pc # "down"
  /\ Forget
  /\ UNCHANGED <<name, disk, cache>>

---------------------------------------------------------------------------
(* poll()                                                                  *)

\* The first MaxFiles files under the root, in path order.
Walked ==
  LET found == {p \in Paths : name[p] # None}
  IN  {p \in found : Cardinality({q \in found : q < p}) < MaxFiles}

Walk ==
  /\ pc = "idle"
  /\ pc' = "stat"
  /\ todo' = Walked
  /\ seen' = {}
  /\ UNCHANGED <<name, disk, cursor, seeds, cache, rd, stops, hist>>

\* A cached cursor is resumed from only if the file looks like the one it was
\* taken of: by its stat, and by its first bytes if the seed has a fingerprint.
SeedFits(seed, i) == seed # None /\ seed.ino = i /\ seed.size <= Size(i)
Fingerprinted(seed, i) == SeedFits(seed, i) /\ seed.prefix # << >>
SamePrefix(seed, i) == Take(disk[i].data, Len(seed.prefix)) = seed.prefix

\* Mutants: a resumed cursor that drops the pending bytes, and one that reads
\* from the start again.
ResumedWithoutPending(seed) ==
  [ino |-> seed.ino, size |-> seed.offset, offset |-> seed.offset,
   pending |-> << >>]
ResumedFromStart(seed) ==
  [ino |-> seed.ino, size |-> seed.offset, offset |-> 0,
   pending |-> seed.pending]

ResumedCursor(seed) ==
  [ino |-> seed.ino, size |-> seed.offset, offset |-> seed.offset,
   pending |-> seed.pending]

FreshCursor(i) == [ino |-> i, size |-> 0, offset |-> 0, pending |-> << >>]

\* What _handle_path does to the cursor and the cached seed of path p before
\* any byte is read: NEW_SESSION (resumed or from the start), ROTATE,
\* TRUNCATE, or the cursor as it is; v is the version that was statted.
Resume(p, v) ==
  /\ cursor[p] = None
  /\ cursor' = [cursor EXCEPT ![p] = ResumedCursor(seeds[p])]
  /\ hist' = [hist EXCEPT ![p] = [seeds[p].hist EXCEPT !.src = Join(@, v),
                                                      !.flaws = @ \ {"refused"}]]
  /\ seeds' = [seeds EXCEPT ![p] = None]

Discover(p, v, flaws) ==
  /\ cursor[p] = None
  /\ cursor' = [cursor EXCEPT ![p] = FreshCursor(v[1])]
  /\ hist' = [hist EXCEPT ![p] = NewHist(v, flaws)]
  /\ seeds' = [seeds EXCEPT ![p] = None]

Replaced(p, i) == cursor[p].ino # i \/ Size(i) < cursor[p].size

Restart(p, i) ==
  /\ cursor[p] # None /\ Replaced(p, i)
  /\ cursor' = [cursor EXCEPT ![p] = FreshCursor(i)]
  /\ hist' = [hist EXCEPT ![p] = NewHist(Version(i), {})]
  /\ UNCHANGED seeds

Follow(p, i) ==
  /\ cursor[p] # None /\ ~ Replaced(p, i)
  /\ IF Size(i) > cursor[p].size
     THEN hist' = [hist EXCEPT ![p].src = Join(@, Version(i))]
     ELSE UNCHANGED hist
  /\ UNCHANGED <<cursor, seeds>>

\* A file with more bytes than its cursor stands for is read, to that size.
ReadUpTo(p, size) ==
  IF size > cursor'[p].size
  THEN pc' = "open" /\ rd' = [NoRead EXCEPT !.path = p, !.want = size]
  ELSE pc' = "stat" /\ rd' = NoRead

\* os.stat of the next path, then _handle_path up to the next system call.
Stat ==
  /\ pc = "stat" /\ todo # {}
  /\ LET p == Least(todo)
         i == name[p]
         seed == seeds[p]
     IN  /\ todo' = todo \ {p}
         /\ seen' = seen \cup {p}
         /\ \/ /\ i = None
               /\ UNCHANGED <<cursor, seeds, hist, rd, pc>>
            \/ /\ i # None /\ cursor[p] = None /\ Fingerprinted(seed, i)
               /\ pc' = "check"
               /\ rd' = [NoRead EXCEPT !.path = p, !.at = Version(i), !.want = Size(i)]
               /\ UNCHANGED <<cursor, seeds, hist>>
            \/ /\ i # None
               /\ \/ SeedFits(seed, i) /\ ~ Fingerprinted(seed, i) /\ Resume(p, Version(i))
                  \/ ~ SeedFits(seed, i) /\ Discover(p, Version(i), {})
                  \/ Restart(p, i)
                  \/ Follow(p, i)
               /\ ReadUpTo(p, Size(i))
  /\ UNCHANGED <<name, disk, cache, stops>>

\* _seed_matches_file: the first bytes of what the path names by now.  A file
\* that has vanished or may not be read refuses the seed.  The open and the
\* read are one step: what happens between them to the file that was opened can
\* happen before both, as a file that no path names is written by nobody.
Check ==
  /\ pc = "check"
  /\ LET p == rd.path
         seed == seeds[p]
     IN  /\ \/ name[p] # None /\ SamePrefix(seed, name[p]) /\ Resume(p, rd.at)
            \/ name[p] # None /\ ~ SamePrefix(seed, name[p]) /\ Discover(p, rd.at, {})
            \/ Discover(p, rd.at, {"refused"})
         /\ ReadUpTo(p, rd.want)
  /\ UNCHANGED <<name, disk, cache, todo, seen, stops>>

\* Mutant: a file that vanished since the stat is not noticed.
OpenUnguarded ==
  /\ pc = "open"
  /\ rd' = [rd EXCEPT !.handle = name[rd.path], !.pos = cursor[rd.path].offset]
  /\ pc' = "read"
  /\ UNCHANGED <<name, disk, cursor, seeds, cache, todo, seen, stops, hist>>

\* _read_and_emit: open and seek.  A path that vanished since the stat leaves
\* the cursor alone.
Open ==
  /\ pc = "open"
  /\ \/ /\ name[rd.path] = None
        /\ rd' = NoRead /\ pc' = "stat"
     \/ /\ name[rd.path] # None
        /\ rd' = [rd EXCEPT !.handle = name[rd.path],
                            !.pos = cursor[rd.path].offset]
        /\ pc' = "read"
  /\ UNCHANGED <<name, disk, cursor, seeds, cache, todo, seen, stops, hist>>

\* Mutant: the tail after the last newline is emitted as well.
SplitsAtEnd(buf, n) == n = Len(buf)

\* n is the position of the last newline of buf, 0 if it has none.
SplitsAt(buf, n) ==
  /\ n \in 0 .. Len(buf)
  /\ n > 0 => buf[n] = NL
  /\ \A j \in n + 1 .. Len(buf) : buf[j] # NL

\* What one handle.read returns: at most to the size that was statted.
Chunk ==
  LET last == MinOf(rd.want, rd.pos + ChunkSize)
  IN  SubSeq(disk[rd.handle].data, rd.pos + 1, MinOf(last, Size(rd.handle)))

Buffer == cursor[rd.path].pending \o Chunk

\* One turn of the chunk loop: every line completed by the chunk is emitted,
\* the rest stays pending.
ReadChunk ==
  /\ pc = "read" /\ rd.pos < rd.want /\ Chunk # << >>
  /\ LET p   == rd.path
         buf == Buffer
     IN  \E n \in 0 .. Len(buf) :
           /\ SplitsAt(buf, n)
           /\ cursor' = [cursor EXCEPT ![p].pending = SubSeq(buf, n + 1, Len(buf))]
           /\ hist' = [hist EXCEPT ![p].out = @ \o SubSeq(buf, 1, n),
                                   ![p].src = Join(@, Version(rd.handle))]
  /\ rd' = [rd EXCEPT !.pos = @ + Len(Chunk)]
  /\ UNCHANGED <<name, disk, seeds, cache, pc, todo, seen, stops>>

\* Mutant: the offset is not moved.
FinishReadInPlace ==
  /\ pc = "read" /\ (rd.pos = rd.want \/ Chunk = << >>)
  /\ cursor' = [cursor EXCEPT ![rd.path].size = rd.want]
  /\ rd' = NoRead
  /\ pc' = "stat"
  /\ UNCHANGED <<name, disk, seeds, cache, todo, seen, stops, hist>>

\* The loop ends at the statted size or at an early end of file; either way
\* the cursor records the statted size.
FinishRead ==
  /\ pc = "read" /\ (rd.pos = rd.want \/ Chunk = << >>)
  /\ cursor' = [cursor EXCEPT ![rd.path].offset = rd.pos,
                              ![rd.path].size = rd.want]
  /\ rd' = NoRead
  /\ pc' = "stat"
  /\ UNCHANGED <<name, disk, seeds, cache, todo, seen, stops, hist>>

\* The end of poll: a tracked path that the walk did not list is DELETEd.
Deleted == {p \in Paths : cursor[p] # None /\ p \notin seen}

EndPoll ==
  /\ pc = "stat" /\ todo = {}
  /\ cursor' = [p \in Paths |-> IF p \in Deleted THEN None ELSE cursor[p]]
  /\ hist' = [p \in Paths |-> IF p \in Deleted THEN NoHist
                              ELSE [hist[p] EXCEPT !.sent = Len(hist[p].out)]]
  /\ pc' = "idle"
  /\ seen' = {}
  /\ UNCHANGED <<name, disk, seeds, cache, todo, rd, stops>>

Poll == Walk \/ Stat \/ Check \/ Open \/ ReadChunk \/ FinishRead \/ EndPoll

\* A system call fails with an error that poll() does not expect (any but
\* FileNotFoundError of stat and open, for one PermissionError).  The list of
\* events of this poll is gone, the cursors are as far as they were moved; the
\* error ends the watch loop, whose last act is close() (cli.py:422, 733).
Undelivered(p) ==
  \/ hist[p].sent # Len(hist[p].out)
  \/ pc = "read" /\ rd.path = p /\ rd.pos # cursor[p].offset

Raise ==
  /\ stops < MaxStops
  /\ \/ pc = "stat" /\ todo # {}
     \/ pc \in {"check", "open"}
     \/ pc = "read" /\ rd.pos < rd.want
  /\ pc' = "raised"
  /\ hist' = [p \in Paths |->
                IF Undelivered(p)
                THEN [hist[p] EXCEPT !.out = Take(@, hist[p].sent),
                                     !.flaws = @ \cup {"lost"}]
                ELSE hist[p]]
  /\ todo' = {} /\ seen' = {} /\ rd' = NoRead
  /\ UNCHANGED <<name, disk, cursor, seeds, cache, stops>>

---------------------------------------------------------------------------
Init ==
  /\ name = [p \in Paths |-> None]
  /\ disk = [i \in Inodes |-> [data |-> << >>, ver |-> 0]]
  /\ cursor = [p \in Paths |-> None]
  /\ seeds = [p \in Paths |-> None]
  /\ cache = [p \in Paths |-> None]
  /\ pc = "down"
  /\ todo = {} /\ seen = {}
  /\ rd = NoRead
  /\ stops = 0
  /\ hist = [p \in Paths |-> NoHist]

Next == Writers \/ Start \/ Close \/ Crash \/ Poll \/ Raise

Spec == Init /\ [][Next]_vars

\* The watch loop polls again and again while the process is up.
FairSpec == Spec /\ WF_vars(Poll)

---------------------------------------------------------------------------
(* Properties                                                              *)

TypeOK ==
  /\ name \in [Paths -> Inodes \cup {None}]
  /\ disk \in [Inodes -> [data : Seq(Bytes), ver : Nat]]
  /\ cursor \in [Paths -> Cursor \cup {None}]
  /\ seeds \in [Paths -> Seed \cup {None}]
  /\ cache \in [Paths -> Seed \cup {None}]
  /\ hist \in [Paths -> Hist]
  /\ pc \in {"down", "idle", "stat", "check", "open", "read", "raised"}
  /\ todo \subseteq Paths /\ seen \subseteq Paths
  /\ rd \in [path : Paths \cup {None}, at : Versioned, want : Nat,
             handle : Inodes \cup {None}, pos : Nat]
  /\ pc \in {"open", "read"} => rd.path \in Paths /\ cursor[rd.path] # None
  /\ pc = "check" => rd.path \in Paths /\ rd.at[1] \in Inodes /\ seeds[rd.path] # None
  /\ pc = "read" => rd.handle \in Inodes
  /\ stops \in 0 .. MaxStops

\* The bytes of p that the cursor stands for: those before its offset, or
\* before the position of the read in progress.
Consumed(p) == IF pc = "read" /\ rd.path = p THEN rd.pos ELSE cursor[p].offset

\* Everything read through the cursor of p came from one version of one file
\* and that version is still there: it has only been appended to.
Clean(p) ==
  /\ cursor[p] # None
  /\ hist[p].src = Version(cursor[p].ino)

\* What has been emitted for p, followed by what is pending, is the file as far
\* as the cursor stands for it.
Exact(p) ==
  hist[p].out \o cursor[p].pending = SubSeq(disk[cursor[p].ino].data, 1, Consumed(p))

\* Exactly once, in order, for a file that was only appended to: no byte of it is
\* lost, repeated or reordered, whatever the polls, partial writes, chunks and
\* restarts in between. The events of a poll that raises are lost, however, and
\* a close after it saves the cursors that it has moved (NothingSkipped).
ExactPrefix ==
  \A p \in Paths : Clean(p) /\ "lost" \notin hist[p].flaws => Exact(p)

\* "seeded cursor skips ``cached.size`` bytes of already-processed history"
\* (watcher_cache.py:28): what a cursor stands for was returned by a poll, lost
\* events included. Violated.
NothingSkipped ==
  \A p \in Paths : Clean(p) /\ pc # "raised" => Exact(p)

\* "A writer that flushes half a JSON record never produces a torn line": what
\* is emitted ends at a newline, and a complete line is never held back, for
\* every file, rewritten ones included.
WholeLines ==
  \A p \in Paths : cursor[p] # None =>
    /\ hist[p].out # << >> => hist[p].out[Len(hist[p].out)] = NL
    /\ \A j \in 1 .. Len(cursor[p].pending) : cursor[p].pending[j] # NL

\* A session is ended by DELETE only when its file went away: never one that
\* is still there, the same file it has been reading all along.
DeletedOnlyIfGone ==
  [][\A p \in Paths :
       (EndPoll /\ p \in Deleted) => ~ (name[p] = cursor[p].ino /\ Clean(p))]_vars

\* A saved resume point of a file that is there, and has only been appended to,
\* never moves back when the cache is written again, with two exceptions: a path that a walk
\* has left out, being pushed beyond MaxFiles, is DELETEd and read from 0 when it
\* is found again; and so is one whose fingerprint could not be taken when the
\* seed was consulted, and the file was there again at the close ("refused").
ResumePointAdvances ==
  [][\A p \in Paths :
       /\ cache[p] # None /\ cache'[p] # None
       /\ cache[p].ino = cache'[p].ino /\ cache[p].ino = name[p]
       /\ cache[p].hist.src = Version(cache[p].ino)
       /\ "refused" \notin cache'[p].hist.flaws
       => cache'[p].offset >= cache[p].offset]_vars

\* The events of the polls, in order, keep the promise of a Source. The events a
\* poll lists count as said when they are listed; one that raises ends the feed.
Heard == {p \in Paths : pc # "raised" /\ cursor[p] # None}
Feed == INSTANCE SessionFeed WITH
          known <- Heard,
          text <- [p \in Paths |-> IF p \in Heard THEN hist[p].out ELSE << >>]
KeepsSourceProtocol == Feed!Spec

\* Every byte an agent writes to a file that stays in place is eventually read,
\* as long as the watcher keeps running, and the cursor is of that file and its
\* size. A file that is cut short is read again once a stat sees it so (Restart).
\* One that grows to the recorded size before any stat is taken for an append, or
\* for unchanged (its cursor is not Clean): of it only the size is promised.
Running == pc \notin {"down", "raised"}
Reads(p, i, v, n) ==
  (Running /\ name[p] = i /\ disk[i].ver = v /\ Size(i) >= n)
    ~> \/ ~ Running \/ name[p] # i \/ disk[i].ver # v
       \/ /\ cursor[p] # None /\ cursor[p].ino = i /\ cursor[p].size >= n
          /\ Clean(p) => cursor[p].offset >= n

EventuallyRead ==
  \A p \in Paths, i \in Inodes, v \in 1 .. MaxVersion, n \in 1 .. MaxLen :
    Reads(p, i, v, n)
=============================================================================
