# codevigil, formally

TLA+ specifications of codevigil, their TLC runs and their TLAPS proofs.
codevigil is a local, single-threaded command-line observer of coding-agent
sessions: it tails the JSONL files the agents write, folds their events into
per-session collectors, and shows, stores and reports the resulting metrics.

No process of it runs in parallel with itself. What makes it hard is everything
around it: the agents append to, truncate, rename and unlink files while it
reads them; the process is killed and restarted from a cache or a database that
may be older than what it has already shown; sessions are evicted, deleted and
come back; collectors raise in the middle of a fan-out; and several commands
(`watch`, `ingest`, `report`, `history`) may run at once over the same store,
log and calibration file, without locks.

## 1. The system

```
 session files ──► Source ──events──► SessionAggregator ──(meta, snapshots)──► renderers
  (other          watcher.py          aggregator.py                            terminal, json
   processes)        ▲   │              │  │  │  ▲
                     │   ▼              │  │  │  └ collector state   parser, turns,
              seeds  │  cursor cache    │  │  └──► bootstrap.json    collectors: one set
                     │                  │  └─────► session reports   per live session
                     └── processed-session store ◄── ingest
```

| component | state | operations | what makes it correct |
|---|---|---|---|
| watcher (`watcher.py`) | cursor table: inode, size, offset, pending bytes per path; resume seeds | `poll`, `close`, `flush_cursor_cache` | every complete line of every file exactly once, in order; no torn line; events keep the Source protocol; DELETE only of what is gone; everything written is read in the end |
| cursor cache (`watcher_cache.py`) | a JSON file of cursors with a prefix fingerprint | load, save | a resume skips and repeats nothing, and resumes only the same file |
| aggregator (`aggregator.py`) | context per live session: parser, collectors, state, silence, last snapshots; churn, cohort | `tick`, `close`, and the handlers they call | each event folded once by each collector; lifecycle agrees with the latest activity; a tick judges all sessions alike; all are evicted in the end |
| bootstrap (`bootstrap.py`) | sessions observed, distributions, thresholds, completion; a JSON file | load, save, observe, finalize | one verdict per tick; each session counts once; thresholds clamp the right way |
| ingest (`ingest.py`), processed-session store (`analysis/processed_store.py`) | SQLite rows: resume point and collector state per session | `run_ingest`, upsert, migrate | what is skipped has been folded; resume point and state belong together |
| watch loop (`cli.py`) | none of its own; wires the parts, catches errors | start, tick, sleep, interrupt | an error in one tick loses no event (it does, section 3); the screen of the shell is given back |
| parser (`parser.py`) | seen message ids, parse statistics, tool-use table | `parse` | an event per message; statistics judge the recent lines |
| turns (`turns.py`) | the turn under way | ingest, finalize | each event belongs to one turn |
| classifier (`classifier.py`) | none | pure functions of a turn | agree with their tables |
| collectors (`collectors/`) | counters and windows | ingest, snapshot, reset, serialize, restore | restore ∘ serialize is invisible; bounded windows |
| session store (`analysis/store.py`) | report files | write, list | a report tells what was seen |
| error channel (`errors.py`) | rotating log | record | rotation loses bounded history |
| terminal and JSON renderers, progress display | frame, heartbeat | render | a bounded screen |
| configuration, watch roots, projects, registry, privacy | read once | resolve | precedence; refusal of bad values |
| report, history, cohort analysis | none | pure functions of stored reports | agree with their definitions |

How they interact. One thread calls `tick()`; `tick` calls the source's `poll()`,
which makes all of its system calls and returns the list of its events, and then
dispatches them one by one, runs the lifecycle pass, evicts, and returns a list
with a snapshot of every live session, which the renderers are given one at a
time. An exception out of `poll()` loses its list, with the cursors already moved. The aggregator calls the
parser, collectors, bootstrap and session store synchronously. The watcher and
the aggregator share no state: an eviction is not known to the watcher, and a
cursor is not known to the aggregator. The processed-session store feeds both at
start-up: resume points to the watcher, collector state to the aggregator.

The hard behaviours, each at its line, are the `hazards` of `PROJECT.json`.

## 2. Modules

| module | models | theorems in |
|---|---|---|
| `SessionFeed` | abstract: what a Source promises its consumer | |
| `Watcher` | `PollingSource` and its cursor cache, with the writers of the files | `Watcher_proofs` |
| `Aggregator` | `SessionAggregator`, with the source, the bootstrap counters, the clock | `Aggregator_proofs` |
| `Parser` | `SessionParser` and `ParseStats`: from a line to its events | |
| `Turns` | `TurnGrouper` | |
| `Collectors` (extends `Parser`) | the six collectors: fold, severity, serialize and restore | |
| `Session` (extends both) | one session: a line through parser, collectors and grouper; restarts; eviction | `Session_proofs` |
| `ProcessedStore` | the SQLite store as a value: open, migrate, upsert, look up | |
| `WatchSystem` (extends it) | `ingest` and `watch` around the store, with the agents | `WatchSystem_proofs` |
| `Calibration` | the bootstrap state: observe, finalize, save, load, of several processes | `Calibration_proofs` |
| `ErrorLog` | the rotating log, of several processes | `ErrorLog_proofs` |
| `ReportStore` | the session reports: writers, and `history` reading beside them | `ReportStore_proofs` |
| `Cohort` | the reductions of reports into cells, periods, movers, pairs | |
| `Reports` (extends it) | the `report` command over files that change | `Output_proofs` |
| `Screen` | the watch loop's frames and the terminal | `Output_proofs` |
| `MCWatcher`, `MCAggregator`, `MCSession`, `MCWatchSystem`, `MCParts` | instances for TLC | |

### Watcher

Bytes are members of a small alphabet with a newline `NL`. The directory is
`name` (path to inode) and `disk` (inode to contents and version); a *version*
starts when a file is created or cut short and is only ever appended to. A poll is not one
action. It is the sequence of the system calls in the code, and `Create`,
`Write`, `Truncate`, `Unlink` may come between any two of them:

| action | code |
|---|---|
| `Start` | `PollingSource.__init__`: seeds taken from the cache |
| `Walk` | `_walk`: the first `MaxFiles` files in path order |
| `Stat` | the `stat` of one path and `_handle_path` up to the read: `Resume`/`Discover` (NEW_SESSION), `Restart` (ROTATE, TRUNCATE), `Follow` |
| `Check` | `_seed_matches_file`: the first bytes of the path, read after its stat, decide between `Resume` and `Discover`; a path that vanished or may not be read refuses the seed |
| `Open` | `_read_and_emit`: open and seek, or the path vanished |
| `ReadChunk` | one turn of the chunk loop: prepend the pending bytes, emit up to the last newline, keep the rest |
| `FinishRead` | the loop's end: offset and size recorded |
| `EndPoll` | DELETE of every tracked path that the walk did not list; the list of events is returned |
| `Raise` | an error that `poll()` does not catch, of any of these calls (for `stat` and `open`, any but `FileNotFoundError`): the events of this poll are gone, the cursors stay as they are |
| `Close` | `close`, between polls or after one that raised (the `finally` clause of `cli.py:733`): `flush_cursor_cache`, then the table is dropped |
| `Crash` | the process dies anywhere, even inside a chunk loop |

`hist` is a history variable and is never read by an action: the bytes emitted
for a cursor, how many of them a poll has returned (`sent`), whether a poll that
raised lost some (`flaws`), and the version they came from, or `Mixed` once two versions have
been read through one cursor, as happens when a file is rewritten between the
stat and the read. Such cursors are beyond any promise of exactness (stat cannot
tell a truncated and regrown file from an appended one), and `ExactPrefix`
speaks of the others, whose events no raising poll has lost; `WholeLines` speaks
of all. The walk is one atomic step, and so are an open and the read after it in `Check`.

The two kinds of seeds are two values of a constant: those of the cursor cache
have a fingerprint (`FingerprintLen` > 0), those of the processed-session store
have none (`FingerprintLen = 0`). The command line uses the second kind only, and
passes no `cache_path`, so that its `close` saves nothing; the first kind is
wired in `PollingSource` and its tests. The runs take the first kind, the
theorems hold for both. What the rows of the store make of a resume, which ingest
writes and `Close` does not, is the subject of `WatchSystem`.

### SessionFeed

A path is introduced once, extended by whole lines only, voided by ROTATE or
TRUNCATE, and gone after DELETE. `Watcher` implements it (`KeepsSourceProtocol`,
a refinement with `known` = the tracked paths, `text` = the emitted bytes; a poll
that raises ends the feed).

### Aggregator

| action | code |
|---|---|
| `NewSession`, `Event`, `NoEvent`, `DeleteSession` | `_dispatch_source_event` with everything it calls: `_ensure_session`, `_maybe_restore`, `_ingest_line`, `_fan_out_event`, `_evict_session` |
| `BeginTick`, `Lifecycle`, `EvictDue`, `BeginYield`, `Yield`, `EndTick` | `tick`, in its order; `Yield` is one turn of its last loop (`_snapshot_session` and `_build_meta`) |
| `BeginClose`, `CloseSession` | `close` |
| `Advance` | the monotonic clock |

Time is kept as each session's silence, capped at `EvictAfter`; nothing in the
code tells larger values apart; `quiet` is the same of the latest activity that the
source told of, as history, from which the code's `last_monotonic` and state may
not depart. A collector is the number of events folded into
it. Which collectors raise on an event (`F`), which refuse or lack their stored
state (`R`), how old an event is by its own timestamp and whether it has one, and
what the parser's statistics say (`drift`) are free choices: any such run of the
code is a run of the model. ROTATE and TRUNCATE change nothing in the aggregator
and are no action. Exceptions other than those of collectors and of the report
store are not modelled.

The source is the environment here, under the rules of `SessionFeed`:
`followed` is its set of known paths, and `spoken` has those that the poll being
drained has told of: a poll either reads a path or DELETEs it
(`watcher.py:361-378`). `NewSession` may be told as resumed more
often than a real one-shot seed allows, which only adds behaviours.
`skewed` marks sessions whose collectors, when made, did not start where the
source went on: after an eviction by silence, or when the resume point was
refused but the collector state was restored. For these, the code does lose or
repeat events (section 5); `FoldedOnce` states that these are the only ones.

`boot` is what the aggregator sees of the bootstrap. A watch without bootstrap is
one whose `boot.done` is true from the start.

### Parser, Turns, Collectors, Session

`Session` is one `_SessionContext` of the aggregator. Its actions: `IngestLine`
(`_ingest_line`: `ParseLine`, then every event to each collector and to the
grouper), `Resume` (the store's state is restored by another process:
collectors yes, parser and grouper no, perhaps with another `window_size`),
`Evict` (`finalize`, which closes the last turn). The classifier, which labels a
turn as it is closed, is left out, and so are the times of a turn.

A line is a record of what the parser tells lines apart by: whether it is JSON
and an object, its `type`, `role`, timestamp (good, bad, odd, none), shape,
message id, and its blocks. `ParseLine` has one operator for each path through
`parse` and `_dispatch`; `ParsedBy` and the `Block` operators give the events and
what is missing in them. A text is told apart by the phrases in it (`StopHits`
and `LoopHits` are tables given by the instance, which the code computes with
regular expressions). Collectors are records with a `Fold` and, for `stop_phrase`,
`reasoning_loop` and `parse_health`, a severity; thresholds are compared in
integers, and rates or medians for display only are left to the reader of the
record. The histories `file` and `told` hold the lines and events so far, and the
properties define each collector's answer over them from scratch.

### ProcessedStore, WatchSystem

A database is a value, because each operation of the store is one transaction.
`Opened` creates or migrates, `Refused` is a later schema. A *fold* stands for
what the collectors of a session were given: lines had, lines had again, lines
that came in pieces. A line is three bytes, the last its newline; agents write a
few at once, so that a file may end anywhere in a line.

| action | code |
|---|---|
| `Append`, `Replace`, `Remove` | an agent |
| `StartIngest`, `IngestStat`, `IngestFeed`, `IngestUpsert`, `IngestEnd` | `run_ingest`: the walk; stat and skip test; `read_bytes` and the fold; the row; the end |
| `IngestCrash` | the process is killed |
| `StartWatch` | `_run_watch` up to `_auto_ingest_if_missing` |
| `LoadSeeds` | `_load_cursor_seeds_from_store` |
| `PollFile`, `PollGone` | one file of a poll and what the aggregator makes of its events: seed or cursor, read, context made from the stored state |
| `Evict` | the lifecycle pass; the cursor stays |
| `StopWatch` | an end of any kind |

A poll of one file is one step here; `Watcher` has its system calls. `flaws` and
`touched` are histories: why the fold of a session may be wrong. They are the
causes of what `skewed` and `stored` are free choices of in `Aggregator`.

### Calibration, ErrorLog, ReportStore

`Calibration`: `CalStart` loads, `CalObserve` observes and finalizes in memory,
`CalTruncate` and `CalWrite` are the two halves of `save` (the file is emptied,
then written), `CalEnd` is any end. Quantiles are exact, in twentieths; `Sorted`
gives a distribution's order statistics, which is what `sorted` does to it.
`ErrorLog`: `LogCheck` looks up the size and decides, `LogLook` and `LogMove` are
the test and the rename of one step of a rotation, `LogAppend` writes, `LogKill`
may come between any two. `ReportStore`: `WriteOpen`, `WriteFill`, `WriteRename`
and `WriteFails` are `write`; `ListStart`, `ListFile`, `ListEnd` and `GetStart`,
`GetFile`, `GetEnd` the readers, one file at a time and in any order, as
`iterdir` gives them. A version of a report is told from the earlier ones by the
number of reports put in place before it, `versions`. A stored file can be read
(`Readable`), is passed over with a warning, or ends the command (`Raises`: no
UTF-8, no JSON object, or a date that cannot be parsed, which
`SessionReport.__init__` does as the file is read). Rows of one instant are
listed in any of the orders that the directory may give (`Sortings`), for
`sort` is stable.

### Cohort, Reports

A session file is a sequence of lines with an instant, or none. `ReportStart`
takes a command line (single, multi-period, group-by, compare, pivot) and lists
the files; `ReportFilter`/`ReportFiltered` are `_filter_by_date`; `ReportLoad` is
one file of the loader or of the loop of `_run_report`; `ReportNextWindow` the next
of the three windows; `ReportFinish` computes what is printed (`Result`, with the
operators of `Cohort`). Between these, `AgentAppends` and `AgentRemoves`. Means are
kept as a sum and a number; what a table prints is kept as the set of cells whose
means it gives away (`tells`).

### Screen

`ScreenBegin` is `begin_tick`, `ScreenTick` the rendering of what a tick yielded
and `end_tick`, `ScreenStop` the end of the loop (an interrupt, or an exception
that `_run_one_tick` does not catch), `ScreenClose` and `ScreenCloseRaises` the
`finally` clause. The sessions of a tick, their severities and times, the names
and the rows of the store are free choices. A project goes by the name that
`projects.toml` gives it or that of its first directory, which two projects may
share, or else by its hash (`NameOf`); rows are those of names.

## 3. Runs

Twelve runs, each well under five minutes.

| run | instance | shows |
|---|---|---|
| `watcher_tail` | 1 path, 2 inodes, files of ≤ 3 bytes, 2-byte chunks, 1-byte fingerprints, 2 versions, 2 ends of the process | `TypeOK`, `ExactPrefix`, `WholeLines`, `ResumePointAdvances` |
| `watcher_poll` | 2 paths, files of ≤ 2 bytes, 1-byte chunks, no end, fair | `KeepsSourceProtocol` (refinement), `EventuallyRead` |
| `aggregator_tick` | 2 sessions, 2 collectors of which one may raise, 4 source events of one session or 2 of two (creations included), one stored state, reports of one session, fair | `TypeOK`, `FoldedOnce`, `LiveIsFollowed`, `JudgedAlike`, `StatesFollowActivity`, `EventuallyEvicted` |
| `session` | 6 alphabets of lines, 4 lines, 1 restart, 2 window sizes | `EachMessageOnce`, `DriftLeavesATrace`, `ConfidenceIsRecent`, `RatioOfTheWindow`, `BlindIsUnread`, `MaxBurstIsLongest`, `RecentHitsAreLast`, `TurnsCoverTheSession`, `TypeOK` |
| `system` | 2 roots with a file of one name, 2 lines, 2 inodes, 4 databases, 1 ingest beside 1 watch | `CountedOnce`, `FoldsStayApart`, `IngestLeavesRows`, `TypeOK` |
| `parts` | see below | calibration: `ThresholdsInOrder`, `CalibrationContinues`; log: `LogLosesOldestOnly`, `LogStaysSmall`; store: `ListedWhole`, `LookupTells`; report: `LoadsTheWindow`, `WindowsNest`, `PivotPartitions`, `SmallCellsHidden`; screen: `HeadersDiffer`, `LiveProjectsAreLive`, `ScreenGivenBack` |

`parts` explores five components that share no state while they run. One of
them, the `focus`, takes steps, and the others stay in their first state, so that
the run has the sum of their states and not the product; a property of one is
checked in all states of that one.

Why the bounds suffice.

- *Watcher.* Three bytes hold a complete line, a torn one, and a second newline;
  chunks of two bytes are filled, cut short by the statted size, or end within a
  line, and chunks of one byte split every line everywhere. Two versions are a file and its
  successor, with two inodes they may share an inode number or not; one end of the
  process, by close, crash or a poll that raises, gives a resume, two a resume of a resume. Two paths are the least for a walk
  that handles one after the other and for the `MaxFiles` cut.
- *Aggregator.* `StaleAfter = 1`, `EvictAfter = 2` separate fresh, stale and due.
  A session on its own has four source events, NEW_SESSION among them: created,
  told of and deleted and then made again, or told of twice and evicted, and told of once
  more. Two sessions in one tick share two events (`PairSaid`). The collector that may
  raise, in `ingest()` or in `snapshot()`, has a peer that does not. All the
  safety properties of this run are also proved, for every value of the bounds
  and any number of sessions, collectors that raise, and events.
- *Session.* Four lines fill a window of two, or three, and overflow it, on
  either side of a restart. The parser's window of outcomes (`Window = 3`) is longer than
  the one that arms the verdict (`HealthWindow = 2`), as 200 lines are than 50. The lines come in six alphabets (shapes, drifting
  calls, drifting blocks, edits, phrases, turns), because a line of one does not
  change the parts of the state that the others exercise.
- *System.* Two roots with one file name are what session keys must tell apart;
  two lines have one before and one after a resume point; writes of one and two
  bytes leave a line begun, and whole but for its newline; the databases are
  none, schema 1, 2 and 3. The database at first stands for an earlier ingest.
- *Parts.* Two processes over one file; a log that holds two records a file and
  three archives, filled to the last; two writers and two reports beside a listing;
  files whose events cross two days, out of order, undated or junk; three
  sessions of which two share an id and two a prefix, above a limit of two; two
  projects that go by their hashes, or both by the one name there is.

Runs that end in a violation check what a document or comment says and the code
does otherwise:

| run | statement | the code |
|---|---|---|
| `watcher_overflow` | DELETE is for a vanished path | a file pushed out of the first `max_files` is DELETEd while it is there |
| `watcher_raise` | the seeded cursor skips processed history | an `OSError` out of `poll()` loses the events of the files it had read, and the close that follows saves their cursors |
| `aggregator_report` | metrics at eviction time | those of the last tick |
| `aggregator_recount` | total events of the session | events since the last eviction, over the former report |
| `aggregator_health` | parse_health reads the parser's statistics | not after a restore |
| `report_dates` | `--from`/`--to` filter events | the single-period report keeps or drops whole files by their first line |

**Deadlock.** The watcher never stops: it polls, or is started again (a close may
always follow a poll that raised). The others
stop, after `close`, at the end of a command or at a bound, so their
configurations switch deadlock checking off. **Fairness.** `Watcher`: weak fairness of the
whole `Poll`, for the watch loop polls for as long as it runs
(`cli.py:616-739`); none of the writers. `Aggregator`: weak fairness of
`TickStep`, of the clock, and of the body of `close`; none of the source, nor of
`BeginClose`. `EventuallyEvicted` has the silence of the source from its bound
`MaxSaid`, as its comment says. `TickBound` of `MCAggregator` limits what the
source and the collectors do, never the ticks or the clock. The other modules state safety only: the commands
are loops over finite sets that end of themselves, and what must be read in the
end is `EventuallyRead`. **Symmetry** is used for inodes, sessions and
collectors, in runs without liveness only.

## 4. Proofs

TLAPS proves, for every number of paths, sessions, collectors, processes and
writers, every chunk size, file length, threshold and bound:

| theorem | property | inductive invariant |
|---|---|---|
| `Watcher_proofs!TypeCorrect` | `TypeOK` | itself; includes that a read in progress has a tracked path and a handle |
| `Watcher_proofs!NoTornLines` | `WholeLines` | `WholeInv`: the same of every cursor, seed and cached cursor, since a resume takes its pending bytes from the cache |
| `Watcher_proofs!ToldExactlyOnce` | `ExactPrefix` | `ExactInv`: the property for cursors (`CursorFaithful`), and for seeds and cache (`SeedFaithful`), of which only the position is known where a poll that raised has lost events; with what makes an unmixed source mean "the same version": versions grow, a free inode's version is new, and offsets never exceed the file |
| `Watcher_proofs!ImplementsSourceProtocol` | `KeepsSourceProtocol`, a refinement of `SessionFeed` | `Untold`: an untracked path has told nothing. Each action is mapped to the step of `SessionFeed` it takes, or to a stutter; the appends are of whole lines because the new bytes end at the last newline of the chunk |
| `Watcher_proofs!SavedPointsAdvance` | `ResumePointAdvances` | `AdvInv`: where the next close would write over a good cached cursor, what was consumed is no less (`Advanced`); a path whose cache still describes its file is tracked or has its seed waiting (`SeedCached`, `Resumable`), the seed will be accepted (`CacheMatches`) unless its file cannot be read, and is of the file that was statted (`Consulting`), the cursor will not be taken for one of a cut file (`Sized`), and the walk lists the path (`Listed`) |
| `Aggregator_proofs!TypeCorrect` | `TypeOK` | itself; sessions due are live |
| `Aggregator_proofs!StatesAreTrue` | `StatesFollowActivity` | `QuietInv` (the silence of a live session is the time since its latest activity) with `StaleIsSilent` (a STALE session has been silent for `StaleAfter`: whatever shortens the silence ends staleness) |
| `Aggregator_proofs!DeleteIsFinal` | `LiveIsFollowed` | itself with the type invariant |
| `Aggregator_proofs!EachEventFoldedOnce` | `FoldedOnce` | `FoldInv`: live sessions are followed, those followed but evicted are skewed, those not followed start afresh |
| `Aggregator_proofs!OneVerdictPerTick` | `JudgedAlike` | itself: nothing observes for the bootstrap between the first yield and the next drain |
| `WatchSystem_proofs!TypeCorrect` | `TypeOK` | itself |
| `WatchSystem_proofs!NoForeignLines` | `FoldsStayApart` | `IInv`, see below |
| `WatchSystem_proofs!LinesCountedOnce` | `CountedOnce` | `IInv` |
| `WatchSystem_proofs!RowsAreLeft` | `IngestLeavesRows` | `IInv`; its step to the action property is about `IngestUpsert` and `IngestEnd` |
| `Calibration_proofs!ThresholdsAgree` | `ThresholdsInOrder` | `AllInOrder`: what any process holds or the file has is in order; the lemmas on `Derive` show that quantiles of one distribution are in the order of their ranks, and stay so when clamped |
| `Calibration_proofs!NothingForgotten` | `CalibrationContinues` | `FileIsKept` (a file that can be read has the last state written) and `HeldContinues` (what a process holds continues what it loaded or wrote last: a longer history, a calibration not undone) |
| `ErrorLog_proofs!FilesStaySmall` | `LogStaysSmall` | `RoomLeft`: the records of the active file and the writers about to append together are within the limit and one less than the writers; the archives are within it since they were the active file. It counts writers, hence they are finitely many |
| `ErrorLog_proofs!OldestGoFirst` | `LogLosesOldestOnly` | without an overlap, only one writer is within a rotation (`Alone`, with `Hole` the file that this one has moved away), and the records held are the latest, in order (`InOrder`); undisturbed, files fill from the newest on and all are full once a record is gone (`Filled`) |
| `ReportStore_proofs!ListingsAreWhole` | `ListedWhole` | `StillThere`: what was there when the reader began is there, or a later version; `Listing`: every row is of such a report, no two of one, and each report that there was has its row or is still to be read |
| `ReportStore_proofs!LookupsTell` | `LookupTells` | `LookingUp` with `StillThere`: of the files read, the one answer had so far is the only one that goes by the id |
| `Output_proofs!LoadsAreWhole` | `LoadsTheWindow` | `ReportInv`: each file is read once for a window (`EachOnce`), the rows of a window are those that its reads give (`RowsRead`), what was read of a file still there is a prefix of it and of what later reads saw (`Grown`), and each window but the last has read all files (`Covered`). That one read gives what lies in the window is a lemma over every sequence of lines |
| `Output_proofs!LongerWindowsHoldMore` | `WindowsNest` | `ReportInv`, of which `Grown` and `Covered`: the longer window is read after the shorter one, of files that have only grown, so it has each session of the shorter with no fewer events |
| `Output_proofs!PivotSplits` | `PivotPartitions` | `ReportInv`, of which `RowsRead`: the days of the rows loaded have a first and a last one, so `Before` and `OnOrAfter` ask for nothing but the side of the pivot |
| `Output_proofs!CellsStayHidden` | `SmallCellsHidden` | `ReportInv`: the result is that of the rows loaded. That no printed row and no mover tells of a cell under `MinCell` is shown of `Printed` and `Movers`, for any rows |
| `Output_proofs!HeadersTellApart` | `HeadersDiffer` | `LabelsTell`: the labels kept are injective; that `_build_label_map` makes them so is the lemma `LabelsDiffer`: prefixes of a length at which all ids differ, or whole ids with a number that no id ends in |
| `Output_proofs!LiveRowsWin` | `LiveProjectsAreLive` | itself, from the definition of a frame's rows |
| `Output_proofs!ScreenIsGivenBack` | `ScreenGivenBack` | `ScreenHeld`: the screen has been entered as often as it is held, once or not at all, and is not held where the loop has ended without a raise |
| `Session_proofs!ToldOnce` | `EachMessageOnce` | `ToldInv`: the ids told by this process are among `parser.seen`, and each event told bears the id of its line |
| `Session_proofs!BlindEditsAreUnread` | `BlindIsUnread` | `EventsInv` (what was told are events of known texts) with `RatioInv`: `lastSeen` has, of each path, the number of the last call that read or searched it (`SeenRight`), and `blind` counts the blind calls |
| `Session_proofs!BurstsAreWhole` | `MaxBurstIsLongest` | `EventsInv` with `LoopInv`: the burst is the run of matched messages that the session ends with (`TrailIs`), the greatest the longest of `Bursts` |
| `Session_proofs!WindowIsLatest` | `RatioOfTheWindow` | `RatioInv`, of which `WindowRight`: the window has the last categories of the calls, as many as fit, and as many of each as the counts say unless it shrank |
| `Session_proofs!RecentHits` | `RecentHitsAreLast` | `PhrasesInv`, with `EventsInv`: of all hits so far, in order, `recent` has the last that fit under the cap, `hits` is their number and the categories add up to it (`Took`). The hits of one message keep it (`HitFolds`), and so do the messages of a line (`PhraseFolds`) |
| `Session_proofs!ConfidenceForgets` | `ConfidenceIsRecent` | `ConfInv`, with `ToldInv`: `total` counts the lines of this process, and `outcomes` has of each of its last `Window` lines, found by its rank from the end (`After`), whether it was lost |
| `Session_proofs!TracesAreLeft` | `DriftLeavesATrace` | `DriftInv` = `ToldInv` and the types of the counters (`Stats`). That a line which tells nothing misses a field or is a duplicate is `QuietLinesMiss`, over every sequence of blocks; the counters are summed with `SumGrows` |
| `Session_proofs!TurnsCover` | `TurnsCoverTheSession` | `CoverInv`, with `ToldInv` and `GrouperInv`: where this process begins in what was told, and that the turns add up to the events from its first user message on (`Adds`). `Group` keeps it event by event (`GroupCovers`), and so does each line (`GroupsCover`) |
| `Session_proofs!TypeCorrect` | `TypeOK` | `TypeInv`: the invariants of this module, with `PartsInv`: of each category the counts have no fewer calls than the window, also after it shrank, so that no call leaving the window brings a count below 0, and no more mutations are blind than had a path (`Tallied`); lengths are kept only of thinking blocks that can be read (`MeasuredThinkings`); the open turn counts its user message besides its tools (`CountsTools`). A fold stays in a set that its step stays in (`FoldStays`) |

The strengthenings were checked by TLC before they were proved.

The invariant of `WatchSystem` is the longest. `IInv` has the types, `RowInv` (a
row is what an ingest leaves of its path: a fold of its lines, exact up to its
offset unless flawed), `JobInv` (what an ingest has read is of the file that was
there, and each file it is done with has its row), and for each path `PathInv`: `FileInv` (cursor,
seed and file agree), `SeedInv` (a row there since the seeds were read is no
further than the cursor) and `ContextInv` (the fold of a live session holds the
lines up to the cursor once, or a flaw says why it does not). `CountedOnce` alone
is not inductive: a session is made from a row, whose fold has to be exact up to
the offset of a seed that was read at another time, and an ingest may have
written the row between the two.

Assumptions on the constants, all evaluated by TLC in every run:

- the newline is a byte, chunks are not empty, paths and sessions are finitely
  many, and paths are numbered, which is their sorting order;
- `StaleAfter < EvictAfter` (refused otherwise by `config.py:836`), the
  calibration's target is positive, the quantiles' metrics are naturals, and the
  caps are pairs of naturals or none;
- no watched root has the legacy root's name, and two files of one root have
  different names (`ProcessedStore`; two files of one name in one root share a row,
  section 5);
- the databases at first are empty, or hold rows that an ingest may have left
  (`StoresAssumption`); the stored reports at first bear the id they are filed
  under (`EarlierAssumption`), as `write_report` names them;
- the log has finitely many writers; ids are sequences, and no two sessions
  share both root and id (`Screen`);
- the instants of `Reports` begin after the first day, so that 0 stands for none;
  the window of a day is shorter than the two others, which are in order; a
  command has one of the modes and its arguments (`ReportsAssumption`);
- the blocks of a line are a sequence, its body is of one of three forms, and
  the tables of phrases know its texts (`LinesAssumption`); a line without a type
  is told from each known type, and the lack of an event from each event
  (`ParserAssumption`); window sizes are positive (`SizesAssumption`,
  `config.py:756`), the health window is too and its threshold is a share of
  naturals (`HealthAssumption`, `config.py:760`); thresholds, the window of blind edits and the hits of a text
  are naturals (`CollectorsAssumption`).

`SavedPointsAdvance` makes an exception of a seed whose file vanished or could not be
read as its first bytes were to be compared ("refused"), and was there again at the
close: such a file is read from the start. It has a hypothesis besides: there are no more than `MaxFiles`
paths. It is needed. A path that the walk leaves out is DELETEd, and found again
with a cursor at offset 0 when another path goes; if it then is replaced before it
is opened, the close writes offset 0 for an inode whose saved offset was greater. TLC
finds this with two paths and `MaxFiles = 1`.

`Session` folds the events of a line into its collectors with `FoldLeft`. The
library defines it by a recursive function on the subsets of a sequence's
domain, and the prover has no induction over such functions. The proofs use
induction over a set of numbers (`Induction`, from the well-foundedness of `<`)
to show that a function obeying the recursion exists (`FoldExists`), that it is
the one chosen (`FoldSteps`), and that what each step keeps the fold keeps
(`FoldKeeps`); a lemma per collector then says what one event does.
`MaxBurstIsLongest` promises a match behind every severity but OK for positive
thresholds only: with a threshold of 0, which the configuration lets through,
the collector warns of no matches at all. `ConfidenceIsRecent` likewise has
`CRITICAL` for a lost file only where `critical_threshold` is above 0: no
confidence is below 0.

Every invariant and action property of a passing run is stated by one of these
theorems. Only model-checked are `EventuallyRead` and `EventuallyEvicted`
(liveness, out of the prover's reach). Where `Calibration`, `ErrorLog`,
`ReportStore` and `Cohort` need a sorted sequence or a least element they say
what it is, instead, and the parts of a frame for which `Screen` sorts are in no
theorem. `LoadsTheWindow` promises completeness only for files whose events are
dated and in order: the loader dates an event without a timestamp when it parses
it, after the command has looked at the clock, and takes it for one past the
window.

## 5. Known limits of the code, as the models show them

Each violated run of section 3 is a `finding` of `PROJECT.json`. Besides:

Resuming.

- A session evicted for silence and written to again is made anew, from the
  stored state, while the source goes on from a later offset (`EvictDue` leaves
  `followed` alone, although `docs/design.md:505` has the cursor closed): events
  are missing from its collectors. `skewed`, in `WatchSystem` "evicted", marks it.
- A resume point that is refused (a replaced file) does not keep the stored
  collector state from being restored: events are counted twice.
- Ingest records the size it has from `stat`, and folds what it reads later; it
  also folds a last line that is not complete yet, and splits lines at U+2028
  and its like. The watch that resumes repeats the lines in between, or is given
  the rest of a torn one ("raced", "torn").
- After the migration from schema 1 the rows have keys under the legacy root:
  their seeds resume the files, and the collectors find no state ("legacy").
- Only `ingest.py:310` writes rows; watch writes none, although `README.md:127`
  has every finalised session write one. Two files of one name in one root share
  a row and are ingested again each time.
- `processed_store.py:33-36` says that ingest and watch are never run concurrently
  against one database. Nothing enforces it, and `WatchSystem` lets them: lines whose
  row an ingest writes after the watch has read its seeds are folded again ("ingested").
- An `OSError` out of `poll()` loses the events it had gathered (`watcher_raise`); with a
  cursor cache the next run does not see them again.
- A `_seed_matches_file` that cannot read its file refuses the seed for good: the
  file is told again from its start (`Check`, "refused").
- The parser's message ids are not kept: what was told before a restart is told
  again when it is repeated. A `read_edit_ratio` restored into a smaller window
  keeps counts of calls it no longer has (`shrunk`).
- `flush_cursor_cache` fingerprints whatever the path names at close, and writes
  no seed that no poll has consulted (`Close`, `CachedCursorOf`); a file
  truncated and regrown beyond its old size between two polls is taken for an
  append (`Follow`). The command line does not use this cache.
- ROTATE and TRUNCATE replay into collectors that keep their state, deliberately
  (`aggregator.py:430-436`).

Judging.

- A session counts towards the calibration each time it is evicted. Two watches
  overwrite each other's calibration; a crash within `save` resets it. Derived
  thresholds are computed but not read by any collector.
- Where few mutations have a path, `docs/configuration.md:86`, `docs/design.md:311`
  and `read_edit_ratio.py:97-100` have the severity of `read_edit_ratio` clamped to OK,
  which the code does not do; a session with research and mutations but no read is
  CRITICAL. `Collectors` leaves that severity out.
- `docs/design.md:429-432` has each missing field lower the parse confidence, over
  50 events, and shown; in the code the confidence is that of the last 200 lines
  (`parser.py:188`), judged once 50 were seen (`docs/configuration.md:76` and
  `docs/collectors.md:258` speak of a 50-line window), and a line whose blocks are all
  missing counts as parsed (`parser.py:597`, against `parser.py:182-185` and 246-248).
  The missing fields are shown only when CRITICAL (`parse_health.py:83`).
  `ConfidenceIsRecent` and `DriftLeavesATrace` state what the code does.
- After a restore the total that arms the verdict is kept and the window of outcomes
  is not, so that the first lines may be judged by themselves.
- `docs/design.md:394` defines `max_burst` as the highest count in one message, the
  code and `docs/collectors.md:177` as the longest run of messages.
- `Turn.ended_at` is the time of the event that closes the turn
  (`turns.py:109`), where its description speaks of the last event in it; with events
  out of order, or dated when they are parsed for want of a timestamp, a turn may end
  before it starts. `Turns` leaves the times out.
- STALE sessions are yielded to the renderers (`BeginYield`), although
  `docs/design.md:505` says otherwise. An APPEND without a dated event leaves a STALE
  session STALE, and does not keep it from being evicted (`aggregator.py:648-659`),
  although `docs/design.md:507` has any APPEND return it to ACTIVE.
- The cohort size in a report is that of the tick before (`docs/design.md:874`); the
  models keep cohort size and churn out.

Reading.

- `report` exits with 2 for a low parse confidence in single-period mode only
  (`docs/cli.md:382`). `--group-by` takes a malformed `--from` or `--to` for one
  that was not given. The comparison table prints means and differences of
  periods with fewer than five sessions, and CSV and JSON do too
  (`docs/design.md:916`); `SmallCellsHidden` is about the trend table.
- The loader stops at the first event past the window; in a file out of order it
  may miss later ones (`Chronologic`).
- One stored file with a malformed date (`store.py:123-126`), that is no JSON object or
  no UTF-8, ends a listing, or a look-up that comes by it (`Raises`, "aborted"),
  although `store.py:412-413` has unreadable files skipped. A look-up by an id whose very file is unreadable finds nothing, though another
  record has the id.
- `--to` ends at 23:59:59 (`cli.py:1699-1700`): events of the last second of a day are
  dropped but for its beginning. `Reports` does not tell instants within a second apart.
- A rotation that two processes make at a time loses newer records or raises
  ("overlap"); `errors.py:95` excludes it.
- A resumed session's project goes by its hash until a system event comes, while
  the store has its name: two rows for one project. Two projects that share a name
  share a row. When `aggregator.close()`
  raises, the terminal stays in the alternate screen (`ScreenCloseRaises`).

## 6. Not modelled, and the plan

Left out for good: rendering and wording, argument parsing, `config check` and
`export`, the heatmap and the diff of two reports, the classifier (a table of counts,
one of regular expressions and a majority), the regular expressions of the phrase collectors, the import gate of `privacy.py`, the
registry, the JSON renderer and the progress display: formatting, data without
control, or one write. Configuration is resolved once, in sequence, by
independent checks; only the one between two thresholds matters to another
module and is an assumption there. Deviations, t-tests and correlation
coefficients are real arithmetic, out of TLC's reach; which cells and pairs they
are computed for is in `Cohort`. Of `cli.py`'s error paths, those that print and
return before anything is read are one guard (`RefusedArgs`).

What is next, in this order:

1. `OSError` from `bootstrap.save()` within an eviction (`aggregator.py:909`), with
   the proofs of `Aggregator`.
2. The error footer and the baseline of the terminal renderer.
