------------------------------- MODULE Reports -------------------------------
(***************************************************************************)
(* `codevigil report': the ways cli.py loads the session files under a     *)
(* path, with report/loader.py or file by file, while the agents go on     *)
(* writing to them, and what it reports of them.                           *)
(*                                                                         *)
(* A file is a sequence of lines [at, kind]: `at' is the instant of the    *)
(* line's timestamp, Undated if it has none; kind "think" is an event of   *)
(* the thinking collector, "plain" any other one, "junk" a line that is no *)
(* JSON.                                                                   *)
(***************************************************************************)
EXTENDS Cohort

CONSTANTS
  Files,      \* the session files: numbers, in the order of their paths
  Disks,      \* what the files may hold when the command starts
  Appended,   \* the lines an agent may add, those of the present apart
  Commands,   \* the command lines tried
  Spans,      \* the lengths of the windows "7d" and "30d", in instants
  Beginning,  \* the first instant
  MaxClock,   \* bound on the instants
  MaxChanges  \* bound on what the agents do while it runs

Undated == 0
NoBound == 0
\* A day that was not given is NoDate, and BadDate is no date.
BadDate == -1

\* Days and instants are numbered from 1 and from DayLength on, so that 0 is none;
\* the window of today is the shortest one.
ASSUME ReportsAssumption ==
  LET Line == {l \in [at : Nat, kind : {"think", "plain", "junk"}] : l.at = Undated \/ l.at >= DayLength}
  IN /\ Files \subseteq Nat
     /\ Disks \subseteq [Files -> Seq(Line)] /\ Appended \subseteq Line
     /\ Beginning \in Nat /\ Beginning >= DayLength
     /\ Spans[1] \in Nat /\ Spans[2] \in Nat /\ DayLength <= Spans[1] /\ Spans[1] < Spans[2]
     /\ \A c \in Commands :
          /\ c.mode \in {"conflict", "multi", "single", "group", "compare", "pivot"}
          /\ c.mode \in {"group", "single"} => c.from \in Nat \cup {BadDate} /\ c.to \in Nat \cup {BadDate}
          /\ c.mode = "pivot" => c.day \in (Nat \ {0}) \cup {BadDate}

VARIABLES
  disk,   \* each session file: its lines
  there,  \* the files that have not been removed
  clock,  \* the instant
  changes, \* what the agents did while the command ran
  cmd     \* the report command

reportVars == <<disk, there, clock, changes, cmd>>

Lines(f) == IF f \in there THEN disk[f] ELSE <<>>

-----------------------------------------------------------------------------
(* The loader.                                                             *)

\* SessionParser.parse: junk gives no event, and an event without a timestamp
\* is dated when it is parsed, which is after the command looked at the clock.
EventsOf(lines) == {k \in DOMAIN lines : lines[k].kind # "junk"}
TimeOf(l) == IF l.at = Undated THEN clock ELSE l.at

\* _event_in_window and _event_after.
InWindow(t, lo, hi) == (lo # NoBound => t >= lo) /\ (hi # NoBound => t <= hi)
IsAfter(t, hi) == hi # NoBound /\ t > hi

\* Mutant: any event outside the window ends the reading.
UpToTheFirstOutside(lines, lo, hi) ==
  {k \in EventsOf(lines) : \A j \in EventsOf(lines) : j <= k => InWindow(TimeOf(lines[j]), lo, hi)}

\* _ingest_events reads up to the first event past the window.
UpToTheEnd(lines, lo, hi) ==
  {k \in EventsOf(lines) : \A j \in EventsOf(lines) : j <= k => ~IsAfter(TimeOf(lines[j]), hi)}

Counted(lines, lo, hi) ==
  {k \in UpToTheEnd(lines, lo, hi) : InWindow(TimeOf(lines[k]), lo, hi)}

\* The snapshots, and the _inject_ functions: `events' stands for a collector
\* that always has a value, "thinking" for one whose signal may be absent and
\* is left out of the metrics then.
Thinks(lines, counted) == Cardinality({k \in counted : lines[k].kind = "think"})
MetricsIn(lines, counted) ==
  [m \in {"events"} \cup IF Thinks(lines, counted) = 0 THEN {} ELSE {"thinking"} |->
     IF m = "events" THEN Cardinality(counted) ELSE Thinks(lines, counted)]

\* build_report over the events counted.
RowFor(f, lines, counted) ==
  [file |-> f, start |-> TimeOf(lines[Min(counted)]), end |-> TimeOf(lines[Max(counted)]),
   count |-> Cardinality(counted), metrics |-> MetricsIn(lines, counted)]

\* _load_one: no row for a file that cannot be read or has no event in the
\* window.
LoadOne(f, lines, lo, hi) ==
  LET counted == Counted(lines, lo, hi)
  IN IF counted = {} THEN {} ELSE {RowFor(f, lines, counted)}

-----------------------------------------------------------------------------
(* The single-period path.                                                 *)

\* _peek_first_event_timestamp: that of the first line, if it has one.
Peek(f) == IF Lines(f) = <<>> \/ Lines(f)[1].kind = "junk" THEN Undated ELSE Lines(f)[1].at

\* _filter_by_date: a file goes by its first line; one that has no date stays.
KeptByDate(f, lo, hi) ==
  Peek(f) # Undated => InWindow(Peek(f), lo, hi)

\* _build_session_report: every event of the file counts, and a file that is
\* gone gives a report of nothing.  With as few lines as here one junk line
\* brings parse_confidence below 0.9.
WholeRow(f) ==
  [file |-> f, count |-> Cardinality(EventsOf(Lines(f))),
   drifts |-> \E k \in DOMAIN Lines(f) : Lines(f)[k].kind = "junk"]

-----------------------------------------------------------------------------
(* The arguments: a day, NoDate for none, or BadDate for what is no date.  *)

\* _parse_date_only, and _parse_date_filter at either end of the day, which is
\* 23:59:59: an instant here is a second or longer, and what is dated within the
\* last second of a day, of which the code drops all but the beginning, is not told apart.
DateOf(d)   == IF d = BadDate THEN NoDate ELSE d
FirstOf(d)  == IF DateOf(d) = NoDate THEN NoBound ELSE d * DayLength
LastInstant(d) == IF DateOf(d) = NoDate THEN NoBound ELSE d * DayLength + DayLength - 1

\* Mutant: the longest window is loaded first.
LongestFirst(now) ==
  << [lo |-> now - Spans[2], hi |-> now], [lo |-> now - Spans[1], hi |-> now],
     [lo |-> DayOf(now) * DayLength, hi |-> now] >>

\* _run_report_multi_period: today, 7d and 30d.
WindowsAt(now) ==
  << [lo |-> DayOf(now) * DayLength, hi |-> now], [lo |-> now - Spans[1], hi |-> now],
     [lo |-> now - Spans[2], hi |-> now] >>

\* The windows for which a command loads its files.
WindowsOf(c) ==
  CASE c.mode = "multi" -> WindowsAt(clock)
    [] c.mode \in {"group", "single"} -> <<[lo |-> FirstOf(c.from), hi |-> LastInstant(c.to)]>>
    [] c.mode \in {"compare", "pivot"} -> <<[lo |-> NoBound, hi |-> NoBound]>>

\* The command lines that are refused before a file is read: flags that exclude
\* each other, an output outside the home directory, a date that is none.  Only
\* --group-by takes such a --from or --to for one that was not given.
RefusedArgs(c) ==
  \/ c.mode = "conflict"
  \/ c.mode = "single" /\ BadDate \in {c.from, c.to}
  \/ c.mode = "pivot" /\ c.day = BadDate
  \/ c.mode = "compare" /\ BadDate \in {c.a[1], c.a[2], c.b[1], c.b[2]}

-----------------------------------------------------------------------------
ReportInit ==
  /\ disk \in Disks
  /\ there = Files
  /\ clock = Beginning
  /\ changes = 0
  /\ cmd = [pc |-> "idle"]

\* What the agents do matters while the command reads.
Running == cmd.pc \in {"filter", "load"} /\ changes < MaxChanges

\* An agent writes a line, of the present or one it held back.
AgentAppends(f) ==
  /\ f \in there /\ Running
  /\ \E l \in Appended \cup {[at |-> clock, kind |-> "plain"]} :
       disk' = [disk EXCEPT ![f] = Append(@, l)]
  /\ changes' = changes + 1
  /\ UNCHANGED <<there, clock, cmd>>

AgentRemoves(f) ==
  /\ f \in there /\ Running
  /\ there' = there \ {f}
  /\ changes' = changes + 1
  /\ UNCHANGED <<disk, clock, cmd>>

\* _run_report: the arguments are read, then the files under the path.
ReportStart(c) ==
  /\ cmd.pc = "idle"
  /\ clock < MaxClock
  /\ clock' = clock + 1
  /\ cmd' = IF RefusedArgs(c) THEN [pc |-> "done", args |-> c, exit |-> 2]
            ELSE [pc |-> IF c.mode = "single" THEN "filter" ELSE "load", args |-> c,
                  windows |-> WindowsOf(c), todo |-> there, files |-> there,
                  rows |-> <<{}>>, read |-> {}]
  /\ UNCHANGED <<disk, there, changes>>

\* _filter_by_date: the next file.
ReportFilter ==
  /\ cmd.pc = "filter" /\ cmd.todo # {}
  /\ LET f == Min(cmd.todo)  win == cmd.windows[1] IN
       cmd' = [cmd EXCEPT !.todo = @ \ {f},
                          !.files = IF KeptByDate(f, win.lo, win.hi) THEN @ ELSE @ \ {f}]
  /\ UNCHANGED <<disk, there, clock, changes>>

ReportFiltered ==
  /\ cmd.pc = "filter" /\ cmd.todo = {}
  /\ cmd' = [cmd EXCEPT !.pc = "load", !.todo = cmd.files]
  /\ UNCHANGED <<disk, there, clock, changes>>

\* load_reports_from_jsonl, or the loop of _run_report: the next file.  What was
\* read of it is kept for the properties.
ReportLoad ==
  /\ cmd.pc = "load" /\ cmd.todo # {}
  /\ LET f == Min(cmd.todo)
         win == cmd.windows[Len(cmd.rows)]
         new == IF cmd.args.mode = "single" THEN {WholeRow(f)} ELSE LoadOne(f, Lines(f), win.lo, win.hi)
     IN cmd' = [cmd EXCEPT !.todo = @ \ {f}, !.rows[Len(cmd.rows)] = @ \cup new,
                           !.read = @ \cup {[window |-> Len(cmd.rows), file |-> f, lines |-> Lines(f)]}]
  /\ UNCHANGED <<disk, there, clock, changes>>

\* load_reports_for_windows: the next window, over the same files.
ReportNextWindow ==
  /\ cmd.pc = "load" /\ cmd.todo = {} /\ Len(cmd.rows) < Len(cmd.windows)
  /\ cmd' = [cmd EXCEPT !.todo = cmd.files, !.rows = Append(@, {})]
  /\ UNCHANGED <<disk, there, clock, changes>>

\* Mutant: the day of the pivot is on both sides.
BeforeWithPivot(rows, day) == InPeriod(rows, Min({DayOf(r.start) : r \in rows}), day)

\* _run_report_pivot: the sessions before the day, and those from then on.
Before(rows, day) == InPeriod(rows, Min({DayOf(r.start) : r \in rows}), day - 1)
OnOrAfter(rows, day) == InPeriod(rows, day, Max({DayOf(r.start) : r \in rows}))

\* A pivot must have sessions on both sides.
PivotRefused(rows, day) ==
  rows = {} \/ (LET days == {DayOf(r.start) : r \in rows} IN day <= Min(days) \/ day > Max(days))

\* What is reported: of a cohort its cells as they are printed and the movers,
\* of two periods the metrics they share.
Result(c, rows) ==
  CASE c.mode = "group" ->
         LET cells == Reduce(InPeriod(rows, DateOf(c.from), DateOf(c.to)), c.dimension)
         IN [exit |-> 0, cells |-> cells, printed |-> Printed(cells, c.dimension),
             movers |-> Movers(cells, c.dimension),
             pairs |-> Correlated(InPeriod(rows, DateOf(c.from), DateOf(c.to)))]
    [] c.mode = "compare" ->
         LET compared == Compared(InPeriod(rows, c.a[1], c.a[2]), InPeriod(rows, c.b[1], c.b[2]))
         IN [exit |-> 0, compared |-> compared, movers |-> RankedMovers(compared)]
    [] c.mode = "pivot" ->
         IF PivotRefused(rows, c.day) THEN [exit |-> 2]
         ELSE LET compared == Compared(Before(rows, c.day), OnOrAfter(rows, c.day))
              IN [exit |-> 0, before |-> Before(rows, c.day), after |-> OnOrAfter(rows, c.day),
                  compared |-> compared, movers |-> RankedMovers(compared)]
    [] c.mode = "single" -> [exit |-> IF \E r \in rows : r.drifts THEN 2 ELSE 0]
    [] OTHER -> [exit |-> 0]

\* The report is rendered and written.
ReportFinish ==
  /\ cmd.pc = "load" /\ cmd.todo = {} /\ Len(cmd.rows) = Len(cmd.windows)
  /\ LET result == Result(cmd.args, cmd.rows[1]) IN
       cmd' = [pc |-> "done", args |-> cmd.args, exit |-> result.exit, result |-> result,
               windows |-> cmd.windows, rows |-> cmd.rows, read |-> cmd.read]
  /\ UNCHANGED <<disk, there, clock, changes>>

ReportNext ==
  \/ \E f \in Files : AgentAppends(f) \/ AgentRemoves(f)
  \/ \E c \in Commands : ReportStart(c)
  \/ ReportFilter \/ ReportFiltered
  \/ ReportLoad \/ ReportNextWindow \/ ReportFinish

ReportSpec == ReportInit /\ [][ReportNext]_reportVars

-----------------------------------------------------------------------------
Reported(mode) == cmd.pc = "done" /\ cmd.args.mode = mode /\ cmd.exit = 0

Chronologic(lines) ==
  /\ \A k \in DOMAIN lines : lines[k].kind # "junk" => lines[k].at # Undated
  /\ \A j, k \in DOMAIN lines :
       j < k /\ lines[j].kind # "junk" /\ lines[k].kind # "junk" => lines[j].at <= lines[k].at

\* Of a file whose events are dated and in order, as it was read, a window has
\* all the events that lie in it, wherever in the file they are, and of no file
\* an event that does not; nor does a session without any get a row
\* (loader.py:_ingest_events, _load_one).
LoadsTheWindow ==
  cmd.pc = "done" /\ cmd.args.mode \in {"multi", "group"} /\ cmd.exit = 0 =>
    \A x \in cmd.read :
      LET win    == cmd.windows[x.window]
          row    == {r \in cmd.rows[x.window] : r.file = x.file}
          inside == {k \in DOMAIN x.lines : x.lines[k].kind # "junk" /\ InWindow(x.lines[k].at, win.lo, win.hi)}
      IN /\ \A r \in row : InWindow(r.start, win.lo, win.hi) /\ InWindow(r.end, win.lo, win.hi)
         /\ Chronologic(x.lines) => /\ row = {} <=> inside = {}
                                    /\ \A r \in row : r.count = Cardinality(inside)

\* In one report a shorter window never has a session, or an event of one, that
\* a longer window lacks, though agents write to the files from one window to
\* the next, unless the file is removed in between
\* (cli.py:_run_report_multi_period, loader.py:load_reports_for_windows).
WindowsNest ==
  Reported("multi") =>
    \A v, w \in DOMAIN cmd.windows : cmd.windows[v].lo >= cmd.windows[w].lo =>
      \A r \in cmd.rows[v] :
        r.file \in there => \E q \in cmd.rows[w] : q.file = r.file /\ q.count >= r.count

\* Every session that was loaded is on one side of the pivot, and on one only,
\* and there is one on each (cli.py:_run_report_pivot, cohort.py:filter_by_period).
PivotPartitions ==
  Reported("pivot") =>
    /\ cmd.result.before \cup cmd.result.after = cmd.rows[1]
    /\ cmd.result.before \cap cmd.result.after = {}
    /\ cmd.result.before # {} /\ cmd.result.after # {}

\* The printed cohort table gives away the mean of no cell with fewer than the
\* required observations, neither as a cell nor as the row that another one is
\* printed with its difference from; nor do the movers
\* (renderer.py:_render_trend_table, cli.py:_compute_top_movers).
SmallCellsHidden ==
  Reported("group") =>
    \A shown \in {x.tells : x \in cmd.result.printed} \cup {x.tells : x \in cmd.result.movers} :
      \A c \in shown : c.n >= MinCell

\* What the documentation says of --from and --to: a row counts the events whose
\* timestamps lie within the dates, and the undated ones at most (docs/cli.md).
OnlyEventsInWindow ==
  Reported("single") =>
    \A x \in cmd.read : \A r \in cmd.rows[1] : r.file = x.file =>
      r.count <= Cardinality({k \in DOMAIN x.lines :
        /\ x.lines[k].kind # "junk"
        /\ \/ x.lines[k].at = Undated
           \/ InWindow(x.lines[k].at, cmd.windows[1].lo, cmd.windows[1].hi)})
=============================================================================
