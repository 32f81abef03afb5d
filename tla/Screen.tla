------------------------------- MODULE Screen -------------------------------
(***************************************************************************)
(* What `codevigil watch' shows: the loop of cli.py and the full-redraw    *)
(* renderer of renderers/terminal.py, with the project names of            *)
(* projects.py.  A tick of the aggregator is known here by the sessions it *)
(* yields, and the store by the project rows it returns.  No               *)
(* CodevigilError leaves a tick, so that the branch of _run_one_tick for   *)
(* one is not modelled; an OSError does leave it.                          *)
(***************************************************************************)
EXTENDS Integers, Sequences, FiniteSets, FiniteSetsExt, SequencesExt, Functions

CONSTANTS
  Sessions,      \* session keys: numbers, in their order
  IdOf,          \* the session id of each: a sequence of numbers
  RootOf,        \* its watch root
  ProjectOf,     \* its project hash: a number
  Directories,   \* names a project may be given: numbers from 1
  StoredRows,    \* what the store may hold: sets of rows [key, sessions, rank, at]
  MinPrefix,     \* _MIN_PREFIX
  DisplayLimit,  \* watch.display_limit
  ProjectLimit,  \* watch.display_project_limit
  MaxAt          \* bound on the time of a session's last event

ASSUME ScreenAssumption ==
  /\ Sessions \subseteq Nat /\ IsFiniteSet(Sessions) /\ MinPrefix \in Nat \ {0}
  /\ \A s \in Sessions : IdOf[s] \in Seq(Nat)
  /\ MaxAt \in Nat
  /\ DisplayLimit \in Nat /\ ProjectLimit \in Nat \ {0}
  /\ \A s, t \in Sessions : s # t => <<RootOf[s], IdOf[s]>> # <<RootOf[t], IdOf[t]>>

VARIABLES
  loop,      \* the watch loop: [pc, mode, tty, raised]
  names,     \* _user_overrides, _cwd_cache: the name each project was given, or 0
  labels,    \* _label_map: a function from the sessions of _label_fleet
  frame,     \* the frame of the last tick, NoFrame while the next one runs
  terminal   \* the terminal: [alt, entered], the screen it shows and how often
             \* the alternate one was entered without being left

screenVars == <<loop, names, labels, frame, terminal>>

NoFrame == [rows |-> {}]

-----------------------------------------------------------------------------
(* Order, in which 0 is critical, 1 a warning and 2 is fine.               *)

Precedes(a, b) ==
  \/ a.rank < b.rank
  \/ a.rank = b.rank /\ (a.at > b.at \/ (a.at = b.at /\ a.key < b.key))

UpTo(seq, n) == IF Len(seq) <= n THEN seq ELSE SubSeq(seq, 1, n)

\* end_tick and _build_project_rows: sorted, then cut at the limit.
Foremost(rows, n) == UpTo(SetToSortSeq(rows, Precedes), n)

-----------------------------------------------------------------------------
(* Labels of sessions.                                                     *)

Prefix(s, n) == UpTo(IdOf[s], n)

\* _build_label_map: the shortest prefixes that differ; where none do, those
\* that share an id are numbered.
LabelMap(fleet) ==
  LET longest == Max({Len(IdOf[s]) : s \in fleet})
      enough  == {n \in MinPrefix..longest : IsInjective([s \in fleet |-> Prefix(s, n)])}
      before(s) == {t \in fleet : t < s /\ IdOf[t] = IdOf[s]}
  IN IF fleet = {} THEN <<>>
     ELSE IF enough # {} THEN [s \in fleet |-> Prefix(s, Min(enough))]
     ELSE [s \in fleet |-> IF before(s) = {} THEN IdOf[s]
                           ELSE Append(IdOf[s], -Cardinality(before(s)))]

\* Mutant: the labels are those of the first fleet.
LabelsOnce(old, fleet) == IF old = <<>> THEN LabelMap(fleet) ELSE old

\* end_tick: the labels change when the fleet does.
LabelsFor(old, fleet) == IF DOMAIN old = fleet THEN old ELSE LabelMap(fleet)

\* _session_header_text.
LabelOf(map, s) == IF s \in DOMAIN map THEN map[s] ELSE Prefix(s, MinPrefix)

\* _should_show_root_labels.
ShowsRoots(fleet) ==
  \/ Cardinality({RootOf[s] : s \in fleet}) > 1
  \/ ~IsInjective([s \in fleet |-> IdOf[s]])

-----------------------------------------------------------------------------
(* Rows of projects.                                                       *)

\* ProjectRegistry.resolve: the name in the file of overrides, or of the first
\* working directory, which two projects may share; or else the hash, cut to
\* eight digits that are taken to differ.
NameOf(n, p) == IF n[p] # 0 THEN n[p] ELSE -p

\* _live_project_aggregates.
LiveRows(blocks) ==
  LET of(k) == {b \in blocks : b.project = k}
  IN {[key |-> k, sessions |-> Cardinality(of(k)), rank |-> Min({b.rank : b \in of(k)}),
       at |-> Max({b.at : b \in of(k)}), live |-> TRUE] : k \in {b.project : b \in blocks}}

\* iter_recent_project_aggregates.
RecentRows(stored) ==
  ToSet(UpTo(SetToSortSeq(stored, LAMBDA a, b : a.at > b.at), ProjectLimit))

\* Mutant: what the store knows of a project replaces the live row.
OverlayWins(live, stored) ==
  LET known == {[key |-> r.key, sessions |-> r.sessions, rank |-> r.rank, at |-> r.at,
                 live |-> FALSE] : r \in RecentRows(stored)}
  IN known \cup {r \in live : \A q \in known : q.key # r.key}

\* _overlay_store_projects: only projects that no live session has.
Overlay(live, stored) ==
  live \cup {[key |-> r.key, sessions |-> r.sessions, rank |-> r.rank, at |-> r.at,
              live |-> FALSE] : r \in {q \in RecentRows(stored) : \A l \in live : l.key # q.key}}

\* _build_body_renderables and _build_project_rows: a row for each session, or
\* for each project, those that are shown, and how many are not.
Body(mode, blocks, stored, header) ==
  LET rows  == IF mode = "session" THEN blocks ELSE Overlay(LiveRows(blocks), stored)
      shown == Foremost(rows, IF mode = "session" THEN DisplayLimit ELSE ProjectLimit)
  IN [blocks |-> blocks, rows |-> rows, shown |-> shown,
      omits |-> Cardinality(rows) - Len(shown), header |-> header]

-----------------------------------------------------------------------------
ScreenInit ==
  /\ loop \in [pc : {"watching"}, mode : {"session", "project"}, tty : BOOLEAN, raised : {FALSE}]
  /\ names \in [{ProjectOf[s] : s \in Sessions} -> Directories \cup {0}]
  /\ labels = <<>>
  /\ frame = NoFrame
  /\ terminal = [alt |-> FALSE, entered |-> 0]

\* observe_system_event: the first directory seen of a project is kept, and
\* an override, which is there from the beginning, stays.
NamesSeen ==
  {n \in [DOMAIN names -> Directories \cup {0}] :
     \A p \in DOMAIN names : names[p] # 0 => n[p] = names[p]}

\* Mutant: the alternate screen is entered with each frame.
EnteredEachTime(t) == [alt |-> TRUE, entered |-> t.entered + 1]

\* end_tick: the alternate screen is entered once.
Entered(t) == IF t.alt THEN t ELSE [alt |-> TRUE, entered |-> t.entered + 1]

\* _run_one_tick: begin_tick drops the blocks of the frame before.
ScreenBegin ==
  /\ loop.pc = "watching" /\ frame # NoFrame
  /\ frame' = NoFrame
  /\ UNCHANGED <<loop, names, labels, terminal>>

\* _run_one_tick: the sessions that the aggregator yielded are rendered, and
\* end_tick prints the frame.  A store that cannot be read has no rows.
ScreenTick ==
  /\ loop.pc = "watching" /\ frame = NoFrame
  /\ \E fleet \in SUBSET Sessions, stored \in StoredRows :
     \E rank \in [fleet -> 0..2], at \in [fleet -> 1..MaxAt], n \in NamesSeen :
       LET blocks == {[key |-> s, rank |-> rank[s], at |-> at[s],
                       project |-> NameOf(n, ProjectOf[s])] : s \in fleet}
       IN /\ names' = n
          /\ labels' = LabelsFor(labels, fleet)
          /\ frame' = Body(loop.mode, blocks, stored,
                           [s \in fleet |-> <<LabelOf(labels', s),
                              IF ShowsRoots(fleet) THEN RootOf[s] ELSE 0>>])
  /\ terminal' = IF loop.tty THEN Entered(terminal) ELSE terminal
  /\ UNCHANGED loop

\* The loop ends at SIGINT, looked for between ticks, or by an OSError of one.
ScreenStop ==
  /\ loop.pc = "watching"
  /\ loop' = [loop EXCEPT !.pc = "closing"]
  /\ UNCHANGED <<names, labels, frame, terminal>>

\* The finally clause: aggregator.close(), then renderer.close().
ScreenClose ==
  /\ loop.pc = "closing"
  /\ loop' = [loop EXCEPT !.pc = "ended"]
  /\ terminal' = IF terminal.alt THEN [alt |-> FALSE, entered |-> terminal.entered - 1] ELSE terminal
  /\ UNCHANGED <<names, labels, frame>>

\* aggregator.close() raises, and renderer.close() is not reached.
ScreenCloseRaises ==
  /\ loop.pc = "closing"
  /\ loop' = [loop EXCEPT !.pc = "ended", !.raised = TRUE]
  /\ UNCHANGED <<names, labels, frame, terminal>>

ScreenNext == ScreenBegin \/ ScreenTick \/ ScreenStop \/ ScreenClose \/ ScreenCloseRaises

ScreenSpec == ScreenInit /\ [][ScreenNext]_screenVars

-----------------------------------------------------------------------------
\* In a frame every session goes by a header of its own, however the fleet
\* changed since the frame before and whichever ids share a prefix, or are the
\* same under two roots (terminal.py:end_tick, _build_label_map).
HeadersDiffer ==
  frame # NoFrame => IsInjective(frame.header)

\* A project with live sessions has one row, of all its sessions and as bad as
\* the worst of them, whatever the store has of it; and the store adds no row
\* for a project that is live under the same name
\* (terminal.py:_live_project_aggregates, _overlay_store_projects).
LiveProjectsAreLive ==
  frame # NoFrame /\ loop.mode = "project" =>
    \A b \in frame.blocks :
      LET mine == {r \in frame.rows : r.key = b.project} IN
      /\ Cardinality(mine) = 1
      /\ \A r \in mine : /\ r.live /\ r.rank <= b.rank /\ r.at >= b.at
                         /\ r.sessions = Cardinality({c \in frame.blocks : c.project = r.key})

\* However the loop ends, the screen of the shell is given back, and the
\* alternate one was entered at most once, unless aggregator.close() raised
\* (terminal.py:close, cli.py:_run_watch).
ScreenGivenBack ==
  /\ terminal.entered <= 1
  /\ loop.pc = "ended" /\ ~loop.raised => ~terminal.alt /\ terminal.entered = 0
=============================================================================
