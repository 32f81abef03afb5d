----------------------------- MODULE Aggregator -----------------------------
(***************************************************************************)
(* codevigil/aggregator.py: SessionAggregator, the consumer of a Source.   *)
(* One thread calls tick() again and again; each tick drains the source's  *)
(* events, runs the lifecycle pass, evicts, and yields a snapshot of every *)
(* live session.  Time passes and the source speaks independently of it.   *)
(*                                                                         *)
(* Time is kept per session as its silence, clock() - last_monotonic, which *)
(* nothing tells apart beyond EvictAfter.  A collector is its fold of the  *)
(* events it ingested; what the properties need of it is how many.         *)
(***************************************************************************)
EXTENDS Naturals, FiniteSets

CONSTANTS
  Sessions,      \* session keys
  Collectors,    \* the user collectors; parse_health is modelled beside them
  StaleAfter, EvictAfter,   \* seconds of silence
  Target,        \* bootstrap.sessions
  Persist,       \* storage.enable_persistence
  None,          \* no context, no snapshot, no report
  MaxStored,     \* bound: events of a session the ingest store knows of
  MaxSaid        \* bound: events of the source

\* config.py:836 refuses an eviction that does not come after staleness.
ASSUME ThresholdsAssumption ==
  StaleAfter \in Nat \ {0} /\ EvictAfter \in Nat /\ StaleAfter < EvictAfter
ASSUME TargetAssumption == Target \in Nat \ {0}
ASSUME AggregatorBounds ==
  Persist \in BOOLEAN /\ MaxStored \in Nat /\ MaxSaid \in Nat
ASSUME SessionsAssumption == IsFiniteSet(Sessions)

\* A _SessionContext, and what a tick yields of one.
Context ==
  [state : {"ACTIVE", "STALE"}, silence : 0 .. EvictAfter, count : Nat,
   folded : [Collectors -> Nat], snap : [Collectors -> Nat \cup {None}],
   snapped : BOOLEAN, drift : BOOLEAN, bound : BOOLEAN, failed : SUBSET Collectors]
Yielded ==
  [state : {"ACTIVE", "STALE"}, pinned : BOOLEAN, critical : BOOLEAN, drift : BOOLEAN]

ASSUME NoneAssumption == None \notin Context \cup Yielded

VARIABLES
  phase,     \* idle, or where tick() is: drain, evict, yield; or closing
  ctx,       \* the _sessions table: a context per live session, or None
  due,       \* sessions the running pass has still to handle
  shown,     \* what the last tick yielded of each session, or None
  report,    \* the session report on disk, or None; its folded is
             \* history: what was folded then
  boot,      \* the bootstrap state: sessions observed, and completed
             \* (completed from the start: no bootstrap is configured)
  stored,    \* events folded in the collector state of the ingest store
  followed,  \* sessions the source has introduced and not deleted
  told,      \* history: events of each session's file the source told, those
             \* before the point it resumed from included
  skewed,    \* history: sessions whose collectors, when they are made, do
             \* not start from the events before those the source will tell
  quiet,     \* history: of a live session, seconds since the latest activity that
             \* the source told of: the last write of its file when it was
             \* found, its making again by an APPEND, and the timestamps of its events
  spoken,    \* sessions that the poll being drained has told of
  said       \* source events so far

vars == <<phase, ctx, due, shown, report, boot, stored,
          followed, told, skewed, quiet, spoken, said>>

Live == {s \in Sessions : ctx[s] # None}
Least2(a, b) == IF a <= b THEN a ELSE b

---------------------------------------------------------------------------
(* Session contexts                                                        *)

\* _ensure_session: collectors are built, parse_health is bound to the stats
\* of the new parser, and then the stored state is restored, if there is any,
\* but for the collectors R that it has nothing for or that refuse it.
\* restore_state gives parse_health stats of its own: bound ends.  failed is
\* history: the collectors that were not restored or have raised.
NewContext(s, age, R) ==
  [state |-> "ACTIVE", silence |-> age, count |-> 0,
   folded |-> [c \in Collectors |-> IF c \in R THEN 0 ELSE stored[s]],
   snap |-> [c \in Collectors |-> None], snapped |-> FALSE,
   drift |-> FALSE, bound |-> stored[s] = 0, failed |-> R]

Unrestored(s) == IF stored[s] = 0 THEN {{}} ELSE SUBSET Collectors

Ensured(s, age, R) == IF ctx[s] = None THEN NewContext(s, age, R) ELSE ctx[s]

\* Mutant: a collector that raises ends the loop over the collectors.
FoldedUnlessAnyRaises(folded, F) ==
  IF F = {} THEN [k \in Collectors |-> folded[k] + 1] ELSE folded

\* _fan_out_event: every collector folds the event but those in F, which raise.
FannedOut(folded, F) ==
  [k \in Collectors |-> IF k \in F THEN folded[k] ELSE folded[k] + 1]

\* Mutant: the silence is that of the event read last.
SilenceOfTheLast(c, age, resolved) == IF resolved THEN age ELSE c.silence

SilenceAfter(c, age, resolved) ==
  IF resolved THEN Least2(c.silence, age) ELSE c.silence

Awake(c, resolved) == IF resolved THEN "ACTIVE" ELSE c.state

\* _ingest_line of a line that yields an event: its age by its own timestamp,
\* if it has one, may shorten the silence and ends staleness.  drift is the
\* verdict of the parser's stats: its window is full and its parse confidence
\* too low.
Ingested(c, age, resolved, F, drift) ==
  [c EXCEPT
     !.count = @ + 1,
     !.silence = SilenceAfter(c, age, resolved),
     !.state = Awake(c, resolved),
     !.folded = FannedOut(@, F),
     !.failed = @ \cup F,
     !.drift = drift]

\* _observe_for_bootstrap: a session with no snapshots does not count.
Observed(b, snap) ==
  IF b.done \/ \A c \in Collectors : snap[c] = None
  THEN b
  ELSE [observed |-> b.observed + 1, done |-> b.observed + 1 >= Target]

---------------------------------------------------------------------------
(* The events of one poll, which tick() drains.  What they say of a session  *)
(* follows SessionFeed, and within one poll a session is either read or      *)
(* DELETEd: a path is DELETEd only if the walk has not listed it             *)
(* (watcher.py:361-378).                                                     *)

Say(s) ==
  /\ phase = "drain"
  /\ said < MaxSaid
  /\ said' = said + 1
  /\ spoken' = spoken \cup {s}

\* NEW_SESSION of a file last written age ago, resumed after the events the
\* store knows of, or from its start.
NewSession(s, age, resumed) ==
  /\ Say(s)
  /\ s \notin followed \cup spoken
  /\ followed' = followed \cup {s}
  /\ \E R \in Unrestored(s) : ctx' = [ctx EXCEPT ![s] = Ensured(s, age, R)]
  /\ told' = [told EXCEPT ![s] = IF resumed THEN stored[s] ELSE 0]
  /\ quiet' = [quiet EXCEPT ![s] = age]
  /\ skewed' = IF resumed \/ stored[s] = 0 THEN skewed \ {s} ELSE skewed \cup {s}
  /\ UNCHANGED <<phase, due, shown, report, boot, stored>>

\* APPEND of a line with an event.  A session evicted since is made anew.
Event(s, age, resolved, F) ==
  /\ Say(s)
  /\ s \in followed
  /\ \E drift \in BOOLEAN, R \in Unrestored(s) :
       ctx' = [ctx EXCEPT ![s] = Ingested(Ensured(s, 0, R), age, resolved, F, drift)]
  /\ told' = [told EXCEPT ![s] = @ + 1]
  /\ quiet' = [quiet EXCEPT ![s] = IF resolved THEN Least2(@, age) ELSE @]
  /\ UNCHANGED <<phase, due, shown, report, boot, stored,
                 followed, skewed>>

\* APPEND of a line without one: malformed, or of no interest.
NoEvent(s) ==
  /\ Say(s)
  /\ s \in followed
  /\ \E drift \in BOOLEAN, R \in Unrestored(s) :
       ctx' = [ctx EXCEPT ![s] = [Ensured(s, 0, R) EXCEPT !.drift = drift]]
  /\ UNCHANGED <<phase, due, shown, report, boot, stored,
                 followed, told, skewed, quiet>>

---------------------------------------------------------------------------
(* Eviction                                                                *)

\* _write_session_report: the snapshots are those of the last tick.
Report(s) ==
  [count |-> ctx[s].count, metrics |-> ctx[s].snap, folded |-> ctx[s].folded]

\* Snapped: there is a snapshot, that of parse_health at least.
WorthReporting(s) == ctx[s].count > 0 \/ ctx[s].snapped

\* Mutant: the session stays in the table.
EvictInPlace(s) ==
  /\ boot' = Observed(boot, ctx[s].snap)
  /\ UNCHANGED <<ctx, report, quiet>>

\* _evict_session.  A report that cannot be written is logged and given up.
Evict(s) ==
  /\ ctx' = [ctx EXCEPT ![s] = None]
  /\ quiet' = [quiet EXCEPT ![s] = 0]
  /\ boot' = Observed(boot, ctx[s].snap)
  /\ \/ UNCHANGED report
     \/ /\ Persist /\ WorthReporting(s)
        /\ report' = [report EXCEPT ![s] = Report(s)]

\* DELETE
DeleteSession(s) ==
  /\ Say(s)
  /\ s \in followed \ spoken
  /\ followed' = followed \ {s}
  /\ IF s \in Live THEN Evict(s) ELSE UNCHANGED <<ctx, boot, report, quiet>>
  /\ skewed' = skewed \ {s}
  /\ UNCHANGED <<phase, due, shown, stored, told>>

---------------------------------------------------------------------------
(* tick()                                                                  *)

BeginTick ==
  /\ phase = "idle"
  /\ phase' = "drain"
  /\ UNCHANGED <<ctx, due, shown, report, boot, stored, followed, told, skewed,
                 quiet, spoken, said>>

\* Mutant: a session without events is never evicted.
OverdueIfCounted ==
  {s \in Live : ctx[s].silence >= EvictAfter /\ ctx[s].count > 0}

Overdue == {s \in Live : ctx[s].silence >= EvictAfter}

\* _run_lifecycle_pass, up to the evictions: the clock is read once.
Lifecycle ==
  /\ phase = "drain"
  /\ phase' = "evict"
  /\ due' = Overdue
  /\ spoken' = {}
  /\ ctx' = [s \in Sessions |->
               IF s \in Live \ Overdue /\ ctx[s].silence >= StaleAfter
               THEN [ctx[s] EXCEPT !.state = "STALE"] ELSE ctx[s]]
  /\ UNCHANGED <<shown, report, boot, stored, followed, told, skewed, quiet,
                 said>>

\* Mutants: an eviction that is not ticked off, and one that may wait until
\* other sessions have been shown.
EvictDueAgain(s) ==
  /\ phase = "evict" /\ s \in due
  /\ Evict(s)
  /\ skewed' = skewed \cup {s}
  /\ UNCHANGED <<phase, due, shown, stored, followed, told, spoken, said>>
EvictDueLate(s) ==
  /\ phase \in {"evict", "yield"} /\ s \in due
  /\ due' = due \ {s}
  /\ Evict(s)
  /\ skewed' = skewed \cup {s}
  /\ UNCHANGED <<phase, shown, stored, followed, told, spoken, said>>

\* The evictions, in any order (in the code: that of the table).
EvictDue(s) ==
  /\ phase = "evict" /\ s \in due
  /\ due' = due \ {s}
  /\ Evict(s)
  /\ skewed' = skewed \cup {s}
  /\ UNCHANGED <<phase, shown, stored, followed, told, spoken, said>>

BeginYield ==
  /\ phase = "evict" /\ due = {}
  /\ phase' = "yield"
  /\ due' = Live
  /\ shown' = [s \in Sessions |-> None]
  /\ UNCHANGED <<ctx, report, boot, stored, followed, told, skewed, quiet,
                 spoken, said>>

\* Snapshots of every collector but those in F, which raise.  last_snapshots
\* keeps their former one.
Snapped(s, F) ==
  [c \in Collectors |-> IF c \in F THEN ctx[s].snap[c] ELSE ctx[s].folded[c]]

\* _snapshot_session and _build_meta of one live session.  pinned: while the
\* bootstrap is active the severity of every user collector is shown as OK.
\* parse_health reads the stats it is bound to; drift is what those of the
\* parser say.
Yield(s, F) ==
  /\ phase = "yield" /\ s \in due
  /\ due' = due \ {s}
  /\ ctx' = [ctx EXCEPT ![s].snap = Snapped(s, F), ![s].snapped = TRUE]
  /\ shown' = [shown EXCEPT ![s] =
                 [state |-> ctx[s].state, pinned |-> ~ boot.done,
                  critical |-> ctx[s].bound /\ ctx[s].drift,
                  drift |-> ctx[s].drift]]
  /\ UNCHANGED <<phase, report, boot, stored, followed, told, skewed, quiet,
                 spoken, said>>

EndTick ==
  /\ phase = "yield" /\ due = {}
  /\ phase' = "idle"
  /\ UNCHANGED <<ctx, due, shown, report, boot, stored, followed, told, skewed,
                 quiet, spoken, said>>

\* close(), between ticks: live sessions are observed one after another, after
\* a last snapshot while the bootstrap is active; no report is written.
BeginClose ==
  /\ phase = "idle"
  /\ phase' = "closing"
  /\ due' = Live
  /\ followed' = {}
  /\ UNCHANGED <<ctx, shown, report, boot, stored, told, skewed, quiet, spoken,
                 said>>

CloseSession(s, F) ==
  /\ phase = "closing" /\ s \in due
  /\ due' = due \ {s}
  /\ boot' = Observed(boot, IF boot.done THEN ctx[s].snap ELSE Snapped(s, F))
  /\ ctx' = [ctx EXCEPT ![s] = None]
  /\ quiet' = [quiet EXCEPT ![s] = 0]
  /\ UNCHANGED <<phase, shown, report, stored, followed, told, skewed, spoken,
                 said>>

\* Nothing the model distinguishes happens between two ticks of the clock.
Advance ==
  /\ \E s \in Live : ctx[s].silence < EvictAfter
  /\ ctx' = [s \in Sessions |->
               IF s \in Live
               THEN [ctx[s] EXCEPT !.silence = Least2(@ + 1, EvictAfter)]
               ELSE None]
  /\ quiet' = [s \in Sessions |->
                 IF s \in Live THEN Least2(quiet[s] + 1, EvictAfter) ELSE quiet[s]]
  /\ UNCHANGED <<phase, due, shown, report, boot, stored, followed, told,
                 skewed, spoken, said>>

---------------------------------------------------------------------------
Init ==
  /\ phase = "idle"
  /\ ctx = [s \in Sessions |-> None]
  /\ due = {}
  /\ shown = [s \in Sessions |-> None]
  /\ report = [s \in Sessions |-> None]
  /\ boot \in [observed : 0 .. Target, done : BOOLEAN]
  /\ stored \in [Sessions -> 0 .. MaxStored]
  /\ followed = {} /\ skewed = {} /\ spoken = {}
  /\ told = [s \in Sessions |-> 0]
  /\ quiet = [s \in Sessions |-> 0]
  /\ said = 0

SourceStep ==
  \E s \in Sessions :
    \/ \E age \in 0 .. EvictAfter, resumed \in BOOLEAN :
         NewSession(s, age, resumed)
    \/ \E age \in 0 .. EvictAfter, resolved \in BOOLEAN, F \in SUBSET Collectors :
         Event(s, age, resolved, F)
    \/ NoEvent(s)
    \/ DeleteSession(s)

TickStep ==
  \/ BeginTick \/ Lifecycle \/ BeginYield \/ EndTick
  \/ \E s \in Sessions :
       EvictDue(s) \/ \E F \in SUBSET Collectors : Yield(s, F)

CloseStep ==
  BeginClose \/ \E s \in Sessions, F \in SUBSET Collectors : CloseSession(s, F)

Next == SourceStep \/ TickStep \/ CloseStep \/ Advance

Spec == Init /\ [][Next]_vars

\* The watch loop ticks for as long as it runs, the clock goes on, and close()
\* runs to its end.
Fairness ==
  /\ WF_vars(TickStep) /\ WF_vars(Advance)
  /\ WF_vars(\E s \in Sessions, F \in SUBSET Collectors : CloseSession(s, F))

---------------------------------------------------------------------------
(* Properties                                                              *)

TypeOK ==
  /\ phase \in {"idle", "drain", "evict", "yield", "closing"}
  /\ ctx \in [Sessions -> Context \cup {None}]
  /\ due \subseteq Live
  /\ phase \in {"idle", "drain"} => due = {}
  /\ shown \in [Sessions -> Yielded \cup {None}]
  /\ boot \in [observed : Nat, done : BOOLEAN]
  /\ stored \in [Sessions -> Nat]
  /\ followed \subseteq Sessions /\ skewed \subseteq Sessions
  /\ told \in [Sessions -> Nat]
  /\ quiet \in [Sessions -> 0 .. EvictAfter]
  /\ spoken \subseteq Sessions
  /\ said \in 0 .. MaxSaid

\* A lifecycle pass judges each session by its latest activity, in whatever order
\* old events are replayed among live ones, and through STALE and back: it is
\* evicted, STALE or ACTIVE exactly as that was EvictAfter, StaleAfter or less ago.
\* An event without a timestamp of its own, or a line without an event, is no
\* activity and leaves a STALE session STALE (aggregator.py:648-659), although
\* docs/design.md:507 says that any APPEND returns it to ACTIVE.
StatesFollowActivity ==
  [][Lifecycle =>
       \A s \in Live :
         /\ s \in due' <=> quiet[s] >= EvictAfter
         /\ s \notin due' => (ctx'[s].state = "STALE" <=> quiet[s] >= StaleAfter)]_vars

\* Every event the source tells of a session is folded exactly once by every
\* collector that never raised, whatever the other collectors did, through
\* STALE and back, on top of the state restored to it, as long as that state
\* ends where the source began.
FoldedOnce ==
  \A s \in Live \ skewed : \A c \in Collectors \ ctx[s].failed :
    ctx[s].folded[c] = told[s]

\* There is no live session that the source does not follow: whatever the
\* order of evictions, deletions and re-creations, DELETE is the last word.
LiveIsFollowed == phase # "closing" => Live \subseteq followed

\* A tick judges its sessions alike: if the evictions of a tick close the
\* bootstrap window, every session it shows is judged by the result, and the
\* severities it shows are never half pinned and half not.
JudgedAlike ==
  phase \in {"yield", "idle"} =>
    \A s \in Sessions : shown[s] # None => shown[s].pinned = ~ boot.done

\* Once the source has fallen silent (after MaxSaid events) every session is
\* evicted in the end, or closed.
EventuallyEvicted == <>[](Live = {})

\* docs/design.md:872: a report has the metrics "at eviction time", those of
\* all the events it counts.
ReportIsFinal ==
  \A s \in Sessions : report[s] # None =>
    \A c \in Collectors : report[s].metrics[c] = report[s].folded[c]

\* docs/design.md:870: a report counts "total events processed by the aggregator
\* for this session", so that a later report of a session counts no fewer.
ReportCountsAll ==
  [][\A s \in Sessions :
       report[s] # None /\ report'[s] # None => report'[s].count >= report[s].count]_vars

\* docs/collectors.md:258: parse_health reads the stats of the parser, and
\* turns CRITICAL when parse confidence is too low.
HealthFollowsParser ==
  \A s \in Sessions : shown[s] # None => (shown[s].drift => shown[s].critical)
=============================================================================
