------------------------------- MODULE Cohort -------------------------------
(***************************************************************************)
(* The reductions that the cohort reports make over loaded sessions:       *)
(* analysis/cohort.py, compare.py, correlations.py and guards.py, with the *)
(* tables that report/renderer.py and cli.py print of them.  A row is      *)
(* [file, start, metrics], `metrics' a function from the metrics that the  *)
(* session has to integers.  A mean stays a sum and a number.              *)
(***************************************************************************)
EXTENDS Integers, Sequences, FiniteSets, FiniteSetsExt, Functions

CONSTANTS
  DayLength,   \* instants in a day
  WeekLength,  \* days in a week
  MinCell,     \* MIN_CELL_N, the observations a printed cell needs
  MinPairs     \* MIN_PAIRS, those a correlation needs

ASSUME CohortAssumption ==
  /\ DayLength \in Nat \ {0} /\ WeekLength \in Nat \ {0}
  /\ MinCell \in Nat \ {0} /\ MinPairs \in Nat \ {0}

Dimensions == {"day", "week", "project", "model"}
Chronological == {"day", "week"}

DayOf(t) == t \div DayLength

\* A date argument that was not given, or was not a date.
NoDate == 0

\* filter_by_period: both ends included, either may be left out.
InPeriod(rows, since, until) ==
  {r \in rows : /\ since # NoDate => DayOf(r.start) >= since
                /\ until # NoDate => DayOf(r.start) <= until}

\* _KEY_FNS.  The loader gives every session the same project and no model.
KeyOf(r, dimension) ==
  CASE dimension = "day"     -> <<DayOf(r.start)>>
    [] dimension = "week"    -> <<DayOf(r.start) \div WeekLength>>
    [] dimension = "project" -> <<0>>
    [] dimension = "model"   -> <<>>

Total(rows, m) == MapThenSumSet(LAMBDA r : r.metrics[m], rows)
Having(rows, m) == {r \in rows : m \in DOMAIN r.metrics}
MetricsOf(rows) == UNION {DOMAIN r.metrics : r \in rows}

\* reduce_by: a cell for each value of the dimension and each metric some
\* session of it has; a session without the dimension or the metric is in none.
Reduce(rows, dimension) ==
  LET keyed == {r \in rows : KeyOf(r, dimension) # <<>>}
      keys  == {KeyOf(r, dimension)[1] : r \in keyed}
      of(k) == {r \in keyed : KeyOf(r, dimension)[1] = k}
      cell(k, m) ==
        LET measured == Having(of(k), m)
        IN [key |-> k, metric |-> m, n |-> Cardinality(measured), sum |-> Total(measured, m)]
  IN UNION {{cell(k, m) : m \in MetricsOf(of(k))} : k \in keys}

\* guard_cell.
Guarded(c) == c.n >= MinCell

-----------------------------------------------------------------------------
\* Mutant: the mean of every row before is a mean to differ from.
PriorOfAll(cells, c, dimension) ==
  IF dimension \notin Chronological THEN {}
  ELSE LET before == {d \in cells : d.metric = c.metric /\ d.key < c.key}
       IN {d \in before : \A e \in before : e.key <= d.key}

\* _render_trend_table: the row a cell is printed with its difference from.
Prior(cells, c, dimension) ==
  IF dimension \notin Chronological THEN {}
  ELSE LET before == {d \in cells : d.metric = c.metric /\ d.key < c.key /\ Guarded(d)}
       IN {d \in before : \A e \in before : e.key <= d.key}

\* _format_cell: what is printed of a cell, and the cells whose means it tells.
\* A cell with too few observations is printed as "n<5".
Printed(cells, dimension) ==
  {[cell |-> c, tells |-> {c} \cup Prior(cells, c, dimension)] : c \in {d \in cells : Guarded(d)}}

\* _compute_top_movers: the first and the last printed cell of a metric.
Movers(cells, dimension) ==
  IF dimension \notin Chronological THEN {}
  ELSE LET shown == {c \in cells : Guarded(c)}
           of(m) == {c \in shown : c.metric = m}
           first(m) == CHOOSE c \in of(m) : \A d \in of(m) : c.key <= d.key
           last(m)  == CHOOSE c \in of(m) : \A d \in of(m) : d.key <= c.key
       IN {[metric |-> m, tells |-> {first(m), last(m)}] :
             m \in {c.metric : c \in {d \in shown : first(d.metric).key # last(d.metric).key
                                                    /\ first(d.metric).sum # 0}}}

\* compare_periods: the metrics both periods have, with the sessions of each.
Compared(a, b) ==
  {[metric |-> m, a |-> Having(a, m), b |-> Having(b, m)] : m \in MetricsOf(a) \cap MetricsOf(b)}

\* _rank_comparison_movers, and the one-liners of the report.
RankedMovers(comparison) ==
  {c \in comparison : /\ Cardinality(c.a) >= MinCell /\ Cardinality(c.b) >= MinCell
                      /\ Total(c.a, c.metric) # 0}

\* compute_correlations: pairs of metrics, over the sessions that have both,
\* as far as these are enough and neither is constant over them.
Correlated(rows) ==
  LET varies(rs, m) == Cardinality({r.metrics[m] : r \in rs}) > 1
  IN {p \in SUBSET MetricsOf(rows) :
        /\ Cardinality(p) = 2
        /\ LET rs == {r \in rows : p \subseteq DOMAIN r.metrics} IN
             Cardinality(rs) >= MinPairs /\ \A m \in p : varies(rs, m)}
=============================================================================
