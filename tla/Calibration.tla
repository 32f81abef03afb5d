---------------------------- MODULE Calibration ----------------------------
(***************************************************************************)
(* The bootstrap calibration of bootstrap.py: the state a watch process    *)
(* loads from bootstrap.state_path, feeds with the final snapshots of each *)
(* session and writes back in place, until enough sessions were observed   *)
(* to derive personal thresholds.  Nothing locks the file, so that several *)
(* `codevigil watch` processes may share it.                               *)
(***************************************************************************)
EXTENDS Integers, Sequences, FiniteSets, SequencesExt

CONSTANTS
  Watchers,     \* watch processes
  Metrics,      \* keys "collector.metric" of the distributions
  LowerIsWorse, \* those of LOWER_IS_WORSE_METRICS
  Snapshots,    \* what a session may hand over: functions from metrics to Nat
  Targets,      \* values of bootstrap.sessions
  CapsOf,       \* the hard caps of a configuration: Metrics -> <<warn, critical>> or <<>>
  MaxObserved   \* bound on the sessions observed

ASSUME CalibrationAssumption ==
  /\ LowerIsWorse \subseteq Metrics
  /\ Targets \subseteq Nat \ {0}
  /\ \A s \in Snapshots : DOMAIN s \subseteq Metrics /\ \A k \in DOMAIN s : s[k] \in Nat
  /\ CapsOf \in [Metrics -> {<<>>} \cup (Nat \X Nat)]

VARIABLES
  calFile,   \* the state file: a state, Absent, or Corrupt
  manager,   \* the BootstrapManager of each watch process, Down if there is none
  kept       \* history: the state after the last observation that ended, Absent
             \* once it is given up

calVars == <<calFile, manager, kept>>

Absent  == [observed |-> -1]
Corrupt == [observed |-> -2]
Down    == [pc |-> "down"]

\* BootstrapState() for a first run.
Fresh ==
  [observed |-> 0, completed |-> FALSE,
   dist     |-> [k \in Metrics |-> <<>>],
   derived  |-> [k \in Metrics |-> <<>>]]

-----------------------------------------------------------------------------
(* Thresholds, in twentieths: the quantiles interpolate between samples.   *)

\* statistics.quantiles(s, n=20, method="inclusive")[i - 1], twenty times.
Ventile(s, i) ==
  LET m == Len(s) - 1
      j == (i * m) \div 20
      d == (i * m) % 20
  IN s[j + 1] * (20 - d) + s[j + 2] * d

\* s in order: at k the k-th smallest of its values.
Sorted(s) ==
  [k \in DOMAIN s |-> CHOOSE v \in ToSet(s) :
     /\ Cardinality({i \in DOMAIN s : s[i] < v}) < k
     /\ k <= Cardinality({i \in DOMAIN s : s[i] <= v})]

\* _compute_quantiles and _compute_lower_quantiles.
Quantiles(s, i, j) ==
  CASE Len(s) = 0 -> <<0, 0>>
    [] Len(s) = 1 -> <<20 * s[1], 20 * s[1]>>
    [] OTHER      -> <<Ventile(Sorted(s), i), Ventile(Sorted(s), j)>>

Least(a, b)    == IF a < b THEN a ELSE b
Greatest(a, b) == IF a > b THEN a ELSE b

\* Mutant: the lower quantiles in the order of the upper ones.
DeriveSwapped(k, s) ==
  LET q == IF k \in LowerIsWorse THEN Quantiles(s, 1, 4) ELSE Quantiles(s, 16, 19)
      c == CapsOf[k]
  IN IF c = <<>> THEN q
     ELSE IF k \in LowerIsWorse
          THEN <<Greatest(q[1], 20 * c[1]), Least(q[2], 20 * c[2])>>
          ELSE <<Least(q[1], 20 * c[1]), Greatest(q[2], 20 * c[2])>>

\* _derive_thresholds: p80 and p95 of a metric that is worse when high, p20
\* and p5 of one that is worse when low, each clamped to its cap.
Derive(k, s) ==
  LET q == IF k \in LowerIsWorse THEN Quantiles(s, 4, 1) ELSE Quantiles(s, 16, 19)
      c == CapsOf[k]
  IN IF c = <<>> THEN q
     ELSE IF k \in LowerIsWorse
          THEN <<Greatest(q[1], 20 * c[1]), Least(q[2], 20 * c[2])>>
          ELSE <<Least(q[1], 20 * c[1]), Greatest(q[2], 20 * c[2])>>

\* observe_session: a metric the session did not report leaves no value.
Observed(st, snap) ==
  [st EXCEPT !.observed = @ + 1,
             !.dist = [k \in Metrics |-> IF k \in DOMAIN snap THEN Append(@[k], snap[k]) ELSE @[k]]]

\* finalize_if_ready, but for the saving.
Finalized(st, target) ==
  IF st.observed < target THEN st
  ELSE [st EXCEPT !.completed = TRUE,
                  !.derived = [k \in Metrics |-> IF st.dist[k] = <<>> THEN <<>>
                                                ELSE Derive(k, st.dist[k])]]

\* Mutant: a state that was calibrated for fewer sessions is incomplete again.
LoadedForTarget(f, target) ==
  IF f \in {Absent, Corrupt} THEN Fresh
  ELSE [f EXCEPT !.completed = @ /\ f.observed >= target]

\* load: no file, or one that cannot be read, starts anew; the target of the
\* file gives way to that of the configuration.
Loaded(f, target) == IF f \in {Absent, Corrupt} THEN Fresh ELSE f

-----------------------------------------------------------------------------
CalInit ==
  /\ calFile = Absent
  /\ manager = [w \in Watchers |-> Down]
  /\ kept = Absent

\* _build_bootstrap_manager: a watch process starts.
CalStart(w) ==
  /\ manager[w] = Down
  /\ kept' = IF calFile \in {Absent, Corrupt} THEN Absent ELSE kept
  /\ \E t \in Targets :
       manager' = [manager EXCEPT ![w] =
         [pc |-> "idle", target |-> t, st |-> Loaded(calFile, t), base |-> kept']]
  /\ UNCHANGED calFile

\* _observe_for_bootstrap at an eviction or at close: observe_session, then
\* finalize_if_ready up to its save.  A completed state is left alone.
CalObserve(w) ==
  /\ manager[w].pc = "idle"
  /\ ~manager[w].st.completed
  /\ manager[w].st.observed < MaxObserved
  /\ \E s \in Snapshots :
       manager' = [manager EXCEPT
         ![w].st = Finalized(Observed(@, s), manager[w].target),
         ![w].pc = "save"]
  /\ UNCHANGED <<calFile, kept>>

\* save: open("w") empties the file.
CalTruncate(w) ==
  /\ manager[w].pc = "save"
  /\ calFile' = Corrupt
  /\ manager' = [manager EXCEPT ![w].pc = "write"]
  /\ UNCHANGED kept

\* save: the state is dumped.  Over the text another process wrote since this
\* one opened the file, the shorter of the two may leave the end of the other.
CalWrite(w) ==
  /\ manager[w].pc = "write"
  /\ calFile' \in {manager[w].st} \cup IF calFile = Corrupt THEN {} ELSE {Corrupt}
  /\ kept' = manager[w].st
  /\ manager' = [manager EXCEPT ![w].pc = "idle", ![w].base = kept']

\* The process ends: stopped, killed, or by an OSError of save().
CalEnd(w) ==
  /\ manager[w] # Down
  /\ manager' = [manager EXCEPT ![w] = Down]
  /\ UNCHANGED <<calFile, kept>>

CalNext ==
  \E w \in Watchers :
    \/ CalStart(w) \/ CalObserve(w) \/ CalTruncate(w) \/ CalWrite(w) \/ CalEnd(w)

CalSpec == CalInit /\ [][CalNext]_calVars

-----------------------------------------------------------------------------
\* The thresholds a calibration derives are in order, whatever the sessions
\* and the configured caps were: a metric that is worse when high warns no
\* later than it is critical, one that is worse when low no later than that
\* (bootstrap.py:_derive_thresholds).
ThresholdsInOrder ==
  \A w \in Watchers : manager[w] # Down =>
    \A k \in Metrics :
      LET d == manager[w].st.derived[k] IN
      d # <<>> => IF k \in LowerIsWorse THEN d[1] >= d[2] ELSE d[1] <= d[2]

\* a continues b: nothing b counted is gone, and what b completed stands.
Continues(a, b) ==
  b = Absent \/ /\ a.observed >= b.observed
                /\ \A k \in Metrics : IsPrefix(b.dist[k], a.dist[k])
                /\ b.completed => a.completed /\ a.derived = b.derived

Saves(w) ==
  /\ manager[w] # Down /\ manager'[w] # Down
  /\ manager[w].pc = "write" /\ manager'[w].pc = "idle"

\* Across restarts, changes of bootstrap.sessions and crashes that spare the
\* file, no session is forgotten and no calibration undone: a process that finds
\* the last state written starts from all of it, and a state that is saved by one
\* that loaded, or wrote, the last one continues it (bootstrap.py:load,
\* finalize_if_ready, which saves each time, save).
CalibrationContinues ==
  [][\A w \in Watchers :
       /\ Saves(w) /\ manager[w].base = kept => Continues(kept', kept)
       /\ manager[w] = Down /\ manager'[w] # Down /\ calFile # Corrupt
            => Continues(manager'[w].st, kept)]_calVars
=============================================================================
