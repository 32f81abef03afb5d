------------------------------ MODULE ErrorLog ------------------------------
(***************************************************************************)
(* The rotating error log of errors.py.  Every command writes to the same  *)
(* file and nothing locks it: a writer is a process, and a rotation is a   *)
(* sequence of tests and renames that another process, or a kill, can come *)
(* between.  A record is the unit of size.                                 *)
(***************************************************************************)
EXTENDS Integers, Sequences, FiniteSets, SequencesExt

CONSTANTS
  Writers,     \* processes that write to the log
  Backups,     \* _MAX_LOG_BACKUPS
  Room,        \* _MAX_LOG_BYTES, in records
  MaxWritten   \* bound on the records written

ASSUME ErrorLogAssumption ==
  /\ IsFiniteSet(Writers)
  /\ Backups \in Nat \ {0} /\ Room \in Nat \ {0} /\ MaxWritten \in Nat

VARIABLES
  archive,     \* the file `path' at 0 and `path.i' at i: records, <<>> for no file
  step,        \* where each writer is: [pc, at], `at' an index of the rotation
  written,     \* number of records appended; record n is the n-th of them
  disturbed    \* history: "overlap" two writers met, "kill" one was killed

logVars == <<archive, step, written, disturbed>>

Quiet == [pc |-> "quiet", at |-> 0]

\* Mutant: the archives are shifted in ascending order.
FollowingUp(i) ==
  IF i = Backups THEN IF Backups = 1 THEN 0 ELSE 1
  ELSE IF i = Backups - 1 THEN 0 ELSE i + 1

\* The order of _rotate: the oldest archive, then down to the active file.
Following(i) == i - 1

\* Mutant: the new record is not counted.
FullWithout(n) == n > Room

\* write: the record would push the file past its limit.
Full(n) == n > 0 /\ n + 1 > Room

LogInit ==
  /\ archive = [i \in 0..Backups |-> <<>>]
  /\ step = [w \in Writers |-> Quiet]
  /\ written = 0
  /\ disturbed = {}

\* write: _current_size and the decision to rotate.
LogCheck(w) ==
  /\ step[w] = Quiet
  /\ step' = [step EXCEPT ![w] = IF Full(Len(archive[0]))
                                 THEN [pc |-> "look", at |-> Backups]
                                 ELSE [pc |-> "append", at |-> 0]]
  /\ disturbed' = disturbed \cup IF \E v \in Writers : step[v] # Quiet THEN {"overlap"} ELSE {}
  /\ UNCHANGED <<archive, written>>

After(i) == IF i = 0 THEN [pc |-> "append", at |-> 0] ELSE [pc |-> "look", at |-> Following(i)]

\* _rotate: is there a file to move?
LogLook(w) ==
  /\ step[w].pc = "look"
  /\ step' = [step EXCEPT ![w] = IF archive[step[w].at] = <<>> THEN After(@.at)
                                 ELSE [@ EXCEPT !.pc = "move"]]
  /\ UNCHANGED <<archive, written, disturbed>>

\* _rotate: the oldest archive is removed, another file renamed over the next.
\* A file that is gone by now raises out of write(), and its record is lost.
LogMove(w) ==
  /\ step[w].pc = "move"
  /\ LET i == step[w].at IN
       \/ /\ archive[i] # <<>>
          /\ archive' = [j \in 0..Backups |->
                           IF j = i THEN <<>> ELSE IF j = i + 1 THEN archive[i] ELSE archive[j]]
          /\ step' = [step EXCEPT ![w] = After(i)]
       \/ /\ archive[i] = <<>>
          /\ step' = [step EXCEPT ![w] = Quiet]
          /\ UNCHANGED archive
  /\ UNCHANGED <<written, disturbed>>

\* write: open("ab") and one write of the line.
LogAppend(w) ==
  /\ step[w].pc = "append"
  /\ written < MaxWritten
  /\ written' = written + 1
  /\ archive' = [archive EXCEPT ![0] = Append(@, written')]
  /\ step' = [step EXCEPT ![w] = Quiet]
  /\ UNCHANGED disturbed

\* The process is killed in the middle, and another takes its place.
LogKill(w) ==
  /\ step[w] # Quiet
  /\ step' = [step EXCEPT ![w] = Quiet]
  /\ disturbed' = disturbed \cup {"kill"}
  /\ UNCHANGED <<archive, written>>

LogNext ==
  \E w \in Writers :
    \/ LogCheck(w) \/ LogLook(w) \/ LogMove(w) \/ LogAppend(w) \/ LogKill(w)

LogSpec == LogInit /\ [][LogNext]_logVars

-----------------------------------------------------------------------------
\* The records the log still holds.
Held == UNION {ToSet(archive[i]) : i \in 0..Backups}

\* A record of a higher archive, or an earlier one of the same file, is older.
OldestLast ==
  \A i, j \in 0..Backups : \A k \in DOMAIN archive[i], l \in DOMAIN archive[j] :
    i > j \/ (i = j /\ k < l) => archive[i][k] < archive[j][l]

\* As long as no two processes were in write() at a time, the log holds the
\* last records written, without a gap and in their order, even where a
\* process was killed in the middle of a rotation; and without a kill a
\* rotation costs the oldest archive only: once a record is gone, every file is
\* full but the one that is being filled or renamed (errors.py:_rotate).
LogLosesOldestOnly ==
  "overlap" \notin disturbed =>
    /\ OldestLast
    /\ \E first \in 1..written + 1 : Held = first..written
    /\ "kill" \notin disturbed /\ written # 0 /\ 1 \notin Held =>
         \E h \in 0..Backups : \A i \in (0..Backups) \ {h} : Len(archive[i]) >= Room

\* However many processes write, and rotate, at a time, and wherever they are
\* killed, no file grows past its limit by more than one record for each other
\* process (errors.py:write decides on a size it read before).
LogStaysSmall ==
  \A i \in 0..Backups : Len(archive[i]) <= Room + Cardinality(Writers) - 1
=============================================================================
