-------------------------- MODULE ErrorLog_proofs --------------------------
(***************************************************************************)
(* Theorems about ErrorLog, for every value of its constants.              *)
(***************************************************************************)
EXTENDS ErrorLog, FiniteSetTheorems, WellFoundedInduction, SequenceTheorems, TLAPS

---------------------------------------------------------------------------
(* The inductive invariant                                                 *)

Steps ==
  {Quiet, [pc |-> "append", at |-> 0]} \cup [pc : {"look", "move"}, at : 0..Backups]

LogTypeOK ==
  /\ archive \in [0..Backups -> Seq(Nat)]
  /\ step \in [Writers -> Steps]
  /\ written \in Nat
  /\ disturbed \subseteq {"overlap", "kill"}

Appending == {w \in Writers : step[w].pc = "append"}

\* The active file has room for the record of each process about to append,
\* and for one less than the others could add.
RoomLeft ==
  /\ Len(archive[0]) + Cardinality(Appending) <= Room + Cardinality(Writers) - 1
  /\ \A i \in 1..Backups : Len(archive[i]) <= Room + Cardinality(Writers) - 1

Moving(s) == s.pc \in {"look", "move"}

\* The file that may be missing among the others: the one a rotation moved
\* last, the active one where nobody rotates.
HoleOf(steps) ==
  IF \E w \in Writers : Moving(steps[w])
  THEN steps[CHOOSE w \in Writers : Moving(steps[w])].at + 1 ELSE 0

Hole == HoleOf(step)

\* One process at a time, which moves files to where none is.
Alone ==
  /\ \A v, w \in Writers : step[v] # Quiet /\ step[w] # Quiet => v = w
  /\ \A w \in Writers : step[w].pc = "move" => archive[step[w].at] # <<>>
  /\ Hole \in 1..Backups => archive[Hole] = <<>>

\* The records, in their order and without a gap.
InOrder ==
  /\ \A i \in 0..Backups : \A k \in DOMAIN archive[i] : archive[i][k] \in 1..written
  /\ OldestLast
  /\ \A n \in Held : n..written \subseteq Held

\* Files fill from the newest on, and once a record is gone they all are.
Filled ==
  /\ \A i, j \in 0..Backups :
       archive[j] # <<>> /\ i <= j /\ i # Hole => Len(archive[i]) >= Room
  /\ written # 0 /\ 1 \notin Held =>
       \A i \in 0..Backups : i # Hole => Len(archive[i]) >= Room

IInv ==
  /\ LogTypeOK
  /\ RoomLeft
  /\ "overlap" \notin disturbed => Alone /\ InOrder
  /\ disturbed = {} => Filled
---------------------------------------------------------------------------
(* Where the writers are                                                   *)

LEMMA StepKinds ==
  /\ Quiet \in Steps /\ Quiet.pc = "quiet" /\ ~ Moving(Quiet)
  /\ \A x \in Steps :
       /\ x.pc = "quiet" <=> x = Quiet
       /\ x.at \in 0..Backups
       /\ x.pc = "append" => x.at = 0
       /\ Moving(x) => x # Quiet /\ x.pc # "append"
  BY ErrorLogAssumption DEF Steps, Quiet, Moving

LEMMA HoleOfOne ==
  ASSUME NEW steps \in [Writers -> Steps], NEW w \in Writers,
         \A v \in Writers : v # w => steps[v] = Quiet
  PROVE  HoleOf(steps) = IF Moving(steps[w]) THEN steps[w].at + 1 ELSE 0
<1>1. \A v \in Writers : Moving(steps[v]) => v = w
  BY StepKinds
<1>2. CASE Moving(steps[w])
  <2>1. (CHOOSE v \in Writers : Moving(steps[v])) = w
    BY <1>1, <1>2
  <2> QED
    BY <1>2, <2>1 DEF HoleOf
<1>3. CASE ~ Moving(steps[w])
  BY <1>1, <1>3 DEF HoleOf
<1> QED
  BY <1>2, <1>3

LEMMA HoleOfNone ==
  ASSUME NEW steps, \A v \in Writers : ~ Moving(steps[v])
  PROVE  HoleOf(steps) = 0
  BY DEF HoleOf

LEMMA Counts ==
  ASSUME NEW A \in SUBSET Writers
  PROVE  /\ IsFiniteSet(A) /\ Cardinality(A) \in Nat /\ Cardinality(Writers) \in Nat
         /\ Cardinality(A) <= Cardinality(Writers)
  BY ErrorLogAssumption, FS_Subset, FS_CardinalityType

\* What a step of w to x does to the set of those about to append.
LEMMA AppendingAfter ==
  ASSUME LogTypeOK, NEW w \in Writers, NEW x, step' = [step EXCEPT ![w] = x]
  PROVE  Appending' = IF x.pc = "append" THEN Appending \cup {w} ELSE Appending \ {w}
<1>1. step'[w] = x /\ \A v \in Writers : v # w => step'[v] = step[v]
  BY DEF LogTypeOK
<1> QED
  BY <1>1 DEF Appending

\* The step of a process that is alone leaves it so.
LEMMA AloneAfter ==
  ASSUME LogTypeOK, NEW w \in Writers, NEW x \in Steps, step' = [step EXCEPT ![w] = x],
         \A v \in Writers : v # w => step[v] = Quiet,
         x.pc = "move" => archive'[x.at] # <<>>,
         Moving(x) /\ x.at < Backups => archive'[x.at + 1] = <<>>
  PROVE  Alone' /\ Hole' = IF Moving(x) THEN x.at + 1 ELSE 0
<1>1. /\ step' \in [Writers -> Steps] /\ step'[w] = x
      /\ \A v \in Writers : v # w => step'[v] = Quiet
  BY DEF LogTypeOK
<1>2. HoleOf(step') = IF Moving(x) THEN x.at + 1 ELSE 0
  BY <1>1, HoleOfOne
<1>3. Hole' = IF Moving(x) THEN x.at + 1 ELSE 0
  BY <1>2 DEF Hole
<1>4. x.at \in 0..Backups /\ Backups \in Nat
  BY StepKinds, ErrorLogAssumption
<1>5. Hole' \in 1..Backups => archive'[Hole'] = <<>>
  BY <1>3, <1>4
<1>6. \A v \in Writers : step'[v].pc = "move" => archive'[step'[v].at] # <<>>
  BY <1>1, StepKinds DEF Quiet
<1>7. \A u, v \in Writers : step'[u] # Quiet /\ step'[v] # Quiet => u = v
  BY <1>1
<1> QED
  BY <1>3, <1>5, <1>6, <1>7 DEF Alone

---------------------------------------------------------------------------
(* What the files hold                                                     *)

LEMMA HeldIs ==
  /\ \A n : n \in Held <=> \E i \in 0..Backups : \E k \in DOMAIN archive[i] : archive[i][k] = n
  /\ \A n : n \in Held' <=> \E i \in 0..Backups : \E k \in DOMAIN archive'[i] : archive'[i][k] = n
  BY DEF Held, ToSet

\* Moving the oldest file away, or another to where none is.
LEMMA MovedInOrder ==
  ASSUME LogTypeOK, InOrder, NEW i \in 0..Backups, i < Backups => archive[i + 1] = <<>>,
         archive' = [j \in 0..Backups |->
                       IF j = i THEN <<>> ELSE IF j = i + 1 THEN archive[i] ELSE archive[j]],
         written' = written
  PROVE  /\ InOrder'
         /\ i < Backups => Held' = Held
<1> DEFINE src(j) == IF j = i + 1 THEN i ELSE j
<1>0. Backups \in Nat
  BY ErrorLogAssumption
<1>1. \A j \in 0..Backups : DOMAIN archive'[j] # {} =>
        j # i /\ src(j) \in 0..Backups /\ archive'[j] = archive[src(j)]
  BY <1>0
<1>2. \A j \in 0..Backups : DOMAIN archive[j] # {} /\ (i = Backups => j # i) =>
        \E l \in 0..Backups : l # i /\ archive'[l] = archive[j]
  <2> SUFFICES ASSUME NEW j \in 0..Backups, DOMAIN archive[j] # {}, i = Backups => j # i
               PROVE  \E l \in 0..Backups : l # i /\ archive'[l] = archive[j]
    OBVIOUS
  <2>1. CASE j = i
    <3>1. i + 1 \in 0..Backups /\ i + 1 # i /\ archive'[i + 1] = archive[j]
      BY <1>0, <2>1
    <3> QED
      BY <3>1
  <2>2. CASE j # i
    <3>1. j # i + 1
      BY <1>0, <2>2
    <3>2. archive'[j] = archive[j]
      BY <2>2, <3>1
    <3> QED
      BY <2>2, <3>2
  <2> QED
    BY <2>1, <2>2
<1>3. \A j, l \in 0..Backups : j # i /\ l # i /\ j > l => src(j) > src(l)
  OBVIOUS
<1> HIDE DEF src
<1>4. \A j \in 0..Backups : \A k \in DOMAIN archive'[j] : archive'[j][k] \in 1..written
  BY <1>1 DEF InOrder
<1>5. OldestLast'
  <2> SUFFICES ASSUME NEW j \in 0..Backups, NEW l \in 0..Backups,
                      NEW k \in DOMAIN archive'[j], NEW m \in DOMAIN archive'[l],
                      j > l \/ (j = l /\ k < m)
               PROVE  archive'[j][k] < archive'[l][m]
    BY DEF OldestLast
  <2>1. /\ j # i /\ src(j) \in 0..Backups /\ archive'[j] = archive[src(j)]
        /\ l # i /\ src(l) \in 0..Backups /\ archive'[l] = archive[src(l)]
    BY <1>1
  <2>2. src(j) > src(l) \/ (src(j) = src(l) /\ k < m)
    BY <1>3, <2>1
  <2> QED
    BY <2>1, <2>2 DEF InOrder, OldestLast
<1>6. Held' \subseteq Held
  <2> SUFFICES ASSUME NEW n \in Held' PROVE n \in Held
    OBVIOUS
  <2>1. PICK j \in 0..Backups : \E k \in DOMAIN archive'[j] : archive'[j][k] = n
    BY HeldIs
  <2> QED
    BY <1>1, <2>1, HeldIs
<1>7. i < Backups => Held \subseteq Held'
  <2> SUFFICES ASSUME i < Backups, NEW n \in Held PROVE n \in Held'
    OBVIOUS
  <2>1. PICK j \in 0..Backups : \E k \in DOMAIN archive[j] : archive[j][k] = n
    BY HeldIs
  <2>2. PICK l \in 0..Backups : archive'[l] = archive[j]
    BY <1>0, <1>2, <2>1
  <2> QED
    BY <2>1, <2>2, HeldIs
<1>8. \A n \in Held' : n..written \subseteq Held'
  <2>1. CASE i < Backups
    BY <1>6, <1>7, <2>1 DEF InOrder
  <2>2. CASE i = Backups
    <3> SUFFICES ASSUME NEW n \in Held', NEW m \in n..written
                 PROVE  m \in Held'
      OBVIOUS
    <3>1. PICK j \in 0..Backups : \E k \in DOMAIN archive'[j] : archive'[j][k] = n
      BY HeldIs
    <3>2. PICK k \in DOMAIN archive'[j] : archive'[j][k] = n
      BY <3>1
    <3>3. j # i /\ archive'[j] = archive[j] /\ j < i
      BY <1>0, <1>1, <2>2, <3>2 DEF src
    <3>4. m \in Held
      BY <1>6 DEF InOrder
    <3>5. PICK l \in 0..Backups : \E o \in DOMAIN archive[l] : archive[l][o] = m
      BY <3>4, HeldIs
    <3>6. PICK o \in DOMAIN archive[l] : archive[l][o] = m
      BY <3>5
    <3>7. l # i
      <4> SUFFICES ASSUME l = i PROVE FALSE
        OBVIOUS
      <4>1. m < n
        BY <3>2, <3>3, <3>6 DEF InOrder, OldestLast
      <4>2. m \in 1..written /\ n \in 1..written
        BY <3>2, <3>3, <3>6 DEF InOrder
      <4> QED
        BY <4>1, <4>2
    <3>8. archive'[l] = archive[l]
      BY <1>0, <2>2, <3>7
    <3> QED
      BY <3>6, <3>8, HeldIs
  <2> QED
    BY <1>0, <2>1, <2>2
<1>9. InOrder'
  BY <1>4, <1>5, <1>8 DEF InOrder
<1> QED
  BY <1>6, <1>7, <1>9

\* The next record goes behind all the others.
LEMMA AppendedInOrder ==
  ASSUME LogTypeOK, InOrder, written' = written + 1,
         archive' = [archive EXCEPT ![0] = Append(@, written')]
  PROVE  InOrder' /\ Held' = Held \cup {written'}
<1>0. Backups \in Nat /\ written \in Nat /\ 0 \in 0..Backups /\ archive[0] \in Seq(Nat)
  BY ErrorLogAssumption DEF LogTypeOK
<1>1. \A j \in 0..Backups : j # 0 => archive'[j] = archive[j]
  BY DEF LogTypeOK
<1>2. /\ archive'[0] = Append(archive[0], written')
      /\ DOMAIN archive'[0] = DOMAIN archive[0] \cup {Len(archive[0]) + 1}
      /\ \A k \in DOMAIN archive[0] : archive'[0][k] = archive[0][k]
      /\ archive'[0][Len(archive[0]) + 1] = written'
      /\ DOMAIN archive[0] = 1..Len(archive[0])
  <2>1. archive'[0] = Append(archive[0], written')
    BY <1>0 DEF LogTypeOK
  <2> QED
    BY <1>0, <2>1, AppendProperties
<1>3. Held' = Held \cup {written'}
  <2>1. Held' \subseteq Held \cup {written'}
    <3> SUFFICES ASSUME NEW n \in Held' PROVE n \in Held \cup {written'}
      OBVIOUS
    <3>1. PICK j \in 0..Backups : \E k \in DOMAIN archive'[j] : archive'[j][k] = n
      BY HeldIs
    <3> QED
      BY <1>1, <1>2, <3>1, HeldIs
  <2>2. Held \subseteq Held'
    <3> SUFFICES ASSUME NEW n \in Held PROVE n \in Held'
      OBVIOUS
    <3>1. PICK j \in 0..Backups : \E k \in DOMAIN archive[j] : archive[j][k] = n
      BY HeldIs
    <3> QED
      BY <1>1, <1>2, <3>1, HeldIs
  <2>3. written' \in Held'
    BY <1>0, <1>2, HeldIs
  <2> QED
    BY <2>1, <2>2, <2>3
<1>4. \A j \in 0..Backups : \A k \in DOMAIN archive'[j] : archive'[j][k] \in 1..written'
  BY <1>0, <1>1, <1>2 DEF InOrder
<1>5. OldestLast'
  <2> SUFFICES ASSUME NEW j \in 0..Backups, NEW l \in 0..Backups,
                      NEW k \in DOMAIN archive'[j], NEW m \in DOMAIN archive'[l],
                      j > l \/ (j = l /\ k < m)
               PROVE  archive'[j][k] < archive'[l][m]
    BY DEF OldestLast
  <2>1. k \in DOMAIN archive[j] /\ archive'[j][k] = archive[j][k]
    <3>1. CASE j # 0
      BY <1>1, <3>1
    <3>2. CASE j = 0
      <4>1. l = 0 /\ k < m
        BY <3>2
      <4> QED
        BY <1>0, <1>2, <3>2, <4>1
    <3> QED
      BY <3>1, <3>2
  <2>2. archive[j][k] \in 1..written
    BY <2>1 DEF InOrder
  <2>3. CASE m \in DOMAIN archive[l]
    <3>1. archive'[l][m] = archive[l][m]
      BY <1>1, <1>2, <2>3
    <3> QED
      BY <2>1, <2>3, <3>1 DEF InOrder, OldestLast
  <2>4. CASE m \notin DOMAIN archive[l]
    <3>1. archive'[l][m] = written + 1
      BY <1>1, <1>2, <2>4
    <3> QED
      BY <1>0, <2>1, <2>2, <3>1
  <2> QED
    BY <2>3, <2>4
<1>6. \A n \in Held' : n..written' \subseteq Held'
  <2> SUFFICES ASSUME NEW n \in Held', NEW m \in n..written', m # written'
               PROVE  m \in Held
    BY <1>3
  <2>1. \A x \in Held : x \in 1..written
    BY HeldIs DEF InOrder
  <2>2. n \in Held \/ n = written + 1
    BY <1>3
  <2>3. n \in Int
    BY <1>0, <2>1, <2>2
  <2>4. n \in Held /\ m \in n..written
    BY <1>0, <2>2, <2>3
  <2> QED
    BY <2>4 DEF InOrder
<1> QED
  BY <1>3, <1>4, <1>5, <1>6 DEF InOrder
---------------------------------------------------------------------------
(* The steps                                                               *)

LEMMA InitInvariant == LogInit => IInv
<1> SUFFICES ASSUME LogInit PROVE IInv
  OBVIOUS
<1>0. Backups \in Nat \ {0} /\ Room \in Nat /\ Room # 0
  BY ErrorLogAssumption
<1>1. /\ \A w \in Writers : step[w] = Quiet
      /\ \A i \in 0..Backups : archive[i] = <<>>
      /\ written = 0 /\ disturbed = {}
  BY DEF LogInit
<1>2. LogTypeOK
  BY StepKinds, EmptySeq DEF LogInit, LogTypeOK
<1>3. RoomLeft
  <2>1. Appending = {}
    BY <1>1, StepKinds DEF Appending
  <2>2. Cardinality(Appending) = 0 /\ Cardinality(Writers) \in Nat
    BY <2>1, Counts, FS_EmptySet
  <2>3. \A i \in 0..Backups : Len(archive[i]) = 0
    BY <1>1, EmptySeq
  <2> QED
    BY <1>0, <2>2, <2>3 DEF RoomLeft
<1>4. Hole = 0
  BY <1>1, StepKinds, HoleOfNone DEF Hole
<1>5. Alone
  BY <1>1, <1>4, StepKinds DEF Alone
<1>6. \A i \in 0..Backups : DOMAIN archive[i] = {}
  BY <1>1, EmptySeq
<1>7. InOrder
  <2>1. Held = {}
    BY <1>6, HeldIs
  <2> QED
    BY <1>6, <2>1 DEF InOrder, OldestLast
<1>8. Filled
  BY <1>1 DEF Filled
<1> QED
  BY <1>2, <1>3, <1>5, <1>7, <1>8 DEF IInv

\* A process that is about to append counts once more.
LEMMA RoomForOne ==
  ASSUME LogTypeOK, RoomLeft, NEW w \in Writers, NEW x, x.pc = "append",
         step' = [step EXCEPT ![w] = x], archive' = archive, Len(archive[0]) <= Room - 1
  PROVE  RoomLeft'
<1>1. Appending' = Appending \cup {w}
  BY AppendingAfter
<1>2. Appending' \in SUBSET Writers
  BY <1>1 DEF Appending
<1>3. Cardinality(Appending') \in Nat /\ Cardinality(Writers) \in Nat
      /\ Cardinality(Appending') <= Cardinality(Writers)
  BY <1>2, Counts
<1>4. Len(archive[0]) \in Nat /\ Room \in Nat
  BY ErrorLogAssumption DEF LogTypeOK
<1> QED
  BY <1>3, <1>4 DEF RoomLeft

\* One that is not, does not.
LEMMA RoomForNone ==
  ASSUME LogTypeOK, RoomLeft, NEW w \in Writers, NEW x, x.pc # "append",
         step' = [step EXCEPT ![w] = x], archive' = archive
  PROVE  RoomLeft'
<1>1. Appending' = Appending \ {w}
  BY AppendingAfter
<1>2. Appending \in SUBSET Writers /\ Appending' \in SUBSET Appending
  BY <1>1 DEF Appending
<1>3. Cardinality(Appending') <= Cardinality(Appending)
  BY <1>2, Counts, FS_Subset
<1>4. Cardinality(Appending') \in Nat /\ Cardinality(Appending) \in Nat
      /\ Cardinality(Writers) \in Nat
  BY <1>2, Counts
<1>5. Len(archive[0]) \in Nat /\ Room \in Nat
  BY ErrorLogAssumption DEF LogTypeOK
<1> QED
  BY <1>3, <1>4, <1>5 DEF RoomLeft

\* The files and the records are left alone.
LEMMA OrderKept ==
  ASSUME InOrder, archive' = archive, written' = written
  PROVE  InOrder' /\ Held' = Held
  BY DEF InOrder, OldestLast, Held

LEMMA CheckStep ==
  ASSUME IInv, NEW w \in Writers, LogCheck(w)
  PROVE  IInv'
<1> DEFINE x == IF Full(Len(archive[0])) THEN [pc |-> "look", at |-> Backups]
                ELSE [pc |-> "append", at |-> 0]
<1>0. /\ Backups \in Nat \ {0} /\ Room \in Nat \ {0}
      /\ LogTypeOK /\ RoomLeft /\ archive[0] \in Seq(Nat) /\ Len(archive[0]) \in Nat
  BY ErrorLogAssumption DEF IInv, LogTypeOK
<1>1. /\ step[w] = Quiet /\ step' = [step EXCEPT ![w] = x]
      /\ archive' = archive /\ written' = written
      /\ disturbed' = disturbed \cup IF \E v \in Writers : step[v] # Quiet THEN {"overlap"} ELSE {}
  BY DEF LogCheck
<1>2. x \in Steps
  BY <1>0 DEF Steps
<1>3. LogTypeOK'
  BY <1>0, <1>1, <1>2 DEF LogTypeOK
<1>4. RoomLeft'
  <2>1. CASE Full(Len(archive[0]))
    BY <1>0, <1>1, <2>1, RoomForNone
  <2>2. CASE ~ Full(Len(archive[0]))
    <3>1. Len(archive[0]) <= Room - 1
      BY <1>0, <2>2 DEF Full
    <3> QED
      BY <1>0, <1>1, <2>2, <3>1, RoomForOne
  <2> QED
    BY <2>1, <2>2
<1>5. ASSUME "overlap" \notin disturbed'
      PROVE  /\ "overlap" \notin disturbed /\ disturbed' = disturbed
             /\ \A v \in Writers : step[v] = Quiet
  BY <1>1, <1>5
<1>6. ASSUME "overlap" \notin disturbed'
      PROVE  Alone' /\ Hole = 0 /\ Hole' = IF Moving(x) THEN x.at + 1 ELSE 0
  <2>1. Hole = 0
    BY <1>5, <1>6, StepKinds, HoleOfNone DEF Hole
  <2>2. x.pc # "move" /\ ~ (Moving(x) /\ x.at < Backups)
    BY <1>0 DEF Moving
  <2> QED
    BY <1>0, <1>1, <1>2, <1>5, <1>6, <2>1, <2>2, AloneAfter
<1>7. ASSUME "overlap" \notin disturbed'
      PROVE  InOrder' /\ Held' = Held
  BY <1>1, <1>5, <1>7, OrderKept DEF IInv
<1>8. ASSUME disturbed' = {}
      PROVE  Filled'
  <2>1. Filled /\ Hole = 0
    BY <1>5, <1>6, <1>8 DEF IInv
  <2>2. CASE Full(Len(archive[0]))
    <3>1. Hole' = Backups + 1 /\ Len(archive[0]) >= Room
      BY <1>0, <1>6, <1>8, <2>2 DEF Full, Moving
    <3> QED
      BY <1>0, <1>1, <1>7, <1>8, <2>1, <3>1 DEF Filled
  <2>3. CASE ~ Full(Len(archive[0]))
    <3>1. Hole' = 0
      BY <1>6, <1>8, <2>3 DEF Moving
    <3> QED
      BY <1>1, <1>7, <1>8, <2>1, <3>1 DEF Filled
  <2> QED
    BY <2>2, <2>3
<1> QED
  BY <1>3, <1>4, <1>6, <1>7, <1>8 DEF IInv

\* A process in the middle of write() is alone unless two met.
LEMMA Others ==
  ASSUME IInv, NEW w \in Writers, step[w] # Quiet, "overlap" \notin disturbed
  PROVE  /\ Alone /\ InOrder
         /\ \A v \in Writers : v # w => step[v] = Quiet
         /\ Hole = IF Moving(step[w]) THEN step[w].at + 1 ELSE 0
<1>1. Alone /\ InOrder /\ \A v \in Writers : v # w => step[v] = Quiet
  BY DEF IInv, Alone
<1>2. step \in [Writers -> Steps]
  BY DEF IInv, LogTypeOK
<1> QED
  BY <1>1, <1>2, HoleOfOne DEF Hole

\* What follows once the file at i is dealt with.
LEMMA AfterKinds ==
  ASSUME NEW i \in 0..Backups
  PROVE  /\ After(i) \in Steps /\ After(i).pc # "move" /\ After(i) # Quiet
         /\ i = 0 => After(i).pc = "append" /\ ~ Moving(After(i))
         /\ i # 0 => After(i).pc = "look" /\ Moving(After(i)) /\ After(i).at = i - 1
         /\ (IF Moving(After(i)) THEN After(i).at + 1 ELSE 0) = i
  BY ErrorLogAssumption DEF After, Following, Steps, Quiet, Moving

LEMMA LookStep ==
  ASSUME IInv, NEW w \in Writers, LogLook(w)
  PROVE  IInv'
<1> DEFINE i == step[w].at
           x == IF archive[i] = <<>> THEN After(i) ELSE [step[w] EXCEPT !.pc = "move"]
<1>0. /\ Backups \in Nat \ {0} /\ Room \in Nat \ {0} /\ LogTypeOK /\ RoomLeft
      /\ step[w] \in Steps /\ i \in 0..Backups
  BY ErrorLogAssumption, StepKinds DEF IInv, LogTypeOK
<1>1. /\ step[w].pc = "look" /\ step' = [step EXCEPT ![w] = x]
      /\ archive' = archive /\ written' = written /\ disturbed' = disturbed
  BY DEF LogLook
<1>2. step[w] = [pc |-> "look", at |-> i] /\ step[w] # Quiet /\ Moving(step[w])
  BY <1>0, <1>1 DEF Steps, Quiet, Moving
<1>3. archive[i] # <<>> => x = [pc |-> "move", at |-> i]
  BY <1>2
<1>4. x \in Steps
  BY <1>0, <1>3, AfterKinds DEF Steps
<1>5. LogTypeOK'
  BY <1>0, <1>1, <1>4 DEF LogTypeOK
<1> HIDE DEF x
<1>6. RoomLeft'
  <2>1. CASE x.pc = "append"
    <3>1. archive[i] = <<>> /\ x = After(i)
      BY <1>3, <2>1 DEF x
    <3>2. i = 0
      BY <1>0, <2>1, <3>1, AfterKinds
    <3>3. Len(archive[0]) <= Room - 1
      BY <1>0, <3>1, <3>2, EmptySeq
    <3> QED
      BY <1>0, <1>1, <2>1, <3>3, RoomForOne
  <2>2. CASE x.pc # "append"
    BY <1>0, <1>1, <2>2, RoomForNone
  <2> QED
    BY <2>1, <2>2
<1>7. ASSUME "overlap" \notin disturbed
      PROVE  /\ Alone' /\ InOrder' /\ Held' = Held /\ Hole = i + 1
             /\ Hole' = IF archive[i] = <<>> THEN i ELSE i + 1
  <2>1. /\ Alone /\ InOrder /\ Hole = i + 1
        /\ \A v \in Writers : v # w => step[v] = Quiet
    BY <1>2, <1>7, Others
  <2>2. x.pc = "move" => archive[x.at] # <<>>
    BY <1>0, <1>3, AfterKinds DEF x
  <2>3. i < Backups => archive[i + 1] = <<>>
    BY <1>0, <2>1 DEF Alone
  <2>4. Moving(x) /\ x.at < Backups => archive[x.at + 1] = <<>>
    <3>1. CASE archive[i] = <<>>
      BY <1>0, <3>1, AfterKinds DEF x
    <3>2. CASE archive[i] # <<>>
      BY <1>3, <2>3, <3>2
    <3> QED
      BY <3>1, <3>2
  <2>5. Alone' /\ Hole' = IF Moving(x) THEN x.at + 1 ELSE 0
    BY <1>0, <1>1, <1>4, <2>1, <2>2, <2>4, AloneAfter
  <2>6. Hole' = IF archive[i] = <<>> THEN i ELSE i + 1
    <3>1. CASE archive[i] = <<>>
      BY <1>0, <2>5, <3>1, AfterKinds DEF x
    <3>2. CASE archive[i] # <<>>
      BY <1>3, <2>5, <3>2 DEF Moving
    <3> QED
      BY <3>1, <3>2
  <2> QED
    BY <1>1, <2>1, <2>5, <2>6, OrderKept
<1>8. ASSUME disturbed = {}
      PROVE  Filled'
  <2>1. Filled /\ Hole = i + 1
    BY <1>7, <1>8 DEF IInv
  <2>2. CASE archive[i] # <<>>
    BY <1>1, <1>7, <1>8, <2>1, <2>2 DEF Filled
  <2>3. CASE archive[i] = <<>>
    <3>1. ~ (Len(archive[i]) >= Room)
      BY <1>0, <2>3, EmptySeq
    <3>2. \A j \in 0..Backups : i <= j => archive[j] = <<>>
      BY <1>0, <2>1, <3>1 DEF Filled
    <3>3. ~ (written # 0 /\ 1 \notin Held)
      BY <1>0, <2>1, <3>1 DEF Filled
    <3>4. \A j, l \in 0..Backups :
            archive[j] # <<>> /\ l <= j /\ l # i => Len(archive[l]) >= Room
      BY <1>0, <2>1, <3>2 DEF Filled
    <3>5. Hole' = i
      BY <1>7, <1>8, <2>3
    <3> QED
      BY <1>1, <1>7, <1>8, <3>3, <3>4, <3>5 DEF Filled
  <2> QED
    BY <2>2, <2>3
<1> QED
  BY <1>1, <1>5, <1>6, <1>7, <1>8 DEF IInv

LEMMA MoveStep ==
  ASSUME IInv, NEW w \in Writers, LogMove(w)
  PROVE  IInv'
<1> DEFINE i == step[w].at
<1>0. /\ Backups \in Nat \ {0} /\ Room \in Nat \ {0} /\ LogTypeOK /\ RoomLeft
      /\ step[w] \in Steps /\ i \in 0..Backups
  BY ErrorLogAssumption, StepKinds DEF IInv, LogTypeOK
<1>1. step[w].pc = "move" /\ written' = written /\ disturbed' = disturbed
  BY DEF LogMove
<1>2. step[w] # Quiet /\ Moving(step[w])
  BY <1>0, <1>1, StepKinds DEF Moving
<1>3. CASE archive[i] = <<>>
  <2>1. step' = [step EXCEPT ![w] = Quiet] /\ archive' = archive
    BY <1>3 DEF LogMove
  <2>2. LogTypeOK'
    BY <1>0, <1>1, <2>1, StepKinds DEF LogTypeOK
  <2>3. RoomLeft'
    BY <1>0, <2>1, StepKinds, RoomForNone
  <2>4. "overlap" \in disturbed
    BY <1>1, <1>2, <1>3, Others DEF Alone
  <2> QED
    BY <1>1, <2>2, <2>3, <2>4 DEF IInv
<1>4. CASE archive[i] # <<>>
  <2>1. /\ step' = [step EXCEPT ![w] = After(i)]
        /\ archive' = [j \in 0..Backups |->
                         IF j = i THEN <<>> ELSE IF j = i + 1 THEN archive[i] ELSE archive[j]]
    BY <1>4 DEF LogMove
  <2>2. \A j \in 0..Backups :
          archive'[j] = IF j = i THEN <<>> ELSE IF j = i + 1 THEN archive[i] ELSE archive[j]
    BY <2>1
  <2>3. LogTypeOK'
    <3>1. \A j \in 0..Backups : archive[j] \in Seq(Nat)
      BY <1>0 DEF LogTypeOK
    <3>2. archive' \in [0..Backups -> Seq(Nat)]
      BY <1>0, <2>1, <3>1, EmptySeq
    <3>3. step' \in [Writers -> Steps]
      BY <1>0, <2>1, AfterKinds DEF LogTypeOK
    <3> QED
      BY <1>0, <1>1, <3>2, <3>3 DEF LogTypeOK
  <2>4. RoomLeft'
    <3>1. Appending' = IF i = 0 THEN Appending \cup {w} ELSE Appending \ {w}
      BY <1>0, <2>1, AfterKinds, AppendingAfter
    <3>2. w \notin Appending /\ Appending \in SUBSET Writers /\ Appending' \in SUBSET Writers
      BY <1>1, <3>1 DEF Appending
    <3>3. Cardinality(Appending) \in Nat /\ Cardinality(Writers) \in Nat
          /\ Cardinality(Appending') \in Nat /\ Cardinality(Appending') <= Cardinality(Writers)
      BY <3>2, Counts
    <3>4. \A j \in 0..Backups : Len(archive[j]) \in Nat
      BY <1>0 DEF LogTypeOK
    <3>5. \A j \in 0..Backups : Len(archive[j]) <= Room + Cardinality(Writers) - 1
      BY <1>0, <3>3, <3>4 DEF RoomLeft
    <3>6. Cardinality(Writers) # 0
      BY ErrorLogAssumption, FS_EmptySet
    <3>7. \A j \in 1..Backups : Len(archive'[j]) <= Room + Cardinality(Writers) - 1
      <4> SUFFICES ASSUME NEW j \in 1..Backups
                   PROVE  Len(archive'[j]) <= Room + Cardinality(Writers) - 1
        OBVIOUS
      <4>1. j \in 0..Backups
        OBVIOUS
      <4>2. CASE j = i
        <5>1. Len(archive'[j]) = 0
          BY <2>2, <4>1, <4>2, EmptySeq
        <5> QED
          BY <1>0, <3>3, <3>6, <5>1
      <4>3. CASE j = i + 1
        BY <1>0, <2>2, <3>5, <4>1, <4>3
      <4>4. CASE j # i /\ j # i + 1
        BY <2>2, <3>5, <4>1, <4>4
      <4> QED
        BY <4>2, <4>3, <4>4
    <3>8. Len(archive'[0]) + Cardinality(Appending') <= Room + Cardinality(Writers) - 1
      <4>1. CASE i = 0
        <5>1. Len(archive'[0]) = 0
          BY <1>0, <2>2, <4>1, EmptySeq
        <5> QED
          BY <1>0, <3>3, <5>1
      <4>2. CASE i # 0
        <5>1. archive'[0] = archive[0] /\ Appending' = Appending
          BY <1>0, <2>2, <3>1, <3>2, <4>2
        <5> QED
          BY <1>0, <5>1 DEF RoomLeft
      <4> QED
        BY <4>1, <4>2
    <3> QED
      BY <3>7, <3>8 DEF RoomLeft
  <2>5. ASSUME "overlap" \notin disturbed
        PROVE  /\ Alone' /\ InOrder' /\ Hole = i + 1 /\ Hole' = i
               /\ i < Backups => Held' = Held
    <3>1. /\ Alone /\ InOrder /\ Hole = i + 1
          /\ \A v \in Writers : v # w => step[v] = Quiet
      BY <1>2, <2>5, Others
    <3>2. i < Backups => archive[i + 1] = <<>>
      BY <1>0, <3>1 DEF Alone
    <3>3. InOrder' /\ (i < Backups => Held' = Held)
      BY <1>0, <1>1, <2>1, <3>1, <3>2, MovedInOrder
    <3>4. Moving(After(i)) => archive'[After(i).at + 1] = <<>>
      BY <1>0, <2>2, AfterKinds
    <3>5. After(i) \in Steps /\ After(i).pc # "move"
      BY <1>0, AfterKinds
    <3>6. Alone' /\ Hole' = IF Moving(After(i)) THEN After(i).at + 1 ELSE 0
      BY <1>0, <2>1, <3>1, <3>4, <3>5, AloneAfter
    <3> QED
      BY <1>0, <3>1, <3>3, <3>6, AfterKinds
  <2>6. ASSUME disturbed = {}
        PROVE  Filled'
    <3>1. Filled /\ Hole = i + 1 /\ Hole' = i
      BY <2>5, <2>6 DEF IInv
    <3>2. \A j \in 0..Backups : j <= i => Len(archive[j]) >= Room
      BY <1>0, <1>4, <3>1 DEF Filled
    <3>3. ASSUME NEW j \in 0..Backups, NEW l \in 0..Backups,
                 archive'[j] # <<>>, l <= j, l # i
          PROVE  Len(archive'[l]) >= Room
      <4>1. CASE l = i + 1
        BY <1>0, <2>2, <3>2, <4>1
      <4>2. CASE l < i
        BY <1>0, <2>2, <3>2, <4>2
      <4>3. CASE l > i + 1
        <5>1. archive[j] # <<>> /\ archive'[l] = archive[l]
          BY <1>0, <2>2, <3>3, <4>3
        <5> QED
          BY <1>0, <3>1, <3>3, <4>3, <5>1 DEF Filled
      <4> QED
        BY <1>0, <3>3, <4>1, <4>2, <4>3
    <3>4. ASSUME written # 0, 1 \notin Held', NEW l \in 0..Backups, l # i
          PROVE  Len(archive'[l]) >= Room
      <4>1. CASE i = Backups
        BY <1>0, <2>2, <3>2, <3>4, <4>1
      <4>2. CASE i < Backups
        <5>1. 1 \notin Held
          BY <2>5, <2>6, <3>4, <4>2
        <5>2. \A j \in 0..Backups : j # i + 1 => Len(archive[j]) >= Room
          BY <3>1, <3>4, <5>1 DEF Filled
        <5> QED
          BY <1>0, <2>2, <3>4, <5>2
      <4> QED
        BY <1>0, <4>1, <4>2
    <3> QED
      BY <1>1, <3>1, <3>3, <3>4 DEF Filled
  <2> QED
    BY <1>1, <2>3, <2>4, <2>5, <2>6 DEF IInv
<1> QED
  BY <1>3, <1>4

LEMMA AppendStep ==
  ASSUME IInv, NEW w \in Writers, LogAppend(w)
  PROVE  IInv'
<1>0. /\ Backups \in Nat \ {0} /\ Room \in Nat \ {0} /\ LogTypeOK /\ RoomLeft
      /\ step[w] \in Steps /\ written \in Nat /\ 0 \in 0..Backups
      /\ archive[0] \in Seq(Nat) /\ Len(archive[0]) \in Nat
  BY ErrorLogAssumption, StepKinds DEF IInv, LogTypeOK
<1>1. /\ step[w].pc = "append" /\ written' = written + 1 /\ disturbed' = disturbed
      /\ archive' = [archive EXCEPT ![0] = Append(@, written')]
      /\ step' = [step EXCEPT ![w] = Quiet]
  BY DEF LogAppend
<1>2. step[w] # Quiet /\ ~ Moving(step[w])
  BY <1>0, <1>1, StepKinds
<1>3. /\ archive'[0] = Append(archive[0], written')
      /\ \A j \in 1..Backups : archive'[j] = archive[j]
  BY <1>0, <1>1 DEF LogTypeOK
<1>4. /\ Append(archive[0], written') \in Seq(Nat)
      /\ Append(archive[0], written') # <<>>
      /\ Len(archive'[0]) = Len(archive[0]) + 1
  BY <1>0, <1>1, <1>3, AppendProperties
<1>5. LogTypeOK'
  BY <1>0, <1>1, <1>4, StepKinds DEF LogTypeOK
<1>6. RoomLeft'
  <2>1. Appending' = Appending \ {w}
    BY <1>0, <1>1, StepKinds, AppendingAfter
  <2>2. w \in Appending /\ Appending \in SUBSET Writers
    BY <1>1 DEF Appending
  <2>3. /\ Cardinality(Appending') = Cardinality(Appending) - 1
        /\ Cardinality(Appending) \in Nat /\ Cardinality(Writers) \in Nat
    BY <2>1, <2>2, Counts, FS_RemoveElement
  <2>4. Len(archive'[0]) + Cardinality(Appending') = Len(archive[0]) + Cardinality(Appending)
    BY <1>0, <1>4, <2>3
  <2>5. Len(archive'[0]) + Cardinality(Appending') <= Room + Cardinality(Writers) - 1
    BY <1>0, <2>4 DEF RoomLeft
  <2>6. \A j \in 1..Backups : Len(archive'[j]) <= Room + Cardinality(Writers) - 1
    BY <1>0, <1>3 DEF RoomLeft
  <2> QED
    BY <2>5, <2>6 DEF RoomLeft
<1>7. ASSUME "overlap" \notin disturbed
      PROVE  Alone' /\ InOrder' /\ Held' = Held \cup {written'} /\ Hole = 0 /\ Hole' = 0
  <2>1. Alone /\ InOrder /\ Hole = 0 /\ \A v \in Writers : v # w => step[v] = Quiet
    BY <1>2, <1>7, Others
  <2>2. Alone' /\ Hole' = 0
    BY <1>0, <1>1, <2>1, StepKinds, AloneAfter
  <2> QED
    BY <1>0, <1>1, <2>1, <2>2, AppendedInOrder
<1>8. ASSUME disturbed = {}
      PROVE  Filled'
  <2>1. Filled /\ Hole = 0 /\ Hole' = 0 /\ Held' = Held \cup {written'}
    BY <1>7, <1>8 DEF IInv
  <2>2. ASSUME NEW i \in 0..Backups, NEW j \in 0..Backups, archive'[j] # <<>>, i <= j, i # 0
        PROVE  Len(archive'[i]) >= Room
    BY <1>0, <1>3, <2>1, <2>2 DEF Filled
  <2>3. ASSUME 1 \notin Held', NEW i \in 0..Backups, i # 0
        PROVE  Len(archive'[i]) >= Room
    <3>1. written # 0 /\ 1 \notin Held
      BY <1>0, <1>1, <2>1, <2>3
    <3> QED
      BY <1>0, <1>3, <2>1, <2>3, <3>1 DEF Filled
  <2> QED
    BY <2>1, <2>2, <2>3 DEF Filled
<1> QED
  BY <1>1, <1>5, <1>6, <1>7, <1>8 DEF IInv

LEMMA KillStep ==
  ASSUME IInv, NEW w \in Writers, LogKill(w)
  PROVE  IInv'
<1>0. LogTypeOK /\ RoomLeft
  BY DEF IInv
<1>1. /\ step[w] # Quiet /\ step' = [step EXCEPT ![w] = Quiet]
      /\ archive' = archive /\ written' = written /\ disturbed' = disturbed \cup {"kill"}
  BY DEF LogKill
<1>2. LogTypeOK'
  BY <1>0, <1>1, StepKinds DEF LogTypeOK
<1>3. RoomLeft'
  BY <1>0, <1>1, StepKinds, RoomForNone
<1>4. ASSUME "overlap" \notin disturbed'
      PROVE  Alone' /\ InOrder'
  <2>1. Alone /\ InOrder /\ \A v \in Writers : v # w => step[v] = Quiet
    BY <1>1, <1>4, Others
  <2>2. Alone'
    BY <1>0, <1>1, <2>1, StepKinds, AloneAfter
  <2> QED
    BY <1>1, <2>1, <2>2, OrderKept
<1> QED
  BY <1>1, <1>2, <1>3, <1>4 DEF IInv

LEMMA Stutter == IInv /\ UNCHANGED logVars => IInv'
<1> SUFFICES ASSUME IInv, UNCHANGED logVars PROVE IInv'
  OBVIOUS
<1>1. archive' = archive /\ step' = step /\ written' = written /\ disturbed' = disturbed
  BY DEF logVars
<1>2. Held' = Held /\ Hole' = Hole /\ Appending' = Appending
  BY <1>1 DEF Held, Hole, HoleOf, Appending
<1>3. /\ LogTypeOK => LogTypeOK'
      /\ RoomLeft => RoomLeft'
  BY <1>1, <1>2 DEF LogTypeOK, RoomLeft
<1>4. InOrder => InOrder'
  BY <1>1, OrderKept
<1>5. Alone => Alone'
  BY <1>1, <1>2 DEF Alone
<1>6. Filled => Filled'
  BY <1>1, <1>2 DEF Filled
<1> QED
  BY <1>1, <1>3, <1>4, <1>5, <1>6 DEF IInv

LEMMA Inductive == LogSpec => []IInv
<1>1. IInv /\ [LogNext]_logVars => IInv'
  BY CheckStep, LookStep, MoveStep, AppendStep, KillStep, Stutter DEF LogNext
<1> QED
  BY InitInvariant, <1>1, PTL DEF LogSpec

---------------------------------------------------------------------------
\* However many processes write, rotate and are killed, no file outgrows the
\* limit by more than one record for each other process (errors.py:write, which
\* decides on a size read before).
THEOREM FilesStaySmall == LogSpec => []LogStaysSmall
<1>1. IInv => LogStaysSmall
  <2> SUFFICES ASSUME IInv, NEW i \in 0..Backups
               PROVE  Len(archive[i]) <= Room + Cardinality(Writers) - 1
    BY DEF LogStaysSmall
  <2>1. /\ Backups \in Nat /\ Room \in Nat /\ archive[i] \in Seq(Nat) /\ Len(archive[i]) \in Nat
        /\ 0 \in 0..Backups /\ archive[0] \in Seq(Nat) /\ Len(archive[0]) \in Nat
    BY ErrorLogAssumption DEF IInv, LogTypeOK
  <2>2. Appending \in SUBSET Writers
    BY DEF Appending
  <2>3. Cardinality(Appending) \in Nat /\ Cardinality(Writers) \in Nat
    BY <2>2, Counts
  <2> QED
    BY <2>1, <2>3 DEF IInv, RoomLeft
<1> QED
  BY Inductive, <1>1, PTL

LEMMA NatMinimum ==
  ASSUME NEW S \in SUBSET Nat, S # {}
  PROVE  \E x \in S : \A y \in S : x <= y
<1>1. PICK x \in S : \A y \in S : ~ (<<y, x>> \in OpToRel(<, Nat))
  BY NatLessThanWellFounded, WFMin
<1>2. \A y \in S : ~ (y < x)
  BY <1>1 DEF OpToRel
<1> QED
  BY <1>2

\* As long as no two processes met, the log holds the last records, in order and
\* without a gap, even where one was killed between two renames; and without a
\* kill, once a record is gone all the files are full but one
\* (errors.py:_rotate).
THEOREM OldestGoFirst == LogSpec => []LogLosesOldestOnly
<1>1. IInv => LogLosesOldestOnly
  <2> SUFFICES ASSUME IInv, "overlap" \notin disturbed
               PROVE  /\ OldestLast
                      /\ \E first \in 1..written + 1 : Held = first..written
                      /\ "kill" \notin disturbed /\ written # 0 /\ 1 \notin Held =>
                           \E h \in 0..Backups : \A i \in (0..Backups) \ {h} :
                             Len(archive[i]) >= Room
    BY DEF LogLosesOldestOnly
  <2>0. /\ Backups \in Nat \ {0} /\ Room \in Nat \ {0} /\ written \in Nat
        /\ Alone /\ InOrder /\ disturbed \subseteq {"overlap", "kill"}
    BY ErrorLogAssumption DEF IInv, LogTypeOK
  <2>1. OldestLast
    BY <2>0 DEF InOrder
  <2>2. \A n \in Held : n \in 1..written
    BY <2>0, HeldIs DEF InOrder
  <2>3. \E first \in 1..written + 1 : Held = first..written
    <3>1. CASE Held = {}
      BY <2>0, <3>1
    <3>2. CASE Held # {}
      <4>1. Held \in SUBSET Nat
        BY <2>2
      <4>2. PICK first \in Held : \A n \in Held : first <= n
        BY <3>2, <4>1, NatMinimum
      <4>3. first..written \subseteq Held
        BY <2>0, <4>2 DEF InOrder
      <4>4. Held \subseteq first..written
        BY <2>2, <4>2
      <4>5. first \in 1..written + 1
        BY <2>0, <2>2, <4>2
      <4>6. Held = first..written
        BY <4>3, <4>4, Zenon
      <4> QED
        BY <4>5, <4>6
    <3> QED
      BY <3>1, <3>2
  <2>4. ASSUME "kill" \notin disturbed, written # 0, 1 \notin Held
        PROVE  \E h \in 0..Backups : \A i \in (0..Backups) \ {h} : Len(archive[i]) >= Room
    <3>1. disturbed = {}
      BY <2>0, <2>4
    <3>2. \A i \in 0..Backups : i # Hole => Len(archive[i]) >= Room
      BY <2>4, <3>1 DEF IInv, Filled
    <3>3. CASE Hole \in 0..Backups
      BY <3>2, <3>3
    <3>4. CASE Hole \notin 0..Backups
      BY <2>0, <3>2, <3>4
    <3> QED
      BY <3>3, <3>4
  <2> QED
    BY <2>1, <2>3, <2>4
<1> QED
  BY Inductive, <1>1, PTL
=============================================================================
