------------------------- MODULE ReportStore_proofs -------------------------
(***************************************************************************)
(* Theorems about ReportStore, for every value of its constants.           *)
(***************************************************************************)
EXTENDS ReportStore, FiniteSetTheorems, SequenceTheorems, TLAPS

---------------------------------------------------------------------------
(* The inductive invariant                                                 *)

Rows == [id : Ids, key : Asked, n : Nat]

\* A report stands under the name of its session.
Filed(f, name) ==
  /\ RowOf(f[name]) \in Rows /\ RowOf(f[name]).key = name
  /\ RowOf(f[name]).id = NamedId(name) /\ RowOf(f[name]).n = f[name].n

SaverOK(s) ==
  s # NoSaver => \E r \in RootIds, i \in Ids, n \in Nat :
    s = [pc |-> s.pc, n |-> n, key |-> KeyName(r, i), row |-> Report(r, i, n)]

StoreTypeOK ==
  /\ \A w \in Savers : SaverOK(saver[w])
  /\ saver = [w \in Savers |-> saver[w]]
  /\ reader # NoReader =>
       reader = [pc |-> reader.pc, asked |-> reader.asked, todo |-> reader.todo,
                 got |-> reader.got, before |-> reader.before]
  /\ reports \in Nat /\ versions \in Nat
  /\ \A name \in Stored(folder) : Filed(folder, name) /\ folder[name].n <= versions

\* What was there when the reader began is still there, or a later version.
StillThere ==
  reader # NoReader =>
    /\ \A name \in Stored(reader.before) :
         /\ Filed(reader.before, name)
         /\ name \in Stored(folder) /\ folder[name].n >= reader.before[name].n
    /\ \A name \in DOMAIN folder : Raises(folder[name]) =>
         name \in DOMAIN reader.before /\ reader.before[name].kind = folder[name].kind
    /\ reader.todo \subseteq DOMAIN reader.before

\* A row of a listing is of a report that is there, or of an earlier version.
Stands(row) ==
  /\ row.key \in Stored(folder) /\ row.id = NamedId(row.key)
  /\ row.n <= folder[row.key].n

Listing ==
  /\ reader.pc \in {"list", "listed"} =>
       /\ reader.got \in Seq(Rows)
       /\ \A k \in DOMAIN reader.got : Stands(reader.got[k])
       /\ \A j, k \in DOMAIN reader.got : j # k => reader.got[j].key # reader.got[k].key
  /\ reader.pc = "list" =>
       /\ \A k \in DOMAIN reader.got : reader.got[k].key \notin reader.todo
       /\ \A name \in Stored(reader.before) \ reader.todo : \E k \in DOMAIN reader.got :
            reader.got[k].key = name /\ reader.got[k].n >= reader.before[name].n
  /\ reader.pc = "listed" =>
       \A name \in Stored(reader.before) :
         Within(RowOf(reader.before[name]), reader.asked) => \E k \in DOMAIN reader.got :
           reader.got[k].key = name /\ reader.got[k].n >= reader.before[name].n
  /\ reader.pc = "aborted" => \E name \in DOMAIN reader.before : Raises(reader.before[name])

\* The file of that name, or one of a session that goes by it.
GoesBy(name, what) == what \in {name, BareName(NamedId(name))}

LookingUp ==
  /\ reader.pc = "get" =>
       /\ reader.asked \in Asked /\ reader.asked \notin DOMAIN reader.before
       /\ reader.got # <<>> => BareName(reader.got[1].id) = reader.asked
       /\ \A name \in Stored(reader.before) \ reader.todo :
            GoesBy(name, reader.asked) => reader.got # <<>> /\ reader.got[1].key = name
  /\ reader.pc = "found" =>
       /\ reader.asked \in {reader.got[1].key, BareName(reader.got[1].id)}
       /\ \/ reader.asked \in DOMAIN reader.before
          \/ \A name \in Stored(reader.before) :
               GoesBy(name, reader.asked) => name = reader.got[1].key
  /\ reader.pc = "none" =>
       \/ reader.asked \in DOMAIN reader.before
       \/ \A name \in Stored(reader.before) : ~ GoesBy(name, reader.asked)

IInv == StoreTypeOK /\ StillThere /\ Listing /\ LookingUp
---------------------------------------------------------------------------
(* Names and rows                                                          *)

LEMMA NamesDiffer ==
  /\ \A r, i : KeyName(r, i) # <<>> /\ Len(KeyName(r, i)) = 2 /\ NamedId(KeyName(r, i)) = i
  /\ \A i : Len(BareName(i)) = 1 /\ NamedId(BareName(i)) = i
  /\ \A n : Len(TempName(n)) = 3
  /\ \A r, i, j : KeyName(r, i) # BareName(j)
  /\ \A what \in Asked : IsReportFile(what) /\ NamedId(what) \in Ids
<1>1. \A r, i : KeyName(r, i) # <<>> /\ Len(KeyName(r, i)) = 2 /\ NamedId(KeyName(r, i)) = i
  BY DEF KeyName, NamedId
<1>2. \A i : Len(BareName(i)) = 1 /\ NamedId(BareName(i)) = i
  BY DEF BareName, NamedId
<1>3. \A n : Len(TempName(n)) = 3
  BY DEF TempName
<1>4. \A r, i, j : KeyName(r, i) # BareName(j)
  BY DEF KeyName, BareName
<1>5. ASSUME NEW what \in Asked
      PROVE  IsReportFile(what) /\ NamedId(what) \in Ids
  <2>1. CASE \E i \in Ids : what = BareName(i)
    <3>1. PICK i \in Ids : what = BareName(i)
      BY <2>1
    <3>2. Len(what) = 1 /\ NamedId(what) = i
      BY <1>2, <3>1
    <3> QED
      BY <3>2 DEF IsReportFile
  <2>2. CASE \E r \in RootIds, i \in Ids : what = KeyName(r, i)
    <3>1. PICK r \in RootIds, i \in Ids : what = KeyName(r, i)
      BY <2>2
    <3>2. Len(what) = 2 /\ NamedId(what) = i
      BY <1>1, <3>1
    <3> QED
      BY <3>2 DEF IsReportFile
  <2> QED
    BY <2>1, <2>2 DEF Asked
<1> QED
  BY <1>1, <1>2, <1>3, <1>4, <1>5

\* What a directory is after a file was put into it, or taken from it.
LEMMA PutIs ==
  ASSUME NEW f, NEW name, NEW c
  PROVE  /\ DOMAIN Put(f, name, c) = DOMAIN f \cup {name}
         /\ Put(f, name, c)[name] = c
         /\ \A x \in DOMAIN f : x # name => Put(f, name, c)[x] = f[x]
  BY DEF Put

LEMMA DropIs ==
  ASSUME NEW f, NEW name
  PROVE  /\ DOMAIN Drop(f, name) = DOMAIN f \ {name}
         /\ \A x \in DOMAIN f : x # name => Drop(f, name)[x] = f[x]
  BY DEF Drop

LEMMA InitInvariant == StoreInit => IInv
<1> SUFFICES ASSUME StoreInit PROVE IInv
  OBVIOUS
<1>1. /\ folder \in EarlierFiles /\ reader = NoReader /\ reports = 0 /\ versions = 0
      /\ saver = [w \in Savers |-> NoSaver]
  BY DEF StoreInit
<1>2. ASSUME NEW name \in Stored(folder)
      PROVE  Filed(folder, name) /\ folder[name].n <= versions
  <2> DEFINE c == folder[name]
  <2>1. /\ name \in Asked /\ Readable(c) /\ RowOf(c).key = name
        /\ c.id = NamedId(name) /\ c.n = 0
    BY <1>1, EarlierAssumption DEF Stored
  <2>2. /\ RowOf(c).id = c.id /\ RowOf(c).n = c.n
        /\ RowOf(c) = [id |-> RowOf(c).id, key |-> RowOf(c).key, n |-> RowOf(c).n]
    BY DEF RowOf
  <2>3. NamedId(name) \in Ids
    BY <2>1, NamesDiffer
  <2> HIDE DEF c
  <2>4. RowOf(c) \in Rows
    BY <2>1, <2>2, <2>3 DEF Rows
  <2> QED
    BY <1>1, <2>1, <2>2, <2>4 DEF Filed, c
<1>3. StoreTypeOK
  BY <1>1, <1>2 DEF StoreTypeOK, SaverOK
<1>4. reader.pc = "idle"
  BY <1>1 DEF NoReader
<1> QED
  BY <1>1, <1>3, <1>4 DEF IInv, StillThere, Listing, LookingUp

---------------------------------------------------------------------------
(* The writers                                                             *)

\* Writers replace a report by a later one of the same session, and add none
\* of the odd files.
Grows ==
  /\ \A name \in Stored(folder) : name \in Stored(folder') /\ folder'[name].n >= folder[name].n
  /\ \A name \in DOMAIN folder' : Raises(folder'[name]) =>
       name \in DOMAIN folder /\ folder[name].kind = folder'[name].kind
  /\ \A name \in Stored(folder') : Filed(folder', name) /\ folder'[name].n <= versions'
  /\ versions \in Nat /\ versions' \in Nat

\* What a reader knows of the directory stays true while it grows.
LEMMA ReaderKept ==
  ASSUME IInv, Grows, reader' = reader
  PROVE  StillThere' /\ Listing' /\ LookingUp'
<1>0. \A name \in Stored(folder) : folder[name].n \in Nat /\ folder[name].n <= versions
  BY DEF IInv, StoreTypeOK, Filed, Rows
<1>1. \A name \in Stored(folder') : folder'[name].n \in Nat
  BY DEF Grows, Filed, Rows
<1>2. StillThere'
  <2> SUFFICES ASSUME reader # NoReader
               PROVE  /\ \A name \in Stored(reader.before) :
                           name \in Stored(folder') /\ folder'[name].n >= reader.before[name].n
                      /\ \A name \in DOMAIN folder' : Raises(folder'[name]) =>
                           /\ name \in DOMAIN reader.before
                           /\ reader.before[name].kind = folder'[name].kind
    BY DEF IInv, StillThere, Filed
  <2>1. ASSUME NEW name \in Stored(reader.before)
        PROVE  name \in Stored(folder') /\ folder'[name].n >= reader.before[name].n
    <3>1. /\ name \in Stored(folder) /\ folder[name].n >= reader.before[name].n
          /\ reader.before[name].n \in Nat
      BY DEF IInv, StillThere, Filed, Rows
    <3>2. name \in Stored(folder') /\ folder'[name].n >= folder[name].n
      BY <3>1 DEF Grows
    <3> QED
      BY <1>0, <1>1, <3>1, <3>2
  <2>2. ASSUME NEW name \in DOMAIN folder', Raises(folder'[name])
        PROVE  name \in DOMAIN reader.before /\ reader.before[name].kind = folder'[name].kind
    <3>1. name \in DOMAIN folder /\ folder[name].kind = folder'[name].kind
      BY <2>2 DEF Grows
    <3>2. Raises(folder[name])
      BY <2>2, <3>1 DEF Raises
    <3> QED
      BY <3>1, <3>2 DEF IInv, StillThere
  <2> QED
    BY <2>1, <2>2
<1>3. ASSUME NEW row \in Rows, Stands(row)
      PROVE  Stands(row)'
  <2>1. /\ row.key \in Stored(folder) /\ row.n <= folder[row.key].n /\ row.n \in Nat
        /\ row.id = NamedId(row.key)
    BY <1>3 DEF Stands, Rows
  <2>2. row.key \in Stored(folder') /\ folder'[row.key].n >= folder[row.key].n
    BY <2>1 DEF Grows
  <2>3. row.n <= folder'[row.key].n
    BY <1>0, <1>1, <2>1, <2>2
  <2> QED
    BY <2>1, <2>2, <2>3 DEF Stands
<1>4. Listing'
  <2>1. ASSUME reader.pc \in {"list", "listed"}, NEW k \in DOMAIN reader.got
        PROVE  Stands(reader.got[k])'
    <3>1. reader.got \in Seq(Rows) /\ Stands(reader.got[k])
      BY <2>1 DEF IInv, Listing
    <3>2. reader.got[k] \in Rows
      BY <3>1
    <3>3. PICK row \in Rows : row = reader.got[k]
      BY <3>2
    <3>4. row = reader'.got[k] /\ Stands(row)'
      BY <1>3, <3>1, <3>3
    <3> QED
      BY <3>4 DEF Stands
  <2>2. Listing
    BY DEF IInv
  <2> QED
    BY <2>1, <2>2 DEF Listing, Stands
<1>5. LookingUp'
  BY DEF IInv, LookingUp
<1> QED
  BY <1>2, <1>4, <1>5

\* A file that is no report may come, change and go.
LEMMA GrowsBeside ==
  ASSUME IInv, NEW n, versions' = versions,
         DOMAIN folder' \ {TempName(n)} = DOMAIN folder \ {TempName(n)},
         \A x \in DOMAIN folder : x # TempName(n) => folder'[x] = folder[x],
         TempName(n) \in DOMAIN folder' => ~ Raises(folder'[TempName(n)])
  PROVE  Grows
<1>1. ~ IsReportFile(TempName(n))
  BY NamesDiffer DEF IsReportFile
<1>2. Stored(folder') = Stored(folder)
  BY <1>1 DEF Stored
<1>3. \A name \in Stored(folder) : folder'[name] = folder[name]
  BY <1>1 DEF Stored
<1>4. versions \in Nat /\ \A name \in Stored(folder) :
        Filed(folder, name) /\ folder[name].n \in Nat /\ folder[name].n <= versions
  BY DEF IInv, StoreTypeOK, Filed, Rows
<1>5. \A name \in Stored(folder) : Filed(folder', name) /\ folder'[name].n >= folder[name].n
  BY <1>3, <1>4 DEF Filed
<1> QED
  BY <1>2, <1>3, <1>4, <1>5 DEF Grows

LEMMA TempPut ==
  ASSUME IInv, NEW n, NEW c, ~ Raises(c), versions' = versions,
         folder' = Put(folder, TempName(n), c)
  PROVE  Grows
<1> DEFINE temp == TempName(n)
<1>1. /\ DOMAIN Put(folder, temp, c) = DOMAIN folder \cup {temp}
      /\ Put(folder, temp, c)[temp] = c
      /\ \A x \in DOMAIN folder : x # temp => Put(folder, temp, c)[x] = folder[x]
  <2> HIDE DEF temp
  <2> QED
    BY DEF Put
<1>2. /\ DOMAIN folder' \ {temp} = DOMAIN folder \ {temp}
      /\ \A x \in DOMAIN folder : x # temp => folder'[x] = folder[x]
      /\ folder'[temp] = c
  <2> HIDE DEF temp
  <2> QED
    BY <1>1 DEF temp
<1>3. ~ Raises(folder'[temp])
  BY <1>2
<1> QED
  BY <1>2, <1>3, GrowsBeside

LEMMA TempDrop ==
  ASSUME IInv, NEW n, versions' = versions, folder' = Drop(folder, TempName(n))
  PROVE  Grows
<1> DEFINE temp == TempName(n)
<1>1. /\ DOMAIN Drop(folder, temp) = DOMAIN folder \ {temp}
      /\ \A x \in DOMAIN folder : x # temp => Drop(folder, temp)[x] = folder[x]
  BY DropIs
<1>2. /\ DOMAIN folder' \ {temp} = DOMAIN folder \ {temp}
      /\ \A x \in DOMAIN folder : x # temp => folder'[x] = folder[x]
      /\ temp \notin DOMAIN folder'
  <2> HIDE DEF temp
  <2> QED
    BY <1>1 DEF temp
<1> QED
  BY <1>2, GrowsBeside

LEMMA ReportIs ==
  \A r, i, n : LET c == Report(r, i, n) IN
    /\ c.kind = "v2" /\ c.id = i /\ c.key = KeyName(r, i) /\ c.n = n
    /\ Readable(c) /\ ~ Raises(c)
  BY DEF Report, Readable, Raises

LEMMA TornIs == ~ Raises(Torn) /\ ~ Readable(Torn)
  BY DEF Torn, Raises, Readable

\* A writer's step, as far as the reader and the writers themselves go.
LEMMA WriterTyped ==
  ASSUME IInv, Grows, reader' = reader, reports' \in Nat, NEW w \in Savers, NEW s, SaverOK(s),
         saver' = [saver EXCEPT ![w] = s]
  PROVE  IInv'
<1>1. /\ \A v \in Savers : SaverOK(saver[v])
      /\ saver = [v \in Savers |-> saver[v]]
  BY DEF IInv, StoreTypeOK
<1>2. /\ \A v \in Savers : SaverOK(saver'[v])
      /\ saver' = [v \in Savers |-> saver'[v]]
  BY <1>1
<1>3. StoreTypeOK'
  BY <1>2 DEF IInv, StoreTypeOK, Grows
<1> QED
  BY <1>3, ReaderKept DEF IInv

LEMMA SaverKinds ==
  /\ SaverOK(NoSaver) /\ NoSaver.pc = "idle"
  /\ \A s : s.pc # "idle" => s # NoSaver
  /\ \A r \in RootIds, i \in Ids, n \in Nat, pc \in {"open", "full"} :
       SaverOK([pc |-> pc, n |-> n, key |-> KeyName(r, i), row |-> Report(r, i, n)])
  BY DEF NoSaver, SaverOK

LEMMA OpenStep ==
  ASSUME IInv, NEW w \in Savers, WriteOpen(w)
  PROVE  IInv'
<1>1. /\ reports \in Nat /\ reports' = reports + 1 /\ versions' = versions /\ reader' = reader
      /\ folder' = Put(folder, TempName(reports'), Torn)
  BY DEF WriteOpen, IInv, StoreTypeOK
<1>2. PICK r \in RootIds, i \in Ids :
        saver' = [saver EXCEPT ![w] = [pc |-> "open", n |-> reports', key |-> KeyName(r, i),
                                       row |-> Report(r, i, reports')]]
  BY DEF WriteOpen
<1>3. Grows
  BY <1>1, TornIs, TempPut
<1> DEFINE s == [pc |-> "open", n |-> reports', key |-> KeyName(r, i), row |-> Report(r, i, reports')]
<1>4. reports' \in Nat
  BY <1>1
<1>5. SaverOK(s)
  BY <1>4, SaverKinds
<1>6. saver' = [saver EXCEPT ![w] = s]
  BY <1>2
<1> HIDE DEF s
<1> QED
  BY <1>1, <1>3, <1>4, <1>5, <1>6, WriterTyped

LEMMA FillStep ==
  ASSUME IInv, NEW w \in Savers, WriteFill(w)
  PROVE  IInv'
<1>1. /\ saver[w].pc = "open" /\ reports' = reports /\ versions' = versions /\ reader' = reader
      /\ folder' = Put(folder, TempName(saver[w].n), saver[w].row)
      /\ saver' = [saver EXCEPT ![w].pc = "full"] /\ reports \in Nat
  BY DEF WriteFill, IInv, StoreTypeOK
<1>2. PICK r \in RootIds, i \in Ids, n \in Nat :
        saver[w] = [pc |-> "open", n |-> n, key |-> KeyName(r, i), row |-> Report(r, i, n)]
  BY <1>1, SaverKinds DEF IInv, StoreTypeOK, SaverOK
<1>3. Grows
  <2>1. ~ Raises(saver[w].row)
    BY <1>2, ReportIs
  <2> QED
    BY <1>1, <2>1, TempPut
<1> DEFINE s == [pc |-> "full", n |-> n, key |-> KeyName(r, i), row |-> Report(r, i, n)]
<1>4. SaverOK(s)
  BY SaverKinds
<1>5. [saver[w] EXCEPT !.pc = "full"] = s
  BY <1>2
<1> HIDE DEF s
<1>6. saver' = [saver EXCEPT ![w] = s]
  BY <1>1, <1>5
<1> QED
  BY <1>1, <1>3, <1>4, <1>6, WriterTyped

LEMMA RenameStep ==
  ASSUME IInv, NEW w \in Savers, WriteRename(w)
  PROVE  IInv'
<1>1. /\ saver[w].pc = "full" /\ versions' = versions + 1 /\ reports' = reports /\ reader' = reader
      /\ folder' = Drop(Put(folder, saver[w].key, [saver[w].row EXCEPT !.n = versions']),
                        TempName(saver[w].n))
      /\ saver' = [saver EXCEPT ![w] = NoSaver] /\ reports \in Nat /\ versions \in Nat
  BY DEF WriteRename, IInv, StoreTypeOK
<1>2. PICK r \in RootIds, i \in Ids, n \in Nat :
        saver[w] = [pc |-> "full", n |-> n, key |-> KeyName(r, i), row |-> Report(r, i, n)]
  BY <1>1, SaverKinds DEF IInv, StoreTypeOK, SaverOK
<1> DEFINE key == KeyName(r, i)
           new == Report(r, i, versions')
           temp == TempName(n)
<1>3. [saver[w].row EXCEPT !.n = versions'] = new
  BY <1>2 DEF Report
<1>4. key # temp /\ IsReportFile(key) /\ ~ IsReportFile(temp) /\ key \in Asked
  <2>1. Len(key) = 2 /\ Len(temp) = 3
    BY NamesDiffer
  <2>2. key \in Asked
    BY DEF Asked
  <2> QED
    BY <2>1, <2>2 DEF IsReportFile
<1>5. /\ DOMAIN folder' = (DOMAIN folder \cup {key}) \ {temp}
      /\ folder'[key] = new
      /\ \A x \in DOMAIN folder : x # key /\ x # temp => folder'[x] = folder[x]
  <2>1. folder' = Drop(Put(folder, key, new), temp)
    BY <1>1, <1>2, <1>3
  <2> HIDE DEF key, new, temp
  <2> DEFINE put == Put(folder, key, new)
  <2>2. /\ DOMAIN put = DOMAIN folder \cup {key} /\ put[key] = new
        /\ \A x \in DOMAIN folder : x # key => put[x] = folder[x]
    BY DEF Put
  <2>3. /\ DOMAIN Drop(put, temp) = DOMAIN put \ {temp}
        /\ \A x \in DOMAIN put : x # temp => Drop(put, temp)[x] = put[x]
    BY DropIs
  <2>4. folder' = Drop(put, temp)
    BY <2>1
  <2> HIDE DEF put
  <2> QED
    BY <1>4, <2>2, <2>3, <2>4
<1>6. Filed(folder', key) /\ folder'[key].n = versions' /\ Readable(folder'[key]) /\ ~ Raises(folder'[key])
  <2>0. /\ new.kind = "v2" /\ new.id = i /\ new.key = key /\ new.n = versions'
        /\ Readable(new) /\ ~ Raises(new)
    BY ReportIs
  <2>1. /\ RowOf(new) = [id |-> i, key |-> key, n |-> versions']
        /\ new.n = versions' /\ Readable(new) /\ ~ Raises(new)
    <3> HIDE DEF new, key
    <3> QED
      BY <2>0 DEF RowOf
  <2>2. NamedId(key) = i
    BY NamesDiffer
  <2>3. versions' \in Nat
    BY <1>1
  <2>4. folder'[key] = new
    BY <1>5
  <2>6. /\ RowOf(new).key = key /\ RowOf(new).id = i /\ RowOf(new).n = versions'
    BY <2>1
  <2> HIDE DEF new, key
  <2>5. RowOf(new) \in Rows
    BY <1>4, <2>1, <2>3 DEF Rows
  <2> QED
    BY <2>1, <2>2, <2>4, <2>5, <2>6 DEF Filed
<1> HIDE DEF key, new, temp
<1>7. Stored(folder') = Stored(folder) \cup {key}
  BY <1>4, <1>5, <1>6 DEF Stored
<1>8. \A name \in Stored(folder) : name # key => folder'[name] = folder[name]
  BY <1>4, <1>5 DEF Stored
<1>9. \A name \in Stored(folder) :
        Filed(folder, name) /\ folder[name].n \in Nat /\ folder[name].n <= versions
  BY DEF IInv, StoreTypeOK, Filed, Rows
<1>10. ASSUME NEW name \in Stored(folder')
       PROVE  Filed(folder', name) /\ folder'[name].n <= versions'
  <2>1. CASE name = key
    BY <1>1, <1>6, <2>1
  <2>2. CASE name # key
    <3>1. folder'[name] = folder[name] /\ name \in Stored(folder)
      BY <1>7, <1>8, <2>2
    <3> QED
      BY <1>1, <1>9, <3>1 DEF Filed
  <2> QED
    BY <2>1, <2>2
<1>11. ASSUME NEW name \in Stored(folder)
       PROVE  name \in Stored(folder') /\ folder'[name].n >= folder[name].n
  <2>1. CASE name = key
    BY <1>1, <1>6, <1>7, <1>9, <2>1
  <2>2. CASE name # key
    BY <1>7, <1>8, <1>9, <2>2
  <2> QED
    BY <2>1, <2>2
<1>12. ASSUME NEW name \in DOMAIN folder', Raises(folder'[name])
       PROVE  name \in DOMAIN folder /\ folder[name].kind = folder'[name].kind
  BY <1>5, <1>6, <1>12
<1>13. Grows
  BY <1>1, <1>10, <1>11, <1>12 DEF Grows
<1> QED
  BY <1>1, <1>13, SaverKinds, WriterTyped

LEMMA FailsStep ==
  ASSUME IInv, NEW w \in Savers, WriteFails(w)
  PROVE  IInv'
<1>1. /\ reports' = reports /\ versions' = versions /\ reader' = reader
      /\ folder' = Drop(folder, TempName(saver[w].n))
      /\ saver' = [saver EXCEPT ![w] = NoSaver] /\ reports \in Nat
  BY DEF WriteFails, IInv, StoreTypeOK
<1>2. Grows
  BY <1>1, TempDrop
<1> QED
  BY <1>1, <1>2, SaverKinds, WriterTyped

LEMMA KilledStep ==
  ASSUME IInv, NEW w \in Savers, WriterKilled(w)
  PROVE  IInv'
<1>1. /\ reports' = reports /\ versions' = versions /\ reader' = reader /\ folder' = folder
      /\ saver' = [saver EXCEPT ![w] = NoSaver] /\ reports \in Nat /\ versions \in Nat
  BY DEF WriterKilled, IInv, StoreTypeOK
<1>2. \A name \in Stored(folder) :
        Filed(folder, name) /\ folder[name].n \in Nat /\ folder[name].n <= versions
  BY DEF IInv, StoreTypeOK, Filed, Rows
<1>3. Grows
  BY <1>1, <1>2 DEF Grows
<1> QED
  BY <1>1, <1>3, SaverKinds, WriterTyped

---------------------------------------------------------------------------
(* The readers                                                             *)

\* What a step of a reader leaves alone.
Reads == UNCHANGED <<folder, saver, reports, versions>>

LEMMA StoreKept ==
  ASSUME IInv, Reads,
         reader' = [pc |-> reader'.pc, asked |-> reader'.asked, todo |-> reader'.todo,
                    got |-> reader'.got, before |-> reader'.before]
  PROVE  StoreTypeOK'
<1>1. folder' = folder /\ saver' = saver /\ reports' = reports /\ versions' = versions
  BY DEF Reads
<1> QED
  BY <1>1 DEF IInv, StoreTypeOK, Filed, Stored

\* A reader that began now.
LEMMA BeginsNow ==
  ASSUME IInv, Reads, reader'.before = folder, reader'.todo \subseteq DOMAIN folder
  PROVE  StillThere'
<1>1. folder' = folder
  BY DEF Reads
<1>2. ASSUME NEW name \in Stored(folder)
      PROVE  Filed(folder, name) /\ folder[name].n >= folder[name].n
  BY DEF IInv, StoreTypeOK, Filed, Rows
<1> QED
  BY <1>1, <1>2 DEF StillThere

\* A reader that goes on.
LEMMA GoesOn ==
  ASSUME IInv, Reads, reader # NoReader, reader'.before = reader.before,
         reader'.todo \subseteq reader.todo,
         reader' = [pc |-> reader'.pc, asked |-> reader'.asked, todo |-> reader'.todo,
                    got |-> reader'.got, before |-> reader'.before]
  PROVE  StoreTypeOK' /\ StillThere'
<1>1. folder' = folder
  BY DEF Reads
<1>2. StillThere'
  BY <1>1 DEF IInv, StillThere
<1> QED
  BY <1>2, StoreKept

\* What the directory holds under a name that is read.
LEMMA ContentIs ==
  ASSUME IInv, reader # NoReader, NEW name \in reader.todo, NEW c,
         c = IF name \in DOMAIN folder THEN folder[name] ELSE Torn
  PROVE  /\ name \in DOMAIN reader.before
         /\ Raises(c) => \E x \in DOMAIN reader.before : Raises(reader.before[x])
         /\ Readable(c) /\ IsReportFile(name) =>
              /\ name \in Stored(folder) /\ folder[name] = c
              /\ RowOf(c) \in Rows /\ RowOf(c).key = name /\ RowOf(c).id = NamedId(name)
              /\ RowOf(c).n = c.n
         /\ name \in Stored(reader.before) =>
              /\ Readable(c) /\ IsReportFile(name) /\ c.n >= reader.before[name].n
<1>1. name \in DOMAIN reader.before
  BY DEF IInv, StillThere
<1>2. Raises(c) => \E x \in DOMAIN reader.before : Raises(reader.before[x])
  <2> SUFFICES ASSUME Raises(c)
               PROVE  \E x \in DOMAIN reader.before : Raises(reader.before[x])
    OBVIOUS
  <2>1. name \in DOMAIN folder /\ folder[name] = c
    BY TornIs
  <2>2. reader.before[name].kind = folder[name].kind
    BY <2>1 DEF IInv, StillThere
  <2> QED
    BY <1>1, <2>1, <2>2 DEF Raises
<1>3. Readable(c) /\ IsReportFile(name) =>
        /\ name \in Stored(folder) /\ folder[name] = c
        /\ RowOf(c) \in Rows /\ RowOf(c).key = name /\ RowOf(c).id = NamedId(name)
        /\ RowOf(c).n = c.n
  <2> SUFFICES ASSUME Readable(c), IsReportFile(name)
               PROVE  /\ name \in Stored(folder) /\ folder[name] = c
                      /\ RowOf(c) \in Rows /\ RowOf(c).key = name
                      /\ RowOf(c).id = NamedId(name) /\ RowOf(c).n = c.n
    OBVIOUS
  <2>1. name \in DOMAIN folder /\ folder[name] = c
    BY TornIs
  <2>2. name \in Stored(folder)
    BY <2>1 DEF Stored
  <2>3. Filed(folder, name)
    BY <2>2 DEF IInv, StoreTypeOK
  <2> QED
    BY <2>1, <2>2, <2>3 DEF Filed
<1>4. ASSUME name \in Stored(reader.before)
      PROVE  Readable(c) /\ IsReportFile(name) /\ c.n >= reader.before[name].n
  <2>1. name \in Stored(folder) /\ folder[name].n >= reader.before[name].n
    BY <1>4 DEF IInv, StillThere
  <2>2. name \in DOMAIN folder /\ IsReportFile(name) /\ Readable(folder[name])
    BY <2>1 DEF Stored
  <2> QED
    BY <2>1, <2>2
<1> QED
  BY <1>1, <1>2, <1>3, <1>4

LEMMA ListStartStep ==
  ASSUME IInv, ListStart
  PROVE  IInv'
<1>1. PICK win \in Windows :
        reader' = [pc |-> "list", asked |-> win, todo |-> DOMAIN folder, got |-> <<>>,
                   before |-> folder]
  BY DEF ListStart
<1>2. /\ reader'.pc = "list" /\ reader'.got = <<>> /\ reader'.todo = DOMAIN folder
      /\ reader'.before = folder
  BY <1>1
<1>3. Reads
  BY DEF ListStart, Reads
<1>4. StoreTypeOK' /\ StillThere'
  BY <1>1, <1>2, <1>3, StoreKept, BeginsNow
<1>5. /\ reader'.got \in Seq(Rows) /\ DOMAIN reader'.got = {}
      /\ Stored(reader'.before) \ reader'.todo = {}
  BY <1>2 DEF Stored
<1>6. Listing' /\ LookingUp'
  BY <1>2, <1>5 DEF Listing, LookingUp
<1> QED
  BY <1>4, <1>6 DEF IInv

\* A listing that passes over a file that is no report.
LEMMA ListSkips ==
  ASSUME IInv, Reads, reader.pc = "list", NEW name \in reader.todo,
         name \notin Stored(reader.before),
         reader' = [pc |-> "list", asked |-> reader.asked, todo |-> reader.todo \ {name},
                    got |-> reader.got, before |-> reader.before]
  PROVE  IInv'
<1>1. /\ reader'.pc = "list" /\ reader'.got = reader.got /\ reader'.todo = reader.todo \ {name}
      /\ reader'.before = reader.before /\ reader'.asked = reader.asked /\ folder' = folder
  BY DEF Reads
<1>2. reader # NoReader
  BY DEF NoReader
<1>3. StoreTypeOK' /\ StillThere'
  BY <1>1, <1>2, GoesOn
<1>4. Stored(reader'.before) \ reader'.todo = Stored(reader.before) \ reader.todo
  BY <1>1
<1>5. Listing' /\ LookingUp'
  BY <1>1, <1>4 DEF IInv, Listing, LookingUp, Stands
<1> QED
  BY <1>3, <1>5 DEF IInv

\* A reader that gives up.
LEMMA Aborts ==
  ASSUME IInv, Reads, reader # NoReader, reader'.pc = "aborted",
         reader'.before = reader.before, reader'.todo \subseteq reader.todo,
         reader' = [pc |-> reader'.pc, asked |-> reader'.asked, todo |-> reader'.todo,
                    got |-> reader'.got, before |-> reader'.before],
         \E name \in DOMAIN reader.before : Raises(reader.before[name])
  PROVE  IInv'
<1>1. StoreTypeOK' /\ StillThere'
  BY GoesOn
<1>2. Listing' /\ LookingUp'
  BY DEF Listing, LookingUp
<1> QED
  BY <1>1, <1>2 DEF IInv

\* A listing that takes up the row of a report.
LEMMA ListTakes ==
  ASSUME IInv, Reads, reader.pc = "list", NEW name \in reader.todo, NEW row \in Rows,
         name \in Stored(folder), row.key = name, row.id = NamedId(name),
         row.n <= folder[name].n,
         name \in Stored(reader.before) => row.n >= reader.before[name].n,
         reader' = [pc |-> "list", asked |-> reader.asked, todo |-> reader.todo \ {name},
                    got |-> Append(reader.got, row), before |-> reader.before]
  PROVE  IInv'
<1> DEFINE got == reader.got
<1>1. /\ reader'.pc = "list" /\ reader'.got = Append(got, row)
      /\ reader'.todo = reader.todo \ {name}
      /\ reader'.before = reader.before /\ reader'.asked = reader.asked /\ folder' = folder
  BY DEF Reads
<1>2. reader # NoReader
  BY DEF NoReader
<1>3. StoreTypeOK' /\ StillThere'
  BY <1>1, <1>2, GoesOn
<1>4. got \in Seq(Rows)
  BY DEF IInv, Listing
<1>5. /\ Append(got, row) \in Seq(Rows)
      /\ DOMAIN Append(got, row) = DOMAIN got \cup {Len(got) + 1}
      /\ Len(got) + 1 \notin DOMAIN got
      /\ \A k \in DOMAIN got : Append(got, row)[k] = got[k]
      /\ Append(got, row)[Len(got) + 1] = row
  <2>1. \A n \in Nat : 1..(n + 1) = 1..n \cup {n + 1} /\ n + 1 \notin 1..n
    OBVIOUS
  <2>2. Len(got) \in Nat /\ DOMAIN got = 1..Len(got)
    BY <1>4
  <2>3. Append(got, row) \in Seq(Rows) /\ Len(Append(got, row)) = Len(got) + 1
    BY <1>4, AppendProperties
  <2>4. DOMAIN Append(got, row) = 1..(Len(got) + 1)
    BY <2>3
  <2> HIDE DEF got
  <2> QED
    BY <1>4, <2>1, <2>2, <2>3, <2>4, AppendProperties
<1>6. \A k \in DOMAIN got : /\ got[k].key \notin reader.todo
                            /\ Stands(got[k])
  BY DEF IInv, Listing
<1>7. \A j, k \in DOMAIN got : j # k => got[j].key # got[k].key
  BY DEF IInv, Listing
<1>8. \A x \in Stored(reader.before) \ reader.todo : \E k \in DOMAIN got :
        got[k].key = x /\ got[k].n >= reader.before[x].n
  BY DEF IInv, Listing
<1>9. Stands(row)
  BY DEF Stands
<1> DEFINE new == Append(got, row)
           last == Len(got) + 1
<1>10. reader'.got = new
  BY <1>1
<1> HIDE DEF got, new, last
<1>11. /\ DOMAIN new = DOMAIN got \cup {last} /\ last \notin DOMAIN got /\ new[last] = row
       /\ \A k \in DOMAIN got : new[k] = got[k]
       /\ new \in Seq(Rows)
  BY <1>5 DEF new, last
<1>12. \A k \in DOMAIN new :
         /\ Stands(new[k]) /\ new[k].key \notin reader.todo \ {name}
  BY <1>6, <1>9, <1>11
<1>13. \A j, k \in DOMAIN new : j # k => new[j].key # new[k].key
  <2> SUFFICES ASSUME NEW j \in DOMAIN new, NEW k \in DOMAIN new, j # k
               PROVE  new[j].key # new[k].key
    OBVIOUS
  <2>1. CASE j = last
    BY <1>6, <1>11, <2>1
  <2>2. CASE k = last
    BY <1>6, <1>11, <2>2
  <2>3. CASE j # last /\ k # last
    BY <1>7, <1>11, <2>3
  <2> QED
    BY <2>1, <2>2, <2>3
<1>14. \A x \in Stored(reader.before) \ (reader.todo \ {name}) : \E k \in DOMAIN new :
         new[k].key = x /\ new[k].n >= reader.before[x].n
  <2> SUFFICES ASSUME NEW x \in Stored(reader.before) \ (reader.todo \ {name})
               PROVE  \E k \in DOMAIN new : new[k].key = x /\ new[k].n >= reader.before[x].n
    OBVIOUS
  <2>1. CASE x = name
    BY <1>11, <2>1
  <2>2. CASE x # name
    <3>1. PICK k \in DOMAIN got : got[k].key = x /\ got[k].n >= reader.before[x].n
      BY <1>8, <2>2
    <3> QED
      BY <1>11, <3>1
  <2> QED
    BY <2>1, <2>2
<1>15. Listing' /\ LookingUp'
  <2>2. LookingUp'
    BY <1>1 DEF LookingUp
  <2>3. \A k \in DOMAIN reader'.got :
          /\ reader'.got[k].key \in Stored(folder')
          /\ reader'.got[k].id = NamedId(reader'.got[k].key)
          /\ reader'.got[k].n <= folder'[reader'.got[k].key].n
    BY <1>1, <1>10, <1>12 DEF Stands
  <2>4. /\ reader'.got \in Seq(Rows)
        /\ \A j, k \in DOMAIN reader'.got : j # k => reader'.got[j].key # reader'.got[k].key
    <3>1. reader'.got \in Seq(Rows)
      BY <1>10, <1>11
    <3>2. \A j, k \in DOMAIN reader'.got : j # k => reader'.got[j].key # reader'.got[k].key
      BY <1>10, <1>13
    <3> QED
      BY <3>1, <3>2
  <2>5. \A k \in DOMAIN reader'.got : reader'.got[k].key \notin reader'.todo
    BY <1>1, <1>10, <1>12
  <2>6. \A x \in Stored(reader'.before) \ reader'.todo : \E k \in DOMAIN reader'.got :
          reader'.got[k].key = x /\ reader'.got[k].n >= reader'.before[x].n
    <3>1. Stored(reader'.before) \ reader'.todo = Stored(reader.before) \ (reader.todo \ {name})
      BY <1>1
    <3> SUFFICES ASSUME NEW x \in Stored(reader.before) \ (reader.todo \ {name})
                 PROVE  \E k \in DOMAIN reader'.got :
                          reader'.got[k].key = x /\ reader'.got[k].n >= reader'.before[x].n
      BY <3>1
    <3>2. PICK k \in DOMAIN new : new[k].key = x /\ new[k].n >= reader.before[x].n
      BY <1>14
    <3> QED
      BY <1>1, <1>10, <3>2
  <2>7. reader'.pc = "list"
    BY <1>1
  <2>8. Listing'
    BY <2>3, <2>4, <2>5, <2>6, <2>7 DEF Listing, Stands
  <2> QED
    BY <2>2, <2>8
<1> QED
  BY <1>3, <1>15 DEF IInv

LEMMA ListFileStep ==
  ASSUME IInv, reader # NoReader, NEW name \in reader.todo, ListFile(name)
  PROVE  IInv'
<1> DEFINE rest == [reader EXCEPT !.todo = @ \ {name}]
           left == reader.todo \ {name}
<1>1. Reads /\ reader.pc = "list"
  BY DEF ListFile, Reads
<1>2. PICK c : c = IF name \in DOMAIN folder THEN folder[name] ELSE Torn
  OBVIOUS
<1>3. reader' = IF ~IsReportFile(name) THEN rest
                ELSE IF Raises(c) THEN [rest EXCEPT !.pc = "aborted"]
                ELSE IF Readable(c) THEN [rest EXCEPT !.got = Append(@, RowOf(c))]
                ELSE rest
  BY <1>2 DEF ListFile
<1>4. reader = [pc |-> "list", asked |-> reader.asked, todo |-> reader.todo,
                got |-> reader.got, before |-> reader.before]
  BY <1>1 DEF IInv, StoreTypeOK
<1>5. rest = [pc |-> "list", asked |-> reader.asked, todo |-> left, got |-> reader.got,
              before |-> reader.before]
  BY <1>4
<1>6. CASE ~ (IsReportFile(name) /\ (Raises(c) \/ Readable(c)))
  <2>1. name \notin Stored(reader.before)
    BY <1>2, <1>6, ContentIs
  <2>2. reader' = [pc |-> "list", asked |-> reader.asked, todo |-> left, got |-> reader.got,
                   before |-> reader.before]
    BY <1>3, <1>5, <1>6
  <2> QED
    BY <1>1, <2>1, <2>2, ListSkips
<1>7. CASE IsReportFile(name) /\ Raises(c)
  <2>1. \E x \in DOMAIN reader.before : Raises(reader.before[x])
    BY <1>2, <1>7, ContentIs
  <2>2. reader' = [pc |-> "aborted", asked |-> reader.asked, todo |-> left, got |-> reader.got,
                   before |-> reader.before]
    BY <1>3, <1>5, <1>7
  <2>3. /\ reader'.pc = "aborted" /\ reader'.before = reader.before
        /\ reader'.todo \subseteq reader.todo
        /\ reader' = [pc |-> reader'.pc, asked |-> reader'.asked, todo |-> reader'.todo,
                      got |-> reader'.got, before |-> reader'.before]
    BY <2>2
  <2> QED
    BY <1>1, <2>1, <2>3, Aborts
<1>8. CASE IsReportFile(name) /\ ~ Raises(c) /\ Readable(c)
  <2> DEFINE row == RowOf(c)
  <2>1. /\ name \in Stored(folder) /\ folder[name] = c /\ row \in Rows /\ row.key = name
        /\ row.id = NamedId(name) /\ row.n = c.n
        /\ name \in Stored(reader.before) => c.n >= reader.before[name].n
    BY <1>2, <1>8, ContentIs
  <2>2. reader' = [pc |-> "list", asked |-> reader.asked, todo |-> left,
                   got |-> Append(reader.got, row), before |-> reader.before]
    BY <1>3, <1>5, <1>8
  <2>3. c.n <= c.n
    BY <2>1 DEF Rows
  <2> HIDE DEF row
  <2> QED
    BY <1>1, <2>1, <2>2, <2>3, ListTakes
<1> QED
  BY <1>6, <1>7, <1>8

\* A sorting of a finite set has each of its members, once.
LEMMA SortingsAre ==
  ASSUME NEW S, IsFiniteSet(S), NEW s \in Sortings(S)
  PROVE  /\ s \in Seq(S)
         /\ \A j, k \in DOMAIN s : j # k => s[j] # s[k]
         /\ \A x \in S : \E k \in DOMAIN s : s[k] = x
<1> DEFINE n == Cardinality(S)
<1>1. n \in Nat
  BY FS_CardinalityType
<1>2. s \in [1..n -> S] /\ \A j, k \in 1..n : j # k => s[j] # s[k]
  BY DEF Sortings, SetToSeqs
<1>3. s \in Injection(1..n, S)
  BY <1>2 DEF Injection, IsInjective
<1>4. IsFiniteSet(1..n) /\ Cardinality(1..n) = n
  BY <1>1, FS_Interval
<1>5. s \in Surjection(1..n, S)
  BY <1>3, <1>4, FS_Injection
<1>6. \A x \in S : \E k \in 1..n : s[k] = x
  BY <1>5 DEF Surjection
<1> HIDE DEF n
<1> QED
  BY <1>1, <1>2, <1>6

\* The rows of a listing are finitely many.
LEMMA FinitelyMany ==
  ASSUME NEW S, NEW s \in Seq(S)
  PROVE  IsFiniteSet(ToSet(s))
<1>1. Len(s) \in Nat /\ s \in [1..Len(s) -> S]
  OBVIOUS
<1>2. s \in Surjection(1..Len(s), ToSet(s))
  BY <1>1 DEF Surjection, ToSet
<1>3. IsFiniteSet(1..Len(s))
  BY <1>1, FS_Interval
<1> QED
  BY <1>2, <1>3, FS_Surjection

LEMMA ListEndStep ==
  ASSUME IInv, ListEnd
  PROVE  IInv'
<1> DEFINE got == reader.got
           rows == {row \in ToSet(got) : Within(row, reader.asked)}
<1>1. Reads /\ reader.pc = "list" /\ reader.todo = {} /\ reader # NoReader
  <2>1. Reads /\ reader.pc = "list" /\ reader.todo = {}
    BY DEF ListEnd, Reads
  <2> QED
    BY <2>1 DEF NoReader
<1>2. reader = [pc |-> "list", asked |-> reader.asked, todo |-> {}, got |-> got,
                before |-> reader.before]
  BY <1>1 DEF IInv, StoreTypeOK
<1>3. /\ got \in Seq(Rows)
      /\ \A k \in DOMAIN got : Stands(got[k])
      /\ \A j, k \in DOMAIN got : j # k => got[j].key # got[k].key
  BY <1>1 DEF IInv, Listing
<1>4. \A name \in Stored(reader.before) : \E k \in DOMAIN got :
        got[k].key = name /\ got[k].n >= reader.before[name].n
  BY <1>1 DEF IInv, Listing
<1>5. PICK s \in Sortings(rows) : reader' = [reader EXCEPT !.pc = "listed", !.got = s]
  BY DEF ListEnd
<1>6. reader' = [pc |-> "listed", asked |-> reader.asked, todo |-> {}, got |-> s,
                 before |-> reader.before]
  <2>1. reader' = [[reader EXCEPT !.pc = "listed"] EXCEPT !.got = s]
    BY <1>2, <1>5
  <2>2. [reader EXCEPT !.pc = "listed"] =
          [pc |-> "listed", asked |-> reader.asked, todo |-> {}, got |-> got,
           before |-> reader.before]
    BY <1>2
  <2> HIDE DEF got
  <2> QED
    BY <2>1, <2>2
<1>7. /\ reader'.pc = "listed" /\ reader'.before = reader.before /\ reader'.asked = reader.asked
      /\ reader'.todo \subseteq reader.todo /\ reader'.got = s /\ folder' = folder
      /\ reader' = [pc |-> reader'.pc, asked |-> reader'.asked, todo |-> reader'.todo,
                    got |-> reader'.got, before |-> reader'.before]
  BY <1>1, <1>6 DEF Reads
<1>8. StoreTypeOK' /\ StillThere'
  BY <1>1, <1>7, GoesOn
<1>9. IsFiniteSet(rows)
  <2>1. IsFiniteSet(ToSet(got))
    BY <1>3, FinitelyMany
  <2> QED
    BY <2>1, FS_Subset
<1>10. rows \subseteq Rows /\ \A row \in rows : \E k \in DOMAIN got : row = got[k]
  <2>1. \A k \in DOMAIN got : got[k] \in Rows
    BY <1>3
  <2> QED
    BY <2>1 DEF ToSet
<1>11. \A k \in DOMAIN got : Within(got[k], reader.asked) => got[k] \in rows
  BY DEF ToSet
<1> HIDE DEF rows
<1>12. /\ s \in Seq(rows)
       /\ \A j, k \in DOMAIN s : j # k => s[j] # s[k]
       /\ \A row \in rows : \E k \in DOMAIN s : s[k] = row
  BY <1>9, SortingsAre
<1>13. s \in Seq(Rows) /\ \A k \in DOMAIN s : s[k] \in rows
  BY <1>10, <1>12
<1>14. \A k \in DOMAIN s : Stands(s[k])
  BY <1>3, <1>10, <1>13
<1>15. \A j, k \in DOMAIN s : j # k => s[j].key # s[k].key
  <2> SUFFICES ASSUME NEW j \in DOMAIN s, NEW k \in DOMAIN s, j # k
               PROVE  s[j].key # s[k].key
    OBVIOUS
  <2>1. PICK a \in DOMAIN got : s[j] = got[a]
    BY <1>10, <1>13
  <2>2. PICK b \in DOMAIN got : s[k] = got[b]
    BY <1>10, <1>13
  <2>3. a # b
    BY <1>12, <2>1, <2>2
  <2> QED
    BY <1>3, <2>1, <2>2, <2>3
<1>16. ASSUME NEW name \in Stored(reader.before),
              Within(RowOf(reader.before[name]), reader.asked)
       PROVE  \E k \in DOMAIN s : s[k].key = name /\ s[k].n >= reader.before[name].n
  <2>1. PICK k \in DOMAIN got : got[k].key = name /\ got[k].n >= reader.before[name].n
    BY <1>4
  <2>2. got[k].id = RowOf(reader.before[name]).id
    BY <1>1, <1>3, <2>1 DEF IInv, StillThere, Filed, Stands
  <2>3. got[k] \in rows
    BY <1>11, <1>16, <2>2 DEF Within
  <2> QED
    BY <1>12, <2>1, <2>3
<1>17. Listing' /\ LookingUp'
  <2>1. \A k \in DOMAIN s : Stands(s[k])'
    BY <1>7, <1>14 DEF Stands, Stored
  <2> QED
    BY <1>7, <1>13, <1>15, <1>16, <2>1 DEF Listing, LookingUp, Stands
<1> QED
  BY <1>8, <1>17 DEF IInv

---------------------------------------------------------------------------
(* Looking a session up                                                    *)

\* The two ways of stating which reports a name may stand for agree.
LEMMA MeantIs ==
  ASSUME NEW f, NEW what, \A name \in Stored(f) : Filed(f, name)
  PROVE  Meant(f, what) = {name \in Stored(f) : GoesBy(name, what)}
<1>1. \A name \in Stored(f) : RowOf(f[name]).key = name /\ RowOf(f[name]).id = NamedId(name)
  BY DEF Filed
<1> QED
  BY <1>1 DEF Meant, GoesBy

LEMMA GetStartStep ==
  ASSUME IInv, NEW what \in Asked, GetStart(what)
  PROVE  IInv'
<1>1. Reads /\ reader = NoReader
  BY DEF GetStart, Reads
<1>2. CASE what \in DOMAIN folder
  <2> DEFINE c == folder[what]
  <2>1. reader' = [pc |-> IF Raises(c) THEN "aborted" ELSE IF Readable(c) THEN "found" ELSE "none",
                   asked |-> what, todo |-> {}, before |-> folder,
                   got |-> IF Readable(c) THEN <<RowOf(c)>> ELSE <<>>]
    BY <1>2 DEF GetStart
  <2>2. /\ reader'.pc = IF Raises(c) THEN "aborted" ELSE IF Readable(c) THEN "found" ELSE "none"
        /\ reader'.got = IF Readable(c) THEN <<RowOf(c)>> ELSE <<>>
        /\ reader'.asked = what /\ reader'.before = folder /\ reader'.todo = {}
    BY <2>1
  <2>3. reader' = [pc |-> reader'.pc, asked |-> reader'.asked, todo |-> reader'.todo,
                   got |-> reader'.got, before |-> reader'.before]
    <3> HIDE DEF c
    <3> QED
      BY <2>1, <2>2
  <2>4. StoreTypeOK' /\ StillThere'
    BY <1>1, <2>2, <2>3, StoreKept, BeginsNow
  <2>6. Readable(c) => RowOf(c).key = what
    <3> SUFFICES ASSUME Readable(c)
                 PROVE  RowOf(c).key = what
      OBVIOUS
    <3>1. what \in Stored(folder)
      BY <1>2, NamesDiffer DEF Stored
    <3> QED
      BY <3>1 DEF IInv, StoreTypeOK, Filed
  <2>7. Listing'
    <3>1. reader'.pc \notin {"list", "listed"}
      BY <2>2
    <3>2. reader'.pc = "aborted" => \E name \in DOMAIN reader'.before : Raises(reader'.before[name])
      BY <1>2, <2>2
    <3> QED
      BY <3>1, <3>2 DEF Listing
  <2>8. LookingUp'
    <3>1. reader'.pc # "get" /\ reader'.asked \in DOMAIN reader'.before
      BY <1>2, <2>2
    <3>2. reader'.pc = "found" => reader'.got[1].key = reader'.asked
      BY <2>2, <2>6
    <3> QED
      BY <3>1, <3>2 DEF LookingUp
  <2> QED
    BY <2>4, <2>7, <2>8 DEF IInv
<1>3. CASE what \notin DOMAIN folder
  <2>1. reader' = [pc |-> "get", asked |-> what, todo |-> DOMAIN folder, got |-> <<>>,
                   before |-> folder]
    BY <1>3 DEF GetStart
  <2>2. /\ reader'.pc = "get" /\ reader'.asked = what /\ reader'.todo = DOMAIN folder
        /\ reader'.got = <<>> /\ reader'.before = folder
    BY <2>1
  <2>3. StoreTypeOK' /\ StillThere'
    BY <1>1, <2>1, <2>2, StoreKept, BeginsNow
  <2>4. Stored(reader'.before) \ reader'.todo = {}
    BY <2>2 DEF Stored
  <2>5. Listing' /\ LookingUp'
    BY <1>3, <2>2, <2>4 DEF Listing, LookingUp
  <2> QED
    BY <2>3, <2>5 DEF IInv
<1> QED
  BY <1>2, <1>3

\* A search that goes on, with what it has or with what it has just found.
LEMMA SearchGoesOn ==
  ASSUME IInv, Reads, reader.pc = "get", NEW name \in reader.todo, NEW got,
         reader' = [pc |-> "get", asked |-> reader.asked, todo |-> reader.todo \ {name},
                    got |-> got, before |-> reader.before],
         got # <<>> => BareName(got[1].id) = reader.asked,
         reader.got # <<>> => got # <<>> /\ got[1].key = reader.got[1].key,
         name \in Stored(reader.before) /\ GoesBy(name, reader.asked) =>
           got # <<>> /\ got[1].key = name
  PROVE  IInv'
<1>1. /\ reader'.pc = "get" /\ reader'.got = got /\ reader'.todo = reader.todo \ {name}
      /\ reader'.before = reader.before /\ reader'.asked = reader.asked
  OBVIOUS
<1>2. reader # NoReader
  BY DEF NoReader
<1>3. StoreTypeOK' /\ StillThere'
  BY <1>1, <1>2, GoesOn
<1>4. ASSUME NEW x \in Stored(reader.before) \ (reader.todo \ {name}), GoesBy(x, reader.asked)
      PROVE  got # <<>> /\ got[1].key = x
  <2>1. CASE x = name
    BY <1>4, <2>1
  <2>2. CASE x # name
    <3>1. reader.got # <<>> /\ reader.got[1].key = x
      BY <1>4, <2>2 DEF IInv, LookingUp
    <3> QED
      BY <3>1
  <2> QED
    BY <2>1, <2>2
<1>5. reader.asked \in Asked /\ reader.asked \notin DOMAIN reader.before
  BY DEF IInv, LookingUp
<1>6. Listing'
  BY <1>1 DEF Listing
<1>7. LookingUp'
  BY <1>1, <1>4, <1>5 DEF LookingUp
<1> QED
  BY <1>3, <1>6, <1>7 DEF IInv

LEMMA GetFileStep ==
  ASSUME IInv, reader # NoReader, NEW name \in reader.todo, GetFile(name)
  PROVE  IInv'
<1> DEFINE rest == [reader EXCEPT !.todo = @ \ {name}]
           left == reader.todo \ {name}
           got  == reader.got
<1>1. Reads /\ reader.pc = "get"
  BY DEF GetFile, Reads
<1>2. PICK c : c = IF name \in DOMAIN folder THEN folder[name] ELSE Torn
  OBVIOUS
<1> DEFINE row == RowOf(c)
<1>3. reader' =
        IF ~IsReportFile(name) THEN rest
        ELSE IF Raises(c) THEN [rest EXCEPT !.pc = "aborted"]
        ELSE IF ~Readable(c) THEN rest
        ELSE IF row.key = reader.asked THEN [rest EXCEPT !.pc = "found", !.got = <<row>>]
        ELSE IF BareName(row.id) = reader.asked
             THEN [rest EXCEPT !.pc = Matched(row, got)[1], !.got = Matched(row, got)[2]]
        ELSE rest
  BY <1>2 DEF GetFile
<1>4. reader = [pc |-> "get", asked |-> reader.asked, todo |-> reader.todo, got |-> got,
                before |-> reader.before]
  BY <1>1 DEF IInv, StoreTypeOK
<1>5. rest = [pc |-> "get", asked |-> reader.asked, todo |-> left, got |-> got,
              before |-> reader.before]
  BY <1>4
<1>6. /\ reader.asked \notin DOMAIN reader.before
      /\ got # <<>> => BareName(got[1].id) = reader.asked
  BY <1>1 DEF IInv, LookingUp
<1>7. /\ name \in DOMAIN reader.before
      /\ Raises(c) => \E x \in DOMAIN reader.before : Raises(reader.before[x])
      /\ Readable(c) /\ IsReportFile(name) => row.key = name /\ row.id = NamedId(name)
      /\ name \in Stored(reader.before) => Readable(c) /\ IsReportFile(name)
  BY <1>2, ContentIs
<1> HIDE DEF rest, left, row, got
<1>8. CASE reader' = rest /\ ~ (name \in Stored(reader.before) /\ GoesBy(name, reader.asked))
  BY <1>1, <1>5, <1>6, <1>8, SearchGoesOn DEF left, got
<1>9. CASE IsReportFile(name) /\ Raises(c)
  <2>1. reader' = [pc |-> "aborted", asked |-> reader.asked, todo |-> left, got |-> got,
                   before |-> reader.before]
    BY <1>3, <1>5, <1>9
  <2>2. /\ reader'.pc = "aborted" /\ reader'.before = reader.before
        /\ reader'.todo \subseteq reader.todo
        /\ reader' = [pc |-> reader'.pc, asked |-> reader'.asked, todo |-> reader'.todo,
                      got |-> reader'.got, before |-> reader'.before]
    BY <2>1 DEF left
  <2> QED
    BY <1>1, <1>7, <1>9, <2>2, Aborts
<1>10. CASE ~ IsReportFile(name) \/ (~ Raises(c) /\ ~ Readable(c))
  BY <1>3, <1>7, <1>8, <1>10
<1>11. CASE IsReportFile(name) /\ ~ Raises(c) /\ Readable(c)
  <2>1. row.key = name /\ row.id = NamedId(name) /\ name # reader.asked
    BY <1>6, <1>7, <1>11
  <2>2. CASE BareName(row.id) # reader.asked
    <3>1. ~ GoesBy(name, reader.asked)
      BY <2>1, <2>2 DEF GoesBy
    <3>2. reader' = rest
      BY <1>3, <1>11, <2>1, <2>2
    <3> QED
      BY <1>8, <3>1, <3>2
  <2>3. CASE BareName(row.id) = reader.asked
    <3>1. PICK pc, g : pc = Matched(row, got)[1] /\ g = Matched(row, got)[2]
      OBVIOUS
    <3>2. reader' = [rest EXCEPT !.pc = pc, !.got = g]
      BY <1>3, <1>11, <2>1, <2>3, <3>1
    <3>3. reader' = [pc |-> pc, asked |-> reader.asked, todo |-> left, got |-> g,
                     before |-> reader.before]
      <4>1. reader' = [[rest EXCEPT !.pc = pc] EXCEPT !.got = g]
        BY <1>5, <3>2
      <4>2. [rest EXCEPT !.pc = pc] =
              [pc |-> pc, asked |-> reader.asked, todo |-> left, got |-> got,
               before |-> reader.before]
        BY <1>5
      <4> QED
        BY <4>1, <4>2
    <3>4. CASE got # <<>> /\ got[1].key # row.key
      <4>1. pc = "ambiguous"
        BY <3>1, <3>4 DEF Matched
      <4>2. /\ reader'.pc = "ambiguous" /\ reader'.before = reader.before
            /\ reader'.todo \subseteq reader.todo
            /\ reader' = [pc |-> reader'.pc, asked |-> reader'.asked, todo |-> reader'.todo,
                          got |-> reader'.got, before |-> reader'.before]
        BY <3>3, <4>1 DEF left
      <4>3. StoreTypeOK' /\ StillThere'
        BY <1>1, <4>2, GoesOn
      <4>4. Listing' /\ LookingUp'
        BY <4>2 DEF Listing, LookingUp
      <4> QED
        BY <4>3, <4>4 DEF IInv
    <3>5. CASE ~ (got # <<>> /\ got[1].key # row.key)
      <4>1. pc = "get" /\ g = <<row>>
        BY <3>1, <3>5 DEF Matched
      <4>2. g # <<>> /\ g[1] = row
        BY <4>1
      <4>3. /\ BareName(g[1].id) = reader.asked /\ g[1].key = name
            /\ got # <<>> => g[1].key = got[1].key
        BY <2>1, <2>3, <3>5, <4>2
      <4> QED
        BY <1>1, <3>3, <4>1, <4>2, <4>3, SearchGoesOn DEF left, got
    <3> QED
      BY <3>4, <3>5
  <2> QED
    BY <2>2, <2>3
<1> QED
  BY <1>9, <1>10, <1>11

LEMMA GetEndStep ==
  ASSUME IInv, GetEnd
  PROVE  IInv'
<1>1. Reads /\ reader.pc = "get" /\ reader.todo = {} /\ reader # NoReader
  <2>1. Reads /\ reader.pc = "get" /\ reader.todo = {}
    BY DEF GetEnd, Reads
  <2> QED
    BY <2>1 DEF NoReader
<1>2. PICK pc : pc = IF reader.got = <<>> THEN "none" ELSE "found"
  OBVIOUS
<1>3. reader' = [reader EXCEPT !.pc = pc]
  BY <1>2 DEF GetEnd
<1>4. reader = [pc |-> "get", asked |-> reader.asked, todo |-> {}, got |-> reader.got,
                before |-> reader.before]
  BY <1>1 DEF IInv, StoreTypeOK
<1>5. reader' = [pc |-> pc, asked |-> reader.asked, todo |-> {}, got |-> reader.got,
                 before |-> reader.before]
  BY <1>3, <1>4
<1>6. /\ reader'.pc = pc /\ reader'.got = reader.got /\ reader'.todo = {}
      /\ reader'.before = reader.before /\ reader'.asked = reader.asked
  BY <1>5
<1>7. StoreTypeOK' /\ StillThere'
  BY <1>1, <1>5, <1>6, GoesOn
<1>8. /\ reader.got # <<>> => BareName(reader.got[1].id) = reader.asked
      /\ \A name \in Stored(reader.before) :
           GoesBy(name, reader.asked) => reader.got # <<>> /\ reader.got[1].key = name
  BY <1>1 DEF IInv, LookingUp
<1>9. Listing' /\ LookingUp'
  BY <1>2, <1>6, <1>8 DEF Listing, LookingUp
<1> QED
  BY <1>7, <1>9 DEF IInv

---------------------------------------------------------------------------
(* The theorems                                                            *)

LEMMA StepKeepsInvariant ==
  ASSUME IInv, [StoreNext]_storeVars
  PROVE  IInv'
<1>1. CASE UNCHANGED storeVars
  BY <1>1 DEF storeVars, IInv, StoreTypeOK, StillThere, Listing, LookingUp, Stands, Stored, Filed
<1>2. ASSUME NEW w \in Savers,
             \/ WriteOpen(w) \/ WriteFill(w) \/ WriteRename(w) \/ WriteFails(w) \/ WriterKilled(w)
      PROVE  IInv'
  BY <1>2, OpenStep, FillStep, RenameStep, FailsStep, KilledStep
<1>3. CASE ListStart \/ ListEnd \/ GetEnd
  BY <1>3, ListStartStep, ListEndStep, GetEndStep
<1>4. ASSUME NEW what \in Asked, GetStart(what)
      PROVE  IInv'
  BY <1>4, GetStartStep
<1>5. ASSUME reader # NoReader, NEW name \in reader.todo, ListFile(name) \/ GetFile(name)
      PROVE  IInv'
  BY <1>5, ListFileStep, GetFileStep
<1> QED
  BY <1>1, <1>2, <1>3, <1>4, <1>5 DEF StoreNext

LEMMA Invariant == StoreSpec => []IInv
<1>1. StoreInit => IInv
  BY InitInvariant
<1>2. IInv /\ [StoreNext]_storeVars => IInv'
  BY StepKeepsInvariant
<1> QED
  BY <1>1, <1>2, PTL DEF StoreSpec

\* A listing that writers and kills interleave with has one row for each report
\* that was there when it began, and none of a file that was not a finished
\* report; only a file no writer made ends it early (store.py:list_reports).
THEOREM ListingsAreWhole == StoreSpec => []ListedWhole
<1>1. ASSUME IInv
      PROVE  ListedWhole
  <2>1. ASSUME reader.pc = "listed", NEW name \in Stored(reader.before),
               Within(RowOf(reader.before[name]), reader.asked)
        PROVE  \E k \in DOMAIN reader.got :
                 /\ reader.got[k].key = RowOf(reader.before[name]).key
                 /\ reader.got[k].n >= RowOf(reader.before[name]).n
    <3>1. reader # NoReader
      BY <2>1 DEF NoReader
    <3>2. Filed(reader.before, name)
      BY <1>1, <3>1 DEF IInv, StillThere
    <3>3. \E k \in DOMAIN reader.got :
            reader.got[k].key = name /\ reader.got[k].n >= reader.before[name].n
      BY <1>1, <2>1 DEF IInv, Listing
    <3> QED
      BY <3>2, <3>3 DEF Filed
  <2>2. ASSUME reader.pc = "listed", NEW k \in DOMAIN reader.got
        PROVE  \E name \in Stored(folder) :
                 /\ RowOf(folder[name]).key = reader.got[k].key
                 /\ RowOf(folder[name]).n >= reader.got[k].n
    <3>1. Stands(reader.got[k]) /\ reader.got[k] \in Rows
      BY <1>1, <2>2 DEF IInv, Listing
    <3>2. PICK name \in Stored(folder) : name = reader.got[k].key /\ reader.got[k].n <= folder[name].n
      BY <3>1 DEF Stands
    <3>3. Filed(folder, name)
      BY <1>1 DEF IInv, StoreTypeOK
    <3>4. RowOf(folder[name]).n \in Nat /\ reader.got[k].n \in Nat
      BY <3>1, <3>3 DEF Filed, Rows
    <3> QED
      BY <3>2, <3>3, <3>4 DEF Filed
  <2>3. reader.pc = "listed" => \A j, k \in DOMAIN reader.got :
          j # k => reader.got[j].key # reader.got[k].key
    BY <1>1 DEF IInv, Listing
  <2>4. reader.pc = "aborted" =>
          \E name \in DOMAIN reader.before : Raises(reader.before[name])
    BY <1>1 DEF IInv, Listing
  <2> QED
    BY <2>1, <2>2, <2>3, <2>4 DEF ListedWhole
<1> QED
  BY <1>1, Invariant, PTL

\* A look-up answers with no session that was not asked for, nor with one of
\* two that go by an id, and misses none that was there (store.py:get_report).
THEOREM LookupsTell == StoreSpec => []LookupTells
<1>1. ASSUME IInv
      PROVE  LookupTells
  <2>1. reader # NoReader =>
          Meant(reader.before, reader.asked) =
            {name \in Stored(reader.before) : GoesBy(name, reader.asked)}
    BY <1>1, MeantIs DEF IInv, StillThere
  <2>2. ASSUME reader.pc = "found"
        PROVE  /\ reader.asked \in {reader.got[1].key, BareName(reader.got[1].id)}
               /\ \/ reader.asked \in DOMAIN reader.before
                  \/ Cardinality(Meant(reader.before, reader.asked)) <= 1
    <3>1. reader # NoReader
      BY <2>2 DEF NoReader
    <3>2. reader.asked \in {reader.got[1].key, BareName(reader.got[1].id)}
      BY <1>1, <2>2 DEF IInv, LookingUp
    <3>3. CASE \A name \in Stored(reader.before) :
                 GoesBy(name, reader.asked) => name = reader.got[1].key
      <4> DEFINE one == {reader.got[1].key}
                 meant == Meant(reader.before, reader.asked)
      <4>1. meant \subseteq one
        BY <2>1, <3>1, <3>3
      <4>2. IsFiniteSet(one) /\ Cardinality(one) = 1
        BY FS_Singleton
      <4> HIDE DEF one
      <4>3. Cardinality(meant) <= 1
        BY <4>1, <4>2, FS_Subset
      <4> QED
        BY <3>2, <4>3
    <3> QED
      BY <1>1, <2>2, <3>2, <3>3 DEF IInv, LookingUp
  <2>3. ASSUME reader.pc = "none"
        PROVE  reader.asked \in DOMAIN reader.before \/ Meant(reader.before, reader.asked) = {}
    <3>1. reader # NoReader
      BY <2>3 DEF NoReader
    <3> QED
      BY <1>1, <2>1, <2>3, <3>1 DEF IInv, LookingUp
  <2> QED
    BY <2>2, <2>3 DEF LookupTells
<1> QED
  BY <1>1, Invariant, PTL
=============================================================================
