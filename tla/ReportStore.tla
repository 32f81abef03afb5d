----------------------------- MODULE ReportStore -----------------------------
(***************************************************************************)
(* The session store of analysis/store.py: one file for each report in a   *)
(* directory that a watch process writes, by way of a temporary file, while *)
(* `history' and `report' list it or look a session up.  Files of earlier  *)
(* releases, and some that cannot be read, may be there.                   *)
(***************************************************************************)
EXTENDS Integers, Sequences, FiniteSets, SequencesExt

CONSTANTS
  RootIds,       \* root_id of the watch roots
  Ids,           \* session ids: small numbers, later ones started later
  Savers,        \* processes that write reports
  EarlierFiles,  \* the directories to begin with: functions from names to contents
  Windows,       \* pairs <<since, until>> of start times a listing asks for
  MaxReports     \* bound on the reports written

VARIABLES
  folder,        \* the directory: a function from file names to contents
  saver,         \* each writer: the report it is writing and its place in write()
  reader,        \* a listing or a look-up, and its answer
  reports,       \* number of reports begun so far
  versions       \* number of those put in place

storeVars == <<folder, saver, reader, reports, versions>>

\* File names: <session_key>.json, which is <session_id>.json before schema 2,
\* and the temporary file of the n-th report.
KeyName(r, i) == <<r, i>>
BareName(i)   == <<i>>
TempName(n)   == <<"tmp", n, "tmp">>

Torn == [kind |-> "junk"]
NoSaver == [pc |-> "idle"]
NoReader == [pc |-> "idle"]

\* build_report: what is written for a session.  A report is told by its n from
\* those put in place before and after it.
Report(r, i, n) == [kind |-> "v2", id |-> i, key |-> KeyName(r, i), n |-> n]

-----------------------------------------------------------------------------
\* list_reports and _iter_report_files skip the temporary files.
IsReportFile(name) == Len(name) < 3

\* from_dict, _migrate_record and _validate_record: a report of schema 1 gets
\* its session id for key; one of a later schema, without its fields or with a
\* date that is no string is an error that the readers skip.  (Every date has an
\* offset, as build_report writes it: they can be compared.)
Readable(c) == c.kind \in {"v1", "v2"}
RowOf(c) == [id |-> c.id, key |-> IF c.kind = "v2" THEN c.key ELSE BareName(c.id), n |-> c.n]

\* A file that is no UTF-8, whose JSON is no object or one of whose dates cannot
\* be parsed (SessionReport.__init__) raises an exception that no reader catches.
Raises(c) == c.kind = "garbled"

\* What a look-up may ask for: a session id, or a session key.
Asked == {BareName(i) : i \in Ids} \cup {KeyName(r, i) : r \in RootIds, i \in Ids}

\* The id at the end of a name.
NamedId(name) == name[Len(name)]

\* A report bears the name of its session.
ASSUME EarlierAssumption ==
  \A f \in EarlierFiles : \A name \in DOMAIN f :
    /\ name \in Asked
    /\ Readable(f[name]) => /\ RowOf(f[name]).key = name
                            /\ f[name].id = NamedId(name)
                            /\ f[name].n = 0

-----------------------------------------------------------------------------
StoreInit ==
  /\ folder \in EarlierFiles
  /\ saver = [w \in Savers |-> NoSaver]
  /\ reader = NoReader
  /\ reports = 0
  /\ versions = 0

Put(f, name, c) == [x \in DOMAIN f \cup {name} |-> IF x = name THEN c ELSE f[x]]
Drop(f, name)   == [x \in DOMAIN f \ {name} |-> f[x]]

\* Mutant: write opens the file of the report itself.
WriteInPlace(w) ==
  /\ saver[w] = NoSaver
  /\ reports < MaxReports
  /\ reports' = reports + 1
  /\ \E r \in RootIds, i \in Ids :
       /\ saver' = [saver EXCEPT ![w] = [pc |-> "open", n |-> reports', key |-> KeyName(r, i),
                                         row |-> Report(r, i, reports')]]
       /\ folder' = Put(folder, KeyName(r, i), Torn)
  /\ UNCHANGED <<reader, versions>>

\* write: mkstemp makes an empty file beside the others.
WriteOpen(w) ==
  /\ saver[w] = NoSaver
  /\ reports < MaxReports
  /\ reports' = reports + 1
  /\ \E r \in RootIds, i \in Ids :
       saver' = [saver EXCEPT ![w] = [pc |-> "open", n |-> reports', key |-> KeyName(r, i),
                                      row |-> Report(r, i, reports')]]
  /\ folder' = Put(folder, TempName(reports'), Torn)
  /\ UNCHANGED <<reader, versions>>

\* write: the report is written to the temporary file and the file closed.
WriteFill(w) ==
  /\ saver[w].pc = "open"
  /\ folder' = Put(folder, TempName(saver[w].n), saver[w].row)
  /\ saver' = [saver EXCEPT ![w].pc = "full"]
  /\ UNCHANGED <<reader, reports, versions>>

\* write: the rename.
WriteRename(w) ==
  /\ saver[w].pc = "full"
  /\ versions' = versions + 1
  /\ folder' = Drop(Put(folder, saver[w].key, [saver[w].row EXCEPT !.n = versions']),
                    TempName(saver[w].n))
  /\ saver' = [saver EXCEPT ![w] = NoSaver]
  /\ UNCHANGED <<reader, reports>>

\* write: an error of either removes the temporary file and is raised.
WriteFails(w) ==
  /\ saver[w] # NoSaver
  /\ folder' = Drop(folder, TempName(saver[w].n))
  /\ saver' = [saver EXCEPT ![w] = NoSaver]
  /\ UNCHANGED <<reader, reports, versions>>

\* The process is killed: the temporary file stays.
WriterKilled(w) ==
  /\ saver[w] # NoSaver
  /\ saver' = [saver EXCEPT ![w] = NoSaver]
  /\ UNCHANGED <<folder, reader, reports, versions>>

-----------------------------------------------------------------------------
\* list_reports: iterdir reads the names at once.
ListStart ==
  /\ reader = NoReader
  /\ \E win \in Windows :
       reader' = [pc |-> "list", asked |-> win, todo |-> DOMAIN folder, got |-> <<>>,
                  before |-> folder]
  /\ UNCHANGED <<folder, saver, reports, versions>>

\* list_reports: one file, in an order of the file system's.  A file that is
\* gone or no report is skipped, and one that raises ends the listing.
ListFile(name) ==
  /\ reader.pc = "list" /\ name \in reader.todo
  /\ LET rest == [reader EXCEPT !.todo = @ \ {name}]
         c == IF name \in DOMAIN folder THEN folder[name] ELSE Torn
     IN reader' = IF ~IsReportFile(name) THEN rest
                  ELSE IF Raises(c) THEN [rest EXCEPT !.pc = "aborted"]
                  ELSE IF Readable(c) THEN [rest EXCEPT !.got = Append(@, RowOf(c))]
                  ELSE rest
  /\ UNCHANGED <<folder, saver, reports, versions>>

\* apply_filters: the dates of `history list'.
Within(row, win) == win[1] <= row.id /\ row.id <= win[2]

\* Rows by the start of the session, whose number stands for it; those that
\* started together stay in the order of the file system.
Sortings(rows) ==
  {s \in SetToSeqs(rows) : \A j, k \in DOMAIN s : j < k => s[j].id <= s[k].id}

\* list_reports sorts, and run_list filters.
ListEnd ==
  /\ reader.pc = "list" /\ reader.todo = {}
  /\ LET rows == {row \in ToSet(reader.got) : Within(row, reader.asked)} IN
       \E s \in Sortings(rows) : reader' = [reader EXCEPT !.pc = "listed", !.got = s]
  /\ UNCHANGED <<folder, saver, reports, versions>>

-----------------------------------------------------------------------------
\* get_report: the file of that name answers alone, be it unreadable; without
\* one the directory is searched.
GetStart(what) ==
  /\ reader = NoReader
  /\ reader' =
       IF what \in DOMAIN folder
       THEN [pc |-> IF Raises(folder[what]) THEN "aborted"
                    ELSE IF Readable(folder[what]) THEN "found" ELSE "none",
             asked |-> what, todo |-> {}, before |-> folder,
             got |-> IF Readable(folder[what]) THEN <<RowOf(folder[what])>> ELSE <<>>]
       ELSE [pc |-> "get", asked |-> what, todo |-> DOMAIN folder, got |-> <<>>, before |-> folder]
  /\ UNCHANGED <<folder, saver, reports, versions>>

\* Mutant: the first report of that session id is the answer.
FirstMatch(row, got) == <<"found", <<row>>>>

\* get_report: a report whose session id was asked for, after those before it.
Matched(row, got) ==
  IF got # <<>> /\ got[1].key # row.key THEN <<"ambiguous", got>> ELSE <<"get", <<row>>>>

\* get_report: the next file of the search.
GetFile(name) ==
  /\ reader.pc = "get" /\ name \in reader.todo
  /\ LET rest == [reader EXCEPT !.todo = @ \ {name}]
         c == IF name \in DOMAIN folder THEN folder[name] ELSE Torn
     IN reader' =
          IF ~IsReportFile(name) THEN rest
          ELSE IF Raises(c) THEN [rest EXCEPT !.pc = "aborted"]
          ELSE IF ~Readable(c) THEN rest
          ELSE LET row == RowOf(c) IN
               IF row.key = reader.asked THEN [rest EXCEPT !.pc = "found", !.got = <<row>>]
               ELSE IF BareName(row.id) = reader.asked
                    THEN [rest EXCEPT !.pc = Matched(row, reader.got)[1],
                                      !.got = Matched(row, reader.got)[2]]
               ELSE rest
  /\ UNCHANGED <<folder, saver, reports, versions>>

GetEnd ==
  /\ reader.pc = "get" /\ reader.todo = {}
  /\ reader' = [reader EXCEPT !.pc = IF reader.got = <<>> THEN "none" ELSE "found"]
  /\ UNCHANGED <<folder, saver, reports, versions>>

StoreNext ==
  \/ \E w \in Savers :
       \/ WriteOpen(w) \/ WriteFill(w) \/ WriteRename(w) \/ WriteFails(w) \/ WriterKilled(w)
  \/ ListStart
  \/ ListEnd
  \/ GetEnd
  \/ \E what \in Asked : GetStart(what)
  \/ reader # NoReader /\ \E name \in reader.todo : ListFile(name) \/ GetFile(name)

StoreSpec == StoreInit /\ [][StoreNext]_storeVars

-----------------------------------------------------------------------------
\* The reports that were in the store when the reader began.
Stored(f) == {name \in DOMAIN f : IsReportFile(name) /\ Readable(f[name])}

\* A listing that runs while reports are written, and writers are killed, has
\* one row for each report that was there when it began, that version or a
\* later one, and no row of a file that was not a finished report (store.py:write,
\* list_reports). Nothing a writer leaves half done ends it early; a file that
\* raises does, where store.py:412-413 has it skipped.
ListedWhole ==
  /\ reader.pc = "listed" =>
       /\ \A name \in Stored(reader.before) :
            LET b == RowOf(reader.before[name]) IN
            Within(b, reader.asked) =>
              \E k \in DOMAIN reader.got :
                reader.got[k].key = b.key /\ reader.got[k].n >= b.n
       /\ \A j, k \in DOMAIN reader.got :
            /\ j # k => reader.got[j].key # reader.got[k].key
            /\ \E name \in Stored(folder) :
                 LET c == RowOf(folder[name]) IN
                 c.key = reader.got[k].key /\ c.n >= reader.got[k].n
  /\ reader.pc = "aborted" =>
       \E name \in DOMAIN reader.before : Raises(reader.before[name])

\* The stored sessions a name may stand for.
Meant(f, what) ==
  {RowOf(f[name]).key : name \in {x \in Stored(f) : what \in {RowOf(f[x]).key, BareName(RowOf(f[x]).id)}}}

\* A look-up never answers with a session that was not asked for, nor, where
\* two sessions go by the id and no file has that very name, with one of the
\* two; and it finds nothing only where nothing was, or the file of that name
\* cannot be read; a file that raises ends it without an answer, whichever
\* session it is of (store.py:get_report).
LookupTells ==
  /\ reader.pc = "found" =>
       /\ reader.asked \in {reader.got[1].key, BareName(reader.got[1].id)}
       /\ reader.asked \in DOMAIN reader.before \/ Cardinality(Meant(reader.before, reader.asked)) <= 1
  /\ reader.pc = "none" =>
       reader.asked \in DOMAIN reader.before \/ Meant(reader.before, reader.asked) = {}
=============================================================================
