--------------------------- MODULE ProcessedStore ---------------------------
(***************************************************************************)
(* codevigil/analysis/processed_store.py: the SQLite database in which      *)
(* ingest leaves, for each session, the point up to which its file was read *)
(* and the state of the collectors there.                                   *)
(*                                                                         *)
(* A database is a value: every operation of the store is one transaction   *)
(* (_transaction), seen by the other processes whole or not at all.         *)
(*                                                                         *)
(* A fold is what the collectors of a session were given: the lines they    *)
(* have had once or more, those they have had again, and those that reached *)
(* the parser in pieces.                                                    *)
(***************************************************************************)
EXTENDS Naturals, FiniteSets

CONSTANTS
  Paths,     \* session files, of all watch roots
  Root,      \* the root each path is under
  Stem,      \* its file name without .jsonl: the session id
  Legacy,    \* LEGACY_ROOT_ID
  None

ASSUME LegacyAssumption ==
  Legacy # None /\ \A p \in Paths : Root[p] # Legacy /\ Root[p] # None

\* A session file is named after the UUID of its session, once under a root.
ASSUME NamesAssumption ==
  \A p, q \in Paths : Root[p] = Root[q] /\ Stem[p] = Stem[q] => p = q

\* Mutant: the root is not part of the key.
KeyById(p) == <<Legacy, Stem[p]>>

\* make_session_key, legacy_session_key, and the bare id of schema 1.
SessionKey(p) == <<Root[p], Stem[p]>>
LegacyKey(id) == <<Legacy, id>>
BareKey(id) == <<None, id>>

SessionKeys == {SessionKey(p) : p \in Paths}
Ids == {Stem[p] : p \in Paths}
Keys == SessionKeys \cup {LegacyKey(id) : id \in Ids} \cup {BareKey(id) : id \in Ids}

NoRows == [k \in Keys |-> None]
NoDatabase == [version |-> None, rows |-> NoRows]
Exists(db) == db.version # None

Nothing == [once |-> {}, again |-> {}, torn |-> {}]
Fed(fold, whole, torn) ==
  [once |-> fold.once \cup whole, again |-> fold.again \cup (fold.once \cap whole),
   torn |-> fold.torn \cup torn]

\* _migrate_v1_to_v2: every row gets a key under the legacy root.
Migrated(rows) ==
  [k \in Keys |-> IF k \in {LegacyKey(id) : id \in Ids} THEN rows[BareKey(k[2])] ELSE None]

\* Mutant: the version is not inserted.
OpenedUnversioned(db) == IF db.version = 1 THEN [version |-> 2, rows |-> Migrated(db.rows)] ELSE db

\* open(): creates, migrates, or refuses (ProcessedStoreError).
Refused(db) == db.version \notin {None, 1, 2}
Opened(db) ==
  CASE db.version = None -> [version |-> 2, rows |-> NoRows]
    [] db.version = 1 -> [version |-> 2, rows |-> Migrated(db.rows)]
    [] OTHER -> db

\* Mutant: the key does not tell roots and files apart.
UpsertedFirst(db, p, row) ==
  [db EXCEPT !.rows[CHOOSE k \in SessionKeys : TRUE] = row]

\* upsert_session: INSERT OR REPLACE by session key.
Upserted(db, p, row) == [db EXCEPT !.rows[SessionKey(p)] = row]

\* get_session, by a composed key.
GetSession(db, p) == db.rows[SessionKey(p)]

\* get_by_path, and the last row of that path that iter_all yields.  A path has
\* two rows after a migration, and both take the migrated one: it comes first in
\* the table, and is never the one with the later last_event_time.
GetByPath(db, p) ==
  LET legacy == db.rows[LegacyKey(Stem[p])]
      own == db.rows[SessionKey(p)]
  IN IF legacy # None /\ legacy.path = p THEN legacy
     ELSE IF own # None /\ own.path = p THEN own ELSE None
=============================================================================
