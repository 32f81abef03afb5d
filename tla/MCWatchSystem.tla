---------------------------- MODULE MCWatchSystem ----------------------------
(* Instances of WatchSystem for TLC: two files of the same name, and so the *)
(* same session id, under two roots; the second one stays as it is.         *)
EXTENDS WatchSystem, TLC

MCRoot == [p \in Paths |-> <<"here", "there">>[p]]
MCStem == [p \in Paths |-> "one"]
MCMaxLines == [p \in Paths |-> <<2, 1>>[p]]
MCMaxFiles == [p \in Paths |-> <<2, 1>>[p]]

\* Databases in which ingest has left the first line of a file: of schema 1, of
\* schema 2, and of a later schema, which this program refuses.
FirstLine(p) ==
  [path |-> p, ino |-> 1, size |-> 3, offset |-> 3, flaws |-> {},
   fold |-> [once |-> {<<p, 1, 1>>}, again |-> {}, torn |-> {}]]
Holding(version, key, p) == [version |-> version, rows |-> [NoRows EXCEPT ![key] = FirstLine(p)]]
OldDatabase == Holding(1, BareKey("one"), 1)
Database == Holding(2, SessionKey(1), 1)
NewDatabase == Holding(3, SessionKey(1), 1)

MCSeparated == {<<2, 1>>}

MCStores == {NoDatabase, OldDatabase, Database, NewDatabase}
MCNoStore == {NoDatabase}
=============================================================================
