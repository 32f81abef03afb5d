---------------------------- MODULE SessionFeed ----------------------------
(***************************************************************************)
(* What a Source promises its consumer (the Source protocol and the five   *)
(* SourceEventKinds of codevigil/watcher.py), path by path:                *)
(*   - a path is introduced once, by NEW_SESSION, before anything is said  *)
(*     of it, and after DELETE only NEW_SESSION can introduce it again;    *)
(*   - APPEND only ever extends what was said of the path, by whole lines; *)
(*   - ROTATE and TRUNCATE say that what was said so far is void, and only *)
(*     for a path that is known.                                           *)
(***************************************************************************)
EXTENDS Naturals, Sequences

CONSTANTS Paths, Bytes, NL

VARIABLES
  known,   \* the paths introduced and not deleted
  text     \* the bytes said of each path since it was introduced or voided

feed == <<known, text>>

Init ==
  /\ known = {}
  /\ text = [p \in Paths |-> << >>]

\* A resumed path starts with what an earlier run said of it.
NewSession(p) ==
  /\ p \notin known
  /\ known' = known \cup {p}
  /\ \/ text'[p] = << >>
     \/ text'[p][Len(text'[p])] = NL
  /\ text' = [text EXCEPT ![p] = text'[p]]

Extends(longer, shorter) ==
  /\ Len(shorter) < Len(longer)
  /\ shorter = SubSeq(longer, 1, Len(shorter))
  /\ longer[Len(longer)] = NL

Lines(p) ==
  /\ p \in known
  /\ Extends(text'[p], text[p])
  /\ text' = [text EXCEPT ![p] = text'[p]]
  /\ UNCHANGED known

\* ROTATE or TRUNCATE
Void(p) ==
  /\ p \in known
  /\ text' = [text EXCEPT ![p] = << >>]
  /\ UNCHANGED known

\* DELETE of the paths P, at the end of a poll, or the end of the process.
Delete(P) ==
  /\ P # {} /\ P \subseteq known
  /\ known' = known \ P
  /\ text' = [p \in Paths |-> IF p \in P THEN << >> ELSE text[p]]

Next ==
  \/ \E p \in Paths : NewSession(p) \/ Lines(p) \/ Void(p)
  \/ \E P \in SUBSET Paths : Delete(P)

Spec == Init /\ [][Next]_feed
=============================================================================
