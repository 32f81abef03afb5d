------------------------------- MODULE MCParts -------------------------------
(***************************************************************************)
(* Five components that share no state while they run: the calibration,    *)
(* the error log, the session store, the report commands and the screen.   *)
(* One of them, the focus, takes steps, so that the state space is the sum *)
(* of theirs.                                                              *)
(***************************************************************************)
EXTENDS Calibration, ErrorLog, ReportStore, Reports, Screen

CONSTANT Parts   \* the components explored

VARIABLE focus

MCSnapshots == {("hi" :> 0) @@ ("lo" :> 2), ("hi" :> 3), ("hi" :> 1) @@ ("lo" :> 0)}
MCCaps == ("hi" :> <<1, 2>>) @@ ("lo" :> <<>>)

\* Directories with a report of schema 1, one of a later schema, one that is no
\* report, alone or beside another, and one session id under two roots.
MCEarlier ==
  LET v1 == [kind |-> "v1", id |-> 1, n |-> 0]
      v2(r) == [kind |-> "v2", id |-> 1, key |-> KeyName(r, 1), n |-> 0]
      roots == SetToSeq(RootIds)
  IN {BareName(1) :> v1, BareName(1) :> [kind |-> "v3"],
      (BareName(2) :> [kind |-> "garbled"]) @@ (BareName(1) :> v1),
      BareName(2) :> [kind |-> "garbled"],
      (KeyName(roots[1], 1) :> v2(roots[1])) @@ (KeyName(roots[2], 1) :> v2(roots[2]))}
MCStarts == {<<1, 2>>, <<2, 2>>}

\* Files in order, one whose middle line has no timestamp, one that begins with
\* junk, and files that cross the days the commands ask for.
Line(t, k) == [at |-> t, kind |-> k]
MCDisks ==
  LET c == << <<Line(4, "plain")>>,
              <<Line(4, "think"), Line(6, "plain"), Line(8, "plain")>>,
              <<Line(6, "plain"), Line(Undated, "plain"), Line(6, "plain")>>,
              <<Line(Undated, "junk"), Line(8, "think")>>,
              <<Line(6, "think"), Line(8, "plain")>> >>
  IN {[f \in 1..3 |-> c[i[f]]] :
        i \in {<<1, 5, 3>>, <<2, 2, 1>>, <<1, 4, 2>>, <<3, 1, 5>>, <<5, 2, 4>>}}
MCAppended == {Line(Undated, "plain"), Line(7, "think")}
MCSingle ==
  {[mode |-> "single", from |-> 3, to |-> NoDate], [mode |-> "single", from |-> NoDate, to |-> 3]}
MCCommands ==
  {[mode |-> "conflict"], [mode |-> "multi"],
   [mode |-> "single", from |-> BadDate, to |-> NoDate],
   [mode |-> "group", from |-> 3, to |-> BadDate, dimension |-> "day"],
   [mode |-> "group", from |-> NoDate, to |-> 3, dimension |-> "week"],
   [mode |-> "group", from |-> NoDate, to |-> NoDate, dimension |-> "day"],
   [mode |-> "group", from |-> NoDate, to |-> NoDate, dimension |-> "model"],
   [mode |-> "compare", a |-> <<2, 2>>, b |-> <<3, 4>>],
   [mode |-> "compare", a |-> <<2, BadDate>>, b |-> <<3, 4>>],
   [mode |-> "pivot", day |-> 3]} \cup MCSingle
MCSpans == <<3, 5>>

\* Two sessions of one root whose ids share a prefix, and one of another root
\* with the id of the first.
MCIds == << <<1, 1, 1>>, <<1, 1, 2>>, <<1, 1, 1>> >>
MCRoots == <<1, 1, 2>>
MCProjects == <<1, 1, 2>>
MCStored ==
  {{}, {[key |-> 1, sessions |-> 3, rank |-> 0, at |-> 1],
        [key |-> -2, sessions |-> 1, rank |-> 2, at |-> 2],
        [key |-> 6, sessions |-> 1, rank |-> 1, at |-> 3]}}

PartsInit ==
  /\ focus \in Parts
  /\ CalInit /\ LogInit /\ StoreInit /\ ReportInit /\ ScreenInit
  /\ focus # "store"  => folder = CHOOSE f \in EarlierFiles : TRUE
  /\ focus # "report" => disk = CHOOSE d \in Disks : TRUE
  /\ focus # "screen" => loop.mode = "session" /\ loop.tty /\ \A p \in DOMAIN names : names[p] = 0

PartsNext ==
  /\ UNCHANGED focus
  /\ \/ focus = "calibration" /\ CalNext /\ UNCHANGED <<logVars, storeVars, reportVars, screenVars>>
     \/ focus = "log" /\ LogNext /\ UNCHANGED <<calVars, storeVars, reportVars, screenVars>>
     \/ focus = "store" /\ StoreNext /\ UNCHANGED <<calVars, logVars, reportVars, screenVars>>
     \/ focus = "report" /\ ReportNext /\ UNCHANGED <<calVars, logVars, storeVars, screenVars>>
     \/ focus = "screen" /\ ScreenNext /\ UNCHANGED <<calVars, logVars, storeVars, reportVars>>

PartsSpec ==
  PartsInit /\ [][PartsNext]_<<focus, calVars, logVars, storeVars, reportVars, screenVars>>
=============================================================================
