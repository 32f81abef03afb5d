-------------------------------- MODULE Turns --------------------------------
(***************************************************************************)
(* codevigil/turns.py.  TurnGrouper cuts the events of a session into       *)
(* turns, each opened by a user message.                                    *)
(*                                                                         *)
(* A turn is its tools and the number of its events.  The text of the user  *)
(* message, read by the classifier only, and the times the turn began and   *)
(* ended, which the reports show, are left out.                             *)
(***************************************************************************)
EXTENDS Naturals, Sequences

\* _in_turn is False, and _event_count 0.
NoTurn == [count |-> 0]
\* A grouper: the open turn, or NoTurn, and the closed ones (completed_turns).
NoTurns == [open |-> NoTurn, turns |-> <<>>]

\* _open_turn: the user message is the first event.
Opened == [tools |-> <<>>, count |-> 1]

\* Mutant: the user message counts to the turn it closes.
GroupLate(g, event) ==
  IF event.kind = "USER_MESSAGE"
  THEN [open |-> Opened,
        turns |-> IF g.open = NoTurn THEN g.turns
                  ELSE Append(g.turns, [g.open EXCEPT !.count = @ + 1])]
  ELSE IF g.open = NoTurn THEN g
  ELSE [g EXCEPT !.open.count = @ + 1,
          !.open.tools = IF event.kind = "TOOL_CALL" THEN Append(@, event.payload.tool) ELSE @]

\* ingest.  A user message closes the open turn (_close_turn); events before
\* the first one are ignored, and so is the name of a tool that is empty.
Group(g, event) ==
  IF event.kind = "USER_MESSAGE"
  THEN [open |-> Opened,
        turns |-> IF g.open = NoTurn THEN g.turns ELSE Append(g.turns, g.open)]
  ELSE IF g.open = NoTurn THEN g
  ELSE [g EXCEPT !.open.count = @ + 1,
          !.open.tools = IF event.kind = "TOOL_CALL" /\ event.payload.tool # ""
                         THEN Append(@, event.payload.tool) ELSE @]

\* finalize
Finalized(g) ==
  IF g.open = NoTurn THEN g ELSE [open |-> NoTurn, turns |-> Append(g.turns, g.open)]
=============================================================================
