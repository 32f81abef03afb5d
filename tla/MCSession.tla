------------------------------ MODULE MCSession ------------------------------
(* Instances of Session for TLC: files written with a few kinds of lines.   *)
EXTENDS Session

MCAliases == ("Read" :> "read") @@ ("Edit" :> "edit") @@ ("Write" :> "write")
             @@ ("Grep" :> "grep") @@ ("Bash" :> "bash")
TextsUsed == {"", "clean", "stop", "stops", "loop"}
MCStopHits == [t \in TextsUsed |->
                 CASE t = "stop" -> <<"ownership">> [] t = "stops" -> <<"permission", "ownership">>
                   [] OTHER -> <<>>]
MCLoopHits == [t \in TextsUsed |->
                 CASE t = "loop" -> 2 [] t = "stops" -> 1 [] OTHER -> 0]

Text(t) == [kind |-> "text", text |-> t]
Tool(name, path) ==
  [kind |-> "tool_use", name |-> name, call |-> "t1", input |-> TRUE, path |-> path]
Block(kind) == [kind |-> kind]
Think(text, redacted, signature) ==
  [kind |-> "thinking", text |-> text, redacted |-> redacted, signature |-> signature]

Line(type, body, id, blocks) ==
  [form |-> "object", type |-> type, role |-> None, ts |-> "good", shape |-> type,
   body |-> body, id |-> id, blocks |-> blocks]
Assistant(blocks) == Line("assistant", "message", None, blocks)
User(blocks) == Line("user", "message", None, blocks)
NotAnObject(form) == [Line(None, "flat", None, <<>>) EXCEPT !.form = form]

\* Lines the parser refuses, passes over, or has seen.
Shapes ==
  {NotAnObject("garbage"), NotAnObject("scalar"), NotAnObject("blank"),
   Line(None, "flat", None, <<>>), [Line(None, "message", "m1", <<Text("clean")>>) EXCEPT !.role = "user"],
   Line("novel", "flat", None, <<>>), Line(Structural, "flat", None, <<>>),
   Line("assistant", "message", "m1", <<Text("clean")>>), Line("user", "flat", None, <<>>)}
\* Lines with calls, or other blocks, that are not what they should be.
DriftingCalls ==
  {[Assistant(<<Text(None), Tool("Frob", "p")>>) EXCEPT !.ts = "bad"],
   Assistant(<<[Tool("Frob", "p") EXCEPT !.input = FALSE], [Tool("Edit", "p") EXCEPT !.call = None]>>),
   Assistant(<<Tool(None, None), Block("junk")>>),
   Line("assistant", "flat", None, <<Text("clean"), Tool("Frob", None)>>)}
DriftingBlocks ==
  {[Assistant(<<Block("odd"), Think(None, FALSE, None)>>) EXCEPT !.ts = "odd"],
   Assistant(<<Block("odd")>>), User(<<>>), User(<<Block("junk")>>),
   [Line("user", "content", None, <<[kind |-> "tool_result", call |-> None], Block("odd")>>) EXCEPT !.ts = "none"]}
\* Reads and mutations of two paths.
Editing ==
  {Assistant(<<Tool("Read", "p")>>), Assistant(<<Tool("Grep", "p")>>), Assistant(<<Tool("Edit", "p")>>),
   Assistant(<<Tool("Write", "q")>>), Assistant(<<Tool("Edit", None)>>), Assistant(<<Tool("Bash", None)>>),
   Assistant(<<Tool("Read", "q"), Tool("Read", "p")>>)}
\* Messages with phrases, and calls between them.
Talking ==
  {Assistant(<<Text(t)>>) : t \in TextsUsed} \cup {Assistant(<<Tool("Bash", None)>>)}
\* Turns.
Turning ==
  {User(<<Text("clean")>>), User(<<Text("stop")>>), User(<<Text("loop"), [kind |-> "tool_result", call |-> "t1"]>>),
   Assistant(<<Tool("Edit", "p"), Tool("Edit", "p"), Tool("Write", "p")>>), Assistant(<<Tool("Bash", None)>>),
   Assistant(<<Tool("", None), Think(3, FALSE, 2), Think(None, TRUE, None)>>), Line("system", "flat", None, <<>>)}

MCFiles == {Shapes, DriftingCalls, DriftingBlocks, Editing, Talking, Turning}
=============================================================================
