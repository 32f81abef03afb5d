------------------------------- MODULE Parser -------------------------------
(***************************************************************************)
(* codevigil/parser.py: SessionParser, one per session, turns the lines of  *)
(* a session file into events and keeps the statistics (ParseStats) that    *)
(* parse_health reads.  It never raises: what it cannot use it counts as    *)
(* missing and says so on the error channel.                                *)
(*                                                                         *)
(* A line is a record of the fields the parser looks at:                    *)
(*   form    blank, garbage (not JSON), scalar (JSON, no object), object    *)
(*   type    the kind of line, or None; role, the historical name of type   *)
(*   ts      good, bad (no ISO date), none, odd (not a string)              *)
(*   shape   what _line_fingerprint makes of it                             *)
(*   body    message (a message object), content (a top-level list), flat   *)
(*   id      of the message, or None                                        *)
(*   blocks  of the message or the list, or the flat fields as blocks       *)
(* and a block is a record with its kind and what its builder checks.       *)
(***************************************************************************)
EXTENDS Naturals, Sequences, SequencesExt

CONSTANTS
  Window,        \* _ROLLING_CONFIDENCE_WINDOW
  Burst,         \* _FINGERPRINT_INITIAL_BURST
  Stride,        \* _FINGERPRINT_RESAMPLE_STRIDE
  KnownShapes,   \* KNOWN_FINGERPRINTS
  Aliases,       \* TOOL_ALIASES: from raw names to canonical ones
  None           \* a field that is missing or not of the type it must have

ASSUME ParserAssumption ==
  /\ Window \in Nat \ {0} /\ Burst \in Nat /\ Stride \in Nat \ {0}
  /\ None \notin {"assistant", "user", "system", "structural", "USER_MESSAGE", "SYSTEM",
                 "ASSISTANT_MESSAGE", "TOOL_CALL", "TOOL_RESULT", "THINKING"}

\* What record_missing counts.
Fields == {"__json__", "__object__", "type", "timestamp", "content.type", "text",
           "tool_name", "tool_use_id", "input", "thinking", "message"}
Structural == "structural"

\* The items of a sequence that pass a test, or are in a set, in their order.
Only(s, S) ==
  LET kept[i \in 0 .. Len(s)] ==
        IF i = 0 THEN <<>>
        ELSE IF s[i] \in S THEN Append(kept[i - 1], s[i]) ELSE kept[i - 1]
  IN kept[Len(s)]
Filtered(s, Test(_)) == Only(s, {x \in Range(s) : Test(x)})

\* A deque with a maxlen keeps the last n.
LastOf(s, n) == SubSeq(s, IF Len(s) > n THEN Len(s) - n + 1 ELSE 1, Len(s))

VARIABLES
  parser,    \* the SessionParser: ParseStats, and the sets that silence repeats
  channel    \* what it recorded on the error channel: <<code, subject>>

NewParser ==
  [total |-> 0, parsed |-> 0, duplicates |-> 0, missing |-> [f \in Fields |-> 0],
   outcomes |-> <<>>, seen |-> {}, sampled |-> 0, warned |-> {}, noted |-> {}]

---------------------------------------------------------------------------
(* Blocks: an event, or the fields found missing.                           *)

Emits(kind, payload) == [kind |-> kind, payload |-> payload, missing |-> {}]
Misses(f) == [kind |-> None, payload |-> None, missing |-> {f}]

Canonical(name) == IF name \in DOMAIN Aliases THEN Aliases[name] ELSE name
UnknownTool(name) == name \notin DOMAIN Aliases /\ \A raw \in DOMAIN Aliases : Aliases[raw] # name

TextEvent(kind, b) == IF b.text = None THEN Misses("text") ELSE Emits(kind, b.text)

\* _build_tool_call_event: a name and an id it must have; an input that is no
\* object counts as missing and leaves the call without a path.
ToolCall(b) ==
  IF b.name = None THEN Misses("tool_name")
  ELSE IF b.call = None THEN Misses("tool_use_id")
  ELSE [Emits("TOOL_CALL", [tool |-> Canonical(b.name), path |-> IF b.input THEN b.path ELSE None])
          EXCEPT !.missing = IF b.input THEN {} ELSE {"input"}]

\* _build_thinking_event: redacted blocks have length 0.
Thinking(b) ==
  IF b.text = None /\ ~b.redacted THEN Misses("thinking")
  ELSE Emits("THINKING", [redacted |-> b.redacted, signature |-> b.signature,
                          length |-> IF b.redacted THEN 0 ELSE b.text])

ToolResult(b) == IF b.call = None THEN Misses("tool_use_id") ELSE Emits("TOOL_RESULT", b.call)

AssistantBlock(b) ==
  CASE b.kind = "text" -> TextEvent("ASSISTANT_MESSAGE", b)
    [] b.kind = "tool_use" -> ToolCall(b)
    [] b.kind = "thinking" -> Thinking(b)
    [] OTHER -> Misses("content.type")

UserBlock(b) ==
  CASE b.kind = "text" -> TextEvent("USER_MESSAGE", b)
    [] b.kind = "tool_result" -> ToolResult(b)
    [] OTHER -> Misses("content.type")

\* The flat shapes of old files: a text, a tool or a tool_result that is there
\* and well-typed; a flat call has the id "", and its input is not missed.
FlatAssistant(l) == Filtered(l.blocks, LAMBDA b : b.kind \in {"text", "tool_use"})
FlatUser(l) == Filtered(l.blocks, LAMBDA b : b.kind \in {"text", "tool_result"})

SystemEvent == Emits("SYSTEM", None)

---------------------------------------------------------------------------
(* Lines                                                                   *)

\* parse(): pre-v1 lines say role for type.
Kind(l) == IF l.type # None THEN l.type ELSE l.role

\* Only the message objects of a conversation have an id that events bear.
MessageId(l) ==
  IF Kind(l) \in {"assistant", "user"} /\ l.body = "message" THEN l.id ELSE None

\* Mutant: the user path forgets the check.
DuplicateAssistant(l) == Kind(l) = "assistant" /\ l.id # None /\ l.id \in parser.seen

\* _check_duplicate
Duplicate(l) == MessageId(l) # None /\ MessageId(l) \in parser.seen

\* _content_blocks: items of a content list that are no objects ("junk") are
\* passed over in silence.
ContentBlocks(l) == Filtered(l.blocks, LAMBDA b : b.kind # "junk")

\* What becomes of each block.
BlockResults(l) ==
  LET assistant == Kind(l) = "assistant"
      blocks == IF l.body # "flat" THEN ContentBlocks(l)
                ELSE IF assistant THEN FlatAssistant(l) ELSE FlatUser(l)
  IN [i \in DOMAIN blocks |-> IF assistant THEN AssistantBlock(blocks[i]) ELSE UserBlock(blocks[i])]

\* What _dispatch has for the line: results of its blocks, one SYSTEM event, or a field missing.
Results(l) ==
  LET results == BlockResults(l)
  IN CASE Kind(l) \in {"assistant", "user"} ->
         IF Duplicate(l) THEN <<>>
         ELSE IF results = <<>> /\ l.body = "flat" THEN << Misses("message") >>
         ELSE IF results = <<>> /\ l.body = "message" /\ Kind(l) = "user"
              THEN << Misses("text") >>
         ELSE results
    [] Kind(l) = "system" -> << SystemEvent >>
    [] Kind(l) = Structural -> <<>>
    [] OTHER -> << Misses("type") >>

\* The events the line yields, in order; an unresolved timestamp marks them all.
EventsOf(l) ==
  LET built == Filtered(Results(l), LAMBDA r : r.kind # None)
  IN [i \in DOMAIN built |->
        [kind |-> built[i].kind, payload |-> built[i].payload, resolved |-> l.ts = "good",
         id |-> MessageId(l)]]

\* Mutant: only events count.
ParsedByEvents(l) == Len(EventsOf(l))

\* By how much parsed_events moves.  A conversational line that yields nothing
\* counts as one, be it a duplicate or empty, unless it is flat.
ParsedBy(l) ==
  LET events == Len(EventsOf(l))
      conversation == Kind(l) \in {"assistant", "user"} /\ l.body # "flat"
  IN IF events = 0 /\ (conversation \/ Kind(l) = Structural) THEN 1 ELSE events

\* Mutant: a block of an unknown type is passed over.
MissingKnown(l) ==
  [f \in Fields |-> parser.missing[f] +
     IF f = "content.type" THEN 0 ELSE Len(SelectSeq(Results(l), LAMBDA r : f \in r.missing))]

\* record_missing, for all that the line lacks.
Missing(l) ==
  LET results == Results(l)
      lacks(f) == Cardinality({i \in DOMAIN results : f \in results[i].missing})
      undated == l.ts \in {"bad", "none"}
  IN [f \in Fields |-> parser.missing[f] + lacks(f)
                       + IF f = "timestamp" /\ undated THEN 1 ELSE 0]

\* The names of a line's tools that are not known and were not noted before.
NewTools(l) ==
  LET calls == {b \in Range(l.blocks) : b.kind = "tool_use" /\ b.name # None /\ b.call # None}
  IN IF Kind(l) # "assistant" \/ Duplicate(l) THEN {}
     ELSE {b.name : b \in {c \in calls : UnknownTool(c.name)}} \ parser.noted

\* _sample_fingerprint: the first Burst lines that decode, and then each
\* Stride-th line; a shape that is not known is warned of once.
Sampled == parser.sampled < Burst \/ (parser.total + 1) % Stride = 0
Warns(l) == Sampled /\ l.shape \notin KnownShapes \cup parser.warned

\* What the line says on the error channel before and while it is dispatched.
Notices(l) ==
  LET say(code, S) == [i \in 1 .. Cardinality(S) |-> <<code, SetToSeq(S)[i]>>]
  IN say("unknown_fingerprint", IF Warns(l) THEN {l.shape} ELSE {})
     \o say("duplicate_message", IF Duplicate(l) THEN {l.id} ELSE {})
     \o say("unknown_tool", NewTools(l))

\* And of a type that is not known, or a flat line without any field it should have.
Refusals(l) ==
  (IF Misses("type") \in Range(Results(l)) THEN << <<"unknown_type", Kind(l)>> >> ELSE <<>>)
  \o (IF Misses("message") \in Range(Results(l)) THEN << <<"missing_message", None>> >> ELSE <<>>)

---------------------------------------------------------------------------
(* parse(), one line: one of four ways.  record_line_outcome appends to a    *)
(* deque of Window outcomes.                                                *)

WithOutcome(outcomes, o) == LastOf(Append(outcomes, o), Window)

SkipBlank(l) == l.form = "blank" /\ UNCHANGED <<parser, channel>>

\* _decode_line: no JSON, or JSON that is no object.
Malformed(l) ==
  /\ l.form \in {"garbage", "scalar"}
  /\ LET f == IF l.form = "garbage" THEN "__json__" ELSE "__object__"
     IN parser' = [parser EXCEPT !.total = @ + 1, !.missing[f] = @ + 1,
                                 !.outcomes = WithOutcome(@, FALSE)]
  /\ channel' = Append(channel, <<"malformed_line", l.form>>)

\* An object is sampled before its kind is looked at.
AfterSample(l) ==
  [parser EXCEPT !.total = @ + 1,
                 !.sampled = IF Sampled THEN @ + 1 ELSE @,
                 !.warned = IF Warns(l) THEN @ \cup {l.shape} ELSE @]

Typeless(l) ==
  /\ l.form = "object" /\ Kind(l) = None
  /\ parser' = [AfterSample(l) EXCEPT !.missing["type"] = @ + 1,
                                      !.outcomes = WithOutcome(@, FALSE)]
  /\ channel' = channel \o Notices(l) \o << <<"missing_type", None>> >>

\* _dispatch: the line is parseable if parsed_events moves.
Dispatch(l) ==
  /\ l.form = "object" /\ Kind(l) # None
  /\ LET parsed == ParsedBy(l)
     IN parser' =
       [AfterSample(l) EXCEPT
          !.parsed = @ + parsed,
          !.duplicates = IF Duplicate(l) THEN @ + 1 ELSE @,
          !.missing = Missing(l),
          !.outcomes = WithOutcome(@, parsed > 0),
          !.seen = @ \cup ({MessageId(l)} \ {None}),
          !.noted = @ \cup NewTools(l)]
  /\ channel' = channel \o Notices(l) \o Refusals(l)

ParseLine(l) == SkipBlank(l) \/ Malformed(l) \/ Typeless(l) \/ Dispatch(l)

\* What parse() yields of the line.
Yields(l) == IF l.form = "object" /\ Kind(l) # None THEN EventsOf(l) ELSE <<>>

\* parse_confidence < num/den.
ConfidenceBelow(p, num, den) ==
  Cardinality({i \in DOMAIN p.outcomes : p.outcomes[i]}) * den < num * Len(p.outcomes)
=============================================================================
