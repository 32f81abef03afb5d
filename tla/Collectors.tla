----------------------------- MODULE Collectors -----------------------------
(***************************************************************************)
(* codevigil/collectors: what each collector makes of the events of a       *)
(* session, and its serialize_state and restore_state.  A collector is a    *)
(* record; Fold takes it over an event.                                     *)
(*                                                                         *)
(* A text is told apart by what the phrase tables find in it: the           *)
(* categories of its stop phrases, in order, and how many reasoning-loop    *)
(* phrases it holds.  Rates, medians and the severity of read_edit_ratio    *)
(* are left to the counts they are computed from.                           *)
(***************************************************************************)
EXTENDS Parser

CONSTANTS
  BlindWindow,             \* read_edit_ratio.blind_edit_window
  StopHits, LoopHits,      \* of each text
  StopWarn, StopCritical,  \* stop_phrase thresholds, in hits
  RecentCap,               \* _RECENT_HITS_CAP
  MinLoopCalls,            \* reasoning_loop.min_tool_calls_for_severity
  LoopWarn, LoopCritical,  \* its thresholds, matches for each 1000 tool calls
  EmptyText

Texts == DOMAIN LoopHits \cup {EmptyText}
ASSUME CollectorsAssumption ==
  /\ BlindWindow \in Nat
  /\ \A t \in DOMAIN LoopHits :
       LoopHits[t] \in Nat /\ StopHits[t] \in Seq(Range(StopHits[t]))
  /\ RecentCap \in Nat
  /\ MinLoopCalls \in Nat /\ LoopWarn \in Nat /\ LoopCritical \in Nat

Categories == {"read", "research", "mutation", "other"}
Most(S) == IF S = {} THEN 0 ELSE Max(S)
\* d[key] = value, of a dictionary.
Put(f, key, value) == [k \in DOMAIN f \cup {key} |-> IF k = key THEN value ELSE f[k]]

---------------------------------------------------------------------------
(* read_edit_ratio                                                         *)

\* _classify
Classify(tool) ==
  CASE tool \in {"read", "view"} -> "read"
    [] tool \in {"grep", "glob", "web_search", "web_fetch"} -> "research"
    [] tool \in {"edit", "multi_edit", "write", "notebook_edit"} -> "mutation"
    [] OTHER -> "other"

\* size is the window_size of the configuration the process runs with.
NewRatio(size) ==
  [size |-> size, window |-> <<>>, counts |-> [c \in Categories |-> 0], index |-> 0,
   lastSeen |-> <<>>, mutations |-> 0, withPath |-> 0, blind |-> 0, writes |-> 0, edits |-> 0]


\* _is_blind: the path was never read, or more than BlindWindow calls ago.
IsBlind(r, path) == path \notin DOMAIN r.lastSeen \/ r.index - r.lastSeen[path] > BlindWindow

\* Mutant: the category that falls out of the window keeps its count.
SlidNoDecrement(r, category) ==
  [r EXCEPT !.window = IF Len(@) = r.size THEN Append(Tail(@), category) ELSE Append(@, category),
            !.counts[category] = @ + 1, !.index = @ + 1]

\* The rolling window takes a call; the counts go with it.
Slid(r, category) ==
  LET full == Len(r.window) = r.size
      gone == IF full THEN [r.counts EXCEPT ![Head(r.window)] = @ - 1] ELSE r.counts
  IN [r EXCEPT !.window = Append(IF full THEN Tail(@) ELSE @, category),
               !.counts = [gone EXCEPT ![category] = @ + 1],
               !.index = @ + 1]

\* A mutation; without a path it can be neither blind nor not.
Mutated(r, tool, path) ==
  [r EXCEPT !.mutations = @ + 1,
            !.writes = IF tool = "write" THEN @ + 1 ELSE @,
            !.edits = IF tool # "write" THEN @ + 1 ELSE @,
            !.withPath = IF path # None THEN @ + 1 ELSE @,
            !.blind = IF path # None /\ IsBlind(r, path) THEN @ + 1 ELSE @]

RatioCall(r, tool, path) ==
  LET category == Classify(tool)
      slid == Slid(r, category)
  IN CASE category = "mutation" -> Mutated(slid, tool, path)
       [] category \in {"read", "research"} /\ path # None ->
            [slid EXCEPT !.lastSeen = Put(@, path, slid.index)]
       [] OTHER -> slid

FoldRatio(r, event) ==
  IF event.kind = "TOOL_CALL" THEN RatioCall(r, event.payload.tool, event.payload.path) ELSE r

\* Mutant: the paths read are not restored.
RestoredForgetful(saved, size) ==
  [saved EXCEPT !.size = size, !.window = LastOf(@, size),
                !.lastSeen = <<>>]

\* serialize_state and restore_state, in a process with that window_size: the
\* deque keeps what fits, the counts are those that were saved.
RestoredRatio(saved, size) ==
  [saved EXCEPT !.size = size,
                !.window = LastOf(@, size)]

---------------------------------------------------------------------------
(* stop_phrase                                                             *)

NewPhrases ==
  [messages |-> 0, hits |-> 0, withHit |-> 0, byCategory |-> <<>>, recent |-> <<>>]

\* Mutant: the newest hit is dropped.
HitDropsNewest(p, category) ==
  [p EXCEPT !.hits = @ + 1,
            !.byCategory = Put(@, category, IF category \in DOMAIN @ THEN @[category] + 1 ELSE 1),
            !.recent = IF Len(@) = RecentCap THEN @ ELSE Append(@, <<category, p.messages>>)]

Hit(p, category) ==
  LET listed == Append(p.recent, <<category, p.messages>>)
  IN [p EXCEPT !.hits = @ + 1,
        !.byCategory = Put(@, category, IF category \in DOMAIN @ THEN @[category] + 1 ELSE 1),
        !.recent = IF Len(listed) > RecentCap THEN Tail(listed) ELSE listed]

FoldPhrases(p, event) ==
  IF event.kind # "ASSISTANT_MESSAGE" \/ event.payload = EmptyText THEN p
  ELSE LET hits == StopHits[event.payload]
           seen == [p EXCEPT !.messages = @ + 1, !.withHit = IF hits = <<>> THEN @ ELSE @ + 1]
       IN FoldLeft(Hit, seen, hits)

RestoredPhrases(saved) ==
  [messages |-> saved.messages, hits |-> saved.hits, withHit |-> saved.withHit,
   byCategory |-> saved.byCategory, recent |-> saved.recent]

StopSeverity(hits) ==
  CASE hits >= StopCritical -> "CRITICAL" [] hits >= StopWarn -> "WARN" [] OTHER -> "OK"

---------------------------------------------------------------------------
(* reasoning_loop, thinking, prompts                                       *)

NewLoop == [calls |-> 0, matches |-> 0, burst |-> 0, maxBurst |-> 0]

\* Mutant: a tool call ends a burst.
FoldLoopCallEnds(p, event) ==
  CASE event.kind = "TOOL_CALL" -> [p EXCEPT !.calls = @ + 1, !.burst = 0]
    [] event.kind = "ASSISTANT_MESSAGE" /\ event.payload # EmptyText ->
         LET hits == LoopHits[event.payload]
             burst == IF hits > 0 THEN p.burst + 1 ELSE 0
         IN [p EXCEPT !.matches = @ + hits, !.burst = burst, !.maxBurst = Most({@, burst})]
    [] OTHER -> p

\* Messages in a row that hold a match; only a clean message ends the row.
FoldLoop(p, event) ==
  CASE event.kind = "TOOL_CALL" -> [p EXCEPT !.calls = @ + 1]
    [] event.kind = "ASSISTANT_MESSAGE" /\ event.payload # EmptyText ->
         LET hits == LoopHits[event.payload]
             burst == IF hits > 0 THEN p.burst + 1 ELSE 0
         IN [p EXCEPT !.matches = @ + hits, !.burst = burst, !.maxBurst = Most({@, burst})]
    [] OTHER -> p

RestoredLoop(saved) ==
  [calls |-> saved.calls, matches |-> saved.matches, burst |-> saved.burst,
   maxBurst |-> saved.maxBurst]

LoopSeverity(p) ==
  LET per == IF p.calls = 0 THEN 1 ELSE p.calls
  IN CASE p.calls < MinLoopCalls -> "OK"
       [] p.matches * 1000 >= LoopCritical * per -> "CRITICAL"
       [] p.matches * 1000 >= LoopWarn * per -> "WARN"
       [] OTHER -> "OK"

NewThinking == [blocks |-> 0, visible |-> 0, lengths |-> <<>>, signatures |-> <<>>]

\* Mutant: redacted blocks are listed with their length.
FoldThinkingBlindly(p, event) ==
  IF event.kind # "THINKING" THEN p
  ELSE [blocks |-> p.blocks + 1, visible |-> p.visible, signatures |-> p.signatures,
        lengths |-> Append(p.lengths, event.payload.length)]

\* Redacted blocks have no length; a length of 0 and an empty signature are not listed.
FoldThinking(p, event) ==
  IF event.kind # "THINKING" THEN p
  ELSE LET b == event.payload
       IN [blocks |-> p.blocks + 1,
           visible |-> IF b.redacted THEN p.visible ELSE p.visible + 1,
           lengths |-> IF b.redacted \/ b.length = 0 THEN p.lengths ELSE Append(p.lengths, b.length),
           signatures |-> IF b.signature \in {None, 0} THEN p.signatures
                          ELSE Append(p.signatures, b.signature)]

RestoredThinking(saved) ==
  [blocks |-> saved.blocks, visible |-> saved.visible, lengths |-> saved.lengths,
   signatures |-> saved.signatures]

\* prompts counts user messages.
FoldPrompts(n, event) == IF event.kind = "USER_MESSAGE" THEN n + 1 ELSE n
=============================================================================
