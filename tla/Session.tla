------------------------------- MODULE Session -------------------------------
(***************************************************************************)
(* One session as the aggregator holds it (aggregator.py: _SessionContext   *)
(* and _ingest_line): its parser, its turn grouper and its collectors, all  *)
(* fed with the events of one line after the other.  When the process ends  *)
(* and another one takes the session up from the store, the collectors are  *)
(* restored, and the parser and the grouper start anew.                     *)
(***************************************************************************)
EXTENDS Turns, Collectors

CONSTANTS
  Files,          \* sets of lines: what a file may be written with
  Sizes,          \* window sizes a configuration may have
  HealthWindow,   \* _WINDOW_SIZE of parse_health
  HealthNum, HealthDen,   \* critical_threshold of parse_health, as a fraction
  MaxLines,       \* bound: lines of the file
  MaxResumes      \* bound: restarts

ASSUME LinesAssumption ==
  \A F \in Files : \A l \in F :
    /\ l.blocks \in Seq(Range(l.blocks)) /\ l.body \in {"message", "content", "flat"}
    /\ \A b \in Range(l.blocks) : b.kind = "text" => b.text \in Texts \cup {None}
\* _RANGE_CHECKS
ASSUME SizesAssumption == Sizes \subseteq Nat \ {0}
ASSUME HealthAssumption == HealthWindow \in Nat \ {0} /\ HealthNum \in Nat /\ HealthDen \in Nat

VARIABLES
  alphabet,   \* the set of lines of this file
  grouper,    \* TurnGrouper and completed_turns
  live,       \* the session is not evicted
  ratio, phrases, loop, thinking, prompts,   \* the collectors
  health,     \* parse_health: the length of its window, and its ParseStats
              \* if they are not the parser's
  file,       \* history: the lines so far
  told,       \* history: the events so far, each with the line it is from
  opened,     \* history: the last line before this process
  shrunk,     \* history: a restart had a smaller window than fits the deque
  resumes     \* history: number of restarts

collectors == <<ratio, phrases, loop, thinking, prompts, health>>
history == <<file, told, opened, shrunk, resumes>>
vars == <<alphabet, parser, channel, grouper, live, collectors, history>>

Init ==
  /\ alphabet \in Files
  /\ parser = NewParser /\ channel = <<>> /\ grouper = NoTurns /\ live = TRUE
  /\ \E size \in Sizes : ratio = NewRatio(size)
  /\ phrases = NewPhrases /\ loop = NewLoop /\ thinking = NewThinking /\ prompts = 0
  /\ health = [window |-> 0, own |-> None]
  /\ file = <<>> /\ told = <<>> /\ opened = 0 /\ shrunk = FALSE /\ resumes = 0

\* _ingest_line: parse() yields the events of the line one by one; each is
\* fanned out to every collector and then given to the grouper.
IngestLine(l) ==
  LET events == Yields(l)
  IN /\ live /\ Len(file) < MaxLines
     /\ ParseLine(l)
     /\ grouper' = FoldLeft(Group, grouper, events)
     /\ ratio' = FoldLeft(FoldRatio, ratio, events)
     /\ phrases' = FoldLeft(FoldPhrases, phrases, events)
     /\ loop' = FoldLeft(FoldLoop, loop, events)
     /\ thinking' = FoldLeft(FoldThinking, thinking, events)
     /\ prompts' = FoldLeft(FoldPrompts, prompts, events)
     /\ health' = [health EXCEPT !.window =
                     IF @ + Len(events) > HealthWindow THEN HealthWindow ELSE @ + Len(events)]
     /\ file' = Append(file, l)
     /\ told' = told \o [i \in DOMAIN events |-> [event |-> events[i], line |-> Len(file) + 1]]
     /\ UNCHANGED <<alphabet, live, opened, shrunk, resumes>>

\* The session is ended by the process that ingests it, which saves the
\* collectors, and is taken up by another, maybe with another window_size.
Resume(size) ==
  LET stats == IF health.own = None THEN parser ELSE health.own
  IN
  /\ live /\ resumes < MaxResumes /\ Len(file) > opened
  /\ resumes' = resumes + 1
  /\ ratio' = RestoredRatio(ratio, size)
  /\ phrases' = RestoredPhrases(phrases) /\ loop' = RestoredLoop(loop)
  /\ thinking' = RestoredThinking(thinking)
  /\ shrunk' = (shrunk \/ Len(ratio.window) > size)
  /\ health' = [window |-> 0,
                own |-> [total |-> stats.total, parsed |-> stats.parsed, outcomes |-> <<>>]]
  /\ parser' = NewParser /\ channel' = <<>> /\ grouper' = NoTurns
  /\ opened' = Len(file)
  /\ UNCHANGED <<alphabet, live, prompts, file, told>>

\* _evict_session closes the open turn.
Evict ==
  /\ live
  /\ live' = FALSE
  /\ grouper' = Finalized(grouper)
  /\ UNCHANGED <<alphabet, parser, channel, collectors, history>>

Next ==
  \/ \E l \in alphabet : IngestLine(l)
  \/ \E size \in Sizes : Resume(size)
  \/ Evict

Spec == Init /\ [][Next]_vars

\* parse_health: CRITICAL once enough lines were seen and too few of the last
\* ones parsed.
HealthCritical ==
  LET stats == IF health.own = None THEN parser ELSE health.own
  IN /\ stats.total >= HealthWindow \/ health.window >= HealthWindow
     /\ ConfidenceBelow(stats, HealthNum, HealthDen)

---------------------------------------------------------------------------
(* Reference definitions over the history                                   *)

Here == {i \in DOMAIN told : told[i].line > opened}
Events == [i \in DOMAIN told |-> told[i].event]
CallsOf(events) == Filtered(events, LAMBDA e : e.kind = "TOOL_CALL")
SaidOf(events) ==
  Filtered(events, LAMBDA e : e.kind = "ASSISTANT_MESSAGE" /\ e.payload # EmptyText)
Calls == CallsOf(Events)
\* How many items of a sequence are in a set.
CountIn(s, S) == Cardinality({i \in DOMAIN s : s[i] \in S})
Said == SaidOf(Events)

\* The call i is a mutation of a path that no call of the BlindWindow before
\* it read or searched.
BlindCall(calls, i) ==
  /\ Classify(calls[i].payload.tool) = "mutation" /\ calls[i].payload.path # None
  /\ ~ \E j \in 1 .. (i - 1) :
         /\ i - j <= BlindWindow
         /\ Classify(calls[j].payload.tool) \in {"read", "research"}
         /\ calls[j].payload.path = calls[i].payload.path

\* Lengths of the runs of messages that all hold a reasoning-loop phrase.
Bursts(said) ==
  {n \in 1 .. Len(said) : \E first \in 1 .. Len(said) - n + 1 :
     \A i \in first .. first + n - 1 : LoopHits[said[i].payload] > 0}

\* Lines of this process that gave no event.
Mute == {i \in opened + 1 .. Len(file) :
           /\ file[i].form # "blank"
           /\ \A j \in DOMAIN told : told[j].line # i}

\* A line that is known to hold nothing to tell: structural, or a list with no block.
Vacuous(l) ==
  /\ l.form = "object"
  /\ \/ Kind(l) = Structural
     \/ /\ <<Kind(l), l.body>> \in {<<"user", "content">>, <<"assistant", "content">>,
                                    <<"assistant", "message">>}
        /\ \A b \in Range(l.blocks) : b.kind = "junk"

---------------------------------------------------------------------------
(* Properties                                                              *)

\* Every part keeps its type.
TypeOK ==
  /\ alphabet \in Files
  /\ parser.total \in Nat /\ parser.parsed \in Nat /\ parser.missing \in [Fields -> Nat]
  /\ parser.outcomes \in Seq(BOOLEAN) /\ Len(parser.outcomes) <= Window
  /\ ratio.size \in Sizes /\ Len(ratio.window) <= ratio.size
  /\ ratio.window \in Seq(Categories) /\ ratio.counts \in [Categories -> Nat]
  /\ ratio.blind + (ratio.mutations - ratio.withPath) <= ratio.writes + ratio.edits
  /\ phrases.withHit <= phrases.messages /\ Len(phrases.recent) <= RecentCap
  /\ thinking.visible <= thinking.blocks /\ Len(thinking.lengths) <= thinking.visible
  /\ health.window <= HealthWindow
  /\ grouper.open # NoTurn => grouper.open.count > Len(grouper.open.tools)

\* The events of a message are told once, however often its line comes
\* (parser.py:542): no two lines of a process share the id of a message.
EachMessageOnce ==
  \A i, j \in Here :
    told[i].event.id # None /\ told[i].event.id = told[j].event.id => told[i].line = told[j].line

\* A line that tells nothing leaves a trace in ParseStats, in missing_fields or
\* duplicate_count, or there was nothing to tell.  It is a trace in the counters
\* only: parse_health shows missing_fields when it is CRITICAL (parse_health.py:83),
\* and a message whose blocks are all missing counts as parsed (parser.py:597),
\* where docs/design.md:429-432 has every such line lower the confidence.
Traces(p) == p.duplicates + SumFunctionOnSet(p.missing, Fields \ {"timestamp"})
DriftLeavesATrace ==
  [][Len(file') > Len(file) /\ told' = told =>
       LET l == Last(file')
       IN l.form = "blank" \/ Vacuous(l) \/ Traces(parser') > Traces(parser)]_vars

\* parse_confidence judges the lines of the window and no others: a clean
\* beginning does not mask what comes later (parser.py:218), and in a session
\* that was never restored parse_health turns CRITICAL when they are all lost.
\* Lost is a line of no known form: a message with no usable block is judged
\* parsed (parser.py:597), although parser.py:182-185 and 246-248 say that a
\* line is parsed if it gave an event.
ConfidenceIsRecent ==
  LET lines == {i \in opened + 1 .. Len(file) : file[i].form # "blank"}
      recent == {i \in lines : Cardinality({j \in lines : j > i}) < Window}
      lost == {i \in recent \cap Mute :
                 \/ file[i].form # "object"
                 \/ Kind(file[i]) \notin {"assistant", "user", Structural}
                 \/ Kind(file[i]) # Structural /\ file[i].body = "flat"}
  IN /\ Len(parser.outcomes) = Cardinality(recent)
     /\ Cardinality({i \in DOMAIN parser.outcomes : ~parser.outcomes[i]}) = Cardinality(lost)
     /\ resumes = 0 /\ Cardinality(lines) >= HealthWindow /\ lost = recent /\ HealthNum > 0 =>
          HealthCritical

\* The window of read_edit_ratio has the last calls of the session, through
\* restarts too, and its counts are theirs unless a restart had a smaller
\* window: then the counts outlive the calls.
RatioOfTheWindow ==
  LET calls == Calls
      categories == [i \in DOMAIN calls |-> Classify(calls[i].payload.tool)]
      counted == [c \in Categories |-> CountIn(ratio.window, {c})]
  IN /\ ratio.window = LastOf(categories, Len(ratio.window))
     /\ ~shrunk => ratio.counts = counted
     /\ resumes = 0 => Len(ratio.window) = Len(LastOf(calls, ratio.size))

\* A mutation is blind by what the whole session did before it, whichever
\* process saw it (read_edit_ratio.py:90).
BlindIsUnread ==
  LET calls == Calls
  IN ratio.blind = Cardinality({i \in DOMAIN calls : BlindCall(calls, i)})

\* max_burst is the longest run of messages that correct themselves, tool calls
\* and restarts between them or not (reasoning_loop.py:82, docs/collectors.md:177;
\* docs/design.md:394 has another meaning, the highest count in one message).
MaxBurstIsLongest ==
  /\ loop.maxBurst = Most(Bursts(Said))
  /\ LoopSeverity(loop) # "OK" /\ LoopWarn > 0 /\ LoopCritical > 0 => loop.matches > 0

\* The recent hits are the last ones of the session, in order, and the counts
\* by category add up to the hits the severity is taken from.
RecentHitsAreLast ==
  LET said == Said
      of(i) == [h \in DOMAIN StopHits[said[i].payload] |-> <<StopHits[said[i].payload][h], i>>]
      all == FlattenSeq([i \in DOMAIN said |-> of(i)])
  IN /\ phrases.recent = LastOf(all, RecentCap)
     /\ SumFunction(phrases.byCategory) = phrases.hits
     /\ StopSeverity(phrases.hits) = StopSeverity(Len(all))

\* From the first user message of a process on, every event is in exactly one
\* turn, in order: there is a turn for each user message, the tools of the turns
\* are the calls, and the counts add up.
TurnsCoverTheSession ==
  LET parts == IF grouper.open = NoTurn THEN grouper.turns ELSE Append(grouper.turns, grouper.open)
      starts == {i \in Here : told[i].event.kind = "USER_MESSAGE"}
      rest == IF starts = {} THEN <<>> ELSE SubSeq(told, Min(starts), Len(told))
      messages == Filtered(rest, LAMBDA t : t.event.kind = "USER_MESSAGE")
      calls == Filtered(rest, LAMBDA t : t.event.kind = "TOOL_CALL" /\ t.event.payload.tool # "")
      tools == FlattenSeq([i \in DOMAIN parts |-> parts[i].tools])
      Counted(n, part) == n + part.count
  IN /\ Len(parts) = Len(messages)
     /\ tools = [i \in DOMAIN calls |-> calls[i].event.payload.tool]
     /\ FoldLeft(Counted, 0, parts) = Len(rest)
=============================================================================
