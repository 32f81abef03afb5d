------------------------- MODULE Aggregator_proofs -------------------------
(***************************************************************************)
(* Theorems about Aggregator, for every number of sessions and collectors, *)
(* and every choice of the thresholds.                                     *)
(***************************************************************************)
EXTENDS Aggregator, TLAPS

---------------------------------------------------------------------------
(* Contexts                                                                *)

LEMMA ContextNotNone == \A c \in Context : c # None
  BY NoneAssumption

LEMMA NewContextType ==
  ASSUME TypeOK, NEW s \in Sessions, NEW age \in 0 .. EvictAfter,
         NEW R \in Unrestored(s)
  PROVE  NewContext(s, age, R) \in Context
<1>1. R \in SUBSET Collectors
  BY DEF Unrestored
<1> QED
  BY <1>1 DEF TypeOK, NewContext, Context

LEMMA EnsuredType ==
  ASSUME TypeOK, NEW s \in Sessions, NEW age \in 0 .. EvictAfter,
         NEW R \in Unrestored(s)
  PROVE  Ensured(s, age, R) \in Context
<1>1. ctx[s] # None => ctx[s] \in Context
  BY DEF TypeOK
<1> QED
  BY <1>1, NewContextType DEF Ensured

\* What an event changes of a context, and that the result is one.
LEMMA IngestedType ==
  ASSUME NEW c \in Context, NEW age \in 0 .. EvictAfter, NEW resolved \in BOOLEAN,
         NEW F \in SUBSET Collectors, NEW drift \in BOOLEAN
  PROVE  LET d == Ingested(c, age, resolved, F, drift)
         IN  /\ d \in Context
             /\ d.silence = SilenceAfter(c, age, resolved)
             /\ d.state = IF resolved THEN "ACTIVE" ELSE c.state
             /\ d.folded = FannedOut(c.folded, F)
             /\ d.failed = c.failed \cup F
<1>1. EvictAfter \in Nat
  BY ThresholdsAssumption
<1> DEFINE count == c.count + 1
           silence == SilenceAfter(c, age, resolved)
           state == IF resolved THEN "ACTIVE" ELSE c.state
           folded == FannedOut(c.folded, F)
           failed == c.failed \cup F
<1>2. /\ count \in Nat /\ silence \in 0 .. EvictAfter
      /\ state \in {"ACTIVE", "STALE"} /\ folded \in [Collectors -> Nat]
      /\ failed \in SUBSET Collectors
  BY <1>1 DEF Context, Least2, SilenceAfter, FannedOut
<1>3. Ingested(c, age, resolved, F, drift) =
        [c EXCEPT !.count = count, !.silence = silence, !.state = state,
                  !.folded = folded, !.failed = failed, !.drift = drift]
  BY DEF Ingested, Awake
<1> HIDE DEF count, silence, state, folded, failed
<1>4. LET d == Ingested(c, age, resolved, F, drift)
      IN  /\ d \in Context /\ d.silence = silence /\ d.state = state
          /\ d.folded = folded /\ d.failed = failed
  BY <1>2, <1>3 DEF Context
<1> QED
  BY <1>4 DEF silence, state, folded, failed

LEMMA IngestedState ==
  \A c \in Context, age \in 0 .. EvictAfter, resolved \in BOOLEAN,
     F \in SUBSET Collectors, drift \in BOOLEAN :
    /\ resolved => Ingested(c, age, resolved, F, drift).state = "ACTIVE"
    /\ ~ resolved => /\ Ingested(c, age, resolved, F, drift).state = c.state
                     /\ Ingested(c, age, resolved, F, drift).silence = c.silence
  BY DEF Ingested, Awake, SilenceAfter, Context

---------------------------------------------------------------------------
(* Type correctness                                                        *)

LEMMA ObservedType ==
  ASSUME NEW b \in [observed : Nat, done : BOOLEAN], NEW snap
  PROVE  Observed(b, snap) \in [observed : Nat, done : BOOLEAN]
  BY TargetAssumption DEF Observed

LEMMA InitType == Init => TypeOK
<1> SUFFICES ASSUME Init PROVE TypeOK
  OBVIOUS
<1>1. boot \in [observed : Nat, done : BOOLEAN] /\ stored \in [Sessions -> Nat]
  BY TargetAssumption, AggregatorBounds DEF Init
<1>2. said \in 0 .. MaxSaid /\ 0 \in 0 .. EvictAfter
  BY AggregatorBounds, ThresholdsAssumption DEF Init
<1> QED
  BY <1>1, <1>2 DEF Init, TypeOK, Live

LEMMA SourceType == TypeOK /\ SourceStep => TypeOK'
<1> SUFFICES ASSUME TypeOK, NEW s \in Sessions,
                    \/ \E age \in 0 .. EvictAfter, resumed \in BOOLEAN :
                         NewSession(s, age, resumed)
                    \/ \E age \in 0 .. EvictAfter, resolved \in BOOLEAN,
                          F \in SUBSET Collectors :
                         Event(s, age, resolved, F)
                    \/ NoEvent(s)
                    \/ DeleteSession(s)
             PROVE  TypeOK'
  BY DEF SourceStep
<1>0. 0 \in 0 .. EvictAfter
  BY ThresholdsAssumption
<1>1. Say(s) => /\ said' \in 0 .. MaxSaid /\ spoken' \subseteq Sessions
                /\ phase = "drain" /\ due = {}
  BY AggregatorBounds DEF Say, TypeOK
<1>2. ASSUME NEW age \in 0 .. EvictAfter, NEW resumed \in BOOLEAN,
             NewSession(s, age, resumed)
      PROVE  TypeOK'
  <2>1. ctx' \in [Sessions -> Context \cup {None}]
    <3>1. PICK R \in Unrestored(s) : ctx' = [ctx EXCEPT ![s] = Ensured(s, age, R)]
      BY <1>2 DEF NewSession
    <3>2. Ensured(s, age, R) \in Context
      BY EnsuredType
    <3> QED
      BY <3>1, <3>2 DEF TypeOK
  <2>2. /\ told' \in [Sessions -> Nat] /\ quiet' \in [Sessions -> 0 .. EvictAfter]
        /\ followed' \subseteq Sessions /\ skewed' \subseteq Sessions
    BY <1>2 DEF NewSession, TypeOK
  <2> QED
    BY <1>1, <1>2, <2>1, <2>2 DEF NewSession, TypeOK, Live
<1>3. ASSUME NEW age \in 0 .. EvictAfter, NEW resolved \in BOOLEAN,
             NEW F \in SUBSET Collectors, Event(s, age, resolved, F)
      PROVE  TypeOK'
  <2>1. PICK drift \in BOOLEAN, R \in Unrestored(s) :
          ctx' = [ctx EXCEPT ![s] = Ingested(Ensured(s, 0, R), age, resolved, F, drift)]
    BY <1>3 DEF Event
  <2>2. Ingested(Ensured(s, 0, R), age, resolved, F, drift) \in Context
    BY <1>0, EnsuredType, IngestedType
  <2>3. ctx' \in [Sessions -> Context \cup {None}]
    BY <2>1, <2>2 DEF TypeOK
  <2>4. told' \in [Sessions -> Nat] /\ quiet' \in [Sessions -> 0 .. EvictAfter]
    BY <1>3, ThresholdsAssumption DEF Event, TypeOK, Least2
  <2> QED
    BY <1>1, <1>3, <2>3, <2>4 DEF Event, TypeOK, Live
<1>4. CASE NoEvent(s)
  <2>1. PICK drift \in BOOLEAN, R \in Unrestored(s) :
          ctx' = [ctx EXCEPT ![s] = [Ensured(s, 0, R) EXCEPT !.drift = drift]]
    BY <1>4 DEF NoEvent
  <2>2. [Ensured(s, 0, R) EXCEPT !.drift = drift] \in Context
    <3>1. \A c \in Context : [c EXCEPT !.drift = drift] \in Context
      BY DEF Context
    <3> QED
      BY <1>0, <3>1, EnsuredType
  <2>3. ctx' \in [Sessions -> Context \cup {None}]
    BY <2>1, <2>2 DEF TypeOK
  <2> QED
    BY <1>1, <1>4, <2>3 DEF NoEvent, TypeOK, Live
<1>5. CASE DeleteSession(s)
  <2>1. /\ ctx' \in [Sessions -> Context \cup {None}]
        /\ boot' \in [observed : Nat, done : BOOLEAN]
        /\ quiet' \in [Sessions -> 0 .. EvictAfter]
    BY <1>0, <1>5, ObservedType DEF DeleteSession, Evict, TypeOK
  <2> QED
    BY <1>1, <1>5, <2>1 DEF DeleteSession, TypeOK, Live
<1> QED
  BY <1>2, <1>3, <1>4, <1>5

\* The lifecycle pass changes states only, and time only the silence.
LEMMA LifecycleContexts ==
  ASSUME TypeOK, Lifecycle
  PROVE  /\ ctx' \in [Sessions -> Context \cup {None}]
         /\ \A s \in Sessions :
              \/ ctx'[s] = ctx[s]
              \/ /\ s \in Live /\ ctx[s].silence >= StaleAfter
                 /\ ctx'[s] = [ctx[s] EXCEPT !.state = "STALE"]
         /\ Live' = Live
<1>1. \A c \in Context : [c EXCEPT !.state = "STALE"] \in Context
  BY DEF Context
<1>2. \A s \in Sessions :
        \/ ctx'[s] = ctx[s]
        \/ /\ s \in Live /\ ctx[s].silence >= StaleAfter
           /\ ctx'[s] = [ctx[s] EXCEPT !.state = "STALE"]
  BY DEF Lifecycle
<1>3. ASSUME NEW s \in Sessions
      PROVE  /\ ctx'[s] = ctx[s] \/ (s \in Live /\ ctx'[s] \in Context)
             /\ ctx'[s] \in Context \cup {None}
  <2>1. ctx[s] \in Context \cup {None} /\ (s \in Live => ctx[s] \in Context)
    BY DEF Live, TypeOK
  <2> QED
    BY <1>1, <1>2, <2>1
<1>4. ctx' \in [Sessions -> Context \cup {None}]
  <2>1. ctx' = [s \in Sessions |-> ctx'[s]]
    BY Zenon DEF Lifecycle
  <2> QED
    BY <1>3, <2>1
<1>5. Live' = Live
  BY <1>3, ContextNotNone DEF Live
<1> QED
  BY <1>2, <1>4, <1>5

LEMMA AdvanceContexts ==
  ASSUME TypeOK, Advance
  PROVE  /\ ctx' \in [Sessions -> Context \cup {None}]
         /\ \A s \in Sessions :
              /\ s \notin Live => ctx'[s] = None
              /\ s \in Live =>
                   ctx'[s] = [ctx[s] EXCEPT !.silence = Least2(ctx[s].silence + 1, EvictAfter)]
         /\ Live' = Live
<1>1. \A c \in Context : [c EXCEPT !.silence = Least2(c.silence + 1, EvictAfter)] \in Context
  <2> SUFFICES ASSUME NEW c \in Context
               PROVE  [c EXCEPT !.silence = Least2(c.silence + 1, EvictAfter)] \in Context
    OBVIOUS
  <2>1. Least2(c.silence + 1, EvictAfter) \in 0 .. EvictAfter
    BY ThresholdsAssumption DEF Context, Least2
  <2> QED
    BY <2>1 DEF Context
<1>2. \A s \in Live : ctx[s] \in Context
  BY DEF Live, TypeOK
<1>3. \A s \in Sessions :
        /\ s \notin Live => ctx'[s] = None
        /\ s \in Live =>
             ctx'[s] = [ctx[s] EXCEPT !.silence = Least2(ctx[s].silence + 1, EvictAfter)]
  BY DEF Advance
<1>4. ctx' \in [Sessions -> Context \cup {None}]
  BY <1>1, <1>2 DEF Advance
<1>5. \A s \in Sessions : s \in Live <=> ctx'[s] # None
  <2>1. \A s \in Live : ctx'[s] \in Context
    BY <1>1, <1>2, <1>3 DEF Live
  <2> QED
    BY <1>3, <2>1, ContextNotNone
<1>6. Live' = Live
  BY <1>5 DEF Live
<1> QED
  BY <1>3, <1>4, <1>6

LEMMA SnappedType ==
  ASSUME TypeOK, NEW s \in Live, NEW F \in SUBSET Collectors
  PROVE  Snapped(s, F) \in [Collectors -> Nat \cup {None}]
<1>1. ctx[s] \in Context
  BY DEF Live, TypeOK
<1> QED
  BY <1>1 DEF Snapped, Context

LEMMA YieldContexts ==
  ASSUME TypeOK, NEW s \in Sessions, NEW F \in SUBSET Collectors, Yield(s, F)
  PROVE  /\ s \in Live
         /\ ctx'[s] = [ctx[s] EXCEPT !.snap = Snapped(s, F), !.snapped = TRUE]
         /\ \A r \in Sessions \ {s} : ctx'[r] = ctx[r]
         /\ ctx' \in [Sessions -> Context \cup {None}] /\ Live' = Live
         /\ shown'[s] \in Yielded /\ shown'[s].pinned = ~ boot.done
         /\ \A r \in Sessions \ {s} : shown'[r] = shown[r]
         /\ shown' \in [Sessions -> Yielded \cup {None}]
<1>1. s \in Live /\ ctx[s] \in Context
  BY DEF Yield, Live, TypeOK
<1>2. ctx' = [ctx EXCEPT ![s] = [@ EXCEPT !.snap = Snapped(s, F), !.snapped = TRUE]]
  BY DEF Yield
<1>3. [ctx[s] EXCEPT !.snap = Snapped(s, F), !.snapped = TRUE] \in Context
  BY <1>1, SnappedType DEF Context
<1>4. [state |-> ctx[s].state, pinned |-> ~ boot.done,
       critical |-> ctx[s].bound /\ ctx[s].drift, drift |-> ctx[s].drift] \in Yielded
  BY <1>1 DEF Yielded, Context
<1>5. ctx' \in [Sessions -> Context \cup {None}]
  BY <1>2, <1>3 DEF TypeOK
<1>6. /\ ctx'[s] = [ctx[s] EXCEPT !.snap = Snapped(s, F), !.snapped = TRUE]
      /\ \A r \in Sessions \ {s} : ctx'[r] = ctx[r]
  BY <1>2 DEF TypeOK
<1>7. Live' = Live
  <2>1. ctx'[s] # None
    BY <1>3, <1>6, ContextNotNone
  <2> QED
    BY <1>1, <1>6, <2>1 DEF Live
<1> QED
  BY <1>1, <1>4, <1>5, <1>6, <1>7 DEF Yield, TypeOK, Yielded

LEMMA TickType == TypeOK /\ TickStep => TypeOK'
<1> SUFFICES ASSUME TypeOK, TickStep PROVE TypeOK'
  OBVIOUS
<1>1. CASE BeginTick
  BY <1>1 DEF BeginTick, TypeOK, Live
<1>2. CASE Lifecycle
  <2>1. Live' = Live
    BY <1>2, LifecycleContexts
  <2>2. due' \subseteq Live'
    BY <1>2, <2>1 DEF Lifecycle, Overdue
  <2> QED
    BY <1>2, <2>2, LifecycleContexts DEF Lifecycle, TypeOK
<1>3. CASE BeginYield
  BY <1>3 DEF BeginYield, TypeOK, Live
<1>4. CASE EndTick
  BY <1>4 DEF EndTick, TypeOK, Live
<1>5. ASSUME NEW s \in Sessions, EvictDue(s) PROVE TypeOK'
  <2>1. /\ ctx' \in [Sessions -> Context \cup {None}]
        /\ boot' \in [observed : Nat, done : BOOLEAN]
        /\ quiet' \in [Sessions -> 0 .. EvictAfter]
    BY <1>5, ObservedType, ThresholdsAssumption DEF EvictDue, Evict, TypeOK
  <2>2. Live' = Live \ {s} /\ due' \subseteq Live'
    BY <1>5 DEF EvictDue, Evict, TypeOK, Live
  <2> QED
    BY <1>5, <2>1, <2>2 DEF EvictDue, TypeOK
<1>6. ASSUME NEW s \in Sessions, NEW F \in SUBSET Collectors, Yield(s, F) PROVE TypeOK'
  <2>1. ctx' \in [Sessions -> Context \cup {None}] /\ Live' = Live
    BY <1>6, YieldContexts
  <2>2. due' \subseteq Live'
    BY <1>6, <2>1 DEF Yield, TypeOK
  <2> QED
    BY <1>6, <2>1, <2>2, YieldContexts DEF Yield, TypeOK
<1> QED
  BY <1>1, <1>2, <1>3, <1>4, <1>5, <1>6 DEF TickStep

LEMMA CloseType == TypeOK /\ CloseStep => TypeOK'
<1> SUFFICES ASSUME TypeOK, CloseStep PROVE TypeOK'
  OBVIOUS
<1>1. CASE BeginClose
  BY <1>1 DEF BeginClose, TypeOK, Live
<1>2. ASSUME NEW s \in Sessions, NEW F \in SUBSET Collectors, CloseSession(s, F)
      PROVE  TypeOK'
  <2>1. quiet' \in [Sessions -> 0 .. EvictAfter]
    BY <1>2, ThresholdsAssumption DEF CloseSession, TypeOK
  <2> QED
    BY <1>2, <2>1, ObservedType DEF CloseSession, TypeOK, Live
<1> QED
  BY <1>1, <1>2 DEF CloseStep

LEMMA NextType == TypeOK /\ [Next]_vars => TypeOK'
<1> SUFFICES ASSUME TypeOK, [Next]_vars PROVE TypeOK'
  OBVIOUS
<1>1. CASE Advance
  <2>1. quiet' \in [Sessions -> 0 .. EvictAfter]
    BY <1>1, ThresholdsAssumption DEF Advance, TypeOK, Least2
  <2> QED
    BY <1>1, <2>1, AdvanceContexts DEF Advance, TypeOK
<1>2. CASE UNCHANGED vars
  BY <1>2 DEF vars, TypeOK, Live
<1> QED
  BY <1>1, <1>2, SourceType, TickType, CloseType DEF Next

\* Every reachable state has the type TypeOK states: what a pass has still to
\* handle is always live, and between ticks nothing is left to handle.
THEOREM TypeCorrect == Spec => []TypeOK
  BY InitType, NextType, PTL DEF Spec

---------------------------------------------------------------------------
(* Which sessions are live                                                 *)

\* A source event touches the context of its session only.
LEMMA NewSessionContexts ==
  ASSUME TypeOK, NEW s \in Sessions, NEW age \in 0 .. EvictAfter,
         NEW resumed \in BOOLEAN, NewSession(s, age, resumed)
  PROVE  /\ \E R \in Unrestored(s) : ctx'[s] = Ensured(s, age, R)
         /\ ctx'[s] \in Context
         /\ \A r \in Sessions \ {s} : ctx'[r] = ctx[r]
         /\ Live' = Live \cup {s}
<1>1. /\ \E R \in Unrestored(s) : ctx'[s] = Ensured(s, age, R)
      /\ \A r \in Sessions \ {s} : ctx'[r] = ctx[r]
  BY DEF NewSession, TypeOK
<1>2. ctx'[s] \in Context
  BY <1>1, EnsuredType
<1> QED
  BY <1>1, <1>2, ContextNotNone DEF Live

LEMMA EventContexts ==
  ASSUME TypeOK, NEW s \in Sessions, NEW age \in 0 .. EvictAfter,
         NEW resolved \in BOOLEAN, NEW F \in SUBSET Collectors,
         Event(s, age, resolved, F)
  PROVE  /\ \E drift \in BOOLEAN, R \in Unrestored(s) :
              /\ Ensured(s, 0, R) \in Context
              /\ ctx'[s] = Ingested(Ensured(s, 0, R), age, resolved, F, drift)
         /\ ctx'[s] \in Context
         /\ \A r \in Sessions \ {s} : ctx'[r] = ctx[r]
         /\ Live' = Live \cup {s}
<1>0. 0 \in 0 .. EvictAfter
  BY ThresholdsAssumption
<1>1. PICK drift \in BOOLEAN, R \in Unrestored(s) :
        ctx' = [ctx EXCEPT ![s] = Ingested(Ensured(s, 0, R), age, resolved, F, drift)]
  BY DEF Event
<1>2. /\ ctx'[s] = Ingested(Ensured(s, 0, R), age, resolved, F, drift)
      /\ \A r \in Sessions \ {s} : ctx'[r] = ctx[r]
  BY <1>1 DEF TypeOK
<1>3. Ensured(s, 0, R) \in Context /\ ctx'[s] \in Context
  <2>1. Ensured(s, 0, R) \in Context
    BY <1>0, EnsuredType
  <2>2. Ingested(Ensured(s, 0, R), age, resolved, F, drift) \in Context
    BY <2>1, IngestedType
  <2> QED
    BY <1>2, <2>1, <2>2
<1>4. Live' = Live \cup {s}
  BY <1>2, <1>3, ContextNotNone DEF Live
<1> QED
  BY <1>2, <1>3, <1>4

LEMMA NoEventContexts ==
  ASSUME TypeOK, NEW s \in Sessions, NoEvent(s)
  PROVE  /\ \E drift \in BOOLEAN, R \in Unrestored(s) :
              /\ Ensured(s, 0, R) \in Context
              /\ ctx'[s] = [Ensured(s, 0, R) EXCEPT !.drift = drift]
         /\ ctx'[s] \in Context
         /\ \A r \in Sessions \ {s} : ctx'[r] = ctx[r]
         /\ Live' = Live \cup {s}
<1>0. 0 \in 0 .. EvictAfter
  BY ThresholdsAssumption
<1>1. PICK drift \in BOOLEAN, R \in Unrestored(s) :
        ctx' = [ctx EXCEPT ![s] = [Ensured(s, 0, R) EXCEPT !.drift = drift]]
  BY DEF NoEvent
<1>2. /\ ctx'[s] = [Ensured(s, 0, R) EXCEPT !.drift = drift]
      /\ \A r \in Sessions \ {s} : ctx'[r] = ctx[r]
  BY <1>1 DEF TypeOK
<1>3. \A c \in Context : [c EXCEPT !.drift = drift] \in Context
  BY DEF Context
<1>4. Ensured(s, 0, R) \in Context /\ ctx'[s] \in Context
  BY <1>0, <1>2, <1>3, EnsuredType
<1>5. Live' = Live \cup {s}
  BY <1>2, <1>4, ContextNotNone DEF Live
<1> QED
  BY <1>2, <1>4, <1>5

\* DELETE, an eviction and close() each take one session out of the table.
LEMMA RemovedContexts ==
  ASSUME TypeOK, NEW s \in Sessions,
         \/ DeleteSession(s) \/ EvictDue(s)
         \/ \E F \in SUBSET Collectors : CloseSession(s, F)
  PROVE  /\ \A r \in Sessions \ {s} : ctx'[r] = ctx[r]
         /\ Live' = Live \ {s}
<1>1. CASE DeleteSession(s)
  BY <1>1 DEF DeleteSession, Evict, TypeOK, Live
<1>2. CASE EvictDue(s)
  BY <1>2 DEF EvictDue, Evict, TypeOK, Live
<1>3. CASE \E F \in SUBSET Collectors : CloseSession(s, F)
  BY <1>3 DEF CloseSession, TypeOK, Live
<1> QED
  BY <1>1, <1>2, <1>3

---------------------------------------------------------------------------
(* DELETE is the last word                                                 *)

LEMMA FollowedStep == TypeOK /\ LiveIsFollowed /\ [Next]_vars => LiveIsFollowed'
<1> SUFFICES ASSUME TypeOK, LiveIsFollowed, [Next]_vars PROVE LiveIsFollowed'
  OBVIOUS
<1>1. ASSUME NEW s \in Sessions, NEW age \in 0 .. EvictAfter,
             NEW resumed \in BOOLEAN, NewSession(s, age, resumed)
      PROVE  LiveIsFollowed'
  BY <1>1, NewSessionContexts DEF NewSession, LiveIsFollowed
<1>2. ASSUME NEW s \in Sessions, NEW age \in 0 .. EvictAfter,
             NEW resolved \in BOOLEAN, NEW F \in SUBSET Collectors,
             Event(s, age, resolved, F)
      PROVE  LiveIsFollowed'
  <2>1. Live' = Live \cup {s}
    BY <1>2, EventContexts
  <2>2. phase' = phase /\ followed' = followed /\ s \in followed
    BY <1>2 DEF Event
  <2> QED
    BY <2>1, <2>2 DEF LiveIsFollowed
<1>3. ASSUME NEW s \in Sessions, NoEvent(s) PROVE LiveIsFollowed'
  <2>1. Live' = Live \cup {s}
    BY <1>3, NoEventContexts
  <2>2. phase' = phase /\ followed' = followed /\ s \in followed
    BY <1>3 DEF NoEvent
  <2> QED
    BY <2>1, <2>2 DEF LiveIsFollowed
<1>4. ASSUME NEW s \in Sessions, DeleteSession(s) PROVE LiveIsFollowed'
  BY <1>4, RemovedContexts DEF DeleteSession, LiveIsFollowed
<1>5. ASSUME NEW s \in Sessions, EvictDue(s) PROVE LiveIsFollowed'
  BY <1>5, RemovedContexts DEF EvictDue, LiveIsFollowed
<1>6. ASSUME NEW s \in Sessions, NEW F \in SUBSET Collectors,
             Yield(s, F) \/ CloseSession(s, F)
      PROVE  LiveIsFollowed'
  BY <1>6, YieldContexts DEF Yield, CloseSession, LiveIsFollowed
<1>7. CASE BeginTick \/ BeginYield \/ EndTick
  BY <1>7 DEF BeginTick, BeginYield, EndTick, LiveIsFollowed, Live
<1>8. CASE Lifecycle
  BY <1>8, LifecycleContexts DEF Lifecycle, LiveIsFollowed
<1>9. CASE BeginClose
  BY <1>9 DEF BeginClose, LiveIsFollowed
<1>10. CASE Advance
  BY <1>10, AdvanceContexts DEF Advance, LiveIsFollowed
<1>11. CASE UNCHANGED vars
  BY <1>11 DEF vars, LiveIsFollowed, Live
<1> QED
  BY <1>1, <1>2, <1>3, <1>4, <1>5, <1>6, <1>7, <1>8, <1>9, <1>10, <1>11
     DEF Next, SourceStep, TickStep, CloseStep

\* No live session is one the source does not follow: whatever the order of
\* evictions, deletions and re-creations, none outlives its DELETE.
THEOREM DeleteIsFinal == Spec => []LiveIsFollowed
<1>1. Init => LiveIsFollowed
  BY DEF Init, LiveIsFollowed, Live
<1> QED
  BY <1>1, FollowedStep, TypeCorrect, PTL DEF Spec

---------------------------------------------------------------------------
(* The lifecycle                                                           *)

\* A STALE session has been silent for StaleAfter at least.
StaleIsSilent ==
  \A s \in Live : ctx[s].state = "STALE" => ctx[s].silence >= StaleAfter

LEMMA StaleStep == TypeOK /\ StaleIsSilent /\ [Next]_vars => StaleIsSilent'
<1> SUFFICES ASSUME TypeOK, StaleIsSilent, [Next]_vars,
                    NEW s \in Sessions, s \in Live', ctx'[s].state = "STALE"
             PROVE  ctx'[s].silence >= StaleAfter
  BY DEF StaleIsSilent, Live
<1>0. /\ ctx[s] # None => ctx[s] \in Context
      /\ ctx'[s] = ctx[s] => ctx'[s].silence >= StaleAfter
  <2>1. ctx[s] # None /\ ctx[s].state = "STALE" => ctx[s].silence >= StaleAfter
    BY DEF StaleIsSilent, Live
  <2>2. ctx'[s] # None
    BY DEF Live
  <2> QED
    BY <2>1, <2>2 DEF TypeOK
\* A context that is made is ACTIVE, one that is there keeps the implication.
<1>a. ASSUME NEW age \in 0 .. EvictAfter, NEW R \in Unrestored(s)
      PROVE  /\ Ensured(s, age, R) \in Context
             /\ Ensured(s, age, R).state = "STALE" => Ensured(s, age, R).silence >= StaleAfter
  <2>1. NewContext(s, age, R).state = "ACTIVE"
    BY DEF NewContext
  <2>2. ctx[s] # None /\ ctx[s].state = "STALE" => ctx[s].silence >= StaleAfter
    BY DEF StaleIsSilent, Live
  <2> QED
    BY <2>1, <2>2, EnsuredType DEF Ensured
<1>1. ASSUME NEW r \in Sessions, NEW age \in 0 .. EvictAfter,
             NEW resumed \in BOOLEAN, NewSession(r, age, resumed)
      PROVE  ctx'[s].silence >= StaleAfter
  BY <1>0, <1>1, <1>a, NewSessionContexts
<1>2. ASSUME NEW r \in Sessions, NEW age \in 0 .. EvictAfter,
             NEW resolved \in BOOLEAN, NEW F \in SUBSET Collectors,
             Event(r, age, resolved, F)
      PROVE  ctx'[s].silence >= StaleAfter
  <2>1. CASE r # s
    BY <1>0, <1>2, <2>1, EventContexts
  <2>2. CASE r = s
    <3>1. PICK drift \in BOOLEAN, R \in Unrestored(s) :
            ctx'[s] = Ingested(Ensured(s, 0, R), age, resolved, F, drift)
      BY <1>2, <2>2, EventContexts
    <3>2. 0 \in 0 .. EvictAfter
      BY ThresholdsAssumption
    <3>3. ~ resolved /\ ctx'[s].silence = Ensured(s, 0, R).silence
          /\ Ensured(s, 0, R).state = "STALE"
      <4>1. PICK c \in Context : c = Ensured(s, 0, R)
        BY <1>a, <3>2
      <4> QED
        BY <3>1, <4>1, IngestedState
    <3> QED
      BY <1>a, <3>2, <3>3
  <2> QED
    BY <2>1, <2>2
<1>3. ASSUME NEW r \in Sessions, NoEvent(r) PROVE ctx'[s].silence >= StaleAfter
  <2>1. CASE r # s
    BY <1>0, <1>3, <2>1, NoEventContexts
  <2>2. CASE r = s
    <3>1. PICK drift \in BOOLEAN, R \in Unrestored(s) :
            ctx'[s] = [Ensured(s, 0, R) EXCEPT !.drift = drift]
      BY <1>3, <2>2, NoEventContexts
    <3>2. 0 \in 0 .. EvictAfter
      BY ThresholdsAssumption
    <3>3. \A c \in Context : /\ [c EXCEPT !.drift = drift].state = c.state
                             /\ [c EXCEPT !.drift = drift].silence = c.silence
      BY DEF Context
    <3> QED
      BY <1>a, <3>1, <3>2, <3>3
  <2> QED
    BY <2>1, <2>2
<1>4. ASSUME NEW r \in Sessions,
             \/ DeleteSession(r) \/ EvictDue(r)
             \/ \E F \in SUBSET Collectors : CloseSession(r, F)
      PROVE  ctx'[s].silence >= StaleAfter
  <2>1. s # r
    BY <1>4, RemovedContexts
  <2> QED
    BY <1>0, <1>4, <2>1, RemovedContexts
<1>5. ASSUME NEW r \in Sessions, NEW F \in SUBSET Collectors, Yield(r, F)
      PROVE  ctx'[s].silence >= StaleAfter
  <2>1. CASE r # s
    BY <1>0, <1>5, <2>1, YieldContexts
  <2>2. CASE r = s
    <3>1. ctx'[s] = [ctx[s] EXCEPT !.snap = Snapped(s, F), !.snapped = TRUE]
      BY <1>5, <2>2, YieldContexts
    <3>2. s \in Live
      BY <1>5, <2>2, YieldContexts
    <3>3. ctx[s] \in Context
      BY <1>0, <3>2 DEF Live
    <3>4. ctx'[s].state = ctx[s].state /\ ctx'[s].silence = ctx[s].silence
      BY <3>1, <3>3 DEF Context
    <3> QED
      BY <3>2, <3>4 DEF StaleIsSilent
  <2> QED
    BY <2>1, <2>2
<1>6. CASE BeginTick \/ BeginYield \/ EndTick \/ BeginClose \/ UNCHANGED vars
  BY <1>0, <1>6 DEF BeginTick, BeginYield, EndTick, BeginClose, vars
<1>7. CASE Lifecycle
  <2>1. CASE ctx'[s] = ctx[s]
    BY <1>0, <2>1
  <2>2. CASE /\ s \in Live /\ ctx[s].silence >= StaleAfter
             /\ ctx'[s] = [ctx[s] EXCEPT !.state = "STALE"]
    BY <1>0, <2>2 DEF Context, Live
  <2> QED
    BY <1>7, <2>1, <2>2, LifecycleContexts
<1>8. CASE Advance
  <2>1. s \in Live
    BY <1>8, AdvanceContexts
  <2>2. ctx'[s] = [ctx[s] EXCEPT !.silence = Least2(ctx[s].silence + 1, EvictAfter)]
    BY <1>8, <2>1, AdvanceContexts
  <2>3. ctx[s] \in Context
    BY <1>0, <2>1 DEF Live
  <2>4. /\ ctx'[s].state = ctx[s].state
        /\ ctx'[s].silence = Least2(ctx[s].silence + 1, EvictAfter)
    BY <2>2, <2>3 DEF Context
  <2>5. ctx[s].silence >= StaleAfter
    BY <2>1, <2>4 DEF StaleIsSilent
  <2>6. ctx[s].silence \in Nat /\ StaleAfter \in Nat /\ EvictAfter \in Nat /\ StaleAfter < EvictAfter
    BY <2>3, ThresholdsAssumption DEF Context
  <2> QED
    BY <2>4, <2>5, <2>6 DEF Least2
<1> QED
  BY <1>1, <1>2, <1>3, <1>4, <1>5, <1>6, <1>7, <1>8
     DEF Next, SourceStep, TickStep, CloseStep

\* The silence a context keeps is the time since the latest activity the source
\* told of.
QuietOf(s) == IF s \in Live THEN ctx[s].silence = quiet[s] ELSE quiet[s] = 0
QuietInv == \A s \in Sessions : QuietOf(s)

LEMMA QuietStep == TypeOK /\ LiveIsFollowed /\ QuietInv /\ [Next]_vars => QuietInv'
<1> SUFFICES ASSUME TypeOK, LiveIsFollowed, QuietInv, [Next]_vars,
                    NEW s \in Sessions
             PROVE  QuietOf(s)'
  BY DEF QuietInv
<1>0. /\ QuietOf(s)
      /\ s \in Live <=> ctx[s] # None
      /\ s \in Live => ctx[s] \in Context
      /\ (s \in Live)' <=> ctx'[s] # None
      /\ quiet[s] \in 0 .. EvictAfter /\ 0 \in 0 .. EvictAfter
  BY ThresholdsAssumption DEF QuietInv, Live, TypeOK
\* A step that leaves the session alone, and one that changes another field.
<1>a. ctx'[s] = ctx[s] /\ quiet'[s] = quiet[s] => QuietOf(s)'
  BY <1>0 DEF QuietOf
<1>b. /\ s \in Live /\ (s \in Live)' /\ quiet'[s] = quiet[s]
      /\ ctx'[s].silence = ctx[s].silence
      => QuietOf(s)'
  BY <1>0 DEF QuietOf
\* A session that is not there is made with the silence it is found with.
<1>c. ASSUME NEW age \in 0 .. EvictAfter, NEW R \in Unrestored(s), s \notin Live
      PROVE  Ensured(s, age, R).silence = age
  BY <1>0, <1>c DEF Ensured, NewContext
<1>1. ASSUME NEW r \in Sessions, NEW age \in 0 .. EvictAfter,
             NEW resumed \in BOOLEAN, NewSession(r, age, resumed)
      PROVE  QuietOf(s)'
  <2>1. CASE r # s
    <3>1. ctx'[s] = ctx[s] /\ quiet'[s] = quiet[s]
      BY <1>1, <2>1, NewSessionContexts DEF NewSession, TypeOK
    <3> QED
      BY <1>a, <3>1
  <2>2. CASE r = s
    <3>1. s \notin Live /\ quiet'[s] = age
      BY <1>1, <2>2 DEF NewSession, Say, LiveIsFollowed, TypeOK
    <3>2. PICK R \in Unrestored(s) : ctx'[s] = Ensured(s, age, R)
      BY <1>1, <2>2, NewSessionContexts
    <3>3. (s \in Live)'
      BY <1>1, <2>2, NewSessionContexts
    <3> QED
      BY <1>c, <3>1, <3>2, <3>3 DEF QuietOf
  <2> QED
    BY <2>1, <2>2
<1>2. ASSUME NEW r \in Sessions, NEW age \in 0 .. EvictAfter,
             NEW resolved \in BOOLEAN, NEW F \in SUBSET Collectors,
             Event(r, age, resolved, F)
      PROVE  QuietOf(s)'
  <2>1. CASE r # s
    <3>1. ctx'[s] = ctx[s] /\ quiet'[s] = quiet[s]
      BY <1>2, <2>1, EventContexts DEF Event, TypeOK
    <3> QED
      BY <1>a, <3>1
  <2>2. CASE r = s
    <3>1. quiet'[s] = IF resolved THEN Least2(quiet[s], age) ELSE quiet[s]
      BY <1>2, <2>2 DEF Event, TypeOK
    <3>2. PICK drift \in BOOLEAN, R \in Unrestored(s) :
            /\ Ensured(s, 0, R) \in Context
            /\ ctx'[s] = Ingested(Ensured(s, 0, R), age, resolved, F, drift)
      BY <1>2, <2>2, EventContexts
    <3>3. Ensured(s, 0, R).silence = quiet[s]
      <4>1. CASE s \in Live
        BY <1>0, <4>1 DEF Ensured, QuietOf
      <4>2. CASE s \notin Live
        BY <1>0, <1>c, <4>2 DEF QuietOf
      <4> QED
        BY <4>1, <4>2
    <3>4. ctx'[s].silence = SilenceAfter(Ensured(s, 0, R), age, resolved)
      BY <3>2, IngestedType
    <3>5. (s \in Live)'
      BY <1>2, <2>2, EventContexts
    <3> QED
      BY <3>1, <3>3, <3>4, <3>5 DEF SilenceAfter, QuietOf
  <2> QED
    BY <2>1, <2>2
<1>3. ASSUME NEW r \in Sessions, NoEvent(r) PROVE QuietOf(s)'
  <2>0. quiet' = quiet
    BY <1>3 DEF NoEvent
  <2>1. CASE r # s
    <3>1. ctx'[s] = ctx[s]
      BY <1>3, <2>1, NoEventContexts
    <3> QED
      BY <1>a, <2>0, <3>1
  <2>2. CASE r = s
    <3>1. PICK drift \in BOOLEAN, R \in Unrestored(s) :
            /\ Ensured(s, 0, R) \in Context
            /\ ctx'[s] = [Ensured(s, 0, R) EXCEPT !.drift = drift]
      BY <1>3, <2>2, NoEventContexts
    <3>2. ctx'[s].silence = Ensured(s, 0, R).silence
      BY <3>1 DEF Context
    <3>3. Ensured(s, 0, R).silence = quiet[s]
      <4>1. CASE s \in Live
        BY <1>0, <4>1 DEF Ensured, QuietOf
      <4>2. CASE s \notin Live
        BY <1>0, <1>c, <4>2 DEF QuietOf
      <4> QED
        BY <4>1, <4>2
    <3>4. (s \in Live)'
      BY <1>3, <2>2, NoEventContexts
    <3> QED
      BY <2>0, <3>2, <3>3, <3>4 DEF QuietOf
  <2> QED
    BY <2>1, <2>2
<1>4. ASSUME NEW r \in Sessions,
             \/ DeleteSession(r) \/ EvictDue(r)
             \/ \E F \in SUBSET Collectors : CloseSession(r, F)
      PROVE  QuietOf(s)'
  <2>1. quiet' = [quiet EXCEPT ![r] = 0] \/ (r \notin Live /\ quiet' = quiet)
    BY <1>4 DEF DeleteSession, EvictDue, Evict, CloseSession
  <2>2. CASE r # s
    <3>1. ctx'[s] = ctx[s] /\ quiet'[s] = quiet[s]
      BY <1>4, <2>1, <2>2, RemovedContexts DEF TypeOK
    <3> QED
      BY <1>a, <3>1
  <2>3. CASE r = s
    <3>1. quiet'[s] = 0
      BY <1>0, <2>1, <2>3 DEF QuietOf, TypeOK
    <3>2. ~ (s \in Live)'
      BY <1>4, <2>3, RemovedContexts
    <3> QED
      BY <3>1, <3>2 DEF QuietOf
  <2> QED
    BY <2>2, <2>3
<1>5. ASSUME NEW r \in Sessions, NEW F \in SUBSET Collectors, Yield(r, F)
      PROVE  QuietOf(s)'
  <2>0. quiet' = quiet
    BY <1>5 DEF Yield
  <2>1. CASE r # s
    <3>1. ctx'[s] = ctx[s]
      BY <1>5, <2>1, YieldContexts
    <3> QED
      BY <1>a, <2>0, <3>1
  <2>2. CASE r = s
    <3>1. /\ ctx'[s] = [ctx[s] EXCEPT !.snap = Snapped(s, F), !.snapped = TRUE]
          /\ s \in Live /\ (s \in Live)'
      BY <1>5, <2>2, YieldContexts
    <3>2. ctx'[s].silence = ctx[s].silence
      BY <1>0, <3>1 DEF Context
    <3> QED
      BY <1>b, <2>0, <3>1, <3>2
  <2> QED
    BY <2>1, <2>2
<1>6. CASE BeginTick \/ BeginYield \/ EndTick \/ BeginClose \/ UNCHANGED vars
  <2>1. ctx' = ctx /\ quiet' = quiet
    BY <1>6 DEF BeginTick, BeginYield, EndTick, BeginClose, vars
  <2> QED
    BY <1>a, <2>1
<1>7. CASE Lifecycle
  <2>1. quiet' = quiet /\ Live' = Live
    BY <1>7, LifecycleContexts DEF Lifecycle
  <2>2. CASE ctx'[s] = ctx[s]
    BY <1>a, <2>1, <2>2
  <2>3. CASE /\ s \in Live
             /\ ctx'[s] = [ctx[s] EXCEPT !.state = "STALE"]
    <3>1. ctx'[s].silence = ctx[s].silence
      BY <1>0, <2>3 DEF Context
    <3> QED
      BY <1>b, <2>1, <2>3, <3>1
  <2> QED
    BY <1>7, <2>2, <2>3, LifecycleContexts
<1>8. CASE Advance
  <2>1. Live' = Live
    BY <1>8, AdvanceContexts
  <2>2. CASE s \in Live
    <3>1. ctx'[s] = [ctx[s] EXCEPT !.silence = Least2(ctx[s].silence + 1, EvictAfter)]
      BY <1>8, <2>2, AdvanceContexts
    <3>2. ctx'[s].silence = Least2(ctx[s].silence + 1, EvictAfter)
      BY <1>0, <2>2, <3>1 DEF Context
    <3>3. quiet'[s] = Least2(quiet[s] + 1, EvictAfter)
      BY <1>8, <2>2 DEF Advance
    <3> QED
      BY <1>0, <2>1, <2>2, <3>2, <3>3 DEF QuietOf
  <2>3. CASE s \notin Live
    <3>1. quiet'[s] = quiet[s]
      BY <1>8, <2>3 DEF Advance
    <3> QED
      BY <1>0, <2>1, <2>3, <3>1 DEF QuietOf
  <2> QED
    BY <2>2, <2>3
<1> QED
  BY <1>1, <1>2, <1>3, <1>4, <1>5, <1>6, <1>7, <1>8
     DEF Next, SourceStep, TickStep, CloseStep

\* A lifecycle pass evicts, or finds STALE, exactly the sessions whose latest
\* activity that the source told of is long enough ago, in whatever order events
\* of whatever age came in with the lifecycle passes, evictions and re-creations.
\* It rests on StaleAfter < EvictAfter, which config.py enforces: a session that
\* is STALE has not been silent for less than StaleAfter since.
THEOREM StatesAreTrue == Spec => StatesFollowActivity
<1>1. Init => StaleIsSilent /\ QuietInv
  BY DEF Init, StaleIsSilent, QuietInv, QuietOf, Live
<1>2. ASSUME TypeOK, StaleIsSilent, QuietInv, Lifecycle
      PROVE  \A s \in Live :
               /\ s \in due' <=> quiet[s] >= EvictAfter
               /\ s \notin due' => (ctx'[s].state = "STALE" <=> quiet[s] >= StaleAfter)
  <2> SUFFICES ASSUME NEW s \in Live
               PROVE  /\ s \in due' <=> quiet[s] >= EvictAfter
                      /\ s \notin due' => (ctx'[s].state = "STALE" <=> quiet[s] >= StaleAfter)
    OBVIOUS
  <2>1. /\ s \in Sessions /\ ctx[s] \in Context /\ ctx[s].silence = quiet[s]
        /\ ctx[s].state = "STALE" => quiet[s] >= StaleAfter
    BY <1>2 DEF QuietInv, QuietOf, StaleIsSilent, Live, TypeOK
  <2>2. due' = Overdue
    BY <1>2 DEF Lifecycle
  <2>3. s \in due' <=> quiet[s] >= EvictAfter
    BY <2>1, <2>2 DEF Overdue
  <2>4. ASSUME s \notin due'
        PROVE  ctx'[s].state = "STALE" <=> quiet[s] >= StaleAfter
    <3>1. ctx'[s] = IF ctx[s].silence >= StaleAfter
                    THEN [ctx[s] EXCEPT !.state = "STALE"] ELSE ctx[s]
      BY <1>2, <2>1, <2>2, <2>4 DEF Lifecycle
    <3>2. [ctx[s] EXCEPT !.state = "STALE"].state = "STALE"
      BY <2>1 DEF Context
    <3> QED
      BY <2>1, <3>1, <3>2
  <2> QED
    BY <2>3, <2>4
<1>3. LiveIsFollowed /\ TypeOK /\ StaleIsSilent /\ QuietInv /\ [Next]_vars
      => [Lifecycle =>
            \A s \in Live :
              /\ s \in due' <=> quiet[s] >= EvictAfter
              /\ s \notin due' => (ctx'[s].state = "STALE" <=> quiet[s] >= StaleAfter)]_vars
  BY <1>2
<1> QED
  BY <1>1, <1>3, StaleStep, QuietStep, TypeCorrect, DeleteIsFinal, PTL
     DEF Spec, StatesFollowActivity

---------------------------------------------------------------------------
(* Every event is folded once                                              *)

\* FoldedOnce says nothing of a session that is followed but was evicted; its
\* next event makes its collectors anew, without what was folded before.
EvictedAreSkewed == followed \ Live \subseteq skewed
ClosedUnfollowed == phase = "closing" => followed = {}

FoldInv == LiveIsFollowed /\ FoldedOnce /\ EvictedAreSkewed /\ ClosedUnfollowed

\* The folds of one session.
FoldedOnceOf(s) ==
  s \in Live \ skewed =>
    \A c \in Collectors \ ctx[s].failed : ctx[s].folded[c] = told[s]

LEMMA FoldStep == TypeOK /\ FoldInv /\ [Next]_vars => FoldInv'
<1> SUFFICES ASSUME TypeOK, FoldInv, [Next]_vars
             PROVE  (\A s \in Sessions : FoldedOnceOf(s)') /\ EvictedAreSkewed' /\ ClosedUnfollowed'
  BY FollowedStep DEF FoldInv, FoldedOnce, FoldedOnceOf, Live
<1>0. /\ \A s \in Sessions : FoldedOnceOf(s)
      /\ EvictedAreSkewed /\ ClosedUnfollowed /\ LiveIsFollowed
      /\ \A s \in Live : ctx[s] \in Context
  BY DEF FoldInv, FoldedOnce, FoldedOnceOf, TypeOK, Live
\* A step that changes no folds, and what it leaves of the table.
<1>a. ASSUME NEW s \in Sessions, told' = told, skewed \subseteq skewed',
             s \in Live' =>
               s \in Live /\ ctx'[s].folded = ctx[s].folded /\ ctx'[s].failed = ctx[s].failed
      PROVE  FoldedOnceOf(s)'
  BY <1>0, <1>a DEF FoldedOnceOf
<1>b. ASSUME NEW s \in Sessions, ctx'[s] = ctx[s], told'[s] = told[s],
             s \in skewed <=> s \in skewed', s \in Live <=> s \in Live'
      PROVE  FoldedOnceOf(s)'
  BY <1>0, <1>b DEF FoldedOnceOf
<1>1. ASSUME NEW r \in Sessions, NEW age \in 0 .. EvictAfter,
             NEW resumed \in BOOLEAN, NewSession(r, age, resumed)
      PROVE  (\A s \in Sessions : FoldedOnceOf(s)') /\ EvictedAreSkewed' /\ ClosedUnfollowed'
  <2>1. /\ phase = "drain" /\ phase' = phase /\ r \notin followed /\ followed' = followed \cup {r}
        /\ \A s \in Sessions \ {r} : told'[s] = told[s] /\ (s \in skewed <=> s \in skewed')
        /\ told'[r] = (IF resumed THEN stored[r] ELSE 0)
        /\ resumed \/ stored[r] = 0 \/ r \in skewed'
    BY <1>1 DEF NewSession, Say, TypeOK
  <2>2. /\ \E R \in Unrestored(r) : ctx'[r] = Ensured(r, age, R)
        /\ Live' = Live \cup {r}
        /\ \A s \in Sessions \ {r} : ctx'[s] = ctx[s]
    BY <1>1, NewSessionContexts
  <2>3. FoldedOnceOf(r)'
    <3>1. ctx[r] = None
      BY <1>0, <2>1 DEF LiveIsFollowed, Live
    <3>2. PICK R \in Unrestored(r) : ctx'[r] = NewContext(r, age, R)
      BY <2>2, <3>1 DEF Ensured
    <3>3. \A c \in Collectors \ ctx'[r].failed : ctx'[r].folded[c] = stored[r]
      BY <3>2 DEF NewContext
    <3>4. r \notin skewed' => told'[r] = stored[r]
      BY <2>1
    <3> QED
      BY <3>3, <3>4 DEF FoldedOnceOf
  <2>4. \A s \in Sessions \ {r} : FoldedOnceOf(s)'
    BY <1>b, <2>1, <2>2
  <2>5. EvictedAreSkewed' /\ ClosedUnfollowed'
    BY <1>0, <2>1, <2>2 DEF EvictedAreSkewed, ClosedUnfollowed, TypeOK
  <2> QED
    BY <2>3, <2>4, <2>5
<1>2. ASSUME NEW r \in Sessions, NEW age \in 0 .. EvictAfter,
             NEW resolved \in BOOLEAN, NEW F \in SUBSET Collectors,
             Event(r, age, resolved, F)
      PROVE  (\A s \in Sessions : FoldedOnceOf(s)') /\ EvictedAreSkewed' /\ ClosedUnfollowed'
  <2>1. /\ phase' = phase /\ followed' = followed /\ skewed' = skewed /\ r \in followed
        /\ told'[r] = told[r] + 1 /\ \A s \in Sessions \ {r} : told'[s] = told[s]
    BY <1>2 DEF Event, TypeOK
  <2>2. /\ Live' = Live \cup {r}
        /\ \A s \in Sessions \ {r} : ctx'[s] = ctx[s]
    BY <1>2, EventContexts
  <2>3. FoldedOnceOf(r)'
    <3>1. CASE r \notin Live
      BY <1>0, <2>1, <3>1 DEF EvictedAreSkewed, FoldedOnceOf
    <3>2. CASE r \in Live
      <4>1. PICK drift \in BOOLEAN, R \in Unrestored(r) :
              /\ Ensured(r, 0, R) \in Context
              /\ ctx'[r] = Ingested(Ensured(r, 0, R), age, resolved, F, drift)
        BY <1>2, EventContexts
      <4>2. Ensured(r, 0, R) = ctx[r]
        BY <3>2 DEF Ensured, Live
      <4>3. /\ ctx'[r].folded = FannedOut(ctx[r].folded, F)
            /\ ctx'[r].failed = ctx[r].failed \cup F
        BY <4>1, <4>2, IngestedType
      <4>4. \A c \in Collectors \ F : ctx'[r].folded[c] = ctx[r].folded[c] + 1
        BY <4>3 DEF FannedOut
      <4>5. r \notin skewed => \A c \in Collectors \ ctx[r].failed : ctx[r].folded[c] = told[r]
        BY <1>0, <3>2 DEF FoldedOnceOf
      <4> QED
        BY <2>1, <4>3, <4>4, <4>5 DEF FoldedOnceOf
    <3> QED
      BY <3>1, <3>2
  <2>4. \A s \in Sessions \ {r} : FoldedOnceOf(s)'
    BY <1>b, <2>1, <2>2
  <2>5. EvictedAreSkewed' /\ ClosedUnfollowed'
    BY <1>0, <2>1, <2>2 DEF EvictedAreSkewed, ClosedUnfollowed
  <2> QED
    BY <2>3, <2>4, <2>5
<1>3. ASSUME NEW r \in Sessions, NoEvent(r)
      PROVE  (\A s \in Sessions : FoldedOnceOf(s)') /\ EvictedAreSkewed' /\ ClosedUnfollowed'
  <2>1. phase' = phase /\ followed' = followed /\ skewed' = skewed /\ told' = told /\ r \in followed
    BY <1>3 DEF NoEvent
  <2>2. /\ Live' = Live \cup {r}
        /\ \A s \in Sessions \ {r} : ctx'[s] = ctx[s]
    BY <1>3, NoEventContexts
  <2>3. FoldedOnceOf(r)'
    <3>1. CASE r \notin Live
      BY <1>0, <2>1, <3>1 DEF EvictedAreSkewed, FoldedOnceOf
    <3>2. CASE r \in Live
      <4>1. PICK drift \in BOOLEAN, R \in Unrestored(r) :
              /\ Ensured(r, 0, R) \in Context
              /\ ctx'[r] = [Ensured(r, 0, R) EXCEPT !.drift = drift]
        BY <1>3, NoEventContexts
      <4>2. Ensured(r, 0, R) = ctx[r]
        BY <3>2 DEF Ensured, Live
      <4>3. ctx'[r].folded = ctx[r].folded /\ ctx'[r].failed = ctx[r].failed
        BY <4>1, <4>2 DEF Context
      <4> QED
        BY <1>a, <2>1, <3>2, <4>3
    <3> QED
      BY <3>1, <3>2
  <2>4. \A s \in Sessions \ {r} : FoldedOnceOf(s)'
    BY <1>b, <2>1, <2>2
  <2>5. EvictedAreSkewed' /\ ClosedUnfollowed'
    BY <1>0, <2>1, <2>2 DEF EvictedAreSkewed, ClosedUnfollowed
  <2> QED
    BY <2>3, <2>4, <2>5
<1>4. ASSUME NEW r \in Sessions, DeleteSession(r)
      PROVE  (\A s \in Sessions : FoldedOnceOf(s)') /\ EvictedAreSkewed' /\ ClosedUnfollowed'
  <2>1. /\ phase' = phase /\ followed' = followed \ {r} /\ skewed' = skewed \ {r}
        /\ told' = told /\ phase = "drain"
    BY <1>4 DEF DeleteSession, Say
  <2>2. Live' = Live \ {r} /\ \A s \in Sessions \ {r} : ctx'[s] = ctx[s]
    BY <1>4, RemovedContexts
  <2>3. FoldedOnceOf(r)'
    BY <2>2 DEF FoldedOnceOf
  <2>4. \A s \in Sessions \ {r} : FoldedOnceOf(s)'
    BY <1>b, <2>1, <2>2
  <2>5. EvictedAreSkewed' /\ ClosedUnfollowed'
    BY <1>0, <2>1, <2>2 DEF EvictedAreSkewed, ClosedUnfollowed
  <2> QED
    BY <2>3, <2>4, <2>5
<1>5. ASSUME NEW r \in Sessions, EvictDue(r)
      PROVE  (\A s \in Sessions : FoldedOnceOf(s)') /\ EvictedAreSkewed' /\ ClosedUnfollowed'
  <2>1. phase' = phase /\ followed' = followed /\ skewed' = skewed \cup {r} /\ told' = told
    BY <1>5 DEF EvictDue
  <2>2. Live' = Live \ {r} /\ \A s \in Sessions \ {r} : ctx'[s] = ctx[s]
    BY <1>5, RemovedContexts
  <2>3. \A s \in Sessions : FoldedOnceOf(s)'
    BY <1>a, <2>1, <2>2
  <2>4. EvictedAreSkewed' /\ ClosedUnfollowed'
    BY <1>0, <2>1, <2>2 DEF EvictedAreSkewed, ClosedUnfollowed
  <2> QED
    BY <2>3, <2>4
<1>6. ASSUME NEW r \in Sessions, NEW F \in SUBSET Collectors, CloseSession(r, F)
      PROVE  (\A s \in Sessions : FoldedOnceOf(s)') /\ EvictedAreSkewed' /\ ClosedUnfollowed'
  <2>1. /\ phase' = phase /\ phase = "closing" /\ followed' = followed
        /\ skewed' = skewed /\ told' = told
    BY <1>6 DEF CloseSession
  <2>2. Live' = Live \ {r} /\ \A s \in Sessions \ {r} : ctx'[s] = ctx[s]
    BY <1>6, RemovedContexts
  <2>3. \A s \in Sessions : FoldedOnceOf(s)'
    BY <1>a, <2>1, <2>2
  <2>4. EvictedAreSkewed' /\ ClosedUnfollowed'
    BY <1>0, <2>1 DEF EvictedAreSkewed, ClosedUnfollowed
  <2> QED
    BY <2>3, <2>4
<1>7. ASSUME NEW r \in Sessions, NEW F \in SUBSET Collectors, Yield(r, F)
      PROVE  (\A s \in Sessions : FoldedOnceOf(s)') /\ EvictedAreSkewed' /\ ClosedUnfollowed'
  <2>1. phase' = phase /\ followed' = followed /\ skewed' = skewed /\ told' = told
    BY <1>7 DEF Yield
  <2>2. /\ Live' = Live /\ r \in Live /\ \A s \in Sessions \ {r} : ctx'[s] = ctx[s]
        /\ ctx'[r] = [ctx[r] EXCEPT !.snap = Snapped(r, F), !.snapped = TRUE]
    BY <1>7, YieldContexts
  <2>3. ctx'[r].folded = ctx[r].folded /\ ctx'[r].failed = ctx[r].failed
    BY <1>0, <2>2 DEF Context
  <2>4. \A s \in Sessions : FoldedOnceOf(s)'
    BY <1>a, <2>1, <2>2, <2>3
  <2>5. EvictedAreSkewed' /\ ClosedUnfollowed'
    BY <1>0, <2>1, <2>2 DEF EvictedAreSkewed, ClosedUnfollowed
  <2> QED
    BY <2>4, <2>5
<1>8. CASE BeginTick \/ BeginYield \/ EndTick \/ UNCHANGED vars
  <2>1. /\ ctx' = ctx /\ told' = told /\ skewed' = skewed /\ followed' = followed
        /\ phase' = "closing" => phase = "closing"
    BY <1>8 DEF BeginTick, BeginYield, EndTick, vars
  <2>2. Live' = Live
    BY <2>1 DEF Live
  <2>3. \A s \in Sessions : FoldedOnceOf(s)'
    BY <1>b, <2>1, <2>2
  <2> QED
    BY <1>0, <2>1, <2>2, <2>3 DEF EvictedAreSkewed, ClosedUnfollowed
<1>9. CASE BeginClose
  <2>1. ctx' = ctx /\ told' = told /\ skewed' = skewed /\ followed' = {}
    BY <1>9 DEF BeginClose
  <2>2. Live' = Live
    BY <2>1 DEF Live
  <2>3. \A s \in Sessions : FoldedOnceOf(s)'
    BY <1>b, <2>1, <2>2
  <2> QED
    BY <2>1, <2>3 DEF EvictedAreSkewed, ClosedUnfollowed
<1>10. CASE Lifecycle
  <2>1. told' = told /\ skewed' = skewed /\ followed' = followed /\ phase' = "evict"
    BY <1>10 DEF Lifecycle
  <2>2. \A c \in Context : /\ [c EXCEPT !.state = "STALE"].folded = c.folded
                           /\ [c EXCEPT !.state = "STALE"].failed = c.failed
    BY DEF Context
  <2>3. Live' = Live /\ \A s \in Live : /\ ctx'[s].folded = ctx[s].folded
                                        /\ ctx'[s].failed = ctx[s].failed
    BY <1>0, <1>10, <2>2, LifecycleContexts DEF Live
  <2>4. \A s \in Sessions : FoldedOnceOf(s)'
    BY <1>a, <2>1, <2>3
  <2> QED
    BY <1>0, <2>1, <2>3, <2>4 DEF EvictedAreSkewed, ClosedUnfollowed
<1>11. CASE Advance
  <2>1. told' = told /\ skewed' = skewed /\ followed' = followed /\ phase' = phase
    BY <1>11 DEF Advance
  <2>2. Live' = Live /\ \A s \in Live : /\ ctx'[s].folded = ctx[s].folded
                                        /\ ctx'[s].failed = ctx[s].failed
    <3>1. Live' = Live /\ \A s \in Live : \E n : ctx'[s] = [ctx[s] EXCEPT !.silence = n]
      <4>1. Live \subseteq Sessions
        BY DEF Live
      <4> QED
        BY <1>11, <4>1, AdvanceContexts
    <3>2. ASSUME NEW s \in Live
          PROVE  ctx'[s].folded = ctx[s].folded /\ ctx'[s].failed = ctx[s].failed
      <4>1. PICK n : ctx'[s] = [ctx[s] EXCEPT !.silence = n]
        BY <3>1
      <4>2. ctx[s] \in Context
        BY <1>0
      <4> QED
        BY <4>1, <4>2 DEF Context
    <3> QED
      BY <3>1, <3>2
  <2>3. \A s \in Sessions : FoldedOnceOf(s)'
    BY <1>a, <2>1, <2>2
  <2> QED
    BY <1>0, <2>1, <2>2, <2>3 DEF EvictedAreSkewed, ClosedUnfollowed
<1> QED
  BY <1>1, <1>2, <1>3, <1>4, <1>5, <1>6, <1>7, <1>8, <1>9, <1>10, <1>11
     DEF Next, SourceStep, TickStep, CloseStep

\* Every collector that never raised has folded each event of a live session
\* exactly once on top of what was restored, whatever the other collectors did,
\* through STALE and back, unless the session was evicted or resumed wrongly.
THEOREM EachEventFoldedOnce == Spec => []FoldedOnce
<1>1. Init => FoldInv
  BY DEF Init, FoldInv, FoldedOnce, LiveIsFollowed, EvictedAreSkewed, ClosedUnfollowed, Live
<1>2. FoldInv => FoldedOnce
  BY DEF FoldInv
<1> QED
  BY <1>1, <1>2, FoldStep, TypeCorrect, PTL DEF Spec

---------------------------------------------------------------------------
(* What a tick shows                                                       *)

LEMMA JudgedStep == TypeOK /\ JudgedAlike /\ [Next]_vars => JudgedAlike'
<1> SUFFICES ASSUME TypeOK, JudgedAlike, [Next]_vars PROVE JudgedAlike'
  OBVIOUS
<1>1. CASE SourceStep
  <2>1. phase' = "drain"
    BY <1>1 DEF SourceStep, NewSession, Event, NoEvent, DeleteSession, Say
  <2> QED
    BY <2>1 DEF JudgedAlike
<1>2. CASE BeginTick \/ Lifecycle \/ BeginClose
  BY <1>2 DEF BeginTick, Lifecycle, BeginClose, JudgedAlike
<1>3. ASSUME NEW s \in Sessions, EvictDue(s) PROVE JudgedAlike'
  BY <1>3 DEF EvictDue, JudgedAlike
<1>4. ASSUME NEW s \in Sessions, NEW F \in SUBSET Collectors, CloseSession(s, F)
      PROVE  JudgedAlike'
  BY <1>4 DEF CloseSession, JudgedAlike
<1>5. CASE BeginYield
  BY <1>5 DEF BeginYield, JudgedAlike
<1>6. ASSUME NEW s \in Sessions, NEW F \in SUBSET Collectors, Yield(s, F)
      PROVE  JudgedAlike'
  <2>1. phase = "yield" /\ boot' = boot
    BY <1>6 DEF Yield
  <2>2. shown'[s].pinned = ~ boot.done /\ \A r \in Sessions \ {s} : shown'[r] = shown[r]
    BY <1>6, YieldContexts
  <2> QED
    BY <2>1, <2>2 DEF JudgedAlike
<1>7. CASE EndTick
  BY <1>7 DEF EndTick, JudgedAlike
<1>8. CASE Advance \/ UNCHANGED vars
  BY <1>8 DEF Advance, vars, JudgedAlike
<1> QED
  BY <1>1, <1>2, <1>3, <1>4, <1>5, <1>6, <1>7, <1>8 DEF Next, TickStep, CloseStep

\* All sessions of a tick are judged by one verdict on the bootstrap window,
\* also in the tick whose evictions close the window.
THEOREM OneVerdictPerTick == Spec => []JudgedAlike
<1>1. Init => JudgedAlike
  BY DEF Init, JudgedAlike
<1> QED
  BY <1>1, JudgedStep, TypeCorrect, PTL DEF Spec
=============================================================================
