---------------------------- MODULE MCAggregator ----------------------------
(* Instances of Aggregator for TLC. *)
EXTENDS Aggregator, TLC

\* Sessions and collectors are interchangeable.
SessionSymmetry == Permutations(Sessions) \cup Permutations(Collectors)
Main == CHOOSE s \in Sessions : TRUE
Fallible == CHOOSE c \in Collectors : TRUE

\* The ingest store knows of one session at most, and always of the same one;
\* a bootstrap that is not completed starts from nothing.
TickInit ==
  /\ Init
  /\ \A s \in Sessions \ {Main} : stored[s] = 0
  /\ boot.observed = 0

\* One session has the whole of MaxSaid, two share PairSaid; one collector may
\* raise, always the same one, in ingest() or in snapshot(); one session has
\* reports. The parse confidence is a matter of MCAggregator_health.
PairSaid == 2
TickBound ==
  /\ said <= PairSaid \/ followed \cup Live \subseteq {Main}
  /\ \A s \in Live :
       /\ ctx[s].failed \subseteq {Fallible} /\ ~ ctx[s].drift
       /\ \A c \in Collectors \ {Fallible} : ctx[s].snapped => ctx[s].snap[c] # None
  /\ \A s \in Sessions \ {Main} : report[s] = None
TickNext == Next /\ TickBound'

TickSpec == TickInit /\ [][TickNext]_vars /\ Fairness
=============================================================================
