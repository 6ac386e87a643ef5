------------------------------ MODULE MCEvents ------------------------------
\* What events do to the screen's two ends: notices of background runs, which one turn at a
\* time may take, and the place of a reader whose chat grows. The two share no state, so a
\* behaviour is one of the chosen part, and the other stays as it began.
EXTENDS SpawnNotify, ChatScroll, TLC

VARIABLE part

\* Turns and agents are interchangeable.
Symmetry == Permutations(Agents) \cup Permutations(Turns)

EventsInit ==
  /\ part \in {"notices", "scroll"}
  /\ Init
  /\ CsInit /\ (part # "scroll" => profile = "native" /\ lines = 1)

EventsNext ==
  \/ part = "notices" /\ Next /\ UNCHANGED <<part, csVars>>
  \/ part = "scroll" /\ CsNext /\ UNCHANGED <<part, vars>>

EventsSpec == EventsInit /\ [][EventsNext]_<<part, vars, csVars>>
=============================================================================
