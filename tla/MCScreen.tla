------------------------------- MODULE MCScreen -------------------------------
\* The program with a screen: its turns, and the catalog of the lines shown. The two share no
\* state, so a behaviour is one of the chosen part, and the other stays as it began.
EXTENDS TuiTurns, ChatCatalog

VARIABLE part

ScreenInit ==
  /\ part \in {"turns", "catalog"}
  /\ TtInit /\ CgInit

ScreenNext ==
  \/ part = "turns" /\ TtNext /\ UNCHANGED <<part, cgVars>>
  \/ part = "catalog" /\ CgNext /\ UNCHANGED <<part, ttVars>>

\* The fairness of TtFairSpec, while the turns run.
ScreenSpec ==
  /\ ScreenInit /\ [][ScreenNext]_<<part, ttVars, cgVars>>
  /\ WF_ttVars(part = "turns" /\ UpdateEvent)
  /\ SF_ttVars(part = "turns" /\ \E t \in Turns : RunAsync(t) \/ SendDone(t))
  /\ WF_ttVars(part = "turns" /\ \E t \in Turns : turns[t].cancelled /\ TurnReturns(t))

\* What follows a rebuild of the catalog that raced is not explored.
NotRaced == ~raced
===============================================================================
