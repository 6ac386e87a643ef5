----------------------------- MODULE MCSubagents -----------------------------
\* Sub-agents: the notices of runs in the background while the user keeps talking, and the
\* runs themselves. The two share no state, so a behaviour is one of the chosen part, and
\* the other stays as it began.
EXTENDS SpawnNotify, SubagentRuns

CONSTANTS c1, c2, i1, i2
VARIABLE part

\* Two calls of the agent tool. The second may repeat the id of the first.
MCParams(c) ==
  {[id |-> i1, type |-> "general", async |-> TRUE, isolated |-> TRUE],
   IF c = c1 THEN [id |-> i1, type |-> "general", async |-> FALSE, isolated |-> TRUE]
             ELSE [id |-> i2, type |-> "explore", async |-> FALSE, isolated |-> FALSE]}

SubagentsInit == part \in {"notices", "runs"} /\ Init /\ SrInit

SubagentsNext ==
  \/ part = "notices" /\ Next /\ UNCHANGED <<part, srVars>>
  \/ part = "runs" /\ SrNext /\ UNCHANGED <<part, vars>>

\* The fairness of TalkingSpec and of SrFairSpec, of the part that runs.
SubagentsSpec ==
  /\ SubagentsInit /\ [][SubagentsNext]_<<part, vars, srVars>>
  /\ \A a \in Agents : WF_vars(part = "notices" /\ Agent(a))
  /\ \A t \in Turns : WF_vars(part = "notices" /\ Turn(t))
  /\ WF_vars(part = "notices" /\ UIEvent) /\ WF_vars(part = "notices" /\ Command)
  /\ SF_vars(part = "notices" /\ \E t \in Turns : UISubmit(t))
  /\ WF_vars(part = "notices" /\ UIOverlayClose)
  /\ \A c \in Calls : WF_srVars(part = "runs" /\ Run(c))
==============================================================================
