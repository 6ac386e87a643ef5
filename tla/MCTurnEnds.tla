------------------------------ MODULE MCTurnEnds ------------------------------
\* The end of a turn in the background manager's eyes, and that of the calls of a turn which
\* ask the user. The two share no state, so a behaviour is one of the chosen part, and the
\* other stays as it began.
EXTENDS SpawnNotify, ToolPermission

VARIABLE part

\* A child's call and a fetch of the main agent.
TpTools == [c \in PermCalls |-> {"web_fetch"} \cup IF c = "t" THEN {"shell", "write_file", "read_file"} ELSE {}]
TpAgent == [c \in PermCalls |-> IF c = "t" THEN "child" ELSE "main"]

TurnEndsInit ==
  /\ part \in {"turns", "permission"}
  /\ Init
  /\ TpInit /\ (part # "permission" =>
       childOf = "main" /\ saved = {} /\ engine["main"].mode = "auto" /\ ~engine["main"].interactive)

TurnEndsNext ==
  \/ part = "turns" /\ Next /\ UNCHANGED <<part, tpVars>>
  \/ part = "permission" /\ TpNext /\ UNCHANGED <<part, vars>>

\* The fairness of FairSpec and of TpFairSpec, of the part that runs.
TurnEndsSpec ==
  /\ TurnEndsInit /\ [][TurnEndsNext]_<<part, vars, tpVars>>
  /\ \A a \in Agents : WF_vars(part = "turns" /\ Agent(a))
  /\ \A t \in Turns : WF_vars(part = "turns" /\ Turn(t))
  /\ WF_vars(part = "turns" /\ UIEvent) /\ WF_vars(part = "turns" /\ Command)
  /\ \A c \in PermCalls :
       /\ WF_tpVars(part = "permission" /\ Send(c))
       /\ WF_tpVars(part = "permission" /\ (Replied(c) \/ AppendWebAllowlist(c) \/ AppendAllowlist(c)
                                            \/ ExecuteTool(c) \/ Fetch(c) \/ Finish(c)))
       /\ WF_tpVars(part = "permission" /\ StdinAnswer(c))
  /\ \A k \in Kinds : WF_tpVars(part = "permission" /\ (Listen(k) \/ \E c \in PermCalls : ShowQuestion(k, c)))
  /\ WF_tpVars(part = "permission" /\ UpdateHelp)
  /\ SF_tpVars(part = "permission" /\ Dismiss)
  /\ SF_tpVars(part = "permission" /\ EscCancels)
  /\ SF_tpVars(part = "permission" /\ \E k \in Kinds : Answer(k))
===============================================================================
