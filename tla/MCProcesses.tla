----------------------------- MODULE MCProcesses -----------------------------
\* The processes that the program starts and may leave behind: the shell jobs of one session
\* after another, and the language servers. The two share no state, so a behaviour is one of
\* the chosen part, and the other stays as it began.
EXTENDS ShellJobs, LspServers

VARIABLE part

\* A file, and a directory that has it and another.
MCWithin == [p \in {"f", "d"} |-> IF p = "f" THEN <<"f">> ELSE <<"f", "g">>]
MCPathLists == {<<"f">>}
MCUserServers == {[command |-> FALSE, disabled |-> FALSE], [command |-> TRUE, disabled |-> TRUE]}

ProcessesInit ==
  /\ part \in {"jobs", "servers"}
  /\ Init
  /\ LsInit /\ (part # "servers" => HasServer /\ \A c \in LspCalls : toolCall[c].turn = 1)

ProcessesNext ==
  \/ part = "jobs" /\ Next /\ UNCHANGED <<part, lsVars>>
  \/ part = "servers" /\ LsNext /\ UNCHANGED <<part, vars>>

\* The fairness of the jobs' FairSpec and of LsFairSpec, of the part that runs.
ProcessesSpec ==
  /\ ProcessesInit /\ [][ProcessesNext]_<<part, vars, lsVars>>
  /\ \A s \in Sessions : WF_vars(part = "jobs" /\ Reconcile(s))
  /\ \A j \in Jobs :
       /\ WF_vars(part = "jobs" /\ Start(j)) /\ WF_vars(part = "jobs" /\ WaitJob(j))
       /\ WF_vars(part = "jobs" /\ Wait(j)) /\ WF_vars(part = "jobs" /\ ProcDie(j))
  /\ \A c \in Callers : WF_vars(part = "jobs" /\ Cancel(c))
  /\ \A c \in LspCalls : SF_lsVars(part = "servers" /\ LspStep(c))
  /\ WF_lsVars(part = "servers" /\ \E k \in Clients : IdleClosed(k))
  /\ WF_lsVars(part = "servers" /\ ManagerClosed)
==============================================================================
