---------------------------- MODULE SubagentRuns ----------------------------
(***************************************************************************)
(* The run of a sub-agent, from the call of the agent tool to the end of   *)
(* its record: Service.Handle, runSync and finishSync                      *)
(* (src/internal/agent/spawn/service.go), the goroutine of a background    *)
(* run (background.go), the restricted child runner (execute.go,           *)
(* toolpool.go), the run's row (src/internal/session/sqlite/subagent.go),  *)
(* its git worktree (worktree_cleanup.go, src/internal/worktree) and the   *)
(* cost added up over the rows of a session (src/internal/session/usageagg).*)
(* SpawnNotify models what becomes of the notices these runs end with.     *)
(*                                                                         *)
(* A step is one statement of the database, one git command or one         *)
(* critical section: the calls of a turn run side by side (ToolBatches),   *)
(* and a background run beside every later turn and session.               *)
(***************************************************************************)
EXTENDS Naturals, FiniteSets, Functions

CONSTANTS
  Calls,         \* calls of the agent tool
  RunIds,        \* tool call ids, which the model chooses and may repeat
  Params(_),     \* what a call may ask for: records [id, type, async, isolated]
  RunSessions,   \* the sessions of the process, one after the other: 1 .. n
  MaxParallel,   \* tools.agent.max_parallel
  MaxRequests,   \* bound on the requests of a run
  MaxRunFaults,  \* bound on failing statements and git commands
  MaxRestarts    \* bound on ends of the process

Types == {"general", "explore", "verification"}
Requests == [id : RunIds, type : Types, async : BOOLEAN, isolated : BOOLEAN]

NoRow  == [status |-> "none", usage |-> 0, cost |-> 0]
Nobody == "nobody"

ASSUME RunsAssumption ==
  /\ IsFiniteSet(Calls)
  /\ \A c \in Calls : Params(c) # {} /\ Params(c) \subseteq Requests
  /\ {RunSessions, MaxParallel, MaxRequests, MaxRunFaults, MaxRestarts} \subseteq Nat
  /\ RunSessions > 0 /\ MaxParallel > 0
  /\ Nobody \notin Calls

VARIABLES
  run,       \* a call: its place in the code, parameters, session, context, outcome
  row,       \* table agent_runs, with the sum of the costs in agent_messages
  disk,      \* the worktree of each slug: the call that added it
  tasks,     \* BackgroundManager.tasks
  shown,     \* what the turn's callbacks told the UI of the run
  current,   \* the session the UI is in
  messages,  \* history of a run: the costs stored in agent_messages
  swept,     \* history: live runs whose worktree the end of their session removed
  hurt,      \* history: calls one of whose statements or git commands failed
  runFaults, restarts

srVars == <<run, row, disk, tasks, shown, current, messages, swept, hurt, runFaults, restarts>>
records == <<row, disk, tasks, shown, current, messages, swept>>
bounds == <<hurt, runFaults, restarts>>

Fresh(c) == [pc |-> "idle", par |-> CHOOSE p \in Params(c) : TRUE, sess |-> 1,
          cancelled |-> FALSE, end |-> "none", told |-> "nothing"]

SrInit ==
  /\ run = [c \in Calls |-> Fresh(c)]
  /\ row = [c \in Calls |-> NoRow]
  /\ disk = [s \in RunIds |-> Nobody]
  /\ tasks = {}
  /\ shown = [c \in Calls |-> "no"]
  /\ current = 1
  /\ messages = [c \in Calls |-> 0]
  /\ swept = {}
  /\ hurt = {}
  /\ runFaults = 0
  /\ restarts = 0

Standing(c, pc) == run[c].pc = pc
GoesTo(c, pc) == run' = [run EXCEPT ![c].pc = pc]
Cancelled(c) == run[c].cancelled
Isolated(c) == run[c].par.isolated
Id(c) == run[c].par.id
\* The slug is the tool call id with its unsafe characters replaced, cut to 32: as unique as the id.
worktreeSlug(c) == Id(c)
\* The call is over, with its context: what the turn or the notice says of it.
Over(c, pc, told) == run' = [run EXCEPT ![c].pc = pc, ![c].told = told, ![c].cancelled = FALSE]
\* The handler returns err to the turn, which stores it as the result of the tool call.
Refuse(c) == Over(c, "gone", "error")

StepFails(c) == runFaults < MaxRunFaults /\ runFaults' = runFaults + 1 /\ hurt' = hurt \cup {c} /\ UNCHANGED restarts
\* A statement or git command of c cannot succeed with a cancelled context; any other may fail.
Fails(c) == \/ Cancelled(c) /\ hurt' = hurt \cup {c} /\ UNCHANGED <<runFaults, restarts>>
            \/ ~Cancelled(c) /\ StepFails(c)
Succeeds(c) == ~Cancelled(c) /\ UNCHANGED bounds

\* AgentTool.sem: held from before Handle until it returns, which a background run does not wait for.
Holding == {c \in Calls : run[c].pc \in {"tree", "row", "rollback", "start"}
                          \/ (run[c].pc \in {"exec", "finish", "clean", "deliver"} /\ c \notin tasks)}

-----------------------------------------------------------------------------
(* The agent tool and Service.Handle, up to the start of the child.         *)

ExecuteAgent(c, p) ==
  /\ Standing(c, "idle")
  /\ run' = [run EXCEPT ![c].pc = "acquire", ![c].par = p, ![c].sess = current]
  /\ UNCHANGED <<records, bounds>>

ForceBackground(p) == p.type = "verification"
Background(c) == run[c].par.async \/ ForceBackground(run[c].par)

\* Route, and Handle's refusal of a worktree for a type other than general-purpose.
Route(c) ==
  \/ Isolated(c) /\ run[c].par.type # "general" /\ Refuse(c)
  \/ Isolated(c) /\ run[c].par.type = "general" /\ GoesTo(c, "tree")
  \/ ~Isolated(c) /\ GoesTo(c, "row")

Acquire(c) ==
  /\ Standing(c, "acquire")
  /\ \/ Cardinality(Holding) < MaxParallel /\ Route(c)
     \/ Cancelled(c) /\ Refuse(c)
  /\ UNCHANGED <<records, bounds>>

\* Mutant: git worktree add -B --force takes over a worktree that is there.
CreateWorktreeForced(c) ==
  /\ Standing(c, "tree") /\ Succeeds(c)
  /\ disk' = [disk EXCEPT ![worktreeSlug(c)] = c]
  /\ GoesTo(c, "row")
  /\ UNCHANGED <<row, tasks, shown, current, messages, swept>>

\* git worktree add -b: fails when the path or the branch exists.
CreateWorktree(c) ==
  /\ Standing(c, "tree")
  /\ LET s == worktreeSlug(c) IN
     \/ /\ disk[s] = Nobody /\ Succeeds(c)
        /\ disk' = [disk EXCEPT ![s] = c]
        /\ GoesTo(c, "row")
     \/ /\ (disk[s] # Nobody /\ UNCHANGED bounds) \/ Fails(c)
        /\ Refuse(c)
        /\ UNCHANGED disk
  /\ UNCHANGED <<row, tasks, shown, current, messages, swept>>

\* cleanupWorktreeImmediate: by path, whoever added it; its errors are ignored.
cleanupWorktreeImmediate(c) ==
  \/ Isolated(c) /\ Succeeds(c) /\ disk' = [disk EXCEPT ![worktreeSlug(c)] = Nobody]
  \/ Isolated(c) /\ Fails(c) /\ UNCHANGED disk
  \/ ~Isolated(c) /\ UNCHANGED <<disk, bounds>>

\* The unique index on (parent_session_id, parent_tool_call_id).
IdTaken(c) == \E d \in Calls : d # c /\ row[d] # NoRow /\ Id(d) = Id(c) /\ run[d].sess = run[c].sess

CreateRun(c) ==
  /\ Standing(c, "row") /\ ~IdTaken(c) /\ Succeeds(c)
  /\ row' = [row EXCEPT ![c].status = "running"]
  /\ GoesTo(c, "start")
  /\ UNCHANGED <<disk, tasks, shown, current, messages, swept>>

CreateRunFails(c) ==
  /\ Standing(c, "row")
  /\ \/ IdTaken(c) /\ GoesTo(c, "rollback") /\ UNCHANGED bounds
     \/ Fails(c) /\ GoesTo(c, "rollback")
  /\ UNCHANGED records

Rollback(c) ==
  /\ Standing(c, "rollback")
  /\ cleanupWorktreeImmediate(c)
  /\ Refuse(c)
  /\ UNCHANGED <<row, tasks, shown, current, messages, swept>>

\* The context of a background run is detached from the turn's (DetachSpawnContext).
Start(c) ==
  /\ Standing(c, "start")
  /\ shown' = [shown EXCEPT ![c] = "running"]
  /\ IF Background(c)
       THEN /\ tasks' = tasks \cup {c}
            /\ run' = [run EXCEPT ![c].pc = "exec", ![c].cancelled = FALSE, ![c].told = "launched"]
       ELSE /\ GoesTo(c, "exec")
            /\ UNCHANGED tasks
  /\ UNCHANGED <<row, disk, current, messages, swept, bounds>>

-----------------------------------------------------------------------------
(* ExecuteRun: the restricted child runner.                                 *)

SomeTools == {"read_file", "ls", "write_file", "rm", "agent", "mcp_read", "mcp_write"}
ShellCommands == {"ls", "rm"}       \* shell commands the classifier allows, and asks about
McpTools == {"mcp_read", "mcp_write"}
Changing == {"write_file", "rm", "mcp_write"}

ReadOnlyTypes == {"explore", "verification"}
IsReadOnly(c) == run[c].par.type \in ReadOnlyTypes
DisallowedTools(c) == {"agent"} \cup IF IsReadOnly(c) THEN {"write_file"} ELSE {}
isAsyncTool(t) == t \notin McpTools \cup {"agent"}
ChildTools(c) ==
  {t \in SomeTools \ DisallowedTools(c) : Background(c) => isAsyncTool(t)}

\* The child's engine: an engine of its own in readonly mode, or the parent's (or a copy of it
\* for a worktree), whose user is asked and may agree.
permMode(c) == IF IsReadOnly(c) THEN "readonly" ELSE "ask"
\* Engine.Check in readonly mode. A new engine knows the built-in write tools only: the
\* detector of MCP write tools is the parent's.
writesInRun(t) == t \in {"write_file"} \cup ShellCommands
CheckReadonly(c, t) == permMode(c) = "readonly" => (writesInRun(t) => t = "ls")

\* A run in the background that fails with its context cancelled counts as killed.
Failure(c) == IF c \in tasks /\ Cancelled(c) THEN "killed" ELSE "error"

\* A sub-round: AddUsage, whose failure is ignored, then AppendMessage with the cost of the
\* answer, whose failure ends the run.
Round(c) ==
  /\ Standing(c, "exec")
  /\ ~Cancelled(c)
  /\ messages[c] < MaxRequests
  /\ \/ /\ row' = [row EXCEPT ![c].usage = @ + 1]
        /\ messages' = [messages EXCEPT ![c] = @ + 1]
        /\ UNCHANGED <<run, bounds>>
     \/ /\ StepFails(c)
        /\ messages' = [messages EXCEPT ![c] = @ + 1]
        /\ UNCHANGED <<run, row>>
     \/ /\ StepFails(c)
        /\ row' = [row EXCEPT ![c].usage = @ + 1]
        /\ run' = [run EXCEPT ![c].pc = "finish", ![c].end = Failure(c)]
        /\ UNCHANGED messages
  /\ UNCHANGED <<disk, tasks, shown, current, swept>>

\* The child's turn ends with an answer, or with an error: of the API, of its context, or, for a
\* run in the foreground, because of sync_timeout. A context cancelled late does not undo the answer.
ExecuteRun(c) ==
  /\ Standing(c, "exec")
  /\ \E end \in {"completed", Failure(c)} : run' = [run EXCEPT ![c].pc = "finish", ![c].end = end]
  /\ UNCHANGED <<records, bounds>>

-----------------------------------------------------------------------------
(* The end of a run: finishSync, or the goroutine of BackgroundManager.Start.*)

\* Mutant: the status is read from the context again.
FinishedLate(c) == [row[c] EXCEPT !.status = IF c \in tasks THEN "killed" ELSE run[c].end, !.cost = messages[c]]
\* UPDATE agent_runs: the status and the sum of the costs of the messages.
Finished(c) == [row[c] EXCEPT !.status = run[c].end, !.cost = messages[c]]

\* FinishRun uses the context of the run, in the foreground that of the turn; its error is ignored.
FinishRun(c) ==
  /\ Standing(c, "finish")
  /\ \/ Succeeds(c) /\ row' = [row EXCEPT ![c] = Finished(c)]
     \/ Fails(c) /\ UNCHANGED row
  /\ GoesTo(c, IF run[c].end = "completed" THEN "deliver" ELSE "clean")
  /\ UNCHANGED <<disk, tasks, shown, current, messages, swept>>

Clean(c) ==
  /\ Standing(c, "clean")
  /\ cleanupWorktreeImmediate(c)
  /\ GoesTo(c, "deliver")
  /\ UNCHANGED <<row, tasks, shown, current, messages, swept>>

\* Mutant: the end of a failed run is not announced.
DeliverSuccess(c) ==
  /\ Standing(c, "deliver")
  /\ shown' = IF run[c].end = "completed" THEN [shown EXCEPT ![c] = "ended"] ELSE shown
  /\ IF c \in tasks THEN Over(c, "untrack", run[c].end)
     ELSE Over(c, "gone", IF run[c].end = "completed" THEN "result" ELSE "error")
  /\ UNCHANGED <<row, disk, tasks, current, messages, swept, bounds>>

\* OnSubagentEnd, and the result: returned to the turn, or queued as a notice (SpawnNotify).
Deliver(c) ==
  /\ Standing(c, "deliver")
  /\ shown' = [shown EXCEPT ![c] = "ended"]
  /\ IF c \in tasks THEN Over(c, "untrack", run[c].end)
     ELSE Over(c, "gone", IF run[c].end = "completed" THEN "result" ELSE "error")
  /\ UNCHANGED <<row, disk, tasks, current, messages, swept, bounds>>

\* Mutant: a run that is over is taken off the record.
UntrackDeletes(c) ==
  /\ Standing(c, "untrack")
  /\ tasks' = tasks \ {c}
  /\ row' = [row EXCEPT ![c] = NoRow]
  /\ GoesTo(c, "gone")
  /\ UNCHANGED <<disk, shown, current, messages, swept, bounds>>

Untrack(c) ==
  /\ Standing(c, "untrack")
  /\ tasks' = tasks \ {c}
  /\ GoesTo(c, "gone")
  /\ UNCHANGED <<row, disk, shown, current, messages, swept, bounds>>

-----------------------------------------------------------------------------
(* What happens around the runs.                                            *)

\* A call still in the turn's goroutines.
CallsInTurn == {c \in Calls : run[c].pc \notin {"idle", "gone", "dead"} /\ c \notin tasks}

TurnCancelled ==
  /\ CallsInTurn # {}
  /\ run' = [c \in Calls |-> IF c \in CallsInTurn THEN [run[c] EXCEPT !.cancelled = TRUE] ELSE run[c]]
  /\ UNCHANGED <<records, bounds>>

Kill(c) ==
  /\ c \in tasks /\ ~Standing(c, "untrack")
  /\ run' = [run EXCEPT ![c].cancelled = TRUE]
  /\ UNCHANGED <<records, bounds>>

\* The trees named by the rows of a session. A path says nothing of who added what is there now.
SessionTrees == {worktreeSlug(c) : c \in {d \in Calls : row[d] # NoRow /\ Isolated(d)
                                                          /\ run[d].sess = current}}
Remove(trees) == disk' = [s \in DOMAIN disk |-> IF s \in trees THEN Nobody ELSE disk[s]]

\* The UI resumes another session between turns: CleanupSessionWorktrees, with runs in the background.
EndSession ==
  /\ CallsInTurn = {}
  /\ current < RunSessions
  /\ current' = current + 1
  /\ Remove(SessionTrees)
  /\ swept' = swept \cup ({disk[s] : s \in SessionTrees} \cap tasks)
  /\ UNCHANGED <<run, row, tasks, shown, messages, bounds>>

\* The process ends, and the next one removes the trees older than worktree_ttl. (At an orderly
\* exit the deferred clean-up of the session's trees runs after closeStore: it finds no rows.)
Restart ==
  /\ restarts < MaxRestarts
  /\ restarts' = restarts + 1
  /\ \E trees \in SUBSET {s \in DOMAIN disk : disk[s] # Nobody} : Remove(trees)
  /\ run' = [c \in Calls |-> IF Standing(c, "idle") THEN run[c] ELSE [run[c] EXCEPT !.pc = "dead", !.cancelled = FALSE, !.end = "none", !.told = "nothing"]]
  /\ tasks' = {}
  /\ swept' = {}
  /\ shown' = [c \in Calls |-> "no"]
  /\ UNCHANGED <<row, current, messages, hurt, runFaults>>

Run(c) ==
  \/ Acquire(c) \/ CreateWorktree(c) \/ CreateRun(c) \/ CreateRunFails(c)
  \/ Rollback(c) \/ Start(c) \/ ExecuteRun(c) \/ FinishRun(c) \/ Clean(c) \/ Deliver(c)
  \/ Untrack(c)

SrNext ==
  \/ \E c \in Calls :
       \/ \E p \in Params(c) : ExecuteAgent(c, p)
       \/ Run(c)
       \/ Round(c)
       \/ Kill(c)
  \/ TurnCancelled
  \/ EndSession
  \/ Restart

SrSpec == SrInit /\ [][SrNext]_srVars
\* The goroutine of a call goes on, and a child's turn ends: it has bounded sub-rounds, each of
\* which ends with its request (ChatRecovery), and in the foreground a timeout.
SrFairSpec == SrSpec /\ \A c \in Calls : WF_srVars(Run(c))

-----------------------------------------------------------------------------
(* usageagg: the cost of the runs of a session (sumSubagentCost). One       *)
(* request costs one unit, estimated from its tokens or kept with its       *)
(* answer.                                                                  *)

Runs(s) == {c \in Calls : row[c] # NoRow /\ run[c].sess = s}
CostOf(s) == [c \in Runs(s) |-> row[c].cost]
UsageOf(s) == [c \in Runs(s) |-> row[c].usage]
EstimateOf(s) == [c \in Runs(s) |-> IF CostOf(s)[c] > 0 THEN CostOf(s)[c] ELSE UsageOf(s)[c]]

sumSubagentCost(s) ==
  IF SumFunction(CostOf(s)) > 0 THEN SumFunction(CostOf(s)) ELSE SumFunction(EstimateOf(s))

-----------------------------------------------------------------------------
(* Properties.                                                              *)

SrTypeOK ==
  /\ run \in [Calls -> [pc : {"idle", "acquire", "tree", "row", "rollback", "start", "exec",
                               "finish", "clean", "deliver", "untrack", "gone", "dead"},
                         par : Requests, sess : 1 .. RunSessions, cancelled : BOOLEAN, end : {"none", "completed", "error", "killed"},
                         told : {"nothing", "error", "result", "launched", "completed", "killed"}]]
  /\ row \in [Calls -> [status : {"none", "running", "completed", "error", "killed"},
                        usage : 0 .. MaxRequests, cost : 0 .. MaxRequests]]
  /\ disk \in [RunIds -> Calls \cup {Nobody}]
  /\ tasks \subseteq {c \in Calls : Background(c)}
  /\ shown \in [Calls -> {"no", "running", "ended"}]
  /\ current \in 1 .. RunSessions
  /\ Cardinality(Holding) <= MaxParallel

Working(c) == run[c].pc \in {"exec", "finish"}

\* A child in a worktree has its own worktree as long as it works, whatever other calls of the same id
\* add, roll back or clean up. The end of its session takes it away (and whoever lost a worktree so
\* may later remove that of a call with the same id in the next session).
TreeKept ==
  \A c \in Calls : Working(c) /\ Isolated(c) /\ (\A d \in swept : Id(d) # Id(c))
    => disk[worktreeSlug(c)] = c

\* A run recorded as failed has left no worktree behind, unless one of its own statements failed.
FailedTreeGone ==
  \A s \in DOMAIN disk : disk[s] # Nobody /\ run[disk[s]].pc \in {"deliver", "untrack", "gone"}
    => row[disk[s]].status \notin {"error", "killed"} \/ disk[s] \in hurt

\* Whatever the parent was told of a run agrees with its record: a record says completed, failed or
\* killed only of a run that ended so, and a run that has ended stays "running" only when the
\* statement failed.
RecordTruth ==
  \A c \in Calls : run[c].pc \in {"untrack", "gone"} /\ row[c] # NoRow =>
    CASE row[c].status = "completed" -> run[c].told \in {"result", "completed"}
      [] row[c].status = "running"   -> c \in hurt
      [] OTHER                       -> run[c].told \in {"error", row[c].status}

\* What a child that is at work may do. It spawns no further child; in the background it reaches no
\* MCP server; and if it is read-only, it changes nothing but through a remote tool.
MayUse(c) == {t \in ChildTools(c) : CheckReadonly(c, t)}
ChildRestricted ==
  \A c \in Calls : Standing(c, "exec") =>
    /\ "agent" \notin MayUse(c)
    /\ Background(c) => MayUse(c) \cap McpTools = {}
    /\ IsReadOnly(c) => MayUse(c) \cap Changing \subseteq McpTools

\* Once all runs of a session are over and recorded, their cost is that of every answer, whether
\* it is summed from the rows or estimated from the usage.
SettledCost ==
  \A s \in 1 .. RunSessions :
    (\A c \in Runs(s) : row[c].status # "running" /\ c \notin hurt)
      => sumSubagentCost(s) = SumFunction([c \in Runs(s) |-> messages[c]])

\* The record of a run that has ended is final: no later request, cancellation or session changes it.
RecordFinal ==
  [][\A c \in Calls : row[c].status \notin {"none", "running"} => row'[c] = row[c]]_srVars

\* Every run the UI shows as running is shown as ended in the end, unless the process dies; and
\* every call gets an answer, though it may have to wait for a slot. (A call is made once, so
\* each has ended if there comes a time when all that were made have.)
Pending(c) == shown[c] = "running" \/ Standing(c, "acquire")
Answered(c) == shown[c] # "running" /\ (run[c].told # "nothing" \/ Standing(c, "idle") \/ Standing(c, "dead"))
RunEnds == (\E c \in Calls : Pending(c)) ~> \A c \in Calls : Answered(c)

\* What a run has while it works, and what it leaves: its worktree, its limits, and nothing
\* of a run that failed.
RunsKept == SrTypeOK /\ TreeKept /\ FailedTreeGone /\ ChildRestricted

\* The records agree with what the parent was told and with what the answers cost.
RecordsTrue == RecordTruth /\ SettledCost
=============================================================================
