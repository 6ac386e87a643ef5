---------------------------- MODULE ToolBatches ----------------------------
(***************************************************************************)
(* The tool calls of a turn: Runner.runToolCalls (agent/runner_loop.go)    *)
(* runs the calls of one answer in batches (agent/tool_orchestration.go),  *)
(* concurrently when they only read and one by one otherwise, behind the   *)
(* gate that lets a patch through only for files which an earlier          *)
(* sub-round has read (agent/readfile_gate.go, tool/readgate).             *)
(*                                                                         *)
(* Processes: the goroutine of the turn, and one per call of a concurrent  *)
(* batch.  The latter are not waited for when the turn is cancelled while  *)
(* it launches them: they go on as strays beside the next turns.           *)
(* The process may restart: the transcript stays, the read paths are       *)
(* rebuilt from it.                                                        *)
(***************************************************************************)
EXTENDS Integers, Sequences, FiniteSets

CONSTANTS Paths,       \* files of the workspace
          MaxTurns,    \* bound: turns
          MaxRounds,   \* Runner.MaxTurns
          MaxCalls,    \* bound: calls of an answer
          MaxRestarts, \* bound: restarts of the process
          maxConcurrentReadTools

ASSUME ToolBatchesAssumption ==
  /\ IsFiniteSet(Paths)
  /\ MaxTurns \in Nat /\ MaxRounds \in Nat \ {0} /\ MaxCalls \in Nat \ {0}
  /\ MaxRestarts \in Nat
  /\ maxConcurrentReadTools \in Nat \ {0}

VARIABLES
  pc,                   \* where the goroutine of the turn is
  turn,                 \* turns so far
  round,                \* sub-rounds that are over in this turn
  cancelled,            \* is the context of the turn cancelled?
  calls,                \* tool calls of the answer
  first,                \* first call of the batch under way
  next,                 \* the call that the loop under way over the batch is at
  task,                 \* call -> its execution
  strays,               \* executions that an aborted batch has left behind
  stored,               \* results of this sub-round in the transcript, in order
  readPaths,            \* Runner.readPaths of the session
  hydrated,             \* Runner.readPathsHydrated
  hydrateFailed,        \* could the transcript not be read for that?    (history)
  snapshot,             \* Gate.Snapshot of this sub-round
  shown,                \* paths with a successful read_file result in the transcript
  readNow, readBefore,  \* paths read since this sub-round, before it (history)
  restarts

roundVars == <<calls, first, next, task, stored>>
gateVars == <<readPaths, hydrated, hydrateFailed, snapshot>>
readHistory == <<readNow, readBefore>>
vars == <<pc, turn, round, cancelled, roundVars, strays, gateVars, shown, readHistory, restarts>>

\* "read": read_file.  Other tools that run concurrently (read-only ones, a background
\* shell) are like a read that fails: they mark no path.
\* "patch": apply_patch or write_file on an existing file.  Other tools that run
\* alone are like a patch that fails.
Calls == [kind : {"read", "patch"}, path : Paths]
Answers == UNION {[1..n -> Calls] : n \in 1..MaxCalls}
Ids == 1..MaxCalls
NoTasks == [i \in Ids |-> "none"]
Finished == {"ok", "error"}

\* Mutant: every call may run concurrently.
isConcurrentAlways(c) == c.kind \in {"read", "patch"}

isConcurrentToolCall(c) == c.kind = "read"

\* The batch that starts with call f: adjacent concurrent calls until it is full,
\* or the call alone.
partitionToolCalls(f) ==
  {k \in f..Len(calls) :
     k = f \/ /\ k - f < maxConcurrentReadTools
              /\ \A m \in f..k : isConcurrentToolCall(calls[m])}

Batch == partitionToolCalls(first)
AtEnd == next \notin Batch
Running == {i \in Ids : task[i] = "running"}
InBatch == pc \in {"start", "execute", "inline", "spawn", "collect"}

\* read_file paths among the calls of the sub-round (collectSameBatchReadPaths).
SameBatchReads == {calls[i].path : i \in {k \in DOMAIN calls : calls[k].kind = "read"}}

NoRound == /\ calls' = <<>> /\ first' = 1 /\ next' = 1
           /\ task' = NoTasks /\ stored' = <<>>

Init ==
  /\ pc = "idle" /\ turn = 0 /\ round = 0 /\ cancelled = FALSE
  /\ calls = <<>> /\ first = 1 /\ next = 1
  /\ task = NoTasks /\ stored = <<>>
  /\ strays = {}
  /\ readPaths = {} /\ hydrated = FALSE /\ hydrateFailed = FALSE /\ snapshot = {}
  /\ shown = {} /\ readNow = {} /\ readBefore = {}
  /\ restarts = 0

(***************************************************************************)
(* The goroutine of the turn.                                              *)
(***************************************************************************)

\* RunTurn returns.  Executions nobody waits for go on; one that is not past its
\* tool's check of the context fails there, so only the others matter.
Stop ==
  /\ pc' = "idle" /\ round' = 0 /\ cancelled' = FALSE
  /\ strays' = strays \cup {[turn |-> turn, id |-> i, call |-> calls[i]] : i \in Running}
  /\ NoRound
  /\ UNCHANGED <<turn, gateVars, shown, readHistory, restarts>>

BeginTurn ==
  /\ pc = "idle" /\ turn < MaxTurns
  /\ pc' = "prepare" /\ turn' = turn + 1
  /\ UNCHANGED <<round, cancelled, roundVars, strays, gateVars, shown, readHistory, restarts>>

\* The turn is cancelled, a request or the store fails, the model calls no tools, or
\* the sub-rounds are used up.
Finish == pc = "prepare" /\ Stop

\* ensureReadPaths: once in the life of the process, the read paths are taken from
\* the transcript; whether or not it could be read, it is not tried again.
ensureReadPaths ==
  /\ hydrated' = TRUE
  /\ \/ hydrated /\ UNCHANGED <<readPaths, hydrateFailed>>
     \/ ~hydrated /\ readPaths' = readPaths \cup shown /\ UNCHANGED hydrateFailed
     \/ ~hydrated /\ hydrateFailed' = TRUE /\ UNCHANGED readPaths

\* The model calls tools: the answer is stored, and the gate of the sub-round takes
\* its snapshot of the read paths.
Answer ==
  /\ pc = "prepare" /\ round < MaxRounds /\ ~cancelled
  /\ pc' = "start"
  /\ calls' \in Answers /\ first' = 1 /\ next' = 1
  /\ task' = NoTasks /\ stored' = <<>>
  /\ ensureReadPaths
  /\ snapshot' = readPaths'
  /\ readBefore' = readBefore \cup readNow /\ readNow' = {}
  /\ UNCHANGED <<turn, round, cancelled, strays, shown, restarts>>

runFrame == <<turn, round, calls, strays, gateVars, shown, readHistory, restarts>>

\* OnToolStart for every call of the first, unless the turn is cancelled meanwhile.
StartRows ==
  /\ pc = "start" /\ ~cancelled
  /\ pc' = IF Batch = {first} THEN "execute" ELSE "spawn"
  /\ UNCHANGED <<cancelled, first, next, task, stored, runFrame>>

\* A serial first, or a concurrent one of a single call.
Execute ==
  /\ pc = "execute"
  /\ ~cancelled \/ isConcurrentToolCall(calls[next])
  /\ pc' = "inline"
  /\ task' = [task EXCEPT ![next] = "running"]
  /\ UNCHANGED <<cancelled, first, next, stored, runFrame>>

Spawn ==
  /\ pc = "spawn" /\ ~AtEnd /\ ~cancelled
  /\ task' = [task EXCEPT ![next] = "queued"]
  /\ next' = next + 1
  /\ UNCHANGED <<pc, cancelled, first, stored, runFrame>>

\* Mutant: the results are collected without wg.Wait.
WaitNot ==
  /\ pc = "spawn" /\ AtEnd
  /\ pc' = "collect" /\ next' = first
  /\ UNCHANGED <<cancelled, first, task, stored, runFrame>>

Wait ==
  /\ pc = "spawn" /\ AtEnd /\ \A k \in Batch : task[k] \in Finished
  /\ pc' = "collect" /\ next' = first
  /\ UNCHANGED <<cancelled, first, task, stored, runFrame>>

\* persistToolResult: the transcript gets the result of call i.
Persist(i) ==
  /\ stored' = Append(stored, <<i, task[i]>>)
  /\ shown' = IF calls[i].kind = "read" /\ task[i] = "ok"
              THEN shown \cup {calls[i].path} ELSE shown

StoreInline ==
  /\ pc = "inline" /\ task[next] \in Finished
  /\ Persist(next)
  /\ pc' = "collect" /\ next' = next + 1
  /\ UNCHANGED <<turn, round, cancelled, calls, first, task, strays, gateVars, readHistory, restarts>>

Collect ==
  /\ pc = "collect" /\ ~AtEnd /\ ~cancelled
  /\ Persist(next)
  /\ next' = next + 1
  /\ UNCHANGED <<pc, turn, round, cancelled, calls, first, task, strays, gateVars, readHistory, restarts>>

\* OnToolEnd for every call of the batch; then the next one.
EndRows ==
  /\ pc = "collect" /\ AtEnd /\ ~cancelled /\ next <= Len(calls)
  /\ pc' = "start" /\ first' = next
  /\ UNCHANGED <<cancelled, next, task, stored, runFrame>>

\* ... then the next sub-round.
RoundDone ==
  /\ pc = "collect" /\ AtEnd /\ ~cancelled /\ next > Len(calls)
  /\ pc' = "prepare" /\ round' = round + 1
  /\ UNCHANGED <<turn, cancelled, roundVars, strays, gateVars, shown, readHistory, restarts>>

\* The turn sees that it is cancelled, wherever it checks its context.
StopCancelled ==
  /\ cancelled
  /\ \/ pc \in {"start", "collect"}
     \/ pc = "execute" /\ ~isConcurrentToolCall(calls[next])
     \/ pc = "spawn" /\ ~AtEnd
  /\ Stop

\* AppendMessage fails, which it also does when the context is cancelled.
StoreFail ==
  /\ \/ pc = "inline" /\ task[next] \in Finished
     \/ pc = "collect" /\ ~AtEnd
  /\ Stop

(***************************************************************************)
(* The executions.                                                         *)
(***************************************************************************)

taskFrame == <<pc, turn, round, cancelled, calls, first, next, strays, stored,
               hydrated, hydrateFailed, snapshot, shown, readBefore, restarts>>

\* A goroutine gets a slot of the semaphore.  With a cancelled context its tool
\* returns at once.
Acquire(i) ==
  /\ task[i] = "queued" /\ Cardinality(Running) < maxConcurrentReadTools
  /\ task' = [task EXCEPT ![i] = IF cancelled THEN "error" ELSE "running"]
  /\ UNCHANGED <<taskFrame, readPaths, readNow>>

\* read_file has succeeded: Gate.MarkPath, markReadPath.
MarkPath(p) == readPaths' = readPaths \cup {p} /\ readNow' = readNow \cup {p}

\* Mutant: reads of the same sub-round do not matter.
CheckApplyPatchAnyBatch(p) == p \in readPaths

\* Gate.CheckApplyPatch.
CheckApplyPatch(p) == p \notin SameBatchReads /\ p \in snapshot

Read(i) ==
  /\ calls[i].kind = "read"
  /\ task' = [task EXCEPT ![i] = "ok"]
  /\ MarkPath(calls[i].path)

Patch(i) ==
  /\ calls[i].kind = "patch" /\ CheckApplyPatch(calls[i].path)
  /\ task' = [task EXCEPT ![i] = "ok"]
  /\ UNCHANGED <<readPaths, readNow>>

\* The tool is denied, refused by the gate, cancelled or fails.
Fail(i) ==
  /\ task' = [task EXCEPT ![i] = "error"]
  /\ UNCHANGED <<readPaths, readNow>>

executeTool(i) ==
  /\ i \in Running
  /\ Read(i) \/ Patch(i) \/ Fail(i)
  /\ UNCHANGED taskFrame

\* An execution left behind ends: a read still marks its path.
StrayEnds(s) ==
  /\ strays' = strays \ {s}
  /\ \/ s.call.kind = "read" /\ MarkPath(s.call.path)
     \/ UNCHANGED <<readPaths, readNow>>
  /\ UNCHANGED <<pc, turn, round, cancelled, roundVars, hydrated, hydrateFailed, snapshot,
                 shown, readBefore, restarts>>

(***************************************************************************)
(* The user, and the process.                                              *)
(***************************************************************************)

Cancel ==
  /\ pc # "idle" /\ ~cancelled
  /\ cancelled' = TRUE
  /\ UNCHANGED <<pc, turn, round, roundVars, strays, gateVars, shown, readHistory, restarts>>

Restart ==
  /\ restarts < MaxRestarts
  /\ restarts' = restarts + 1
  /\ pc' = "idle" /\ round' = 0 /\ cancelled' = FALSE
  /\ NoRound /\ strays' = {}
  /\ readPaths' = {} /\ hydrated' = FALSE /\ hydrateFailed' = FALSE /\ snapshot' = {}
  /\ UNCHANGED <<turn, shown, readHistory>>

-----------------------------------------------------------------------------
Turn ==
  \/ Finish \/ Answer \/ StartRows \/ Execute \/ Spawn \/ Wait
  \/ StoreInline \/ Collect \/ EndRows \/ RoundDone
  \/ StopCancelled \/ StoreFail

Task(i) == Acquire(i) \/ executeTool(i)

Next ==
  \/ BeginTurn \/ Turn \/ Cancel \/ Restart
  \/ \E i \in Ids : Task(i)
  \/ \E s \in strays : StrayEnds(s)

Spec == Init /\ [][Next]_vars

-----------------------------------------------------------------------------
(***************************************************************************)
(* Properties.                                                             *)
(***************************************************************************)

States == {"none", "queued", "running"} \cup Finished

TypeControl ==
  /\ pc \in {"idle", "prepare", "start", "execute", "inline", "spawn", "collect"}
  /\ turn \in 0..MaxTurns /\ round \in 0..MaxRounds /\ cancelled \in BOOLEAN
  /\ hydrated \in BOOLEAN /\ hydrateFailed \in BOOLEAN
  /\ restarts \in 0..MaxRestarts

TypeBatch ==
  /\ calls \in Answers \cup {<<>>}
  /\ first \in 1..MaxCalls /\ next \in 1..(MaxCalls + 1)

TypeTasks ==
  /\ task \in [Ids -> States]
  /\ strays \subseteq [turn : 1..MaxTurns, id : Ids, call : Calls]
  /\ stored \in Seq(Ids \X States)

TypeReads ==
  /\ readPaths \subseteq Paths /\ snapshot \subseteq Paths /\ shown \subseteq Paths
  /\ readNow \subseteq Paths /\ readBefore \subseteq Paths

\* Where the loops over the batch are.
Positions ==
  /\ pc # "idle" => turn # 0
  /\ InBatch => first \in DOMAIN calls /\ round < MaxRounds
  /\ pc \in {"start", "execute", "inline"} => next = first
  /\ pc \in {"spawn", "collect"} => first..(next - 1) \subseteq Batch
  /\ pc \in {"spawn", "collect"} => first <= next /\ next - first <= maxConcurrentReadTools
  /\ \A i \in Ids : task[i] # "none" => i \in DOMAIN calls

\* Every variable keeps to the values the code gives it; no loop leaves its batch,
\* and a batch is never longer than maxConcurrentReadTools.
TypeOK == TypeControl /\ TypeBatch /\ TypeTasks /\ TypeReads /\ Positions

\* A write runs alone among the tools of its turn, and no write goes on when its turn
\* is over (tool_orchestration.go:22): a cancellation leaves only reads behind.
WritesAlone ==
  /\ \A i \in Ids : task[i] = "running" /\ calls[i].kind = "patch"
                     => \A k \in Ids \ {i} : task[k] \notin {"queued", "running"}
  /\ \A s \in strays : s.call.kind = "read"

\* When the model is asked again, the transcript answers each of its calls once, in
\* the order of the calls and with what the call returned: the API refuses a
\* request in which an answer is missing (runner_loop.go:188, 93-101).
RoundComplete ==
  pc = "prepare" /\ round > 0 =>
    /\ stored = [i \in DOMAIN calls |-> <<i, task[i]>>]
    /\ \A i \in DOMAIN calls : task[i] \in Finished

\* A file is patched only if an earlier sub-round has read it and this one does not
\* (agent/README.md:282), also after a restart and beside the reads of a cancelled
\* turn that have not ended yet.
PatchNeedsRead ==
  [][\A i \in Running : calls[i].kind = "patch" /\ task'[i] = "ok"
       => calls[i].path \in readBefore /\ calls[i].path \notin SameBatchReads]_vars

\* Why: what the gate knows has been read, and what it asks was read before.
ReadInv ==
  /\ readPaths \subseteq readBefore \cup readNow
  /\ shown \subseteq readBefore \cup readNow
  /\ snapshot \subseteq readBefore
  /\ \A i \in Ids : task[i] = "ok" /\ calls[i].kind = "read"
                     => calls[i].path \in readBefore \cup readNow

\* The other way round: a file that the transcript shows as read is not refused, if
\* it could be read at all when the process started (readfile_gate.go:29).
ShownIsRead == InBatch /\ ~hydrateFailed => shown \subseteq snapshot \cup SameBatchReads

\* The turn never hangs, without the user's help: its goroutine waits only inside a
\* call, which is then under way, and for the executions of a batch (wg.Wait), of which
\* one is then under way, or has a slot of the semaphore to take.
NeverStuck ==
  /\ pc = "inline" => task[next] \in {"running"} \cup Finished
  /\ pc = "spawn" /\ ~(\A k \in Batch : task[k] \in Finished) =>
       \/ ~AtEnd
       \/ Running # {}
       \/ /\ \E i \in Batch : task[i] = "queued"
          /\ Cardinality(Running) < maxConcurrentReadTools

\* The round at every moment: the types and positions, the answers in the transcript, the
\* agreement of the gate with what was read and what is shown as read, and no deadlock.
RoundInv == TypeOK /\ RoundComplete /\ ReadInv /\ ShownIsRead /\ NeverStuck
=============================================================================
