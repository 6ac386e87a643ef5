----------------------------- MODULE ShellJobs -----------------------------
(***************************************************************************)
(* Background shell jobs: internal/shelljobs/manager, driven by the bash   *)
(* tool's runBackground (internal/tool/builtin/shell/shell.go).            *)
(*                                                                         *)
(* A session is one life of the ds-code process: it opens a Manager,       *)
(* reconciles the job records it finds on disk in a goroutine, starts and  *)
(* waits for jobs from concurrent tool calls, and either closes the        *)
(* manager or crashes.  The disk records and the children outlive it.      *)
(* A Manager.jobs entry, the tracked set and every goroutine belong to one *)
(* session and are gone when it dies.                                      *)
(***************************************************************************)
EXTENDS Integers, FiniteSets

CONSTANTS Jobs,          \* job ids; a tool call uses its id once (uuid)
          Sessions,      \* lives of the ds-code process on one project
          NoSession,     \* owner of a job nobody has started
          MaxBackground, \* cfg.MaxBackground
          Overlap        \* may two sessions of the project be up together?

ASSUME ShellJobsAssumption ==
  /\ IsFiniteSet(Jobs)
  /\ NoSession \notin Sessions
  /\ MaxBackground \in Int
  /\ Overlap \in BOOLEAN
  /\ Jobs \cap Sessions = {}

Terminal == {"completed", "failed", "killed"}       \* shelljobs.Status*
Status == {"none", "running"} \cup Terminal         \* "none": no meta.json
NoJob == "noJob"

VARIABLES
  life,     \* session -> new, open, closing, closed (m.jobs = nil), dead
  recon,    \* session -> its reconcileStaleJobs goroutine
  closing,  \* session -> ids that Close has collected and not yet cancelled
  owner,    \* job -> the session that started it
  entry,    \* job -> its m.jobs entry; "placeholder" has Status running, no cmd
  call,     \* job -> program counter of the runBackground call: Start, Wait
  waitJob,  \* job -> program counter of its waitJob goroutine
  done,     \* job -> is rj.done closed?
  tracked,  \* the job ids in the tracked map of their owner's process
  ctx,      \* job -> is the context of its call done (timeout, turn cancelled)?
  cancel,   \* caller of Cancel (a waiting call or Close) -> its progress
  result,   \* job -> what Wait returned
  meta,     \* job -> Status in meta.json
  proc,     \* job -> its shell process: none, alive, exited (zombie), reaped
  exit,     \* job -> how the process ended
  signalled,\* jobs whose process was sent SIGKILL                 (history)
  viaPid    \* jobs judged through the PID of their disk record    (history)

sessVars == <<life, recon, closing>>
callVars == <<call, ctx, result>>
procVars == <<proc, exit, signalled>>
vars == <<sessVars, owner, entry, callVars, waitJob, done, tracked, cancel,
          meta, procVars, viaPid>>

Up(s) == life[s] \in {"open", "closing", "closed"}
Orphan(j) == ~(owner[j] \in Sessions /\ Up(owner[j]))
Callers == Jobs \cup Sessions
CancelAt(pc, job) == [pc |-> pc, job |-> job]
Idle == CancelAt("idle", NoJob)
ReconAt(pc, todo, job, verdict) ==
  [pc |-> pc, todo |-> todo, job |-> job, verdict |-> verdict]
Off == ReconAt("off", {}, NoJob, "none")

\* Default of Start when the configured bound is not positive.
maxBg == IF MaxBackground <= 0 THEN 5 ELSE MaxBackground

\* SIGKILL reaches a process that has not been reaped.
Kill(j) == signalled' = IF proc[j] \in {"alive", "exited"}
                        THEN signalled \cup {j} ELSE signalled

\* The memory and the goroutines of session s are gone; disk and children stay.
SessionGone(s) ==
  LET lost(f, v) == [j \in Jobs |-> IF owner[j] = s THEN v ELSE f[j]] IN
    /\ life' = [life EXCEPT ![s] = "dead"]
    /\ recon' = [recon EXCEPT ![s] = Off]
    /\ closing' = [closing EXCEPT ![s] = {}]
    /\ entry' = lost(entry, "none")
    /\ call' = lost(call, "gone")
    /\ waitJob' = lost(waitJob, "off")
    /\ done' = lost(done, FALSE)
    /\ ctx' = lost(ctx, FALSE)
    /\ tracked' = {j \in tracked : owner[j] # s}
    /\ cancel' = [c \in Callers |-> IF c = s \/ (c \in Jobs /\ owner[c] = s) THEN Idle ELSE cancel[c]]

Init ==
  /\ life = [s \in Sessions |-> "new"]
  /\ recon = [s \in Sessions |-> Off]
  /\ closing = [s \in Sessions |-> {}]
  /\ owner = [j \in Jobs |-> NoSession]
  /\ entry = [j \in Jobs |-> "none"]
  /\ call = [j \in Jobs |-> "idle"]
  /\ waitJob = [j \in Jobs |-> "off"]
  /\ done = [j \in Jobs |-> FALSE]
  /\ tracked = {}
  /\ ctx = [j \in Jobs |-> FALSE]
  /\ cancel = [c \in Callers |-> Idle]
  /\ result = [j \in Jobs |-> "none"]
  /\ meta = [j \in Jobs |-> "none"]
  /\ proc = [j \in Jobs |-> "none"]
  /\ exit = [j \in Jobs |-> "none"]
  /\ signalled = {}
  /\ viaPid = {}

(***************************************************************************)
(* Open and the reconciler goroutine.                                      *)
(***************************************************************************)

\* manager.Open: the reconciler runs in the background of a usable manager.
Open(s) ==
  /\ life[s] = "new"
  /\ Overlap \/ \A t \in Sessions : ~Up(t)
  /\ life' = [life EXCEPT ![s] = "open"]
  /\ recon' = [recon EXCEPT ![s] = ReconAt("list", {}, NoJob, "none")]
  /\ UNCHANGED <<closing, owner, entry, callVars, waitJob, done, tracked,
                 cancel, meta, procVars, viaPid>>

reconFrame == <<life, closing, owner, entry, callVars, waitJob, done, tracked, cancel>>

\* os.ReadDir under reconcileMu: the job directories of this instant.  (One whose
\* launch has not got as far as cmd.Start holds no record and would be skipped.)
ReconcileList(s) ==
  /\ recon[s].pc = "list"
  /\ recon' = [recon EXCEPT ![s] = ReconAt("next", {j \in Jobs : proc[j] # "none"}, NoJob, "none")]
  /\ UNCHANGED <<reconFrame, meta, procVars, viaPid>>

\* isTracked looks only at this process's own map.
ReconcileCheck(s, j) ==
  /\ recon[s].pc = "next" /\ j \in recon[s].todo
  /\ recon' = [recon EXCEPT ![s] = IF owner[j] = s /\ j \in tracked
                                   THEN ReconAt("next", @.todo \ {j}, NoJob, "none")
                                   ELSE ReconAt("read", @.todo \ {j}, j, "none")]
  /\ UNCHANGED <<reconFrame, meta, procVars, viaPid>>

\* readMeta: a missing or finished record is skipped.
ReconcileRead(s) ==
  /\ recon[s].pc = "read"
  /\ recon' = [recon EXCEPT ![s] = IF meta[@.job] = "running"
                                   THEN ReconAt("judge", @.todo, @.job, "none")
                                   ELSE ReconAt("next", @.todo, NoJob, "none")]
  /\ UNCHANGED <<reconFrame, meta, procVars, viaPid>>

\* Mutant: the orphan is declared failed and left running.
ReconcileJudgeNoKill(s) ==
  /\ recon[s].pc = "judge"
  /\ recon' = [recon EXCEPT ![s] = ReconAt("write", @.todo, @.job, "failed")]
  /\ viaPid' = viaPid \cup {recon[s].job}
  /\ UNCHANGED <<reconFrame, meta, procVars>>

\* processAlive (true of a zombie), then SIGKILL.
ReconcileJudge(s) ==
  /\ recon[s].pc = "judge"
  /\ LET j == recon[s].job IN
       /\ recon' = [recon EXCEPT ![s] = ReconAt("write", @.todo, j,
                      IF proc[j] \in {"alive", "exited"} THEN "killed" ELSE "failed")]
       /\ Kill(j)
       /\ viaPid' = viaPid \cup {j}
  /\ UNCHANGED <<reconFrame, meta, proc, exit>>

ReconcileWrite(s) ==
  /\ recon[s].pc = "write"
  /\ meta' = [meta EXCEPT ![recon[s].job] = recon[s].verdict]
  /\ recon' = [recon EXCEPT ![s] = ReconAt("next", @.todo, NoJob, "none")]
  /\ UNCHANGED <<reconFrame, procVars, viaPid>>

ReconcileDone(s) ==
  /\ recon[s].pc = "next" /\ recon[s].todo = {}
  /\ recon' = [recon EXCEPT ![s] = ReconAt("done", {}, NoJob, "none")]
  /\ UNCHANGED <<reconFrame, procVars, meta, viaPid>>

(***************************************************************************)
(* Start, on the goroutine of the tool call.                               *)
(***************************************************************************)

\* Mutant: only launched jobs count, the placeholder holds no slot.
RunningEntriesLaunched(s) == {j \in Jobs : owner[j] = s /\ entry[j] = "running"}

\* The entries Start and Close see as StatusRunning.
RunningEntries(s) == {j \in Jobs : owner[j] = s /\ entry[j] \in {"placeholder", "running"}}

startFrame == <<sessVars, ctx, cancel, done>>

\* Under m.mu: count the running entries, insert the placeholder.  (Once Close
\* has set the map to nil the insertion panics: that end of the process is Die.)
StartReserve(s, j) ==
  /\ Up(s) /\ life[s] # "closed" /\ owner[j] = NoSession
  /\ owner' = [owner EXCEPT ![j] = s]
  /\ IF Cardinality(RunningEntries(s)) >= maxBg
     THEN call' = [call EXCEPT ![j] = "refused"] /\ entry' = entry
     ELSE call' = [call EXCEPT ![j] = "reserved"] /\ entry' = [entry EXCEPT ![j] = "placeholder"]
  /\ UNCHANGED <<startFrame, result, waitJob, tracked, meta, procVars, viaPid>>

\* removeJob: delete on a nil map is a no-op.
removeJob(j) == /\ entry' = [entry EXCEPT ![j] = "none"]
                /\ tracked' = tracked \ {j}
                /\ call' = [call EXCEPT ![j] = "failed"]

\* MkdirAll, os.Create or cmd.Start failed.
StartFail(j) ==
  /\ call[j] = "reserved"
  /\ removeJob(j)
  /\ UNCHANGED <<startFrame, owner, result, waitJob, meta, procVars, viaPid>>

\* The job directory, the output files and cmd.Start.
StartSpawn(j) ==
  /\ call[j] = "reserved"
  /\ proc' = [proc EXCEPT ![j] = "alive"]
  /\ call' = [call EXCEPT ![j] = "spawned"]
  /\ UNCHANGED <<startFrame, owner, entry, result, waitJob, tracked, meta,
                 exit, signalled, viaPid>>

StartWriteMeta(j) ==
  /\ call[j] = "spawned"
  /\ meta' = [meta EXCEPT ![j] = "running"]
  /\ call' = [call EXCEPT ![j] = "recorded"]
  /\ UNCHANGED <<startFrame, owner, entry, result, waitJob, tracked, procVars, viaPid>>

\* writeMeta failed: the process is killed (and nobody will wait for it).
StartWriteMetaFail(j) ==
  /\ call[j] = "spawned"
  /\ Kill(j)
  /\ removeJob(j)
  /\ UNCHANGED <<startFrame, owner, result, waitJob, meta, proc, exit, viaPid>>

\* Under m.mu: replace the placeholder, then start the waitJob goroutine.
StartRegister(j) ==
  /\ call[j] = "recorded" /\ life[owner[j]] # "closed"
  /\ entry' = [entry EXCEPT ![j] = "running"]
  /\ waitJob' = [waitJob EXCEPT ![j] = "wait"]
  /\ call' = [call EXCEPT ![j] = "registered"]
  /\ UNCHANGED <<startFrame, owner, result, tracked, meta, procVars, viaPid>>

\* m.jobs[id] = rj after Close set m.jobs to nil: the process panics.
StartPanic(j) ==
  /\ call[j] = "recorded" /\ life[owner[j]] = "closed"
  /\ SessionGone(owner[j])
  /\ UNCHANGED <<owner, result, meta, procVars, viaPid>>

\* trackJob, the last statement before Start returns the job.
StartTrack(j) ==
  /\ call[j] = "registered"
  /\ tracked' = tracked \cup {j}
  /\ call' = [call EXCEPT ![j] = "started"]
  /\ UNCHANGED <<startFrame, owner, entry, result, waitJob, meta, procVars, viaPid>>

(***************************************************************************)
(* The waitJob goroutine.                                                  *)
(***************************************************************************)

waitFrame == <<sessVars, owner, callVars, cancel, signalled, viaPid>>

\* cmd.Wait returns.
WaitJobReap(j) ==
  /\ waitJob[j] = "wait" /\ proc[j] = "exited"
  /\ proc' = [proc EXCEPT ![j] = "reaped"]
  /\ waitJob' = [waitJob EXCEPT ![j] = "finish"]
  /\ UNCHANGED <<waitFrame, entry, done, tracked, meta, exit>>

finish(j, status) ==
  /\ waitJob[j] = "finish"
  /\ waitJob' = [waitJob EXCEPT ![j] = "close"]
  /\ entry' = [entry EXCEPT ![j] = status]
  /\ meta' = [meta EXCEPT ![j] = status]
  /\ UNCHANGED <<waitFrame, done, tracked, proc, exit>>

\* Mutants: cmd.Wait's error is ignored; a killed entry is overwritten.
WaitJobFinishNoErr(j) == finish(j, "completed")
WaitJobFinishKilled(j) == finish(j, IF exit[j] = "ok" THEN "completed" ELSE "failed")

\* Under m.mu: a missing or killed entry is left alone.
WaitJobFinish(j) ==
  \/ /\ entry[j] \notin {"none", "killed"}
     /\ finish(j, IF exit[j] = "ok" THEN "completed" ELSE "failed")
  \/ /\ entry[j] \in {"none", "killed"}
     /\ waitJob[j] = "finish"
     /\ waitJob' = [waitJob EXCEPT ![j] = "close"]
     /\ UNCHANGED <<waitFrame, entry, meta, done, tracked, proc, exit>>

\* The deferred untrackJob and close(done).
WaitJobClose(j) ==
  /\ waitJob[j] = "close"
  /\ tracked' = tracked \ {j}
  /\ done' = [done EXCEPT ![j] = TRUE]
  /\ waitJob' = [waitJob EXCEPT ![j] = "ended"]
  /\ UNCHANGED <<waitFrame, entry, meta, proc, exit>>

(***************************************************************************)
(* Wait, on the goroutine of the tool call, and the timeout of its context.*)
(***************************************************************************)

callFrame == <<sessVars, owner, entry, waitJob, done, tracked, meta, procVars, viaPid>>

\* The deadline of runBackground's context, or the turn around it cancelled,
\* while the call is still in Start.
CtxDone(j) ==
  /\ ~ctx[j] /\ call[j] \in {"reserved", "spawned", "recorded", "registered", "started"}
  /\ ctx' = [ctx EXCEPT ![j] = TRUE]
  /\ UNCHANGED <<callFrame, call, cancel, result>>

Return(j, r) == /\ call' = [call EXCEPT ![j] = "returned"]
                /\ result' = [result EXCEPT ![j] = r]

\* The entry checks: ctx.Err, then the done channel (none in a nil map).
WaitEnter(j) ==
  /\ call[j] = "started"
  /\ IF ctx[j] THEN Return(j, "ctxErr")
     ELSE /\ call' = [call EXCEPT ![j] = IF entry[j] = "none" THEN "poll" ELSE "select"]
          /\ result' = result
  /\ UNCHANGED <<callFrame, ctx, cancel>>

\* done is closed: Wait returns the record it reads from disk.
WaitDone(j) ==
  /\ call[j] = "select" /\ done[j]
  /\ Return(j, meta[j])
  /\ UNCHANGED <<callFrame, ctx, cancel>>

\* A tick of the 100ms ticker that finds the record finished; others change nothing.
WaitPoll(j) ==
  /\ call[j] = "poll" /\ meta[j] # "running"
  /\ Return(j, meta[j])
  /\ UNCHANGED <<callFrame, ctx, cancel>>

\* Mutant: the polling loop does not watch its context.
WaitCtxDoneSelect(j) ==
  /\ call[j] = "select"
  /\ ctx' = [ctx EXCEPT ![j] = TRUE]
  /\ call' = [call EXCEPT ![j] = "cancelling"]
  /\ cancel' = [cancel EXCEPT ![j] = CancelAt("lock", j)]
  /\ UNCHANGED <<callFrame, result>>

\* ctx.Done fires in either loop: Wait cancels the job.
WaitCtxDone(j) ==
  /\ call[j] \in {"select", "poll"}
  /\ ctx' = [ctx EXCEPT ![j] = TRUE]
  /\ call' = [call EXCEPT ![j] = "cancelling"]
  /\ cancel' = [cancel EXCEPT ![j] = CancelAt("lock", j)]
  /\ UNCHANGED <<callFrame, result>>

(***************************************************************************)
(* Cancel, called by a waiting call or by Close.                           *)
(***************************************************************************)

cancelFrame == <<sessVars, owner, ctx, waitJob, done, tracked, proc, exit>>

\* A waiting call returns the context's error; Close goes on to its next id.
CancelReturns(c) ==
  /\ cancel' = [cancel EXCEPT ![c] = Idle]
  /\ IF c \in Jobs THEN Return(c, "ctxErr") ELSE UNCHANGED <<call, result>>

\* Under m.mu: kill through rj.cmd, or fall through to the disk record.
CancelLock(c) ==
  /\ cancel[c].pc = "lock"
  /\ LET j == cancel[c].job IN
       IF entry[j] = "running"
       THEN /\ Kill(j)
            /\ entry' = [entry EXCEPT ![j] = "killed"]
            /\ cancel' = [cancel EXCEPT ![c] = CancelAt("write", j)]
       ELSE /\ cancel' = [cancel EXCEPT ![c] = CancelAt("read", j)]
            /\ UNCHANGED <<entry, signalled>>
  /\ UNCHANGED <<cancelFrame, call, result, meta, viaPid>>

\* No cmd: readMeta, and os.FindProcess(PID).Kill when the record is running.
CancelRead(c) ==
  /\ cancel[c].pc = "read"
  /\ LET j == cancel[c].job IN
       IF meta[j] = "running"
       THEN /\ Kill(j)
            /\ viaPid' = viaPid \cup {j}
            /\ cancel' = [cancel EXCEPT ![c] = CancelAt("write", j)]
            /\ UNCHANGED <<call, result>>
       ELSE /\ CancelReturns(c)
            /\ UNCHANGED <<signalled, viaPid>>
  /\ UNCHANGED <<cancelFrame, entry, meta>>

\* writeMeta after m.mu is released.
CancelWrite(c) ==
  /\ cancel[c].pc = "write"
  /\ meta' = [meta EXCEPT ![cancel[c].job] = "killed"]
  /\ CancelReturns(c)
  /\ UNCHANGED <<cancelFrame, entry, signalled, viaPid>>

(***************************************************************************)
(* Close, and the end of a session.                                        *)
(***************************************************************************)

closeFrame == <<recon, owner, callVars, waitJob, done, tracked, meta, procVars, viaPid>>

\* After reconcileWG.Wait, under m.mu: the ids to cancel.
CloseCollect(s) ==
  /\ life[s] = "open" /\ recon[s].pc = "done"
  /\ life' = [life EXCEPT ![s] = "closing"]
  /\ closing' = [closing EXCEPT ![s] = RunningEntries(s)]
  /\ UNCHANGED <<closeFrame, entry, cancel>>

CloseCancel(s, j) ==
  /\ life[s] = "closing" /\ cancel[s] = Idle /\ j \in closing[s]
  /\ closing' = [closing EXCEPT ![s] = @ \ {j}]
  /\ cancel' = [cancel EXCEPT ![s] = CancelAt("lock", j)]
  /\ UNCHANGED <<closeFrame, life, entry>>

\* m.jobs = nil
CloseFinish(s) ==
  /\ life[s] = "closing" /\ closing[s] = {} /\ cancel[s] = Idle
  /\ life' = [life EXCEPT ![s] = "closed"]
  /\ entry' = [j \in Jobs |-> IF owner[j] = s THEN "none" ELSE entry[j]]
  /\ UNCHANGED <<closeFrame, closing, cancel>>

\* The process exits after Close, or crashes at any point before.
Die(s) ==
  /\ Up(s)
  /\ SessionGone(s)
  /\ UNCHANGED <<owner, result, meta, procVars, viaPid>>

(***************************************************************************)
(* The operating system: the job's shell process.                          *)
(***************************************************************************)

procFrame == <<sessVars, owner, entry, callVars, waitJob, done, tracked, cancel,
               meta, signalled, viaPid>>

ProcExit(j) ==
  /\ proc[j] = "alive"
  /\ proc' = [proc EXCEPT ![j] = "exited"]
  /\ \E how \in {"ok", "error"} : exit' = [exit EXCEPT ![j] = how]
  /\ UNCHANGED procFrame

ProcDie(j) ==
  /\ proc[j] = "alive" /\ j \in signalled
  /\ proc' = [proc EXCEPT ![j] = "exited"]
  /\ exit' = [exit EXCEPT ![j] = "signal"]
  /\ UNCHANGED procFrame

\* A zombie whose parent died is reaped by init.
InitReap(j) ==
  /\ proc[j] = "exited" /\ Orphan(j)
  /\ proc' = [proc EXCEPT ![j] = "reaped"]
  /\ UNCHANGED <<procFrame, exit>>

-----------------------------------------------------------------------------
Reconcile(s) ==
  \/ ReconcileList(s) \/ ReconcileRead(s) \/ ReconcileJudge(s)
  \/ ReconcileWrite(s) \/ ReconcileDone(s)
  \/ \E j \in Jobs : ReconcileCheck(s, j)

Start(j) ==
  \/ StartFail(j) \/ StartSpawn(j) \/ StartWriteMeta(j)
  \/ StartWriteMetaFail(j) \/ StartRegister(j) \/ StartPanic(j) \/ StartTrack(j)

WaitJob(j) == WaitJobReap(j) \/ WaitJobFinish(j) \/ WaitJobClose(j)

Wait(j) == WaitEnter(j) \/ WaitDone(j) \/ WaitPoll(j) \/ WaitCtxDone(j)

Cancel(c) == CancelLock(c) \/ CancelRead(c) \/ CancelWrite(c)

Close(s) == CloseCollect(s) \/ CloseFinish(s) \/ \E j \in Jobs : CloseCancel(s, j)

Next ==
  \/ \E s \in Sessions : Open(s) \/ Reconcile(s) \/ Close(s) \/ Die(s)
  \/ \E s \in Sessions, j \in Jobs : StartReserve(s, j)
  \/ \E j \in Jobs : Start(j) \/ WaitJob(j) \/ CtxDone(j) \/ Wait(j)
  \/ \E c \in Callers : Cancel(c)
  \/ \E j \in Jobs : ProcExit(j) \/ ProcDie(j) \/ InitReap(j)

Spec == Init /\ [][Next]_vars

\* Goroutines run, deadlines pass and SIGKILL takes effect.  Nothing makes a
\* job end by itself, a session close or crash, or a tool call arrive.
Fairness ==
  /\ \A s \in Sessions : WF_vars(Reconcile(s))
  /\ \A j \in Jobs : /\ WF_vars(Start(j)) /\ WF_vars(WaitJob(j))
                     /\ WF_vars(Wait(j)) /\ WF_vars(ProcDie(j))
  /\ \A c \in Callers : WF_vars(Cancel(c))

FairSpec == Spec /\ Fairness

-----------------------------------------------------------------------------
(***************************************************************************)
(* Properties.                                                             *)
(***************************************************************************)

Calls == {"idle", "refused", "reserved", "spawned", "recorded", "registered",
          "started", "select", "poll", "cancelling", "failed", "returned", "gone"}
Recons ==
  [pc : {"off", "list", "next", "done"}, todo : SUBSET Jobs, job : {NoJob}, verdict : {"none"}]
    \cup [pc : {"read", "judge"}, todo : SUBSET Jobs, job : Jobs, verdict : {"none"}]
    \cup [pc : {"write"}, todo : SUBSET Jobs, job : Jobs, verdict : {"killed", "failed"}]
Cancels == {Idle} \cup [pc : {"lock", "read", "write"}, job : Jobs]

\* Every variable keeps to the values the code gives it.
TypeOK ==
  /\ life \in [Sessions -> {"new", "open", "closing", "closed", "dead"}]
  /\ recon \in [Sessions -> Recons]
  /\ closing \in [Sessions -> SUBSET Jobs]
  /\ owner \in [Jobs -> Sessions \cup {NoSession}]
  /\ entry \in [Jobs -> {"none", "placeholder", "running"} \cup Terminal]
  /\ call \in [Jobs -> Calls]
  /\ waitJob \in [Jobs -> {"off", "wait", "finish", "close", "ended"}]
  /\ done \in [Jobs -> BOOLEAN]
  /\ tracked \in SUBSET Jobs
  /\ ctx \in [Jobs -> BOOLEAN]
  /\ cancel \in [Callers -> Cancels]
  /\ result \in [Jobs -> Status \cup {"ctxErr"}]
  /\ meta \in [Jobs -> Status]
  /\ proc \in [Jobs -> {"none", "alive", "exited", "reaped"}]
  /\ exit \in [Jobs -> {"none", "ok", "error", "signal"}]
  /\ signalled \in SUBSET Jobs
  /\ viaPid \in SUBSET Jobs

\* Shell processes of session s that run and that nobody has asked to die.
Alive(s) == {j \in Jobs : owner[j] = s /\ proc[j] = "alive"} \ signalled

\* A session never has more than max_background live shell processes, however
\* its concurrent calls interleave: Start counts before it launches, and the
\* placeholder holds the slot in between (manager_run.go:28-51).
BoundedProcesses == \A s \in Sessions : Up(s) /\ life[s] # "closed" => Cardinality(Alive(s)) <= maxBg

\* Why: a slot is held by an entry from before the launch until after the kill or
\* the exit, so the live processes are among the entries Start counts.
Launching == {"reserved", "spawned", "recorded"}

SlotJob(j) ==
  /\ owner[j] = NoSession =>
       call[j] \notin Launching /\ entry[j] = "none" /\ proc[j] = "none" /\ waitJob[j] = "off"
  /\ owner[j] \in Sessions => life[owner[j]] # "new"
  /\ call[j] = "reserved" => proc[j] = "none"
  /\ call[j] \in Launching /\ life[owner[j]] # "closed" => entry[j] = "placeholder"
  /\ call[j] \in Launching => waitJob[j] = "off"
  /\ waitJob[j] = "finish" => proc[j] = "reaped"

Slots(s) == life[s] \in {"open", "closing"} =>
              /\ Alive(s) \subseteq RunningEntries(s)
              /\ Cardinality(RunningEntries(s)) <= maxBg

SlotInv == (\A j \in Jobs : SlotJob(j)) /\ (\A s \in Sessions : Slots(s))

\* A call that Wait reports completed ran to a clean exit and one it reports failed
\* did not; a job is reported killed only while its session closes (the call's own
\* deadline is an error instead), or if it was judged through its PID.
WaitResultTruth ==
  \A j \in Jobs :
    /\ result[j] = "completed" => proc[j] = "reaped" /\ exit[j] = "ok"
    /\ result[j] = "failed" => exit[j] \in {"error", "signal"} \/ j \in viaPid
    /\ result[j] = "killed" => life[owner[j]] # "open" \/ j \in viaPid

\* Until Close drops the map: once done is closed the process is reaped, the slot
\* is free again and the record is final, unless Cancel is still about to write it.
DoneIsFinal ==
  \A j \in Jobs : done[j] /\ life[owner[j]] # "closed" =>
    /\ proc[j] = "reaped" /\ entry[j] \in Terminal \cup {"none"}
    /\ meta[j] \in Terminal \/ \E c \in Callers : cancel[c] = CancelAt("write", j)

\* A finished record never changes its verdict, unless somebody acted on the job
\* through the PID of the record instead of its entry.
FinalRecordIsKept ==
  [][\A j \in Jobs : meta[j] \in Terminal /\ j \notin viaPid => meta'[j] = meta[j]]_vars

\* With one session at a time, a reconciler that is done leaves no job of a dead
\* session recorded as running, and none with a record still running unkilled.
PriorSessionsRecovered ==
  \A s \in Sessions, j \in Jobs :
    Up(s) /\ recon[s].pc = "done" /\ owner[j] \notin {s, NoSession} /\ Orphan(j)
      => /\ meta[j] # "running"
         /\ meta[j] # "none" => j \notin Alive(owner[j])

\* A call in Wait returns, at the latest after its deadline: Wait never blocks on
\* a job that does not end (or its process is gone).
WaitReturns ==
  \A j \in Jobs : (call[j] = "started" ~> call[j] \in {"returned", "gone"})

\* Every launched reconciler comes to its end, so that Close cannot hang on it.
ReconcileEnds == \A s \in Sessions : (life[s] = "open" ~> recon[s].pc = "done" \/ ~Up(s))

\* What Start, Wait, Cancel, waitJob and Close may rely on at any moment, whatever the others
\* are in the middle of: the types, the slots, the truth of a result and the end of a job.
JobsInv == TypeOK /\ SlotInv /\ WaitResultTruth /\ DoneIsFinal

\* No call and no reconciler hangs.
JobsEnd == WaitReturns /\ ReconcileEnds

(***************************************************************************)
(* What comments of the code say, and the code does not keep to.           *)
(***************************************************************************)

\* "Close kills all running jobs started in this session" (manager.go:102).
CloseKillsAll ==
  \A s \in Sessions : life[s] = "closed" => Alive(s) = {}
=============================================================================
