-------------------------- MODULE Processes_proofs --------------------------
(***************************************************************************)
(* Theorems about the processes that the program starts. ShellJobs, for    *)
(* any set of jobs, any number of sessions and any bound: the type         *)
(* invariant, the bound on live shell processes, where each job, waiter    *)
(* and reconciler is, that final records stay, and what a session recovers *)
(* of those before it. LspServers, for any calls, paths and servers: that  *)
(* the manager knows the servers it has started, and that a call is told   *)
(* the answer to its own question.                                         *)
(***************************************************************************)
EXTENDS ShellJobs, LspServers, FiniteSetTheorems, SequenceTheorems, WellFoundedInduction, TLAPS


\* Every step of the reconciler keeps the types.
LEMMA ReconcileType ==
  ASSUME TypeOK, NEW s \in Sessions, Reconcile(s)
  PROVE  TypeOK'
<1> USE DEF ReconAt, Recons, reconFrame, callVars, procVars
<1>1. CASE ReconcileList(s)
  <2>1. recon' \in [Sessions -> Recons]
    BY <1>1 DEF ReconcileList, TypeOK
  <2> QED
    BY <1>1, <2>1 DEF ReconcileList, TypeOK
<1>2. CASE ReconcileRead(s)
  <2>1. recon' \in [Sessions -> Recons]
    BY <1>2 DEF ReconcileRead, TypeOK
  <2> QED
    BY <1>2, <2>1 DEF ReconcileRead, TypeOK
<1>3. CASE ReconcileJudge(s)
  <2>1. recon[s] \in Recons /\ recon[s].job \in Jobs
    BY <1>3 DEF ReconcileJudge, TypeOK
  <2>2. recon' \in [Sessions -> Recons]
    BY <1>3, <2>1 DEF ReconcileJudge, TypeOK
  <2> QED
    BY <1>3, <2>1, <2>2 DEF ReconcileJudge, TypeOK, Kill
<1>4. CASE ReconcileWrite(s)
  <2>1. /\ recon[s] \in Recons /\ recon[s].job \in Jobs
        /\ recon[s].verdict \in {"killed", "failed"}
    BY <1>4 DEF ReconcileWrite, TypeOK
  <2>2. recon' \in [Sessions -> Recons]
    BY <1>4, <2>1 DEF ReconcileWrite, TypeOK
  <2>3. meta' \in [Jobs -> Status]
    BY <1>4, <2>1 DEF ReconcileWrite, TypeOK, Status, Terminal
  <2> QED
    BY <1>4, <2>2, <2>3 DEF ReconcileWrite, TypeOK
<1>5. CASE ReconcileDone(s)
  BY <1>5 DEF ReconcileDone, TypeOK
<1>6. ASSUME NEW j \in Jobs, ReconcileCheck(s, j)
      PROVE  TypeOK'
  <2>1. recon[s] \in Recons
    BY DEF TypeOK
  <2>2. recon' \in [Sessions -> Recons]
    BY <1>6, <2>1 DEF ReconcileCheck, TypeOK
  <2> QED
    BY <1>6, <2>2 DEF ReconcileCheck, TypeOK
<1> QED
  BY <1>1, <1>2, <1>3, <1>4, <1>5, <1>6 DEF Reconcile

\* So does the end of a session.
LEMMA GoneType ==
  ASSUME TypeOK, NEW s, SessionGone(s),
         UNCHANGED <<owner, result, meta, procVars, viaPid>>
  PROVE  TypeOK'
<1>1. life' \in [Sessions -> {"new", "open", "closing", "closed", "dead"}]
  BY DEF SessionGone, TypeOK
<1>2. recon' \in [Sessions -> Recons] /\ closing' \in [Sessions -> SUBSET Jobs]
  BY DEF SessionGone, TypeOK, Off, ReconAt, Recons
<1>3. /\ entry' \in [Jobs -> {"none", "placeholder", "running"} \cup Terminal]
      /\ call' \in [Jobs -> Calls]
      /\ waitJob' \in [Jobs -> {"off", "wait", "finish", "close", "ended"}]
  BY DEF SessionGone, TypeOK, Calls
<1>4. done' \in [Jobs -> BOOLEAN] /\ ctx' \in [Jobs -> BOOLEAN] /\ tracked' \in SUBSET Jobs
  BY DEF SessionGone, TypeOK
<1>5. cancel' \in [Callers -> Cancels]
  BY DEF SessionGone, TypeOK, Cancels
<1> QED
  BY <1>1, <1>2, <1>3, <1>4, <1>5 DEF TypeOK, procVars

\* Every step of a job's Start, waitJob and Wait keeps the types.
LEMMA JobType ==
  ASSUME TypeOK, NEW j \in Jobs,
         Start(j) \/ WaitJob(j) \/ CtxDone(j) \/ Wait(j)
  PROVE  TypeOK'
<1> USE DEF callVars, procVars, sessVars, startFrame, waitFrame, callFrame, Calls
<1>1. CASE StartFail(j) \/ StartWriteMetaFail(j)
  BY <1>1 DEF StartFail, StartWriteMetaFail, removeJob, Kill, TypeOK
<1>2. CASE StartSpawn(j) \/ StartWriteMeta(j) \/ StartTrack(j)
  BY <1>2 DEF StartSpawn, StartWriteMeta, StartTrack, TypeOK, Status
<1>3. CASE StartRegister(j)
  BY <1>3 DEF StartRegister, TypeOK
<1>4. CASE StartPanic(j)
  <2>1. PICK s : s = owner[j]
    OBVIOUS
  <2>2. SessionGone(s) /\ UNCHANGED <<owner, result, meta, procVars, viaPid>>
    BY <1>4, <2>1 DEF StartPanic
  <2> QED
    BY <2>2, GoneType
<1>5. CASE WaitJobReap(j) \/ WaitJobClose(j)
  <2>1. CASE WaitJobReap(j)
    BY <2>1 DEF WaitJobReap, TypeOK
  <2>2. CASE WaitJobClose(j)
    BY <2>2 DEF WaitJobClose, TypeOK
  <2> QED
    BY <1>5, <2>1, <2>2
<1>6. CASE WaitJobFinish(j)
  BY <1>6 DEF WaitJobFinish, finish, TypeOK, Status, Terminal
<1>7. CASE CtxDone(j)
  BY <1>7 DEF CtxDone, TypeOK
<1>8. CASE WaitEnter(j) \/ WaitDone(j) \/ WaitPoll(j)
  BY <1>8 DEF WaitEnter, WaitDone, WaitPoll, Return, TypeOK
<1>9. CASE WaitCtxDone(j)
  BY <1>9 DEF WaitCtxDone, TypeOK, Callers, Cancels, CancelAt
<1> QED
  BY <1>1, <1>2, <1>3, <1>4, <1>5, <1>6, <1>7, <1>8, <1>9 DEF Start, WaitJob, Wait

\* Every step of Cancel, of Close and of the operating system keeps the types.
LEMMA CancelType ==
  ASSUME TypeOK, NEW c \in Callers, Cancel(c)
  PROVE  TypeOK'
<1> USE DEF cancelFrame, procVars, sessVars, callVars
<1>1. cancel[c] \in Cancels /\ (cancel[c].pc # "idle" => cancel[c].job \in Jobs)
  BY DEF TypeOK, Cancels, Idle, CancelAt
<1>2. ASSUME CancelReturns(c)
      PROVE  /\ cancel' \in [Callers -> Cancels]
             /\ call' \in [Jobs -> Calls]
             /\ result' \in [Jobs -> Status \cup {"ctxErr"}]
  BY <1>2 DEF CancelReturns, Return, Cancels, TypeOK, Calls
<1>3. CASE CancelLock(c)
  <2>1. cancel' \in [Callers -> Cancels]
    BY <1>1, <1>3 DEF CancelLock, Cancels, CancelAt, TypeOK
  <2>2. entry' \in [Jobs -> {"none", "placeholder", "running"} \cup Terminal]
    BY <1>1, <1>3 DEF CancelLock, TypeOK, Terminal
  <2>3. signalled' \in SUBSET Jobs
    BY <1>1, <1>3 DEF CancelLock, TypeOK, Kill
  <2> QED
    BY <1>3, <2>1, <2>2, <2>3 DEF CancelLock, TypeOK
<1>4. CASE CancelRead(c)
  <2>1. CASE meta[cancel[c].job] = "running"
    <3>1. cancel' \in [Callers -> Cancels]
      BY <1>1, <1>4, <2>1 DEF CancelRead, Cancels, CancelAt, TypeOK
    <3> QED
      BY <1>1, <1>4, <2>1, <3>1 DEF CancelRead, TypeOK, Kill
  <2>2. CASE meta[cancel[c].job] # "running"
    BY <1>2, <1>4, <2>2 DEF CancelRead, TypeOK
  <2> QED
    BY <2>1, <2>2
<1>5. CASE CancelWrite(c)
  <2>1. meta' \in [Jobs -> Status]
    BY <1>1, <1>5 DEF CancelWrite, TypeOK, Status, Terminal
  <2> QED
    BY <1>2, <1>5, <2>1 DEF CancelWrite, TypeOK
<1> QED
  BY <1>3, <1>4, <1>5 DEF Cancel

LEMMA SessionType ==
  ASSUME TypeOK, NEW s \in Sessions,
         Open(s) \/ Close(s) \/ Die(s) \/ (\E j \in Jobs : StartReserve(s, j))
  PROVE  TypeOK'
<1> USE DEF closeFrame, startFrame, procVars, sessVars, callVars
<1>1. CASE Open(s)
  BY <1>1 DEF Open, TypeOK, ReconAt, Recons
<1>2. CASE CloseCollect(s)
  BY <1>2 DEF CloseCollect, RunningEntries, TypeOK
<1>3. ASSUME NEW j \in Jobs, CloseCancel(s, j)
      PROVE  TypeOK'
  BY <1>3 DEF CloseCancel, TypeOK, CancelAt, Cancels, Callers
<1>4. CASE CloseFinish(s)
  BY <1>4 DEF CloseFinish, TypeOK
<1>5. CASE Die(s)
  BY <1>5, GoneType DEF Die
<1>6. ASSUME NEW j \in Jobs, StartReserve(s, j)
      PROVE  TypeOK'
  BY <1>6 DEF StartReserve, TypeOK, Calls
<1> QED
  BY <1>1, <1>2, <1>3, <1>4, <1>5, <1>6 DEF Close

\* Every variable keeps to the values the code gives it, for any constants.
THEOREM Typing == Spec => []TypeOK
<1>1. Init => TypeOK
  BY ShellJobsAssumption
  DEF Init, TypeOK, Recons, Off, ReconAt, Cancels, Calls, Status, Callers
<1>2. TypeOK /\ [Next]_vars => TypeOK'
  <2> SUFFICES ASSUME TypeOK, [Next]_vars PROVE TypeOK'
    OBVIOUS
  <2>1. ASSUME NEW s \in Sessions, Reconcile(s) PROVE TypeOK'
    BY <2>1, ReconcileType
  <2>2. ASSUME NEW s \in Sessions, Open(s) \/ Close(s) \/ Die(s) PROVE TypeOK'
    BY <2>2, SessionType
  <2>3. ASSUME NEW s \in Sessions, NEW j \in Jobs, StartReserve(s, j) PROVE TypeOK'
    BY <2>3, SessionType
  <2>4. ASSUME NEW j \in Jobs, Start(j) \/ WaitJob(j) \/ CtxDone(j) \/ Wait(j) PROVE TypeOK'
    BY <2>4, JobType
  <2>5. ASSUME NEW c \in Callers, Cancel(c) PROVE TypeOK'
    BY <2>5, CancelType
  <2>6. ASSUME NEW j \in Jobs, ProcExit(j) \/ ProcDie(j) \/ InitReap(j) PROVE TypeOK'
    BY <2>6 DEF ProcExit, ProcDie, InitReap, procFrame, TypeOK, sessVars, callVars
  <2>7. CASE UNCHANGED vars
    BY <2>7 DEF vars, sessVars, callVars, procVars, TypeOK
  <2> QED
    BY <2>1, <2>2, <2>3, <2>4, <2>5, <2>6, <2>7 DEF Next
<1> QED
  BY <1>1, <1>2, PTL DEF Spec

-----------------------------------------------------------------------------
\* maxBg is a positive integer whatever the configuration says.
LEMMA MaxBgPositive == maxBg \in Int /\ maxBg > 0
  BY ShellJobsAssumption DEF maxBg

LEMMA EntriesFinite ==
  ASSUME NEW s
  PROVE  IsFiniteSet(RunningEntries(s)) /\ Cardinality(RunningEntries(s)) \in Nat
<1>1. RunningEntries(s) \in SUBSET Jobs
  BY DEF RunningEntries
<1> QED
  BY <1>1, FS_Subset, FS_CardinalityType, ShellJobsAssumption

\* The entries of a session only get fewer, and with them its live processes.
LEMMA SlotsShrink ==
  ASSUME NEW s \in Sessions, Slots(s),
         life'[s] \in {"open", "closing"} => life[s] \in {"open", "closing"},
         RunningEntries(s)' \subseteq RunningEntries(s),
         life'[s] \in {"open", "closing"} => Alive(s)' \subseteq RunningEntries(s)'
  PROVE  Slots(s)'
<1>1. Cardinality(RunningEntries(s)') <= Cardinality(RunningEntries(s))
  BY EntriesFinite, FS_Subset
<1>2. Cardinality(RunningEntries(s)') \in Nat /\ Cardinality(RunningEntries(s)) \in Nat
  BY <1>1, EntriesFinite, FS_Subset, FS_CardinalityType
<1> QED
  BY <1>1, <1>2, MaxBgPositive DEF Slots

\* Steps that leave the sessions and the entries alone: calls move on towards
\* their end, processes die, waitJob reaps what has exited.
Quiet ==
  /\ UNCHANGED <<life, owner, entry>>
  /\ signalled \subseteq signalled'
  /\ \A j \in Jobs :
       /\ proc[j] \in {"none", "reaped"} => proc'[j] = proc[j]
       /\ proc'[j] = "alive" => proc[j] = "alive"
       /\ call'[j] \in Launching => call[j] \in Launching
       /\ call'[j] = "reserved" => call[j] = "reserved"
       /\ waitJob[j] = "off" => waitJob'[j] = "off"
       /\ waitJob'[j] = "finish" => waitJob[j] = "finish" \/ proc'[j] = "reaped"

LEMMA QuietKeeps ==
  ASSUME SlotInv, Quiet
  PROVE  SlotInv'
<1>1. ASSUME NEW j \in Jobs PROVE SlotJob(j)'
  BY DEF SlotInv, SlotJob, Quiet
<1>2. ASSUME NEW s \in Sessions PROVE Slots(s)'
  <2>1. Alive(s)' \subseteq Alive(s) /\ RunningEntries(s)' = RunningEntries(s)
    BY DEF Alive, RunningEntries, Quiet
  <2> QED
    BY <2>1 DEF SlotInv, Slots, Quiet
<1> QED
  BY <1>1, <1>2 DEF SlotInv

LEMMA ReconcileQuiet ==
  ASSUME TypeOK, NEW s \in Sessions, Reconcile(s)
  PROVE  Quiet
  BY DEF TypeOK, Quiet, Reconcile, ReconcileList, ReconcileCheck, ReconcileRead,
         ReconcileJudge, ReconcileWrite, ReconcileDone, Kill, reconFrame, callVars, procVars

LEMMA CallQuiet ==
  ASSUME TypeOK, NEW j \in Jobs,
         \/ StartWriteMeta(j) \/ StartTrack(j) \/ CtxDone(j) \/ Wait(j)
         \/ WaitJobReap(j) \/ WaitJobClose(j)
  PROVE  Quiet
<1> USE DEF TypeOK, Quiet, Launching, startFrame, waitFrame, callFrame, sessVars, callVars, procVars
<1>1. CASE StartWriteMeta(j) \/ StartTrack(j) \/ CtxDone(j)
  BY <1>1 DEF StartWriteMeta, StartTrack, CtxDone
<1>2. CASE Wait(j)
  BY <1>2 DEF Wait, WaitEnter, WaitDone, WaitPoll, WaitCtxDone, Return
<1>3. CASE WaitJobReap(j) \/ WaitJobClose(j)
  BY <1>3 DEF WaitJobReap, WaitJobClose
<1> QED
  BY <1>1, <1>2, <1>3

LEMMA CancelQuiet ==
  ASSUME TypeOK, NEW c \in Callers, CancelRead(c) \/ CancelWrite(c)
  PROVE  Quiet
  BY DEF TypeOK, Quiet, Launching, CancelRead, CancelWrite, CancelReturns, Return, Kill,
         cancelFrame, sessVars

LEMMA ProcQuiet ==
  ASSUME TypeOK, NEW j \in Jobs, ProcExit(j) \/ ProcDie(j) \/ InitReap(j)
  PROVE  Quiet
  BY DEF TypeOK, Quiet, ProcExit, ProcDie, InitReap, procFrame, sessVars, callVars

\* Start takes a slot before it launches, and only when one is free.
LEMMA ReserveKeeps ==
  ASSUME TypeOK, SlotInv, NEW s \in Sessions, NEW j \in Jobs, StartReserve(s, j)
  PROVE  SlotInv'
<1> USE DEF startFrame, procVars, sessVars, Launching
<1>1. ASSUME NEW k \in Jobs PROVE SlotJob(k)'
  BY ShellJobsAssumption DEF SlotInv, SlotJob, StartReserve, TypeOK, Up
<1>2. ASSUME NEW t \in Sessions PROVE Slots(t)'
  <2>1. proc[j] = "none" /\ entry[j] = "none" /\ owner[j] = NoSession
    BY DEF SlotInv, SlotJob, StartReserve
  <2>2. Alive(t)' = Alive(t)
    BY <2>1, ShellJobsAssumption DEF StartReserve, Alive, TypeOK
  <2>3. CASE t = s /\ call'[j] = "reserved"
    <3>1. RunningEntries(s)' = RunningEntries(s) \cup {j}
      BY <2>1, <2>3, ShellJobsAssumption DEF StartReserve, RunningEntries, TypeOK
    <3>2. Cardinality(RunningEntries(s)) < maxBg
      BY <2>3, EntriesFinite, MaxBgPositive DEF StartReserve, TypeOK
    <3>3. Cardinality(RunningEntries(s)') <= Cardinality(RunningEntries(s)) + 1
      BY <3>1, EntriesFinite, FS_AddElement
    <3>4. Cardinality(RunningEntries(s)') <= maxBg
      <4>1. Cardinality(RunningEntries(s)) \in Nat
        BY EntriesFinite
      <4>2. Cardinality(RunningEntries(s)') \in Nat
        BY <3>1, EntriesFinite, FS_AddElement, FS_CardinalityType
      <4> QED
        BY <3>2, <3>3, <4>1, <4>2, MaxBgPositive
    <3> QED
      BY <2>2, <2>3, <3>1, <3>4 DEF SlotInv, Slots, StartReserve
  <2>4. CASE ~(t = s /\ call'[j] = "reserved")
    <3>1. RunningEntries(t)' = RunningEntries(t)
      BY <2>1, <2>4, ShellJobsAssumption DEF StartReserve, RunningEntries, TypeOK
    <3> QED
      BY <2>2, <3>1 DEF SlotInv, Slots, StartReserve
  <2> QED
    BY <2>3, <2>4
<1> QED
  BY <1>1, <1>2 DEF SlotInv

\* The other steps of Start: a slot is given up only for a process that was never
\* launched or has been killed.
LEMMA StartKeeps ==
  ASSUME TypeOK, SlotInv, NEW j \in Jobs,
         StartFail(j) \/ StartWriteMetaFail(j) \/ StartSpawn(j) \/ StartRegister(j)
  PROVE  SlotInv'
<1> USE DEF startFrame, procVars, sessVars, Launching, removeJob, Kill
<1>1. owner[j] \in Sessions /\ life[owner[j]] # "new" /\ (call[j] = "reserved" => proc[j] = "none")
  BY DEF SlotInv, SlotJob, TypeOK, StartFail, StartWriteMetaFail, StartSpawn, StartRegister
<1>2. ASSUME NEW k \in Jobs PROVE SlotJob(k)'
  BY <1>1 DEF SlotInv, SlotJob, TypeOK, StartFail, StartWriteMetaFail, StartSpawn, StartRegister
<1>3. ASSUME NEW s \in Sessions PROVE Slots(s)'
  <2>1. Slots(s) /\ (life'[s] \in {"open", "closing"} => life[s] \in {"open", "closing"})
    BY DEF SlotInv, StartFail, StartWriteMetaFail, StartSpawn, StartRegister
  <2>2. life[owner[j]] # "closed" => entry[j] = "placeholder"
    BY DEF SlotInv, SlotJob, StartFail, StartWriteMetaFail, StartSpawn, StartRegister
  <2>3. CASE StartFail(j)
    <3>1. RunningEntries(s)' \subseteq RunningEntries(s)
      BY <2>3 DEF StartFail, RunningEntries, TypeOK
    <3>2. life'[s] \in {"open", "closing"} => Alive(s)' \subseteq RunningEntries(s)'
      BY <1>1, <2>1, <2>3 DEF StartFail, RunningEntries, TypeOK, Alive, Slots
    <3> QED
      BY <2>1, <3>1, <3>2, SlotsShrink
  <2>4. CASE StartWriteMetaFail(j)
    <3>1. RunningEntries(s)' \subseteq RunningEntries(s)
      BY <2>4 DEF StartWriteMetaFail, RunningEntries, TypeOK
    <3>2. life'[s] \in {"open", "closing"} => Alive(s)' \subseteq RunningEntries(s)'
      BY <2>1, <2>4 DEF StartWriteMetaFail, RunningEntries, TypeOK, Alive, Slots
    <3> QED
      BY <2>1, <3>1, <3>2, SlotsShrink
  <2>5. CASE StartSpawn(j)
    <3>1. RunningEntries(s)' = RunningEntries(s)
      BY <2>5 DEF StartSpawn, RunningEntries
    <3>2. life'[s] \in {"open", "closing"} => Alive(s)' \subseteq RunningEntries(s)'
      BY <2>1, <2>2, <2>5 DEF StartSpawn, RunningEntries, TypeOK, Alive, Slots
    <3> QED
      BY <2>1, <3>1, <3>2, SlotsShrink
  <2>6. CASE StartRegister(j)
    <3>1. RunningEntries(s)' = RunningEntries(s)
      BY <2>2, <2>6 DEF StartRegister, RunningEntries, TypeOK
    <3>2. life'[s] \in {"open", "closing"} => Alive(s)' \subseteq RunningEntries(s)'
      BY <2>1, <2>6, <3>1 DEF StartRegister, Alive, Slots
    <3> QED
      BY <2>1, <3>1, <3>2, SlotsShrink
  <2> QED
    BY <2>3, <2>4, <2>5, <2>6
<1> QED
  BY <1>2, <1>3 DEF SlotInv

\* waitJob and Cancel end an entry whose process is reaped or has been killed.
LEMMA EndKeeps ==
  ASSUME TypeOK, SlotInv, NEW j \in Jobs, NEW c \in Callers,
         WaitJobFinish(j) \/ CancelLock(c)
  PROVE  SlotInv'
<1>1. CASE WaitJobFinish(j)
  <2> USE DEF waitFrame, sessVars, callVars, Launching, finish
  <2>1. proc[j] = "reaped" /\ owner[j] # NoSession
    BY <1>1 DEF SlotInv, SlotJob, WaitJobFinish
  <2>2. ASSUME NEW k \in Jobs PROVE SlotJob(k)'
    <3>1. SlotJob(k) /\ UNCHANGED <<owner, call, proc, life>>
      BY <1>1 DEF SlotInv, WaitJobFinish
    <3>2. k # j => UNCHANGED <<entry[k], waitJob[k]>>
      BY <1>1 DEF WaitJobFinish, TypeOK
    <3>3. waitJob[j] = "finish" /\ waitJob'[j] = "close"
      BY <1>1 DEF WaitJobFinish, TypeOK
    <3> QED
      BY <2>1, <3>1, <3>2, <3>3 DEF SlotJob
  <2>3. ASSUME NEW s \in Sessions PROVE Slots(s)'
    <3>1. Slots(s) /\ life' = life
      BY <1>1 DEF SlotInv, WaitJobFinish
    <3>2. RunningEntries(s)' \subseteq RunningEntries(s)
      BY <1>1 DEF WaitJobFinish, RunningEntries, TypeOK
    <3>3. life'[s] \in {"open", "closing"} => Alive(s)' \subseteq RunningEntries(s)'
      BY <1>1, <2>1, <3>1 DEF WaitJobFinish, RunningEntries, TypeOK, Alive, Slots
    <3> QED
      BY <3>1, <3>2, <3>3, SlotsShrink
  <2> QED
    BY <2>2, <2>3 DEF SlotInv
<1>2. CASE CancelLock(c)
  <2> USE DEF cancelFrame, sessVars, Launching, Kill
  <2>1. ASSUME NEW k \in Jobs PROVE SlotJob(k)'
    <3>1. SlotJob(k) /\ UNCHANGED <<owner, call, proc, waitJob, life>>
      BY <1>2 DEF SlotInv, CancelLock, procVars
    <3>2. entry'[k] = entry[k] \/ entry[k] = "running"
      BY <1>2 DEF CancelLock, TypeOK
    <3> QED
      BY <3>1, <3>2 DEF SlotJob
  <2>2. ASSUME NEW s \in Sessions PROVE Slots(s)'
    <3>1. Slots(s) /\ life' = life
      BY <1>2 DEF SlotInv, CancelLock
    <3>2. RunningEntries(s)' \subseteq RunningEntries(s)
      BY <1>2 DEF CancelLock, RunningEntries, TypeOK
    <3>3. life'[s] \in {"open", "closing"} => Alive(s)' \subseteq RunningEntries(s)'
      BY <1>2, <3>1 DEF CancelLock, RunningEntries, TypeOK, Alive, Slots
    <3> QED
      BY <3>1, <3>2, <3>3, SlotsShrink
  <2> QED
    BY <2>1, <2>2 DEF SlotInv
<1> QED
  BY <1>1, <1>2

LEMMA GoneKeeps ==
  ASSUME TypeOK, SlotInv, NEW s \in Sessions, SessionGone(s), UNCHANGED <<owner, procVars>>
  PROVE  SlotInv'
<1> USE DEF SessionGone, procVars, Launching, TypeOK
<1>1. ASSUME NEW k \in Jobs PROVE SlotJob(k)'
  BY DEF SlotInv, SlotJob
<1>2. ASSUME NEW t \in Sessions PROVE Slots(t)'
  <2>1. CASE t = s
    BY <2>1 DEF Slots
  <2>2. CASE t # s
    <3>1. RunningEntries(t)' = RunningEntries(t) /\ Alive(t)' = Alive(t)
      BY <2>2 DEF RunningEntries, Alive
    <3> QED
      BY <2>2, <3>1 DEF SlotInv, Slots
  <2> QED
    BY <2>1, <2>2
<1> QED
  BY <1>1, <1>2 DEF SlotInv

\* Opening and closing a session.
LEMMA SessionKeeps ==
  ASSUME TypeOK, SlotInv, NEW s \in Sessions, Open(s) \/ Close(s)
  PROVE  SlotInv'
<1> USE DEF closeFrame, procVars, callVars, Launching
<1>1. CASE Open(s)
  <2>1. ASSUME NEW k \in Jobs PROVE SlotJob(k)'
    BY <1>1 DEF SlotInv, SlotJob, Open, TypeOK
  <2>2. ASSUME NEW t \in Sessions PROVE Slots(t)'
    <3>1. CASE t = s
      <4>1. \A k \in Jobs : owner[k] # s
        BY <1>1 DEF SlotInv, SlotJob, Open
      <4>2. RunningEntries(s)' = {} /\ Alive(s)' = {}
        BY <1>1, <4>1 DEF Open, RunningEntries, Alive
      <4> QED
        BY <3>1, <4>2, FS_EmptySet, MaxBgPositive DEF Slots
    <3>2. CASE t # s
      <4>1. RunningEntries(t)' = RunningEntries(t) /\ Alive(t)' = Alive(t)
        BY <1>1 DEF Open, RunningEntries, Alive
      <4> QED
        BY <1>1, <3>2, <4>1 DEF SlotInv, Slots, Open, TypeOK
    <3> QED
      BY <3>1, <3>2
  <2> QED
    BY <2>1, <2>2 DEF SlotInv
<1>2. CASE CloseCollect(s)
  <2>1. ASSUME NEW k \in Jobs PROVE SlotJob(k)'
    BY <1>2 DEF SlotInv, SlotJob, CloseCollect, TypeOK
  <2>2. ASSUME NEW t \in Sessions PROVE Slots(t)'
    <3>1. RunningEntries(t)' = RunningEntries(t) /\ Alive(t)' = Alive(t)
      BY <1>2 DEF CloseCollect, RunningEntries, Alive
    <3> QED
      BY <1>2, <3>1 DEF SlotInv, Slots, CloseCollect, TypeOK
  <2> QED
    BY <2>1, <2>2 DEF SlotInv
<1>3. ASSUME NEW j \in Jobs, CloseCancel(s, j)
      PROVE  SlotInv'
  <2>1. Quiet
    BY <1>3 DEF CloseCancel, Quiet
  <2> QED
    BY <2>1, QuietKeeps
<1>4. CASE CloseFinish(s)
  <2>1. ASSUME NEW k \in Jobs PROVE SlotJob(k)'
    BY <1>4 DEF SlotInv, SlotJob, CloseFinish, TypeOK
  <2>2. ASSUME NEW t \in Sessions PROVE Slots(t)'
    <3>1. CASE t = s
      BY <1>4, <3>1 DEF CloseFinish, Slots, TypeOK
    <3>2. CASE t # s
      <4>1. RunningEntries(t)' = RunningEntries(t) /\ Alive(t)' = Alive(t)
        BY <1>4, <3>2 DEF CloseFinish, RunningEntries, Alive, TypeOK
      <4> QED
        BY <1>4, <3>2, <4>1 DEF SlotInv, Slots, CloseFinish, TypeOK
    <3> QED
      BY <3>1, <3>2
  <2> QED
    BY <2>1, <2>2 DEF SlotInv
<1> QED
  BY <1>1, <1>2, <1>3, <1>4 DEF Close

LEMMA SlotInvInductive == TypeOK /\ SlotInv /\ [Next]_vars => SlotInv'
<1> SUFFICES ASSUME TypeOK, SlotInv, [Next]_vars PROVE SlotInv'
  OBVIOUS
<1>1. ASSUME NEW s \in Sessions, Open(s) \/ Reconcile(s) \/ Close(s) \/ Die(s)
      PROVE  SlotInv'
  BY <1>1, SessionKeeps, ReconcileQuiet, QuietKeeps, GoneKeeps DEF Die
<1>2. ASSUME NEW s \in Sessions, NEW j \in Jobs, StartReserve(s, j)
      PROVE  SlotInv'
  BY <1>2, ReserveKeeps
<1>3. ASSUME NEW j \in Jobs, Start(j) \/ WaitJob(j) \/ CtxDone(j) \/ Wait(j)
      PROVE  SlotInv'
  <2>1. CASE StartPanic(j)
    <3>1. owner[j] \in Sessions
      BY <2>1 DEF StartPanic, SlotInv, SlotJob, Launching, TypeOK
    <3>2. PICK s \in Sessions : s = owner[j]
      BY <3>1
    <3>3. SessionGone(s) /\ UNCHANGED <<owner, procVars>>
      BY <2>1, <3>2 DEF StartPanic
    <3> QED
      BY <3>3, GoneKeeps
  <2>2. CASE WaitJobFinish(j)
    <3>1. j \in Callers
      BY DEF Callers
    <3> QED
      BY <2>2, <3>1, EndKeeps
  <2>3. CASE \/ StartWriteMeta(j) \/ StartTrack(j) \/ CtxDone(j) \/ Wait(j)
             \/ WaitJobReap(j) \/ WaitJobClose(j)
    BY <2>3, CallQuiet, QuietKeeps
  <2> QED
    BY <1>3, <2>1, <2>2, <2>3, StartKeeps DEF Start, WaitJob
<1>4. ASSUME NEW c \in Callers, Cancel(c)
      PROVE  SlotInv'
  <2>1. CASE CancelLock(c)
    <3>1. CASE Jobs = {}
      BY <2>1, <3>1 DEF CancelLock, cancelFrame, sessVars, SlotInv, Slots, TypeOK, Alive, RunningEntries
    <3>2. CASE Jobs # {}
      BY <2>1, <3>2, EndKeeps
    <3> QED
      BY <3>1, <3>2
  <2> QED
    BY <1>4, <2>1, CancelQuiet, QuietKeeps DEF Cancel
<1>5. ASSUME NEW j \in Jobs, ProcExit(j) \/ ProcDie(j) \/ InitReap(j)
      PROVE  SlotInv'
  BY <1>5, ProcQuiet, QuietKeeps
<1>6. CASE UNCHANGED vars
  <2>1. Quiet
    BY <1>6 DEF vars, sessVars, callVars, procVars, Quiet
  <2> QED
    BY <2>1, QuietKeeps
<1> QED
  BY <1>1, <1>2, <1>3, <1>4, <1>5, <1>6 DEF Next

\* A session never has more live shell processes than its bound, however many
\* jobs and sessions there are.
THEOREM ProcessesBounded == Spec => []BoundedProcesses
<1>1. Init => SlotInv
  <2> SUFFICES ASSUME Init PROVE SlotInv
    OBVIOUS
  <2>1. \A j \in Jobs : SlotJob(j)
    BY ShellJobsAssumption DEF Init, SlotJob, Launching
  <2> QED
    BY <2>1 DEF Init, SlotInv, Slots
<1>2. TypeOK /\ SlotInv => BoundedProcesses
  <2> SUFFICES ASSUME SlotInv, NEW s \in Sessions, Up(s), life[s] # "closed"
               PROVE  Cardinality(Alive(s)) <= maxBg
    BY DEF BoundedProcesses
  <2>1. Alive(s) \subseteq RunningEntries(s) /\ Cardinality(RunningEntries(s)) <= maxBg
    BY DEF SlotInv, Slots, Up
  <2>2. Cardinality(Alive(s)) <= Cardinality(RunningEntries(s)) /\ Cardinality(Alive(s)) \in Nat
    BY <2>1, EntriesFinite, FS_Subset, FS_CardinalityType
  <2> QED
    BY <2>1, <2>2, EntriesFinite, MaxBgPositive
<1> QED
  BY <1>1, <1>2, SlotInvInductive, Typing, PTL DEF Spec
-----------------------------------------------------------------------------
(***************************************************************************)
(* The truth of records, results and done channels.  Stages is inductive:  *)
(* it ties the entry of a job, its record on disk, its process, the call   *)
(* that waits for it and whoever is cancelling it to one another.          *)
(***************************************************************************)

\* The process of j is dead, or is dying.
Struck(j) == proc[j] # "alive" \/ j \in signalled

\* Before a job is registered, nobody else can reach it.
Unregistered == {"idle", "refused", "reserved", "spawned", "recorded"}

\* How far a job has come, seen from its owner, its call, its process and its waitJob.
Stage(j) ==
  /\ owner[j] = NoSession <=> call[j] = "idle"
  /\ owner[j] \in Sessions /\ ~Up(owner[j]) =>
       call[j] = "gone" /\ entry[j] = "none" /\ waitJob[j] = "off" /\ cancel[j].pc = "idle"
  /\ call[j] \in {"idle", "refused", "reserved", "spawned"} => meta[j] = "none"
  /\ call[j] \in {"idle", "refused", "reserved"} => proc[j] = "none"
  /\ call[j] = "spawned" => proc[j] # "none"
  /\ meta[j] # "none" => proc[j] # "none"
  /\ exit[j] = "none" <=> proc[j] \in {"none", "alive"}

\* What the entry and the waitJob goroutine tell of each other.
EntryStage(j) ==
  /\ entry[j] \in {"running"} \cup Terminal => call[j] \notin Unregistered
  /\ waitJob[j] # "off" => call[j] \notin Unregistered \cup {"failed"}
  /\ waitJob[j] \in {"wait", "finish"} => entry[j] \in {"running", "killed", "none"}
  /\ waitJob[j] \in {"close", "ended"} => proc[j] = "reaped" /\ entry[j] \in Terminal \cup {"none"}
  /\ waitJob[j] # "off" /\ entry[j] = "none" => life[owner[j]] = "closed"
  /\ done[j] => waitJob[j] = "ended"
  /\ entry[j] = "killed" => Struck(j)

\* What the record on disk tells of the job.
Record(j) ==
  /\ j \in viaPid => meta[j] # "none"
  /\ meta[j] \in Terminal => Struck(j)
  /\ meta[j] = "completed" => proc[j] = "reaped" /\ exit[j] = "ok"
  /\ meta[j] = "failed" => exit[j] \in {"error", "signal"} \/ j \in viaPid
  /\ meta[j] = "killed" =>
       j \in viaPid \/ life[owner[j]] # "open" \/ call[j] \in {"returned", "gone"}
  /\ entry[j] \in {"completed", "failed"} => meta[j] \in Terminal
  /\ (entry[j] = "running" \/ call[j] = "recorded") /\ j \notin viaPid => meta[j] = "running"

\* A Cancel acts on its own job, and when it is about to write the kill was sent.
CancelStage(c) ==
  cancel[c].pc # "idle" =>
    LET j == cancel[c].job IN
    /\ c \in Jobs => j = c /\ call[c] = "cancelling"
    /\ c \in Sessions => life[c] = "closing" /\ owner[j] = c
    /\ cancel[c].pc = "write" =>
         /\ Struck(j) /\ meta[j] # "none"
         /\ j \notin viaPid => /\ entry[j] \in {"killed", "none"}
                               /\ meta[j] \in {"running", "killed"}
                               /\ call[j] \notin Unregistered

\* A reconciler that has judged a job has killed it.
ReconStage(s) ==
  /\ recon[s].pc # "off" => Up(s)
  /\ recon[s].pc \in {"judge", "write"} => meta[recon[s].job] # "none"
  /\ recon[s].pc = "write" => recon[s].job \in viaPid /\ Struck(recon[s].job)
  /\ \A j \in closing[s] : owner[j] = s /\ life[s] = "closing"

\* A killed entry whose record is not final yet has a Cancel that will write it.
WriteComes(j) ==
  entry[j] = "killed" =>
    meta[j] \in Terminal \/ \E c \in Callers : cancel[c].pc = "write" /\ cancel[c].job = j

JobStages == \A j \in Jobs : Stage(j) /\ EntryStage(j) /\ Record(j) /\ WriteComes(j)
Stages == JobStages /\ (\A c \in Callers : CancelStage(c)) /\ (\A s \in Sessions : ReconStage(s))



\* A Cancel that is under way has a job.
LEMMA CancelShape ==
  ASSUME TypeOK, NEW c \in Callers
  PROVE  /\ cancel[c].pc \in {"idle", "lock", "read", "write"}
         /\ cancel[c].pc # "idle" => cancel[c].job \in Jobs
  BY DEF TypeOK, Cancels, CancelAt, Idle

\* What a reconciler holds at each point.
LEMMA ReconShape ==
  ASSUME TypeOK, NEW s \in Sessions
  PROVE  /\ recon[s].pc \in {"off", "list", "next", "done", "read", "judge", "write"}
         /\ recon[s].pc \in {"read", "judge", "write"} => recon[s].job \in Jobs
         /\ recon[s].todo \in SUBSET Jobs
         /\ recon[s].pc = "write" => recon[s].verdict \in {"killed", "failed"}
         /\ recon[s].pc # "write" => recon[s].verdict = "none"
  BY DEF TypeOK, Recons

\* Each step keeps every part of Stages: first those of the reconciler.
LEMMA ReconcileStages ==
  ASSUME TypeOK, SlotInv, Stages, NEW s \in Sessions,
         ReconcileList(s) \/ ReconcileRead(s) \/ ReconcileDone(s) \/ (\E j \in Jobs : ReconcileCheck(s, j))
  PROVE  Stages'
<1> USE CancelShape, ReconShape, ShellJobsAssumption
    DEF TypeOK, Stages, JobStages, SlotInv, SlotJob, ReconAt, CancelAt, Idle, Off, Kill,
        Unregistered, Launching, Terminal, Up, reconFrame, callVars, procVars, ReconcileList,
        ReconcileRead, ReconcileDone, ReconcileCheck
<1>1. ASSUME NEW k \in Jobs PROVE Stage(k)'
  BY DEF Stage, CancelStage, ReconStage, Callers
<1>2. ASSUME NEW k \in Jobs PROVE EntryStage(k)'
  BY DEF Stage, EntryStage, Struck, CancelStage
<1>3. ASSUME NEW k \in Jobs PROVE Record(k)'
  BY DEF Stage, EntryStage, Struck, Record, ReconStage, CancelStage, Callers
<1>4. ASSUME NEW k \in Jobs PROVE WriteComes(k)'
  <2>1. /\ entry'[k] = "killed" => entry[k] = "killed"
        /\ meta[k] \in Terminal => meta'[k] \in Terminal
    OBVIOUS
  <2>2. \A d \in Callers : cancel[d].pc = "write" => cancel'[d] = cancel[d]
    BY DEF Callers, CancelStage
  <2> QED
    BY <2>1, <2>2 DEF WriteComes
<1>5. ASSUME NEW x \in Callers PROVE CancelStage(x)'
  BY DEF Callers, CancelStage, ReconStage, Struck, Stage, EntryStage, Record
<1>6. ASSUME NEW x \in Sessions PROVE ReconStage(x)'
  BY SMTT(40) DEF ReconStage, Struck, Stage
<1> QED
  BY <1>1, <1>2, <1>3, <1>4, <1>5, <1>6

LEMMA ReconcileJudgeStages ==
  ASSUME TypeOK, SlotInv, Stages, NEW s \in Sessions,
         ReconcileJudge(s)
  PROVE  Stages'
<1> USE CancelShape, ReconShape, ShellJobsAssumption
    DEF TypeOK, Stages, JobStages, SlotInv, SlotJob, ReconAt, CancelAt, Idle, Off, Kill,
        Unregistered, Launching, Terminal, Up, reconFrame, callVars, ReconcileJudge
<1>1. ASSUME NEW k \in Jobs PROVE Stage(k)'
  BY DEF Stage, CancelStage, ReconStage, Callers
<1>2. ASSUME NEW k \in Jobs PROVE EntryStage(k)'
  BY DEF Stage, EntryStage, Struck, CancelStage
<1>3. ASSUME NEW k \in Jobs PROVE Record(k)'
  BY DEF Stage, EntryStage, Struck, Record, ReconStage, CancelStage, Callers
<1>4. ASSUME NEW k \in Jobs PROVE WriteComes(k)'
  BY DEF WriteComes, Stage, EntryStage, Record, Callers
<1>5. ASSUME NEW x \in Callers PROVE CancelStage(x)'
  BY DEF Callers, CancelStage, ReconStage, Struck, Stage, EntryStage, Record
<1>6. ASSUME NEW x \in Sessions PROVE ReconStage(x)'
  BY DEF ReconStage, Struck, Stage
<1> QED
  BY <1>1, <1>2, <1>3, <1>4, <1>5, <1>6

LEMMA ReconcileWriteStages ==
  ASSUME TypeOK, SlotInv, Stages, NEW s \in Sessions,
         ReconcileWrite(s)
  PROVE  Stages'
<1> USE CancelShape, ReconShape, ShellJobsAssumption
    DEF TypeOK, Stages, JobStages, SlotInv, SlotJob, ReconAt, CancelAt, Idle, Off, Kill,
        Unregistered, Launching, Terminal, Up, reconFrame, callVars, procVars, ReconcileWrite
<1>1. ASSUME NEW k \in Jobs PROVE Stage(k)'
  BY DEF Stage, CancelStage, ReconStage, Callers
<1>2. ASSUME NEW k \in Jobs PROVE EntryStage(k)'
  BY DEF Stage, EntryStage, Struck, CancelStage
<1>3. ASSUME NEW k \in Jobs PROVE Record(k)'
  BY DEF Stage, EntryStage, Struck, Record, ReconStage, CancelStage, Callers
<1>4. ASSUME NEW k \in Jobs PROVE WriteComes(k)'
  BY DEF WriteComes, Stage, EntryStage, Record, Callers
<1>5. ASSUME NEW x \in Callers PROVE CancelStage(x)'
  BY DEF Callers, CancelStage, ReconStage, Struck, Stage, EntryStage, Record
<1>6. ASSUME NEW x \in Sessions PROVE ReconStage(x)'
  BY DEF ReconStage, Struck, Stage
<1> QED
  BY <1>1, <1>2, <1>3, <1>4, <1>5, <1>6

\* The opening of a session.
LEMMA OpenStages ==
  ASSUME TypeOK, SlotInv, Stages, NEW s \in Sessions,
         Open(s)
  PROVE  Stages'
<1> USE CancelShape, ReconShape, ShellJobsAssumption
    DEF TypeOK, Stages, JobStages, SlotInv, SlotJob, ReconAt, CancelAt, Idle, Off, Kill,
        Unregistered, Launching, Terminal, Up, callVars, procVars, Open
<1>1. ASSUME NEW k \in Jobs PROVE Stage(k)'
  BY DEF Stage, CancelStage, ReconStage, Callers
<1>2. ASSUME NEW k \in Jobs PROVE EntryStage(k)'
  BY DEF Stage, EntryStage, Struck, CancelStage
<1>3. ASSUME NEW k \in Jobs PROVE Record(k)'
  BY DEF Stage, EntryStage, Struck, Record, ReconStage, CancelStage, Callers
<1>4. ASSUME NEW k \in Jobs PROVE WriteComes(k)'
  BY DEF WriteComes, Stage, EntryStage, Record, Callers
<1>5. ASSUME NEW x \in Callers PROVE CancelStage(x)'
  BY DEF Callers, CancelStage, ReconStage, Struck, Stage, EntryStage, Record
<1>6. ASSUME NEW x \in Sessions PROVE ReconStage(x)'
  BY DEF ReconStage, Struck, Stage
<1> QED
  BY <1>1, <1>2, <1>3, <1>4, <1>5, <1>6

\* Start, from the reservation of a slot to the tracked job.
LEMMA ReserveStages ==
  ASSUME TypeOK, SlotInv, Stages, NEW s \in Sessions, NEW j \in Jobs,
         StartReserve(s, j)
  PROVE  Stages'
<1> USE CancelShape, ReconShape, ShellJobsAssumption
    DEF TypeOK, Stages, JobStages, SlotInv, SlotJob, ReconAt, CancelAt, Idle, Off, Kill,
        Unregistered, Launching, Terminal, Up, startFrame, sessVars, procVars, StartReserve
<1>1. ASSUME NEW k \in Jobs PROVE Stage(k)'
  BY DEF Stage, CancelStage, ReconStage, Callers
<1>2. ASSUME NEW k \in Jobs PROVE EntryStage(k)'
  BY DEF Stage, EntryStage, Struck, CancelStage
<1>3. ASSUME NEW k \in Jobs PROVE Record(k)'
  BY DEF Stage, EntryStage, Struck, Record, ReconStage, CancelStage, Callers
<1>4. ASSUME NEW k \in Jobs PROVE WriteComes(k)'
  BY DEF WriteComes, Stage, EntryStage, Record, Callers
<1>5. ASSUME NEW x \in Callers PROVE CancelStage(x)'
  BY DEF Callers, CancelStage, ReconStage, Struck, Stage, EntryStage, Record
<1>6. ASSUME NEW x \in Sessions PROVE ReconStage(x)'
  BY DEF ReconStage, Struck, Stage
<1> QED
  BY <1>1, <1>2, <1>3, <1>4, <1>5, <1>6

LEMMA StartFailsStages ==
  ASSUME TypeOK, SlotInv, Stages, NEW j \in Jobs,
         StartFail(j) \/ StartWriteMetaFail(j)
  PROVE  Stages'
<1> USE CancelShape, ReconShape, ShellJobsAssumption
    DEF TypeOK, Stages, JobStages, SlotInv, SlotJob, ReconAt, CancelAt, Idle, Off, Kill,
        Unregistered, Launching, Terminal, Up, startFrame, sessVars, procVars, removeJob, StartFail,
        StartWriteMetaFail
<1>1. ASSUME NEW k \in Jobs PROVE Stage(k)'
  BY DEF Stage, CancelStage, ReconStage, Callers
<1>2. ASSUME NEW k \in Jobs PROVE EntryStage(k)'
  BY DEF Stage, EntryStage, Struck, CancelStage
<1>3. ASSUME NEW k \in Jobs PROVE Record(k)'
  BY DEF Stage, EntryStage, Struck, Record, ReconStage, CancelStage, Callers
<1>4. ASSUME NEW k \in Jobs PROVE WriteComes(k)'
  <2>1. /\ entry'[k] = "killed" => entry[k] = "killed"
        /\ meta[k] \in Terminal => meta'[k] \in Terminal
    OBVIOUS
  <2>2. \A d \in Callers : cancel[d].pc = "write" => cancel'[d] = cancel[d]
    BY DEF Callers, CancelStage
  <2> QED
    BY <2>1, <2>2 DEF WriteComes
<1>5. ASSUME NEW x \in Callers PROVE CancelStage(x)'
  BY DEF Callers, CancelStage, Struck
<1>6. ASSUME NEW x \in Sessions PROVE ReconStage(x)'
  BY DEF ReconStage, Struck, Stage
<1> QED
  BY <1>1, <1>2, <1>3, <1>4, <1>5, <1>6

LEMMA StartSpawnStages ==
  ASSUME TypeOK, SlotInv, Stages, NEW j \in Jobs,
         StartSpawn(j)
  PROVE  Stages'
<1> USE CancelShape, ReconShape, ShellJobsAssumption
    DEF TypeOK, Stages, JobStages, SlotInv, SlotJob, ReconAt, CancelAt, Idle, Off, Kill,
        Unregistered, Launching, Terminal, Up, startFrame, sessVars, StartSpawn
<1>1. ASSUME NEW k \in Jobs PROVE Stage(k)'
  BY DEF Stage, CancelStage, ReconStage, Callers
<1>2. ASSUME NEW k \in Jobs PROVE EntryStage(k)'
  BY DEF Stage, EntryStage, Struck, CancelStage
<1>3. ASSUME NEW k \in Jobs PROVE Record(k)'
  BY DEF Stage, EntryStage, Struck, Record, ReconStage, CancelStage, Callers
<1>4. ASSUME NEW k \in Jobs PROVE WriteComes(k)'
  BY DEF WriteComes, Stage, EntryStage, Record, Callers
<1>5. ASSUME NEW x \in Callers PROVE CancelStage(x)'
  BY DEF Callers, CancelStage, ReconStage, Struck, Stage, EntryStage, Record
<1>6. ASSUME NEW x \in Sessions PROVE ReconStage(x)'
  BY DEF ReconStage, Struck, Stage
<1> QED
  BY <1>1, <1>2, <1>3, <1>4, <1>5, <1>6

LEMMA StartWriteMetaStages ==
  ASSUME TypeOK, SlotInv, Stages, NEW j \in Jobs,
         StartWriteMeta(j)
  PROVE  Stages'
<1> USE CancelShape, ReconShape, ShellJobsAssumption
    DEF TypeOK, Stages, JobStages, SlotInv, SlotJob, ReconAt, CancelAt, Idle, Off, Kill,
        Unregistered, Launching, Terminal, Up, startFrame, sessVars, procVars, StartWriteMeta
<1>1. ASSUME NEW k \in Jobs PROVE Stage(k)'
  BY DEF Stage, CancelStage, ReconStage, Callers
<1>2. ASSUME NEW k \in Jobs PROVE EntryStage(k)'
  BY DEF Stage, EntryStage, Struck, CancelStage
<1>3. ASSUME NEW k \in Jobs PROVE Record(k)'
  BY DEF Stage, EntryStage, Struck, Record, ReconStage, CancelStage, Callers
<1>4. ASSUME NEW k \in Jobs PROVE WriteComes(k)'
  BY DEF WriteComes, Stage, EntryStage, Record, Callers
<1>5. ASSUME NEW x \in Callers PROVE CancelStage(x)'
  BY DEF Callers, CancelStage, ReconStage, Struck, Stage, EntryStage, Record
<1>6. ASSUME NEW x \in Sessions PROVE ReconStage(x)'
  BY DEF ReconStage, Struck, Stage
<1> QED
  BY <1>1, <1>2, <1>3, <1>4, <1>5, <1>6

LEMMA StartEndsStages ==
  ASSUME TypeOK, SlotInv, Stages, NEW j \in Jobs,
         StartRegister(j) \/ StartTrack(j)
  PROVE  Stages'
<1> USE CancelShape, ReconShape, ShellJobsAssumption
    DEF TypeOK, Stages, JobStages, SlotInv, SlotJob, ReconAt, CancelAt, Idle, Off, Kill,
        Unregistered, Launching, Terminal, Up, startFrame, sessVars, procVars, StartRegister,
        StartTrack
<1>1. ASSUME NEW k \in Jobs PROVE Stage(k)'
  BY DEF Stage, CancelStage, ReconStage, Callers
<1>2. ASSUME NEW k \in Jobs PROVE EntryStage(k)'
  BY DEF Stage, EntryStage, Struck, CancelStage
<1>3. ASSUME NEW k \in Jobs PROVE Record(k)'
  BY DEF Stage, EntryStage, Struck, Record, ReconStage, CancelStage, Callers
<1>4. ASSUME NEW k \in Jobs PROVE WriteComes(k)'
  BY DEF WriteComes, Stage, EntryStage, Record, Callers
<1>5. ASSUME NEW x \in Callers PROVE CancelStage(x)'
  BY DEF Callers, CancelStage, ReconStage, Struck, Stage, EntryStage, Record
<1>6. ASSUME NEW x \in Sessions PROVE ReconStage(x)'
  BY DEF ReconStage, Struck, Stage
<1> QED
  BY <1>1, <1>2, <1>3, <1>4, <1>5, <1>6

\* The waitJob goroutine.
LEMMA WaitJobEndsStages ==
  ASSUME TypeOK, SlotInv, Stages, NEW j \in Jobs,
         WaitJobReap(j) \/ WaitJobClose(j)
  PROVE  Stages'
<1> USE CancelShape, ReconShape, ShellJobsAssumption
    DEF TypeOK, Stages, JobStages, SlotInv, SlotJob, ReconAt, CancelAt, Idle, Off, Kill,
        Unregistered, Launching, Terminal, Up, waitFrame, sessVars, callVars, WaitJobReap,
        WaitJobClose
<1>1. ASSUME NEW k \in Jobs PROVE Stage(k)'
  BY DEF Stage, CancelStage, ReconStage, Callers
<1>2. ASSUME NEW k \in Jobs PROVE EntryStage(k)'
  BY DEF Stage, EntryStage, Struck, CancelStage
<1>3. ASSUME NEW k \in Jobs PROVE Record(k)'
  BY DEF Stage, EntryStage, Struck, Record, ReconStage, CancelStage, Callers
<1>4. ASSUME NEW k \in Jobs PROVE WriteComes(k)'
  BY DEF WriteComes, Stage, EntryStage, Record, Callers
<1>5. ASSUME NEW x \in Callers PROVE CancelStage(x)'
  BY DEF Callers, CancelStage, ReconStage, Struck, Stage, EntryStage, Record
<1>6. ASSUME NEW x \in Sessions PROVE ReconStage(x)'
  BY DEF ReconStage, Struck, Stage
<1> QED
  BY <1>1, <1>2, <1>3, <1>4, <1>5, <1>6

LEMMA WaitJobFinishStages ==
  ASSUME TypeOK, SlotInv, Stages, NEW j \in Jobs,
         WaitJobFinish(j)
  PROVE  Stages'
<1> USE CancelShape, ReconShape, ShellJobsAssumption
    DEF TypeOK, Stages, JobStages, SlotInv, SlotJob, ReconAt, CancelAt, Idle, Off, Kill,
        Unregistered, Launching, Terminal, Up, waitFrame, finish, sessVars, callVars, WaitJobFinish
<1>1. ASSUME NEW k \in Jobs PROVE Stage(k)'
  BY DEF Stage, CancelStage, ReconStage, Callers
<1>2. ASSUME NEW k \in Jobs PROVE EntryStage(k)'
  BY DEF Stage, EntryStage, Struck, CancelStage
<1>3. ASSUME NEW k \in Jobs PROVE Record(k)'
  BY DEF Stage, EntryStage, Struck, Record, ReconStage, CancelStage, Callers
<1>4. ASSUME NEW k \in Jobs PROVE WriteComes(k)'
  <2>1. /\ entry'[k] = "killed" => entry[k] = "killed"
        /\ meta[k] \in Terminal => meta'[k] \in Terminal
    OBVIOUS
  <2>2. \A d \in Callers : cancel[d].pc = "write" => cancel'[d] = cancel[d]
    BY DEF Callers, CancelStage
  <2> QED
    BY <2>1, <2>2 DEF WriteComes
<1>5. ASSUME NEW x \in Callers PROVE CancelStage(x)'
  BY DEF Callers, CancelStage, ReconStage, Struck, Stage, EntryStage, Record
<1>6. ASSUME NEW x \in Sessions PROVE ReconStage(x)'
  BY DEF ReconStage, Struck, Stage
<1> QED
  BY <1>1, <1>2, <1>3, <1>4, <1>5, <1>6

\* Wait, up to the end of its context.
LEMMA WaitStages ==
  ASSUME TypeOK, SlotInv, Stages, NEW j \in Jobs,
         CtxDone(j) \/ WaitEnter(j) \/ WaitDone(j) \/ WaitPoll(j)
  PROVE  Stages'
<1> USE CancelShape, ReconShape, ShellJobsAssumption
    DEF TypeOK, Stages, JobStages, SlotInv, SlotJob, ReconAt, CancelAt, Idle, Off, Kill,
        Unregistered, Launching, Terminal, Up, callFrame, sessVars, procVars, CtxDone, Return,
        WaitEnter, WaitDone, WaitPoll
<1>1. ASSUME NEW k \in Jobs PROVE Stage(k)'
  BY DEF Stage, CancelStage, ReconStage, Callers
<1>2. ASSUME NEW k \in Jobs PROVE EntryStage(k)'
  BY DEF Stage, EntryStage, Struck, CancelStage
<1>3. ASSUME NEW k \in Jobs PROVE Record(k)'
  BY DEF Stage, EntryStage, Struck, Record, ReconStage, CancelStage, Callers
<1>4. ASSUME NEW k \in Jobs PROVE WriteComes(k)'
  <2>1. /\ entry'[k] = "killed" => entry[k] = "killed"
        /\ meta[k] \in Terminal => meta'[k] \in Terminal
    OBVIOUS
  <2>2. \A d \in Callers : cancel[d].pc = "write" => cancel'[d] = cancel[d]
    BY DEF Callers, CancelStage
  <2> QED
    BY <2>1, <2>2 DEF WriteComes
<1>5. ASSUME NEW x \in Callers PROVE CancelStage(x)'
  BY DEF Callers, CancelStage, ReconStage, Struck, Stage, EntryStage, Record
<1>6. ASSUME NEW x \in Sessions PROVE ReconStage(x)'
  BY DEF ReconStage, Struck, Stage
<1> QED
  BY <1>1, <1>2, <1>3, <1>4, <1>5, <1>6

LEMMA WaitCtxDoneStages ==
  ASSUME TypeOK, SlotInv, Stages, NEW j \in Jobs,
         WaitCtxDone(j)
  PROVE  Stages'
<1> USE CancelShape, ReconShape, ShellJobsAssumption
    DEF TypeOK, Stages, JobStages, SlotInv, SlotJob, ReconAt, CancelAt, Idle, Off, Kill,
        Unregistered, Launching, Terminal, Up, callFrame, sessVars, procVars, WaitCtxDone
<1>1. ASSUME NEW k \in Jobs PROVE Stage(k)'
  BY DEF Stage, CancelStage, ReconStage, Callers
<1>2. ASSUME NEW k \in Jobs PROVE EntryStage(k)'
  BY DEF Stage, EntryStage, Struck, CancelStage
<1>3. ASSUME NEW k \in Jobs PROVE Record(k)'
  BY DEF Stage, EntryStage, Struck, Record, ReconStage, CancelStage, Callers
<1>4. ASSUME NEW k \in Jobs PROVE WriteComes(k)'
  <2>1. /\ entry'[k] = "killed" => entry[k] = "killed"
        /\ meta[k] \in Terminal => meta'[k] \in Terminal
    OBVIOUS
  <2>2. \A d \in Callers : cancel[d].pc = "write" => cancel'[d] = cancel[d]
    BY DEF Callers, CancelStage
  <2> QED
    BY <2>1, <2>2 DEF WriteComes
<1>5. ASSUME NEW x \in Callers PROVE CancelStage(x)'
  BY DEF Callers, CancelStage, ReconStage, Struck, Stage, EntryStage, Record
<1>6. ASSUME NEW x \in Sessions PROVE ReconStage(x)'
  BY DEF ReconStage, Struck, Stage
<1> QED
  BY <1>1, <1>2, <1>3, <1>4, <1>5, <1>6

\* Cancel: the kill comes before the record.
LEMMA CancelWriteStages ==
  ASSUME TypeOK, SlotInv, Stages, NEW c \in Callers,
         CancelWrite(c)
  PROVE  Stages'
<1> USE CancelShape, ReconShape, ShellJobsAssumption
    DEF TypeOK, Stages, JobStages, SlotInv, SlotJob, ReconAt, CancelAt, Idle, Off, Kill,
        Unregistered, Launching, Terminal, Up, cancelFrame, CancelReturns, Return, sessVars,
        CancelWrite
<1>1. ASSUME NEW k \in Jobs PROVE Stage(k)'
  BY DEF Stage, CancelStage, ReconStage, Callers
<1>2. ASSUME NEW k \in Jobs PROVE EntryStage(k)'
  BY DEF Stage, EntryStage, Struck, CancelStage
<1>3. ASSUME NEW k \in Jobs PROVE Record(k)'
  BY DEF Stage, EntryStage, Struck, Record, ReconStage, CancelStage, Callers
<1>4. ASSUME NEW k \in Jobs PROVE WriteComes(k)'
  BY DEF WriteComes, Stage, EntryStage, Record, Callers
<1>5. ASSUME NEW x \in Callers PROVE CancelStage(x)'
  BY DEF Callers, CancelStage, ReconStage, Struck, Stage, EntryStage, Record
<1>6. ASSUME NEW x \in Sessions PROVE ReconStage(x)'
  BY DEF ReconStage, Struck, Stage
<1> QED
  BY <1>1, <1>2, <1>3, <1>4, <1>5, <1>6

\* Close.
LEMMA CloseCollectStages ==
  ASSUME TypeOK, SlotInv, Stages, NEW s \in Sessions,
         CloseCollect(s)
  PROVE  Stages'
<1> USE CancelShape, ReconShape, ShellJobsAssumption
    DEF TypeOK, Stages, JobStages, SlotInv, SlotJob, ReconAt, CancelAt, Idle, Off, Kill,
        Unregistered, Launching, Terminal, Up, closeFrame, callVars, procVars, RunningEntries,
        CloseCollect
<1>1. ASSUME NEW k \in Jobs PROVE Stage(k)'
  BY DEF Stage, CancelStage, ReconStage, Callers
<1>2. ASSUME NEW k \in Jobs PROVE EntryStage(k)'
  BY DEF Stage, EntryStage, Struck, CancelStage
<1>3. ASSUME NEW k \in Jobs PROVE Record(k)'
  BY DEF Stage, EntryStage, Struck, Record, ReconStage, CancelStage, Callers
<1>4. ASSUME NEW k \in Jobs PROVE WriteComes(k)'
  BY DEF WriteComes, Stage, EntryStage, Record, Callers
<1>5. ASSUME NEW x \in Callers PROVE CancelStage(x)'
  BY DEF Callers, CancelStage, ReconStage, Struck, Stage, EntryStage, Record
<1>6. ASSUME NEW x \in Sessions PROVE ReconStage(x)'
  BY DEF ReconStage, Struck, Stage
<1> QED
  BY <1>1, <1>2, <1>3, <1>4, <1>5, <1>6

LEMMA CloseCancelStages ==
  ASSUME TypeOK, SlotInv, Stages, NEW s \in Sessions, NEW j \in Jobs,
         CloseCancel(s, j)
  PROVE  Stages'
<1> USE CancelShape, ReconShape, ShellJobsAssumption
    DEF TypeOK, Stages, JobStages, SlotInv, SlotJob, ReconAt, CancelAt, Idle, Off, Kill,
        Unregistered, Launching, Terminal, Up, closeFrame, callVars, procVars, CloseCancel
<1>1. ASSUME NEW k \in Jobs PROVE Stage(k)'
  BY DEF Stage, CancelStage, ReconStage, Callers
<1>2. ASSUME NEW k \in Jobs PROVE EntryStage(k)'
  BY DEF Stage, EntryStage, Struck, CancelStage
<1>3. ASSUME NEW k \in Jobs PROVE Record(k)'
  BY DEF Stage, EntryStage, Struck, Record, ReconStage, CancelStage, Callers
<1>4. ASSUME NEW k \in Jobs PROVE WriteComes(k)'
  <2>1. /\ entry'[k] = "killed" => entry[k] = "killed"
        /\ meta[k] \in Terminal => meta'[k] \in Terminal
    OBVIOUS
  <2>2. \A d \in Callers : cancel[d].pc = "write" => cancel'[d] = cancel[d]
    BY DEF Callers, CancelStage
  <2> QED
    BY <2>1, <2>2 DEF WriteComes
<1>5. ASSUME NEW x \in Callers PROVE CancelStage(x)'
  BY DEF Callers, CancelStage, ReconStage, Struck, Stage, EntryStage, Record
<1>6. ASSUME NEW x \in Sessions PROVE ReconStage(x)'
  BY DEF ReconStage, Struck, Stage
<1> QED
  BY <1>1, <1>2, <1>3, <1>4, <1>5, <1>6

LEMMA CloseFinishStages ==
  ASSUME TypeOK, SlotInv, Stages, NEW s \in Sessions,
         CloseFinish(s)
  PROVE  Stages'
<1> USE CancelShape, ReconShape, ShellJobsAssumption
    DEF TypeOK, Stages, JobStages, SlotInv, SlotJob, ReconAt, CancelAt, Idle, Off, Kill,
        Unregistered, Launching, Terminal, Up, closeFrame, callVars, procVars, CloseFinish
<1>1. ASSUME NEW k \in Jobs PROVE Stage(k)'
  BY DEF Stage, CancelStage, ReconStage, Callers
<1>2. ASSUME NEW k \in Jobs PROVE EntryStage(k)'
  BY DEF Stage, EntryStage, Struck, CancelStage
<1>3. ASSUME NEW k \in Jobs PROVE Record(k)'
  BY DEF Stage, EntryStage, Struck, Record, ReconStage, CancelStage, Callers
<1>4. ASSUME NEW k \in Jobs PROVE WriteComes(k)'
  <2>1. /\ entry'[k] = "killed" => entry[k] = "killed"
        /\ meta[k] \in Terminal => meta'[k] \in Terminal
    OBVIOUS
  <2>2. \A d \in Callers : cancel[d].pc = "write" => cancel'[d] = cancel[d]
    BY DEF Callers, CancelStage
  <2> QED
    BY <2>1, <2>2 DEF WriteComes
<1>5. ASSUME NEW x \in Callers PROVE CancelStage(x)'
  BY DEF Callers, CancelStage, ReconStage, Struck, Stage, EntryStage, Record
<1>6. ASSUME NEW x \in Sessions PROVE ReconStage(x)'
  BY DEF ReconStage, Struck, Stage
<1> QED
  BY <1>1, <1>2, <1>3, <1>4, <1>5, <1>6

\* The operating system.
LEMMA ProcStages ==
  ASSUME TypeOK, SlotInv, Stages, NEW j \in Jobs,
         ProcExit(j) \/ ProcDie(j) \/ InitReap(j)
  PROVE  Stages'
<1> USE CancelShape, ReconShape, ShellJobsAssumption
    DEF TypeOK, Stages, JobStages, SlotInv, SlotJob, ReconAt, CancelAt, Idle, Off, Kill,
        Unregistered, Launching, Terminal, Up, procFrame, sessVars, callVars, ProcExit, ProcDie,
        InitReap
<1>1. ASSUME NEW k \in Jobs PROVE Stage(k)'
  BY DEF Stage, CancelStage, ReconStage, Callers
<1>2. ASSUME NEW k \in Jobs PROVE EntryStage(k)'
  BY DEF Stage, EntryStage, Struck, CancelStage
<1>3. ASSUME NEW k \in Jobs PROVE Record(k)'
  BY DEF Stage, EntryStage, Struck, Record, ReconStage, CancelStage, Callers
<1>4. ASSUME NEW k \in Jobs PROVE WriteComes(k)'
  BY SMTT(40) DEF WriteComes, Stage, EntryStage, Record, Callers
<1>5. ASSUME NEW x \in Callers PROVE CancelStage(x)'
  BY DEF Callers, CancelStage, ReconStage, Struck, Stage, EntryStage, Record
<1>6. ASSUME NEW x \in Sessions PROVE ReconStage(x)'
  BY DEF ReconStage, Struck, Stage
<1> QED
  BY <1>1, <1>2, <1>3, <1>4, <1>5, <1>6

\* Cancel under the mutex: the kill is sent, and the record comes after.
LEMMA CancelLockStages ==
  ASSUME TypeOK, SlotInv, Stages, NEW c \in Callers, CancelLock(c)
  PROVE  Stages'
<1> DEFINE j == cancel[c].job
<1> USE CancelShape, ReconShape, ShellJobsAssumption
    DEF TypeOK, Stages, JobStages, SlotInv, SlotJob, ReconAt, CancelAt, Idle, Off, Kill,
        Unregistered,
        Launching, Terminal, Up, cancelFrame, sessVars
<1>1. /\ j \in Jobs /\ cancel[c].pc = "lock"
      /\ c \in Jobs => c = j /\ call[j] = "cancelling"
      /\ c \in Sessions => life[c] = "closing" /\ owner[j] = c
  BY DEF CancelLock, CancelStage
<1>2. /\ entry' = [entry EXCEPT ![j] = IF @ = "running" THEN "killed" ELSE @]
      /\ cancel' = [cancel EXCEPT ![c] = CancelAt(IF entry[j] = "running" THEN "write" ELSE "read", j)]
      /\ signalled \subseteq signalled'
      /\ entry[j] = "running" /\ proc[j] = "alive" => j \in signalled'
      /\ UNCHANGED <<life, recon, closing, owner, call, ctx, waitJob, done, tracked, proc, exit, result, meta, viaPid>>
  BY <1>1 DEF CancelLock
<1> HIDE DEF j
<1>3. ASSUME NEW k \in Jobs PROVE Stage(k)'
  <2>1. k \in Callers
    BY DEF Callers
  <2>2. cancel'[k].pc = "idle" <=> cancel[k].pc = "idle"
    BY <1>1, <1>2, <2>1
  <2>3. entry[k] = "none" => entry'[k] = "none"
    BY <1>1, <1>2
  <2> QED
    BY <1>2, <2>2, <2>3 DEF Stage
<1>4. ASSUME NEW k \in Jobs PROVE EntryStage(k)'
  BY <1>1, <1>2 DEF Stage, EntryStage, Struck
<1>5. ASSUME NEW k \in Jobs PROVE Record(k)'
  BY <1>1, <1>2 DEF Stage, EntryStage, Struck, Record
<1>6. ASSUME NEW k \in Jobs PROVE WriteComes(k)'
  <2>1. CASE k = j /\ entry[j] = "running"
    <3>1. cancel'[c].pc = "write" /\ cancel'[c].job = k
      BY <1>2, <2>1
    <3> QED
      BY <3>1 DEF WriteComes
  <2>2. CASE ~(k = j /\ entry[j] = "running")
    <3>1. entry'[k] = entry[k]
      BY <1>1, <1>2, <2>2
    <3>2. \A d \in Callers : cancel[d].pc = "write" => cancel'[d] = cancel[d]
      BY <1>1, <1>2
    <3> QED
      BY <1>2, <3>1, <3>2 DEF WriteComes
  <2> QED
    BY <2>1, <2>2
<1>7. ASSUME NEW x \in Callers PROVE CancelStage(x)'
  <2>1. CASE x = c
    BY <1>1, <1>2, <2>1 DEF Callers, CancelStage, Struck, EntryStage, Record
  <2>2. CASE x # c
    <3>1. cancel'[x] = cancel[x] /\ CancelStage(x)
      BY <1>2, <2>2
    <3> QED
      BY <1>1, <1>2, <3>1 DEF CancelStage, Struck
  <2> QED
    BY <2>1, <2>2
<1>8. ASSUME NEW x \in Sessions PROVE ReconStage(x)'
  BY <1>2 DEF ReconStage, Struck
<1> QED
  BY <1>3, <1>4, <1>5, <1>6, <1>7, <1>8

\* Cancel through the record.
LEMMA CancelReadStages ==
  ASSUME TypeOK, SlotInv, Stages, NEW c \in Callers, CancelRead(c)
  PROVE  Stages'
<1> USE CancelShape, ReconShape, ShellJobsAssumption
    DEF TypeOK, Stages, JobStages, SlotInv, SlotJob, ReconAt, CancelAt, Idle, Off, Kill,
        Unregistered,
        Launching, Terminal, Up, cancelFrame, CancelReturns, Return, sessVars, CancelRead
<1>1. ASSUME NEW k \in Jobs PROVE Stage(k)'
  BY SMTT(40) DEF Stage, CancelStage, ReconStage, Callers
<1>2. ASSUME NEW k \in Jobs PROVE EntryStage(k)'
  BY DEF Stage, EntryStage, Struck, CancelStage
<1>3. ASSUME NEW k \in Jobs PROVE Record(k)'
  BY DEF Stage, EntryStage, Struck, Record, ReconStage, CancelStage, Callers
<1>4. ASSUME NEW k \in Jobs PROVE WriteComes(k)'
  <2>1. /\ entry'[k] = "killed" => entry[k] = "killed"
        /\ meta[k] \in Terminal => meta'[k] \in Terminal
    OBVIOUS
  <2>2. \A d \in Callers : cancel[d].pc = "write" => cancel'[d] = cancel[d]
    OBVIOUS
  <2> QED
    BY <2>1, <2>2 DEF WriteComes
<1>5. ASSUME NEW x \in Callers PROVE CancelStage(x)'
  <2>1. CASE x = c
    BY <2>1 DEF Callers, CancelStage, Struck, EntryStage, Record
  <2>2. CASE x # c
    <3>1. cancel'[x] = cancel[x] /\ CancelStage(x)
      BY <2>2
    <3>2. cancel[x].pc # "idle" /\ x \in Jobs => call'[x] = call[x] /\ cancel[x].job = x
      BY <2>2, <3>1 DEF CancelStage
    <3>3. ASSUME cancel[x].pc = "write", cancel[x].job \notin viaPid
          PROVE  call'[cancel[x].job] \notin Unregistered
      BY <2>2, <3>1, <3>3 DEF CancelStage
    <3> QED
      BY <2>2, <3>1, <3>2, <3>3 DEF CancelStage, Struck
  <2> QED
    BY <2>1, <2>2
<1>6. ASSUME NEW x \in Sessions PROVE ReconStage(x)'
  BY DEF ReconStage, Struck, Stage
<1> QED
  BY <1>1, <1>2, <1>3, <1>4, <1>5, <1>6

\* The end of a session takes what lives in its memory, and nothing of the disk.
LEMMA GoneStages ==
  ASSUME TypeOK, SlotInv, Stages, NEW s \in Sessions, Up(s), SessionGone(s),
         UNCHANGED <<owner, result, meta, procVars, viaPid>>
  PROVE  Stages'
<1> USE CancelShape, ReconShape, ShellJobsAssumption
    DEF TypeOK, Stages, JobStages, ReconAt, CancelAt, Idle, Off, Unregistered, Terminal, Up,
        procVars, SessionGone
<1>1. ASSUME NEW k \in Jobs PROVE Stage(k)'
  BY DEF Stage, Callers
<1>2. ASSUME NEW k \in Jobs PROVE EntryStage(k)'
  BY DEF EntryStage, Struck, Stage
<1>3. ASSUME NEW k \in Jobs PROVE Record(k)'
  BY DEF Record, Struck, Stage
<1>4. ASSUME NEW k \in Jobs PROVE WriteComes(k)'
  <2>1. entry'[k] = "killed" => entry[k] = "killed" /\ owner[k] # s
    OBVIOUS
  <2>2. \A d \in Callers : cancel[d].pc = "write" /\ cancel[d].job = k /\ owner[k] # s
                             => cancel'[d] = cancel[d]
    BY DEF Callers, CancelStage
  <2> QED
    BY <2>1, <2>2 DEF WriteComes
<1>5. ASSUME NEW x \in Callers PROVE CancelStage(x)'
  <2>1. CASE cancel'[x] = Idle
    BY <2>1 DEF CancelStage
  <2>2. CASE cancel'[x] # Idle
    <3>1. cancel'[x] = cancel[x] /\ x # s /\ (x \in Jobs => owner[x] # s) /\ CancelStage(x)
      BY <2>2
    <3>2. cancel[x].pc # "idle" => owner[cancel[x].job] # s
      BY <3>1 DEF CancelStage, Callers
    <3> QED
      BY <3>1, <3>2 DEF CancelStage, Struck, Callers
  <2> QED
    BY <2>1, <2>2
<1>6. ASSUME NEW x \in Sessions PROVE ReconStage(x)'
  BY DEF ReconStage, Struck
<1> QED
  BY <1>1, <1>2, <1>3, <1>4, <1>5, <1>6

\* Stages holds at every moment.
LEMMA StagesInductive == TypeOK /\ SlotInv /\ Stages /\ [Next]_vars => Stages'
<1> SUFFICES ASSUME TypeOK, SlotInv, Stages, [Next]_vars PROVE Stages'
  OBVIOUS
<1>1. ASSUME NEW s \in Sessions, Open(s) \/ Reconcile(s) PROVE Stages'
  BY <1>1, OpenStages, ReconcileStages, ReconcileJudgeStages, ReconcileWriteStages DEF Reconcile
<1>2. ASSUME NEW s \in Sessions, Close(s) PROVE Stages'
  BY <1>2, CloseCollectStages, CloseCancelStages, CloseFinishStages DEF Close
<1>3. ASSUME NEW s \in Sessions, Die(s) PROVE Stages'
  BY <1>3, GoneStages DEF Die
<1>4. ASSUME NEW s \in Sessions, NEW j \in Jobs, StartReserve(s, j) PROVE Stages'
  BY <1>4, ReserveStages
<1>5. ASSUME NEW j \in Jobs, Start(j) PROVE Stages'
  <2>1. CASE StartPanic(j)
    <3>1. owner[j] \in Sessions
      BY <2>1 DEF StartPanic, SlotInv, SlotJob, Launching, TypeOK
    <3>2. PICK s \in Sessions : s = owner[j]
      BY <3>1
    <3>3. Up(s) /\ SessionGone(s) /\ UNCHANGED <<owner, result, meta, procVars, viaPid>>
      BY <2>1, <3>2 DEF StartPanic, Up
    <3> QED
      BY <3>3, GoneStages
  <2> QED
    BY <1>5, <2>1, StartFailsStages, StartSpawnStages, StartWriteMetaStages, StartEndsStages
         DEF Start
<1>6. ASSUME NEW j \in Jobs, WaitJob(j) \/ CtxDone(j) \/ Wait(j) PROVE Stages'
  BY <1>6, WaitJobEndsStages, WaitJobFinishStages, WaitStages, WaitCtxDoneStages DEF WaitJob, Wait
<1>7. ASSUME NEW c \in Callers, Cancel(c) PROVE Stages'
  BY <1>7, CancelLockStages, CancelReadStages, CancelWriteStages DEF Cancel
<1>8. ASSUME NEW j \in Jobs, ProcExit(j) \/ ProcDie(j) \/ InitReap(j) PROVE Stages'
  BY <1>8, ProcStages
<1>9. CASE UNCHANGED vars
  BY <1>9 DEF vars, sessVars, callVars, procVars, Stages, JobStages, Stage, EntryStage, Record,
              WriteComes, CancelStage, ReconStage, Struck, Up
<1> QED
  BY <1>1, <1>2, <1>3, <1>4, <1>5, <1>6, <1>7, <1>8, <1>9 DEF Next

\* No job, no session.
LEMMA StagesInitially == Init => Stages
<1> SUFFICES ASSUME Init PROVE Stages
  OBVIOUS
<1> USE ShellJobsAssumption DEF Init, Off, ReconAt, Idle, CancelAt, Terminal, Unregistered
<1>1. ASSUME NEW j \in Jobs PROVE Stage(j) /\ EntryStage(j) /\ Record(j) /\ WriteComes(j)
  BY DEF Stage, EntryStage, Record, WriteComes
<1>2. ASSUME NEW c \in Callers PROVE CancelStage(c)
  BY DEF CancelStage
<1>3. ASSUME NEW s \in Sessions PROVE ReconStage(s)
  BY DEF ReconStage
<1> QED
  BY <1>1, <1>2, <1>3 DEF Stages, JobStages

\* What a call reports: the truth of the record at the moment Wait read it, which stays true.
Reported(j) ==
  /\ result[j] = "completed" => proc[j] = "reaped" /\ exit[j] = "ok"
  /\ result[j] = "failed" => exit[j] \in {"error", "signal"} \/ j \in viaPid
  /\ result[j] = "killed" => life[owner[j]] # "open" \/ j \in viaPid
  /\ result[j] # "none" => owner[j] \in Sessions

Reports == \A j \in Jobs : Reported(j)

\* The lives of sessions turn only in these steps ...
LEMMA OnlySessionsTurn ==
  ASSUME [Next]_vars,
         ~\E s \in Sessions : Open(s) \/ Close(s) \/ Die(s),
         ~\E j \in Jobs : StartPanic(j)
  PROVE  life' = life
  BY DEF Next, vars, sessVars, Reconcile, ReconcileList, ReconcileCheck, ReconcileRead,
       ReconcileJudge,
     ReconcileWrite, ReconcileDone, reconFrame, StartReserve, Start, StartFail, StartSpawn, StartWriteMeta,
     StartWriteMetaFail, StartRegister, StartTrack, startFrame, WaitJob, WaitJobReap, WaitJobFinish, finish,
     WaitJobClose, waitFrame, CtxDone, Wait, WaitEnter, WaitDone, WaitPoll, WaitCtxDone, callFrame,
     Cancel, CancelLock, CancelRead, CancelWrite, cancelFrame, ProcExit, ProcDie, InitReap, procFrame

\* ... a job gets its owner only in this one ...
LEMMA OnlyReserveOwns ==
  ASSUME [Next]_vars, ~\E s \in Sessions, j \in Jobs : StartReserve(s, j)
  PROVE  owner' = owner
  BY DEF Next, vars, sessVars, Reconcile, ReconcileList, ReconcileCheck, ReconcileRead,
       ReconcileJudge,
     ReconcileWrite, ReconcileDone, reconFrame, Open, Close, CloseCollect, CloseCancel, CloseFinish, closeFrame,
     Die, Start, StartFail, StartSpawn, StartWriteMeta,
     StartWriteMetaFail, StartRegister, StartPanic, StartTrack, startFrame, WaitJob, WaitJobReap, WaitJobFinish,
     finish, WaitJobClose, waitFrame, CtxDone, Wait, WaitEnter, WaitDone, WaitPoll, WaitCtxDone, callFrame,
     Cancel, CancelLock, CancelRead, CancelWrite, cancelFrame, ProcExit, ProcDie, InitReap, procFrame

\* ... and a reconciler moves only by its own steps, at Open and with the end of its session.
LEMMA ReconSteps ==
  ASSUME TypeOK, [Next]_vars, NEW s \in Sessions
  PROVE  Reconcile(s) \/ recon'[s] = Off \/ recon'[s].pc = "list" \/ recon'[s] = recon[s]
<1> USE DEF TypeOK
<1>0. ASSUME NEW t, SessionGone(t) PROVE recon' = [recon EXCEPT ![t] = Off]
  BY <1>0 DEF SessionGone
<1>1. ASSUME NEW t \in Sessions, Reconcile(t), t # s PROVE recon'[s] = recon[s]
  BY ZenonT(60), <1>1 DEF Reconcile, ReconcileList, ReconcileCheck, ReconcileRead, ReconcileJudge,
     ReconcileWrite, ReconcileDone
<1>2. CASE \E t \in Sessions : Open(t) \/ Die(t)
  BY <1>0, <1>2 DEF Open, Die, ReconAt
<1>3. CASE \E j \in Jobs : StartPanic(j)
  BY <1>0, <1>3 DEF StartPanic
<1>4. CASE /\ ~\E t \in Sessions : Reconcile(t) \/ Open(t) \/ Die(t)
           /\ ~\E j \in Jobs : StartPanic(j)
  <2>1. recon' = recon
    BY <1>4 DEF Next, vars, sessVars, Close, CloseCollect, CloseCancel, CloseFinish, closeFrame,
       StartReserve, Start, StartFail, StartSpawn, StartWriteMeta,
       StartWriteMetaFail, StartRegister, StartTrack, startFrame, WaitJob, WaitJobReap, WaitJobFinish, finish,
       WaitJobClose, waitFrame, CtxDone, Wait, WaitEnter, WaitDone, WaitPoll, WaitCtxDone, callFrame,
       Cancel, CancelLock, CancelRead, CancelWrite, cancelFrame, ProcExit, ProcDie, InitReap, procFrame
  <2> QED
    BY <2>1
<1> QED
  BY <1>1, <1>2, <1>3, <1>4

\* A session does not come back: once closing, closed or dead it is never open again.
LEMMA LivesGoOn ==
  ASSUME TypeOK, [Next]_vars, NEW t \in Sessions, life[t] \notin {"new", "open"}
  PROVE  life'[t] \notin {"new", "open"}
<1> USE DEF TypeOK
<1>0. ASSUME NEW s, SessionGone(s) PROVE life' = [life EXCEPT ![s] = "dead"]
  BY <1>0 DEF SessionGone
<1>1. CASE \E s \in Sessions : Open(s) \/ Close(s) \/ Die(s)
  BY <1>0, <1>1 DEF Open, Close, CloseCollect, CloseCancel, CloseFinish, Die
<1>2. CASE \E j \in Jobs : StartPanic(j)
  BY <1>0, <1>2 DEF StartPanic
<1>3. CASE /\ ~\E s \in Sessions : Open(s) \/ Close(s) \/ Die(s)
           /\ ~\E j \in Jobs : StartPanic(j)
  <2>1. life' = life
    BY <1>3, OnlySessionsTurn
  <2> QED
    BY <2>1
<1> QED
  BY <1>1, <1>2, <1>3

\* Wait reports what the record says, and what it says is true from then on.
LEMMA ReportsInductive == TypeOK /\ SlotInv /\ Stages /\ Reports /\ [Next]_vars => Reports'
<1> SUFFICES ASSUME TypeOK, SlotInv, Stages, Reports, [Next]_vars, NEW k \in Jobs PROVE Reported(k)'
  BY DEF Reports
<1> USE ShellJobsAssumption DEF TypeOK
<1>1. Reported(k) /\ Stage(k) /\ Record(k) /\ SlotJob(k)
  BY DEF Reports, Stages, JobStages, SlotInv
<1>2. \/ result'[k] = result[k]
      \/ result'[k] = "ctxErr" /\ owner' = owner /\ call[k] # "idle"
      \/ /\ result'[k] = meta[k] /\ call[k] \in {"select", "poll"}
         /\ UNCHANGED <<owner, life, proc, exit, viaPid>>
  <2>1. CASE \E j \in Jobs : Wait(j)
    BY <2>1 DEF Wait, WaitEnter, WaitDone, WaitPoll, WaitCtxDone, Return, callFrame, sessVars,
         procVars
  <2>2. CASE \E c \in Callers : Cancel(c)
    <3>1. PICK c \in Callers : Cancel(c)
      BY <2>2
    <3>2. c = k => call[k] # "idle"
      BY <3>1 DEF Cancel, CancelLock, CancelRead, CancelWrite, Stages, CancelStage, CancelAt
    <3> QED
      BY <3>1, <3>2 DEF Cancel, CancelLock, CancelRead, CancelWrite, CancelReturns, Return,
           cancelFrame
  <2>3. CASE ~(\E j \in Jobs : Wait(j)) /\ ~(\E c \in Callers : Cancel(c))
    BY <2>3 DEF Next, vars, Open, Reconcile, ReconcileList, ReconcileCheck, ReconcileRead,
         ReconcileJudge,
       ReconcileWrite, ReconcileDone, reconFrame, Close, CloseCollect, CloseCancel, CloseFinish, closeFrame,
       Die, StartReserve, Start, StartFail, StartSpawn, StartWriteMeta, StartWriteMetaFail, StartRegister,
       StartPanic, StartTrack, WaitJob, WaitJobReap, WaitJobFinish, finish, WaitJobClose, waitFrame, CtxDone,
       callFrame, ProcExit, ProcDie, InitReap, procFrame, callVars
  <2> QED
    BY <2>1, <2>2, <2>3
<1>3. /\ proc[k] = "reaped" => proc'[k] = "reaped" /\ exit'[k] = exit[k]
      /\ exit[k] # "none" => exit'[k] = exit[k]
      /\ k \in viaPid => k \in viaPid'
      /\ owner[k] # NoSession => owner'[k] = owner[k]
  <2>1. CASE \E c \in Callers : Cancel(c)
    BY <2>1 DEF Cancel, CancelLock, CancelRead, CancelWrite, cancelFrame, sessVars
  <2>2. CASE \E j \in Jobs : ProcExit(j) \/ ProcDie(j) \/ InitReap(j)
    BY <1>1, <2>2 DEF ProcExit, ProcDie, InitReap, procFrame, sessVars, Stage
  <2>3. CASE \E s \in Sessions : Reconcile(s)
    BY <2>3 DEF Reconcile, ReconcileList, ReconcileCheck, ReconcileRead, ReconcileJudge,
       ReconcileWrite, ReconcileDone, reconFrame, procVars
  <2>4. CASE \E s \in Sessions : Open(s) \/ Close(s) \/ Die(s)
    BY <1>1, <2>4 DEF Open, Close, CloseCollect, CloseCancel, CloseFinish, closeFrame, Die, procVars
  <2>5. CASE \E j \in Jobs : (\E s \in Sessions : StartReserve(s, j)) \/ Start(j)
    <3> USE DEF startFrame, sessVars, procVars, Launching
    <3>1. CASE \E j \in Jobs, s \in Sessions : StartReserve(s, j)
      BY <3>1 DEF StartReserve
    <3>2. CASE \E j \in Jobs : Start(j)
      BY <1>1, <3>2 DEF Start, StartFail, StartSpawn, StartWriteMeta, StartWriteMetaFail,
           StartRegister,
         StartPanic, StartTrack, SlotInv, SlotJob, removeJob
    <3> QED
      BY <2>5, <3>1, <3>2
  <2>6. CASE \E j \in Jobs : WaitJob(j) \/ CtxDone(j) \/ Wait(j)
    BY <2>6 DEF WaitJob, WaitJobReap, WaitJobFinish, finish, WaitJobClose, waitFrame, CtxDone,
         Wait, WaitEnter,
       WaitDone, WaitPoll, WaitCtxDone, callFrame, sessVars, procVars
  <2>7. CASE UNCHANGED vars
    BY <2>7 DEF vars, sessVars, procVars
  <2> QED
    BY <2>1, <2>2, <2>3, <2>4, <2>5, <2>6, <2>7 DEF Next
<1>4. owner[k] # NoSession => owner[k] \in Sessions
  OBVIOUS
<1>5. owner[k] # NoSession /\ life[owner[k]] # "open" => life'[owner[k]] # "open"
  BY <1>1, <1>4, LivesGoOn DEF SlotJob
<1> QED
  BY <1>1, <1>2, <1>3, <1>4, <1>5 DEF Reported, Record, Stage, Terminal

\* Until Close drops the map: a closed done channel means that the job is over.
LEMMA DoneFollows == TypeOK /\ Stages => DoneIsFinal
<1> SUFFICES ASSUME TypeOK, Stages, NEW j \in Jobs, done[j], life[owner[j]] # "closed"
             PROVE  /\ proc[j] = "reaped" /\ entry[j] \in Terminal \cup {"none"}
                    /\ meta[j] \in Terminal \/ \E c \in Callers : cancel[c] = CancelAt("write", j)
  BY DEF DoneIsFinal
<1>1. Stage(j) /\ EntryStage(j) /\ Record(j) /\ WriteComes(j)
  BY DEF Stages, JobStages
<1>2. proc[j] = "reaped" /\ entry[j] \in Terminal
  BY <1>1 DEF EntryStage
<1>3. ASSUME NEW c \in Callers, cancel[c].pc = "write", cancel[c].job = j
      PROVE  cancel[c] = CancelAt("write", j)
  BY <1>3 DEF TypeOK, Cancels, CancelAt, Idle
<1> QED
  BY <1>1, <1>2, <1>3 DEF WriteComes, Record, Terminal

\* A finished record keeps its verdict, step by step.
LEMMA FinalKept ==
  ASSUME TypeOK, SlotInv, Stages, [Next]_vars, NEW j \in Jobs, meta[j] \in Terminal, j \notin viaPid
  PROVE  meta'[j] = meta[j]
<1> USE DEF TypeOK
<1>1. Stage(j) /\ EntryStage(j) /\ Record(j)
  BY DEF Stages, JobStages
<1>2. ASSUME NEW s \in Sessions, ReconcileWrite(s) PROVE meta'[j] = meta[j]
  <2>1. recon[s].job \in viaPid
    BY <1>2 DEF ReconcileWrite, Stages, ReconStage
  <2> QED
    BY <1>2, <2>1 DEF ReconcileWrite
<1>3. ASSUME NEW k \in Jobs, StartWriteMeta(k) \/ WaitJobFinish(k) PROVE meta'[j] = meta[j]
  BY <1>1, <1>3 DEF StartWriteMeta, WaitJobFinish, finish, startFrame, waitFrame, Stage,
       EntryStage, Record,
     Terminal, Unregistered
<1>4. ASSUME NEW c \in Callers, CancelWrite(c) PROVE meta'[j] = meta[j]
  <2>1. CancelStage(c) /\ cancel[c].pc = "write"
    BY <1>4 DEF CancelWrite, Stages
  <2> QED
    BY <1>4, <2>1 DEF CancelWrite, CancelStage, Terminal
<1>5. CASE /\ ~\E s \in Sessions : ReconcileWrite(s)
           /\ ~\E k \in Jobs : StartWriteMeta(k) \/ WaitJobFinish(k)
           /\ ~\E c \in Callers : CancelWrite(c)
  <2>1. meta' = meta
    BY <1>5 DEF Next, vars, Reconcile, ReconcileList, ReconcileCheck, ReconcileRead, ReconcileJudge,
       ReconcileDone, Open, Close, CloseCollect, CloseCancel, CloseFinish, closeFrame, Die,
       StartReserve, Start, StartFail, StartSpawn,
       StartWriteMetaFail, StartRegister, StartPanic, StartTrack, WaitJob, WaitJobReap,
       WaitJobClose, CtxDone, Wait, WaitEnter, WaitDone, WaitPoll, WaitCtxDone, callFrame,
       Cancel, CancelLock, CancelRead, ProcExit, ProcDie, InitReap, procFrame
  <2> QED
    BY <2>1
<1> QED
  BY <1>2, <1>3, <1>4, <1>5

\* No entry yet.
LEMMA SlotInitially == Init => SlotInv
<1> SUFFICES ASSUME Init PROVE SlotInv
  OBVIOUS
<1>1. \A j \in Jobs : SlotJob(j)
  BY ShellJobsAssumption DEF Init, SlotJob, Launching
<1> QED
  BY <1>1 DEF Init, SlotInv, Slots

\* Types, slots and stages together.
LEMMA StagesHold == Spec => [](TypeOK /\ SlotInv /\ Stages)
  BY SlotInitially, StagesInitially, SlotInvInductive, StagesInductive, Typing, PTL DEF Spec

\* The records, the results and the done channels are true to what became of the job, for any
\* number of jobs, sessions and concurrent calls (manager_run.go, manager_wait.go).
THEOREM JobsHold == Spec => []JobsInv
<1>1. Init => Reports
  BY DEF Init, Reports, Reported
<1>2. Reports => WaitResultTruth
  BY DEF Reports, Reported, WaitResultTruth
<1> QED
  BY <1>1, <1>2, ReportsInductive, StagesHold, DoneFollows, PTL DEF Spec, JobsInv

\* A finished record keeps its verdict: the entry settles who writes it, unless somebody went
\* through the PID instead.
THEOREM RecordsFinal == Spec => FinalRecordIsKept
<1>1. TypeOK /\ SlotInv /\ Stages /\ [Next]_vars
        => [\A j \in Jobs : meta[j] \in Terminal /\ j \notin viaPid => meta'[j] = meta[j]]_vars
  BY FinalKept
<1> QED
  BY <1>1, StagesHold, PTL DEF Spec, FinalRecordIsKept


-----------------------------------------------------------------------------
\* What a reconciler leaves behind of a job: no running record, no process unkilled.
Settled(j) == meta[j] # "running" /\ (meta[j] # "none" => Struck(j))

\* With one session of the project at a time, the reconciler of the one that is up has each
\* job of an earlier session still before it, in its hands, or settled.
Alone == \A s, t \in Sessions : Up(s) /\ Up(t) => s = t
Recovering(s) ==
  /\ recon[s].pc = "done" => recon[s].todo = {}
  /\ recon[s].pc \in {"next", "read", "judge", "write", "done"} =>
       \A j \in Jobs : owner[j] \notin {s, NoSession} =>
         \/ j \in recon[s].todo
         \/ recon[s].pc \in {"read", "judge", "write"} /\ j = recon[s].job
         \/ Settled(j)
Recovery == Alone /\ \A s \in Sessions : Recovering(s)

\* Without overlap no second session opens.
LEMMA AloneKept ==
  ASSUME ~Overlap, TypeOK, SlotInv, Alone, [Next]_vars
  PROVE  Alone'
<1> USE DEF TypeOK, Up, Alone
<1>0. ASSUME NEW s, SessionGone(s) PROVE life' = [life EXCEPT ![s] = "dead"]
  BY <1>0 DEF SessionGone
<1>1. CASE \E s \in Sessions : Open(s)
  BY <1>1 DEF Open
<1>2. CASE \E s \in Sessions : Close(s)
  BY <1>2 DEF Close, CloseCollect, CloseCancel, CloseFinish
<1>3. CASE (\E s \in Sessions : Die(s)) \/ (\E j \in Jobs : StartPanic(j))
  BY <1>0, <1>3 DEF Die, StartPanic
<1>4. CASE /\ ~\E s \in Sessions : Open(s) \/ Close(s) \/ Die(s)
           /\ ~\E j \in Jobs : StartPanic(j)
  <2>1. life' = life
    BY <1>4, OnlySessionsTurn
  <2> QED
    BY <2>1
<1> QED
  BY <1>1, <1>2, <1>3, <1>4

\* A kill stands, and no process comes to life but by the launch of its job.
LEMMA KillsStand ==
  ASSUME TypeOK, [Next]_vars, NEW k \in Jobs
  PROVE  signalled \subseteq signalled' /\ (proc'[k] = "alive" => proc[k] = "alive" \/ call[k] = "reserved")
<1> USE DEF TypeOK
<1>1. CASE \E c \in Callers : Cancel(c)
  BY <1>1 DEF Cancel, CancelLock, CancelRead, CancelWrite, cancelFrame, Kill
<1>2. CASE \E j \in Jobs : ProcExit(j) \/ ProcDie(j) \/ InitReap(j)
  BY <1>2 DEF ProcExit, ProcDie, InitReap, procFrame
<1>3. CASE \E s \in Sessions : Reconcile(s)
  BY <1>3 DEF Reconcile, ReconcileList, ReconcileCheck, ReconcileRead, ReconcileJudge,
     ReconcileWrite, ReconcileDone, reconFrame, procVars, Kill
<1>4. CASE \E s \in Sessions : Open(s) \/ Close(s) \/ Die(s) \/ \E j \in Jobs : StartReserve(s, j)
  BY <1>4 DEF Open, Close, CloseCollect, CloseCancel, CloseFinish, closeFrame, Die,
       StartReserve, procVars
<1>5. CASE \E j \in Jobs : Start(j)
  BY <1>5 DEF Start, StartFail, StartSpawn, StartWriteMeta, StartWriteMetaFail, StartRegister,
       StartPanic,
     StartTrack, procVars, Kill
<1>6. CASE \E j \in Jobs : WaitJob(j) \/ CtxDone(j) \/ Wait(j)
  BY <1>6 DEF WaitJob, WaitJobReap, WaitJobFinish, finish, WaitJobClose, waitFrame, CtxDone,
       Wait, WaitEnter,
     WaitDone, WaitPoll, WaitCtxDone, callFrame, procVars
<1>7. CASE UNCHANGED vars
  BY <1>7 DEF vars, procVars
<1> QED
  BY <1>1, <1>2, <1>3, <1>4, <1>5, <1>6, <1>7 DEF Next

\* What has been settled of an earlier session stays settled.
LEMMA SettledKept ==
  ASSUME TypeOK, SlotInv, Stages, [Next]_vars,
         NEW j \in Jobs, owner[j] \in Sessions, ~Up(owner[j]), Settled(j)
  PROVE  Settled(j)'
<1> USE DEF TypeOK
<1>1. call[j] = "gone" /\ waitJob[j] = "off" /\ cancel[j].pc = "idle" /\ Stage(j)
  BY DEF Stages, JobStages, Stage
<1>2. ASSUME NEW s \in Sessions, ReconcileWrite(s) PROVE Settled(j)'
  <2>1. recon[s].verdict \in {"killed", "failed"} /\ recon[s].job \in viaPid /\ Struck(recon[s].job)
    BY <1>2, ReconShape DEF ReconcileWrite, Stages, ReconStage
  <2> QED
    BY <1>2, <2>1 DEF ReconcileWrite, procVars, Settled, Struck
<1>3. ASSUME NEW k \in Jobs, StartWriteMeta(k) \/ WaitJobFinish(k) \/ StartSpawn(k) PROVE
    Settled(j)'
  BY <1>1, <1>3 DEF StartWriteMeta, WaitJobFinish, finish, StartSpawn, startFrame, waitFrame,
       procVars,
     Settled, Struck
<1>4. ASSUME NEW c \in Callers, CancelWrite(c) PROVE Settled(j)'
  <2>1. CancelStage(c) /\ cancel[c].pc = "write"
    BY <1>4 DEF CancelWrite, Stages
  <2>2. cancel[c].job # j
    BY <1>1, <2>1 DEF CancelStage, Callers, Up
  <2> QED
    BY <1>4, <2>2 DEF CancelWrite, cancelFrame, Settled, Struck
<1>5. CASE /\ ~\E s \in Sessions : ReconcileWrite(s)
           /\ ~\E k \in Jobs : StartWriteMeta(k) \/ WaitJobFinish(k) \/ StartSpawn(k)
           /\ ~\E c \in Callers : CancelWrite(c)
  <2>1. meta' = meta
    BY <1>5 DEF Next, vars, Reconcile, ReconcileList, ReconcileCheck, ReconcileRead, ReconcileJudge,
       ReconcileDone, Open, Close, CloseCollect, CloseCancel, CloseFinish, closeFrame, Die,
       StartReserve, Start, StartFail, StartWriteMetaFail, StartRegister, StartPanic, StartTrack, WaitJob,
       WaitJobReap, WaitJobClose, CtxDone, Wait, WaitEnter, WaitDone, WaitPoll, WaitCtxDone, callFrame,
       Cancel, CancelLock, CancelRead, ProcExit, ProcDie, InitReap, procFrame
  <2>2. signalled \subseteq signalled' /\ (proc'[j] = "alive" => proc[j] = "alive")
    BY <1>1, KillsStand
  <2> QED
    BY <2>1, <2>2 DEF Settled, Struck
<1> QED
  BY <1>2, <1>3, <1>4, <1>5

\* Each step of the reconciler itself.
LEMMA ReconcileRecovers ==
  ASSUME TypeOK, SlotInv, Stages, NEW s \in Sessions, Recovering(s), Reconcile(s)
  PROVE  Recovering(s)'
<1> USE ReconShape DEF TypeOK, ReconAt, reconFrame, procVars
<1>1. CASE ReconcileList(s)
  BY <1>1 DEF ReconcileList, Recovering, Settled, Stages, JobStages, Stage
<1>2. CASE ReconcileRead(s)
  BY <1>2 DEF ReconcileRead, Recovering, Settled, Struck, Stages, JobStages, Record, Status
<1>3. CASE ReconcileJudge(s)
  BY <1>3 DEF ReconcileJudge, Recovering, Settled, Struck, Kill
<1>4. CASE ReconcileWrite(s)
  BY SMTT(40), <1>4 DEF ReconcileWrite, Recovering, Settled, Struck, Stages, ReconStage
<1>5. CASE ReconcileDone(s)
  BY <1>5 DEF ReconcileDone, Recovering, Settled, Struck
<1>6. ASSUME NEW i \in Jobs, ReconcileCheck(s, i) PROVE Recovering(s)'
  BY <1>6 DEF ReconcileCheck, Recovering, Settled, Struck
<1> QED
  BY <1>1, <1>2, <1>3, <1>4, <1>5, <1>6 DEF Reconcile

\* The others leave what the reconciler has done alone.
LEMMA RecoveringKept ==
  ASSUME ~Overlap, TypeOK, SlotInv, Stages, Recovery, [Next]_vars, NEW s \in Sessions
  PROVE  Recovering(s)'
<1> USE DEF TypeOK
<1>0. Recovering(s) /\ ReconStage(s)
  BY DEF Recovery, Stages
<1>1. CASE Reconcile(s)
  BY <1>0, <1>1, ReconcileRecovers
<1>2. CASE recon'[s] = Off \/ recon'[s].pc = "list"
  BY <1>2 DEF Recovering, Off, ReconAt
<1>3. CASE recon'[s] = recon[s] /\ recon[s].pc # "off"
  <2>1. Up(s)
    BY <1>0, <1>3 DEF ReconStage
  <2>2. ASSUME NEW j \in Jobs, owner'[j] \notin {s, NoSession}
        PROVE  owner[j] \in Sessions /\ owner[j] \notin {s, NoSession} /\ ~Up(owner[j])
    <3>1. owner[j] = owner'[j]
      <4>1. CASE \E t \in Sessions, k \in Jobs : StartReserve(t, k)
        BY <2>1, <2>2, <4>1 DEF StartReserve, Recovery, Alone
      <4>2. CASE ~\E t \in Sessions, k \in Jobs : StartReserve(t, k)
        <5>1. owner' = owner
          BY <4>2, OnlyReserveOwns
        <5> QED
          BY <5>1
      <4> QED
        BY <4>1, <4>2
    <3> QED
      BY <2>1, <2>2, <3>1 DEF Recovery, Alone
  <2>3. ASSUME NEW j \in Jobs, owner'[j] \notin {s, NoSession}, Settled(j) PROVE Settled(j)'
    BY <2>2, <2>3, SettledKept
  <2> QED
    BY <1>0, <1>3, <2>2, <2>3 DEF Recovering
<1>4. Reconcile(s) \/ recon'[s] = Off \/ recon'[s].pc = "list" \/ recon'[s] = recon[s]
  BY ReconSteps
<1>5. recon[s].pc = "off" /\ recon'[s] = recon[s] => Recovering(s)'
  BY DEF Recovering
<1> QED
  BY <1>1, <1>2, <1>3, <1>4, <1>5

\* With one session of the project at a time, a reconciler that is done has seen to every job
\* that an earlier session left behind.
THEOREM PriorRecovered == ASSUME ~Overlap PROVE Spec => []PriorSessionsRecovered
<1>1. Init => Recovery
  BY DEF Init, Recovery, Alone, Up, Recovering, Off, ReconAt
<1>2. TypeOK /\ SlotInv /\ Stages /\ Recovery /\ [Next]_vars => Recovery'
  BY AloneKept, RecoveringKept DEF Recovery
<1>3. TypeOK /\ Recovery => PriorSessionsRecovered
  BY DEF Recovery, Recovering, PriorSessionsRecovered, Settled, Struck, Alive
<1> QED
  BY <1>1, <1>2, <1>3, StagesHold, PTL DEF Spec

(***************************************************************************)
(* Language servers. The invariant says who owns each client: the cache,   *)
(* or the one call that starts it. What makes it hold from step to step is *)
(* that a client which is being started has one owner, so that whoever     *)
(* closes a client closes his own or the cached one, and that the cache is *)
(* changed by who holds the lock of the manager only.                      *)
(***************************************************************************)

Starting == {"init", "fail", "failing", "install", "losing"}
Using == {"file", "open", "wait"}
Asking == {"open", "wait"}

CallSet ==
  [turn : Turns \cup {0}, pc : {"new", "ensure", "start", "over"} \cup Starting \cup Using, files : Seq(AllFiles),
   client : Nat, result : {"none", "error", "cancelled", "issues", "clean"}]
ClientSet ==
  [proc : BOOLEAN, cmd : BOOLEAN, locked : BOOLEAN, pending : BOOLEAN, chan : Seq({"ok", "error"}),
   opened : SUBSET AllFiles, diags : [AllFiles -> SUBSET SUBSET LspCalls], watch : {"off", "watch", "seen", "closing", "over"}]

\* Every call, client and the manager is of its kind.
Shapes ==
  /\ toolCall \in [LspCalls -> CallSet]
  /\ clients \in Seq(ClientSet) /\ Len(clients) <= MaxClients
  /\ mgr \in [lock : Nat, client : Nat]

\* A call that has a client has one of those there are.
Placed(c) ==
  /\ toolCall[c].client \in {NoOne} \cup Clients
  /\ toolCall[c].pc \in Starting \cup Using => toolCall[c].client # NoOne
  /\ toolCall[c].pc \in Asking => toolCall[c].files # <<>>

\* Who starts a client has it to himself, and it has not been closed.
Owned(c) ==
  toolCall[c].pc \in Starting =>
    /\ clients[toolCall[c].client].cmd /\ mgr.client # toolCall[c].client
    /\ \A d \in LspCalls : toolCall[d].pc \in Starting /\ toolCall[d].client = toolCall[c].client => d = c

\* What is known of the file that a call asks about was read after it asked.
Asked(c) ==
  toolCall[c].pc \in Asking => \A waiting \in clients[toolCall[c].client].diags[Head(toolCall[c].files)] : c \in waiting

\* Who closes what is cached, or closes its own because another is cached, has the lock.
HoldsLock ==
  /\ \A c \in LspCalls : toolCall[c].pc = "losing" => mgr.lock = c /\ mgr.client # NoOne
  /\ \A k \in Clients : clients[k].watch = "closing" => mgr.lock = Watcher(k) /\ mgr.client = k
  /\ mgr.lock = Manager => mgr.client # NoOne

\* A client that is being closed runs, and its channel has what answers one request at most.
Sound(k) ==
  /\ clients[k].locked => clients[k].cmd
  /\ Len(clients[k].chan) <= 1 /\ (clients[k].pending => clients[k].chan = <<>>)

CacheRuns == mgr.client # NoOne => mgr.client \in Clients /\ clients[mgr.client].cmd

LsInv ==
  /\ Shapes /\ CacheRuns /\ HoldsLock /\ NoOrphan
  /\ \A c \in LspCalls : Placed(c) /\ Owned(c) /\ Asked(c)
  /\ \A k \in Clients : Sound(k)

\* A list with one place changed.
LEMMA Updated ==
  ASSUME NEW S, NEW s \in Seq(S), NEW k \in 1..Len(s), NEW y \in S
  PROVE  /\ [s EXCEPT ![k] = y] \in Seq(S) /\ Len([s EXCEPT ![k] = y]) = Len(s)
         /\ [s EXCEPT ![k] = y][k] = y
         /\ \A j \in 1..Len(s) : j # k => [s EXCEPT ![k] = y][j] = s[j]
<1>1. [s EXCEPT ![k] = y] \in Seq(S) /\ Len([s EXCEPT ![k] = y]) = Len(s)
  BY ExceptSeq
<1>2. s \in [1..Len(s) -> S]
  OBVIOUS
<1> QED
  BY <1>1, <1>2

\* A call that is c alone moves, and no client.
CallsKept(c) == toolCall' \in [LspCalls -> CallSet] /\ \A d \in LspCalls : d # c => toolCall'[d] = toolCall[d]
ClientsKept(k) ==
  clients' \in Seq(ClientSet) /\ Len(clients') = Len(clients) /\ \A j \in Clients : j # k => clients'[j] = clients[j]

\* A step of a call that leaves the clients alone.
LEMMA CallMoves ==
  ASSUME LsInv, NEW c \in LspCalls, CallsKept(c), UNCHANGED <<clients, mgr>>, Placed(c)', Asked(c)',
         toolCall[c].pc \notin Starting, toolCall'[c].pc \notin Starting
  PROVE  LsInv'
<1>1. Shapes'
  BY DEF LsInv, Shapes, CallsKept
<1>2. CacheRuns' /\ (\A k \in Clients' : Sound(k)')
  BY DEF LsInv, CacheRuns, Sound, Clients
<1>3. HoldsLock'
  BY DEF LsInv, HoldsLock, CallsKept, Watcher, Manager, Starting, Clients
<1>4. NoOrphan'
  BY DEF LsInv, NoOrphan, CallsKept, Starting, Clients
<1>5. ASSUME NEW d \in LspCalls PROVE Placed(d)' /\ Owned(d)' /\ Asked(d)'
  BY DEF LsInv, CallsKept, Placed, Owned, Asked, Clients
<1> QED
  BY <1>1, <1>2, <1>3, <1>4, <1>5 DEF LsInv

\* A step that changes one client alone, and leaves what the calls rely on.
LEMMA ClientMoves ==
  ASSUME LsInv, NEW k \in Clients, ClientsKept(k), UNCHANGED <<toolCall, mgr>>, Sound(k)', clients'[k].cmd = clients[k].cmd,
         clients'[k].watch = "closing" => clients[k].watch = "closing",
         \A c \in LspCalls : toolCall[c].client = k => Asked(c)'
  PROVE  LsInv'
<1>0. Clients' = Clients
  BY DEF ClientsKept, Clients
<1>1. Shapes'
  BY DEF LsInv, Shapes, ClientsKept
<1>2. CacheRuns' /\ (\A j \in Clients' : Sound(j)')
  BY <1>0 DEF LsInv, CacheRuns, Sound, ClientsKept
<1>3. HoldsLock'
  BY <1>0 DEF LsInv, HoldsLock, ClientsKept, Watcher, Manager
<1>4. NoOrphan'
  BY <1>0 DEF LsInv, NoOrphan, ClientsKept
<1>5. ASSUME NEW d \in LspCalls PROVE Placed(d)' /\ Owned(d)' /\ Asked(d)'
  <2>1. Placed(d)'
    BY <1>0 DEF LsInv, Placed
  <2>2. Owned(d)'
    BY <1>0 DEF LsInv, Placed, Owned, ClientsKept, NoOne
  <2>3. Asked(d)'
    BY <1>0 DEF LsInv, Placed, Asked, ClientsKept, NoOne, Using, Asking
  <2> QED
    BY <2>1, <2>2, <2>3
<1> QED
  BY <1>0, <1>1, <1>2, <1>3, <1>4, <1>5 DEF LsInv

\* A step of a call and its client: a start goes on, or ends and leaves a closed client, or
\* none is on.
LEMMA BothMove ==
  ASSUME LsInv, NEW c \in LspCalls, NEW k \in Clients, CallsKept(c), ClientsKept(k), UNCHANGED mgr, Placed(c)', Sound(k)',
         toolCall[c].client = k, toolCall'[c].client = k, toolCall'[c].pc # "losing", clients'[k].watch = clients[k].watch,
         \/ clients'[k].cmd = clients[k].cmd /\ (toolCall'[c].pc \in Starting <=> toolCall[c].pc \in Starting)
         \/ ~clients'[k].cmd /\ toolCall[c].pc \in Starting /\ toolCall'[c].pc \notin Starting,
         \A d \in LspCalls : toolCall'[d].client = k => Asked(d)'
  PROVE  LsInv'
<1>0. Clients' = Clients
  BY DEF ClientsKept, Clients
<1>1. Shapes'
  BY DEF LsInv, Shapes, ClientsKept, CallsKept
<1>2. CacheRuns' /\ (\A j \in Clients' : Sound(j)')
  BY <1>0 DEF LsInv, CacheRuns, Sound, ClientsKept, Owned
<1>3. HoldsLock'
  BY <1>0 DEF LsInv, HoldsLock, ClientsKept, CallsKept, Watcher, Manager
<1>4. NoOrphan'
  BY <1>0 DEF LsInv, NoOrphan, ClientsKept, CallsKept, Owned, Starting
<1>5. ASSUME NEW d \in LspCalls PROVE Placed(d)' /\ Owned(d)' /\ Asked(d)'
  <2>1. Placed(d)'
    BY <1>0 DEF LsInv, Placed, CallsKept
  <2>2. Owned(d)'
    BY <1>0 DEF LsInv, Placed, Owned, ClientsKept, CallsKept, NoOne
  <2>3. Asked(d)'
    BY <1>0 DEF LsInv, Placed, Asked, ClientsKept, CallsKept, NoOne, Using, Asking
  <2> QED
    BY <2>1, <2>2, <2>3
<1> QED
  BY <1>0, <1>1, <1>2, <1>3, <1>4, <1>5 DEF LsInv

\* Nobody who may hold the lock is taken for another.
LEMMA Holders ==
  ASSUME LsInv
  PROVE  /\ \A j \in Clients : Watcher(j) # NoOne /\ Watcher(j) \notin LspCalls /\ Watcher(j) # Manager
         /\ Manager \notin LspCalls /\ Manager # NoOne /\ NoOne \notin LspCalls
<1>1. Cardinality(LspCalls) \in Nat /\ LspCalls = 1..Cardinality(LspCalls) /\ MaxClients \in Nat
  BY LspAssumption
<1>2. Len(clients) \in Nat /\ Len(clients) <= MaxClients
  BY DEF LsInv, Shapes
<1> QED
  BY <1>1, <1>2 DEF Watcher, Manager, NoOne, Clients

\* A step of the watcher or of the program closes what is cached, under the lock.
LEMMA CacheMoves ==
  ASSUME LsInv, NEW k \in Clients, ClientsKept(k), UNCHANGED toolCall, mgr' \in [lock : Nat, client : Nat], Sound(k)',
         clients'[k].diags = clients[k].diags, mgr.client = k,
         \/ /\ mgr.lock = NoOne /\ mgr'.client = k /\ clients'[k].cmd
            /\ \/ mgr'.lock = Watcher(k) /\ clients'[k].watch = "closing"
               \/ mgr'.lock = Manager /\ clients'[k].watch = clients[k].watch
         \/ /\ mgr.lock = Watcher(k) \/ (mgr.lock = Manager /\ clients[k].watch # "closing")
            /\ mgr' = Uncached /\ ~clients'[k].cmd /\ clients'[k].watch # "closing"
  PROVE  LsInv'
<1>0. Clients' = Clients
  BY DEF ClientsKept, Clients
<1>b. /\ \A j \in Clients : Watcher(j) # NoOne /\ Watcher(j) \notin LspCalls /\ Watcher(j) # Manager
      /\ Manager \notin LspCalls /\ Manager # NoOne /\ NoOne \notin LspCalls
  BY Holders
<1>1. Shapes'
  BY DEF LsInv, Shapes, ClientsKept
<1>2. CacheRuns' /\ (\A j \in Clients' : Sound(j)')
  BY <1>0 DEF LsInv, CacheRuns, Sound, ClientsKept, Uncached, NoOne
<1>3. HoldsLock'
  <2>1. \A c \in LspCalls : toolCall[c].pc # "losing"
    BY <1>b DEF LsInv, HoldsLock
  <2>2. \A j \in Clients : j # k => clients'[j].watch # "closing"
    BY DEF LsInv, HoldsLock, ClientsKept
  <2>3. \A j \in Clients : clients'[j].watch = "closing" => mgr'.lock = Watcher(j) /\ mgr'.client = j
    BY <1>b, <2>1, <2>2 DEF LsInv, HoldsLock
  <2>4. mgr'.lock = Manager => mgr'.client # NoOne
    BY <1>b DEF Uncached, Clients, NoOne
  <2> QED
    BY <1>0, <2>1, <2>3, <2>4 DEF HoldsLock, NoOne, Watcher, Manager
<1>4. NoOrphan'
  BY <1>0 DEF LsInv, NoOrphan, ClientsKept
<1>5. ASSUME NEW d \in LspCalls PROVE Placed(d)' /\ Owned(d)' /\ Asked(d)'
  <2>1. Placed(d)'
    BY <1>0 DEF LsInv, Placed
  <2>2. Owned(d)'
    BY <1>0 DEF LsInv, Placed, Owned, ClientsKept, NoOne, Uncached
  <2>3. Asked(d)'
    BY <1>0 DEF LsInv, Placed, Asked, ClientsKept, NoOne, Using, Asking
  <2> QED
    BY <2>1, <2>2, <2>3
<1> QED
  BY <1>0, <1>1, <1>2, <1>3, <1>4, <1>5 DEF LsInv

\* A client that changes is the only one that does.
LEMMA ClientTo ==
  ASSUME LsInv, NEW k \in Clients, NEW y \in ClientSet, clients' = [clients EXCEPT ![k] = y]
  PROVE  ClientsKept(k) /\ clients'[k] = y
<1>1. clients \in Seq(ClientSet) /\ k \in 1..Len(clients)
  BY DEF LsInv, Shapes, Clients
<1> QED
  BY <1>1, Updated DEF ClientsKept, Clients

\* A call that starts or uses a client, and the client.
LEMMA ItsClient ==
  ASSUME LsInv, NEW c \in LspCalls, toolCall[c].pc \in Starting \cup Using
  PROVE  /\ toolCall[c] \in CallSet /\ toolCall[c].client \in Clients /\ clients[toolCall[c].client] \in ClientSet
         /\ Sound(toolCall[c].client)
<1>1. toolCall[c].client \in Clients
  BY DEF LsInv, Placed
<1> QED
  BY <1>1 DEF LsInv, Shapes, Clients

\* A call that goes on, or is over, keeps its client.
LEMMA WentTo ==
  ASSUME LsInv, NEW c \in LspCalls, NEW pc \in {"new", "ensure", "start", "over"} \cup Starting \cup Using,
         toolCall' = Went(c, pc)
  PROVE  /\ CallsKept(c) /\ toolCall'[c].pc = pc /\ toolCall'[c].client = toolCall[c].client
         /\ toolCall'[c].files = toolCall[c].files
<1>1. toolCall \in [LspCalls -> CallSet] /\ toolCall[c] \in CallSet
  BY DEF LsInv, Shapes
<1>2. [toolCall[c] EXCEPT !.pc = pc] \in CallSet
  BY <1>1 DEF CallSet
<1>3. toolCall' = [toolCall EXCEPT ![c] = [toolCall[c] EXCEPT !.pc = pc]]
  BY <1>1 DEF Went
<1>4. CallsKept(c) /\ toolCall'[c] = [toolCall[c] EXCEPT !.pc = pc]
  BY <1>1, <1>2, <1>3 DEF CallsKept
<1> QED
  BY <1>1, <1>4 DEF CallSet

LEMMA OverTo ==
  ASSUME LsInv, NEW c \in LspCalls, NEW outcome \in {"none", "error", "cancelled", "issues", "clean"},
         toolCall' = CallIsOver(c, outcome)
  PROVE  CallsKept(c) /\ toolCall'[c].pc = "over" /\ toolCall'[c].client = toolCall[c].client
<1>1. toolCall \in [LspCalls -> CallSet] /\ toolCall[c] \in CallSet
  BY DEF LsInv, Shapes
<1>2. [toolCall[c] EXCEPT !.pc = "over", !.result = outcome] \in CallSet
  BY <1>1 DEF CallSet
<1>3. toolCall' = [toolCall EXCEPT ![c] = [toolCall[c] EXCEPT !.pc = "over", !.result = outcome]]
  BY <1>1 DEF CallIsOver
<1>4. CallsKept(c) /\ toolCall'[c] = [toolCall[c] EXCEPT !.pc = "over", !.result = outcome]
  BY <1>1, <1>2, <1>3 DEF CallsKept
<1> QED
  BY <1>1, <1>4 DEF CallSet

\* The steps of a call keep the invariant: the answer to the request to initialize,
LEMMA InitializeKeeps ==
  ASSUME LsInv, NEW c \in LspCalls, Initialize(c)
  PROVE  LsInv'
<1>k. PICK k : k = toolCall[c].client
  OBVIOUS
<1>1. /\ toolCall[c].pc = "init" /\ toolCall[c] \in CallSet /\ k \in Clients /\ clients[k] \in ClientSet /\ Sound(k)
  BY <1>k, ItsClient DEF Initialize, Starting
<1>2. PICK y \in ClientSet : /\ clients' = [clients EXCEPT ![k] = y] /\ y.cmd = clients[k].cmd /\ y.watch = clients[k].watch
                            /\ y.locked = clients[k].locked /\ y.pending = FALSE /\ Len(y.chan) <= 1
                            /\ y.diags = clients[k].diags
  <2>1. CASE clients' = [clients EXCEPT ![k].chan = Tail(@), ![k].pending = FALSE] /\ clients[k].chan # <<>>
    <3>1. PICK y : y = [clients[k] EXCEPT !.chan = Tail(@), !.pending = FALSE]
      OBVIOUS
    <3>2. clients[k].chan \in Seq({"ok", "error"}) /\ clients[k].chan # <<>> /\ Len(clients[k].chan) <= 1
      BY <1>1, <2>1 DEF ClientSet, Sound
    <3>3. Tail(clients[k].chan) \in Seq({"ok", "error"}) /\ Len(Tail(clients[k].chan)) <= 1
      BY <3>2
    <3>4. y \in ClientSet
      BY <1>1, <3>1, <3>3 DEF ClientSet
    <3>5. clients' = [clients EXCEPT ![k] = y]
      BY <1>1, <2>1, <3>1
    <3> QED
      BY <1>1, <3>1, <3>3, <3>4, <3>5 DEF ClientSet
  <2>2. CASE clients' = [clients EXCEPT ![k].pending = FALSE]
    <3>1. PICK y : y = [clients[k] EXCEPT !.pending = FALSE]
      OBVIOUS
    <3>4. y \in ClientSet
      BY <1>1, <3>1 DEF ClientSet
    <3>5. clients' = [clients EXCEPT ![k] = y]
      BY <1>1, <2>2, <3>1
    <3> QED
      BY <1>1, <3>1, <3>4, <3>5 DEF ClientSet, Sound
  <2> QED
    BY <1>k, <2>1, <2>2 DEF Initialize
<1>3. ClientsKept(k) /\ clients'[k] = y
  BY <1>1, <1>2, ClientTo
<1>4. /\ CallsKept(c) /\ toolCall'[c].pc \in {"install", "fail"} /\ toolCall'[c].client = k /\ UNCHANGED mgr
  <2>1. toolCall' = Went(c, "install") \/ toolCall' = Went(c, "fail")
    BY DEF Initialize
  <2> QED
    BY <1>k, <2>1, WentTo DEF Starting, Initialize
<1>5. Placed(c)' /\ Sound(k)'
  BY <1>1, <1>2, <1>3, <1>4 DEF Placed, Sound, Clients, ClientsKept, Asking, NoOne
<1>6. \A d \in LspCalls : toolCall'[d].client = k => Asked(d)'
  BY <1>2, <1>3, <1>4 DEF LsInv, Asked, CallsKept, Asking
<1> QED
  BY <1>1, <1>2, <1>3, <1>4, <1>5, <1>6, <1>k, BothMove DEF Starting

\* A start that has failed,
LEMMA StartFailedKeeps ==
  ASSUME LsInv, NEW c \in LspCalls, StartFailed(c) \/ StartClosed(c)
  PROVE  LsInv'
<1>k. PICK k : k = toolCall[c].client
  OBVIOUS
<1>1. /\ toolCall[c].pc \in {"fail", "failing"} /\ toolCall[c] \in CallSet /\ k \in Clients /\ clients[k] \in ClientSet
      /\ Sound(k)
      /\ clients[k].cmd
  BY <1>k, ItsClient DEF StartFailed, StartClosed, Starting, LsInv, Owned
<1>2. PICK y \in ClientSet : /\ clients' = [clients EXCEPT ![k] = y] /\ y.watch = clients[k].watch
                            /\ y.pending = clients[k].pending /\ y.chan = clients[k].chan /\ y.diags = clients[k].diags
                            /\ \/ StartFailed(c) /\ y.cmd /\ y.locked
                               \/ StartClosed(c) /\ ~y.cmd /\ ~y.locked
  <2>1. CASE StartFailed(c)
    <3>1. PICK y : y = [clients[k] EXCEPT !.locked = TRUE]
      OBVIOUS
    <3>2. y \in ClientSet
      BY <1>1, <3>1 DEF ClientSet
    <3>3. clients' = [clients EXCEPT ![k] = y]
      BY <1>1, <1>k, <2>1, <3>1 DEF StartFailed, Closing
    <3> QED
      BY <1>1, <2>1, <3>1, <3>2, <3>3 DEF ClientSet
  <2>2. CASE StartClosed(c)
    <3>1. PICK y : y = [clients[k] EXCEPT !.locked = FALSE, !.proc = FALSE, !.cmd = FALSE]
      OBVIOUS
    <3>2. y \in ClientSet
      BY <1>1, <3>1 DEF ClientSet
    <3>3. clients' = [clients EXCEPT ![k] = y]
      BY <1>1, <1>k, <2>2, <3>1 DEF StartClosed, Closed
    <3> QED
      BY <1>1, <2>2, <3>1, <3>2, <3>3 DEF ClientSet
  <2> QED
    BY <2>1, <2>2
<1>3. ClientsKept(k) /\ clients'[k] = y
  BY <1>1, <1>2, ClientTo
<1>4. /\ CallsKept(c) /\ toolCall'[c].client = k /\ UNCHANGED mgr
      /\ \/ StartFailed(c) /\ toolCall'[c].pc = "failing"
         \/ StartClosed(c) /\ toolCall'[c].pc = "over"
  <2>1. CASE StartFailed(c)
    BY <1>k, <2>1, WentTo DEF Starting, StartFailed
  <2>2. CASE StartClosed(c)
    BY <1>k, <2>2, OverTo DEF StartClosed
  <2> QED
    BY <2>1, <2>2
<1>5. toolCall[c].pc = IF StartFailed(c) THEN "fail" ELSE "failing"
  BY DEF StartFailed, StartClosed
<1>6. Placed(c)' /\ Sound(k)'
  BY <1>1, <1>2, <1>3, <1>4 DEF Placed, Sound, Clients, ClientsKept, Asking, NoOne
<1>7. \A d \in LspCalls : toolCall'[d].client = k => Asked(d)'
  BY <1>2, <1>3, <1>4 DEF LsInv, Asked, CallsKept, Asking
<1>8. toolCall'[c].pc \in Starting <=> StartFailed(c)
  BY <1>4, <1>5 DEF Starting, StartFailed, StartClosed
<1>9. toolCall[c].pc \in Starting /\ toolCall'[c].pc # "losing"
  BY <1>1, <1>4 DEF Starting
<1> QED
  <2>1. \/ clients'[k].cmd = clients[k].cmd /\ (toolCall'[c].pc \in Starting <=> toolCall[c].pc \in Starting)
        \/ ~clients'[k].cmd /\ toolCall[c].pc \in Starting /\ toolCall'[c].pc \notin Starting
    <3>1. CASE StartFailed(c)
      BY <1>1, <1>2, <1>3, <1>8, <1>9, <3>1 DEF StartFailed, StartClosed, ClientSet
    <3>2. CASE ~StartFailed(c)
      BY <1>2, <1>3, <1>8, <1>9, <3>2
    <3> QED
      BY <3>1, <3>2
  <2>2. toolCall[c].client = k /\ clients'[k].watch = clients[k].watch
    BY <1>k, <1>2, <1>3
  <2> QED
    BY <1>1, <1>3, <1>4, <1>6, <1>7, <1>9, <2>1, <2>2, BothMove

\* The client of the call becomes the cached one.
LEMMA InstallKeeps ==
  ASSUME LsInv, NEW c \in LspCalls, Install(c), mgr.client = NoOne
  PROVE  LsInv'
<1>k. PICK k : k = toolCall[c].client
  OBVIOUS
<1>1. /\ toolCall[c].pc = "install" /\ k \in Clients /\ clients[k] \in ClientSet /\ Sound(k) /\ clients[k].cmd
  BY <1>k, ItsClient DEF Install, Starting, LsInv, Owned
<1>2. PICK y \in ClientSet : y = [clients[k] EXCEPT !.watch = "watch"]
  BY <1>1 DEF ClientSet
<1>3. ClientsKept(k) /\ clients'[k] = y
  <2>1. clients' = [clients EXCEPT ![k] = y]
    BY <1>k, <1>1, <1>2 DEF Install, LoserCloses
  <2> QED
    BY <1>1, <2>1, ClientTo
<1>4. CallsKept(c) /\ toolCall'[c].pc = "file" /\ toolCall'[c].client = k
  <2>1. toolCall' = Went(c, "file")
    BY DEF Install
  <2> QED
    BY <1>k, <2>1, WentTo DEF Using
<1>5. mgr' = [mgr EXCEPT !.client = k] /\ mgr \in [lock : Nat, client : Nat] /\ mgr.lock = NoOne
  BY <1>k DEF Install, MuFree, LsInv, Shapes
<1>6. y.cmd = clients[k].cmd /\ y.watch = "watch" /\ y.locked = clients[k].locked /\ y.chan = clients[k].chan
      /\ y.pending = clients[k].pending /\ y.diags = clients[k].diags
  BY <1>1, <1>2 DEF ClientSet
<1>7. mgr'.client = k /\ mgr'.lock = mgr.lock /\ k # NoOne /\ k \in Nat
  BY <1>1, <1>5 DEF Clients, NoOne
<1>0. Clients' = Clients
  BY <1>3 DEF ClientsKept, Clients
<1>8. Shapes'
  BY <1>3, <1>4, <1>5, <1>7 DEF LsInv, Shapes, ClientsKept, CallsKept
<1>9. CacheRuns' /\ (\A j \in Clients' : Sound(j)')
  BY <1>0, <1>1, <1>3, <1>6, <1>7 DEF LsInv, CacheRuns, Sound, ClientsKept
<1>10. HoldsLock'
  <2>1. \A d \in LspCalls : toolCall'[d].pc # "losing"
    BY <1>4 DEF LsInv, HoldsLock, CallsKept
  <2>2. \A j \in Clients : clients'[j].watch # "closing"
    BY <1>3, <1>6 DEF LsInv, HoldsLock, ClientsKept, Clients, NoOne
  <2> QED
    BY <1>0, <1>7, <2>1, <2>2 DEF HoldsLock
<1>11. NoOrphan'
  BY <1>0, <1>k, <1>1, <1>3, <1>4, <1>6, <1>7 DEF LsInv, NoOrphan, ClientsKept, CallsKept, Clients, NoOne
<1>12. ASSUME NEW d \in LspCalls PROVE Placed(d)' /\ Owned(d)' /\ Asked(d)'
  <2>1. Placed(d)'
    BY <1>0, <1>1, <1>4, <1>7 DEF LsInv, Placed, CallsKept, Asking
  <2>2. Owned(d)'
    BY <1>0, <1>k, <1>1, <1>3, <1>4, <1>6, <1>7 DEF LsInv, Placed, Owned, ClientsKept, CallsKept, NoOne, Starting
  <2>3. Asked(d)'
    BY <1>0, <1>3, <1>4, <1>6 DEF LsInv, Placed, Asked, ClientsKept, CallsKept, NoOne, Using, Asking
  <2> QED
    BY <2>1, <2>2, <2>3
<1> QED
  BY <1>0, <1>8, <1>9, <1>10, <1>11, <1>12 DEF LsInv

\* The call that comes second closes its own client and takes the cached one.
LEMMA LoserKeeps ==
  ASSUME LsInv, NEW c \in LspCalls, (Install(c) /\ mgr.client # NoOne) \/ Lost(c)
  PROVE  LsInv'
<1>k. PICK k : k = toolCall[c].client
  OBVIOUS
<1>1. /\ toolCall[c].pc \in {"install", "losing"} /\ k \in Clients /\ clients[k] \in ClientSet /\ Sound(k) /\ clients[k].cmd
      /\ mgr.client # k /\ toolCall \in [LspCalls -> CallSet] /\ toolCall[c] \in CallSet
  BY <1>k, ItsClient DEF Install, Lost, Starting, LsInv, Owned, Shapes
<1>m. mgr \in [lock : Nat, client : Nat] /\ mgr.client \in Clients /\ mgr.client # NoOne /\ mgr.client \in Nat
  <2>1. mgr.client # NoOne
    BY DEF Lost, LsInv, HoldsLock
  <2> QED
    BY <2>1 DEF LsInv, Shapes, CacheRuns
<1>b. /\ \A j \in Clients : Watcher(j) # NoOne /\ Watcher(j) \notin LspCalls /\ Watcher(j) # Manager
      /\ Manager \notin LspCalls /\ Manager # NoOne /\ NoOne \notin LspCalls
  BY Holders
<1>2. PICK y \in ClientSet : /\ clients' = [clients EXCEPT ![k] = y] /\ y.watch = clients[k].watch
                            /\ y.pending = clients[k].pending /\ y.chan = clients[k].chan /\ y.diags = clients[k].diags
                            /\ \/ Install(c) /\ y.cmd /\ y.locked
                               \/ Lost(c) /\ ~y.cmd /\ ~y.locked
  <2>1. CASE Install(c) /\ mgr.client # NoOne
    <3>1. PICK y : y = [clients[k] EXCEPT !.locked = TRUE]
      OBVIOUS
    <3>2. y \in ClientSet
      BY <1>1, <3>1 DEF ClientSet
    <3>3. clients' = [clients EXCEPT ![k] = y]
      BY <1>1, <1>k, <2>1, <3>1 DEF Install, LoserCloses, Closing
    <3> QED
      BY <1>1, <2>1, <3>1, <3>2, <3>3 DEF ClientSet
  <2>2. CASE Lost(c)
    <3>1. PICK y : y = [clients[k] EXCEPT !.locked = FALSE, !.proc = FALSE, !.cmd = FALSE]
      OBVIOUS
    <3>2. y \in ClientSet
      BY <1>1, <3>1 DEF ClientSet
    <3>3. clients' = [clients EXCEPT ![k] = y]
      BY <1>1, <1>k, <2>2, <3>1 DEF Lost, Closed
    <3> QED
      BY <1>1, <2>2, <3>1, <3>2, <3>3 DEF ClientSet
  <2> QED
    BY <2>1, <2>2
<1>3. ClientsKept(k) /\ clients'[k] = y
  BY <1>1, <1>2, ClientTo
<1>4. /\ CallsKept(c) /\ mgr'.client = mgr.client /\ mgr' \in [lock : Nat, client : Nat]
      /\ \/ /\ Install(c) /\ toolCall'[c].pc = "losing" /\ toolCall'[c].client = k
            /\ mgr.lock = NoOne /\ mgr'.lock = c
         \/ /\ Lost(c) /\ toolCall'[c].pc = "file" /\ toolCall'[c].client = mgr.client
            /\ mgr.lock = c /\ mgr'.lock = NoOne
  <2>1. CASE Install(c) /\ mgr.client # NoOne
    <3>1. toolCall' = Went(c, "losing") /\ mgr' = [mgr EXCEPT !.lock = c] /\ mgr.lock = NoOne
      BY <2>1 DEF Install, LoserCloses, MuFree
    <3>2. c \in Nat
      BY LspAssumption
    <3> QED
      BY <1>k, <1>m, <2>1, <3>1, <3>2, WentTo DEF Starting
  <2>2. CASE Lost(c)
    <3>1. toolCall' = [toolCall EXCEPT ![c].pc = "file", ![c].client = mgr.client] /\ mgr' = [mgr EXCEPT !.lock = NoOne]
      BY <2>2 DEF Lost
    <3>2. PICK x : x = [toolCall[c] EXCEPT !.pc = "file", !.client = mgr.client]
      OBVIOUS
    <3>3. x \in CallSet /\ x.pc = "file" /\ x.client = mgr.client
      BY <1>1, <1>m, <3>2 DEF CallSet, Using
    <3>4. toolCall' = [toolCall EXCEPT ![c] = x]
      BY <1>1, <3>1, <3>2
    <3>5. CallsKept(c) /\ toolCall'[c] = x
      BY <1>1, <3>3, <3>4 DEF CallsKept
    <3>6. mgr.lock = c
      BY <2>2 DEF Lost, LsInv, HoldsLock
    <3> QED
      BY <1>m, <2>2, <3>1, <3>3, <3>5, <3>6 DEF NoOne
  <2> QED
    BY <2>1, <2>2
<1>0. Clients' = Clients
  BY <1>3 DEF ClientsKept, Clients
<1>8. Shapes'
  BY <1>3, <1>4 DEF LsInv, Shapes, ClientsKept, CallsKept
<1>9. CacheRuns' /\ (\A j \in Clients' : Sound(j)')
  BY <1>0, <1>1, <1>2, <1>3, <1>4 DEF LsInv, CacheRuns, Sound, ClientsKept
<1>10. HoldsLock'
  <2>1. \A d \in LspCalls : toolCall'[d].pc = "losing" => mgr'.lock = d
    BY <1>b, <1>4 DEF LsInv, HoldsLock, CallsKept
  <2>2. \A j \in Clients : clients'[j].watch # "closing"
    BY <1>b, <1>2, <1>3, <1>4 DEF LsInv, HoldsLock, ClientsKept
  <2>3. mgr'.lock # Manager
    BY <1>b, <1>4
  <2> QED
    BY <1>0, <1>m, <1>4, <2>1, <2>2, <2>3 DEF HoldsLock, Manager, NoOne
<1>11. NoOrphan'
  <2>1. ASSUME NEW j \in Clients, clients'[j].cmd, mgr.client # j
        PROVE  \E d \in LspCalls : toolCall'[d].client = j /\ toolCall'[d].pc \in Starting
    <3>1. CASE j = k
      <4>1. Install(c) /\ toolCall'[c].pc = "losing" /\ toolCall'[c].client = k
        <5>1. Install(c)
          BY <1>2, <1>3, <2>1, <3>1
        <5>2. ~Lost(c)
          BY <5>1 DEF Install, Lost
        <5> QED
          BY <1>4, <5>1, <5>2
      <4> QED
        BY <3>1, <4>1 DEF Starting
    <3>2. CASE j # k
      <4>1. PICK d \in LspCalls : toolCall[d].client = j /\ toolCall[d].pc \in Starting
        BY <1>3, <2>1, <3>2 DEF LsInv, NoOrphan, ClientsKept, Starting
      <4> QED
        BY <1>k, <1>4, <3>2, <4>1 DEF CallsKept
    <3> QED
      BY <3>1, <3>2
  <2> QED
    BY <1>0, <1>4, <2>1 DEF NoOrphan, Starting
<1>s. toolCall[c].pc \in Starting
  BY <1>1 DEF Starting
<1>12. ASSUME NEW d \in LspCalls PROVE Placed(d)' /\ Owned(d)' /\ Asked(d)'
  <2>1. Placed(d)'
    BY <1>0, <1>m, <1>1, <1>4 DEF LsInv, Placed, CallsKept, Asking, Clients, NoOne
  <2>2. Owned(d)'
    <3>1. CASE d = c
      <4>1. CASE Lost(c) /\ toolCall'[c].pc = "file"
        BY <3>1, <4>1 DEF Owned, Starting
      <4>2. CASE Install(c) /\ toolCall'[c].pc = "losing" /\ toolCall'[c].client = k
        <5>1. clients'[k].cmd /\ mgr'.client # k
          BY <1>1, <1>2, <1>3, <1>4, <4>2 DEF Install, Lost
        <5>2. \A e \in LspCalls : toolCall'[e].pc \in Starting /\ toolCall'[e].client = k => e = c
          BY <1>k, <1>4, <1>s DEF LsInv, Owned, CallsKept
        <5> QED
          BY <3>1, <4>2, <5>1, <5>2 DEF Owned
      <4> QED
        BY <1>4, <4>1, <4>2
    <3>2. CASE d # c
      BY <1>0, <1>k, <1>1, <1>2, <1>3, <1>4, <1>s, <3>2 DEF LsInv, Placed, Owned, ClientsKept, CallsKept, NoOne, Starting
    <3> QED
      BY <3>1, <3>2
  <2>3. Asked(d)'
    BY <1>0, <1>2, <1>3, <1>4 DEF LsInv, Placed, Asked, ClientsKept, CallsKept, NoOne, Using, Asking
  <2> QED
    BY <2>1, <2>2, <2>3
<1> QED
  BY <1>0, <1>8, <1>9, <1>10, <1>11, <1>12 DEF LsInv

\* The steps of the server, its reader and the watcher that leave the cache alone.
LEMMA ServerKeeps ==
  ASSUME LsInv, NEW k \in Clients,
         Numbered(k) \/ Published(k) \/ ProcDies(k) \/ IdleSeen(k) \/ (IdleWatch(k) /\ mgr.client # k)
  PROVE  LsInv'
<1>1. clients[k] \in ClientSet /\ Sound(k)
  BY DEF LsInv, Shapes, Clients
<1>2. ASSUME NEW y \in ClientSet, clients' = [clients EXCEPT ![k] = y], UNCHANGED <<toolCall, mgr>>,
             y.cmd = clients[k].cmd, y.locked => clients[k].locked, y.watch # "closing" \/ y.watch = clients[k].watch,
             Len(y.chan) <= 1, y.pending => y.chan = <<>>,
             \A c \in LspCalls : toolCall[c].pc \in Asking /\ toolCall[c].client = k =>
               \A waiting \in y.diags[Head(toolCall[c].files)] : c \in waiting
      PROVE  LsInv'
  <2>1. ClientsKept(k) /\ clients'[k] = y
    BY <1>2, ClientTo
  <2>2. Sound(k)'
    BY <1>1, <1>2, <2>1 DEF Sound
  <2>3. \A c \in LspCalls : toolCall[c].client = k => Asked(c)'
    BY <1>2, <2>1 DEF Asked
  <2> QED
    BY <1>2, <2>1, <2>2, <2>3, ClientMoves
<1>3. \A c \in LspCalls : toolCall[c].pc \in Asking /\ toolCall[c].client = k =>
         \A waiting \in clients[k].diags[Head(toolCall[c].files)] : c \in waiting
  BY DEF LsInv, Asked
<1>4. CASE Numbered(k)
  <2>1. PICK a \in {"ok", "error"} : clients' = [clients EXCEPT ![k].pending = FALSE, ![k].chan = Append(@, a)]
    BY <1>4 DEF Numbered, PendingTaken
  <2>2. PICK y : y = [clients[k] EXCEPT !.pending = FALSE, !.chan = Append(@, a)]
    OBVIOUS
  <2>3. clients[k].chan = <<>> /\ clients[k].chan \in Seq({"ok", "error"})
    BY <1>1, <1>4 DEF Numbered, Sound, ClientSet
  <2>4. Append(clients[k].chan, a) \in Seq({"ok", "error"}) /\ Len(Append(clients[k].chan, a)) <= 1
    BY <2>3
  <2>5. y \in ClientSet /\ y.pending = FALSE /\ Len(y.chan) <= 1 /\ y.cmd = clients[k].cmd /\ y.locked = clients[k].locked
        /\ y.watch = clients[k].watch /\ y.diags = clients[k].diags
    BY <1>1, <2>2, <2>4 DEF ClientSet
  <2>6. clients' = [clients EXCEPT ![k] = y]
    BY <1>1, <2>1, <2>2
  <2> QED
    BY <1>2, <1>3, <1>4, <2>5, <2>6 DEF Numbered
<1>5. CASE Published(k)
  <2>1. PICK f \in clients[k].opened, items \in {{}, {Waiting(k)}} : clients' = [clients EXCEPT ![k].diags[f] = items]
    BY <1>5 DEF Published
  <2>2. PICK y : y = [clients[k] EXCEPT !.diags = [clients[k].diags EXCEPT ![f] = items]]
    OBVIOUS
  <2>3. items \in SUBSET SUBSET LspCalls /\ f \in AllFiles /\ clients[k].diags \in [AllFiles -> SUBSET SUBSET LspCalls]
    BY <1>1, <2>1 DEF ClientSet, Waiting
  <2>4. y \in ClientSet /\ y.diags = [clients[k].diags EXCEPT ![f] = items]
    BY <1>1, <2>2, <2>3 DEF ClientSet
  <2>5. y.pending = clients[k].pending /\ y.chan = clients[k].chan /\ y.cmd = clients[k].cmd /\ y.locked = clients[k].locked
        /\ y.watch = clients[k].watch
    BY <1>1, <2>2 DEF ClientSet
  <2>6. clients' = [clients EXCEPT ![k] = y]
    BY <1>1, <2>1, <2>2
  <2>7. ASSUME NEW c \in LspCalls, toolCall[c].pc \in Asking, toolCall[c].client = k,
               NEW waiting \in y.diags[Head(toolCall[c].files)]
        PROVE  c \in waiting
    <3>1. c \in Waiting(k)
      BY <2>7 DEF Waiting, Asking
    <3>2. CASE Head(toolCall[c].files) = f
      BY <2>1, <2>3, <2>4, <2>7, <3>1, <3>2
    <3>3. CASE Head(toolCall[c].files) # f
      <4>1. y.diags[Head(toolCall[c].files)] = clients[k].diags[Head(toolCall[c].files)]
        <5>1. Head(toolCall[c].files) \in AllFiles
          <6>1. toolCall[c].files \in Seq(AllFiles) /\ toolCall[c].files # <<>>
            BY <2>7 DEF LsInv, Shapes, Placed, CallSet
          <6> QED
            BY <6>1
        <5> QED
          BY <2>3, <2>4, <3>3, <5>1
      <4> QED
        BY <1>3, <2>7, <4>1
    <3> QED
      BY <3>2, <3>3
  <2>8. UNCHANGED <<toolCall, mgr>> /\ Len(y.chan) <= 1 /\ (y.pending => y.chan = <<>>)
    BY <1>1, <1>5, <2>5 DEF Published, Sound
  <2> QED
    BY <1>2, <2>4, <2>5, <2>6, <2>7, <2>8
<1>6. CASE ProcDies(k) \/ IdleSeen(k) \/ (IdleWatch(k) /\ mgr.client # k)
  <2>1. PICK y \in ClientSet : /\ clients' = [clients EXCEPT ![k] = y] /\ y.pending = clients[k].pending
                               /\ y.chan = clients[k].chan
                              /\ y.cmd = clients[k].cmd /\ y.locked = clients[k].locked /\ y.diags = clients[k].diags
                              /\ (y.watch # "closing" \/ y.watch = clients[k].watch)
    <3>1. CASE ProcDies(k)
      <4>1. PICK y : y = [clients[k] EXCEPT !.proc = FALSE]
        OBVIOUS
      <4>5. y \in ClientSet
        BY <1>1, <4>1 DEF ClientSet
      <4>6. y.cmd = clients[k].cmd /\ y.locked = clients[k].locked /\ y.watch = clients[k].watch
            /\ y.pending = clients[k].pending /\ y.chan = clients[k].chan /\ y.diags = clients[k].diags
        BY <1>1, <4>1 DEF ClientSet
      <4> QED
        BY <1>1, <3>1, <4>1, <4>5, <4>6 DEF ProcDies
    <3>2. CASE IdleSeen(k)
      <4>1. PICK y : y = [clients[k] EXCEPT !.watch = "seen"]
        OBVIOUS
      <4>5. y \in ClientSet
        BY <1>1, <4>1 DEF ClientSet
      <4>6. y.cmd = clients[k].cmd /\ y.locked = clients[k].locked /\ y.watch = "seen"
            /\ y.pending = clients[k].pending /\ y.chan = clients[k].chan /\ y.diags = clients[k].diags
        BY <1>1, <4>1 DEF ClientSet
      <4> QED
        BY <1>1, <3>2, <4>1, <4>5, <4>6 DEF IdleSeen
    <3>3. CASE IdleWatch(k) /\ mgr.client # k
      <4>1. PICK y : y = [clients[k] EXCEPT !.watch = "over"]
        OBVIOUS
      <4>5. y \in ClientSet
        BY <1>1, <4>1 DEF ClientSet
      <4>6. y.cmd = clients[k].cmd /\ y.locked = clients[k].locked /\ y.watch = "over"
            /\ y.pending = clients[k].pending /\ y.chan = clients[k].chan /\ y.diags = clients[k].diags
        BY <1>1, <4>1 DEF ClientSet
      <4> QED
        BY <1>1, <3>3, <4>1, <4>5, <4>6 DEF IdleWatch
    <3> QED
      BY <1>6, <3>1, <3>2, <3>3
  <2>2. UNCHANGED <<toolCall, mgr>>
    BY <1>6 DEF ProcDies, IdleSeen, IdleWatch
  <2>3. Len(y.chan) <= 1 /\ (y.pending => y.chan = <<>>)
    BY <1>1, <2>1 DEF Sound
  <2> QED
    BY <1>2, <1>3, <2>1, <2>2, <2>3
<1> QED
  BY <1>4, <1>5, <1>6

\* The steps that close what is cached.
LEMMA CloseKeeps ==
  ASSUME LsInv,
         \/ \E k \in Clients : (IdleWatch(k) /\ mgr.client = k) \/ IdleClosed(k)
         \/ ManagerClose \/ ManagerClosed
  PROVE  LsInv'
<1>m. mgr \in [lock : Nat, client : Nat]
  BY DEF LsInv, Shapes
<1>b. \A j \in Clients : Watcher(j) # Manager
  BY Holders
<1>k. PICK k : k = mgr.client
  OBVIOUS
<1>1. k \in Clients /\ clients[k] \in ClientSet /\ Sound(k) /\ clients[k].cmd /\ mgr.client = k
  <2>1. mgr.client # NoOne
    BY DEF LsInv, HoldsLock, IdleWatch, IdleClosed, ManagerClose, ManagerClosed, Clients, NoOne
  <2> QED
    BY <1>k, <2>1 DEF LsInv, Shapes, CacheRuns, Clients
<1>2. CASE (IdleWatch(k) /\ mgr.client = k) \/ ManagerClose
  <2>1. PICK y \in ClientSet : /\ clients' = [clients EXCEPT ![k] = y] /\ y.cmd /\ y.pending = clients[k].pending
                              /\ y.chan = clients[k].chan /\ y.diags = clients[k].diags
                              /\ \/ y.watch = "closing" /\ mgr' = [mgr EXCEPT !.lock = Watcher(k)]
                                 \/ y.watch = clients[k].watch /\ mgr' = [mgr EXCEPT !.lock = Manager]
    <3>1. CASE IdleWatch(k) /\ mgr.client = k
      <4>1. PICK y : y = [clients[k] EXCEPT !.locked = TRUE, !.watch = "closing"]
        OBVIOUS
      <4>2. clients' = [clients EXCEPT ![k] = y] /\ mgr' = [mgr EXCEPT !.lock = Watcher(k)]
        BY <1>1, <3>1, <4>1 DEF IdleWatch, Closing
      <4>5. y \in ClientSet
        BY <1>1, <4>1 DEF ClientSet
      <4>6. y.cmd = clients[k].cmd /\ y.watch = "closing"
            /\ y.pending = clients[k].pending /\ y.chan = clients[k].chan /\ y.diags = clients[k].diags
        BY <1>1, <4>1 DEF ClientSet
      <4> QED
        BY <1>1, <4>2, <4>5, <4>6
    <3>2. CASE ManagerClose
      <4>1. PICK y : y = [clients[k] EXCEPT !.locked = TRUE]
        OBVIOUS
      <4>2. clients' = [clients EXCEPT ![k] = y] /\ mgr' = [mgr EXCEPT !.lock = Manager]
        BY <1>1, <3>2, <4>1 DEF ManagerClose, Closing
      <4>5. y \in ClientSet
        BY <1>1, <4>1 DEF ClientSet
      <4>6. y.cmd = clients[k].cmd /\ y.watch = clients[k].watch
            /\ y.pending = clients[k].pending /\ y.chan = clients[k].chan /\ y.diags = clients[k].diags
        BY <1>1, <4>1 DEF ClientSet
      <4> QED
        BY <1>1, <4>2, <4>5, <4>6
    <3> QED
      BY <1>2, <3>1, <3>2
  <2>2. ClientsKept(k) /\ clients'[k] = y
    BY <1>1, <2>1, ClientTo
  <2>3. UNCHANGED toolCall /\ mgr.lock = NoOne
    BY <1>2 DEF IdleWatch, ManagerClose, MuFree
  <2>4. Sound(k)'
    BY <1>1, <2>1, <2>2 DEF Sound
  <2>5. Watcher(k) \in Nat /\ Manager \in Nat
    BY <1>1, LspAssumption DEF Watcher, Manager, Clients
  <2>6. mgr' \in [lock : Nat, client : Nat] /\ mgr'.client = k
        /\ (\/ mgr'.lock = Watcher(k) /\ y.watch = "closing"
            \/ mgr'.lock = Manager /\ y.watch = clients[k].watch)
    BY <1>m, <1>1, <2>1, <2>5
  <2> QED
    BY <1>1, <2>1, <2>2, <2>3, <2>4, <2>6, CacheMoves
<1>3. CASE IdleClosed(k) \/ ManagerClosed
  <2>0. \/ mgr.lock = Watcher(k) \/ (mgr.lock = Manager /\ clients[k].watch # "closing")
    BY <1>b, <1>1, <1>3 DEF LsInv, HoldsLock, IdleClosed, ManagerClosed
  <2>1. PICK y \in ClientSet : /\ clients' = [clients EXCEPT ![k] = y] /\ ~y.cmd /\ ~y.locked /\ y.pending = clients[k].pending
                              /\ y.chan = clients[k].chan /\ y.diags = clients[k].diags /\ y.watch # "closing"
    <3>1. CASE IdleClosed(k)
      <4>1. PICK y : y = [clients[k] EXCEPT !.locked = FALSE, !.proc = FALSE, !.cmd = FALSE, !.watch = "over"]
        OBVIOUS
      <4>2. clients' = [clients EXCEPT ![k] = y]
        BY <1>1, <3>1, <4>1 DEF IdleClosed, Closed
      <4>5. y \in ClientSet
        BY <1>1, <4>1 DEF ClientSet
      <4>6. ~y.cmd /\ ~y.locked /\ y.watch = "over"
            /\ y.pending = clients[k].pending /\ y.chan = clients[k].chan /\ y.diags = clients[k].diags
        BY <1>1, <4>1 DEF ClientSet
      <4> QED
        BY <4>2, <4>5, <4>6
    <3>2. CASE ManagerClosed
      <4>1. PICK y : y = [clients[k] EXCEPT !.locked = FALSE, !.proc = FALSE, !.cmd = FALSE]
        OBVIOUS
      <4>2. clients' = [clients EXCEPT ![k] = y]
        BY <1>1, <3>2, <4>1 DEF ManagerClosed, Closed
      <4>3. clients[k].watch # "closing"
        BY <1>b, <1>1, <3>2 DEF LsInv, HoldsLock, ManagerClosed
      <4>5. y \in ClientSet
        BY <1>1, <4>1 DEF ClientSet
      <4>6. ~y.cmd /\ ~y.locked /\ y.watch = clients[k].watch
            /\ y.pending = clients[k].pending /\ y.chan = clients[k].chan /\ y.diags = clients[k].diags
        BY <1>1, <4>1 DEF ClientSet
      <4> QED
        BY <4>2, <4>3, <4>5, <4>6
    <3> QED
      BY <1>3, <3>1, <3>2
  <2>2. ClientsKept(k) /\ clients'[k] = y
    BY <1>1, <2>1, ClientTo
  <2>3. UNCHANGED toolCall /\ mgr' = Uncached
    BY <1>3 DEF IdleClosed, ManagerClosed
  <2>4. Sound(k)'
    BY <1>1, <2>1, <2>2 DEF Sound
  <2>5. mgr' \in [lock : Nat, client : Nat]
    BY <2>3 DEF Uncached, NoOne
  <2> QED
    BY <1>1, <2>0, <2>1, <2>2, <2>3, <2>4, <2>5, CacheMoves
<1>4. ASSUME NEW j \in Clients, IdleClosed(j) PROVE j = k
  BY <1>k, <1>4 DEF LsInv, HoldsLock, IdleClosed
<1> QED
  BY <1>k, <1>2, <1>3, <1>4

\* A set of numbers has its least.
LEMMA Least ==
  ASSUME NEW D \in SUBSET Nat, D # {}
  PROVE  \E n \in D : \A m \in D : n <= m
<1> DEFINE LessThan == {p \in Nat \X Nat : p[1] < p[2]}
<1>1. IsWellFoundedOn(LessThan, Nat)
  BY ZenonT(20), NatLessThanWellFounded DEF OpToRel
<1>2. PICK n \in D : \A m \in D : ~ (<<m, n>> \in LessThan)
  <2> HIDE DEF LessThan
  <2> QED
    BY <1>1, WFMin
<1>3. ASSUME NEW m \in D PROVE n <= m
  <2>1. ~ (<<m, n>> \in LessThan)
    BY <1>2
  <2>2. ~ (m < n)
    BY <2>1
  <2> QED
    BY <2>2
<1> QED
  BY <1>3

\* From a start, and a step of each number that stays in the set, there is one value after another.
Steps(h, first, F, n) == h[0] = first /\ \A i \in 1..n : h[i] = F[i][h[i - 1]]
LEMMA StepsExist ==
  ASSUME NEW n \in Nat, NEW S, NEW first \in S, NEW F, \A i \in 1..n : F[i] \in [S -> S]
  PROVE  \E h \in [0..n -> S] : Steps(h, first, F, n)
<1> DEFINE Has(k) == \E h \in [0..k -> S] : Steps(h, first, F, k)
           D == {k \in 0..n : ~ Has(k)}
<1>1. CASE D # {}
  <2>0. D \in SUBSET Nat
    OBVIOUS
  <2>1. PICK k \in D : \A m \in D : k <= m
    <3> HIDE DEF D
    <3> QED
      BY <1>1, <2>0, Least
  <2>2. k # 0
    <3>1. [i \in 0..0 |-> first] \in [0..0 -> S] /\ Steps([i \in 0..0 |-> first], first, F, 0)
      BY DEF Steps
    <3> QED
      BY <3>1
  <2>3. k - 1 \in 0..n /\ Has(k - 1) /\ k \in 1..n /\ ~Has(k)
    <3> HIDE DEF Has
    <3>1. k \in 0..n /\ k \in Int /\ ~Has(k)
      BY <2>1
    <3>2. k - 1 \in 0..n /\ k \in 1..n /\ ~(k <= k - 1)
      BY <2>2, <3>1
    <3>3. k - 1 \notin D
      BY <2>1, <3>2
    <3> QED
      BY <3>1, <3>2, <3>3
  <2>4. PICK f \in [0..(k - 1) -> S] : Steps(f, first, F, k - 1)
    BY <2>3
  <2>5. f[k - 1] \in S /\ F[k][f[k - 1]] \in S
    BY <2>3
  <2> DEFINE g == [i \in 0..k |-> IF i = k THEN F[k][f[k - 1]] ELSE f[i]]
  <2>6. g \in [0..k -> S]
    BY <2>3, <2>5
  <2>7. g[0] = first
    BY <2>2, <2>3, <2>4 DEF Steps
  <2>8. ASSUME NEW i \in 1..k PROVE g[i] = F[i][g[i - 1]]
    <3>1. CASE i = k
      BY <2>3, <3>1
    <3>2. CASE i # k
      <4>1. i \in 1..(k - 1) /\ i \in 0..k /\ i - 1 \in 0..k /\ i - 1 # k
        BY <3>2
      <4>2. f[i] = F[i][f[i - 1]]
        BY <2>4, <4>1 DEF Steps
      <4> QED
        BY <3>2, <4>1, <4>2
    <3> QED
      BY <3>1, <3>2
  <2> HIDE DEF g
  <2>9. Has(k)
    BY <2>6, <2>7, <2>8 DEF Steps
  <2> QED
    BY <2>3, <2>9
<1>2. CASE D = {}
  <2>1. n \in 0..n /\ Has(n)
    <3> HIDE DEF Has
    <3> QED
      BY <1>2
  <2> QED
    BY <2>1
<1> QED
  BY <1>1, <1>2

\* What stays in a set from one number to the next is in it.
LEMMA StaysIn ==
  ASSUME NEW n \in Nat, NEW S, NEW h, h[0] \in S, \A i \in 1..n : h[i - 1] \in S => h[i] \in S
  PROVE  \A i \in 0..n : h[i] \in S
<1> DEFINE D == {i \in 0..n : h[i] \notin S}
<1>1. D \in SUBSET Nat
  OBVIOUS
<1>2. CASE D # {}
  <2>1. PICK k \in D : \A m \in D : k <= m
    <3> HIDE DEF D
    <3> QED
      BY <1>1, <1>2, Least
  <2>2. k # 0
    BY <2>1
  <2>3. k - 1 \in 0..n /\ k \in 1..n /\ k - 1 \notin D
    BY <2>1, <2>2
  <2> QED
    BY <2>1, <2>3
<1> QED
  BY <1>2

Progress == [files : Seq(AllFiles), full : BOOLEAN]

\* What a walk takes are files, and so is what a call asks about.
LEMMA WalkFiles ==
  ASSUME NEW files \in Seq(AllFiles), NEW fs \in Seq(AllFiles)
  PROVE  Walk(files, fs) \in Seq(AllFiles)
<1>n. PICK n \in Nat : n = Len(fs)
  OBVIOUS
<1>1. MaxFilesPerCall \in Nat
  BY LspAssumption
<1> DEFINE Taken(q, f) ==
             IF q.full THEN q
             ELSE [files |-> TryAddFile(q.files, f), full |-> Len(TryAddFile(q.files, f)) >= MaxFilesPerCall]
           Fix(h) == h = [i \in 0..n |-> IF i = 0 THEN [files |-> files, full |-> FALSE] ELSE Taken(h[i - 1], fs[i])]
           F == [i \in 1..n |-> [q \in Progress |-> Taken(q, fs[i])]]
           first == [files |-> files, full |-> FALSE]
<1>2. ASSUME NEW q \in Progress, NEW f \in AllFiles PROVE Taken(q, f) \in Progress
  <2>1. q.files \in Seq(AllFiles)
    BY DEF Progress
  <2>2. TryAddFile(q.files, f) \in Seq(AllFiles)
    BY <2>1 DEF TryAddFile
  <2>3. (Len(TryAddFile(q.files, f)) >= MaxFilesPerCall) \in BOOLEAN
    OBVIOUS
  <2> QED
    BY <2>2, <2>3 DEF Progress
<1>3. \A i \in 1..n : fs[i] \in AllFiles
  BY <1>n
<1>4. first \in Progress
  BY DEF Progress
<1> HIDE DEF Taken, first
<1>5. \A i \in 1..n : F[i] \in [Progress -> Progress]
  BY <1>2, <1>3
<1>6. PICK g \in [0..n -> Progress] : Steps(g, first, F, n)
  <2> HIDE DEF F
  <2> QED
    BY <1>4, <1>5, StepsExist
<1>7. Fix(g)
  <2>1. \A i \in 1..n : g[i] = Taken(g[i - 1], fs[i])
    <3> SUFFICES ASSUME NEW i \in 1..n PROVE g[i] = Taken(g[i - 1], fs[i])
      OBVIOUS
    <3>1. g[i - 1] \in Progress
      OBVIOUS
    <3>2. g[i] = F[i][g[i - 1]]
      BY <1>6 DEF Steps
    <3> QED
      BY <3>1, <3>2
  <2>2. g[0] = [files |-> files, full |-> FALSE]
    BY <1>6 DEF Steps, first
  <2> DEFINE r == [i \in 0..n |-> IF i = 0 THEN [files |-> files, full |-> FALSE] ELSE Taken(g[i - 1], fs[i])]
  <2>3. \A i \in 0..n : g[i] = r[i]
    BY <2>1, <2>2
  <2> QED
    BY <2>3
<1>8. PICK h : h = (CHOOSE d : Fix(d))
  OBVIOUS
<1>9. Fix(h)
  <2> HIDE DEF Fix
  <2> QED
    BY <1>7, <1>8
<1>10. Walk(files, fs) = h[n].files
  BY <1>n, <1>8 DEF Walk, Taken
<1>11. h[0] = first /\ \A i \in 1..n : h[i] = Taken(h[i - 1], fs[i])
  <2>1. \A i \in 0..n : h[i] = IF i = 0 THEN [files |-> files, full |-> FALSE] ELSE Taken(h[i - 1], fs[i])
    BY <1>9
  <2>2. 0 \in 0..n /\ \A i \in 1..n : i \in 0..n /\ i # 0
    OBVIOUS
  <2> HIDE DEF Fix
  <2>3. h[0] = first
    BY <2>1, <2>2 DEF first
  <2> QED
    BY <2>1, <2>2, <2>3
<1>12. \A i \in 1..n : h[i - 1] \in Progress => h[i] \in Progress
  BY <1>2, <1>3, <1>11
<1>13. \A i \in 0..n : h[i] \in Progress
  BY <1>4, <1>11, <1>12, StaysIn
<1> QED
  BY <1>10, <1>13 DEF Progress

LEMMA CollectFiles ==
  ASSUME NEW ps \in PathLists
  PROVE  Collect(ps) \in Seq(AllFiles)
<1>n. PICK n \in Nat : n = Len(ps) /\ \A i \in 1..n : ps[i] \in DOMAIN Within
  BY LspAssumption
<1>1. MaxFilesPerCall \in Nat
  BY LspAssumption
<1>w. ASSUME NEW p \in DOMAIN Within PROVE Within[p] \in Seq(AllFiles)
  <2>1. Within[p] \in Seq(ToSet(Within[p])) /\ ToSet(Within[p]) \subseteq AllFiles
    BY LspAssumption DEF AllFiles
  <2> QED
    BY <2>1
<1> DEFINE Taken(q, p) ==
             IF q.full THEN q
             ELSE [files |-> Walk(q.files, Within[p]),
                   full |-> ~IsDir(p) /\ Len(Walk(q.files, Within[p])) >= MaxFilesPerCall]
           Fix(h) == h = [i \in 0..n |-> IF i = 0 THEN [files |-> <<>>, full |-> FALSE] ELSE Taken(h[i - 1], ps[i])]
           F == [i \in 1..n |-> [q \in Progress |-> Taken(q, ps[i])]]
           first == [files |-> <<>>, full |-> FALSE]
<1>2. ASSUME NEW q \in Progress, NEW p \in DOMAIN Within PROVE Taken(q, p) \in Progress
  <2>1. q.files \in Seq(AllFiles)
    BY DEF Progress
  <2>2. Walk(q.files, Within[p]) \in Seq(AllFiles)
    BY <2>1, <1>w, WalkFiles
  <2>3. (~IsDir(p) /\ Len(Walk(q.files, Within[p])) >= MaxFilesPerCall) \in BOOLEAN
    OBVIOUS
  <2> QED
    BY <2>2, <2>3 DEF Progress
<1>4. first \in Progress
  BY DEF Progress
<1> HIDE DEF Taken, first
<1>5. \A i \in 1..n : F[i] \in [Progress -> Progress]
  BY <1>2, <1>n
<1>6. PICK g \in [0..n -> Progress] : Steps(g, first, F, n)
  <2> HIDE DEF F
  <2> QED
    BY <1>4, <1>5, StepsExist
<1>7. Fix(g)
  <2>1. \A i \in 1..n : g[i] = Taken(g[i - 1], ps[i])
    <3> SUFFICES ASSUME NEW i \in 1..n PROVE g[i] = Taken(g[i - 1], ps[i])
      OBVIOUS
    <3>1. g[i - 1] \in Progress
      OBVIOUS
    <3>2. g[i] = F[i][g[i - 1]]
      BY <1>6 DEF Steps
    <3> QED
      BY <3>1, <3>2
  <2>2. g[0] = [files |-> <<>>, full |-> FALSE]
    BY <1>6 DEF Steps, first
  <2> DEFINE r == [i \in 0..n |-> IF i = 0 THEN [files |-> <<>>, full |-> FALSE] ELSE Taken(g[i - 1], ps[i])]
  <2>3. \A i \in 0..n : g[i] = r[i]
    BY <2>1, <2>2
  <2> QED
    BY <2>3
<1>8. PICK h : h = (CHOOSE d : Fix(d))
  OBVIOUS
<1>9. Fix(h)
  <2> HIDE DEF Fix
  <2> QED
    BY <1>7, <1>8
<1>10. Collect(ps) = h[n].files
  BY <1>n, <1>8 DEF Collect, Taken
<1>11. h[0] = first /\ \A i \in 1..n : h[i] = Taken(h[i - 1], ps[i])
  <2>1. \A i \in 0..n : h[i] = IF i = 0 THEN [files |-> <<>>, full |-> FALSE] ELSE Taken(h[i - 1], ps[i])
    BY <1>9
  <2>2. 0 \in 0..n /\ \A i \in 1..n : i \in 0..n /\ i # 0
    OBVIOUS
  <2> HIDE DEF Fix
  <2>3. h[0] = first
    BY <2>1, <2>2 DEF first
  <2> QED
    BY <2>1, <2>2, <2>3
<1>12. \A i \in 1..n : h[i - 1] \in Progress => h[i] \in Progress
  BY <1>2, <1>n, <1>11
<1>13. \A i \in 0..n : h[i] \in Progress
  BY <1>4, <1>11, <1>12, StaysIn
<1> QED
  BY <1>10, <1>13 DEF Progress

\* The first step of a call,
LEMMA ExecuteKeeps ==
  ASSUME LsInv, NEW c \in LspCalls, ExecuteDiagnostics(c)
  PROVE  LsInv'
<1>1. toolCall \in [LspCalls -> CallSet] /\ toolCall[c] \in CallSet /\ toolCall[c].pc = "new"
  BY DEF LsInv, Shapes, ExecuteDiagnostics
<1>2. CallsKept(c) /\ toolCall'[c].client = toolCall[c].client /\ toolCall'[c].pc \in {"ensure", "over"}
  <2>1. CASE toolCall' = Went(c, "ensure")
    BY <2>1, WentTo
  <2>2. ASSUME NEW ps \in PathLists,
               toolCall' = [toolCall EXCEPT ![c].pc = IF HasServer THEN "ensure" ELSE "over", ![c].files = Collect(ps)]
        PROVE  CallsKept(c) /\ toolCall'[c].client = toolCall[c].client /\ toolCall'[c].pc \in {"ensure", "over"}
    <3>1. PICK x : x = [toolCall[c] EXCEPT !.pc = IF HasServer THEN "ensure" ELSE "over", !.files = Collect(ps)]
      OBVIOUS
    <3>2. x \in CallSet /\ x.client = toolCall[c].client /\ x.pc \in {"ensure", "over"}
      <4>1. Collect(ps) \in Seq(AllFiles)
        BY CollectFiles
      <4> QED
        BY <1>1, <3>1, <4>1 DEF CallSet
    <3>3. toolCall' = [toolCall EXCEPT ![c] = x]
      BY <1>1, <2>2, <3>1
    <3> QED
      BY <1>1, <3>2, <3>3 DEF CallsKept
  <2> QED
    BY <2>1, <2>2 DEF ExecuteDiagnostics
<1>3. UNCHANGED <<clients, mgr>>
  BY DEF ExecuteDiagnostics
<1>4. Placed(c)' /\ Asked(c)'
  BY <1>2, <1>3 DEF LsInv, Placed, Asked, Starting, Using, Asking, Clients
<1> QED
  BY <1>1, <1>2, <1>3, <1>4, CallMoves DEF Starting

\* The look at the cache,
LEMMA CachedKeeps ==
  ASSUME LsInv, NEW c \in LspCalls, Cached(c)
  PROVE  LsInv'
<1>1. toolCall \in [LspCalls -> CallSet] /\ toolCall[c] \in CallSet /\ toolCall[c].pc = "ensure" /\ UNCHANGED <<clients, mgr>>
  BY DEF LsInv, Shapes, Cached
<1>2. CallsKept(c) /\ toolCall'[c].pc \in {"file", "over", "start"} /\ toolCall'[c].client \in {NoOne} \cup Clients
      /\ (toolCall'[c].pc = "file" => toolCall'[c].client # NoOne)
  <2>1. CASE mgr.client # NoOne /\ toolCall' = [toolCall EXCEPT ![c].pc = "file", ![c].client = mgr.client]
    <3>1. PICK x : x = [toolCall[c] EXCEPT !.pc = "file", !.client = mgr.client]
      OBVIOUS
    <3>2. mgr.client \in Clients /\ mgr.client \in Nat
      BY <2>1 DEF LsInv, CacheRuns, Shapes
    <3>3. x \in CallSet /\ x.client = mgr.client /\ x.pc = "file"
      BY <1>1, <3>1, <3>2 DEF CallSet, Using
    <3>4. toolCall' = [toolCall EXCEPT ![c] = x]
      BY <1>1, <2>1, <3>1
    <3>5. CallsKept(c) /\ toolCall'[c] = x
      BY <1>1, <3>3, <3>4 DEF CallsKept
    <3> QED
      BY <2>1, <3>2, <3>3, <3>5
  <2>2. toolCall[c].client \in {NoOne} \cup Clients
    BY DEF LsInv, Placed
  <2>3. CASE toolCall' = CallIsOver(c, "error")
    BY <2>2, <2>3, OverTo
  <2>4. CASE toolCall' = Went(c, "start")
    BY <2>2, <2>4, WentTo
  <2> QED
    BY <2>1, <2>3, <2>4 DEF Cached
<1>4. Placed(c)' /\ Asked(c)'
  BY <1>1, <1>2 DEF Placed, Asked, Starting, Using, Asking, Clients
<1> QED
  BY <1>1, <1>2, <1>4, CallMoves DEF Starting

\* The start of a client, which is no call's but this one's,
LEMMA StartServerKeeps ==
  ASSUME LsInv, NEW c \in LspCalls, StartServer(c)
  PROVE  LsInv'
<1>1. toolCall \in [LspCalls -> CallSet] /\ toolCall[c] \in CallSet /\ toolCall[c].pc = "start" /\ UNCHANGED mgr
  BY DEF LsInv, Shapes, StartServer
<1>2. CASE toolCall' = CallIsOver(c, "error") /\ UNCHANGED clients
  <2>1. CallsKept(c) /\ toolCall'[c].pc = "over" /\ toolCall'[c].client = toolCall[c].client
    BY <1>2, OverTo
  <2>2. Placed(c)' /\ Asked(c)'
    BY <1>2, <2>1 DEF LsInv, Placed, Asked, Starting, Using, Asking, Clients
  <2> QED
    BY <1>1, <1>2, <2>1, <2>2, CallMoves DEF Starting
<1>3. CASE /\ Len(clients) < MaxClients /\ clients' = Append(clients, NewClient(c))
           /\ toolCall' = [toolCall EXCEPT ![c].pc = "init", ![c].client = Len(clients) + 1]
  <2>0. PICK y : y = NewClient(c)
    OBVIOUS
  <2>a. clients \in Seq(ClientSet) /\ Len(clients) \in Nat /\ MaxClients \in Nat
    BY LspAssumption DEF LsInv, Shapes
  <2>1. PICK n \in Nat : n = Len(clients) /\ n < MaxClients /\ MaxClients \in Nat /\ clients \in Seq(ClientSet)
    BY <1>3, <2>a
  <2>2. y \in ClientSet /\ y.cmd /\ ~y.locked /\ y.chan = <<>> /\ y.watch = "off"
    <3>1. [f \in AllFiles |-> {}] \in [AllFiles -> SUBSET SUBSET LspCalls]
      OBVIOUS
    <3> QED
      BY <2>0, <3>1 DEF ClientSet, NewClient
  <2>3. /\ clients' \in Seq(ClientSet) /\ Len(clients') = n + 1 /\ clients'[n + 1] = y
        /\ \A j \in 1..n : clients'[j] = clients[j]
    BY <1>3, <2>0, <2>1, <2>2
  <2>4. Clients = 1..n /\ Clients' = 1..(n + 1) /\ n + 1 \notin Clients /\ n + 1 \in Nat
        /\ n + 1 # NoOne /\ Clients \subseteq Clients'
        /\ Clients' = Clients \cup {n + 1}
    BY <2>1, <2>3 DEF Clients, NoOne
  <2>5. PICK x \in CallSet : x.pc = "init" /\ x.client = n + 1 /\ toolCall' = [toolCall EXCEPT ![c] = x]
    <3>1. PICK x : x = [toolCall[c] EXCEPT !.pc = "init", !.client = n + 1]
      OBVIOUS
    <3>2. x \in CallSet /\ x.pc = "init" /\ x.client = n + 1
      BY <1>1, <2>4, <3>1 DEF CallSet, Starting
    <3> QED
      BY <1>1, <1>3, <2>1, <3>1, <3>2
  <2>6. CallsKept(c) /\ toolCall'[c] = x
    BY <1>1, <2>5 DEF CallsKept
  <2>m. mgr \in [lock : Nat, client : Nat] /\ mgr'.client = mgr.client /\ mgr'.lock = mgr.lock
    BY <1>1 DEF LsInv, Shapes
  <2>7. Shapes'
    BY <1>1, <2>1, <2>3, <2>6, <2>m DEF Shapes, CallsKept
  <2>c. mgr.client # n + 1 /\ (\A d \in LspCalls : toolCall[d].client # n + 1)
    BY <2>4 DEF LsInv, CacheRuns, Placed
  <2>8. CacheRuns' /\ (\A j \in Clients' : Sound(j)')
    <3>1. CacheRuns'
      BY <2>3, <2>4, <2>m DEF LsInv, CacheRuns
    <3>2. ASSUME NEW j \in Clients' PROVE Sound(j)'
      <4>1. CASE j \in Clients
        BY <2>3, <2>4, <4>1 DEF LsInv, Sound
      <4>2. CASE j = n + 1
        BY <2>2, <2>3, <4>2 DEF Sound
      <4> QED
        BY <2>4, <4>1, <4>2
    <3> QED
      BY <3>1, <3>2
  <2>9. HoldsLock'
    <3>1. \A d \in LspCalls : toolCall'[d].pc = "losing" => toolCall[d].pc = "losing"
      BY <2>5, <2>6 DEF CallsKept
    <3>2. \A j \in Clients' : clients'[j].watch = "closing" => j \in Clients /\ clients[j].watch = "closing"
      BY <2>2, <2>3, <2>4
    <3>3. \A j \in Clients : clients[j].watch = "closing" => mgr.lock = Watcher(j) /\ mgr.client = j
      BY DEF LsInv, HoldsLock
    <3>4. \A d \in LspCalls : toolCall[d].pc = "losing" => mgr.lock = d /\ mgr.client # NoOne
      BY DEF LsInv, HoldsLock
    <3>5. mgr.lock = Manager => mgr.client # NoOne
      BY DEF LsInv, HoldsLock
    <3> QED
      BY <2>m, <3>1, <3>2, <3>3, <3>4, <3>5 DEF HoldsLock, Watcher, Manager, NoOne
  <2>10. NoOrphan'
    <3>1. ASSUME NEW j \in Clients', clients'[j].cmd, mgr.client # j
          PROVE  \E d \in LspCalls : toolCall'[d].client = j /\ toolCall'[d].pc \in Starting
      <4>1. CASE j = n + 1
        BY <2>5, <2>6, <4>1 DEF Starting
      <4>2. CASE j \in Clients
        <5>1. PICK d \in LspCalls : toolCall[d].client = j /\ toolCall[d].pc \in Starting
          BY <2>3, <2>4, <3>1, <4>2 DEF LsInv, NoOrphan, Starting
        <5> QED
          BY <1>1, <2>6, <5>1 DEF CallsKept, Starting
      <4> QED
        BY <2>4, <4>1, <4>2
    <3> QED
      BY <2>m, <3>1 DEF NoOrphan, Starting
  <2>11. ASSUME NEW d \in LspCalls PROVE Placed(d)' /\ Owned(d)' /\ Asked(d)'
    <3>1. CASE d = c
      <4>1. \A e \in LspCalls : toolCall'[e].client = n + 1 => e = c
        BY <2>6, <2>c DEF CallsKept
      <4> QED
        BY <2>2, <2>3, <2>4, <2>5, <2>6, <2>c, <2>m, <3>1, <4>1 DEF Placed, Owned, Asked, Starting, Asking
    <3>2. CASE d # c
      <4>1. toolCall'[d] = toolCall[d] /\ toolCall[d].client # n + 1
        BY <2>6, <2>c, <3>2 DEF CallsKept
      <4>2. Placed(d)'
        BY <2>4, <4>1 DEF LsInv, Placed
      <4>3. toolCall[d].pc \in Starting \cup Using =>
              toolCall[d].client \in Clients /\ clients'[toolCall[d].client] = clients[toolCall[d].client]
        BY <2>3, <2>4 DEF LsInv, Placed
      <4>4. Owned(d)'
        <5>1. \A e \in LspCalls : toolCall'[e].client # n + 1 => toolCall'[e] = toolCall[e]
          BY <2>5, <2>6 DEF CallsKept
        <5> QED
          BY <2>m, <4>1, <4>3, <5>1 DEF LsInv, Owned
      <4>5. Asked(d)'
        BY <4>1, <4>3 DEF LsInv, Asked, Asking, Using
      <4> QED
        BY <4>2, <4>4, <4>5
    <3> QED
      BY <3>1, <3>2
  <2> QED
    BY <2>7, <2>8, <2>9, <2>10, <2>11 DEF LsInv
<1> QED
  BY <1>2, <1>3 DEF StartServer

\* A call between two files, or with one of them.
LEMMA NextFileKeeps ==
  ASSUME LsInv, NEW c \in LspCalls, NextFile(c)
  PROVE  LsInv'
<1>k. PICK k : k = toolCall[c].client
  OBVIOUS
<1>1. /\ toolCall[c].pc = "file" /\ toolCall[c] \in CallSet /\ k \in Clients /\ clients[k] \in ClientSet /\ Sound(k)
  BY <1>k, ItsClient DEF NextFile, Using
<1>2. UNCHANGED mgr
  BY DEF NextFile
<1>3. CASE (toolCall' = CallIsOver(c, toolCall[c].result) \/ toolCall' = CallIsOver(c, "cancelled")) /\ UNCHANGED clients
  <2>0. toolCall[c].result \in {"none", "error", "cancelled", "issues", "clean"}
    BY <1>1 DEF CallSet
  <2>1. CallsKept(c) /\ toolCall'[c].pc = "over" /\ toolCall'[c].client = toolCall[c].client
    <3>1. PICK outcome \in {"none", "error", "cancelled", "issues", "clean"} : toolCall' = CallIsOver(c, outcome)
      BY <1>3, <2>0
    <3> QED
      BY <3>1, OverTo
  <2>2. Placed(c)' /\ Asked(c)'
    BY <1>3, <2>1 DEF LsInv, Placed, Asked, Starting, Using, Asking, Clients
  <2> QED
    BY <1>1, <1>2, <1>3, <2>1, <2>2, CallMoves DEF Starting
<1>4. CASE toolCall[c].files # <<>> /\ ForgetFile(k, Head(toolCall[c].files)) /\ toolCall' = Went(c, "open")
  <2>1. PICK f \in AllFiles : f = Head(toolCall[c].files)
    <3>1. toolCall[c].files \in Seq(AllFiles) /\ toolCall[c].files # <<>>
      BY <1>1, <1>4 DEF CallSet
    <3> QED
      BY <3>1
  <2>2. PICK y : y = [clients[k] EXCEPT !.diags = [clients[k].diags EXCEPT ![f] = {}]]
    OBVIOUS
  <2>3. clients[k].diags \in [AllFiles -> SUBSET SUBSET LspCalls]
    BY <1>1 DEF ClientSet
  <2>4. y \in ClientSet /\ y.diags = [clients[k].diags EXCEPT ![f] = {}]
    BY <1>1, <2>2, <2>3 DEF ClientSet
  <2>5. y.pending = clients[k].pending /\ y.chan = clients[k].chan /\ y.cmd = clients[k].cmd /\ y.locked = clients[k].locked
        /\ y.watch = clients[k].watch
    BY <1>1, <2>2 DEF ClientSet
  <2>6. clients' = [clients EXCEPT ![k] = y]
    BY <1>1, <1>4, <2>1, <2>2 DEF ForgetFile
  <2>7. ClientsKept(k) /\ clients'[k] = y
    BY <1>1, <2>4, <2>6, ClientTo
  <2>8. CallsKept(c) /\ toolCall'[c].pc = "open" /\ toolCall'[c].client = k /\ toolCall'[c].files = toolCall[c].files
    BY <1>k, <1>4, WentTo DEF Using
  <2>9. Placed(c)' /\ Sound(k)'
    BY <1>1, <1>4, <2>5, <2>7, <2>8 DEF Placed, Sound, Clients, ClientsKept, NoOne
  <2>10. ASSUME NEW d \in LspCalls, toolCall'[d].client = k PROVE Asked(d)'
    <3>1. CASE d = c
      BY <2>1, <2>3, <2>4, <2>7, <2>8, <3>1 DEF Asked
    <3>2. CASE d # c
      <4>1. toolCall'[d] = toolCall[d] /\ toolCall[d].client = k
        BY <2>8, <2>10, <3>2 DEF CallsKept
      <4>2. toolCall[d].pc \in Asking => Head(toolCall[d].files) \in AllFiles
        <5> SUFFICES ASSUME toolCall[d].pc \in Asking PROVE Head(toolCall[d].files) \in AllFiles
          OBVIOUS
        <5>1. toolCall[d].files \in Seq(AllFiles) /\ toolCall[d].files # <<>>
          BY DEF LsInv, Shapes, Placed, CallSet
        <5> QED
          BY <5>1
      <4>3. \A g \in AllFiles : y.diags[g] \subseteq clients[k].diags[g]
        BY <2>3, <2>4
      <4> QED
        BY <2>7, <4>1, <4>2, <4>3 DEF LsInv, Asked
    <3> QED
      BY <3>1, <3>2
  <2> QED
    BY <1>k, <1>1, <1>2, <2>5, <2>7, <2>8, <2>9, <2>10, BothMove DEF Starting
<1> QED
  BY <1>k, <1>3, <1>4 DEF NextFile

\* A call that is told something about a file goes on with the next.
LEMMA ToldTo ==
  ASSUME LsInv, NEW c \in LspCalls, toolCall[c].pc \in Asking,
         NEW outcome \in {"none", "error", "cancelled", "issues", "clean"}, Told(c, outcome)
  PROVE  CallsKept(c) /\ toolCall'[c].pc = "file" /\ toolCall'[c].client = toolCall[c].client
<1>1. toolCall \in [LspCalls -> CallSet] /\ toolCall[c] \in CallSet
  BY DEF LsInv, Shapes
<1>2. toolCall[c].files \in Seq(AllFiles) /\ toolCall[c].files # <<>>
  BY <1>1 DEF LsInv, Placed, CallSet
<1>3. Tail(toolCall[c].files) \in Seq(AllFiles)
  BY <1>2
<1>4. PICK x : x = [toolCall[c] EXCEPT !.pc = "file", !.files = Tail(toolCall[c].files), !.result = outcome]
  OBVIOUS
<1>5. x \in CallSet /\ x.pc = "file" /\ x.client = toolCall[c].client
  BY <1>1, <1>3, <1>4 DEF CallSet, Using
<1>6. toolCall' = [toolCall EXCEPT ![c] = x]
  BY <1>1, <1>4 DEF Told
<1> QED
  BY <1>1, <1>5, <1>6 DEF CallsKept

\* The opening of a file,
LEMMA OpenFileKeeps ==
  ASSUME LsInv, NEW c \in LspCalls, OpenFile(c)
  PROVE  LsInv'
<1>k. PICK k : k = toolCall[c].client
  OBVIOUS
<1>1. /\ toolCall[c].pc = "open" /\ toolCall[c] \in CallSet /\ k \in Clients /\ clients[k] \in ClientSet /\ Sound(k)
      /\ UNCHANGED mgr /\ k # NoOne
  BY <1>k, ItsClient DEF OpenFile, Using, Clients, NoOne
<1>2. CASE Told(c, "error") /\ UNCHANGED clients
  <2>1. CallsKept(c) /\ toolCall'[c].pc = "file" /\ toolCall'[c].client = k
    BY <1>k, <1>1, <1>2, ToldTo DEF Asking
  <2>2. Placed(c)' /\ Asked(c)'
    BY <1>1, <1>2, <2>1 DEF Placed, Asked, Asking, Clients
  <2> QED
    BY <1>1, <1>2, <2>1, <2>2, CallMoves DEF Starting
<1>3. CASE /\ toolCall' = Went(c, "wait")
           /\ clients' = [clients EXCEPT ![k].opened = @ \cup {Head(toolCall[c].files)}]
  <2>1. PICK f \in AllFiles : f = Head(toolCall[c].files)
    <3>1. toolCall[c].files \in Seq(AllFiles) /\ toolCall[c].files # <<>>
      BY <1>1 DEF LsInv, Placed, CallSet, Asking
    <3> QED
      BY <3>1
  <2>2. PICK y : y = [clients[k] EXCEPT !.opened = @ \cup {f}]
    OBVIOUS
  <2>3. y \in ClientSet
    <3>1. clients[k].opened \cup {f} \in SUBSET AllFiles
      BY <1>1 DEF ClientSet
    <3> QED
      BY <1>1, <2>2, <3>1 DEF ClientSet
  <2>4. y.pending = clients[k].pending /\ y.chan = clients[k].chan /\ y.cmd = clients[k].cmd /\ y.locked = clients[k].locked
        /\ y.watch = clients[k].watch /\ y.diags = clients[k].diags
    BY <1>1, <2>2 DEF ClientSet
  <2>5. clients' = [clients EXCEPT ![k] = y]
    BY <1>1, <1>3, <2>1, <2>2
  <2>6. ClientsKept(k) /\ clients'[k] = y
    BY <1>1, <2>3, <2>5, ClientTo
  <2>7. CallsKept(c) /\ toolCall'[c].pc = "wait" /\ toolCall'[c].client = k /\ toolCall'[c].files = toolCall[c].files
    BY <1>k, <1>3, WentTo DEF Using
  <2>8. Placed(c)' /\ Sound(k)'
    <3>1. toolCall[c].files # <<>>
      BY <1>1 DEF LsInv, Placed, Asking
    <3> QED
      BY <1>1, <2>4, <2>6, <2>7, <3>1 DEF Placed, Sound, Clients, ClientsKept
  <2>9. \A d \in LspCalls : toolCall'[d].client = k => Asked(d)'
    BY <1>k, <1>1, <2>4, <2>6, <2>7 DEF LsInv, Asked, CallsKept, Asking
  <2> QED
    BY <1>k, <1>1, <2>4, <2>6, <2>7, <2>8, <2>9, BothMove DEF Starting
<1> QED
  BY <1>k, <1>2, <1>3 DEF OpenFile

\* The wait for what is published.
LEMMA PolledKeeps ==
  ASSUME LsInv, NEW c \in LspCalls, Polled(c)
  PROVE  LsInv'
<1>1. toolCall[c].pc = "wait" /\ toolCall[c].client \in Clients /\ UNCHANGED <<clients, mgr>> /\ toolCall[c].client # NoOne
  <2>1. toolCall[c].pc = "wait" /\ UNCHANGED <<clients, mgr>>
    BY DEF Polled
  <2>2. toolCall[c].client \in Clients
    BY <2>1, ItsClient DEF Using
  <2> QED
    BY <2>1, <2>2 DEF Clients, NoOne
<1>2. CallsKept(c) /\ toolCall'[c].pc \in {"over", "file"} /\ toolCall'[c].client = toolCall[c].client
  <2>1. CASE toolCall' = CallIsOver(c, "cancelled")
    BY <2>1, OverTo
  <2>2. ASSUME NEW waiting \in clients[toolCall[c].client].diags[Head(toolCall[c].files)],
               Told(c, IF c \in waiting THEN "issues" ELSE "old")
        PROVE  CallsKept(c) /\ toolCall'[c].pc \in {"over", "file"} /\ toolCall'[c].client = toolCall[c].client
    <3>1. c \in waiting
      BY <1>1 DEF LsInv, Asked, Asking
    <3>2. Told(c, "issues")
      BY <2>2, <3>1
    <3> QED
      BY <1>1, <3>2, ToldTo DEF Asking
  <2>3. CASE Told(c, "clean")
    BY <1>1, <2>3, ToldTo DEF Asking
  <2> QED
    BY <2>1, <2>2, <2>3 DEF Polled
<1>3. Placed(c)' /\ Asked(c)'
  BY <1>1, <1>2 DEF Placed, Asked, Starting, Using, Asking, Clients
<1> QED
  BY <1>1, <1>2, <1>3, CallMoves DEF Starting

\* Every step keeps the invariant, and it holds at first.
LEMMA LsInvStep ==
  ASSUME LsInv, [LsNext]_lsVars
  PROVE  LsInv'
<1>1. ASSUME NEW c \in LspCalls, LspStep(c) PROVE LsInv'
  <2>1. CASE Install(c) /\ mgr.client = NoOne
    BY <2>1, InstallKeeps
  <2>2. CASE Install(c) /\ mgr.client # NoOne
    BY <2>2, LoserKeeps
  <2>3. CASE Lost(c)
    BY <2>3, LoserKeeps
  <2> QED
    BY <1>1, <2>1, <2>2, <2>3, ExecuteKeeps, CachedKeeps, StartServerKeeps, InitializeKeeps, StartFailedKeeps, NextFileKeeps,
       OpenFileKeeps, PolledKeeps DEF LspStep
<1>2. ASSUME NEW k \in Clients, Numbered(k) \/ Published(k) \/ ProcDies(k) \/ Watch(k) PROVE LsInv'
  BY <1>2, ServerKeeps, CloseKeeps DEF Watch
<1>3. CASE ManagerClose \/ ManagerClosed
  BY <1>3, CloseKeeps
<1>4. CASE (\E t \in Turns : TurnEnds(t)) \/ UNCHANGED lsVars
  <2>1. UNCHANGED <<toolCall, clients, mgr>>
    BY <1>4 DEF TurnEnds, lsVars
  <2>2. Shapes' /\ CacheRuns' /\ HoldsLock' /\ NoOrphan' /\ Clients' = Clients
    BY <2>1 DEF LsInv, Shapes, CacheRuns, HoldsLock, NoOrphan, Clients, Watcher, Manager
  <2>3. \A c \in LspCalls : Placed(c)' /\ Owned(c)' /\ Asked(c)'
    BY <2>1, <2>2 DEF LsInv, Placed, Owned, Asked
  <2>4. \A k \in Clients' : Sound(k)'
    BY <2>1, <2>2 DEF LsInv, Sound
  <2> QED
    BY <2>2, <2>3, <2>4 DEF LsInv
<1> QED
  BY <1>1, <1>2, <1>3, <1>4 DEF LsNext

LEMMA LsInvInit == LsInit => LsInv
<1> SUFFICES ASSUME LsInit PROVE LsInv
  OBVIOUS
<1>1. clients = <<>> /\ mgr = [lock |-> NoOne, client |-> NoOne] /\ MaxClients \in Nat /\ Cardinality(LspCalls) \in Nat
  BY LspAssumption DEF LsInit
<1>2. Clients = {} /\ Len(clients) = 0 /\ clients \in Seq(ClientSet)
  BY <1>1 DEF Clients
<1>3. PICK turnOf \in [LspCalls -> Turns \cup {0}] :
        toolCall = [c \in LspCalls |-> [turn |-> turnOf[c], pc |-> "new", files |-> <<>>, client |-> NoOne, result |-> "none"]]
  BY DEF LsInit
<1>4. Shapes
  BY <1>1, <1>2, <1>3 DEF Shapes, CallSet, NoOne
<1>5. HoldsLock
  BY <1>1, <1>2, <1>3 DEF HoldsLock, Manager, NoOne
<1>6. CacheRuns /\ NoOrphan
  BY <1>1, <1>2 DEF CacheRuns, NoOrphan
<1>7. \A c \in LspCalls : Placed(c) /\ Owned(c) /\ Asked(c)
  BY <1>3 DEF Placed, Owned, Asked, Starting, Using, Asking
<1> QED
  BY <1>2, <1>4, <1>5, <1>6, <1>7 DEF LsInv

\* However starts, failed starts, the watcher and the end of the program meet, a server's
\* process that runs is cached or in the hands of the one call that starts it, and what
\* is cached has not been closed (EnsureClient, Start, idleWatch, Close).
THEOREM ServersAreKnown == LsSpec => []ServersKnown
<1>1. LsInv => ServersKnown
  BY DEF LsInv, ServersKnown, LsTypeOK, CacheRuns, Placed, Sound, NoOne
<1> QED
  BY <1>1, LsInvInit, LsInvStep, PTL DEF LsSpec

\* A call reports issues of a file from what was read after it asked only, and the
\* reader of a client never waits for a place in a channel (OpenFile, readLoop).
THEOREM AnswersAreOwn == LsSpec => []AnswersOwn
<1>1. LsInv => AnswersOwn
  <2> SUFFICES ASSUME LsInv PROVE AnswersOwn
    OBVIOUS
  <2>1. ReaderFree
    BY DEF LsInv, Sound, ReaderFree
  <2>2. AskedThenTold
    BY DEF LsInv, Shapes, CallSet, AskedThenTold
  <2> QED
    BY <2>1, <2>2 DEF AnswersOwn
<1> QED
  BY <1>1, LsInvInit, LsInvStep, PTL DEF LsSpec
=============================================================================
