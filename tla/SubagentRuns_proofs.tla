------------------------ MODULE SubagentRuns_proofs ------------------------
(***************************************************************************)
(* Proofs about SubagentRuns: a run keeps its worktree and its limits      *)
(* while it works, leaves nothing when it fails, and its record tells the  *)
(* truth and is final.                                                     *)
(***************************************************************************)
EXTENDS SubagentRuns, FiniteSetTheorems, TLAPS

USE RunsAssumption DEF RunsAssumption

(***************************************************************************)
(* The inductive invariant.                                                *)
(***************************************************************************)

Ends == {"completed", "error", "killed"}
RunSet == [pc : {"idle", "acquire", "tree", "row", "rollback", "start", "exec",
                  "finish", "clean", "deliver", "untrack", "gone", "dead"},
           par : Requests, sess : 1 .. RunSessions, cancelled : BOOLEAN, end : {"none"} \cup Ends,
           told : {"nothing", "error", "result", "launched", "completed", "killed"}]
RowSet == [status : {"none", "running"} \cup Ends,
           usage : 0 .. MaxRequests, cost : 0 .. MaxRequests]

\* The types of the variables.
Shape ==
  /\ run \in [Calls -> RunSet] /\ row \in [Calls -> RowSet]
  /\ disk \in [RunIds -> Calls \cup {Nobody}]
  /\ tasks \subseteq Calls /\ swept \subseteq Calls /\ hurt \subseteq Calls
  /\ shown \in [Calls -> {"no", "running", "ended"}]
  /\ current \in 1 .. RunSessions
  /\ messages \in [Calls -> 0 .. MaxRequests]

\* A run in the background is tracked from its start to its end, in the foreground never.
TaskStage ==
  \A c \in Calls :
    /\ c \in tasks => Background(c) /\ run[c].pc \in {"exec", "finish", "clean", "deliver", "untrack"}
    /\ run[c].pc = "untrack" => c \in tasks

\* What the record of a run says at each place of its code, and what it has cost.
Early == {"idle", "acquire", "tree", "row", "rollback"}
RowStage ==
  \A c \in Calls :
    /\ run[c].pc \in Early => row[c] = NoRow /\ messages[c] = 0
    /\ run[c].pc = "start" => row[c].usage = 0 /\ messages[c] = 0
    /\ run[c].pc \in {"start", "exec", "finish"} => row[c].status = "running"
    /\ run[c].pc \in {"clean", "deliver"} =>
         row[c].status = run[c].end \/ (row[c].status = "running" /\ c \in hurt)
    /\ run[c].pc \in {"finish", "clean", "deliver"} =>
         run[c].end \in Ends /\ (run[c].end = "killed" => c \in tasks)
    /\ run[c].pc = "clean" => run[c].end # "completed"
Costs ==
  \A c \in Calls :
    /\ row[c].status = "none" => row[c] = NoRow
    /\ run[c].pc = "exec" => row[c].usage <= messages[c]
    /\ c \notin hurt => row[c].usage = messages[c]
    /\ row[c].status \in Ends => row[c].cost = messages[c]

\* Whose worktree is where.
Owned(c) == run[c].pc \in {"row", "rollback", "start", "exec", "finish", "clean"} /\ Isolated(c)
Owners ==
  \A s \in RunIds : disk[s] # Nobody =>
    worktreeSlug(disk[s]) = s /\ Isolated(disk[s]) /\ run[disk[s]].pc \notin {"idle", "acquire", "tree"}
OwnTree == \A c \in Calls : Owned(c) /\ (\A d \in swept : Id(d) # Id(c)) => disk[worktreeSlug(c)] = c
Begun == /\ \A c \in swept : run[c].pc # "idle"
         /\ \A c \in Calls : run[c].pc = "tree" => Isolated(c)
TreeStage == Owners /\ OwnTree /\ Begun

(***************************************************************************)
(* What the actions do to the call they are of.                            *)
(***************************************************************************)

Pcs == {"idle", "acquire", "tree", "row", "rollback", "start", "exec",
        "finish", "clean", "deliver", "untrack", "gone", "dead"}
Told == {"nothing", "error", "result", "launched", "completed", "killed"}

\* The call c moves to pc, with the end and the answer given; its request stays, and other calls.
Moved(c, pc, end, told) ==
  /\ run' \in [Calls -> RunSet]
  /\ \A d \in Calls : d # c => run'[d] = run[d]
  /\ run'[c].pc = pc /\ run'[c].end = end /\ run'[c].told = told
  /\ run'[c].par = run[c].par /\ run'[c].sess = run[c].sess

LEMMA GoesToMoves ==
  ASSUME Shape, NEW c \in Calls, NEW pc \in Pcs, GoesTo(c, pc)
  PROVE  Moved(c, pc, run[c].end, run[c].told)
<1>1. run[c] \in RunSet /\ run' = [run EXCEPT ![c] = [run[c] EXCEPT !.pc = pc]]
  BY DEF Shape, GoesTo
<1>2. [run[c] EXCEPT !.pc = pc] \in RunSet
  BY <1>1 DEF RunSet, Pcs
<1>3. run'[c] = [run[c] EXCEPT !.pc = pc] /\ \A d \in Calls : d # c => run'[d] = run[d]
  BY <1>1 DEF Shape
<1>4. run' \in [Calls -> RunSet]
  BY <1>1, <1>2 DEF Shape
<1> QED
  BY <1>1, <1>3, <1>4 DEF Moved, RunSet

LEMMA OverMoves ==
  ASSUME Shape, NEW c \in Calls, NEW pc \in Pcs, NEW told \in Told, Over(c, pc, told)
  PROVE  Moved(c, pc, run[c].end, told)
<1>1. run[c] \in RunSet /\ run' = [run EXCEPT ![c] = [run[c] EXCEPT !.pc = pc, !.told = told, !.cancelled = FALSE]]
  BY DEF Shape, Over
<1>2. [run[c] EXCEPT !.pc = pc, !.told = told, !.cancelled = FALSE] \in RunSet
  BY <1>1 DEF RunSet, Pcs, Told
<1>3. /\ run'[c] = [run[c] EXCEPT !.pc = pc, !.told = told, !.cancelled = FALSE]
      /\ \A d \in Calls : d # c => run'[d] = run[d]
  BY <1>1 DEF Shape
<1>4. run' \in [Calls -> RunSet]
  BY <1>1, <1>2 DEF Shape
<1> QED
  BY <1>1, <1>3, <1>4 DEF Moved, RunSet

LEMMA EndMoves ==
  ASSUME Shape, NEW c \in Calls, NEW end \in Ends, run' = [run EXCEPT ![c].pc = "finish", ![c].end = end]
  PROVE  Moved(c, "finish", end, run[c].told)
<1>1. run[c] \in RunSet /\ run' = [run EXCEPT ![c] = [run[c] EXCEPT !.pc = "finish", !.end = end]]
  BY DEF Shape
<1>2. [run[c] EXCEPT !.pc = "finish", !.end = end] \in RunSet
  BY <1>1 DEF RunSet
<1>3. /\ run'[c] = [run[c] EXCEPT !.pc = "finish", !.end = end]
      /\ \A d \in Calls : d # c => run'[d] = run[d]
  BY <1>1 DEF Shape
<1>4. run' \in [Calls -> RunSet]
  BY <1>1, <1>2 DEF Shape
<1> QED
  BY <1>1, <1>3, <1>4 DEF Moved, RunSet

LEMMA LaunchMoves ==
  ASSUME Shape, NEW c \in Calls,
         run' = [run EXCEPT ![c].pc = "exec", ![c].cancelled = FALSE, ![c].told = "launched"]
  PROVE  Moved(c, "exec", run[c].end, "launched")
<1>1. /\ run[c] \in RunSet
      /\ run' = [run EXCEPT ![c] = [run[c] EXCEPT !.pc = "exec", !.cancelled = FALSE, !.told = "launched"]]
  BY DEF Shape
<1>2. [run[c] EXCEPT !.pc = "exec", !.cancelled = FALSE, !.told = "launched"] \in RunSet
  BY <1>1 DEF RunSet
<1>3. /\ run'[c] = [run[c] EXCEPT !.pc = "exec", !.cancelled = FALSE, !.told = "launched"]
      /\ \A d \in Calls : d # c => run'[d] = run[d]
  BY <1>1 DEF Shape
<1>4. run' \in [Calls -> RunSet]
  BY <1>1, <1>2 DEF Shape
<1> QED
  BY <1>1, <1>3, <1>4 DEF Moved, RunSet

\* A new call of the agent tool.
Called(c, p) ==
  /\ run' \in [Calls -> RunSet]
  /\ \A d \in Calls : d # c => run'[d] = run[d]
  /\ run'[c].pc = "acquire" /\ run'[c].par = p

LEMMA ExecuteMoves ==
  ASSUME Shape, NEW c \in Calls, NEW p \in Params(c), ExecuteAgent(c, p)
  PROVE  Called(c, p)
<1>1. /\ run[c] \in RunSet /\ p \in Requests /\ current \in 1 .. RunSessions
      /\ run' = [run EXCEPT ![c] = [run[c] EXCEPT !.pc = "acquire", !.par = p, !.sess = current]]
  BY DEF Shape, ExecuteAgent
<1>2. [run[c] EXCEPT !.pc = "acquire", !.par = p, !.sess = current] \in RunSet
  BY <1>1 DEF RunSet
<1>3. /\ run'[c] = [run[c] EXCEPT !.pc = "acquire", !.par = p, !.sess = current]
      /\ \A d \in Calls : d # c => run'[d] = run[d]
  BY <1>1 DEF Shape
<1>4. run' \in [Calls -> RunSet]
  BY <1>1, <1>2 DEF Shape
<1> QED
  BY <1>1, <1>3, <1>4 DEF Called, RunSet

\* A cancellation changes nothing else of a call.
Kept(d) == /\ run'[d].pc = run[d].pc /\ run'[d].par = run[d].par /\ run'[d].sess = run[d].sess
           /\ run'[d].end = run[d].end /\ run'[d].told = run[d].told
Still == run' \in [Calls -> RunSet] /\ \A d \in Calls : Kept(d)

LEMMA CancelKeeps ==
  ASSUME Shape, TurnCancelled \/ \E c \in Calls : Kill(c)
  PROVE  Still
<1>1. \A d \in Calls : run'[d] \in {run[d], [run[d] EXCEPT !.cancelled = TRUE]} /\ run[d] \in RunSet
  <2>1. CASE TurnCancelled
    BY <2>1 DEF TurnCancelled, Shape
  <2>2. ASSUME NEW c \in Calls, Kill(c)
        PROVE  \A d \in Calls : run'[d] \in {run[d], [run[d] EXCEPT !.cancelled = TRUE]} /\ run[d] \in RunSet
    <3>1. run' = [run EXCEPT ![c] = [run[c] EXCEPT !.cancelled = TRUE]]
      BY <2>2 DEF Kill
    <3> QED
      BY <3>1 DEF Shape
  <2> QED
    BY <2>1, <2>2
<1>2. ASSUME NEW d \in Calls
      PROVE  [run[d] EXCEPT !.cancelled = TRUE] \in RunSet
  BY ZenonT(60), <1>1, TRUE \in BOOLEAN DEF RunSet
<1>3. run' = [d \in Calls |-> run'[d]]
  <2>1. CASE TurnCancelled
    BY <2>1 DEF TurnCancelled, Shape
  <2>2. ASSUME NEW c \in Calls, Kill(c) PROVE run' = [d \in Calls |-> run'[d]]
    BY <2>2 DEF Kill, Shape
  <2> QED
    BY <2>1, <2>2
<1>4. run' \in [Calls -> RunSet]
  BY <1>1, <1>2, <1>3
<1>5. \A d \in Calls : Kept(d)
  BY <1>1 DEF Kept, RunSet
<1> QED
  BY <1>4, <1>5 DEF Still

\* The process ends with all it runs.
Died(d) == IF run[d].pc = "idle" THEN run'[d] = run[d]
           ELSE run'[d].pc = "dead" /\ run'[d].par = run[d].par /\ run'[d].sess = run[d].sess

LEMMA RestartKills ==
  ASSUME Shape, Restart
  PROVE  run' \in [Calls -> RunSet] /\ \A d \in Calls : Died(d)
<1>1. \A d \in Calls :
        /\ run[d] \in RunSet
        /\ run'[d] = IF run[d].pc = "idle" THEN run[d]
                     ELSE [run[d] EXCEPT !.pc = "dead", !.cancelled = FALSE, !.end = "none", !.told = "nothing"]
  BY DEF Restart, Standing, Shape
<1>2. \A d \in Calls : [run[d] EXCEPT !.pc = "dead", !.cancelled = FALSE, !.end = "none", !.told = "nothing"] \in RunSet
  BY ZenonT(60), <1>1 DEF RunSet
<1>3. run' = [d \in Calls |-> run'[d]]
  BY DEF Restart
<1>4. run' \in [Calls -> RunSet]
  BY ZenonT(60), <1>1, <1>2, <1>3
<1>5. \A d \in Calls : Died(d)
  BY ZenonT(60), <1>1 DEF Died, RunSet
<1> QED
  BY <1>4, <1>5

(***************************************************************************)
(* The steps, as far as the invariant tells them apart.                    *)
(***************************************************************************)

\* Only call c has moved.
To(c, pc) == Moved(c, pc, run[c].end, run[c].told)
At(c, pc) == run[c].pc = pc
Hurts(c) == hurt' = hurt \cup {c}
Rest == <<row, tasks, shown, current, messages, swept>>

Acquires(c) ==
  /\ At(c, "acquire") /\ UNCHANGED <<Rest, disk, hurt>>
  /\ \/ Moved(c, "gone", run[c].end, "error")
     \/ Cardinality(Holding) < MaxParallel /\ ((To(c, "tree") /\ Isolated(c)) \/ (To(c, "row") /\ ~Isolated(c)))
Creates(c) ==
  /\ At(c, "tree") /\ UNCHANGED Rest
  /\ \/ /\ To(c, "row") /\ disk[worktreeSlug(c)] = Nobody /\ hurt' = hurt
        /\ disk' = [disk EXCEPT ![worktreeSlug(c)] = c]
     \/ Moved(c, "gone", run[c].end, "error") /\ disk' = disk /\ hurt' \in {hurt, hurt \cup {c}}
Records(c) ==
  /\ At(c, "row") /\ To(c, "start") /\ row' = [row EXCEPT ![c].status = "running"]
  /\ UNCHANGED <<disk, tasks, shown, current, messages, swept, hurt>>
Misses(c) ==
  At(c, "row") /\ To(c, "rollback") /\ UNCHANGED <<Rest, disk>> /\ hurt' \in {hurt, hurt \cup {c}}
CleanUp(c) ==
  \/ Isolated(c) /\ disk' = [disk EXCEPT ![worktreeSlug(c)] = Nobody] /\ hurt' = hurt
  \/ Isolated(c) /\ disk' = disk /\ Hurts(c)
  \/ ~Isolated(c) /\ disk' = disk /\ hurt' = hurt
RollsBack(c) == At(c, "rollback") /\ Moved(c, "gone", run[c].end, "error") /\ CleanUp(c) /\ UNCHANGED Rest
Starts(c) ==
  /\ At(c, "start") /\ UNCHANGED <<row, disk, current, messages, swept, hurt>>
  /\ shown' = [shown EXCEPT ![c] = "running"]
  /\ \/ Background(c) /\ Moved(c, "exec", run[c].end, "launched") /\ tasks' = tasks \cup {c}
     \/ To(c, "exec") /\ tasks' = tasks
Works(c) ==
  /\ At(c, "exec") /\ messages[c] < MaxRequests /\ UNCHANGED <<disk, tasks, shown, current, swept>>
  /\ \/ /\ run' = run /\ hurt' = hurt
        /\ row' = [row EXCEPT ![c].usage = @ + 1] /\ messages' = [messages EXCEPT ![c] = @ + 1]
     \/ run' = run /\ Hurts(c) /\ row' = row /\ messages' = [messages EXCEPT ![c] = @ + 1]
     \/ /\ Moved(c, "finish", Failure(c), run[c].told) /\ Hurts(c)
        /\ row' = [row EXCEPT ![c].usage = @ + 1] /\ messages' = messages
Ended(c) ==
  /\ At(c, "exec") /\ UNCHANGED <<Rest, disk, hurt>>
  /\ \E end \in {"completed", Failure(c)} : Moved(c, "finish", end, run[c].told)
Closes(c) ==
  /\ At(c, "finish") /\ UNCHANGED <<disk, tasks, shown, current, messages, swept>>
  /\ \/ row' = [row EXCEPT ![c] = Finished(c)] /\ hurt' = hurt
     \/ row' = row /\ Hurts(c)
  /\ \/ run[c].end = "completed" /\ To(c, "deliver")
     \/ run[c].end # "completed" /\ To(c, "clean")
Cleans(c) == At(c, "clean") /\ To(c, "deliver") /\ CleanUp(c) /\ UNCHANGED Rest
Delivers(c) ==
  /\ At(c, "deliver") /\ UNCHANGED <<row, disk, tasks, current, messages, swept, hurt>>
  /\ shown' = [shown EXCEPT ![c] = "ended"]
  /\ \/ c \in tasks /\ Moved(c, "untrack", run[c].end, run[c].end)
     \/ c \notin tasks /\ Moved(c, "gone", run[c].end, IF run[c].end = "completed" THEN "result" ELSE "error")
Untracks(c) ==
  /\ At(c, "untrack") /\ To(c, "gone") /\ tasks' = tasks \ {c}
  /\ UNCHANGED <<row, disk, shown, current, messages, swept, hurt>>
Begins(c) == /\ At(c, "idle") /\ UNCHANGED <<Rest, disk, hurt>>
             /\ \E p \in Params(c) : Called(c, p)
Switches ==
  /\ run' = run /\ UNCHANGED <<row, tasks, shown, messages, hurt>> /\ current' \in 1 .. RunSessions
  /\ \A c \in Calls : run[c].pc \in {"idle", "gone", "dead"} \/ c \in tasks
  /\ \E trees \in SUBSET RunIds : 
       /\ disk' = [s \in RunIds |-> IF s \in trees THEN Nobody ELSE disk[s]]
       /\ swept' = swept \cup ({disk[s] : s \in trees} \cap tasks)
Dies ==
  /\ run' \in [Calls -> RunSet] /\ \A d \in Calls : Died(d)
  /\ \E trees \in SUBSET RunIds : disk' = [s \in RunIds |-> IF s \in trees THEN Nobody ELSE disk[s]]
  /\ tasks' = {} /\ swept' = {} /\ shown' = [c \in Calls |-> "no"]
  /\ UNCHANGED <<row, current, messages, hurt>>

CallStep(c) ==
  \/ Begins(c) \/ Acquires(c) \/ Creates(c) \/ Records(c) \/ Misses(c) \/ RollsBack(c) \/ Starts(c)
  \/ Works(c) \/ Ended(c) \/ Closes(c) \/ Cleans(c) \/ Delivers(c) \/ Untracks(c)

LEMMA CleanUps ==
  ASSUME NEW c \in Calls, cleanupWorktreeImmediate(c)
  PROVE  CleanUp(c)
BY DEF cleanupWorktreeImmediate, CleanUp, Succeeds, Fails, StepFails, bounds, Hurts

LEMMA Steps ==
  ASSUME Shape, TaskStage, RowStage, [SrNext]_srVars
  PROVE  \/ \E c \in Calls : CallStep(c)
         \/ Still /\ UNCHANGED <<Rest, disk, hurt>>
         \/ Switches \/ Dies
<1> USE DEF records, bounds, Rest, At, To, Standing, Cancelled, Fails, StepFails, Succeeds,
   Hurts, Pcs, Told, Ends
<1>1. ASSUME NEW c \in Calls, NEW p \in Params(c), ExecuteAgent(c, p) PROVE Begins(c)
  BY <1>1, ExecuteMoves DEF ExecuteAgent, Begins
<1>2. ASSUME NEW c \in Calls, Acquire(c) PROVE Acquires(c)
  <2>1. CASE Refuse(c)
    BY <1>2, <2>1, OverMoves DEF Acquire, Acquires, Refuse
  <2>2. CASE ~Refuse(c)
    <3>1. /\ Cardinality(Holding) < MaxParallel
          /\ (Isolated(c) /\ GoesTo(c, "tree")) \/ (~Isolated(c) /\ GoesTo(c, "row"))
      BY <1>2, <2>2 DEF Acquire, Route
    <3> QED
      BY <1>2, <3>1, GoesToMoves DEF Acquire, Acquires
  <2> QED
    BY <2>1, <2>2
<1>3. ASSUME NEW c \in Calls, CreateWorktree(c) PROVE Creates(c)
  BY <1>3, GoesToMoves, OverMoves DEF CreateWorktree, Creates, Refuse
<1>4. ASSUME NEW c \in Calls, CreateRun(c) PROVE Records(c)
  BY <1>4, GoesToMoves DEF CreateRun, Records
<1>5. ASSUME NEW c \in Calls, CreateRunFails(c) PROVE Misses(c)
  BY <1>5, GoesToMoves DEF CreateRunFails, Misses
<1>6. ASSUME NEW c \in Calls, Rollback(c) PROVE RollsBack(c)
  BY <1>6, CleanUps, OverMoves DEF Rollback, RollsBack, Refuse
<1>7. ASSUME NEW c \in Calls, Start(c) PROVE Starts(c)
  BY <1>7, GoesToMoves, LaunchMoves DEF Start, Starts
<1>8. ASSUME NEW c \in Calls, Round(c) PROVE Works(c)
  BY <1>8, EndMoves DEF Round, Works, Failure
<1>9. ASSUME NEW c \in Calls, ExecuteRun(c) PROVE Ended(c)
  <2>1. Failure(c) \in Ends
    BY DEF Failure
  <2> QED
    BY <1>9, <2>1, EndMoves DEF ExecuteRun, Ended
<1>10. ASSUME NEW c \in Calls, FinishRun(c) PROVE Closes(c)
  <2>1. \/ run[c].end = "completed" /\ To(c, "deliver")
        \/ run[c].end # "completed" /\ To(c, "clean")
    <3>1. CASE run[c].end = "completed"
      BY <1>10, <3>1, GoesToMoves DEF FinishRun
    <3>2. CASE run[c].end # "completed"
      BY <1>10, <3>2, GoesToMoves DEF FinishRun
    <3> QED
      BY <3>1, <3>2
  <2>2. \/ row' = [row EXCEPT ![c] = Finished(c)] /\ hurt' = hurt
        \/ row' = row /\ hurt' = hurt \cup {c}
    BY <1>10 DEF FinishRun
  <2>3. run[c].pc = "finish" /\ UNCHANGED <<disk, tasks, shown, current, messages, swept>>
    BY <1>10 DEF FinishRun
  <2> QED
    BY <2>1, <2>2, <2>3 DEF Closes
<1>11. ASSUME NEW c \in Calls, Clean(c) PROVE Cleans(c)
  BY <1>11, CleanUps, GoesToMoves DEF Clean, Cleans
<1>12. ASSUME NEW c \in Calls, Deliver(c) PROVE Delivers(c)
  <2>1. run[c].end \in Ends
    BY <1>12 DEF Deliver, RowStage
  <2> QED
    BY <1>12, <2>1, OverMoves DEF Deliver, Delivers
<1>13. ASSUME NEW c \in Calls, Untrack(c) PROVE Untracks(c)
  BY <1>13, GoesToMoves DEF Untrack, Untracks
<1>14. ASSUME TurnCancelled \/ \E c \in Calls : Kill(c)
       PROVE  Still /\ UNCHANGED <<Rest, disk, hurt>>
  BY <1>14, CancelKeeps DEF TurnCancelled, Kill
<1>15. CASE EndSession
  <2>1. SessionTrees \in SUBSET RunIds
    BY DEF SessionTrees, worktreeSlug, Id, Shape, RunSet, Requests
  <2>2. DOMAIN disk = RunIds
    BY DEF Shape
  <2> QED
    BY <1>15, <2>1, <2>2 DEF EndSession, Remove, CallsInTurn, Switches, Shape
<1>16. CASE Restart
  <2>1. DOMAIN disk = RunIds
    BY DEF Shape
  <2> QED
    BY <1>16, <2>1, RestartKills DEF Restart, Remove, Dies
<1>17. CASE UNCHANGED srVars
  BY <1>17 DEF srVars, Still, Kept, Shape
<1> QED
  BY <1>1, <1>2, <1>3, <1>4, <1>5, <1>6, <1>7, <1>8, <1>9, <1>10, <1>11, <1>12, <1>13, <1>14, <1>15,
     <1>16, <1>17 DEF SrNext, Run, CallStep

\* What a statement does to a record.
LEMMA RowMoves ==
  ASSUME Shape, NEW c \in Calls
  PROVE  /\ row[c] \in RowSet /\ row[c].usage \in 0 .. MaxRequests /\ row[c].cost \in 0 .. MaxRequests
         /\ row[c].status \in {"none", "running"} \cup Ends
         /\ row' = [row EXCEPT ![c].usage = @ + 1] =>
              /\ row'[c].status = row[c].status /\ row'[c].cost = row[c].cost
              /\ row'[c].usage = row[c].usage + 1
              /\ \A d \in Calls : d # c => row'[d] = row[d]
              /\ row[c].usage < MaxRequests => row' \in [Calls -> RowSet]
         /\ row' = [row EXCEPT ![c].status = "running"] =>
              /\ row'[c].status = "running" /\ row'[c].cost = row[c].cost
              /\ row'[c].usage = row[c].usage
              /\ \A d \in Calls : d # c => row'[d] = row[d]
              /\ row' \in [Calls -> RowSet]
         /\ row' = [row EXCEPT ![c] = Finished(c)] /\ run[c].end \in Ends =>
              /\ row'[c].status = run[c].end /\ row'[c].cost = messages[c]
              /\ row'[c].usage = row[c].usage
              /\ \A d \in Calls : d # c => row'[d] = row[d]
              /\ row' \in [Calls -> RowSet]
<1>1. row[c] \in RowSet /\ DOMAIN row = Calls /\ row \in [Calls -> RowSet]
  BY DEF Shape
<1>2. /\ row[c].usage \in 0 .. MaxRequests /\ row[c].cost \in 0 .. MaxRequests
      /\ row[c].status \in {"none", "running"} \cup Ends
  BY <1>1 DEF RowSet
<1>3. ASSUME row' = [row EXCEPT ![c].usage = @ + 1]
      PROVE  /\ row'[c].status = row[c].status /\ row'[c].cost = row[c].cost
             /\ row'[c].usage = row[c].usage + 1
             /\ \A d \in Calls : d # c => row'[d] = row[d]
             /\ row[c].usage < MaxRequests => row' \in [Calls -> RowSet]
  <2>1. row'[c] = [row[c] EXCEPT !.usage = @ + 1] /\ \A d \in Calls : d # c => row'[d] = row[d]
    BY <1>1, <1>3
  <2>2. /\ row'[c].status = row[c].status /\ row'[c].cost = row[c].cost
        /\ row'[c].usage = row[c].usage + 1
        /\ row[c].usage < MaxRequests => row'[c] \in RowSet
    BY <2>1, <1>1, <1>2 DEF RowSet
  <2>3. row' = [d \in Calls |-> row'[d]]
    BY <1>1, <1>3
  <2> QED
    BY <2>1, <2>2, <2>3, <1>1
<1>4. ASSUME row' = [row EXCEPT ![c].status = "running"]
      PROVE  /\ row'[c].status = "running" /\ row'[c].cost = row[c].cost
             /\ row'[c].usage = row[c].usage
             /\ \A d \in Calls : d # c => row'[d] = row[d]
             /\ row' \in [Calls -> RowSet]
  <2>1. row'[c] = [row[c] EXCEPT !.status = "running"] /\ \A d \in Calls : d # c => row'[d] = row[d]
    BY <1>1, <1>4
  <2>2. /\ row'[c].status = "running" /\ row'[c].cost = row[c].cost
        /\ row'[c].usage = row[c].usage /\ row'[c] \in RowSet
    BY <2>1, <1>1, <1>2 DEF RowSet
  <2>3. row' = [d \in Calls |-> row'[d]]
    BY <1>1, <1>4
  <2> QED
    BY <2>1, <2>2, <2>3, <1>1
<1>5. ASSUME row' = [row EXCEPT ![c] = Finished(c)], run[c].end \in Ends
      PROVE  /\ row'[c].status = run[c].end /\ row'[c].cost = messages[c]
             /\ row'[c].usage = row[c].usage
             /\ \A d \in Calls : d # c => row'[d] = row[d]
             /\ row' \in [Calls -> RowSet]
  <2>1. /\ row'[c] = [row[c] EXCEPT !.status = run[c].end, !.cost = messages[c]]
        /\ \A d \in Calls : d # c => row'[d] = row[d]
    BY <1>1, <1>5 DEF Finished
  <2>2. /\ row'[c].status = run[c].end /\ row'[c].cost = messages[c]
        /\ row'[c].usage = row[c].usage
    BY <2>1, <1>1, <1>2 DEF RowSet
  <2>3. messages[c] \in 0 .. MaxRequests
    BY DEF Shape
  <2>4. row'[c] \in RowSet
    BY <2>1, <2>3, <1>1, <1>5 DEF RowSet
  <2>5. row' = [d \in Calls |-> row'[d]]
    BY <1>1, <1>5
  <2> QED
    BY <2>1, <2>2, <2>4, <2>5, <1>1
<1> QED
  BY <1>1, <1>2, <1>3, <1>4, <1>5

\* Only runs in the background are tracked, while they go on.
LEMMA TaskStep ==
  ASSUME Shape, TaskStage, RowStage, [SrNext]_srVars
  PROVE  TaskStage'
<1> USE DEF Shape, TaskStage, RowStage, Background, ForceBackground, Moved, At, To, Rest, Hurts,
   CleanUp
<1>1. ASSUME NEW c \in Calls, CallStep(c) PROVE TaskStage'
  <2>1. CASE Begins(c)
    BY <2>1 DEF Begins, Called
  <2>2. CASE Acquires(c)
    BY <2>2 DEF Acquires
  <2>3. CASE Creates(c)
    BY <2>3 DEF Creates
  <2>4. CASE Records(c)
    BY <2>4 DEF Records
  <2>5. CASE Misses(c)
    BY <2>5 DEF Misses
  <2>6. CASE RollsBack(c)
    BY <2>6 DEF RollsBack
  <2>7. CASE Starts(c)
    BY <2>7 DEF Starts
  <2>8. CASE Works(c)
    BY <2>8 DEF Works
  <2>9. CASE Ended(c)
    BY <2>9 DEF Ended
  <2>10. CASE Closes(c)
    BY <2>10 DEF Closes
  <2>11. CASE Cleans(c)
    BY <2>11 DEF Cleans
  <2>12. CASE Delivers(c)
    BY <2>12 DEF Delivers
  <2>13. CASE Untracks(c)
    BY <2>13 DEF Untracks
  <2> QED
    BY <1>1, <2>1, <2>2, <2>3, <2>4, <2>5, <2>6, <2>7, <2>8, <2>9, <2>10, <2>11, <2>12, <2>13 DEF
       CallStep
<1>2. CASE Still /\ UNCHANGED <<Rest, disk, hurt>>
  BY <1>2 DEF Still, Kept
<1>3. CASE Switches
  BY <1>3 DEF Switches
<1>4. CASE Dies
  BY <1>4 DEF Dies, Died
<1> QED
  BY Steps, <1>1, <1>2, <1>3, <1>4

\* The record is where the code is.
LEMMA RowStep ==
  ASSUME Shape, TaskStage, RowStage, [SrNext]_srVars
  PROVE  RowStage'
<1> USE DEF Shape, TaskStage, RowStage, Early, Ends, NoRow, Failure, Moved, At, To, Rest, Hurts,
   CleanUp
<1>1. ASSUME NEW c \in Calls, CallStep(c) PROVE RowStage'
  <2>1. CASE Begins(c)
    BY <2>1 DEF Begins, Called
  <2>2. CASE Acquires(c)
    BY <2>2 DEF Acquires
  <2>3. CASE Creates(c)
    BY <2>3 DEF Creates
  <2>4. CASE Records(c)
    BY <2>4, RowMoves DEF Records
  <2>5. CASE Misses(c)
    BY <2>5 DEF Misses
  <2>6. CASE RollsBack(c)
    BY <2>6 DEF RollsBack
  <2>7. CASE Starts(c)
    BY <2>7 DEF Starts
  <2>8. CASE Works(c)
    BY <2>8, RowMoves DEF Works
  <2>9. CASE Ended(c)
    BY <2>9 DEF Ended
  <2>10. CASE Closes(c)
    BY <2>10, RowMoves DEF Closes
  <2>11. CASE Cleans(c)
    BY <2>11 DEF Cleans
  <2>12. CASE Delivers(c)
    BY <2>12 DEF Delivers
  <2>13. CASE Untracks(c)
    BY <2>13 DEF Untracks
  <2> QED
    BY <1>1, <2>1, <2>2, <2>3, <2>4, <2>5, <2>6, <2>7, <2>8, <2>9, <2>10, <2>11, <2>12, <2>13 DEF
       CallStep
<1>2. CASE Still /\ UNCHANGED <<Rest, disk, hurt>>
  BY <1>2 DEF Still, Kept
<1>3. CASE Switches
  BY <1>3 DEF Switches
<1>4. CASE Dies
  BY <1>4 DEF Dies, Died
<1> QED
  BY Steps, <1>1, <1>2, <1>3, <1>4

\* The record has what the answers cost.
LEMMA CostsStep ==
  ASSUME Shape, TaskStage, RowStage, Costs, [SrNext]_srVars
  PROVE  Costs'
<1> USE DEF Shape, RowStage, Costs, Early, Ends, NoRow, Failure, Moved, At, To, Rest, Hurts, CleanUp
<1>1. ASSUME NEW c \in Calls, CallStep(c) PROVE Costs'
  <2>1. CASE Begins(c)
    BY <2>1 DEF Begins, Called
  <2>2. CASE Acquires(c)
    BY <2>2 DEF Acquires
  <2>3. CASE Creates(c)
    BY <2>3 DEF Creates
  <2>4. CASE Records(c)
    BY <2>4, RowMoves DEF Records
  <2>5. CASE Misses(c)
    BY <2>5 DEF Misses
  <2>6. CASE RollsBack(c)
    BY <2>6 DEF RollsBack
  <2>7. CASE Starts(c)
    BY <2>7 DEF Starts
  <2>8. CASE Works(c)
    BY <2>8, RowMoves DEF Works
  <2>9. CASE Ended(c)
    BY <2>9 DEF Ended
  <2>10. CASE Closes(c)
    BY <2>10, RowMoves DEF Closes
  <2>11. CASE Cleans(c)
    BY <2>11 DEF Cleans
  <2>12. CASE Delivers(c)
    BY <2>12 DEF Delivers
  <2>13. CASE Untracks(c)
    BY <2>13 DEF Untracks
  <2> QED
    BY <1>1, <2>1, <2>2, <2>3, <2>4, <2>5, <2>6, <2>7, <2>8, <2>9, <2>10, <2>11, <2>12, <2>13 DEF
       CallStep
<1>2. CASE Still /\ UNCHANGED <<Rest, disk, hurt>>
  BY <1>2 DEF Still, Kept
<1>3. CASE Switches
  BY <1>3 DEF Switches
<1>4. CASE Dies
  BY <1>4 DEF Dies, Died
<1> QED
  BY Steps, <1>1, <1>2, <1>3, <1>4

\* A worktree is its owner's.
LEMMA OwnersStep ==
  ASSUME Shape, TaskStage, RowStage, TreeStage, [SrNext]_srVars
  PROVE  Owners'
<1> USE DEF Shape, TaskStage, TreeStage, Owners, Begun, Isolated, Id, worktreeSlug, Moved, At,
   To, Rest, Hurts, CleanUp
<1>1. ASSUME NEW c \in Calls, CallStep(c) PROVE Owners'
  <2>1. CASE Begins(c)
    BY <2>1 DEF Begins, Called
  <2>2. CASE Acquires(c)
    BY <2>2 DEF Acquires
  <2>3. CASE Creates(c)
    BY <2>3 DEF Creates
  <2>4. CASE Records(c)
    BY <2>4 DEF Records
  <2>5. CASE Misses(c)
    BY <2>5 DEF Misses
  <2>6. CASE RollsBack(c)
    BY <2>6 DEF RollsBack
  <2>7. CASE Starts(c)
    BY <2>7 DEF Starts
  <2>8. CASE Works(c)
    BY <2>8 DEF Works
  <2>9. CASE Ended(c)
    BY <2>9 DEF Ended
  <2>10. CASE Closes(c)
    BY <2>10 DEF Closes
  <2>11. CASE Cleans(c)
    BY <2>11 DEF Cleans
  <2>12. CASE Delivers(c)
    BY <2>12 DEF Delivers
  <2>13. CASE Untracks(c)
    BY <2>13 DEF Untracks
  <2> QED
    BY <1>1, <2>1, <2>2, <2>3, <2>4, <2>5, <2>6, <2>7, <2>8, <2>9, <2>10, <2>11, <2>12, <2>13 DEF
       CallStep
<1>2. CASE Still /\ UNCHANGED <<Rest, disk, hurt>>
  BY <1>2 DEF Still, Kept
<1>3. CASE Switches
  BY <1>3 DEF Switches
<1>4. CASE Dies
  BY <1>4 DEF Dies, Died
<1> QED
  BY Steps, <1>1, <1>2, <1>3, <1>4

LEMMA IdIn ==
  ASSUME Shape, NEW c \in Calls
  PROVE  Id(c) \in RunIds /\ worktreeSlug(c) = Id(c)
BY DEF Shape, RunSet, Requests, Id, worktreeSlug

\* A call that takes its own worktree away takes nobody else's.
LEMMA TreeRemoved ==
  ASSUME Shape, OwnTree, NEW c \in Calls, Owned(c) \/ ~Isolated(c), CleanUp(c), swept' = swept,
         \A d \in Calls : d # c => run'[d] = run[d], run'[c].par = run[c].par, ~Owned(c)'
  PROVE  OwnTree'
<1> SUFFICES ASSUME NEW d \in Calls, Owned(d)', \A e \in swept' : Id(e)' # Id(d)'
             PROVE  (disk[worktreeSlug(d)] = d)'
  BY DEF OwnTree
<1>1. d # c /\ run'[d] = run[d] /\ Id(d)' = Id(d) /\ worktreeSlug(d)' = worktreeSlug(d)
  BY DEF Id, worktreeSlug
<1>2. Owned(d) /\ \A e \in swept : Id(e) # Id(d)
  <2>1. \A e \in swept : Id(e)' = Id(e)
    BY DEF Id, Shape
  <2> QED
    BY <1>1, <2>1 DEF Owned, Isolated
<1>3. disk[worktreeSlug(d)] = d
  BY <1>2 DEF OwnTree
<1>4. CASE disk' = disk
  BY <1>1, <1>3, <1>4
<1>5. CASE Isolated(c) /\ disk' = [disk EXCEPT ![worktreeSlug(c)] = Nobody]
  <2>1. Id(c) # Id(d)
    <3> SUFFICES ASSUME Id(c) = Id(d) PROVE FALSE
      OBVIOUS
    <3>1. disk[worktreeSlug(c)] = c
      BY <1>2, <1>5 DEF OwnTree
    <3> QED
      BY <1>1, <1>3, <3>1 DEF worktreeSlug
  <2> QED
    BY <1>1, <1>3, <1>5, <2>1, IdIn DEF Shape, worktreeSlug
<1> QED
  BY <1>4, <1>5 DEF CleanUp

\* A call keeps its worktree.
LEMMA OwnTreeStep ==
  ASSUME Shape, TaskStage, RowStage, TreeStage, [SrNext]_srVars
  PROVE  OwnTree'
<1> USE DEF Shape, TaskStage, TreeStage, OwnTree, Owned, Begun, Isolated, Id, worktreeSlug,
   Moved, At, To, Rest, Hurts, CleanUp
<1>1. ASSUME NEW c \in Calls, CallStep(c) PROVE OwnTree'
  <2>1. CASE Begins(c)
    BY <2>1 DEF Begins, Called
  <2>2. CASE Acquires(c)
    BY <2>2 DEF Acquires
  <2>3. CASE Creates(c)
    <3> SUFFICES ASSUME NEW d \in Calls, Owned(d)', \A e \in swept' : Id(e)' # Id(d)'
                 PROVE  (disk[worktreeSlug(d)] = d)'
      BY DEF OwnTree
    <3>1. {worktreeSlug(c), worktreeSlug(d)} \subseteq RunIds /\ worktreeSlug(d)' = worktreeSlug(d) /\ swept' = swept
      BY <2>3, IdIn DEF Creates
    <3>2. CASE d = c
      BY <2>3, <3>1, <3>2 DEF Creates
    <3>3. CASE d # c
      <4>1. Owned(d) /\ run'[d] = run[d]
        BY <2>3, <3>3 DEF Creates
      <4>2. \A e \in swept : Id(e) # Id(d)
        BY <2>3, <3>1 DEF Creates
      <4>3. disk[worktreeSlug(d)] = d
        BY <4>1, <4>2 DEF OwnTree
      <4>4. \/ disk' = disk
            \/ disk[worktreeSlug(c)] = Nobody /\ disk' = [disk EXCEPT ![worktreeSlug(c)] = c]
        BY <2>3 DEF Creates
      <4>5. disk'[worktreeSlug(d)] = d
        BY <3>1, <4>3, <4>4
      <4> QED
        BY <3>1, <4>5
    <3> QED
      BY <3>2, <3>3
  <2>4. CASE Records(c)
    BY <2>4 DEF Records
  <2>5. CASE Misses(c)
    BY <2>5 DEF Misses
  <2>6. CASE RollsBack(c)
    BY <2>6, TreeRemoved DEF RollsBack
  <2>7. CASE Starts(c)
    BY <2>7 DEF Starts
  <2>8. CASE Works(c)
    BY <2>8 DEF Works
  <2>9. CASE Ended(c)
    BY <2>9 DEF Ended
  <2>10. CASE Closes(c)
    BY <2>10 DEF Closes
  <2>11. CASE Cleans(c)
    BY <2>11, TreeRemoved DEF Cleans
  <2>12. CASE Delivers(c)
    BY <2>12 DEF Delivers
  <2>13. CASE Untracks(c)
    BY <2>13 DEF Untracks
  <2> QED
    BY <1>1, <2>1, <2>2, <2>3, <2>4, <2>5, <2>6, <2>7, <2>8, <2>9, <2>10, <2>11, <2>12, <2>13 DEF
       CallStep
<1>2. CASE Still /\ UNCHANGED <<Rest, disk, hurt>>
  BY <1>2 DEF Still, Kept
<1>3. CASE Switches
  <2> SUFFICES ASSUME NEW c \in Calls, Owned(c), \A d \in swept' : Id(d) # Id(c)
               PROVE  disk'[worktreeSlug(c)] = c
    BY <1>3 DEF Switches
  <2>1. PICK trees \in SUBSET RunIds :
          /\ disk' = [s \in RunIds |-> IF s \in trees THEN Nobody ELSE disk[s]]
          /\ swept' = swept \cup ({disk[s] : s \in trees} \cap tasks)
    BY <1>3 DEF Switches
  <2>2. c \in tasks
    BY <1>3 DEF Switches
  <2>3. disk[worktreeSlug(c)] = c /\ worktreeSlug(c) \in RunIds
    BY <2>1, IdIn
  <2>4. worktreeSlug(c) \notin trees
    <3> SUFFICES ASSUME worktreeSlug(c) \in trees PROVE FALSE
      OBVIOUS
    <3>1. c \in swept'
      BY <2>1, <2>2, <2>3
    <3> QED
      BY <3>1
  <2> QED
    BY <2>1, <2>3, <2>4
<1>4. CASE Dies
  BY <1>4 DEF Dies, Died
<1> QED
  BY Steps, <1>1, <1>2, <1>3, <1>4

\* What is swept was begun.
LEMMA BegunStep ==
  ASSUME Shape, TaskStage, RowStage, TreeStage, [SrNext]_srVars
  PROVE  Begun'
<1> USE DEF Shape, TaskStage, TreeStage, Begun, Isolated, Moved, At, To, Rest, Hurts, CleanUp
<1>1. ASSUME NEW c \in Calls, CallStep(c) PROVE Begun'
  <2>1. CASE Begins(c)
    BY <2>1 DEF Begins, Called
  <2>2. CASE Acquires(c)
    BY <2>2 DEF Acquires
  <2>3. CASE Creates(c)
    BY <2>3 DEF Creates
  <2>4. CASE Records(c)
    BY <2>4 DEF Records
  <2>5. CASE Misses(c)
    BY <2>5 DEF Misses
  <2>6. CASE RollsBack(c)
    BY <2>6 DEF RollsBack
  <2>7. CASE Starts(c)
    BY <2>7 DEF Starts
  <2>8. CASE Works(c)
    BY <2>8 DEF Works
  <2>9. CASE Ended(c)
    BY <2>9 DEF Ended
  <2>10. CASE Closes(c)
    BY <2>10 DEF Closes
  <2>11. CASE Cleans(c)
    BY <2>11 DEF Cleans
  <2>12. CASE Delivers(c)
    BY <2>12 DEF Delivers
  <2>13. CASE Untracks(c)
    BY <2>13 DEF Untracks
  <2> QED
    BY <1>1, <2>1, <2>2, <2>3, <2>4, <2>5, <2>6, <2>7, <2>8, <2>9, <2>10, <2>11, <2>12, <2>13 DEF
       CallStep
<1>2. CASE Still /\ UNCHANGED <<Rest, disk, hurt>>
  BY <1>2 DEF Still, Kept
<1>3. CASE Switches
  BY <1>3 DEF Switches
<1>4. CASE Dies
  BY <1>4 DEF Dies, Died
<1> QED
  BY Steps, <1>1, <1>2, <1>3, <1>4

\* The variables keep their types: a run has no more requests than it may.
LEMMA ShapeStep ==
  ASSUME Shape, TaskStage, RowStage, Costs, [SrNext]_srVars
  PROVE  Shape'
<1> USE DEF Shape, Moved, At, To, Rest, Hurts, CleanUp
<1>1. ASSUME NEW c \in Calls, CallStep(c) PROVE Shape'
  <2>1. CASE Begins(c)
    BY <2>1 DEF Begins, Called
  <2>2. CASE Acquires(c)
    BY <2>2 DEF Acquires
  <2>3. CASE Creates(c)
    BY <2>3, IdIn DEF Creates
  <2>4. CASE Records(c)
    BY <2>4, RowMoves DEF Records
  <2>5. CASE Misses(c)
    BY <2>5 DEF Misses
  <2>6. CASE RollsBack(c)
    BY <2>6, IdIn DEF RollsBack
  <2>7. CASE Starts(c)
    BY <2>7 DEF Starts
  <2>8. CASE Works(c)
    <3>1. messages[c] \in 0 .. MaxRequests /\ MaxRequests \in Nat /\ row[c].usage \in 0 .. MaxRequests
      BY RowMoves
    <3>2. row[c].usage < MaxRequests
      BY <2>8, <3>1 DEF Costs, Works
    <3>3. row' \in [Calls -> RowSet]
      BY <2>8, <3>2, RowMoves DEF Works
    <3>4. messages' \in [Calls -> 0 .. MaxRequests]
      BY <2>8, <3>1 DEF Works
    <3> QED
      BY <2>8, <3>3, <3>4 DEF Works
  <2>9. CASE Ended(c)
    BY <2>9 DEF Ended
  <2>10. CASE Closes(c)
    <3>1. row' \in [Calls -> RowSet]
      BY <2>10, RowMoves DEF Closes, RowStage
    <3> QED
      BY <2>10, <3>1 DEF Closes
  <2>11. CASE Cleans(c)
    BY <2>11, IdIn DEF Cleans
  <2>12. CASE Delivers(c)
    BY <2>12 DEF Delivers
  <2>13. CASE Untracks(c)
    BY <2>13 DEF Untracks
  <2> QED
    BY <1>1, <2>1, <2>2, <2>3, <2>4, <2>5, <2>6, <2>7, <2>8, <2>9, <2>10, <2>11, <2>12, <2>13 DEF
       CallStep
<1>2. CASE Still /\ UNCHANGED <<Rest, disk, hurt>>
  BY <1>2 DEF Still, Kept
<1>3. CASE Switches
  BY <1>3 DEF Switches
<1>4. CASE Dies
  BY <1>4 DEF Dies, Died
<1> QED
  BY Steps, <1>1, <1>2, <1>3, <1>4

\* A worktree whose run failed is gone before the run is over.
LEMMA FailedTreeStep ==
  ASSUME Shape, TaskStage, RowStage, Owners, FailedTreeGone, [SrNext]_srVars
  PROVE  FailedTreeGone'
<1> USE DEF Shape, RowStage, Owners, FailedTreeGone, Early, Ends, NoRow, Moved, At, To, Rest,
   Hurts, CleanUp
<1>1. ASSUME NEW c \in Calls, CallStep(c) PROVE FailedTreeGone'
  <2>1. CASE Begins(c)
    BY <2>1 DEF Begins, Called
  <2>2. CASE Acquires(c)
    BY <2>2 DEF Acquires
  <2>3. CASE Creates(c)
    BY <2>3, IdIn DEF Creates
  <2>4. CASE Records(c)
    BY <2>4, RowMoves DEF Records
  <2>5. CASE Misses(c)
    BY <2>5 DEF Misses
  <2>6. CASE RollsBack(c)
    BY <2>6, IdIn DEF RollsBack
  <2>7. CASE Starts(c)
    BY <2>7 DEF Starts
  <2>8. CASE Works(c)
    BY <2>8, RowMoves DEF Works
  <2>9. CASE Ended(c)
    BY <2>9 DEF Ended
  <2>10. CASE Closes(c)
    BY <2>10, RowMoves DEF Closes
  <2>11. CASE Cleans(c)
    BY <2>11, IdIn DEF Cleans
  <2>12. CASE Delivers(c)
    BY <2>12 DEF Delivers
  <2>13. CASE Untracks(c)
    BY <2>13 DEF Untracks
  <2> QED
    BY <1>1, <2>1, <2>2, <2>3, <2>4, <2>5, <2>6, <2>7, <2>8, <2>9, <2>10, <2>11, <2>12, <2>13 DEF
       CallStep
<1>2. CASE Still /\ UNCHANGED <<Rest, disk, hurt>>
  BY <1>2 DEF Still, Kept
<1>3. CASE Switches
  BY <1>3 DEF Switches
<1>4. CASE Dies
  BY <1>4 DEF Dies, Died
<1> QED
  BY Steps, <1>1, <1>2, <1>3, <1>4

\* What the parent was told agrees with the record.
LEMMA TruthStep ==
  ASSUME Shape, TaskStage, RowStage, Costs, RecordTruth, [SrNext]_srVars
  PROVE  RecordTruth'
<1> USE DEF Shape, RowStage, TaskStage, Costs, RecordTruth, Early, Ends, NoRow, Moved, At, To,
   Rest, Hurts, CleanUp
<1>1. ASSUME NEW c \in Calls, CallStep(c) PROVE RecordTruth'
  <2>1. CASE Begins(c)
    BY <2>1 DEF Begins, Called
  <2>2. CASE Acquires(c)
    BY <2>2 DEF Acquires
  <2>3. CASE Creates(c)
    BY <2>3 DEF Creates
  <2>4. CASE Records(c)
    BY <2>4, RowMoves DEF Records
  <2>5. CASE Misses(c)
    BY <2>5 DEF Misses
  <2>6. CASE RollsBack(c)
    BY <2>6 DEF RollsBack
  <2>7. CASE Starts(c)
    BY <2>7 DEF Starts
  <2>8. CASE Works(c)
    BY <2>8, RowMoves DEF Works
  <2>9. CASE Ended(c)
    BY <2>9 DEF Ended
  <2>10. CASE Closes(c)
    BY <2>10, RowMoves DEF Closes
  <2>11. CASE Cleans(c)
    BY <2>11 DEF Cleans
  <2>12. CASE Delivers(c)
    BY <2>12 DEF Delivers
  <2>13. CASE Untracks(c)
    BY <2>13 DEF Untracks
  <2> QED
    BY <1>1, <2>1, <2>2, <2>3, <2>4, <2>5, <2>6, <2>7, <2>8, <2>9, <2>10, <2>11, <2>12, <2>13 DEF
       CallStep
<1>2. CASE Still /\ UNCHANGED <<Rest, disk, hurt>>
  BY <1>2 DEF Still, Kept
<1>3. CASE Switches
  BY <1>3 DEF Switches
<1>4. CASE Dies
  BY <1>4 DEF Dies, Died
<1> QED
  BY Steps, <1>1, <1>2, <1>3, <1>4

\* A call takes a slot only when one is free, and holds it to its end.
MoreHold == Cardinality(Holding) < MaxParallel /\ \E d \in Calls : Holding' \subseteq Holding \cup {d}
LEMMA HoldStep ==
  ASSUME Shape, TaskStage, RowStage, [SrNext]_srVars
  PROVE  Holding' \subseteq Holding \/ MoreHold
<1> USE DEF Shape, TaskStage, Holding, Moved, At, To, Rest, Hurts, CleanUp
<1>1. ASSUME NEW c \in Calls, CallStep(c) PROVE Holding' \subseteq Holding \/ MoreHold
  <2>1. CASE Begins(c)
    BY <2>1 DEF Begins, Called
  <2>2. CASE Acquires(c)
    <3>1. CASE Moved(c, "gone", run[c].end, "error")
      BY <2>2, <3>1 DEF Acquires
    <3>2. CASE ~Moved(c, "gone", run[c].end, "error")
      <4>1. Holding' \subseteq Holding \cup {c}
        BY <2>2, <3>2 DEF Acquires
      <4> QED
        BY <2>2, <3>2, <4>1 DEF Acquires, MoreHold
    <3> QED
      BY <3>1, <3>2
  <2>3. CASE Creates(c)
    BY <2>3 DEF Creates
  <2>4. CASE Records(c)
    BY <2>4 DEF Records
  <2>5. CASE Misses(c)
    BY <2>5 DEF Misses
  <2>6. CASE RollsBack(c)
    BY <2>6 DEF RollsBack
  <2>7. CASE Starts(c)
    BY <2>7 DEF Starts
  <2>8. CASE Works(c)
    BY <2>8 DEF Works
  <2>9. CASE Ended(c)
    BY <2>9 DEF Ended
  <2>10. CASE Closes(c)
    BY <2>10 DEF Closes
  <2>11. CASE Cleans(c)
    BY <2>11 DEF Cleans
  <2>12. CASE Delivers(c)
    BY <2>12 DEF Delivers
  <2>13. CASE Untracks(c)
    BY <2>13 DEF Untracks
  <2> QED
    BY <1>1, <2>1, <2>2, <2>3, <2>4, <2>5, <2>6, <2>7, <2>8, <2>9, <2>10, <2>11, <2>12, <2>13 DEF
       CallStep
<1>2. CASE Still /\ UNCHANGED <<Rest, disk, hurt>>
  BY <1>2 DEF Still, Kept
<1>3. CASE Switches
  BY <1>3 DEF Switches
<1>4. CASE Dies
  BY <1>4 DEF Dies, Died
<1> QED
  BY Steps, <1>1, <1>2, <1>3, <1>4

LEMMA SlotStep ==
  ASSUME Shape, TaskStage, RowStage, Cardinality(Holding) <= MaxParallel, [SrNext]_srVars
  PROVE  Cardinality(Holding)' <= MaxParallel
<1>1. IsFiniteSet(Holding)
  BY FS_Subset DEF Holding
<1>2. Cardinality(Holding) \in Nat /\ MaxParallel \in Nat
  BY <1>1, FS_CardinalityType
<1>3. CASE Holding' \subseteq Holding
  BY <1>1, <1>2, <1>3, FS_Subset, FS_CardinalityType
<1>4. CASE MoreHold
  <2>1. PICK d \in Calls : Holding' \subseteq Holding \cup {d}
    BY <1>4 DEF MoreHold
  <2>0. /\ IsFiniteSet(Holding \cup {d})
        /\ Cardinality(Holding \cup {d}) = IF d \in Holding THEN Cardinality(Holding) ELSE Cardinality(Holding) + 1
    BY <1>1, FS_AddElement
  <2>2. IsFiniteSet(Holding \cup {d}) /\ Cardinality(Holding \cup {d}) <= MaxParallel
    BY <1>2, <1>4, <2>0 DEF MoreHold
  <2>3. Cardinality(Holding') <= Cardinality(Holding \cup {d}) /\ Cardinality(Holding') \in Nat
    BY <2>1, <2>2, FS_Subset, FS_CardinalityType
  <2>4. Cardinality(Holding \cup {d}) \in Nat
    BY <2>2, FS_CardinalityType
  <2> QED
    BY <1>2, <2>2, <2>3, <2>4
<1> QED
  BY <1>3, <1>4, HoldStep

\* The record of a run that has ended stays as it is.
LEMMA FinalStep ==
  ASSUME Shape, TaskStage, RowStage, [SrNext]_srVars
  PROVE  \A d \in Calls : row[d].status \in Ends => row'[d] = row[d]
<1> USE DEF Shape, RowStage, Early, Ends, NoRow, Failure, Moved, At, To, Rest, Hurts, CleanUp
<1>1. ASSUME NEW c \in Calls, CallStep(c) PROVE \A d \in Calls : row[d].status \in Ends => row'[d] = row[d]
  <2>1. CASE Begins(c)
    BY <2>1 DEF Begins, Called
  <2>2. CASE Acquires(c)
    BY <2>2 DEF Acquires
  <2>3. CASE Creates(c)
    BY <2>3 DEF Creates
  <2>4. CASE Records(c)
    BY <2>4, RowMoves DEF Records
  <2>5. CASE Misses(c)
    BY <2>5 DEF Misses
  <2>6. CASE RollsBack(c)
    BY <2>6 DEF RollsBack
  <2>7. CASE Starts(c)
    BY <2>7 DEF Starts
  <2>8. CASE Works(c)
    BY <2>8, RowMoves DEF Works
  <2>9. CASE Ended(c)
    BY <2>9 DEF Ended
  <2>10. CASE Closes(c)
    BY <2>10, RowMoves DEF Closes
  <2>11. CASE Cleans(c)
    BY <2>11 DEF Cleans
  <2>12. CASE Delivers(c)
    BY <2>12 DEF Delivers
  <2>13. CASE Untracks(c)
    BY <2>13 DEF Untracks
  <2> QED
    BY <1>1, <2>1, <2>2, <2>3, <2>4, <2>5, <2>6, <2>7, <2>8, <2>9, <2>10, <2>11, <2>12, <2>13 DEF
       CallStep
<1>2. CASE Still /\ UNCHANGED <<Rest, disk, hurt>>
  BY <1>2 DEF Still, Kept
<1>3. CASE Switches
  BY <1>3 DEF Switches
<1>4. CASE Dies
  BY <1>4 DEF Dies, Died
<1> QED
  BY Steps, <1>1, <1>2, <1>3, <1>4

(***************************************************************************)
(* The theorems.                                                           *)
(***************************************************************************)

RunsInv ==
  /\ Shape /\ TaskStage /\ RowStage /\ Costs /\ TreeStage /\ FailedTreeGone /\ RecordTruth
  /\ Cardinality(Holding) <= MaxParallel

LEMMA InitRuns == SrInit => RunsInv
<1> SUFFICES ASSUME SrInit PROVE RunsInv
  OBVIOUS
<1> USE DEF SrInit
<1>1. \A c \in Calls : Fresh(c) \in RunSet /\ Fresh(c).pc = "idle"
  <2> SUFFICES ASSUME NEW c \in Calls PROVE Fresh(c) \in RunSet /\ Fresh(c).pc = "idle"
    OBVIOUS
  <2>1. (CHOOSE p \in Params(c) : TRUE) \in Requests
    OBVIOUS
  <2> QED
    BY <2>1 DEF Fresh, RunSet
<1>2. \A c \in Calls : run[c] \in RunSet /\ run[c].pc = "idle" /\ row[c] = NoRow /\ messages[c] = 0
  BY <1>1
<1>3. NoRow \in RowSet
  BY DEF NoRow, RowSet
<1>4. Shape
  BY <1>1, <1>3 DEF Shape
<1>5. TaskStage /\ RowStage /\ TreeStage /\ FailedTreeGone /\ RecordTruth
  BY <1>2 DEF TaskStage, RowStage, Early, TreeStage, Owners, OwnTree, Owned, Begun,
     FailedTreeGone, RecordTruth
<1>6. Costs
  BY <1>2 DEF Costs, NoRow, Ends
<1>7. Holding = {}
  BY <1>2 DEF Holding
<1> QED
  BY <1>4, <1>5, <1>6, <1>7, FS_EmptySet DEF RunsInv

LEMMA NextRuns == RunsInv /\ [SrNext]_srVars => RunsInv'
<1> SUFFICES ASSUME RunsInv, [SrNext]_srVars PROVE RunsInv'
  OBVIOUS
<1>1. Shape /\ TaskStage /\ RowStage /\ Costs /\ TreeStage /\ FailedTreeGone /\ RecordTruth
      /\ Cardinality(Holding) <= MaxParallel /\ Owners
  BY DEF RunsInv, TreeStage
<1>2. Shape' /\ TaskStage' /\ RowStage' /\ Costs'
  BY <1>1, ShapeStep, TaskStep, RowStep, CostsStep
<1>3. TreeStage'
  BY <1>1, OwnersStep, OwnTreeStep, BegunStep DEF TreeStage
<1>4. FailedTreeGone' /\ RecordTruth' /\ Cardinality(Holding)' <= MaxParallel
  BY <1>1, FailedTreeStep, TruthStep, SlotStep
<1> QED
  BY <1>2, <1>3, <1>4 DEF RunsInv

\* The types of the model are those of the proof, and no more calls hold a slot than there are.
LEMMA RunsTyped == RunsInv => SrTypeOK
BY DEF RunsInv, Shape, TaskStage, SrTypeOK, RunSet, RowSet, Ends

\* A child's limits are in its tools and in the mode of its engine.
LEMMA ChildLimits == ChildRestricted
BY DEF ChildRestricted, MayUse, ChildTools, DisallowedTools, isAsyncTool, McpTools, SomeTools,
   Changing,
       CheckReadonly, permMode, writesInRun, ShellCommands

\* A record that is settled says what its answers cost, and so does the estimate.
LEMMA Settled == RunsInv => SettledCost
<1> SUFFICES ASSUME RunsInv, NEW s \in 1 .. RunSessions,
                    \A c \in Runs(s) : row[c].status # "running" /\ c \notin hurt
             PROVE  sumSubagentCost(s) = SumFunction([c \in Runs(s) |-> messages[c]])
  BY DEF SettledCost
<1>1. \A c \in Runs(s) : row[c].cost = messages[c] /\ row[c].usage = messages[c]
  <2> SUFFICES ASSUME NEW c \in Runs(s) PROVE row[c].cost = messages[c] /\ row[c].usage = messages[c]
    OBVIOUS
  <2>1. c \in Calls /\ row[c] # NoRow /\ row[c] \in RowSet
    BY DEF Runs, RunsInv, Shape
  <2>2. row[c].status \in Ends
    BY <2>1 DEF RunsInv, Costs, RowSet
  <2> QED
    BY <2>1, <2>2 DEF RunsInv, Costs
<1>2. CostOf(s) = [c \in Runs(s) |-> messages[c]]
  BY <1>1 DEF CostOf
<1>3. EstimateOf(s) = [c \in Runs(s) |-> messages[c]]
  BY <1>1 DEF EstimateOf, CostOf, UsageOf
<1> QED
  BY <1>2, <1>3 DEF sumSubagentCost

LEMMA RunsInductive == SrSpec => []RunsInv
BY InitRuns, NextRuns, PTL DEF SrSpec

\* What a run has while it works and what it leaves (finishSync, cleanupWorktreeImmediate, ExecuteRun): a
\* child keeps its worktree and its limits, no more children run for a turn than may, and a run
\* that failed leaves no worktree, whatever order the calls go on in and whatever fails.
THEOREM RunsAreKept == SrSpec => []RunsKept
<1>1. RunsInv => RunsKept
  <2> SUFFICES ASSUME RunsInv PROVE RunsKept
    OBVIOUS
  <2>1. TreeKept
    BY DEF RunsInv, TreeStage, OwnTree, Owned, TreeKept, Working
  <2> QED
    BY <2>1, RunsTyped, ChildLimits DEF RunsInv, RunsKept
<1> QED
  BY <1>1, RunsInductive, PTL

\* The record of a run (FinishRun) agrees with what the parent was told, and the cost of a session
\* (sumSubagentCost) with what the answers cost.
THEOREM RecordsAreTrue == SrSpec => []RecordsTrue
<1>1. RunsInv => RecordsTrue
  BY Settled DEF RunsInv, RecordsTrue
<1> QED
  BY <1>1, RunsInductive, PTL

\* No later request, cancellation, session or process changes the record of a run that has ended.
THEOREM RecordsAreFinal == SrSpec => RecordFinal
<1>1. RunsInv /\ [SrNext]_srVars
        => [\A c \in Calls : row[c].status \notin {"none", "running"} => row'[c] = row[c]]_srVars
  <2> SUFFICES ASSUME RunsInv, [SrNext]_srVars, NEW c \in Calls, row[c].status \notin {"none", "running"}
               PROVE  row'[c] = row[c]
    OBVIOUS
  <2>1. row[c].status \in Ends
    BY RowMoves DEF RunsInv
  <2> QED
    BY <2>1, FinalStep DEF RunsInv
<1> QED
  BY <1>1, RunsInductive, PTL DEF SrSpec, RecordFinal

=============================================================================
