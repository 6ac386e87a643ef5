------------------------- MODULE SpawnNotify_proofs -------------------------
(***************************************************************************)
(* Proofs about SpawnNotify: types, the count of the turns that are open   *)
(* on a holder, and the one place of every notice.                         *)
(***************************************************************************)
EXTENDS SpawnNotify, FiniteSetTheorems, TLAPS

USE SpawnNotifyAssumption DEF SpawnNotifyAssumption

AgentStates == {"none", "starting", "turn", "ended", "now", "later", "queued", "posted", "gone"}
TurnStates == InTurn \cup {"off", "go", "post"}

(***************************************************************************)
(* The inductive invariant.                                                *)
(***************************************************************************)

\* The types, by the part of the state they are about.
TypeAgents == agent \in [Agents -> AgentStates] /\ turnOf \in [Agents -> Turns \cup {NoTurn}]
TypeNotices ==
  /\ queues \in [Priorities -> SUBSET Agents] /\ held \in [Turns -> SUBSET Agents]
  /\ told \in SUBSET Agents /\ seen \in SUBSET told /\ lost \in SUBSET Agents
TypeTurns ==
  /\ turn \in [Turns -> TurnStates] /\ round \in [Turns -> 0..MaxRounds]
  /\ text \in [Turns -> BOOLEAN] /\ cancelled \in [Turns -> BOOLEAN]
  /\ holder \in [Turns -> Nat]
TypeScreen ==
  /\ turnCancel \in Turns \cup {NoTurn}
  /\ running \in BOOLEAN /\ overlay \in BOOLEAN /\ escPending \in BOOLEAN
  /\ interrupted \in BOOLEAN /\ command \in BOOLEAN /\ noticeLast \in BOOLEAN
TypeEvents == events \in Seq(Events)

Types == TypeAgents /\ TypeNotices /\ TypeTurns /\ TypeScreen /\ TypeEvents

\* An agent at work knows the turn it was spawned in; a turn that has not begun, and may
\* reuse an identity, has no agents; a turn is short of its last sub-round until it is there.
Bound ==
  /\ \A a \in Agents : agent[a] \notin {"none", "gone"} => turnOf[a] \in Turns
  /\ \A t \in Turns : turn[t] = "go" => \A a \in Agents : turnOf[a] # t
  /\ \A t \in Turns : turn[t] \in {"drain", "append", "request", "tools"} => round[t] < MaxRounds

\* Only a turn about to store its notices has any in its hands.
HandsFree == \A t \in Turns : turn[t] # "append" => held[t] = {}

\* A notice exists once its agent has queued it, ...
Written(a) == agent[a] \in {"queued", "posted", "gone"}
Queued(a) == \E p \in Priorities : a \in queues[p]
InHands(a) == \E t \in Turns : a \in held[t]

\* ... and then in one place.
OnePlace ==
  \A a \in Agents :
    /\ Written(a) <=> Queued(a) \/ InHands(a) \/ a \in told \/ a \in lost
    /\ \A p, q \in Priorities : a \in queues[p] /\ a \in queues[q] => p = q
    /\ \A t, u \in Turns : a \in held[t] /\ a \in held[u] => t = u
    /\ Queued(a) => ~InHands(a) /\ a \notin told /\ a \notin lost
    /\ InHands(a) => a \notin told /\ a \notin lost
    /\ ~(a \in told /\ a \in lost)

\* Steps, by who makes them.
UIStep ==
  \/ \E t \in Turns : UISubmit(t)
  \/ UIEvent \/ UIEsc \/ UIOverlayOpen \/ UIOverlayClose \/ UICommand \/ Command

LEMMA Steps ==
  [Next]_vars => \/ \E a \in Agents : Agent(a)
                 \/ \E t \in Turns : Turn(t)
                 \/ \E t \in Turns, a \in Agents : TurnSpawn(t, a)
                 \/ UIStep
                 \/ UNCHANGED vars
BY DEF Next, UIStep

\* What the UI does to the turns: it starts one that nothing refers to any more, or none.
StartsOne(t) == Free(t) /\ turn' = [turn EXCEPT ![t] = "go"]
LEMMA UIEffect ==
  UIStep => /\ UNCHANGED <<agentVars, holder, noticeVars, seen, round>>
            /\ UNCHANGED turn \/ \E t \in Turns : StartsOne(t)
<1> USE DEF uiFrame, uiOnly, turnVars, agentVars, noticeVars, At, StartsOne, StartTurn,
   TryAutoResume, UpdateTurnDone
<1>1. ASSUME NEW t \in Turns, UISubmit(t) \/ UIStarted(t) \/ UIDone(t)
      PROVE  /\ UNCHANGED <<agentVars, holder, noticeVars, seen, round>>
             /\ UNCHANGED turn \/ \E u \in Turns : StartsOne(u)
  BY <1>1, Zenon DEF UISubmit, UIStarted, UIDone
<1>2. ASSUME NEW a \in Agents, UIComplete(a)
      PROVE  /\ UNCHANGED <<agentVars, holder, noticeVars, seen, round>>
             /\ UNCHANGED turn \/ \E u \in Turns : StartsOne(u)
  BY <1>2, Zenon DEF UIComplete
<1>3. CASE UIEsc \/ UIOverlayOpen \/ UIOverlayClose \/ UICommand \/ CommandOk \/ CommandFail
  BY <1>3, Zenon DEF UIEsc, UIOverlayOpen, UIOverlayClose, UICommand, CommandOk, CommandFail
<1> QED
  BY <1>1, <1>2, <1>3 DEF UIStep, UIEvent, Command

\* Agents keep to their types.
LEMMA AgentsStep ==
  ASSUME TypeAgents, [Next]_vars
  PROVE  TypeAgents'
<1> USE DEF TypeAgents, AgentStates, Priorities, agentFrame, turnFrame, turnVars, uiVars, noticeVars,
   agentVars
<1>1. ASSUME NEW a \in Agents, Agent(a) PROVE TypeAgents'
  <2>1. CASE AgentTurnBegin(a)
    BY <2>1 DEF AgentTurnBegin
  <2>2. CASE AgentTurnSkip(a)
    BY <2>2 DEF AgentTurnSkip
  <2>3. CASE AgentTurnEnd(a)
    BY <2>3 DEF AgentTurnEnd
  <2>4. CASE AgentPriority(a)
    BY <2>4 DEF AgentPriority
  <2>5. CASE AgentEnqueue(a)
    BY <2>5 DEF AgentEnqueue
  <2>6. CASE AgentPost(a)
    BY <2>6 DEF AgentPost
  <2>7. CASE AgentDelete(a)
    BY <2>7 DEF AgentDelete
  <2> QED
    BY <1>1, <2>1, <2>2, <2>3, <2>4, <2>5, <2>6, <2>7 DEF Agent
<1>2. ASSUME NEW t \in Turns, Turn(t) PROVE TypeAgents'
  <2>1. CASE TurnBegin(t)
    BY <2>1 DEF TurnBegin
  <2>2. CASE TurnDrain(t)
    BY <2>2 DEF TurnDrain
  <2>3. CASE TurnAppend(t)
    BY <2>3 DEF TurnAppend
  <2>4. CASE TurnTools(t)
    BY <2>4 DEF TurnTools
  <2>5. CASE TurnAnswer(t)
    BY <2>5 DEF TurnAnswer
  <2>6. CASE TurnFail(t)
    BY <2>6 DEF TurnFail
  <2>7. CASE TurnMaxFail(t)
    BY <2>7 DEF TurnMaxFail
  <2>8. CASE TurnToolsDone(t)
    BY <2>8 DEF TurnToolsDone, DrainLater
  <2>9. CASE TurnFinish(t)
    BY <2>9 DEF TurnFinish, DrainLater
  <2>10. CASE TurnReturn(t)
    BY <2>10 DEF TurnReturn
  <2>11. CASE TurnPost(t)
    BY <2>11 DEF TurnPost
  <2> QED
    BY <1>2, <2>1, <2>2, <2>3, <2>4, <2>5, <2>6, <2>7, <2>8, <2>9, <2>10, <2>11 DEF Turn
<1>3. ASSUME NEW t \in Turns, NEW a \in Agents, TurnSpawn(t, a) PROVE TypeAgents'
  BY <1>3 DEF TurnSpawn
<1>4. CASE UIStep
  BY <1>4, UIEffect
<1>5. CASE UNCHANGED vars
  BY <1>5 DEF vars
<1> QED
  BY Steps, <1>1, <1>2, <1>3, <1>4, <1>5

\* Notices are of agents, and only what was told is seen.
LEMMA NoticesStep ==
  ASSUME TypeAgents, TypeNotices, [Next]_vars
  PROVE  TypeNotices'
<1> USE DEF TypeAgents, TypeNotices, Priorities, agentFrame, turnFrame, turnVars, uiVars, noticeVars,
   agentVars
<1>1. ASSUME NEW a \in Agents, Agent(a) PROVE TypeNotices'
  <2>1. CASE AgentTurnBegin(a)
    BY <2>1 DEF AgentTurnBegin
  <2>2. CASE AgentTurnSkip(a)
    BY <2>2 DEF AgentTurnSkip
  <2>3. CASE AgentTurnEnd(a)
    BY <2>3 DEF AgentTurnEnd
  <2>4. CASE AgentPriority(a)
    BY <2>4 DEF AgentPriority
  <2>5. CASE AgentEnqueue(a)
    BY <2>5 DEF AgentEnqueue
  <2>6. CASE AgentPost(a)
    BY <2>6 DEF AgentPost
  <2>7. CASE AgentDelete(a)
    BY <2>7 DEF AgentDelete
  <2> QED
    BY <1>1, <2>1, <2>2, <2>3, <2>4, <2>5, <2>6, <2>7 DEF Agent
<1>2. ASSUME NEW t \in Turns, Turn(t) PROVE TypeNotices'
  <2>1. CASE TurnBegin(t)
    BY <2>1 DEF TurnBegin
  <2>2. CASE TurnDrain(t)
    BY <2>2 DEF TurnDrain
  <2>3. CASE TurnAppend(t)
    BY <2>3 DEF TurnAppend
  <2>4. CASE TurnTools(t)
    BY <2>4 DEF TurnTools
  <2>5. CASE TurnAnswer(t)
    BY <2>5 DEF TurnAnswer
  <2>6. CASE TurnFail(t)
    BY <2>6 DEF TurnFail
  <2>7. CASE TurnMaxFail(t)
    BY <2>7 DEF TurnMaxFail
  <2>8. CASE TurnToolsDone(t)
    BY <2>8 DEF TurnToolsDone, DrainLater
  <2>9. CASE TurnFinish(t)
    BY <2>9 DEF TurnFinish, DrainLater
  <2>10. CASE TurnReturn(t)
    BY <2>10 DEF TurnReturn
  <2>11. CASE TurnPost(t)
    BY <2>11 DEF TurnPost
  <2> QED
    BY <1>2, <2>1, <2>2, <2>3, <2>4, <2>5, <2>6, <2>7, <2>8, <2>9, <2>10, <2>11 DEF Turn
<1>3. ASSUME NEW t \in Turns, NEW a \in Agents, TurnSpawn(t, a) PROVE TypeNotices'
  BY <1>3 DEF TurnSpawn
<1>4. CASE UIStep
  BY <1>4, UIEffect
<1>5. CASE UNCHANGED vars
  BY <1>5 DEF vars
<1> QED
  BY Steps, <1>1, <1>2, <1>3, <1>4, <1>5

\* Agents know their turns, and turns their sub-rounds.
LEMMA BoundStep ==
  ASSUME TypeAgents, TypeTurns, Bound, [Next]_vars
  PROVE  Bound'
<1> USE DEF TypeAgents, TypeTurns, Bound, At, Priorities, agentFrame, turnFrame, turnVars, uiVars,
   noticeVars, agentVars
<1>1. ASSUME NEW a \in Agents, Agent(a) PROVE Bound'
  <2>1. CASE AgentTurnBegin(a)
    BY <2>1 DEF AgentTurnBegin
  <2>2. CASE AgentTurnSkip(a)
    BY <2>2 DEF AgentTurnSkip
  <2>3. CASE AgentTurnEnd(a)
    BY <2>3 DEF AgentTurnEnd
  <2>4. CASE AgentPriority(a)
    BY <2>4 DEF AgentPriority
  <2>5. CASE AgentEnqueue(a)
    BY <2>5 DEF AgentEnqueue
  <2>6. CASE AgentPost(a)
    BY <2>6 DEF AgentPost
  <2>7. CASE AgentDelete(a)
    BY <2>7 DEF AgentDelete
  <2> QED
    BY <1>1, <2>1, <2>2, <2>3, <2>4, <2>5, <2>6, <2>7 DEF Agent
<1>2. ASSUME NEW t \in Turns, Turn(t) PROVE Bound'
  <2>1. CASE TurnBegin(t)
    BY <2>1 DEF TurnBegin
  <2>2. CASE TurnDrain(t)
    BY <2>2 DEF TurnDrain
  <2>3. CASE TurnAppend(t)
    BY <2>3 DEF TurnAppend
  <2>4. CASE TurnTools(t)
    BY <2>4 DEF TurnTools
  <2>5. CASE TurnAnswer(t)
    BY <2>5 DEF TurnAnswer
  <2>6. CASE TurnFail(t)
    BY <2>6 DEF TurnFail
  <2>7. CASE TurnMaxFail(t)
    BY <2>7 DEF TurnMaxFail
  <2>8. CASE TurnToolsDone(t)
    BY <2>8 DEF TurnToolsDone, DrainLater
  <2>9. CASE TurnFinish(t)
    BY <2>9 DEF TurnFinish, DrainLater
  <2>10. CASE TurnReturn(t)
    BY <2>10 DEF TurnReturn
  <2>11. CASE TurnPost(t)
    BY <2>11 DEF TurnPost
  <2> QED
    BY <1>2, <2>1, <2>2, <2>3, <2>4, <2>5, <2>6, <2>7, <2>8, <2>9, <2>10, <2>11 DEF Turn
<1>3. ASSUME NEW t \in Turns, NEW a \in Agents, TurnSpawn(t, a) PROVE Bound'
  BY <1>3 DEF TurnSpawn
<1>4. CASE UIStep
  BY <1>4, UIEffect DEF StartsOne, Free
<1>5. CASE UNCHANGED vars
  BY <1>5 DEF vars
<1> QED
  BY Steps, <1>1, <1>2, <1>3, <1>4, <1>5

\* Only a turn about to store its notices has any.
LEMMA HandsFreeStep ==
  ASSUME TypeTurns, TypeNotices, HandsFree, [Next]_vars
  PROVE  HandsFree'
<1> USE DEF TypeTurns, TypeNotices, HandsFree, At, agentFrame, turnFrame, turnVars, uiVars,
   noticeVars, agentVars
<1>1. ASSUME NEW a \in Agents, Agent(a) PROVE HandsFree'
  <2>1. CASE AgentTurnBegin(a)
    BY <2>1 DEF AgentTurnBegin
  <2>2. CASE AgentTurnSkip(a)
    BY <2>2 DEF AgentTurnSkip
  <2>3. CASE AgentTurnEnd(a)
    BY <2>3 DEF AgentTurnEnd
  <2>4. CASE AgentPriority(a)
    BY <2>4 DEF AgentPriority
  <2>5. CASE AgentEnqueue(a)
    BY <2>5 DEF AgentEnqueue
  <2>6. CASE AgentPost(a)
    BY <2>6 DEF AgentPost
  <2>7. CASE AgentDelete(a)
    BY <2>7 DEF AgentDelete
  <2> QED
    BY <1>1, <2>1, <2>2, <2>3, <2>4, <2>5, <2>6, <2>7 DEF Agent
<1>2. ASSUME NEW t \in Turns, Turn(t) PROVE HandsFree'
  <2>1. CASE TurnBegin(t)
    BY <2>1 DEF TurnBegin
  <2>2. CASE TurnDrain(t)
    BY <2>2 DEF TurnDrain
  <2>3. CASE TurnAppend(t)
    BY <2>3 DEF TurnAppend
  <2>4. CASE TurnTools(t)
    BY <2>4 DEF TurnTools
  <2>5. CASE TurnAnswer(t)
    BY <2>5 DEF TurnAnswer
  <2>6. CASE TurnFail(t)
    BY <2>6 DEF TurnFail
  <2>7. CASE TurnMaxFail(t)
    BY <2>7 DEF TurnMaxFail
  <2>8. CASE TurnToolsDone(t)
    BY <2>8 DEF TurnToolsDone, DrainLater
  <2>9. CASE TurnFinish(t)
    BY <2>9 DEF TurnFinish, DrainLater
  <2>10. CASE TurnReturn(t)
    BY <2>10 DEF TurnReturn
  <2>11. CASE TurnPost(t)
    BY <2>11 DEF TurnPost
  <2> QED
    BY <1>2, <2>1, <2>2, <2>3, <2>4, <2>5, <2>6, <2>7, <2>8, <2>9, <2>10, <2>11 DEF Turn
<1>3. ASSUME NEW t \in Turns, NEW a \in Agents, TurnSpawn(t, a) PROVE HandsFree'
  BY <1>3 DEF TurnSpawn
<1>4. CASE UIStep
  BY <1>4, UIEffect DEF StartsOne, Free
<1>5. CASE UNCHANGED vars
  BY <1>5 DEF vars
<1> QED
  BY Steps, <1>1, <1>2, <1>3, <1>4, <1>5

\* Every notice is in one place.
LEMMA OnePlaceStep ==
  ASSUME TypeAgents, TypeNotices, TypeTurns, HandsFree, OnePlace, [Next]_vars
  PROVE  OnePlace'
<1> USE DEF TypeAgents, TypeNotices, TypeTurns, HandsFree, OnePlace, Written, Queued, InHands,
   Priorities, At, agentFrame, turnFrame, turnVars, uiVars, noticeVars, agentVars
<1>1. ASSUME NEW a \in Agents, Agent(a) PROVE OnePlace'
  <2>1. CASE AgentTurnBegin(a)
    BY <2>1 DEF AgentTurnBegin
  <2>2. CASE AgentTurnSkip(a)
    BY <2>2 DEF AgentTurnSkip
  <2>3. CASE AgentTurnEnd(a)
    BY <2>3 DEF AgentTurnEnd
  <2>4. CASE AgentPriority(a)
    BY <2>4 DEF AgentPriority
  <2>5. CASE AgentEnqueue(a)
    BY <2>5 DEF AgentEnqueue
  <2>6. CASE AgentPost(a)
    BY <2>6 DEF AgentPost
  <2>7. CASE AgentDelete(a)
    BY <2>7 DEF AgentDelete
  <2> QED
    BY <1>1, <2>1, <2>2, <2>3, <2>4, <2>5, <2>6, <2>7 DEF Agent
<1>2. ASSUME NEW t \in Turns, Turn(t) PROVE OnePlace'
  <2>1. CASE TurnBegin(t)
    BY <2>1 DEF TurnBegin
  <2>2. CASE TurnDrain(t)
    BY <2>2 DEF TurnDrain
  <2>3. CASE TurnAppend(t)
    BY <2>3 DEF TurnAppend
  <2>4. CASE TurnTools(t)
    BY <2>4 DEF TurnTools
  <2>5. CASE TurnAnswer(t)
    BY <2>5 DEF TurnAnswer
  <2>6. CASE TurnFail(t)
    BY <2>6 DEF TurnFail
  <2>7. CASE TurnMaxFail(t)
    BY <2>7 DEF TurnMaxFail
  <2>8. CASE TurnToolsDone(t)
    BY <2>8 DEF TurnToolsDone, DrainLater
  <2>9. CASE TurnFinish(t)
    BY <2>9 DEF TurnFinish, DrainLater
  <2>10. CASE TurnReturn(t)
    BY <2>10 DEF TurnReturn
  <2>11. CASE TurnPost(t)
    BY <2>11 DEF TurnPost
  <2> QED
    BY <1>2, <2>1, <2>2, <2>3, <2>4, <2>5, <2>6, <2>7, <2>8, <2>9, <2>10, <2>11 DEF Turn
<1>3. ASSUME NEW t \in Turns, NEW a \in Agents, TurnSpawn(t, a) PROVE OnePlace'
  BY <1>3 DEF TurnSpawn
<1>4. CASE UIStep
  BY <1>4, UIEffect
<1>5. CASE UNCHANGED vars
  BY <1>5 DEF vars
<1> QED
  BY Steps, <1>1, <1>2, <1>3, <1>4, <1>5

\* Turns and their holders keep to their types.
LEMMA TurnsStep ==
  ASSUME TypeAgents, TypeTurns, TypeScreen, Bound, [Next]_vars
  PROVE  TypeTurns'
<1> USE DEF TypeAgents, TypeTurns, TypeScreen, Bound, TurnStates, InTurn, At, agentFrame, turnFrame,
   turnVars, uiVars, noticeVars, agentVars
<1>1. ASSUME NEW a \in Agents, Agent(a) PROVE TypeTurns'
  <2>1. CASE AgentTurnBegin(a)
    BY <2>1 DEF AgentTurnBegin
  <2>2. CASE AgentTurnSkip(a)
    BY <2>2 DEF AgentTurnSkip
  <2>3. CASE AgentTurnEnd(a)
    BY <2>3 DEF AgentTurnEnd
  <2>4. CASE AgentPriority(a)
    BY <2>4 DEF AgentPriority
  <2>5. CASE AgentEnqueue(a)
    BY <2>5 DEF AgentEnqueue
  <2>6. CASE AgentPost(a)
    BY <2>6 DEF AgentPost
  <2>7. CASE AgentDelete(a)
    BY <2>7 DEF AgentDelete
  <2> QED
    BY <1>1, <2>1, <2>2, <2>3, <2>4, <2>5, <2>6, <2>7 DEF Agent
<1>2. ASSUME NEW t \in Turns, Turn(t) PROVE TypeTurns'
  <2>1. CASE TurnBegin(t)
    BY <2>1 DEF TurnBegin
  <2>2. CASE TurnDrain(t)
    BY <2>2 DEF TurnDrain
  <2>3. CASE TurnAppend(t)
    BY <2>3 DEF TurnAppend
  <2>4. CASE TurnTools(t)
    BY <2>4 DEF TurnTools
  <2>5. CASE TurnAnswer(t)
    BY <2>5 DEF TurnAnswer
  <2>6. CASE TurnFail(t)
    BY <2>6 DEF TurnFail
  <2>7. CASE TurnMaxFail(t)
    BY <2>7 DEF TurnMaxFail
  <2>8. CASE TurnToolsDone(t)
    BY <2>8 DEF TurnToolsDone, DrainLater
  <2>9. CASE TurnFinish(t)
    BY <2>9 DEF TurnFinish, DrainLater
  <2>10. CASE TurnReturn(t)
    BY <2>10 DEF TurnReturn
  <2>11. CASE TurnPost(t)
    BY <2>11 DEF TurnPost
  <2> QED
    BY <1>2, <2>1, <2>2, <2>3, <2>4, <2>5, <2>6, <2>7, <2>8, <2>9, <2>10, <2>11 DEF Turn
<1>3. ASSUME NEW t \in Turns, NEW a \in Agents, TurnSpawn(t, a) PROVE TypeTurns'
  BY <1>3 DEF TurnSpawn
<1>4. CASE UIStep
  <2> USE DEF uiFrame, uiOnly, StartTurn, TryAutoResume, UpdateTurnDone, CancelTurn
  <2>1. ASSUME NEW t \in Turns, UISubmit(t) PROVE TypeTurns'
    BY <2>1 DEF UISubmit
  <2>2. ASSUME NEW t \in Turns, UIStarted(t) PROVE TypeTurns'
    BY <2>2 DEF UIStarted
  <2>3. ASSUME NEW t \in Turns, UIDone(t) PROVE TypeTurns'
    BY <2>3 DEF UIDone
  <2>4. ASSUME NEW a \in Agents, UIComplete(a) PROVE TypeTurns'
    BY <2>4 DEF UIComplete
  <2>5. CASE UIEsc
    BY <2>5 DEF UIEsc
  <2>6. CASE UIOverlayOpen
    BY <2>6 DEF UIOverlayOpen
  <2>7. CASE UIOverlayClose
    BY <2>7 DEF UIOverlayClose
  <2>8. CASE UICommand
    BY <2>8 DEF UICommand
  <2>9. CASE CommandOk
    BY <2>9 DEF CommandOk
  <2>10. CASE CommandFail
    BY <2>10 DEF CommandFail
  <2> QED
    BY <1>4, <2>1, <2>2, <2>3, <2>4, <2>5, <2>6, <2>7, <2>8, <2>9, <2>10 DEF UIStep, UIEvent, Command
<1>5. CASE UNCHANGED vars
  BY <1>5 DEF vars
<1> QED
  BY Steps, <1>1, <1>2, <1>3, <1>4, <1>5

\* The screen keeps to its types.
LEMMA ScreenStep ==
  ASSUME TypeScreen, [Next]_vars
  PROVE  TypeScreen'
<1> USE DEF TypeScreen, agentFrame, turnFrame, turnVars, uiVars, noticeVars, agentVars
<1>1. ASSUME NEW a \in Agents, Agent(a) PROVE TypeScreen'
  <2>1. CASE AgentTurnBegin(a)
    BY <2>1 DEF AgentTurnBegin
  <2>2. CASE AgentTurnSkip(a)
    BY <2>2 DEF AgentTurnSkip
  <2>3. CASE AgentTurnEnd(a)
    BY <2>3 DEF AgentTurnEnd
  <2>4. CASE AgentPriority(a)
    BY <2>4 DEF AgentPriority
  <2>5. CASE AgentEnqueue(a)
    BY <2>5 DEF AgentEnqueue
  <2>6. CASE AgentPost(a)
    BY <2>6 DEF AgentPost
  <2>7. CASE AgentDelete(a)
    BY <2>7 DEF AgentDelete
  <2> QED
    BY <1>1, <2>1, <2>2, <2>3, <2>4, <2>5, <2>6, <2>7 DEF Agent
<1>2. ASSUME NEW t \in Turns, Turn(t) PROVE TypeScreen'
  <2>1. CASE TurnBegin(t)
    BY <2>1 DEF TurnBegin
  <2>2. CASE TurnDrain(t)
    BY <2>2 DEF TurnDrain
  <2>3. CASE TurnAppend(t)
    BY <2>3 DEF TurnAppend
  <2>4. CASE TurnTools(t)
    BY <2>4 DEF TurnTools
  <2>5. CASE TurnAnswer(t)
    BY <2>5 DEF TurnAnswer
  <2>6. CASE TurnFail(t)
    BY <2>6 DEF TurnFail
  <2>7. CASE TurnMaxFail(t)
    BY <2>7 DEF TurnMaxFail
  <2>8. CASE TurnToolsDone(t)
    BY <2>8 DEF TurnToolsDone, DrainLater
  <2>9. CASE TurnFinish(t)
    BY <2>9 DEF TurnFinish, DrainLater
  <2>10. CASE TurnReturn(t)
    BY <2>10 DEF TurnReturn
  <2>11. CASE TurnPost(t)
    BY <2>11 DEF TurnPost
  <2> QED
    BY <1>2, <2>1, <2>2, <2>3, <2>4, <2>5, <2>6, <2>7, <2>8, <2>9, <2>10, <2>11 DEF Turn
<1>3. ASSUME NEW t \in Turns, NEW a \in Agents, TurnSpawn(t, a) PROVE TypeScreen'
  BY <1>3 DEF TurnSpawn
<1>4. CASE UIStep
  <2> USE DEF uiFrame, uiOnly, StartTurn, TryAutoResume, UpdateTurnDone, CancelTurn
  <2>1. ASSUME NEW t \in Turns, UISubmit(t) PROVE TypeScreen'
    BY <2>1 DEF UISubmit
  <2>2. ASSUME NEW t \in Turns, UIStarted(t) PROVE TypeScreen'
    BY <2>2 DEF UIStarted
  <2>3. ASSUME NEW t \in Turns, UIDone(t) PROVE TypeScreen'
    BY <2>3 DEF UIDone
  <2>4. ASSUME NEW a \in Agents, UIComplete(a) PROVE TypeScreen'
    BY <2>4 DEF UIComplete
  <2>5. CASE UIEsc
    BY <2>5 DEF UIEsc
  <2>6. CASE UIOverlayOpen
    BY <2>6 DEF UIOverlayOpen
  <2>7. CASE UIOverlayClose
    BY <2>7 DEF UIOverlayClose
  <2>8. CASE UICommand
    BY <2>8 DEF UICommand
  <2>9. CASE CommandOk
    BY <2>9 DEF CommandOk
  <2>10. CASE CommandFail
    BY <2>10 DEF CommandFail
  <2> QED
    BY <1>4, <2>1, <2>2, <2>3, <2>4, <2>5, <2>6, <2>7, <2>8, <2>9, <2>10 DEF UIStep, UIEvent, Command
<1>5. CASE UNCHANGED vars
  BY <1>5 DEF vars
<1> QED
  BY Steps, <1>1, <1>2, <1>3, <1>4, <1>5

\* The channel has events.
LEMMA EventsStep ==
  ASSUME TypeEvents, [Next]_vars
  PROVE  TypeEvents'
<1> USE DEF TypeEvents, Events, agentFrame, turnFrame, turnVars, uiVars, noticeVars, agentVars
<1>1. ASSUME NEW a \in Agents, Agent(a) PROVE TypeEvents'
  <2>1. CASE AgentTurnBegin(a)
    BY <2>1 DEF AgentTurnBegin
  <2>2. CASE AgentTurnSkip(a)
    BY <2>2 DEF AgentTurnSkip
  <2>3. CASE AgentTurnEnd(a)
    BY <2>3 DEF AgentTurnEnd
  <2>4. CASE AgentPriority(a)
    BY <2>4 DEF AgentPriority
  <2>5. CASE AgentEnqueue(a)
    BY <2>5 DEF AgentEnqueue
  <2>6. CASE AgentPost(a)
    BY <2>6 DEF AgentPost
  <2>7. CASE AgentDelete(a)
    BY <2>7 DEF AgentDelete
  <2> QED
    BY <1>1, <2>1, <2>2, <2>3, <2>4, <2>5, <2>6, <2>7 DEF Agent
<1>2. ASSUME NEW t \in Turns, Turn(t) PROVE TypeEvents'
  <2>1. CASE TurnBegin(t)
    BY <2>1 DEF TurnBegin
  <2>2. CASE TurnDrain(t)
    BY <2>2 DEF TurnDrain
  <2>3. CASE TurnAppend(t)
    BY <2>3 DEF TurnAppend
  <2>4. CASE TurnTools(t)
    BY <2>4 DEF TurnTools
  <2>5. CASE TurnAnswer(t)
    BY <2>5 DEF TurnAnswer
  <2>6. CASE TurnFail(t)
    BY <2>6 DEF TurnFail
  <2>7. CASE TurnMaxFail(t)
    BY <2>7 DEF TurnMaxFail
  <2>8. CASE TurnToolsDone(t)
    BY <2>8 DEF TurnToolsDone, DrainLater
  <2>9. CASE TurnFinish(t)
    BY <2>9 DEF TurnFinish, DrainLater
  <2>10. CASE TurnReturn(t)
    BY <2>10 DEF TurnReturn
  <2>11. CASE TurnPost(t)
    BY <2>11 DEF TurnPost
  <2> QED
    BY <1>2, <2>1, <2>2, <2>3, <2>4, <2>5, <2>6, <2>7, <2>8, <2>9, <2>10, <2>11 DEF Turn
<1>3. ASSUME NEW t \in Turns, NEW a \in Agents, TurnSpawn(t, a) PROVE TypeEvents'
  BY <1>3 DEF TurnSpawn
<1>4. CASE UIStep
  <2> USE DEF uiFrame, uiOnly, StartTurn, TryAutoResume, UpdateTurnDone, CancelTurn
  <2>1. ASSUME NEW t \in Turns, UISubmit(t) PROVE TypeEvents'
    BY <2>1 DEF UISubmit
  <2>2. ASSUME NEW t \in Turns, UIStarted(t) PROVE TypeEvents'
    BY <2>2 DEF UIStarted
  <2>3. ASSUME NEW t \in Turns, UIDone(t) PROVE TypeEvents'
    BY <2>3 DEF UIDone
  <2>4. ASSUME NEW a \in Agents, UIComplete(a) PROVE TypeEvents'
    BY <2>4 DEF UIComplete
  <2>5. CASE UIEsc
    BY <2>5 DEF UIEsc
  <2>6. CASE UIOverlayOpen
    BY <2>6 DEF UIOverlayOpen
  <2>7. CASE UIOverlayClose
    BY <2>7 DEF UIOverlayClose
  <2>8. CASE UICommand
    BY <2>8 DEF UICommand
  <2>9. CASE CommandOk
    BY <2>9 DEF CommandOk
  <2>10. CASE CommandFail
    BY <2>10 DEF CommandFail
  <2> QED
    BY <1>4, <2>1, <2>2, <2>3, <2>4, <2>5, <2>6, <2>7, <2>8, <2>9, <2>10 DEF UIStep, UIEvent, Command
<1>5. CASE UNCHANGED vars
  BY <1>5 DEF vars
<1> QED
  BY Steps, <1>1, <1>2, <1>3, <1>4, <1>5

(***************************************************************************)
(* The count of a holder.                                                  *)
(***************************************************************************)

\* The children in their own RunTurn on the holder of t.
Open(t) == {a \in Agents : agent[a] = "turn" /\ turnOf[a] = t}
One(t) == IF turn[t] \in InTurn THEN 1 ELSE 0

LEMMA OpenFinite == \A t : IsFiniteSet(Open(t)) /\ Cardinality(Open(t)) \in Nat
<1> SUFFICES ASSUME NEW t
             PROVE  IsFiniteSet(Open(t)) /\ Cardinality(Open(t)) \in Nat
  OBVIOUS
<1>1. Open(t) \subseteq Agents
  BY DEF Open
<1> QED
  BY <1>1, FS_Subset, FS_CardinalityType

\* While no child begins or ends a turn, holders and turns move together.
LEMMA SameOpen ==
  ASSUME HolderCounts, NEW t \in Turns,
         \A a \in Agents : agent[a] = "turn" /\ turnOf[a] = t <=> agent'[a] = "turn" /\ turnOf'[a] = t,
         holder'[t] - holder[t] = One(t)' - One(t), holder[t] \in Nat, holder'[t] \in Nat
  PROVE  holder'[t] = One(t)' + Cardinality(Open(t)')
<1>1. Open(t)' = Open(t)
  BY DEF Open
<1>2. One(t) \in Nat /\ One(t)' \in Nat /\ holder[t] = One(t) + Cardinality(Open(t))
  BY DEF One, HolderCounts, Open
<1>3. Cardinality(Open(t)) \in Nat
  BY OpenFinite
<1> QED
  BY <1>1, <1>2, <1>3

\* A child's turn and the turn of its parent count alike; an identity is used again only
\* when no child is left to count down.
LEMMA HolderStep ==
  ASSUME Types, Types', Bound, HolderCounts, [Next]_vars
  PROVE  HolderCounts'
<1> SUFFICES ASSUME NEW t \in Turns
             PROVE  holder'[t] = One(t)' + Cardinality(Open(t)')
  BY DEF HolderCounts, One, Open
<1>0. /\ TypeAgents /\ TypeTurns /\ TypeAgents' /\ TypeTurns'
      /\ holder[t] \in Nat /\ holder'[t] \in Nat
      /\ holder[t] = One(t) + Cardinality(Open(t))
      /\ Cardinality(Open(t)) \in Nat /\ IsFiniteSet(Open(t))
  BY OpenFinite DEF Types, TypeTurns, HolderCounts, One, Open
<1> USE DEF agentFrame, turnFrame, turnVars, uiVars, noticeVars, agentVars, At
<1>1. ASSUME NEW a \in Agents, AgentTurnBegin(a)
      PROVE  holder'[t] = One(t)' + Cardinality(Open(t)')
  <2>1. /\ agent[a] = "starting" /\ agent' = [agent EXCEPT ![a] = "turn"] /\ One(t)' = One(t)
        /\ turnOf' = turnOf /\ turnOf[a] \in Turns
        /\ holder' = [holder EXCEPT ![turnOf[a]] = @ + 1]
    BY <1>1 DEF AgentTurnBegin, One, Bound
  <2>2. CASE turnOf[a] = t
    <3>1. Open(t)' = Open(t) \cup {a} /\ a \notin Open(t)
      BY <2>1, <2>2, <1>0 DEF Open, TypeAgents
    <3>2. Cardinality(Open(t)') = Cardinality(Open(t)) + 1
      BY <3>1, <1>0, FS_AddElement
    <3>3. holder'[t] = holder[t] + 1 /\ One(t) \in Nat
      BY <2>1, <2>2, <1>0 DEF TypeTurns, One
    <3> QED
      BY <3>2, <3>3, <2>1, <1>0
  <2>3. CASE turnOf[a] # t
    BY <2>1, <2>3, <1>0, SameOpen DEF TypeTurns, TypeAgents, One
  <2> QED
    BY <2>2, <2>3
<1>2. ASSUME NEW a \in Agents, AgentTurnEnd(a)
      PROVE  holder'[t] = One(t)' + Cardinality(Open(t)')
  <2>1. /\ agent[a] = "turn" /\ agent' = [agent EXCEPT ![a] = "ended"] /\ One(t)' = One(t)
        /\ turnOf' = turnOf /\ turnOf[a] \in Turns
        /\ holder' = [holder EXCEPT ![turnOf[a]] = IF @ > 0 THEN @ - 1 ELSE 0]
    BY <1>2 DEF AgentTurnEnd, One, Bound
  <2>2. CASE turnOf[a] = t
    <3>1. Open(t)' = Open(t) \ {a} /\ a \in Open(t)
      BY <2>1, <2>2, <1>0 DEF Open, TypeAgents
    <3>2. Cardinality(Open(t)') = Cardinality(Open(t)) - 1 /\ Cardinality(Open(t)) > 0
      BY <3>1, <1>0, FS_RemoveElement, FS_EmptySet
    <3>3. One(t) \in Nat /\ holder'[t] = IF holder[t] > 0 THEN holder[t] - 1 ELSE 0
      BY <2>1, <2>2, <1>0 DEF TypeTurns, One
    <3> QED
      BY <3>2, <3>3, <2>1, <1>0
  <2>3. CASE turnOf[a] # t
    BY <2>1, <2>3, <1>0, SameOpen DEF TypeTurns, TypeAgents, One
  <2> QED
    BY <2>2, <2>3
<1>3. ASSUME NEW a \in Agents,
             \/ AgentTurnSkip(a) \/ AgentPriority(a) \/ AgentEnqueue(a) \/ AgentPost(a) \/ AgentDelete(a)
      PROVE  holder'[t] = One(t)' + Cardinality(Open(t)')
  <2>1. /\ holder' = holder /\ turn' = turn
        /\ agent[a] # "turn" /\ \E v \in AgentStates \ {"turn"} : agent' = [agent EXCEPT ![a] = v]
        /\ \A b \in Agents : b # a => turnOf'[b] = turnOf[b]
    <3> USE <1>0 DEF AgentStates, Priorities, TypeAgents
    <3>1. CASE AgentTurnSkip(a)
      BY <3>1 DEF AgentTurnSkip
    <3>2. CASE AgentPriority(a)
      BY <3>2 DEF AgentPriority
    <3>3. CASE AgentEnqueue(a)
      BY <3>3 DEF AgentEnqueue
    <3>4. CASE AgentPost(a)
      BY <3>4 DEF AgentPost
    <3>5. CASE AgentDelete(a)
      BY <3>5 DEF AgentDelete
    <3> QED
      BY <1>3, <3>1, <3>2, <3>3, <3>4, <3>5
  <2> QED
    BY <2>1, <1>0, SameOpen DEF TypeTurns, TypeAgents, One
<1>4. ASSUME NEW u \in Turns, TurnBegin(u)
      PROVE  holder'[t] = One(t)' + Cardinality(Open(t)')
  <2>1. /\ turn[u] = "go" /\ turn' = [turn EXCEPT ![u] = "drain"] /\ UNCHANGED <<agent, turnOf>>
        /\ holder' = [holder EXCEPT ![u] = 1]
    BY <1>4 DEF TurnBegin
  <2>2. CASE u = t
    <3>1. Open(t)' = {}
      BY <2>1, <2>2 DEF Open, Bound
    <3>2. Cardinality(Open(t)') = 0
      BY <3>1, FS_EmptySet
    <3>3. One(t)' = 1 /\ holder'[t] = 1
      BY <2>1, <2>2, <1>0 DEF One, TypeTurns, InTurn
    <3> QED
      BY <3>2, <3>3
  <2>3. CASE u # t
    BY <2>1, <2>3, <1>0, SameOpen DEF TypeTurns, One
  <2> QED
    BY <2>2, <2>3
<1>5. ASSUME NEW u \in Turns, TurnReturn(u)
      PROVE  holder'[t] = One(t)' + Cardinality(Open(t)')
  <2>1. /\ turn[u] = "return" /\ turn' = [turn EXCEPT ![u] = "post"] /\ UNCHANGED <<agent, turnOf>>
        /\ holder' = [holder EXCEPT ![u] = IF @ > 0 THEN @ - 1 ELSE 0]
    BY <1>5 DEF TurnReturn
  <2>2. u = t => One(t) = 1 /\ One(t)' = 0 /\ holder'[t] = holder[t] - 1
    BY <2>1, <1>0 DEF TypeTurns, One, InTurn
  <2>3. u # t => One(t) = One(t)' /\ holder'[t] = holder[t]
    BY <2>1, <1>0 DEF TypeTurns, One
  <2>4. holder'[t] - holder[t] = One(t)' - One(t)
    BY <2>2, <2>3, <1>0 DEF One
  <2> QED
    BY <2>1, <2>4, <1>0, SameOpen
<1>6. ASSUME UNCHANGED <<agent, turnOf>>, holder'[t] = holder[t], turn[t] \in InTurn <=> turn'[t] \in InTurn
      PROVE  holder'[t] = One(t)' + Cardinality(Open(t)')
  BY <1>6, <1>0, SameOpen DEF One
<1>7. ASSUME NEW u \in Turns,
             \/ TurnDrain(u) \/ TurnAppend(u) \/ TurnTools(u) \/ TurnAnswer(u) \/ TurnFail(u)
             \/ TurnMaxFail(u) \/ TurnToolsDone(u) \/ TurnFinish(u) \/ TurnPost(u)
      PROVE  holder'[t] = One(t)' + Cardinality(Open(t)')
  <2>1. /\ UNCHANGED <<agent, turnOf, holder>>
        /\ \/ /\ turn[u] \in InTurn /\ \E v \in InTurn : turn' = [turn EXCEPT ![u] = v]
           \/ turn[u] = "post" /\ turn' = [turn EXCEPT ![u] = "off"]
    BY <1>7, Zenon DEF TurnDrain, TurnAppend, TurnTools, TurnAnswer, TurnFail, TurnMaxFail,
       TurnToolsDone,
       TurnFinish, TurnPost, InTurn
  <2>2. turn[t] \in InTurn <=> turn'[t] \in InTurn
    BY <2>1, <1>0 DEF TypeTurns, InTurn
  <2> QED
    BY <2>1, <2>2, <1>6
<1>8. ASSUME NEW u \in Turns, NEW a \in Agents, TurnSpawn(u, a)
      PROVE  holder'[t] = One(t)' + Cardinality(Open(t)')
  <2>1. /\ holder' = holder /\ turn' = turn
        /\ agent[a] # "turn" /\ agent' = [agent EXCEPT ![a] = "starting"]
        /\ \A b \in Agents : b # a => turnOf'[b] = turnOf[b]
    BY <1>8, <1>0 DEF TurnSpawn, TypeAgents
  <2> QED
    BY <2>1, <1>0, SameOpen DEF TypeTurns, TypeAgents, One
<1>9. CASE UIStep
  <2>1. UNCHANGED <<agent, turnOf, holder>> /\ (turn' = turn \/ \E u \in Turns : StartsOne(u))
    BY <1>9, UIEffect
  <2>2. turn[t] \in InTurn <=> turn'[t] \in InTurn
    BY <2>1, <1>0 DEF StartsOne, Free, InTurn, TypeTurns
  <2> QED
    BY <2>1, <2>2, <1>6
<1>10. CASE UNCHANGED vars
  BY <1>10, <1>6 DEF vars
<1> QED
  BY <1>1, <1>2, <1>3, <1>4, <1>5, <1>7, <1>8, <1>9, <1>10, Steps DEF Agent, Turn

(***************************************************************************)
(* One place, counted.                                                     *)
(***************************************************************************)

\* A set with one member, or none, counts as that.
LEMMA Ones ==
  ASSUME NEW S, \A x, y \in S : x = y
  PROVE  Cardinality(S) = IF S = {} THEN 0 ELSE 1
<1>1. CASE S = {}
  BY <1>1, FS_EmptySet
<1>2. CASE S # {}
  <2>1. PICK x \in S : TRUE
    BY <1>2
  <2>2. S = {x}
    BY <2>1
  <2> QED
    BY <1>2, <2>2, FS_Singleton
<1> QED
  BY <1>1, <1>2

LEMMA CountedOnce == OnePlace => NoticeOnce
<1> SUFFICES ASSUME OnePlace, NEW a \in Agents
    PROVE Cardinality({p \in Priorities : a \in queues[p]})
      + Cardinality({t \in Turns : a \in held[t]})
      + Cardinality({set \in {"told", "lost"} : a \in (IF set = "told" THEN told ELSE lost)})
    = IF agent[a] \in {"queued", "posted", "gone"} THEN 1 ELSE 0
  BY DEF NoticeOnce
<1>1. Cardinality({p \in Priorities : a \in queues[p]}) = IF Queued(a) THEN 1 ELSE 0
  <2>1. \A x, y \in {p \in Priorities : a \in queues[p]} : x = y
    BY DEF OnePlace
  <2>2. {p \in Priorities : a \in queues[p]} = {} <=> ~Queued(a)
    BY DEF Queued
  <2> QED
    BY <2>1, <2>2, Ones
<1>2. Cardinality({t \in Turns : a \in held[t]}) = IF InHands(a) THEN 1 ELSE 0
  <2>1. \A x, y \in {t \in Turns : a \in held[t]} : x = y
    BY DEF OnePlace
  <2>2. {t \in Turns : a \in held[t]} = {} <=> ~InHands(a)
    BY DEF InHands
  <2> QED
    BY <2>1, <2>2, Ones
<1>3. Cardinality({set \in {"told", "lost"} : a \in (IF set = "told" THEN told ELSE lost)})
        = IF a \in told \/ a \in lost THEN 1 ELSE 0
  <2> DEFINE S == {set \in {"told", "lost"} : a \in (IF set = "told" THEN told ELSE lost)}
  <2>1. \A x, y \in S : x = y
    BY DEF OnePlace
  <2>2. S = {} <=> ~(a \in told \/ a \in lost)
    OBVIOUS
  <2> QED
    BY <2>1, <2>2, Ones
<1> QED
  BY <1>1, <1>2, <1>3 DEF OnePlace, Written

\* The bookkeeping of the notices, for any number of agents and turns.
THEOREM NotesHold == Spec => []NotifyInv
<1>1. Init => Types /\ Bound /\ HandsFree /\ OnePlace /\ HolderCounts
  <2> SUFFICES ASSUME Init
               PROVE  Types /\ Bound /\ HandsFree /\ OnePlace /\ HolderCounts
    OBVIOUS
  <2>1. TypeAgents /\ TypeNotices
    BY DEF Init, TypeAgents, TypeNotices, AgentStates
  <2>2. TypeTurns
    BY DEF Init, TypeTurns, TurnStates
  <2>3. TypeScreen /\ TypeEvents
    <3>1. TypeScreen
      BY Zenon DEF Init, TypeScreen
    <3>2. TypeEvents
      BY DEF Init, TypeEvents
    <3> QED
      BY <3>1, <3>2
  <2>4. Bound /\ HandsFree
    BY DEF Init, Bound, HandsFree
  <2>5. OnePlace
    BY DEF Init, OnePlace, Written, Queued, InHands
  <2>6. ASSUME NEW t \in Turns
        PROVE  holder[t] = One(t) + Cardinality(Open(t))
    <3>1. Open(t) = {} /\ One(t) = 0 /\ holder[t] = 0
      BY DEF Init, Open, One, InTurn
    <3> QED
      BY <3>1, FS_EmptySet
  <2> QED
    BY <2>1, <2>2, <2>3, <2>4, <2>5, <2>6 DEF Types, HolderCounts, One, Open
<1>2. Types /\ Bound /\ [Next]_vars => Types' /\ Bound'
  BY AgentsStep, NoticesStep, TurnsStep, ScreenStep, EventsStep, BoundStep DEF Types
<1>3. Types /\ HandsFree /\ OnePlace /\ [Next]_vars => HandsFree' /\ OnePlace'
  BY HandsFreeStep, OnePlaceStep DEF Types
<1>4. Types /\ Types' /\ Bound /\ HolderCounts /\ [Next]_vars => HolderCounts'
  BY HolderStep
<1>5. Types /\ HolderCounts /\ OnePlace => NotifyInv
  BY CountedOnce DEF NotifyInv, TypeOK, Types, TypeAgents, TypeNotices, TypeTurns, TypeScreen,
     TypeEvents,
     AgentStates, TurnStates
<1> QED
  BY <1>1, <1>2, <1>3, <1>4, <1>5, PTL DEF Spec
=============================================================================
