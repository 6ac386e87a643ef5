---------------------------- MODULE SpawnNotify ----------------------------
(***************************************************************************)
(* Background sub-agents and their completion notices: the goroutine of    *)
(* BackgroundManager.Start and the NotificationQueue (agent/spawn), the    *)
(* turn that drains the queue into the session (agent/runner_turn.go,      *)
(* cmd/ds-code/app/runner.go), and the TUI that starts turns, cancels them *)
(* and resumes a session for notices that arrive while it is idle          *)
(* (ui/tui/model).                                                         *)
(*                                                                         *)
(* Three kinds of process: agent goroutines, turn goroutines (RunAsync) and*)
(* the UI loop, which handles one message at a time.  A turn identity is   *)
(* also the activeTurnHolder its context carries; it is used again once    *)
(* nothing refers to it any more, so the number of turns is not bounded.   *)
(***************************************************************************)
EXTENDS Integers, Sequences, FiniteSets

CONSTANTS Agents,     \* run ids of background agents
          Turns,      \* identities of turns
          NoTurn,
          MaxRounds,  \* Runner.MaxTurns
          Faults,     \* may the session store and the model fail?
          Interrupts, \* may the user press Esc?
          Commands    \* may the user run slash commands or open the context panel?

ASSUME SpawnNotifyAssumption ==
  /\ IsFiniteSet(Agents)
  /\ NoTurn \notin Turns
  /\ MaxRounds \in Nat \ {0}
  /\ Faults \in BOOLEAN
  /\ Interrupts \in BOOLEAN
  /\ Commands \in BOOLEAN

VARIABLES
  agent,      \* agent -> where its goroutine is
  turnOf,     \* agent -> the turn whose context it was spawned with
  holder,     \* turn -> activeTurnHolder.count
  queues,     \* priority -> agents whose notice is queued there
  held,       \* turn -> notices drained and not yet part of a message
  told,       \* agents whose notice is in the session
  seen,       \* agents whose notice was in a request the model answered
  lost,       \* agents whose notice was dropped                   (history)
  noticeLast, \* is the last message of the session a notice?
  turn,       \* turn -> where its goroutine is
  round,      \* turn -> sub-round
  text,       \* turn -> was it started with a user line?
  cancelled,  \* turn -> is its context cancelled?
  events,     \* the channel of agent events
  running,    \* State.Running
  overlay,    \* is a panel, a picker or a prompt open?
  turnCancel, \* State.TurnCancel
  escPending, \* State.TurnEscPending
  interrupted,\* CurrentTurnInterrupted: an interrupt block follows the last user block
  command     \* is a slash command or the context panel being computed?

agentVars == <<agent, turnOf>>
noticeVars == <<queues, held, told, lost>>
turnVars == <<turn, round, text, cancelled>>
uiVars == <<running, overlay, turnCancel, escPending, interrupted, command>>
vars == <<agentVars, holder, noticeVars, seen, noticeLast, turnVars, events, uiVars>>

Priorities == {"now", "later"}     \* PrioNext is declared and never used

InFlight == {a \in Agents : agent[a] \notin {"none", "gone"}}  \* bm.tasks
HasPending == \E p \in Priorities : queues[p] # {}
Started(t) == [kind |-> "started", of |-> t]
Done(t) == [kind |-> "done", of |-> t]
Complete(a) == [kind |-> "complete", of |-> a]

\* Nothing refers to the turn any more: a new RunAsync may be it.
Free(t) ==
  /\ turn[t] = "off" /\ turnCancel # t
  /\ \A a \in Agents : turnOf[a] # t
  /\ \A i \in DOMAIN events : events[i].of # t

Init ==
  /\ agent = [a \in Agents |-> "none"]
  /\ turnOf = [a \in Agents |-> NoTurn]
  /\ holder = [t \in Turns |-> 0]
  /\ queues = [p \in Priorities |-> {}]
  /\ held = [t \in Turns |-> {}]
  /\ told = {} /\ seen = {} /\ lost = {}
  /\ noticeLast = FALSE
  /\ turn = [t \in Turns |-> "off"]
  /\ round = [t \in Turns |-> 0]
  /\ text = [t \in Turns |-> FALSE]
  /\ cancelled = [t \in Turns |-> FALSE]
  /\ events = <<>>
  /\ running = FALSE /\ overlay = FALSE
  /\ turnCancel = NoTurn
  /\ escPending = FALSE /\ interrupted = FALSE
  /\ command = FALSE

(***************************************************************************)
(* The goroutine of a background agent.                                    *)
(***************************************************************************)

agentFrame == <<turnOf, held, told, lost, seen, noticeLast, turnVars, uiVars>>

\* WithActiveTurn in the child's RunTurn: the holder is the parent turn's.
AgentTurnBegin(a) ==
  /\ agent[a] = "starting"
  /\ agent' = [agent EXCEPT ![a] = "turn"]
  /\ holder' = [holder EXCEPT ![turnOf[a]] = @ + 1]
  /\ UNCHANGED <<agentFrame, queues, events>>

\* ExecuteRun fails before it runs a turn.
AgentTurnSkip(a) ==
  /\ agent[a] = "starting"
  /\ agent' = [agent EXCEPT ![a] = "ended"]
  /\ UNCHANGED <<agentFrame, holder, queues, events>>

\* The child's turn ends, for whatever reason (Kill among them).
AgentTurnEnd(a) ==
  /\ agent[a] = "turn"
  /\ agent' = [agent EXCEPT ![a] = "ended"]
  /\ holder' = [holder EXCEPT ![turnOf[a]] = IF @ > 0 THEN @ - 1 ELSE 0]
  /\ UNCHANGED <<agentFrame, queues, events>>

\* notificationPriority(parentCtx), evaluated before Enqueue takes its lock.
AgentPriority(a) ==
  /\ agent[a] = "ended"
  /\ agent' = [agent EXCEPT ![a] = IF holder[turnOf[a]] > 0 THEN "later" ELSE "now"]
  /\ UNCHANGED <<agentFrame, holder, queues, events>>

AgentEnqueue(a) ==
  /\ agent[a] \in Priorities
  /\ queues' = [queues EXCEPT ![agent[a]] = @ \cup {a}]
  /\ agent' = [agent EXCEPT ![a] = "queued"]
  /\ UNCHANGED <<agentFrame, holder, events>>

\* OnBackgroundAgentComplete, a critical event.
AgentPost(a) ==
  /\ agent[a] = "queued"
  /\ agent' = [agent EXCEPT ![a] = "posted"]
  /\ events' = Append(events, Complete(a))
  /\ UNCHANGED <<agentFrame, holder, queues>>

\* delete(bm.tasks, run.ID), after the event.
AgentDelete(a) ==
  /\ agent[a] = "posted"
  /\ agent' = [agent EXCEPT ![a] = "gone"]
  /\ turnOf' = [turnOf EXCEPT ![a] = NoTurn]
  /\ UNCHANGED <<holder, noticeVars, seen, noticeLast, turnVars, events, uiVars>>

(***************************************************************************)
(* A turn: RunAsync and Runner.runTurn.                                    *)
(***************************************************************************)

turnFrame == <<turnOf, text, cancelled, uiVars>>
At(t, pc) == turn' = [turn EXCEPT ![t] = pc]

\* A store write or a request of turn t fails: always once its context is
\* cancelled, and for other reasons if faults are considered.
MayFail(t) == Faults \/ cancelled[t]

TurnBegin(t) ==
  /\ turn[t] = "go"
  /\ events' = Append(events, Started(t))
  /\ holder' = [holder EXCEPT ![t] = 1]
  /\ round' = [round EXCEPT ![t] = 0]
  /\ At(t, "drain")
  /\ UNCHANGED <<turnFrame, agent, noticeVars, seen, noticeLast>>

\* Mutant: the drained notices stay queued.
TurnDrainKeeps(t) ==
  /\ turn[t] = "drain"
  /\ held' = [held EXCEPT ![t] = queues["now"]]
  /\ At(t, "append")
  /\ UNCHANGED <<turnFrame, agent, holder, queues, told, lost, seen, noticeLast, round, events>>

\* Runner.DrainNotifications: PrioNow and PrioNext leave the queue.
TurnDrain(t) ==
  /\ turn[t] = "drain"
  /\ held' = [held EXCEPT ![t] = queues["now"]]
  /\ queues' = [queues EXCEPT !["now"] = {}]
  /\ At(t, "append")
  /\ UNCHANGED <<turnFrame, agent, holder, told, lost, seen, noticeLast, round, events>>

\* ListMessages, then AppendMessage of the notices and the user line, if any.
TurnAppend(t) ==
  /\ turn[t] = "append"
  /\ held' = [held EXCEPT ![t] = {}]
  /\ \/ /\ ~cancelled[t]
        /\ told' = told \cup held[t]
        /\ noticeLast' = (held[t] # {} \/ (~text[t] /\ noticeLast))
        /\ At(t, "request")
        /\ lost' = lost
     \/ /\ MayFail(t)
        /\ lost' = lost \cup held[t]
        /\ At(t, "return")
        /\ UNCHANGED <<told, noticeLast>>
  /\ UNCHANGED <<turnFrame, agent, holder, queues, seen, round, events>>

\* The model answers with tool calls: the assistant message is stored.
TurnTools(t) ==
  /\ turn[t] = "request" /\ ~cancelled[t]
  /\ seen' = seen \cup told
  /\ noticeLast' = FALSE
  /\ At(t, "tools")
  /\ UNCHANGED <<turnFrame, agent, holder, noticeVars, round, events>>

\* The model answers without tool calls.
TurnAnswer(t) ==
  /\ turn[t] \in {"request", "max"} /\ ~cancelled[t]
  /\ seen' = seen \cup told
  /\ noticeLast' = (noticeLast /\ turn[t] = "request")
  /\ At(t, "finish")
  /\ UNCHANGED <<turnFrame, agent, holder, noticeVars, round, events>>

\* The context is cancelled, or the store or the model fails.
TurnFail(t) ==
  /\ turn[t] \in {"request", "tools", "finish"} /\ MayFail(t)
  /\ At(t, "return")
  /\ UNCHANGED <<turnFrame, agent, holder, noticeVars, seen, noticeLast, round, events>>

\* finishMaxTurnsExceeded: the turn ends when its system message or the view
\* after it fails; a failed summary request is answered with a fixed text.
TurnMaxFail(t) ==
  /\ turn[t] = "max" /\ MayFail(t)
  /\ \/ At(t, "return") /\ noticeLast' \in {noticeLast, FALSE}
     \/ At(t, "finish") /\ noticeLast' = FALSE
  /\ UNCHANGED <<turnFrame, agent, holder, noticeVars, seen, round, events>>

\* The agent tool, run in the background.
TurnSpawn(t, a) ==
  /\ turn[t] = "tools" /\ agent[a] = "none"
  /\ agent' = [agent EXCEPT ![a] = "starting"]
  /\ turnOf' = [turnOf EXCEPT ![a] = t]
  /\ UNCHANGED <<holder, noticeVars, seen, noticeLast, turnVars, events, uiVars>>

\* Runner.DrainNotificationsLater: each notice is appended, errors are ignored.
DrainLater(t) ==
  \E kept \in SUBSET queues["later"] :
    /\ kept = queues["later"] \/ MayFail(t)
    /\ cancelled[t] => kept = {}
    /\ told' = told \cup kept
    /\ lost' = lost \cup (queues["later"] \ kept)
    /\ queues' = [queues EXCEPT !["later"] = {}]
    /\ noticeLast' = (kept # {})

\* Mutants: no bound on the sub-rounds; no drain after the final answer.
TurnToolsDoneNoBound(t) ==
  /\ turn[t] = "tools"
  /\ DrainLater(t)
  /\ At(t, "request")
  /\ UNCHANGED <<turnFrame, agent, holder, held, seen, round, events>>

TurnFinishNoDrain(t) ==
  /\ turn[t] = "finish" /\ ~cancelled[t]
  /\ noticeLast' = FALSE
  /\ At(t, "return")
  /\ UNCHANGED <<turnFrame, agent, holder, noticeVars, seen, round, events>>

\* The tool results are stored; then the notices; then the next sub-round.
TurnToolsDone(t) ==
  /\ turn[t] = "tools"
  /\ DrainLater(t)
  /\ round' = [round EXCEPT ![t] = @ + 1]
  /\ IF round[t] + 1 < MaxRounds THEN At(t, "request") ELSE At(t, "max")
  /\ UNCHANGED <<turnFrame, agent, holder, held, seen, events>>

\* finishTerminalRound: the assistant message, then the notices.
TurnFinish(t) ==
  /\ turn[t] = "finish" /\ ~cancelled[t]
  /\ DrainLater(t)
  /\ At(t, "return")
  /\ UNCHANGED <<turnFrame, agent, holder, held, seen, round, events>>

\* The deferred WithoutActiveTurn, after the last drain.
TurnReturn(t) ==
  /\ turn[t] = "return"
  /\ holder' = [holder EXCEPT ![t] = IF @ > 0 THEN @ - 1 ELSE 0]
  /\ At(t, "post")
  /\ UNCHANGED <<turnFrame, agent, noticeVars, seen, noticeLast, round, events>>

\* The goroutine and what it knew are gone.
TurnPost(t) ==
  /\ turn[t] = "post"
  /\ events' = Append(events, Done(t))
  /\ At(t, "off")
  /\ round' = [round EXCEPT ![t] = 0]
  /\ text' = [text EXCEPT ![t] = FALSE]
  /\ cancelled' = [cancelled EXCEPT ![t] = FALSE]
  /\ UNCHANGED <<agentVars, uiVars, holder, noticeVars, seen, noticeLast>>

(***************************************************************************)
(* The UI loop.                                                            *)
(***************************************************************************)

uiFrame == <<agentVars, holder, noticeVars, seen, round>>

StartTurn(t, withText) ==
  /\ Free(t)
  /\ At(t, "go")
  /\ text' = [text EXCEPT ![t] = withText]
  /\ running' = TRUE /\ escPending' = FALSE

\* TryAutoResumeTurn, once the handler around it has left running and the session as
\* given: no turn, no overlay, no agent in flight, and a notice to read.
TryAutoResume(isRunning, last, isPending) ==
  IF ~isRunning /\ ~overlay /\ InFlight = {} /\ (HasPending \/ last)
  THEN \E t \in Turns : StartTurn(t, FALSE)
  ELSE /\ running' = isRunning /\ escPending' = isPending
       /\ UNCHANGED <<turn, text>>

\* UpdateTurnDone, then TryAutoResumeTurn.
UpdateTurnDone ==
  /\ turnCancel' = NoTurn
  /\ noticeLast' = (noticeLast /\ ~interrupted)      \* PersistInterrupt
  /\ TryAutoResume(FALSE, noticeLast', FALSE)

\* TurnCancel: no use once the turn is over.
CancelTurn(t) == cancelled' = [cancelled EXCEPT ![t] = (turn[t] # "off")]

UIStarted(t) ==
  /\ events # <<>> /\ Head(events) = Started(t)
  /\ events' = Tail(events)
  /\ turnCancel' = t
  /\ escPending' = FALSE
  /\ IF escPending THEN CancelTurn(t) /\ interrupted' = TRUE
                   ELSE UNCHANGED <<cancelled, interrupted>>
  /\ UNCHANGED <<uiFrame, noticeLast, turn, text, running, overlay, command>>

UIDone(t) ==
  /\ events # <<>> /\ Head(events) = Done(t)
  /\ events' = Tail(events)
  /\ UpdateTurnDone
  /\ UNCHANGED <<uiFrame, cancelled, overlay, interrupted, command>>

UIComplete(a) ==
  /\ events # <<>> /\ Head(events) = Complete(a)
  /\ events' = Tail(events)
  /\ TryAutoResume(running, noticeLast, escPending)
  /\ UNCHANGED <<uiFrame, cancelled, noticeLast, overlay, turnCancel, interrupted, command>>

\* SubmitLine: input is refused while a turn runs.
UISubmit(t) ==
  /\ ~running
  /\ StartTurn(t, TRUE)
  /\ overlay' = FALSE /\ interrupted' = FALSE
  /\ UNCHANGED <<uiFrame, cancelled, noticeLast, events, turnCancel, command>>

\* Esc while a turn runs, at no overlay or at a prompt: RequestCancel.
UIEsc ==
  /\ Interrupts /\ running
  /\ overlay' = FALSE
  /\ interrupted' = TRUE
  /\ IF turnCancel # NoTurn THEN CancelTurn(turnCancel) /\ escPending' = FALSE
                            ELSE cancelled' = cancelled /\ escPending' = TRUE
  /\ UNCHANGED <<uiFrame, noticeLast, events, turn, text, running, turnCancel, command>>

uiOnly == <<uiFrame, noticeLast, events, turnVars, turnCancel>>

\* A help panel, a picker or a permission prompt opens; the user closes it.
UIOverlayOpen == overlay' = TRUE
                 /\ UNCHANGED <<uiOnly, running, escPending, interrupted, command>>
UIOverlayClose == overlay /\ overlay' = FALSE
                  /\ UNCHANGED <<uiOnly, running, escPending, interrupted, command>>

\* RunSlash (from the input line) and ShowContext (ctrl+l, at any time) compute
\* their answer on a goroutine of their own.
UICommand ==
  /\ Commands /\ ~command /\ command' = TRUE
  /\ UNCHANGED <<uiOnly, running, overlay, escPending, interrupted>>

\* A command closes the overlay or leaves it as it is, the panel opens one.
CommandOk ==
  /\ command /\ command' = FALSE
  /\ overlay' \in BOOLEAN
  /\ UNCHANGED <<uiOnly, running, escPending, interrupted>>

\* A failed command reports its error as a TurnDoneMsg.
CommandFail ==
  /\ command /\ Faults
  /\ command' = FALSE
  /\ UpdateTurnDone
  /\ UNCHANGED <<uiFrame, cancelled, events, overlay, interrupted>>

-----------------------------------------------------------------------------
Agent(a) ==
  \/ AgentTurnBegin(a) \/ AgentTurnSkip(a) \/ AgentTurnEnd(a) \/ AgentPriority(a)
  \/ AgentEnqueue(a) \/ AgentPost(a) \/ AgentDelete(a)

Turn(t) ==
  \/ TurnBegin(t) \/ TurnDrain(t) \/ TurnAppend(t) \/ TurnTools(t) \/ TurnAnswer(t)
  \/ TurnFail(t) \/ TurnMaxFail(t) \/ TurnToolsDone(t) \/ TurnFinish(t)
  \/ TurnReturn(t) \/ TurnPost(t)

UIEvent ==
  \/ \E t \in Turns : UIStarted(t) \/ UIDone(t)
  \/ \E a \in Agents : UIComplete(a)

Command == CommandOk \/ CommandFail

Next ==
  \/ \E a \in Agents : Agent(a)
  \/ \E t \in Turns : Turn(t) \/ UISubmit(t)
  \/ \E t \in Turns, a \in Agents : TurnSpawn(t, a)
  \/ UIEvent \/ UIEsc \/ UIOverlayOpen \/ UIOverlayClose \/ UICommand \/ Command

Spec == Init /\ [][Next]_vars

\* Goroutines run, agents come to an end, the model answers or fails, and the UI
\* handles its messages.  What the user does is not fair.
Fairness ==
  /\ \A a \in Agents : WF_vars(Agent(a))
  /\ \A t \in Turns : WF_vars(Turn(t))
  /\ WF_vars(UIEvent) /\ WF_vars(Command)

FairSpec == Spec /\ Fairness

\* ... unless the user keeps writing whenever the input is free.
TalkingSpec == FairSpec /\ SF_vars(\E t \in Turns : UISubmit(t)) /\ WF_vars(UIOverlayClose)

-----------------------------------------------------------------------------
(***************************************************************************)
(* Properties.                                                             *)
(***************************************************************************)

InTurn == {"drain", "append", "request", "tools", "max", "finish", "return"}
Events == {Complete(a) : a \in Agents}
            \cup UNION {{Started(t), Done(t)} : t \in Turns}

\* Every variable keeps to the values the code gives it.
TypeOK ==
  /\ agent \in [Agents -> {"none", "starting", "turn", "ended", "now", "later",
                            "queued", "posted", "gone"}]
  /\ turnOf \in [Agents -> Turns \cup {NoTurn}]
  /\ holder \in [Turns -> Nat]
  /\ queues \in [Priorities -> SUBSET Agents]
  /\ held \in [Turns -> SUBSET Agents]
  /\ told \in SUBSET Agents /\ seen \in SUBSET told /\ lost \in SUBSET Agents
  /\ noticeLast \in BOOLEAN
  /\ turn \in [Turns -> InTurn \cup {"off", "go", "post"}]
  /\ round \in [Turns -> 0..MaxRounds]
  /\ text \in [Turns -> BOOLEAN]
  /\ cancelled \in [Turns -> BOOLEAN]
  /\ events \in Seq(Events)
  /\ running \in BOOLEAN
  /\ overlay \in BOOLEAN
  /\ turnCancel \in Turns \cup {NoTurn}
  /\ escPending \in BOOLEAN
  /\ interrupted \in BOOLEAN
  /\ command \in BOOLEAN

\* The holder counts the RunTurn scopes that are open on it: the turn itself and
\* the children in their own RunTurn.  A missing decrement would make every later
\* notice wait for a turn that is over (context.go:28-52).
HolderCounts ==
  \A t \in Turns :
    holder[t] = (IF turn[t] \in InTurn THEN 1 ELSE 0)
                + Cardinality({a \in Agents : agent[a] = "turn" /\ turnOf[a] = t})

\* A finished agent's notice is in exactly one place: a queue, the hands of one
\* turn, the session, or dropped; an unfinished agent's is in none (notify.go:174-192).
NoticeOnce ==
  \A a \in Agents :
    Cardinality({p \in Priorities : a \in queues[p]})
      + Cardinality({t \in Turns : a \in held[t]})
      + Cardinality({set \in {"told", "lost"} : a \in (IF set = "told" THEN told ELSE lost)})
    = IF agent[a] \in {"queued", "posted", "gone"} THEN 1 ELSE 0

\* Every turn comes to its end: it has a bounded number of sub-rounds.
TurnEnds == \A t \in Turns : turn[t] = "go" ~> turn[t] = "off"

\* Without faults and interrupts, and with a user who keeps writing, the model gets
\* to read every notice: none is stuck behind a priority nobody drains.
NoticeSeen == \A a \in Agents : agent[a] = "gone" ~> a \in seen

\* The bookkeeping of the notices: the types, the count of open scopes, and one place for
\* each notice, in every order of turns, agents and faults.
NotifyInv == TypeOK /\ HolderCounts /\ NoticeOnce
=============================================================================
