------------------------------ MODULE TuiTurns ------------------------------
(***************************************************************************)
(* The turns of the program with a screen (internal/ui/tui/model: input,   *)
(* turn, session): the update loop, the goroutine of each turn, the        *)
(* channel between them, and the commands whose results come back as       *)
(* messages in any order.                                                  *)
(*                                                                         *)
(* A turn is known to the loop only by what is displayed and by its cancel *)
(* function; a command that fails is reported with the message that ends a *)
(* turn, and a resumed session replaces what is displayed.  `crossed'      *)
(* marks the turns during which that happened.                             *)
(***************************************************************************)
EXTENDS Naturals, Sequences

CONSTANTS
  ChatSessions,    \* the sessions
  FirstSession,    \* the one that the program starts with
  MaxTurns,        \* bound: turns
  MaxCmds,         \* bound: commands, the loading of the history at the start included
  MaxShownEvents,  \* bound: events of a turn that show something
  MaxShown,        \* bound: displayed blocks when Esc is pressed
  EventRoom        \* places of the channel of events: 256

ASSUME TuiTurnsAssumption ==
  /\ MaxTurns \in Nat /\ MaxCmds \in Nat /\ MaxShownEvents \in Nat /\ MaxShown \in Nat /\ EventRoom \in Nat \ {0}
  /\ FirstSession \in ChatSessions

VARIABLES
  ui,       \* running, cancel, escPending, overlay, session
  shown,    \* the displayed main chat: user lines, blocks, interrupt marks
  turns,    \* the turns so far, each with its goroutine
  events,   \* the channel of events
  cmds,     \* the commands so far, each with its answer
  stored,   \* session -> its user lines and interrupt marks
  notice    \* a notice of a background run is pending

ttVars == <<ui, shown, turns, events, cmds, stored, notice>>

Turns == 1..Len(turns)
Mark(role, t) == [role |-> role, turn |-> t]
NoTurn == 0

\* Mutant: a mark of an earlier turn counts too.
InterruptedEver(blocks) == \E i \in 1..Len(blocks) : blocks[i].role = "interrupt"

\* After the last user line there is an interrupt mark.
Interrupted(blocks) ==
  LET LastUser == {i \in 1..Len(blocks) : blocks[i].role = "user" /\ \A j \in i+1..Len(blocks) : blocks[j].role # "user"}
  IN \E i \in LastUser : \E j \in i+1..Len(blocks) : blocks[j].role = "interrupt"

TurnInterrupted == Interrupted(shown)
EventsTaken == ui.running /\ ~TurnInterrupted

\* The turn that an Esc is meant for: the last one that has not been reported done.
Current == IF \E t \in Turns : turns[t].phase # "gone"
           THEN CHOOSE t \in Turns : turns[t].phase # "gone" /\ \A s \in t+1..Len(turns) : turns[s].phase = "gone"
           ELSE NoTurn

Crossed(ts) == [t \in DOMAIN ts |-> IF ts[t].phase # "gone" THEN [ts[t] EXCEPT !.crossed = TRUE] ELSE ts[t]]

-----------------------------------------------------------------------------
TtInit ==
  LET old == <<Mark("user", NoTurn), Mark("interrupt", NoTurn)>>      \* interrupted when it was left
  IN
    /\ ui = [running |-> FALSE, cancel |-> NoTurn, escPending |-> FALSE, overlay |-> FALSE, session |-> FirstSession]
    /\ shown = <<>> /\ turns = <<>> /\ events = <<>> /\ notice = FALSE
    /\ cmds = <<[kind |-> "history", sid |-> FirstSession, answer |-> ""]>>      \* LoadInitialHistory
    /\ stored = [x \in ChatSessions |-> IF x = FirstSession THEN old ELSE <<Mark("user", NoTurn)>>]

\* A turn that begins while another is under way shares its fate.
NewTurn(kind, session, ts) ==
  [kind |-> kind, session |-> session, phase |-> "new", cancelled |-> FALSE, esc |-> FALSE, blocks |-> 0,
   crossed |-> \E t \in DOMAIN ts : ts[t].phase # "gone"]

\* While a turn runs, keys do not reach the input line.
SubmitAllowed == ~ui.running

SubmitTurn ==
  /\ SubmitAllowed /\ Len(turns) < MaxTurns
  /\ shown' = Append(shown, Mark("user", Len(turns) + 1))
  /\ turns' = Append(turns, NewTurn("user", ui.session, turns))
  /\ ui' = [ui EXCEPT !.running = TRUE, !.escPending = FALSE, !.overlay = FALSE]
  /\ UNCHANGED <<events, cmds, stored, notice>>

\* TryAutoResumeTurn and SubmitAutoResume, as the last act of a handler that leaves the
\* interface in `u' and the turns in `ts'.  No user line is displayed.
AutoResumed(u, ts) ==
  IF ~u.running /\ ~u.overlay /\ notice /\ Len(ts) < MaxTurns
  THEN /\ ui' = [u EXCEPT !.running = TRUE, !.escPending = FALSE]
       /\ turns' = Append(ts, NewTurn("auto", u.session, ts))
  ELSE ui' = u /\ turns' = ts

-----------------------------------------------------------------------------
(* The goroutine of a turn.                                                *)

ChannelRoom == Len(events) < EventRoom
\* A critical event waits for a place; the others are dropped (after a second, critical ones too).
SendCritical(e) == ChannelRoom /\ events' = Append(events, e)
SendOrDrop(e) == events' = IF ChannelRoom THEN Append(events, e) ELSE events

RunAsync(t) ==
  /\ turns[t].phase = "new"
  /\ SendCritical([what |-> "started", turn |-> t])
  /\ turns' = [turns EXCEPT ![t].phase = "run"]
  /\ stored' = IF turns[t].kind = "user"
               THEN [stored EXCEPT ![turns[t].session] = Append(@, Mark("user", t))] ELSE stored
  /\ notice' = FALSE                       \* a turn takes the pending notices
  /\ UNCHANGED <<ui, shown, cmds>>

RunTurn(t) ==
  /\ turns[t].phase = "run" /\ turns[t].blocks < MaxShownEvents
  /\ turns' = [turns EXCEPT ![t].blocks = @ + 1]
  /\ SendOrDrop([what |-> "block", turn |-> t])
  /\ UNCHANGED <<ui, shown, cmds, stored, notice>>

TurnReturns(t) ==
  /\ turns[t].phase = "run"
  /\ turns' = [turns EXCEPT ![t].phase = "returned"]
  /\ UNCHANGED <<ui, shown, events, cmds, stored, notice>>

SendDone(t) ==
  /\ turns[t].phase = "returned"
  /\ SendCritical([what |-> "done", turn |-> t])
  /\ turns' = [turns EXCEPT ![t].phase = "sent"]
  /\ UNCHANGED <<ui, shown, cmds, stored, notice>>

\* A background run, launched by an earlier turn, ends.
BackgroundComplete ==
  /\ ~notice /\ turns # <<>> /\ ChannelRoom
  /\ notice' = TRUE
  /\ SendCritical([what |-> "complete", turn |-> NoTurn])
  /\ UNCHANGED <<ui, shown, turns, cmds, stored>>

-----------------------------------------------------------------------------
(* The update loop.                                                        *)

\* AppendInterruptBlock: once for the turn displayed.
WithInterruptBlock == IF TurnInterrupted THEN shown ELSE Append(shown, Mark("interrupt", Current))

Esc ==
  /\ ui.running /\ ~ui.overlay /\ Len(shown) < MaxShown
  /\ ui' = [ui EXCEPT !.escPending = (ui.cancel = NoTurn)]
  /\ turns' = [t \in Turns |->
       [turns[t] EXCEPT !.cancelled = @ \/ t = ui.cancel, !.esc = @ \/ (t = Current /\ ~TurnInterrupted)]]
  /\ shown' = WithInterruptBlock
  /\ UNCHANGED <<events, cmds, stored, notice>>

\* Mutant: a cancel asked for before the turn had started is forgotten.
StartedPlainly(t) ==
  /\ ui' = [ui EXCEPT !.cancel = t, !.escPending = FALSE]
  /\ UNCHANGED <<turns, shown>>

UpdateTurnStarted(t) ==
  /\ ui' = [ui EXCEPT !.cancel = t, !.escPending = FALSE]
  /\ turns' = IF ui.escPending THEN [turns EXCEPT ![t].cancelled = TRUE] ELSE turns
  /\ shown' = IF ui.escPending THEN WithInterruptBlock ELSE shown

UpdateStream(t) == shown' = IF EventsTaken THEN Append(shown, Mark("block", t)) ELSE shown

PersistInterrupt(t) ==
  stored' = IF TurnInterrupted THEN [stored EXCEPT ![ui.session] = Append(@, Mark("interrupt", t))] ELSE stored

Idle(u) == [u EXCEPT !.running = FALSE, !.cancel = NoTurn, !.escPending = FALSE]

UpdateTurnDone(t) ==
  /\ PersistInterrupt(t)
  /\ AutoResumed(Idle(ui), [turns EXCEPT ![t].phase = "gone"])
  /\ UNCHANGED shown

UpdateEvent ==
  /\ events # <<>> /\ events' = Tail(events)
  /\ LET e == Head(events)
     IN CASE e.what = "started" -> UpdateTurnStarted(e.turn) /\ UNCHANGED stored
          [] e.what = "block" -> UpdateStream(e.turn) /\ UNCHANGED <<ui, turns, stored>>
          [] e.what = "done" -> UpdateTurnDone(e.turn)
          [] e.what = "complete" -> AutoResumed(ui, turns) /\ UNCHANGED <<shown, stored>>
  /\ UNCHANGED <<cmds, notice>>

-----------------------------------------------------------------------------
(* Commands: each runs in a goroutine of its own and is answered by a message. *)

Commanded == Len(cmds) < MaxCmds
Issue(kind, sid) == cmds' = Append(cmds, [kind |-> kind, sid |-> sid, answer |-> ""])

\* A slash command is a line; the list of sessions and /resume load another session.
RunSlash ==
  /\ ~ui.running /\ Commanded /\ Issue("slash", ui.session)
  /\ ui' = [ui EXCEPT !.overlay = FALSE]
  /\ UNCHANGED <<shown, turns, events, stored, notice>>
ResumeSession ==
  /\ ~ui.running /\ Commanded /\ \E s \in {x \in ChatSessions : stored[x] # <<>>} : Issue("resume", s)
  /\ ui' = [ui EXCEPT !.overlay = FALSE]
  /\ UNCHANGED <<shown, turns, events, stored, notice>>
ShowContext ==
  /\ Commanded /\ Issue("context", ui.session)
  /\ UNCHANGED <<ui, shown, turns, events, stored, notice>>

\* The command runs.  A slash command writes back the session that it read, or a new one.
CommandRuns(i) ==
  /\ cmds[i].answer = ""
  /\ \E a \in {"ok", "error"} : cmds' = [cmds EXCEPT ![i].answer = a]
  /\ IF cmds[i].kind = "slash"
     THEN \E s \in ChatSessions :
            /\ ui' = [ui EXCEPT !.session = s]
            /\ turns' = IF s # ui.session THEN Crossed(turns) ELSE turns
     ELSE UNCHANGED <<ui, turns>>
  /\ UNCHANGED <<shown, events, stored, notice>>

\* Its answer: an error of a command is the message that ends a turn.
CommandAnswered(i) ==
  /\ cmds[i].answer \in {"ok", "error"}
  /\ cmds' = [cmds EXCEPT ![i].answer = "taken"]
  /\ IF cmds[i].answer = "error"
     THEN IF cmds[i].kind \in {"slash", "context"}
          THEN PersistInterrupt(NoTurn) /\ AutoResumed(Idle(ui), Crossed(turns)) /\ UNCHANGED shown
          ELSE UNCHANGED <<ui, shown, turns, stored>>
     ELSE /\ UNCHANGED stored
          /\ CASE cmds[i].kind = "slash" -> ui' = [ui EXCEPT !.overlay = FALSE] /\ UNCHANGED <<shown, turns>>
               [] cmds[i].kind = "context" -> ui' = [ui EXCEPT !.overlay = TRUE] /\ UNCHANGED <<shown, turns>>
               [] cmds[i].kind = "resume" ->
                    /\ ui' = [ui EXCEPT !.session = cmds[i].sid, !.overlay = FALSE]
                    /\ shown' = stored[cmds[i].sid] /\ turns' = Crossed(turns)
               [] cmds[i].kind = "history" ->
                    IF stored[cmds[i].sid] = <<>> THEN UNCHANGED <<ui, shown, turns>>
                    ELSE shown' = stored[cmds[i].sid] /\ turns' = Crossed(turns) /\ UNCHANGED ui
  /\ UNCHANGED <<events, notice>>

CloseOverlay ==
  /\ ui.overlay /\ ui' = [ui EXCEPT !.overlay = FALSE]
  /\ UNCHANGED <<shown, turns, events, cmds, stored, notice>>

TtNext ==
  \/ SubmitTurn \/ Esc \/ CloseOverlay \/ UpdateEvent \/ BackgroundComplete
  \/ \E t \in Turns : RunAsync(t) \/ RunTurn(t) \/ TurnReturns(t) \/ SendDone(t)
  \/ RunSlash \/ ResumeSession \/ ShowContext
  \/ \E i \in 1..Len(cmds) : CommandRuns(i) \/ CommandAnswered(i)

\* The loop and the goroutines run; a turn that is not cancelled may take for ever.
TtFairness ==
  /\ WF_ttVars(UpdateEvent)
  /\ SF_ttVars(\E t \in Turns : RunAsync(t) \/ SendDone(t))
  /\ WF_ttVars(\E t \in Turns : turns[t].cancelled /\ TurnReturns(t))

TtSpec == TtInit /\ [][TtNext]_ttVars
TtFairSpec == TtSpec /\ TtFairness

-----------------------------------------------------------------------------
(* Properties.                                                             *)

Alive(t) == turns[t].phase # "gone"
Marked(t) == \E i \in 1..Len(stored[turns[t].session]) : stored[turns[t].session][i] = Mark("interrupt", t)

\* The cancel function is that of a turn that has been started and not reported done, or
\* none; an Esc is remembered only while there is none.
TtTypeOK ==
  /\ ui.cancel \in {NoTurn} \cup Turns /\ ui.session \in ChatSessions
  /\ ui.escPending => ui.cancel = NoTurn /\ ui.running
  /\ ui.cancel # NoTurn => turns[ui.cancel].phase \in {"run", "returned", "sent"}
  /\ Len(events) <= EventRoom

\* Two turns are under way at once, or one that the interface believes over, only after a
\* command failed or changed what is displayed while a turn was.
OneTurn ==
  \A t \in Turns : Alive(t) /\ ~turns[t].crossed => ui.running /\ \A s \in Turns \ {t} : ~Alive(s)

\* When a turn of the user's is reported done, its session holds a mark of interruption if
\* and only if Esc was pressed for it, whether its goroutine had started by then or not.
InterruptRecorded ==
  \A t \in Turns : turns[t].kind = "user" /\ ~Alive(t) /\ ~turns[t].crossed => (Marked(t) <=> turns[t].esc)

\* Nothing of a turn of the user's is displayed below the mark of its interruption.
InterruptIsLast ==
  \A i \in 1..Len(shown) : \A t \in Turns :
    shown[i] = Mark("interrupt", t) /\ turns[t].kind = "user" /\ ~turns[t].crossed =>
      \A j \in i+1..Len(shown) : shown[j] # Mark("block", t)

\* A turn for which Esc was pressed is cancelled and reported done, also when Esc was
\* pressed before its goroutine had handed over the cancel function.
EscWaits(t) == turns[t].esc /\ Alive(t) /\ ~turns[t].crossed
EscEnds == (\E t \in Turns : EscWaits(t)) ~> \A t \in Turns : ~EscWaits(t)

\* The turns as the interface sees them: one at a time, and the mark of an interruption
\* where Esc was pressed, below all of its turn.
TurnsInv == TtTypeOK /\ OneTurn /\ InterruptRecorded /\ InterruptIsLast
=============================================================================
