----------------------------- MODULE ChatScroll -----------------------------
(***************************************************************************)
(* The chat area of the TUI: where the reader is in the transcript, the    *)
(* lines that a wheel has queued and that ticks drain some at a time, the  *)
(* page keys that jump, and the window of lines that was cut from the      *)
(* transcript by the last sync.  Syncs are coalesced: they wait for a      *)
(* flush, and while lines are queued they wait for the queue to drain.     *)
(* One goroutine handles the messages; ticks and flushes are messages that *)
(* come later.  A tool panel below can take the wheel and some rows.       *)
(***************************************************************************)
EXTENDS Naturals, Integers, FiniteSets

CONSTANTS
  Rows,          \* rows for the chat and the tool panel
  ToolRows,      \* rows of the tool panel when it is open, with those of its frame
  MaxChatLines,  \* bound: lines of the transcript
  WheelSteps,    \* lines that a notch of the wheel may stand for (ComputeWheelStep)
  Profiles,      \* "native", "integrated"
  ScrollMinPerFrame, ScrollInstantThreshold, ScrollStepMed, ScrollStepHigh, HighFrom,
  ScrollMaxPending, PendingMax,
                 \* 4, 5, 2, 3, 15, 30 and 48 in the code
  MaxLater       \* bound: ticks, and flushes, on their way

ASSUME ScrollAssumption ==
  /\ {Rows, ScrollMinPerFrame, ScrollInstantThreshold, ScrollStepMed, ScrollStepHigh, HighFrom,
      ScrollMaxPending, PendingMax, MaxLater} \subseteq Nat \ {0}
  /\ MaxChatLines \in Nat /\ WheelSteps \subseteq Nat \ {0} /\ ToolRows \in 1..(Rows - 1)
  /\ Profiles \subseteq {"native", "integrated"}

Bottom == -1      \* ChatBottomSentinel: the reader follows the end
Areas == {"chat", "tool"}

VARIABLES
  profile,    \* of the terminal
  lines,      \* lines of the transcript
  stale,      \* the transcript changed since the last sync
  total,      \* lines at the last sync: those of the catalog
  height,     \* area -> rows, as of the last layout
  chatY,      \* the reader's place, or Bottom
  window,     \* the first line that the window shows, as of the last sync
  toolOpen,   \* the tool panel is open
  queued,     \* area -> lines queued by the wheel
  draining,   \* Controller.Active
  deferred,   \* scrollDeferSync
  scheduled,  \* chatSyncScheduled
  ticks,      \* wheel ticks on their way
  flushes,    \* flushes on their way
  dropped     \* a tick found the panel of its lines closed and let the deferred sync go
csVars == <<profile, lines, stale, total, height, chatY, window, toolOpen, queued, draining, deferred,
            scheduled, ticks, flushes, dropped>>

Larger(a, b) == IF a > b THEN a ELSE b
Lesser(a, b) == IF a < b THEN a ELSE b
Abs(n) == IF n < 0 THEN -n ELSE n

CsInit ==
  /\ profile \in Profiles
  /\ lines \in 1..MaxChatLines /\ total = lines /\ stale = FALSE
  /\ height = [chat |-> Lesser(lines, Rows), tool |-> 0]
  /\ chatY = Bottom /\ window = Larger(0, lines - Lesser(lines, Rows))
  /\ toolOpen = FALSE /\ queued = [a \in Areas |-> 0]
  /\ draining = FALSE /\ deferred = FALSE /\ scheduled = FALSE
  /\ ticks = 0 /\ flushes = 0 /\ dropped = FALSE

-----------------------------------------------------------------------------
(* Positions, and the lines that one tick drains.                          *)

MaxY(n, h) == Larger(0, n - h)
EffectiveChatY(y, maxY) == IF y = Bottom THEN maxY ELSE Lesser(Larger(y, 0), maxY)
EffectiveNow == EffectiveChatY(chatY, MaxY(total, height["chat"]))
\* setChatScrollY: whoever reaches the end follows it.
PlaceFor(y) ==
  LET maxY == MaxY(total, height["chat"])
      clamped == Lesser(Larger(y, 0), maxY)
  IN  IF clamped >= maxY THEN Bottom ELSE clamped

ClampPending(n) == Lesser(Larger(n, -PendingMax), PendingMax)
Cap(step, h, abs) == Lesser(Lesser(step, Larger(h - 1, 1)), abs)
DrainProportional(abs, h) == Cap(Larger((abs * 3) \div 4, ScrollMinPerFrame), h, abs)
DrainAdaptive(abs, h) ==
  IF abs <= ScrollInstantThreshold THEN abs
  ELSE Cap(IF Lesser(abs, ScrollMaxPending) > HighFrom THEN ScrollStepHigh ELSE ScrollStepMed, h,
           Lesser(abs, ScrollMaxPending))
DrainStep(n, h) ==
  LET abs == Abs(n)
      step == IF profile = "integrated" THEN DrainAdaptive(abs, h) ELSE DrainProportional(abs, h)
  IN  IF n = 0 \/ h < 1 THEN 0 ELSE IF n < 0 THEN -Lesser(step, abs) ELSE Lesser(step, abs)
\* What is left of n after a step towards it.
Drained(n, step) == IF Abs(step) >= Abs(n) THEN 0 ELSE n - step

HasQueued(q) == \E a \in Areas : q[a] # 0
ActiveTarget == IF queued["chat"] # 0 THEN "chat" ELSE "tool"

-----------------------------------------------------------------------------
(* Syncs.                                                                  *)

LayoutHeights(n) ==
  LET tool == IF toolOpen THEN ToolRows ELSE 0
  IN  [chat |-> Lesser(n, Rows - tool), tool |-> tool]
\* Mutant: the reader's place is measured against the new transcript.
AtBottomAfter(n) == chatY = Bottom \/ chatY >= MaxY(n, height["chat"])
WasAtBottom(n) == chatY = Bottom \/ (total > 0 /\ chatY >= MaxY(total, height["chat"]))
\* syncChat with a transcript of n lines: who was at the end stays there.
SyncAndFollow(n) ==
  LET now == LayoutHeights(n)
      maxY == MaxY(n, now["chat"])
      y == IF WasAtBottom(n) THEN maxY ELSE EffectiveChatY(chatY, maxY)
  IN  /\ total' = n /\ height' = now /\ window' = y /\ stale' = FALSE
      /\ chatY' = IF WasAtBottom(n) THEN Bottom ELSE y
\* scheduleSyncChatView, with what drains and is queued by then, and whether a sync waited.
ScheduleSync(active, q, waited) ==
  IF active \/ HasQueued(q) THEN deferred' = TRUE /\ UNCHANGED <<scheduled, flushes>>
  ELSE /\ deferred' = waited
       /\ IF scheduled THEN UNCHANGED <<scheduled, flushes>>
          ELSE scheduled' = TRUE /\ flushes' = flushes + 1
\* Mutant: the sync goes on waiting while another one is scheduled.
ResumeLate(active, q) ==
  IF deferred /\ ~scheduled THEN ScheduleSync(active, q, FALSE) ELSE UNCHANGED <<deferred, scheduled, flushes>>
\* A sync that waited for the queue is scheduled now.
Resume(active, q) ==
  IF deferred THEN ScheduleSync(active, q, FALSE) ELSE UNCHANGED <<deferred, scheduled, flushes>>

-----------------------------------------------------------------------------
(* The messages.                                                           *)

HasRoomLater == ticks < MaxLater /\ flushes < MaxLater

\* A stream or turn event changes the transcript; it is synced later, or some at once as well.
ChatEvent(n) ==
  /\ HasRoomLater /\ lines' = n
  /\ \/ /\ stale' = TRUE /\ ScheduleSync(draining, queued, deferred)
        /\ UNCHANGED <<total, height, chatY, window>>
     \/ /\ SyncAndFollow(n)
        /\ IF draining \/ HasQueued(queued) THEN deferred' = TRUE /\ scheduled' = FALSE /\ UNCHANGED flushes
           ELSE scheduled' = TRUE /\ flushes' = flushes + 1 /\ UNCHANGED deferred
  /\ UNCHANGED <<profile, toolOpen, queued, draining, ticks, dropped>>
\* A session is loaded: the reader is put to its end.
Load(n) ==
  /\ HasRoomLater /\ lines' = n /\ chatY' = Bottom /\ total' = n /\ stale' = FALSE
  /\ height' = LayoutHeights(n) /\ window' = MaxY(n, LayoutHeights(n)["chat"])
  /\ IF draining \/ HasQueued(queued) THEN deferred' = TRUE /\ scheduled' = FALSE /\ UNCHANGED flushes
     ELSE scheduled' = TRUE /\ flushes' = flushes + 1 /\ UNCHANGED deferred
  /\ UNCHANGED <<profile, toolOpen, queued, draining, ticks, dropped>>
ChatSyncFlush ==
  /\ flushes > 0 /\ flushes' = flushes - 1 /\ scheduled' = FALSE /\ SyncAndFollow(lines)
  /\ UNCHANGED <<profile, lines, toolOpen, queued, draining, deferred, ticks, dropped>>

\* Ctrl+T opens and closes the panel; the rows follow at the next layout, which a key typed
\* into the input or the end of a tool brings too.
ToggleTool ==
  /\ toolOpen' = ~toolOpen
  /\ UNCHANGED <<profile, lines, stale, total, height, chatY, window, queued, draining, deferred, scheduled,
                 ticks, flushes, dropped>>
RefreshLayout ==
  /\ height' = LayoutHeights(total)
  /\ UNCHANGED <<profile, lines, stale, total, chatY, window, toolOpen, queued, draining, deferred, scheduled,
                 ticks, flushes, dropped>>

\* queueWheelScroll: the first notch starts the ticks.
Wheel(a, delta) ==
  /\ HasRoomLater /\ (a = "tool" => toolOpen /\ height["tool"] > 0)
  /\ queued' = [queued EXCEPT ![a] = ClampPending(@ + delta)]
  /\ IF draining THEN UNCHANGED <<draining, deferred, ticks>>
     ELSE draining' = TRUE /\ deferred' = TRUE /\ ticks' = ticks + 1
  /\ UNCHANGED <<profile, lines, stale, total, height, chatY, window, toolOpen, scheduled, flushes, dropped>>
WheelTick ==
  /\ ticks > 0
  /\ IF ~HasQueued(queued)
     THEN /\ draining' = FALSE /\ Resume(FALSE, queued) /\ ticks' = ticks - 1
          /\ UNCHANGED <<chatY, queued, dropped>>
     ELSE LET a == ActiveTarget
              step == DrainStep(queued[a], height[a])
              left == [queued EXCEPT ![a] = Drained(@, step)]
          IN  IF step = 0
              THEN /\ queued' = [b \in Areas |-> 0] /\ draining' = FALSE /\ ticks' = ticks - 1
                   /\ dropped' = (dropped \/ deferred) /\ UNCHANGED <<chatY, deferred, scheduled, flushes>>
              ELSE /\ chatY' = IF a = "chat" THEN PlaceFor(EffectiveNow + step) ELSE chatY
                   /\ queued' = left /\ UNCHANGED dropped
                   /\ IF HasQueued(left)
                      THEN UNCHANGED <<draining, ticks, deferred, scheduled, flushes>>
                      ELSE draining' = FALSE /\ ticks' = ticks - 1 /\ Resume(FALSE, left)
  /\ UNCHANGED <<profile, lines, stale, total, height, window, toolOpen>>
\* A page key takes what is queued along and empties the queue; the ticks find nothing.
JumpViewport(delta) ==
  /\ flushes < MaxLater /\ delta # 0
  /\ chatY' = PlaceFor(EffectiveNow + queued["chat"] + delta)
  /\ queued' = [a \in Areas |-> 0] /\ draining' = FALSE
  /\ Resume(FALSE, [a \in Areas |-> 0])
  /\ UNCHANGED <<profile, lines, stale, total, height, window, toolOpen, ticks, dropped>>
PageDeltas ==
  LET h == height["chat"]
  IN  {h, -h, h \div 2, -(h \div 2), 1, -1}

CsNext ==
  \/ \E n \in 1..MaxChatLines : ChatEvent(n) \/ Load(n)
  \/ ChatSyncFlush \/ ToggleTool \/ RefreshLayout \/ WheelTick
  \/ \E a \in Areas, d \in WheelSteps : Wheel(a, d) \/ Wheel(a, -d)
  \/ \E d \in PageDeltas : JumpViewport(d)
CsSpec == CsInit /\ [][CsNext]_csVars

-----------------------------------------------------------------------------
(* Properties.                                                             *)

CsTypeOK ==
  /\ lines \in 1..MaxChatLines /\ total \in 1..MaxChatLines /\ chatY \in {Bottom} \cup 0..MaxChatLines
  /\ height["chat"] \in 1..Rows /\ height["tool"] \in {0, ToolRows}
  /\ window \in 0..MaxChatLines /\ \A a \in Areas : queued[a] \in (-PendingMax)..PendingMax
  /\ {stale, toolOpen, draining, deferred, scheduled, dropped} \subseteq BOOLEAN
  /\ ticks \in 0..MaxLater /\ flushes \in 0..(2 * MaxLater)

\* Queued lines always have a tick that drains them, a scheduled sync has its flush, a sync that
\* was put off while the wheel turned is not forgotten however the page keys, the wheel and the
\* events of the turn interleave, and a change that is not shown yet waits for one of them; but
\* for the one that a tick drops which finds the tool panel closed (handleWheelScrollTick,
\* jumpViewport, scheduleSyncChatView).
NothingStranded ==
  /\ HasQueued(queued) => draining
  /\ draining => ticks > 0
  /\ scheduled => flushes > 0
  /\ deferred /\ ~dropped => ticks > 0
  /\ stale /\ ~dropped => deferred \/ scheduled

\* Only the reader moves the reader: whatever comes into the transcript, who follows its end goes
\* on following it, and who reads further up stays at the line, unless the transcript becomes too
\* short for that (syncChat, setChatScrollY).
PlaceKept ==
  [][~(WheelTick \/ (\E d \in PageDeltas : JumpViewport(d)) \/ (\E n \in 1..MaxChatLines : Load(n))) =>
       IF chatY = Bottom THEN chatY' = Bottom
       ELSE chatY < MaxY(total, height["chat"]) =>
              chatY' \in {chatY, MaxY(total', height'["chat"])} /\ chatY' <= chatY]_csVars

\* The queues, timers and syncs agree: the types, and nothing waits for what does not come.
ScrollInv == CsTypeOK /\ NothingStranded
=============================================================================
