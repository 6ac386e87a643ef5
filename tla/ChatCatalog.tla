----------------------------- MODULE ChatCatalog -----------------------------
(***************************************************************************)
(* The transcript that the TUI displays and the lines it is shown as: the  *)
(* events of a turn and of a sub-agent edit blocks, the reader looks at    *)
(* the main chat or at the sub-agent's, and a sync renders what is         *)
(* displayed: blocks through a cache by position and fingerprint, lines    *)
(* into a catalog that is rebuilt only from the first block that differs.  *)
(* Some events are synced as they are handled, others by a later flush.    *)
(***************************************************************************)
EXTENDS Naturals, Sequences, FiniteSets, SequencesExt, FiniteSetsExt

CONSTANTS
  MainCalls, SubCalls,  \* the calls of a tool by a turn, and by a sub-agent
  MaxBlocks,            \* bound: blocks of a transcript
  MaxHeard,             \* bound: pieces of an answer in a transcript
  MaxClock              \* bound: the time, in tenths of a second

\* The bounds have room for a session that is resumed.
ASSUME CatalogAssumption ==
  /\ {MaxBlocks, MaxHeard, MaxClock} \subseteq Nat /\ MaxBlocks >= 2 /\ MaxHeard >= 1
  /\ IsFiniteSet(MainCalls) /\ MainCalls \cap SubCalls = {} /\ "run" \notin MainCalls \cup SubCalls

VARIABLES
  main,     \* MainChat
  sub,      \* the chat of the sub-agent's record, "none" before one starts
  chat,     \* Chat: the blocks displayed
  nav,      \* "main", "list", "detail"
  running,  \* a turn runs
  calls,    \* call -> "idle", "open", "done"
  heard,    \* pieces of the answer that came into the transcript
  clock,    \* the time
 
  entries,   \* RenderCache: for each position nothing, or a fingerprint and its lines
  cat,       \* LineCatalog
  raced      \* a rebuild saw new blocks and a change of an earlier one
cgVars == <<main, sub, chat, nav, running, calls, heard, clock, entries, cat, raced>>

-----------------------------------------------------------------------------
(* Blocks.                                                                 *)

Plain == [role |-> "user", text |-> 0, think |-> "no", streaming |-> FALSE, args |-> "", state |-> ""]
User == Plain
Interrupt == [Plain EXCEPT !.role = "interrupt"]
Planning == [Plain EXCEPT !.role = "planning", !.streaming = TRUE]
Assistant(n, s) == [Plain EXCEPT !.role = "assistant", !.text = n, !.streaming = s]
Tool(args, state) == [Plain EXCEPT !.role = "tool", !.args = args, !.state = state]

LastIs(blocks, role) == blocks # <<>> /\ Last(blocks).role = role
Of(blocks, role) == {i \in DOMAIN blocks : blocks[i].role = role}
FinalizeReasoning(b) == IF b.think = "open" THEN [b EXCEPT !.think = "done"] ELSE b
\* An answer, the last one, stops thinking and streaming.
Finished(b) == [FinalizeReasoning(b) EXCEPT !.streaming = FALSE]
FinalizeLastAssistant(blocks) ==
  LET said == Of(blocks, "assistant")
  IN  IF said = {} THEN blocks
      ELSE [blocks EXCEPT ![Max(said)] = Finished(@)]
ClearPlanningBlock(blocks) ==
  LET at == Of(blocks, "planning")
  IN  IF at = {} THEN blocks ELSE RemoveAt(blocks, Max(at))
AppendPlanningBlock(blocks) ==
  IF LastIs(blocks, "planning") THEN blocks ELSE Append(ClearPlanningBlock(blocks), Planning)
EnsureStreaming(blocks) ==
  IF LastIs(blocks, "assistant") THEN blocks ELSE Append(blocks, Assistant(0, TRUE))
ChangeLast(blocks, b) == [blocks EXCEPT ![Len(blocks)] = b]
Longer(b) == [FinalizeReasoning(b) EXCEPT !.streaming = TRUE, !.text = @ + 1]
Thinking(b) == IF b.think = "no" THEN [b EXCEPT !.think = "open"] ELSE b
AppendAssistantContent(blocks) ==
  ChangeLast(EnsureStreaming(blocks), Longer(Last(EnsureStreaming(blocks))))
AppendAssistantReasoning(blocks) ==
  ChangeLast(EnsureStreaming(blocks), Thinking(Last(EnsureStreaming(blocks))))
AppendToolBlock(blocks, row) ==
  Append(IF LastIs(blocks, "assistant") THEN ChangeLast(blocks, Finished(Last(blocks))) ELSE blocks, row)
RunningRows(blocks) == {i \in Of(blocks, "tool") : blocks[i].state = "running"}
StopRows(blocks) ==
  [i \in DOMAIN blocks |-> IF i \in RunningRows(blocks) THEN [blocks[i] EXCEPT !.state = "stopped"] ELSE blocks[i]]
\* The row with the same arguments, else any of the tool: an end may show refreshed arguments.
FinishToolBlock(blocks, row) ==
  LET exact == {i \in RunningRows(blocks) : blocks[i].args = row.args}
      rows == IF exact # {} THEN exact ELSE RunningRows(blocks)
  IN  IF rows # {} THEN [blocks EXCEPT ![Max(rows)] = row] ELSE AppendToolBlock(blocks, row)

CurrentTurnInterrupted ==
  LET users == Of(main, "user")
  IN  users # {} /\ \E i \in (Max(users) + 1)..Len(main) : main[i].role = "interrupt"
EventsAllowed == running /\ ~CurrentTurnInterrupted

-----------------------------------------------------------------------------
(* Lines: <<role, text, number>>.                                          *)

Live(b) == b.role = "planning" \/ b.streaming \/ (b.role = "assistant" /\ b.think = "open")
Fingerprint(b) == [block |-> b, at |-> IF Live(b) THEN clock ELSE 0]
RenderBlock(b, now) ==
  CASE b.role = "assistant" ->
         (IF b.think = "no" THEN <<>> ELSE << <<"thinking", b.think, IF b.think = "open" THEN now ELSE 0>> >>)
           \o (IF b.text = 0 /\ b.streaming THEN << <<"assistant", "...", 0>> >>
               ELSE [i \in 1..b.text |-> <<"assistant", "text", i>>])
    [] b.role = "tool" ->
         << <<"tool", b.state, 0>>, <<"args", b.args, 0>> >>
    [] b.role = "planning" -> << <<"planning", "", now>> >>
    [] OTHER -> << <<b.role, "", 0>> >>
HeaderLines == << <<"header", "", 0>> >>
Gap(blocks) == IF blocks = <<>> THEN <<>> ELSE << <<"", "", 0>>, <<"", "", 0>> >>

NoEntries == <<>>
NoCatalog == [plain |-> <<>>, starts |-> <<>>, keys |-> <<>>]
Keys(blocks) == [i \in DOMAIN blocks |-> Fingerprint(blocks[i])]
\* SyncBlockLineSlices: what the cache has at the position under the same fingerprint is kept.
SyncEntries(old, blocks) ==
  [i \in DOMAIN blocks |->
     LET key == Fingerprint(blocks[i])
         hit == {e \in (IF i \in DOMAIN old THEN old[i] ELSE {}) : e.key = key}
     IN  IF hit # {} THEN hit ELSE {[key |-> key, lines |-> RenderBlock(blocks[i], clock)]}]
Slices(cache) == [i \in DOMAIN cache |-> (CHOOSE e \in cache[i] : TRUE).lines]
BlockStarts(slices) ==
  [i \in DOMAIN slices |-> Len(HeaderLines) + Len(Gap(slices)) + Len(FlattenSeq(SubSeq(slices, 1, i - 1)))]
AssemblePlain(slices) == HeaderLines \o Gap(slices) \o FlattenSeq(slices)

\* The first block that differs, 0 when none does.
\* Mutant: the last block is the one that changes.
FirstDirtyTail(old, keys, starts) ==
  IF Len(keys) # Len(old.keys) THEN IF Len(keys) > Len(old.keys) THEN Len(old.keys) + 1 ELSE 1
  ELSE IF keys = old.keys THEN 0 ELSE Len(keys)
FirstDirtyBlock(old, keys, starts) ==
  IF Len(keys) > Len(old.keys) THEN Len(old.keys) + 1
  ELSE IF Len(keys) < Len(old.keys) THEN 1
  ELSE LET differ == {i \in DOMAIN keys : keys[i] # old.keys[i]}
       IN  IF differ # {} THEN Min(differ) ELSE IF starts # old.starts THEN 1 ELSE 0
\* c.plain[:n:n] may reach past the lines that there are, into those of an earlier slice.
Prefix(lines, n) == [i \in 1..n |-> IF i \in DOMAIN lines THEN lines[i] ELSE <<"left", "", 0>>]
\* Rebuild from the catalog old and the entries cache: entries', cat' and raced'.
Rebuild(old, cache, blocks) ==
  LET now == SyncEntries(cache, blocks)
      slices == Slices(now)
      keys == Keys(blocks)
      starts == BlockStarts(slices)
      whole == old.plain = <<>>
      first == IF whole THEN 1 ELSE FirstDirtyBlock(old, keys, starts)
      kept == IF first \in DOMAIN old.starts THEN Prefix(old.plain, old.starts[first]) ELSE old.plain
      plain == IF first = 1 THEN AssemblePlain(slices)
               ELSE kept \o FlattenSeq(SubSeq(slices, first, Len(slices)))
  IN  /\ entries' = now
      /\ cat' = IF first = 0 THEN old
                ELSE [plain |-> plain, starts |-> starts, keys |-> keys]
      /\ raced' = (first # 1 /\ (raced \/ (Len(keys) > Len(old.keys)
                                       /\ \E i \in DOMAIN old.keys : keys[i] # old.keys[i])))
SyncChat == Rebuild(cat, entries, chat')
SyncChatResetting == Rebuild(NoCatalog, NoEntries, chat')
NotSynced == UNCHANGED <<entries, cat, raced>>

-----------------------------------------------------------------------------
(* The handlers.                                                           *)

CgInit ==
  /\ main = <<>> /\ sub = <<>> /\ chat = main /\ nav = "main" /\ running = FALSE
  /\ calls = [c \in MainCalls \cup SubCalls \cup {"run"} |-> "idle"] /\ heard = 0
  /\ clock = 0 /\ entries = NoEntries /\ cat = NoCatalog /\ raced = FALSE

View(m, s, n) == IF n = "detail" THEN s ELSE m
HasRoom == Len(main) < MaxBlocks /\ Len(chat) < MaxBlocks

\* withMainChat: whatever is displayed, the main transcript is edited.
WithMainChat(m) == main' = m /\ chat' = View(m, sub, nav) /\ UNCHANGED <<sub, nav>>

\* SubmitLine clears the sub-agents; the planning row is put on what is displayed only.
SubmitLine ==
  /\ ~running /\ nav # "list" /\ Len(main) + 1 < MaxBlocks
  /\ main' = Append(main, User) /\ sub' = <<>> /\ nav' = "main"
  /\ chat' = AppendPlanningBlock(main') /\ running' = TRUE
  /\ calls' = [c \in DOMAIN calls |-> "idle"] /\ SyncChat /\ UNCHANGED <<heard, clock>>
StreamContent ==
  /\ EventsAllowed /\ HasRoom /\ heard < MaxHeard
  /\ WithMainChat(AppendAssistantContent(ClearPlanningBlock(main))) /\ heard' = heard + 1
  /\ NotSynced /\ UNCHANGED <<running, calls, clock>>
StreamReasoning ==
  /\ EventsAllowed /\ HasRoom
  /\ WithMainChat(AppendAssistantReasoning(ClearPlanningBlock(main)))
  /\ NotSynced /\ UNCHANGED <<running, calls, heard, clock>>
PlanningStart ==
  /\ EventsAllowed /\ HasRoom /\ WithMainChat(AppendPlanningBlock(main))
  /\ NotSynced /\ UNCHANGED <<running, calls, heard, clock>>
PlanningEnd ==
  /\ EventsAllowed /\ WithMainChat(ClearPlanningBlock(main))
  /\ NotSynced /\ UNCHANGED <<running, calls, heard, clock>>
\* The segment's end is applied to what is displayed, whose blocks are those of the transcript
\* unless a row was put on what is displayed only.
AssistantSegmentEnd ==
  /\ EventsAllowed /\ chat' = FinalizeLastAssistant(chat)
  /\ \E shared \in IF chat = View(main, sub, nav) THEN {TRUE} ELSE BOOLEAN :
       IF ~shared THEN UNCHANGED <<main, sub>>
       ELSE IF nav = "detail" THEN sub' = FinalizeLastAssistant(sub) /\ UNCHANGED main
       ELSE main' = FinalizeLastAssistant(main) /\ UNCHANGED sub
  /\ NotSynced /\ UNCHANGED <<nav, running, calls, heard, clock>>
\* The ends of an interrupted turn's calls come too, and are passed over.
ToolStart(c) ==
  /\ running /\ calls[c] = "idle" /\ HasRoom /\ calls' = [calls EXCEPT ![c] = "open"]
  /\ IF EventsAllowed THEN WithMainChat(AppendToolBlock(main, Tool(c, "running"))) /\ SyncChat
     ELSE UNCHANGED <<main, sub, chat, nav>> /\ NotSynced
  /\ UNCHANGED <<running, heard, clock>>
\* The end shows the arguments of the start, or others.
ToolEnd(c, args) ==
  /\ running /\ calls[c] = "open" /\ HasRoom /\ calls' = [calls EXCEPT ![c] = "done"]
  /\ IF EventsAllowed THEN WithMainChat(FinishToolBlock(main, Tool(args, "ok"))) /\ SyncChat
     ELSE UNCHANGED <<main, sub, chat, nav>> /\ NotSynced
  /\ UNCHANGED <<running, heard, clock>>
TurnDone ==
  /\ running /\ \A c \in MainCalls : calls[c] # "open"
  /\ running' = FALSE /\ WithMainChat(StopRows(FinalizeLastAssistant(ClearPlanningBlock(main))))
  /\ SyncChat /\ UNCHANGED <<calls, heard, clock>>
Cancel ==
  /\ running /\ ~CurrentTurnInterrupted /\ HasRoom
  /\ WithMainChat(Append(StopRows(ClearPlanningBlock(FinalizeLastAssistant(main))), Interrupt))
  /\ SyncChat /\ UNCHANGED <<running, calls, heard, clock>>

\* A sub-agent of the turn; its record is gone when the next line is submitted.
SubStart ==
  /\ running /\ ~CurrentTurnInterrupted /\ calls["run"] = "idle"
  /\ sub' = <<User, [Assistant(0, TRUE) EXCEPT !.think = "open"]>> /\ calls' = [calls EXCEPT !["run"] = "open"]
  /\ UNCHANGED <<main, chat, nav, running, heard, clock>> /\ SyncChat
SubAlive == calls["run"] = "open" /\ sub # <<>> /\ ~CurrentTurnInterrupted
ShowSub(s) == sub' = s /\ chat' = (IF nav = "detail" THEN s ELSE chat) /\ UNCHANGED <<main, nav>>
SubToolStart(c) ==
  /\ SubAlive /\ calls[c] = "idle" /\ Len(sub) < MaxBlocks
  /\ ShowSub(AppendToolBlock(sub, Tool(c, "running"))) /\ calls' = [calls EXCEPT ![c] = "open"]
  /\ IF nav = "detail" THEN SyncChat ELSE NotSynced
  /\ UNCHANGED <<running, heard, clock>>
\* The row that runs last takes the end of any call.
SubToolEnd(c) ==
  /\ SubAlive /\ calls[c] = "open" /\ Len(sub) < MaxBlocks
  /\ ShowSub(IF RunningRows(sub) = {} THEN AppendToolBlock(sub, Tool(c, "ok"))
             ELSE [sub EXCEPT ![Max(RunningRows(sub))] = Tool(c, "ok")])
  /\ calls' = [calls EXCEPT ![c] = "done"]
  /\ IF nav = "detail" THEN SyncChat ELSE NotSynced
  /\ UNCHANGED <<running, heard, clock>>
SubEnd ==
  /\ SubAlive /\ Len(sub) < MaxBlocks /\ \A c \in SubCalls : calls[c] # "open"
  /\ \E b \in {Tool("agent", "error"), Assistant(1, FALSE)} :
       ShowSub(Append(StopRows(FinalizeLastAssistant(sub)), b))
  /\ calls' = [c \in DOMAIN calls |-> IF c \in SubCalls \cup {"run"} THEN "done" ELSE calls[c]]
  /\ SyncChat /\ UNCHANGED <<running, heard, clock>>

\* Down: the list, without a sync; the main transcript is displayed behind it.
OpenList ==
  /\ nav # "list" /\ sub # <<>> /\ nav' = "list" /\ chat' = main
  /\ NotSynced /\ UNCHANGED <<main, sub, running, calls, heard, clock>>
OpenDetail ==
  /\ nav = "list" /\ sub # <<>> /\ nav' = "detail" /\ chat' = sub
  /\ SyncChatResetting /\ UNCHANGED <<main, sub, running, calls, heard, clock>>
Back ==
  /\ nav # "main" /\ chat' = main
  /\ nav' = IF nav = "detail" /\ sub # <<>> THEN "list" ELSE "main"
  /\ SyncChatResetting /\ UNCHANGED <<main, sub, running, calls, heard, clock>>

\* A resumed session, here when no turn runs; its transcript is displayed unless a sub-agent's is when it comes.
SessionResumed ==
  /\ ~running /\ main' = <<User, Assistant(1, FALSE)>> /\ heard' = 1 /\ sub' = <<>> /\ nav' = "main"
  /\ chat' = IF nav = "detail" THEN chat ELSE main'
  /\ SyncChatResetting /\ UNCHANGED <<running, calls, clock>>
Flush ==
  /\ chat' = chat /\ SyncChat
  /\ UNCHANGED <<main, sub, nav, running, calls, heard, clock>>
\* The time matters to a live block.
Pass ==
  /\ clock < MaxClock /\ (\E i \in DOMAIN chat : Live(chat[i])) /\ clock' = clock + 1
  /\ UNCHANGED <<main, sub, chat, nav, running, calls, heard, entries, cat, raced>>

CgNext ==
  \/ SubmitLine \/ StreamContent \/ StreamReasoning \/ PlanningStart \/ PlanningEnd
  \/ AssistantSegmentEnd \/ TurnDone \/ Cancel
  \/ \E c \in MainCalls : ToolStart(c) \/ \E args \in {c, "other"} : ToolEnd(c, args)
  \/ SubStart \/ (\E c \in SubCalls : SubToolStart(c) \/ SubToolEnd(c)) \/ SubEnd
  \/ OpenList \/ OpenDetail \/ Back \/ SessionResumed
  \/ Flush \/ Pass
CgSpec == CgInit /\ [][CgNext]_cgVars

-----------------------------------------------------------------------------
(* Properties.                                                             *)

CgTypeOK ==
  /\ {Len(main), Len(sub), Len(chat)} \subseteq 0..MaxBlocks /\ nav \in {"main", "list", "detail"}
  /\ {running, raced} \subseteq BOOLEAN
  /\ heard \in 0..MaxHeard /\ clock \in 0..MaxClock
  /\ \A c \in DOMAIN calls : calls[c] \in {"idle", "open", "done"}
  /\ \A i \in DOMAIN entries : Cardinality(entries[i]) <= 1
  /\ Len(cat.starts) = Len(cat.keys)

\* The lines of the keys, rendered from nothing.
FromNothing ==
  AssemblePlain(
    [i \in DOMAIN cat.keys |-> RenderBlock(cat.keys[i].block, cat.keys[i].at)])
\* Design (docs/v0.1.3): the catalog has every line of the transcript synced last and no other,
\* however it was pieced together from earlier rebuilds and cached blocks.
PlainIsChat == cat # NoCatalog => cat.plain = FromNothing
\* So it is as long as no rebuild saw new blocks together with a change of an earlier one
\* (Rebuild, firstDirtyBlock, SyncBlockLineSlices).
PlainIsChatElse == raced \/ PlainIsChat

\* Each call that a turn has open has one running row in the main transcript, whatever is displayed
\* and whichever row its end took, unless the turn was interrupted.
RowsAreCalls ==
  EventsAllowed =>
    Cardinality(RunningRows(main)) = Cardinality({c \in MainCalls : calls[c] = "open"})

\* Every piece of the answers is in the main transcript, once, whatever is displayed when it comes.
Pieces(blocks) == UNION {{<<i, n>> : n \in 1..blocks[i].text} : i \in DOMAIN blocks}
AnswerKept == heard = Cardinality(Pieces(main))

\* A transcript has at most one planning row, and none when no turn runs.
OnePlanning ==
  Cardinality(Of(main, "planning")) <= (IF running THEN 1 ELSE 0)

\* The transcript and its lines: the lines are those of the transcript, the rows those of
\* the calls, the answer is all there, and at most one row plans.
CatalogInv == CgTypeOK /\ PlainIsChatElse /\ RowsAreCalls /\ AnswerKept /\ OnePlanning
=============================================================================
