---------------------------- MODULE ContextView ----------------------------
(***************************************************************************)
(* What one session sends to the model: internal/context and the parts of  *)
(* internal/agent that append to the transcript between two requests.      *)
(*                                                                         *)
(* The transcript only grows.  Every request is built from it anew: the    *)
(* last Keep user turns, after the summary of what was compacted, with the *)
(* long tool results snipped or digested.  A notice of a background agent  *)
(* is a message of the user's role, so it starts a user turn of its own.   *)
(*                                                                         *)
(* A message is its role and, for a tool result, its length class; its     *)
(* number is its position.  A summary is a sequence of pieces, a piece the *)
(* set of messages it was written from; the fallback text is the piece {}. *)
(***************************************************************************)
EXTENDS Naturals, FiniteSets, SequencesExt

CONSTANTS
  Keep,        \* context.keep_recent_turns
  CompactAt,   \* compact_threshold_ratio * window_tokens, in units of Weight
  CollapseAt,  \* collapse_threshold_ratio * window_tokens
  MaxLog,      \* bound: length of the transcript
  MaxCompacts  \* bound: compactions that wrote a summary

ASSUME ContextAssumption ==
  /\ Keep \in Nat \ {0} /\ CompactAt \in Nat /\ CollapseAt \in Nat
  /\ MaxLog \in Nat /\ MaxCompacts \in Nat \ {0}

VARIABLES
  transcript,  \* the messages table of the session
  sess,        \* compact_summary, compact_up_to_message_id, prompt_tokens_total
  collapse,    \* the view-layer collapse kept in memory: turns folded
  counted,     \* the breakdown cached for the user turn, NotCounted before it
  userTurn,    \* the user turn: its phase, its question, what was retried
  sent         \* the messages of the request that was prepared last

ctxVars == <<transcript, sess, collapse, counted, userTurn, sent>>

Roles == {"user", "notice", "assistant", "calls", "tool", "system"}
Sizes == {"short", "long", "huge"}
Message == [role: Roles, size: Sizes]
UserRole(m) == m.role \in {"user", "notice"}
NotCounted == 999
NoRetries == [compact |-> FALSE, snip |-> FALSE]

\* What a request shows of a message: the summary is message 0.
Forms == {"whole", "snipped", "digest"}
Item == [id: 0..MaxLog, form: Forms]
Summary == 0

-----------------------------------------------------------------------------
(* Splitting the transcript into user turns.                               *)

\* The messages that start a turn; what precedes the first is in no turn.
Starts == {i \in 1..Len(transcript) : UserRole(transcript[i])}

\* The first message of the last n turns, or of all of them when there are fewer.
TurnsFrom(n) ==
  IF Cardinality(Starts) <= n
  THEN IF Starts = {} THEN Len(transcript) + 1 ELSE Min(Starts)
  ELSE CHOOSE i \in Starts : Cardinality({j \in Starts : j >= i}) = n

SplitUserTurns == [recent |-> TurnsFrom(Keep)..Len(transcript),
                   old |-> {i \in 1..(TurnsFrom(Keep) - 1) : \E s \in Starts : s <= i}]

\* The numbers of a set, in their order.
InOrder(numbers) ==
  [k \in 1..Cardinality(numbers) |->
     CHOOSE i \in numbers : Cardinality({j \in numbers : j < i}) = k - 1]

\* The view of one transcript and one session row: summary, then recent turns.
InView(row) ==
  {i \in SplitUserTurns.recent : /\ transcript[i].role # "system"
                                 /\ ~(i <= row.watermark /\ row.summary # <<>>)}
BuildAPIContext(row) ==
  (IF row.summary = <<>> THEN <<>> ELSE <<[id |-> Summary, form |-> "whole"]>>)
  \o [k \in 1..Cardinality(InView(row)) |-> [id |-> InOrder(InView(row))[k], form |-> "whole"]]

-----------------------------------------------------------------------------
(* Estimating and shrinking a view.                                        *)

\* Tokens of an item, in units: a digest or a placeholder costs as much as a
\* short message, a summary one unit for each of its pieces.
Weight(item, row) ==
  CASE item.id = Summary -> Len(row.summary)
    [] item.id # Summary /\ item.form = "whole" ->
         (CASE transcript[item.id].size = "short" -> 1
            [] transcript[item.id].size = "long" -> 2
            [] transcript[item.id].size = "huge" -> 4)
    [] OTHER -> 1

CountBreakdown(view, row) ==
  LET sum[k \in 0..Len(view)] == IF k = 0 THEN 0 ELSE sum[k - 1] + Weight(view[k], row)
  IN sum[Len(view)]

\* The turns a collapse may fold: the summary is a message of the assistant.
splitLLMTurns(view) ==
  InOrder({k \in 1..Len(view) : view[k].id # Summary /\ UserRole(transcript[view[k].id])})

\* The turns that the view-layer collapse folds away in its three passes, when
\* folds turns are folded already: all but Keep at first, then one a pass.
Folded(view, row, folds) ==
  LET turns == splitLLMTurns(view)
      rest(n) == IF n = 0 THEN view ELSE SubSeq(view, turns[n + 1], Len(view))
      more(n) == CountBreakdown(rest(n), row) >= CollapseAt /\ Len(turns) - n > Keep + 1
  IN IF ~more(0) THEN 0
     ELSE IF folds = 0 THEN Len(turns) - Keep
     ELSE CHOOSE n \in 1..3 : (n = 3 \/ ~more(n)) /\ \A k \in 1..(n - 1) : more(k)

applyCollapse(view, row, folds) ==
  LET n == Folded(view, row, folds)
  IN IF n = 0 THEN view ELSE SubSeq(view, splitLLMTurns(view)[n + 1], Len(view))

\* Aggressive snip: the long tool results before the last message of the user.
\* The reminders that carry the user's role join the view only afterwards.
SnipToolResults(view) ==
  LET last == Max(ToSet(splitLLMTurns(view)) \cup {0})
  IN [k \in 1..Len(view) |->
        IF /\ k < last /\ view[k].id # Summary
           /\ transcript[view[k].id].role = "tool" /\ transcript[view[k].id].size # "short"
        THEN [view[k] EXCEPT !.form = "snipped"] ELSE view[k]]

MicroCompress(view) ==
  [k \in 1..Len(view) |->
     IF /\ view[k].id # Summary /\ view[k].form = "whole"
        /\ transcript[view[k].id].role = "tool" /\ transcript[view[k].id].size = "huge"
     THEN [view[k] EXCEPT !.form = "digest"] ELSE view[k]]

-----------------------------------------------------------------------------
(* Compaction.                                                             *)

\* What a compaction summarises: every turn but the last Keep, from the first
\* one on, whatever an earlier summary covers already.
OldTurns == SplitUserTurns.old

MaxMessageID(ids) == Max(ids \cup {0})

\* Prompt tokens are billed for good, and matter up to CompactAt only.
Billed(row, n) == [row EXCEPT !.prompt = Min({@ + n, CompactAt})]

\* Mutant: the watermark takes in the turn that runs.
SummarizedUpToNow(row) ==
  Billed([row EXCEPT !.summary = Append(@, OldTurns), !.watermark = Len(transcript)], 1)

Summarized(row) ==
  Billed([row EXCEPT !.summary = Append(@, OldTurns),
                     !.watermark = Max({@, MaxMessageID(OldTurns)})], 1)

compactFallback(row) ==
  IF MaxMessageID(OldTurns) > row.watermark
  THEN [row EXCEPT !.watermark = MaxMessageID(OldTurns),
                   !.summary = IF @ = <<>> THEN <<{}>> ELSE @]
  ELSE row

\* The rows a call may leave: unchanged when no turn is old, otherwise summarised
\* or, when the request for the summary fails, cut.
CompactAPIContext(row) ==
  IF OldTurns = {} THEN {row}
  ELSE {compactFallback(row)}
       \cup (IF Len(row.summary) < MaxCompacts THEN {Summarized(row)} ELSE {})

-----------------------------------------------------------------------------
CtxInit ==
  /\ transcript = <<>>
  /\ sess = [summary |-> <<>>, watermark |-> 0, prompt |-> 0]
  /\ collapse = 0
  /\ counted = NotCounted
  /\ userTurn = [phase |-> "idle", question |-> 0, retried |-> NoRetries]
  /\ sent = <<>>

\* A transcript that takes n messages more.
Room(n) == Len(transcript) + n <= MaxLog
Say(role, size) == [role |-> role, size |-> size]

\* Later notices are drained behind what the round appended.
DrainNotificationsLater(log) ==
  {log} \cup (IF Len(log) < MaxLog THEN {Append(log, Say("notice", "short"))} ELSE {})

\* EndUserTurn runs on every way out.
EndTurn == userTurn' = [phase |-> "idle", question |-> 0, retried |-> NoRetries]
           /\ counted' = NotCounted

RunTurn ==
  /\ userTurn.phase = "idle" /\ Room(1)
  /\ transcript' = Append(transcript, Say("user", "short"))
  /\ userTurn' = [userTurn EXCEPT !.phase = "prepare", !.question = Len(transcript) + 1]
  /\ counted' = NotCounted
  /\ UNCHANGED <<sess, collapse, sent>>

\* The view of a row, and the view of that row after one compaction when the
\* tokens billed (condition B) or the breakdown counted once for the user turn
\* (condition A) reach the threshold.  row0 is the row the call starts from.
Prepare(row0, aggressive) ==
  LET view0 == BuildAPIContext(row0)
      fold0 == collapse + Folded(view0, row0, collapse)
      seen == IF row0.prompt < CompactAt /\ counted = NotCounted
              THEN CountBreakdown(view0, row0) ELSE counted
      shouldCompact == row0.prompt >= CompactAt \/ (seen # NotCounted /\ seen >= CompactAt)
      finish(view) == MicroCompress(IF aggressive THEN SnipToolResults(view) ELSE view)
  IN /\ counted' = seen
     /\ IF shouldCompact
        THEN \E row \in CompactAPIContext(row0) :
               /\ sess' = row
               /\ sent' = finish(applyCollapse(BuildAPIContext(row), row, fold0))
               /\ collapse' = fold0 + Folded(BuildAPIContext(row), row, fold0)
        ELSE /\ sess' = row0
             /\ sent' = finish(applyCollapse(view0, row0, collapse))
             /\ collapse' = fold0

PrepareRequest ==
  /\ userTurn.phase = "prepare"
  /\ Prepare(sess, FALSE)
  /\ userTurn' = [userTurn EXCEPT !.phase = "chat"]
  /\ UNCHANGED transcript

\* The model refuses the request for its length: one retry with a compaction,
\* one with an aggressive snip, each at most once in a user turn.
CompactRetry ==
  /\ userTurn.phase = "chat" /\ ~userTurn.retried.compact
  /\ \E row \in CompactAPIContext(sess) : Prepare(row, FALSE)
  /\ userTurn' = [userTurn EXCEPT !.retried.compact = TRUE]
  /\ UNCHANGED transcript

SnipRetry ==
  /\ userTurn.phase = "chat" /\ userTurn.retried.compact /\ ~userTurn.retried.snip
  /\ Prepare(sess, TRUE)
  /\ userTurn' = [userTurn EXCEPT !.retried.snip = TRUE]
  /\ UNCHANGED transcript

\* An answer without tool calls ends the turn.
FinalAnswer ==
  /\ userTurn.phase = "chat" /\ Room(1)
  /\ \E log \in DrainNotificationsLater(Append(transcript, Say("assistant", "short"))) : transcript' = log
  /\ sess' = Billed(sess, CountBreakdown(sent, sess))
  /\ EndTurn
  /\ UNCHANGED <<collapse, sent>>

\* An answer with tool calls: the message with the calls, then their results,
\* then the notices; the next round starts from all of them.
ToolRound ==
  /\ userTurn.phase = "chat" /\ Room(2)
  /\ \E size \in Sizes :
       \E log \in DrainNotificationsLater(transcript \o <<Say("calls", "short"), Say("tool", size)>>) :
         transcript' = log
  /\ sess' = Billed(sess, CountBreakdown(sent, sess))
  /\ userTurn' = [userTurn EXCEPT !.phase = "prepare"]
  /\ UNCHANGED <<collapse, counted, sent>>

\* The turn is cancelled while its tools run: the calls stay without results.
CancelInTools ==
  /\ userTurn.phase = "chat" /\ Room(1)
  /\ transcript' = Append(transcript, Say("calls", "short"))
  /\ sess' = Billed(sess, CountBreakdown(sent, sess))
  /\ EndTurn
  /\ UNCHANGED <<collapse, sent>>

\* The request fails for good, or the turn is cancelled before it is answered.
TurnFails ==
  /\ userTurn.phase \in {"prepare", "chat"}
  /\ EndTurn
  /\ UNCHANGED <<transcript, sess, collapse, sent>>

\* /compact, between the turns.
SlashCompact ==
  /\ userTurn.phase = "idle"
  /\ sess' \in CompactAPIContext(sess)
  /\ UNCHANGED <<transcript, collapse, counted, userTurn, sent>>

\* A rewind leaves a note that only the history shows.
RewindNote ==
  /\ userTurn.phase = "idle" /\ Room(1)
  /\ transcript' = Append(transcript, Say("system", "short"))
  /\ UNCHANGED <<sess, collapse, counted, userTurn, sent>>

\* The runs of sub-agents count towards condition B.
SubagentUsage ==
  /\ sess.prompt < CompactAt
  /\ sess' = Billed(sess, CompactAt)
  /\ UNCHANGED <<transcript, collapse, counted, userTurn, sent>>

CtxNext ==
  \/ RunTurn \/ PrepareRequest \/ CompactRetry \/ SnipRetry \/ FinalAnswer \/ ToolRound
  \/ CancelInTools \/ TurnFails \/ SlashCompact \/ RewindNote \/ SubagentUsage

CtxSpec == CtxInit /\ [][CtxNext]_ctxVars

-----------------------------------------------------------------------------
(* Properties.                                                             *)

\* Every variable has its type.
CtxTypeOK ==
  /\ transcript \in Seq(Message) /\ Len(transcript) <= MaxLog
  /\ sess.summary \in Seq(SUBSET (1..MaxLog)) /\ Len(sess.summary) <= MaxCompacts
  /\ sess.watermark \in 0..MaxLog /\ sess.prompt \in 0..CompactAt
  /\ collapse \in Nat /\ counted \in Nat
  /\ userTurn.phase \in {"idle", "prepare", "chat"} /\ userTurn.question \in 0..MaxLog
  /\ userTurn.retried \in [compact: BOOLEAN, snip: BOOLEAN]
  /\ sent \in Seq(Item)

Sent == {sent[k].id : k \in 1..Len(sent)}

\* A request shows every message of the last Keep user turns, whatever was
\* compacted, folded or cut before (configs/example.yaml: "compact 后保留最近 N 个用户轮全文").
RecentKept ==
  userTurn.phase = "chat" =>
    \A i \in SplitUserTurns.recent : transcript[i].role # "system" => i \in Sent

\* No request shows a tool result whose calls it does not show before it: the API
\* refuses such a request.  A turn boundary or a watermark inside a round would cut it.
CallsShown ==
  userTurn.phase = "chat" =>
    \A k \in 1..Len(sent) : sent[k].id # Summary /\ transcript[sent[k].id].role = "tool" =>
      k > 1 /\ sent[k - 1].id = sent[k].id - 1 /\ transcript[sent[k].id - 1].role = "calls"

\* While fewer than Keep notices came in, the question of the running turn is in
\* every request of it; each notice is a user turn and pushes the question out.
QuestionKept ==
  userTurn.phase = "chat"
  /\ Cardinality({i \in Starts : i > userTurn.question}) < Keep => userTurn.question \in Sent

\* The results of the current turn are never snipped, whatever the retry does to
\* older ones (SnipToolResults: "The current user turn ... is never snipped").
CurrentTurnWhole ==
  userTurn.phase = "chat" =>
    \A k \in 1..Len(sent) : sent[k].id > Max(Starts) => sent[k].form # "snipped"

\* The watermark stays behind the turns that are kept: the summary and the recent
\* turns never overlap, also when notices or a failed compaction moved either.
WatermarkBehind == sess.watermark < TurnsFrom(Keep)

\* The view-layer collapse never runs: a view of the session has at most Keep
\* turns, and it takes more than Keep + 1 for a first pass.
CollapseUnused == collapse = 0

\* A compaction that succeeds leaves nothing out: every message of a user turn is
\* in the merged summary or among the recent turns.
CompactCovers ==
  Len(sess'.summary) > Len(sess.summary) /\ Last(sess'.summary) # {} =>
    \A i \in 1..Len(transcript') : (\E s \in Starts : s <= i) =>
      i \in SplitUserTurns.recent \cup UNION ToSet(sess'.summary)

\* A request, and the row of the session that it was built from: the recent turns, the
\* question and the calls are shown, and the watermark stays behind what is kept.
ContextInv ==
  /\ CtxTypeOK /\ RecentKept /\ CallsShown /\ QuestionKept /\ CurrentTurnWhole
  /\ WatermarkBehind /\ CollapseUnused
=============================================================================
