--------------------------- MODULE ToolPermission ---------------------------
(***************************************************************************)
(* From a tool call to its execution: the hooks, the decision of the       *)
(* permission engine, the question to the user and the answer              *)
(* (internal/agent/runner.go executeTool, internal/permission, the         *)
(* overlays of internal/ui/tui/model that ask).                            *)
(*                                                                         *)
(* Calls of one batch and of sub-agents run at the same time.  A question  *)
(* goes through a channel of one place to a listener, from there as a      *)
(* message to the program's update loop, and fills the one slot of its     *)
(* kind.  What makes a command, a path or a host acceptable is data here.  *)
(***************************************************************************)
EXTENDS Naturals, FiniteSets

CONSTANTS
  PermCalls,     \* the calls
  CallTools,     \* call -> the tools that it may be of
  CallAgent,     \* call -> "main" or "child"
  WebHosts,      \* hosts a fetch may name
  MaxRedirects,  \* redirects that a fetch follows within its host: 10
  MaxListeners,  \* bound: listeners on a channel
  MaxModes       \* bound: changes of the mode by /permissions

NoCall == "no call"

ASSUME ToolPermissionAssumption ==
  /\ MaxListeners \in Nat \ {0} /\ MaxModes \in Nat /\ MaxRedirects \in Nat /\ NoCall \notin PermCalls
  /\ CallAgent \in [PermCalls -> {"main", "child"}]

VARIABLES
  engine,    \* permission engine -> mode, prompter, allow list in memory
  childOf,   \* the engine of the child: the parent's, a copy, a read-only one
  saved,     \* the allow list of the project's configuration file
  asking,    \* call -> where it is
  question,  \* kind -> channel, listeners, messages on their way, slot
  screen,    \* the overlay shown, and a help text on its way
  mainTurn   \* the main agent's turn: running, cancelled; changes of mode

tpVars == <<engine, childOf, saved, asking, question, screen, mainTurn>>

Engines == {"main", "copy", "readonly"}
PermModes == {"readonly", "ask", "auto"}
Kinds == {"tool", "web"}
Blocked == "localhost"               \* a host refused in every mode
Paths == {"inside", "outside", "sensitive", "data"}   \* data: the project's data directory

EngineOf(c) == IF CallAgent[c] = "main" THEN "main" ELSE childOf
Args(tool) ==
  CASE tool = "shell" -> [risk : {"allow", "ask", "deny"}, path : Paths, host : {""}]
    [] tool = "web_fetch" -> [risk : {""}, path : {"inside"}, host : WebHosts \cup {Blocked}]
    [] OTHER -> [risk : {""}, path : Paths, host : {""}]
isWriteTool(tool) == tool \in {"shell", "write_file", "apply_patch"}

-----------------------------------------------------------------------------
(* The decision: "allow", "deny", or the kind of question to ask.          *)

AskTool(e) == IF engine[e].prompter = "none" THEN "deny" ELSE "tool"

\* Where a path leads, its symbolic links followed: below the workspace or not.
ResolveRel(path) == path \in {"inside", "sensitive"}
isSensitiveAbs(path) == path = "sensitive"
ResolveAccessPath(path) == ResolveRel(path) /\ ~isSensitiveAbs(path)
resolveProjectDataRead(path) == path = "data"
CheckReadablePath(path) == resolveProjectDataRead(path) \/ ResolveAccessPath(path)

\* The words of a command that look like paths; the class of a command (its parts
\* in sh -c too: the worst) is given as its risk.
checkSensitiveShell(args) == ResolveAccessPath(args.path)

checkShellCommand(e, args) ==
  CASE args.risk = "deny" \/ ~checkSensitiveShell(args) -> "deny"
    [] args.risk = "allow" /\ checkSensitiveShell(args) ->
         IF engine[e].mode = "ask" /\ ~engine[e].interactive THEN "deny" ELSE "allow"
    [] args.risk = "ask" /\ checkSensitiveShell(args) ->
         IF engine[e].mode = "readonly" \/ ~engine[e].interactive THEN "deny" ELSE AskTool(e)

\* The mode, the list or an answer for this call lets the host pass.
HostPasses(c, host) ==
  engine[EngineOf(c)].mode = "auto" \/ host \in engine[EngineOf(c)].allow \cup asking[c].once

authorizeFetchHost(c, host) ==
  CASE host = Blocked -> "deny"
    [] host # Blocked /\ HostPasses(c, host) -> "allow"
    [] OTHER -> IF engine[EngineOf(c)].interactive THEN "web" ELSE "deny"

Check(c, tool, args) ==
  LET e == EngineOf(c)
  IN CASE tool = "shell" -> checkShellCommand(e, args)
       [] tool # "shell" /\ isWriteTool(tool) ->
            IF engine[e].mode = "readonly" \/ ~CheckReadablePath(args.path) THEN "deny"
            ELSE IF engine[e].mode = "auto" THEN "allow"
            ELSE IF engine[e].interactive THEN AskTool(e) ELSE "deny"
       [] tool = "web_fetch" -> authorizeFetchHost(c, args.host)
       [] OTHER -> IF CheckReadablePath(args.path) THEN "allow" ELSE "deny"

\* Mutant: the arguments are checked as they were before the hooks.
CheckedBeforeHooks(given, hooked) == given

\* The hooks may replace the arguments; what they leave is checked, shown and run.
Checked(given, hooked) == hooked

-----------------------------------------------------------------------------
NewCall == [pc |-> "idle", tool |-> "", args |-> [risk |-> "", path |-> "inside", host |-> ""],
            mode |-> "", answer |-> "", once |-> {}, hosts |-> {}, base |-> {}, lost |-> FALSE, hops |-> 0]

TpInit ==
  /\ \E mode \in PermModes, tty \in BOOLEAN, listed \in {{}, WebHosts} :
       /\ engine = [e \in Engines |->
            [mode |-> IF e = "readonly" THEN "readonly" ELSE mode,
             \* the program with a screen sets both in ask mode
             interactive |-> e # "readonly" /\ (tty \/ mode = "ask"),
             prompter |-> IF mode = "ask" /\ e # "readonly" THEN "tui" ELSE "none",
             allow |-> listed]]
       /\ saved = listed
  /\ childOf \in Engines
  /\ asking = [c \in PermCalls |-> NewCall]
  /\ question = [k \in Kinds |-> [ch |-> NoCall, listeners |-> 1, coming |-> {}, slot |-> NoCall]]
  /\ screen = [overlay |-> "none", help |-> FALSE]
  /\ mainTurn = [running |-> TRUE, cancelled |-> FALSE, modes |-> 0]

In(c, pcs) == asking[c].pc \in pcs
Moves(c, pc) == asking' = [asking EXCEPT ![c].pc = pc]

\* A call that writes has its agent's batch for itself; a cancelled turn starts none.
MayStart(c, tool) ==
  /\ In(c, {"idle"})
  /\ CallAgent[c] = "main" => mainTurn.running /\ ~mainTurn.cancelled
  /\ \A d \in PermCalls \ {c} :
       CallAgent[d] = CallAgent[c] => In(d, {"idle", "done"}) \/ ~(isWriteTool(tool) \/ isWriteTool(asking[d].tool))

executeTool(c) ==
  \E tool \in CallTools[c] : \E given, hooked \in Args(tool) :
    /\ MayStart(c, tool)
    /\ LET verdict == Check(c, tool, Checked(given, hooked))
           e == EngineOf(c)
       IN IF verdict = "deny" THEN Moves(c, "done")
          ELSE asking' = [asking EXCEPT ![c] =
            [@ EXCEPT !.tool = tool, !.args = hooked, !.mode = engine[e].mode,
                      !.pc = CASE verdict = "allow" -> "run"
                               [] verdict = "tool" -> IF engine[e].prompter = "tui" THEN "send" ELSE "stdin"
                               [] verdict = "web" -> "send"]]
    /\ UNCHANGED <<engine, childOf, saved, question, screen, mainTurn>>

KindOf(c) == IF asking[c].tool = "web_fetch" THEN "web" ELSE "tool"

\* TUIPrompter, TUIWebFetchPrompter: send, then wait for the reply.
Send(c) ==
  /\ In(c, {"send"}) /\ question[KindOf(c)].ch = NoCall
  /\ question' = [question EXCEPT ![KindOf(c)].ch = c]
  /\ Moves(c, "wait")
  /\ UNCHANGED <<engine, childOf, saved, screen, mainTurn>>

Listen(k) ==
  /\ question[k].ch # NoCall /\ question[k].listeners > 0
  /\ question' = [question EXCEPT ![k].listeners = @ - 1, ![k].coming = @ \cup {question[k].ch}, ![k].ch = NoCall]
  /\ UNCHANGED <<engine, childOf, saved, asking, screen, mainTurn>>

Armed(q) == [q EXCEPT !.listeners = IF @ < MaxListeners THEN @ + 1 ELSE @]

\* UpdatePromptRequest: the slot is taken, whoever was in it, and a listener started.
ShowQuestion(k, c) ==
  /\ c \in question[k].coming
  /\ question' = [question EXCEPT ![k] = Armed([question[k] EXCEPT !.coming = @ \ {c}, !.slot = c])]
  /\ screen' = [screen EXCEPT !.overlay = k]
  /\ asking' = [d \in PermCalls |-> IF d = question[k].slot THEN [asking[d] EXCEPT !.lost = TRUE] ELSE asking[d]]
  /\ UNCHANGED <<engine, childOf, saved, mainTurn>>

\* Mutant: a key answers the question in the slot, whatever is on the screen.
AnsweredAnyhow(k) == question[k].slot # NoCall

\* The key goes to the question only while its overlay is shown.
Asked(k) == screen.overlay = k /\ question[k].slot # NoCall

\* Esc, while the turn runs, cancels it instead.
Answer(k) ==
  /\ Asked(k)
  /\ \E a \in (IF k = "web" THEN {"once", "always"} ELSE {"yes"}) \cup {"no", "esc", "other"} :
       /\ ~(mainTurn.running /\ a = "esc")
       /\ IF a = "other" THEN question' = [question EXCEPT ![k] = Armed(@)] /\ UNCHANGED <<asking, screen>>
          ELSE /\ asking' = [asking EXCEPT ![question[k].slot].answer = IF a = "esc" THEN "no" ELSE a]
               /\ question' = [question EXCEPT ![k] = Armed([@ EXCEPT !.slot = NoCall])]
               /\ screen' = [screen EXCEPT !.overlay = "none"]
  /\ UNCHANGED <<engine, childOf, saved, mainTurn>>

\* Mutant: only the question on the screen is answered.
DeniedShown == {question[k].slot : k \in {j \in Kinds : screen.overlay = j}} \ {NoCall}

\* Cancel dismisses both questions, shown or not.
DeniedByCancel == {question[k].slot : k \in Kinds} \ {NoCall}

RequestCancel ==
  /\ mainTurn' = [mainTurn EXCEPT !.cancelled = TRUE]
  /\ asking' = [c \in PermCalls |-> IF c \in DeniedByCancel THEN [asking[c] EXCEPT !.answer = "no"] ELSE asking[c]]
  /\ question' = [k \in Kinds |->
       LET q == [question[k] EXCEPT !.slot = NoCall] IN IF Asked(k) THEN Armed(q) ELSE q]
  /\ screen' = [screen EXCEPT !.overlay = IF DeniedByCancel # {} THEN "none" ELSE @]
  /\ UNCHANGED <<engine, childOf, saved>>

Dismiss ==
  /\ screen.overlay # "none" /\ \A k \in Kinds : ~Asked(k)
  /\ screen' = [screen EXCEPT !.overlay = "none"]
  /\ UNCHANGED <<engine, childOf, saved, asking, question, mainTurn>>

EscCancels ==
  /\ mainTurn.running /\ (screen.overlay = "none" \/ \E k \in Kinds : Asked(k))
  /\ RequestCancel

\* "?" makes the help text in a command, which arrives later, over what is then shown.
KeyHelp ==
  /\ ~screen.help /\ \A k \in Kinds : ~Asked(k)
  /\ screen' = [screen EXCEPT !.help = TRUE]
  /\ UNCHANGED <<engine, childOf, saved, asking, question, mainTurn>>
UpdateHelp ==
  /\ screen.help /\ screen' = [overlay |-> "help", help |-> FALSE]
  /\ UNCHANGED <<engine, childOf, saved, asking, question, mainTurn>>

\* The prompter of the terminal reads a line: whatever line comes.
StdinAnswer(c) ==
  /\ In(c, {"stdin"})
  /\ \E a \in {"yes", "no"} : asking' = [asking EXCEPT ![c].answer = a, ![c].pc = "wait"]
  /\ UNCHANGED <<engine, childOf, saved, question, screen, mainTurn>>

-----------------------------------------------------------------------------
(* The reply, the allow list, the execution.                               *)

approveOnce(c, host) == asking' = [asking EXCEPT ![c].pc = "run", ![c].once = {host}]

Replied(c) ==
  /\ In(c, {"wait"}) /\ asking[c].answer # ""
  /\ CASE asking[c].answer = "no" -> Moves(c, "done") /\ UNCHANGED <<engine, saved>>
       [] asking[c].answer = "yes" -> Moves(c, "run") /\ UNCHANGED <<engine, saved>>
       [] asking[c].answer = "once" -> approveOnce(c, asking[c].args.host) /\ UNCHANGED <<engine, saved>>
       [] asking[c].answer = "always" ->                       \* the configuration file is read
            /\ asking' = [asking EXCEPT ![c].pc = "save", ![c].base = saved]
            /\ UNCHANGED <<engine, saved>>
  /\ UNCHANGED <<childOf, question, screen, mainTurn>>

\* The file is replaced by what was read and the host, or that fails.  Nothing locks it.
AppendWebAllowlist(c) ==
  /\ In(c, {"save"})
  /\ \/ Moves(c, "done") /\ UNCHANGED saved
     \/ /\ saved' = asking[c].base \cup {asking[c].args.host}
        /\ asking' = [asking EXCEPT ![c].pc = "append", ![c].base = engine[EngineOf(c)].allow]
  /\ UNCHANGED <<engine, childOf, question, screen, mainTurn>>

\* The list in memory is read and written without a lock.
AppendAllowlist(c) ==
  /\ In(c, {"append"})
  /\ engine' = [engine EXCEPT ![EngineOf(c)].allow = asking[c].base \cup {asking[c].args.host}]
  /\ Moves(c, "run")
  /\ UNCHANGED <<childOf, saved, question, screen, mainTurn>>

\* The tools that write take no path outside the workspace.
ExecuteTool(c) ==
  /\ In(c, {"run"}) /\ asking[c].tool # "web_fetch"
  /\ Moves(c, IF isWriteTool(asking[c].tool) /\ ~ResolveRel(asking[c].args.path) THEN "done" ELSE "ran")
  /\ UNCHANGED <<engine, childOf, saved, question, screen, mainTurn>>

\* A request of a fetch: the host is checked again, without a question.
CheckFetchHost(c, host) == host # Blocked /\ HostPasses(c, host)

Fetch(c) ==
  /\ In(c, {"run"}) /\ asking[c].tool = "web_fetch"
  /\ IF CheckFetchHost(c, asking[c].args.host)
     THEN asking' = [asking EXCEPT ![c].pc = "ran", ![c].hosts = {asking[c].args.host}]
     ELSE Moves(c, "done")
  /\ UNCHANGED <<engine, childOf, saved, question, screen, mainTurn>>

\* The answer sends the fetch on: within the host it is checked and sent again; the name of another host is given to the model and not fetched.
Redirect(c) ==
  /\ In(c, {"ran"}) /\ asking[c].tool = "web_fetch"
  /\ asking[c].hops < MaxRedirects
  /\ asking' = [asking EXCEPT ![c].pc = "run", ![c].hops = @ + 1]
  /\ UNCHANGED <<engine, childOf, saved, question, screen, mainTurn>>

Finish(c) ==
  /\ In(c, {"ran"}) /\ Moves(c, "done")
  /\ UNCHANGED <<engine, childOf, saved, question, screen, mainTurn>>

TurnDone ==
  /\ mainTurn.running
  /\ \A c \in PermCalls : CallAgent[c] = "main" => In(c, {"done"}) \/ (mainTurn.cancelled /\ In(c, {"idle"}))
  /\ mainTurn' = [mainTurn EXCEPT !.running = FALSE]
  /\ UNCHANGED <<engine, childOf, saved, asking, question, screen>>

\* /permissions: the prompter becomes the terminal's, or none.  The copy of a child
\* that has started keeps its own mode.
Permissions(mode) ==
  /\ ~mainTurn.running /\ mainTurn.modes < MaxModes
  /\ engine' = [engine EXCEPT !["main"].mode = mode, !["main"].prompter = IF mode = "ask" THEN "stdin" ELSE "none"]
  /\ mainTurn' = [mainTurn EXCEPT !.modes = @ + 1]
  /\ UNCHANGED <<childOf, saved, asking, question, screen>>

CallStep(c) ==
  \/ executeTool(c) \/ Send(c) \/ Replied(c) \/ AppendWebAllowlist(c) \/ AppendAllowlist(c) \/ ExecuteTool(c)
  \/ Fetch(c) \/ Redirect(c) \/ Finish(c)
UiStep == \E k \in Kinds : Listen(k) \/ \E c \in PermCalls : ShowQuestion(k, c)

TpNext ==
  \/ \E c \in PermCalls : CallStep(c) \/ StdinAnswer(c)
  \/ UiStep \/ UpdateHelp \/ KeyHelp \/ Dismiss \/ EscCancels \/ TurnDone
  \/ \E k \in Kinds : Answer(k)
  \/ \E mode \in PermModes : Permissions(mode)

\* The calls and the program run; the user presses Esc whenever that closes a text or
\* cancels the turn, answers what is shown, and answers the terminal.
TpFairness ==
  /\ \A c \in PermCalls : WF_tpVars(Send(c)) /\ WF_tpVars(Replied(c) \/ AppendWebAllowlist(c) \/ AppendAllowlist(c) \/ ExecuteTool(c) \/ Fetch(c) \/ Finish(c))
                          /\ WF_tpVars(StdinAnswer(c))
  /\ \A k \in Kinds : WF_tpVars(Listen(k) \/ \E c \in PermCalls : ShowQuestion(k, c))
  /\ WF_tpVars(UpdateHelp) /\ SF_tpVars(Dismiss) /\ SF_tpVars(EscCancels) /\ SF_tpVars(\E k \in Kinds : Answer(k))

TpSpec == TpInit /\ [][TpNext]_tpVars
TpFairSpec == TpSpec /\ TpFairness

-----------------------------------------------------------------------------
(* Properties.                                                             *)

Ran(c) == In(c, {"ran"}) \/ asking[c].hosts # {}

TpTypeOK ==
  /\ \A c \in PermCalls : In(c, {"idle", "send", "wait", "stdin", "save", "append", "run", "ran", "done"})
  /\ \A k \in Kinds : question[k].listeners \in 0..MaxListeners
  \* a question is on the screen, or nothing is, or help; never an empty question
  /\ screen.overlay \in Kinds => question[screen.overlay].slot # NoCall

\* What ran was allowed as it ran: no rule refuses it; the read-only mode saw it write
\* nothing but what the shell's rules let pass; in ask mode every other write, and in
\* every mode a command the rules want confirmed, was confirmed for this very call.
RanApproved ==
  \A c \in PermCalls : In(c, {"run", "ran"}) =>
    LET a == asking[c].args
    IN /\ a.risk # "deny" /\ a.host # Blocked /\ a.path \in {"inside", "data"}
       /\ In(c, {"ran"}) /\ isWriteTool(asking[c].tool) => a.path = "inside"
       /\ a.risk = "ask" => asking[c].answer = "yes"
       /\ isWriteTool(asking[c].tool) /\ a.risk # "allow" /\ asking[c].mode # "auto"
            => asking[c].mode = "ask" /\ asking[c].answer = "yes"

\* A fetch reaches only hosts that the mode frees, that the list held at the start, that
\* an answer for some call put on it, or that were allowed once for this very call.
HostsApproved ==
  \A c \in PermCalls : \A h \in asking[c].hosts :
    /\ h # Blocked
    /\ \/ "auto" \in {asking[c].mode, engine[EngineOf(c)].mode}
       \/ h \in saved \/ \E d \in PermCalls : asking[d].answer = "always" /\ asking[d].args.host = h
       \/ asking[c].answer = "once" /\ h = asking[c].args.host

\* An approval is given only by a key pressed while that call's question was shown.
AnswerSeen ==
  [][\A c \in PermCalls : asking[c].answer = "" /\ asking'[c].answer \in {"yes", "once", "always"} /\ In(c, {"wait"})
       => \E k \in Kinds : screen.overlay = k /\ question[k].slot = c]_tpVars

\* A call that waits for a reply has it, or its question is in the channel, on its way
\* or in the slot; unless the question of another call has taken the slot from it.
QuestionIn(c) ==
  \/ asking[c].answer # ""
  \/ \E k \in Kinds : c \in question[k].coming \cup {question[k].ch, question[k].slot}
LostOnlyToAnother == \A c \in PermCalls : In(c, {"wait"}) => QuestionIn(c) \/ asking[c].lost

\* A user who keeps pressing Esc and answers what is shown frees every call that asks,
\* also one whose question the help text or the other question hides.
Asks(c) == In(c, {"send", "wait", "stdin"})
CallEnds == (\E c \in PermCalls : Asks(c)) ~> \A c \in PermCalls : ~Asks(c) \/ asking[c].lost \/ ~mainTurn.running

\* What runs was approved for that very call, and no question is lost but to another one.
Approved == TpTypeOK /\ RanApproved /\ HostsApproved /\ LostOnlyToAnother

\* TUIPrompter blocks until the TUI responds on Reply: so the TUI can respond.
QuestionHeld == \A c \in PermCalls : In(c, {"wait"}) => QuestionIn(c)
=============================================================================
