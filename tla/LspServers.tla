----------------------------- MODULE LspServers -----------------------------
(***************************************************************************)
(* Language servers (internal/lsp) and the diagnostics tool that asks      *)
(* them.  The manager caches one client per server; a client is a child    *)
(* process, a reader of its output and a watcher that closes it when it is *)
(* idle.  Calls of the tool run in parallel and share the client.          *)
(*                                                                         *)
(* The process belongs to the context of the call that started it, and     *)
(* closing holds the lock that the reader needs.  One server is modelled;  *)
(* it answers, publishes, asks and dies as it likes.                       *)
(***************************************************************************)
EXTENDS Naturals, Sequences, FiniteSets, SequencesExt

CONSTANTS
  LspCalls,    \* calls of the tool, numbered; 1 may be the warm-up of the start
  Turns,       \* the contexts, numbered from 1; 0 is that of the program
  PathLists,   \* the arguments that a call may have
  Within,      \* path -> the files that it holds, in the order of the walk
  MaxFilesPerCall,
  MaxClients,  \* bound: clients started
  UserServers  \* what the user configures for the server

ASSUME LspAssumption ==
  /\ MaxFilesPerCall \in Nat \ {0} /\ MaxClients \in Nat
  /\ Cardinality(LspCalls) \in Nat /\ LspCalls = 1..Cardinality(LspCalls)
  /\ PathLists \subseteq Seq(DOMAIN Within)
  /\ \A p \in DOMAIN Within : Within[p] \in Seq(ToSet(Within[p]))

VARIABLES
  server,    \* the configuration of the server, merged
  ended,     \* the contexts that have ended
  toolCall,  \* call -> its state
  clients,   \* the clients so far
  mgr        \* the manager: who holds its lock, which client it caches

lsVars == <<server, ended, toolCall, clients, mgr>>

NoOne == 0
AllFiles == UNION {ToSet(Within[p]) : p \in DOMAIN Within}
Clients == 1..Len(clients)

-----------------------------------------------------------------------------
(* What a call asks.                                                       *)

\* lsp.BuildRegistry: a server that the user gives a command is enabled unless it is disabled.
MergeServers(base, user) ==
  [command |-> base.command \/ user.command, disabled |-> user.disabled \/ (base.disabled /\ ~user.command)]

\* ServerForExt
HasServer == server.command /\ ~server.disabled

TryAddFile(files, f) == IF f \in ToSet(files) THEN files ELSE Append(files, f)

\* The files of one path are taken until there are enough.
Walk(files, fs) ==
  LET walk[i \in 0..Len(fs)] ==
        IF i = 0 THEN [files |-> files, full |-> FALSE]
        ELSE IF walk[i - 1].full THEN walk[i - 1]
        ELSE LET more == TryAddFile(walk[i - 1].files, fs[i])
             IN [files |-> more, full |-> Len(more) >= MaxFilesPerCall]
  IN walk[Len(fs)].files

IsDir(p) == Len(Within[p]) > 1

\* The walk of a directory ends when there are enough, and the next path is looked at all the same.
Collect(ps) ==
  LET taken[i \in 0..Len(ps)] ==
        IF i = 0 THEN [files |-> <<>>, full |-> FALSE]
        ELSE IF taken[i - 1].full THEN taken[i - 1]
        ELSE LET more == Walk(taken[i - 1].files, Within[ps[i]])
             IN [files |-> more, full |-> ~IsDir(ps[i]) /\ Len(more) >= MaxFilesPerCall]
  IN taken[Len(ps)].files

-----------------------------------------------------------------------------
LsInit ==
  /\ server \in {MergeServers([command |-> TRUE, disabled |-> FALSE], u) : u \in UserServers}
  /\ ended = {} /\ clients = <<>>
  /\ mgr = [lock |-> NoOne, client |-> NoOne]
  /\ \E turnOf \in [LspCalls -> Turns \cup {0}] :
       /\ \A c \in LspCalls : turnOf[c] = 0 => c = 1
       /\ \A c, d \in LspCalls : c <= d => turnOf[c] <= turnOf[d]     \* the calls in their order
       /\ \A t \in Turns : (\E c \in LspCalls : turnOf[c] > t) => \E c \in LspCalls : turnOf[c] = t
       /\ toolCall = [c \in LspCalls |-> [turn |-> turnOf[c], pc |-> "new", files |-> <<>>, client |-> NoOne,
                                       result |-> "none"]]

Went(c, pc) == [toolCall EXCEPT ![c].pc = pc]
CallIsOver(c, result) == [toolCall EXCEPT ![c].pc = "over", ![c].result = result]
ContextEnded(c) == toolCall[c].turn \in ended
\* A call of a later turn begins when the earlier turns are over.
Ready(c) == \A d \in LspCalls : toolCall[d].turn < toolCall[c].turn => toolCall[d].pc = "over" /\ (toolCall[d].turn \in ended \cup {0})
MuFree == mgr.lock = NoOne

\* Execute and collectFiles; the warm-up asks for a client and opens nothing.
ExecuteDiagnostics(c) ==
  /\ toolCall[c].pc = "new" /\ ~ContextEnded(c) /\ Ready(c)
  /\ \/ toolCall[c].turn = 0 /\ toolCall' = Went(c, "ensure")
     \/ /\ toolCall[c].turn # 0
        /\ \E ps \in PathLists :
             toolCall' = [toolCall EXCEPT ![c].pc = IF HasServer THEN "ensure" ELSE "over", ![c].files = Collect(ps)]
  /\ UNCHANGED <<server, ended, clients, mgr>>

-----------------------------------------------------------------------------
(* EnsureClient and Start.                                                 *)

Cached(c) ==
  /\ toolCall[c].pc = "ensure" /\ MuFree
  /\ \/ mgr.client # NoOne /\ toolCall' = [toolCall EXCEPT ![c].pc = "file", ![c].client = mgr.client]
     \/ mgr.client = NoOne /\ ~HasServer /\ toolCall' = CallIsOver(c, "error")
     \/ mgr.client = NoOne /\ HasServer /\ toolCall' = Went(c, "start")
  /\ UNCHANGED <<server, ended, clients, mgr>>

NewClient(c) ==
  [proc |-> TRUE, cmd |-> TRUE, locked |-> FALSE, pending |-> TRUE, chan |-> <<>>, opened |-> {},
   diags |-> [f \in AllFiles |-> {}], watch |-> "off"]

\* Start: the process runs, the reader reads, the request to initialize is written.
StartServer(c) ==
  /\ toolCall[c].pc = "start"
  /\ \/ /\ Len(clients) < MaxClients /\ ~ContextEnded(c)
        /\ clients' = Append(clients, NewClient(c))
        /\ toolCall' = [toolCall EXCEPT ![c].pc = "init", ![c].client = Len(clients) + 1]
     \/ (ContextEnded(c) \/ Len(clients) = MaxClients) /\ toolCall' = CallIsOver(c, "error") /\ UNCHANGED clients
  /\ UNCHANGED <<server, ended, mgr>>

\* Mutant: a server that says nothing is waited for.
InitEndsCancelled(c) == ContextEnded(c)

\* waitResponse gives up: the context has ended, or the time is up.
InitEnds(c) == TRUE

\* The answer, or what is taken for it, lets the call go on; otherwise the client is closed.
Initialize(c) ==
  LET k == toolCall[c].client
      chan == clients[k].chan
  IN /\ toolCall[c].pc = "init"
     /\ \/ /\ chan # <<>>
           /\ toolCall' = Went(c, IF Head(chan) = "ok" /\ clients[k].proc THEN "install" ELSE "fail")
           /\ clients' = [clients EXCEPT ![k].chan = Tail(@), ![k].pending = FALSE]
        \/ /\ chan = <<>> /\ InitEnds(c)
           /\ toolCall' = Went(c, "fail")
           /\ clients' = [clients EXCEPT ![k].pending = FALSE]
  /\ UNCHANGED <<server, ended, mgr>>

\* closeLocked: the lock of the client is held until the process has been killed.  The
\* answer to "shutdown" cannot be read meanwhile, so that its two seconds always pass.
Closing(k) == [clients EXCEPT ![k].locked = TRUE]
Closed(k) == [clients EXCEPT ![k].locked = FALSE, ![k].proc = FALSE, ![k].cmd = FALSE]

StartFailed(c) ==
  LET k == toolCall[c].client
  IN /\ toolCall[c].pc = "fail" /\ ~clients[k].locked
     /\ clients' = Closing(k) /\ toolCall' = Went(c, "failing")
     /\ UNCHANGED <<server, ended, mgr>>
StartClosed(c) ==
  /\ toolCall[c].pc = "failing"
  /\ clients' = Closed(toolCall[c].client) /\ toolCall' = CallIsOver(c, "error")
  /\ UNCHANGED <<server, ended, mgr>>

\* Mutant: the client of the call that comes second is left as it is.
LoserLeft(c) == toolCall' = [toolCall EXCEPT ![c].pc = "file", ![c].client = mgr.client] /\ UNCHANGED <<clients, mgr>>

\* Of two calls that have started a client, the second closes its own.
LoserCloses(c) ==
  /\ ~clients[toolCall[c].client].locked
  /\ clients' = Closing(toolCall[c].client) /\ toolCall' = Went(c, "losing") /\ mgr' = [mgr EXCEPT !.lock = c]

Install(c) ==
  /\ toolCall[c].pc = "install" /\ MuFree
  /\ \/ /\ mgr.client = NoOne
        /\ mgr' = [mgr EXCEPT !.client = toolCall[c].client]
        /\ clients' = [clients EXCEPT ![toolCall[c].client].watch = "watch"]
        /\ toolCall' = Went(c, "file")
     \/ mgr.client # NoOne /\ LoserCloses(c)
  /\ UNCHANGED <<server, ended>>

Lost(c) ==
  /\ toolCall[c].pc = "losing"
  /\ clients' = Closed(toolCall[c].client)
  /\ toolCall' = [toolCall EXCEPT ![c].pc = "file", ![c].client = mgr.client]
  /\ mgr' = [mgr EXCEPT !.lock = NoOne]
  /\ UNCHANGED <<server, ended>>

-----------------------------------------------------------------------------
(* The files of a call, one after the other.                               *)

\* Mutant: what an earlier call was told about the file is kept.
ForgetNothing(k, f) == UNCHANGED clients

\* OpenFile forgets what it knows about the file.  A set of publications stands for the
\* last one: none or one, with the calls that waited when it was read.
ForgetFile(k, f) == clients' = [clients EXCEPT ![k].diags[f] = {}]

NextFile(c) ==
  LET files == toolCall[c].files
      k == toolCall[c].client
  IN /\ toolCall[c].pc = "file"
     /\ \/ files = <<>> /\ toolCall' = CallIsOver(c, toolCall[c].result) /\ UNCHANGED clients
        \/ files # <<>> /\ ContextEnded(c) /\ toolCall' = CallIsOver(c, "cancelled") /\ UNCHANGED clients
        \/ files # <<>> /\ ~ContextEnded(c) /\ ~clients[k].locked /\ ForgetFile(k, Head(files)) /\ toolCall' = Went(c, "open")
     /\ UNCHANGED <<server, ended, mgr>>

Told(c, result) == toolCall' = [toolCall EXCEPT ![c].pc = "file", ![c].files = Tail(@), ![c].result = result]

\* didOpen is written, to a process that may be gone.
OpenFile(c) ==
  LET k == toolCall[c].client
  IN /\ toolCall[c].pc = "open"
     /\ \/ clients[k].proc /\ toolCall' = Went(c, "wait") /\ clients' = [clients EXCEPT ![k].opened = @ \cup {Head(toolCall[c].files)}]
        \/ ~clients[k].proc /\ Told(c, "error") /\ UNCHANGED clients
     /\ UNCHANGED <<server, ended, mgr>>

\* The wait: issues end it; that there are none is known only when the time is up.
Polled(c) ==
  LET k == toolCall[c].client
      known == clients[k].diags[Head(toolCall[c].files)]
  IN /\ toolCall[c].pc = "wait"
     /\ \/ ContextEnded(c) /\ toolCall' = CallIsOver(c, "cancelled")
        \/ /\ ~ContextEnded(c) /\ ~clients[k].locked /\ known # {}
           /\ \E waiting \in known : Told(c, IF c \in waiting THEN "issues" ELSE "old")
        \/ ~clients[k].locked /\ known = {} /\ Told(c, "clean")      \* diagnostics_timeout
     /\ UNCHANGED <<server, ended, clients, mgr>>

-----------------------------------------------------------------------------
(* The server and the reader of its output.                                *)

Waiting(k) == {c \in LspCalls : toolCall[c].client = k /\ toolCall[c].pc \in {"open", "wait"}}

\* A request is taken out before its answer is handed over.
PendingTaken(k) == FALSE

\* A message with the number of the request: its answer, or a request of the server with
\* the same number.  The channel has one place; the reader waits for it.
ReaderRuns(k) == clients[k].cmd /\ ~clients[k].locked /\ Len(clients[k].chan) < 2
Numbered(k) ==
  /\ ReaderRuns(k) /\ clients[k].pending
  /\ \E a \in {"ok", "error"} : clients' = [clients EXCEPT ![k].pending = PendingTaken(k), ![k].chan = Append(@, a)]
  /\ UNCHANGED <<server, ended, toolCall, mgr>>

\* What is published about a file, issues or none, may be about any text of it that the
\* server was sent.
Published(k) ==
  /\ ReaderRuns(k)
  /\ \E f \in clients[k].opened, items \in {{}, {Waiting(k)}} : clients' = [clients EXCEPT ![k].diags[f] = items]
  /\ UNCHANGED <<server, ended, toolCall, mgr>>

\* The process ends by itself, or because the context in which it was started does.
ProcDies(k) ==
  /\ clients[k].proc /\ ~clients[k].locked
  /\ clients' = [clients EXCEPT ![k].proc = FALSE]
  /\ UNCHANGED <<server, ended, toolCall, mgr>>

TurnEnds(t) ==
  /\ t \notin ended
  /\ ended' = ended \cup {t}
  /\ UNCHANGED <<server, toolCall, clients, mgr>>

-----------------------------------------------------------------------------
(* The watcher of a client, and the end of the program.                    *)

\* idle_shutdown has passed since the last use; whoever uses the client now is not seen.
IdleSeen(k) ==
  /\ clients[k].watch = "watch" /\ ~clients[k].locked
  /\ clients' = [clients EXCEPT ![k].watch = "seen"]
  /\ UNCHANGED <<server, ended, toolCall, mgr>>

Watcher(k) == Cardinality(LspCalls) + k
Manager == Cardinality(LspCalls) + MaxClients + 1

IdleWatch(k) ==
  /\ clients[k].watch = "seen" /\ MuFree
  /\ \/ /\ mgr.client = k /\ ~clients[k].locked
        /\ mgr' = [mgr EXCEPT !.lock = Watcher(k)]
        /\ clients' = [Closing(k) EXCEPT ![k].watch = "closing"]
     \/ mgr.client # k /\ clients' = [clients EXCEPT ![k].watch = "over"] /\ UNCHANGED mgr
  /\ UNCHANGED <<server, ended, toolCall>>

Uncached == [lock |-> NoOne, client |-> NoOne]

IdleClosed(k) ==
  /\ clients[k].watch = "closing"
  /\ clients' = [Closed(k) EXCEPT ![k].watch = "over"]
  /\ mgr' = Uncached
  /\ UNCHANGED <<server, ended, toolCall>>

\* Close of the manager, at the end of the program, with calls still under way.
ManagerClose ==
  /\ MuFree /\ mgr.client # NoOne /\ ~clients[mgr.client].locked
  /\ mgr' = [mgr EXCEPT !.lock = Manager] /\ clients' = Closing(mgr.client)
  /\ UNCHANGED <<server, ended, toolCall>>
ManagerClosed ==
  /\ mgr.lock = Manager
  /\ clients' = Closed(mgr.client) /\ mgr' = Uncached
  /\ UNCHANGED <<server, ended, toolCall>>

-----------------------------------------------------------------------------
LspStep(c) ==
  \/ ExecuteDiagnostics(c) \/ Cached(c) \/ StartServer(c) \/ Initialize(c) \/ StartFailed(c) \/ StartClosed(c) \/ Install(c) \/ Lost(c)
  \/ NextFile(c) \/ OpenFile(c) \/ Polled(c)
Watch(k) == IdleSeen(k) \/ IdleWatch(k) \/ IdleClosed(k)

LsNext ==
  \/ \E c \in LspCalls : LspStep(c)
  \/ \E k \in Clients : Numbered(k) \/ Published(k) \/ ProcDies(k) \/ Watch(k)
  \/ \E t \in Turns : TurnEnds(t)
  \/ ManagerClose \/ ManagerClosed

LsSpec == LsInit /\ [][LsNext]_lsVars

\* Calls run, time passes; the server owes nothing.
LsFairness ==
  /\ \A c \in LspCalls : SF_lsVars(LspStep(c))
  /\ WF_lsVars(\E k \in Clients : IdleClosed(k))
  /\ WF_lsVars(ManagerClosed)
LsFairSpec == LsSpec /\ LsFairness

-----------------------------------------------------------------------------
(* Properties.                                                             *)

\* What the manager caches has not been closed, and only what runs is being closed.
LsTypeOK ==
  /\ mgr.client \in {NoOne} \cup {k \in Clients : clients[k].cmd}
  /\ \A c \in LspCalls : toolCall[c].client \in {NoOne} \cup Clients
  /\ \A k \in Clients : clients[k].locked => clients[k].cmd

\* A process of the program's is cached, or some call that will install or close it has
\* it: however two starts, a failed start, the watcher and the end of the program meet,
\* none is left running that nobody knows.
NoOrphan ==
  \A k \in Clients : clients[k].cmd =>
    \/ mgr.client = k
    \/ \E c \in LspCalls : toolCall[c].client = k /\ toolCall[c].pc \in {"init", "fail", "failing", "install", "losing"}

\* The reader never waits for a place: the answer of a request is taken once, though the
\* server may use the number of the request again for one of its own.
ReaderFree == \A k \in Clients : Len(clients[k].chan) <= 1

\* A call reports issues of a file only from what was read after it asked, although
\* other calls ask about the same file through the same client.
AskedThenTold == \A c \in LspCalls : toolCall[c].result # "old"

\* Every call returns, whatever the server does and whoever closes its client meanwhile.
UnderWay(c) == toolCall[c].pc \notin {"new", "over"}
CallReturns == (\E c \in LspCalls : UnderWay(c)) ~> \A c \in LspCalls : ~UnderWay(c)

\* The manager knows every server process that it has started.
ServersKnown == LsTypeOK /\ NoOrphan

\* What a call is told is the answer to its own question, and the reader is never held up.
AnswersOwn == ReaderFree /\ AskedThenTold
=============================================================================
