---------------------------- MODULE ToolRegistry ----------------------------
(***************************************************************************)
(* The tools that the model is offered, and who is behind each name.       *)
(*                                                                         *)
(* At start the program connects every configured MCP server, asks each    *)
(* for its tools, and drops the names that two servers give.  Then it      *)
(* builds a registry for the run mode: the built-in tools, the agent tool  *)
(* with a spawn service of its own, and the MCP tools whose name is still  *)
(* free.  newRunner wires that spawn service to the turns, so that the     *)
(* notices of background runs reach the transcript.  /plan and /agent      *)
(* build another registry, with another spawn service.                     *)
(***************************************************************************)
EXTENDS Naturals, FiniteSets, Sequences, SequencesExt

CONSTANTS
  ServerNames,     \* the configured servers, in the order of the configuration
  Advertised,      \* the lists of tool names that a server may answer
  Deferred,        \* tools.defer_builtin
  Kids,            \* the sub-agent runs
  MaxBuilds        \* bound: registries built in one process

\* "builtin" is the owner of the program's own tools in a registry, no server's name.
ASSUME RegistryAssumption ==
  /\ MaxBuilds \in Nat \ {0}
  /\ ServerNames \in Seq(STRING \ {"builtin"}) /\ IsInjective(ServerNames)
  /\ Advertised \subseteq Seq(STRING) /\ Deferred \subseteq STRING

RunModes == {"agent", "plan"}

VARIABLES
  live,        \* the servers whose process runs
  manager,     \* the MCP manager: [servers, tools, skipped, registered]
  registries,  \* the registries built so far, each with its spawn service
  app,         \* [phase, lsp, mode, cur, wired]
  kids,        \* the runs: [svc, state, background, tools]
  heard,       \* the runs whose notice reached the transcript
  given        \* what the servers answered (for the properties)
rgVars == <<live, manager, registries, app, kids, heard, given>>

Builtins == {"read_file", "grep", "diagnostics", "bash", "write_file", "tool_search", "agent"}
ReadOnly == {"read_file", "grep"} \cup (IF app.lsp THEN {"diagnostics"} ELSE {})
Writing == {"bash", "write_file"}
AsyncAllowed == {"read_file", "grep", "diagnostics", "bash", "write_file"}
\* The tools of a type that may not write.
Disallowed == [type \in {"general-purpose", "Explore"} |->
                 IF type = "Explore" THEN {"write_file"} ELSE {}]

NoManager == [servers |-> <<>>, tools |-> <<>>, skipped |-> <<>>, registered |-> {}]
NoKid == [svc |-> 0, state |-> "none", background |-> FALSE, tools |-> {}]

RgInit ==
  /\ live = {} /\ manager = NoManager /\ registries = <<>>
  /\ app \in [phase : {"starting"}, lsp : BOOLEAN, mode : RunModes, cur : {0}, wired : {0}]
  /\ kids = [k \in Kids |-> NoKid] /\ heard = {}
  /\ given = [s \in {} |-> <<>>]

-----------------------------------------------------------------------------
(* The MCP manager.                                                        *)

\* Every server is stopped, and what was known of its tools is forgotten.
CloseManager == live' = live \ ToSet(manager.servers) /\ manager' = NoManager

\* The next server is started and initialised: on a failure (its name, its command,
\* the start, the handshake) those connected before it are closed and the start is given up.
ConnectServer ==
  /\ app.phase = "starting" /\ Len(manager.servers) < Len(ServerNames)
  /\ LET s == ServerNames[Len(manager.servers) + 1] IN
     \/ /\ live' = live \cup {s} /\ manager' = [manager EXCEPT !.servers = Append(@, s)]
        /\ UNCHANGED app
     \/ CloseManager /\ app' = [app EXCEPT !.phase = "over"]
  /\ UNCHANGED <<registries, kids, heard, given>>

Named(server, names) == [i \in DOMAIN names |-> [server |-> server, name |-> names[i]]]
All(lists) == FlattenSeq([i \in DOMAIN manager.servers |->
                            Named(manager.servers[i], lists[manager.servers[i]])])
Givers(lists, name) == {s \in DOMAIN lists : name \in ToSet(lists[s])}
\* A name of two servers is nobody's, and a server's second tool of a name is dropped.
Ambiguous(lists, tool) == Cardinality(Givers(lists, tool.name)) > 1

Kept(lists, i) ==
  LET all == All(lists) IN
  ~Ambiguous(lists, all[i]) /\ ~\E j \in 1..(i - 1) : all[j] = all[i]
Skip(tool, why) == [server |-> tool.server, name |-> tool.name, reason |-> why]
\* The indices of a set, in their order.
Ordered(indices) ==
  [n \in 1..Cardinality(indices) |-> CHOOSE i \in indices : Cardinality({j \in indices : j < i}) = n - 1]
Choosing(lists) ==
  LET all == All(lists)
      kept == Ordered({i \in DOMAIN all : Kept(lists, i)})
      dropped == Ordered({i \in DOMAIN all : ~Kept(lists, i)})
  IN [manager EXCEPT
       !.tools = [n \in DOMAIN kept |-> all[kept[n]]],
       !.skipped = [n \in DOMAIN dropped |->
                      Skip(all[dropped[n]], IF Ambiguous(lists, all[dropped[n]])
                                            THEN "cross_server_duplicate" ELSE "in_server_duplicate")]]

DiscoverTools ==
  /\ app.phase = "starting" /\ Len(manager.servers) = Len(ServerNames)
  /\ \/ \E lists \in [ToSet(manager.servers) -> Advertised] :
          manager' = Choosing(lists) /\ app' = [app EXCEPT !.phase = "building"]
            /\ given' = lists /\ UNCHANGED live
     \/ /\ manager.servers # <<>> /\ CloseManager /\ app' = [app EXCEPT !.phase = "over"]
        /\ UNCHANGED given
  /\ UNCHANGED <<registries, kids, heard>>

-----------------------------------------------------------------------------
(* The registry of a run mode.                                             *)

\* The names that the built-in tools take, before the MCP tools are registered.
OwnNames(mode) == ReadOnly \cup (IF mode = "plan" THEN {} ELSE Writing \cup {"tool_search", "agent"})
Free(mode) == {t \in ToSet(manager.tools) : t.name \notin OwnNames(mode)}
ToolsTaken(mode) == Ordered({i \in DOMAIN manager.tools : manager.tools[i].name \in OwnNames(mode)})

\* The registry: the owner of each name, and the names given to the model as a stub.
BuildRegistry(mode) ==
  LET mcp == IF mode = "plan" THEN {} ELSE Free(mode)
  IN [mode |-> mode,
      stubs |-> IF mode = "plan" THEN {} ELSE Deferred \cap Writing,
      owner |-> [n \in OwnNames(mode) \cup {t.name : t \in mcp} |->
                   IF n \in OwnNames(mode) THEN "builtin" ELSE (CHOOSE t \in mcp : t.name = n).server]]

\* Register skips the built-in names, and counts the skip again at every build.
Register(mode) ==
  manager' = IF mode = "plan" THEN manager
             ELSE [manager EXCEPT
                    !.skipped = @ \o [n \in DOMAIN ToolsTaken(mode) |->
                                        Skip(manager.tools[ToolsTaken(mode)[n]], "builtin_conflict")],
                    !.registered = {t.name : t \in Free(mode)}]

Current == registries[app.cur]
HasAgent(i) == "agent" \in DOMAIN registries[i].owner

\* newRunner builds the first registry and wires its spawn service to the turns.
NewRunner ==
  /\ app.phase = "building"
  /\ registries' = <<BuildRegistry(app.mode)>> /\ Register(app.mode)
  /\ app' = [app EXCEPT !.phase = "idle", !.cur = 1, !.wired = IF app.mode = "plan" THEN 0 ELSE 1]
  /\ UNCHANGED <<live, kids, heard, given>>

\* After the servers run the start of the TUI may still fail (the rules cannot be read, the
\* session to resume is unknown): it returns before the deferred closes are set up, and the
\* servers are left to see their input closed.
StartFails ==
  /\ app.phase \in {"building", "idle"} /\ Len(registries) <= 1
  /\ kids = [k \in Kids |-> NoKid] /\ app' = [app EXCEPT !.phase = "aborted"]
  /\ UNCHANGED <<live, manager, registries, kids, heard, given>>

\* /plan or /agent: the configuration is changed first, then the session is written, and
\* only then are the tools built anew.  When the write fails the old tools stay.
SetRunMode ==
  /\ app.phase = "idle" /\ Len(registries) < MaxBuilds
  /\ \E mode \in RunModes :
       \/ app' = [app EXCEPT !.mode = mode] /\ UNCHANGED <<registries, manager>>
       \/ /\ registries' = Append(registries, BuildRegistry(mode)) /\ Register(mode)
          /\ app' = [app EXCEPT !.mode = mode, !.cur = Len(registries) + 1]
  /\ UNCHANGED <<live, kids, heard, given>>

-----------------------------------------------------------------------------
(* The runs, and their notices.                                            *)

\* Mutant: the global block list is forgotten.
FilterUnblocked(parent, type, background) ==
  {n \in DOMAIN parent.owner : /\ n \notin Disallowed[type]
                               /\ background => n \in AsyncAllowed}

\* What a run may use of its parent's tools.
FilterToolRegistry(parent, type, background) ==
  {n \in DOMAIN parent.owner : /\ n # "agent" /\ n \notin Disallowed[type]
                               /\ background => n \in AsyncAllowed}

\* A turn starts with the notices of the service that newRunner wired.
BeginTurn ==
  /\ app.phase = "idle" /\ app' = [app EXCEPT !.phase = "turn"]
  /\ heard' = heard \cup {k \in Kids : kids[k].state = "finished" /\ kids[k].svc = app.wired}
  /\ UNCHANGED <<live, manager, registries, kids, given>>
TurnOver ==
  /\ app.phase = "turn" /\ app' = [app EXCEPT !.phase = "idle"]
  /\ UNCHANGED <<live, manager, registries, kids, heard, given>>

\* The agent tool of the current registry launches a run in its own service.
SpawnKid ==
  /\ app.phase = "turn" /\ HasAgent(app.cur)
  /\ \E k \in Kids, type \in DOMAIN Disallowed, background \in BOOLEAN :
       /\ kids[k].state = "none"
       /\ kids' = [kids EXCEPT ![k] =
            [svc |-> app.cur, state |-> "running", background |-> background,
             tools |-> FilterToolRegistry(Current, type, background)]]
  /\ UNCHANGED <<live, manager, registries, app, heard, given>>

\* A background run that ends leaves a notice in its service's queue; the result of
\* the other kind is the answer to the call, within the turn.
KidEnds(k) ==
  /\ kids[k].state = "running" /\ app.phase \notin {"over", "aborted"}
  /\ kids' = [kids EXCEPT ![k].state = "finished"]
  /\ heard' = IF kids[k].background THEN heard ELSE heard \cup {k}
  /\ UNCHANGED <<live, manager, registries, app, given>>

\* The program ends and closes the manager.
CloseApp ==
  /\ app.phase = "idle" /\ CloseManager /\ app' = [app EXCEPT !.phase = "over"]
  /\ UNCHANGED <<registries, kids, heard, given>>

RgNext ==
  \/ ConnectServer \/ DiscoverTools \/ NewRunner \/ StartFails \/ SetRunMode
  \/ BeginTurn \/ TurnOver \/ SpawnKid \/ CloseApp
  \/ \E k \in Kids : KidEnds(k)

RgSpec == RgInit /\ [][RgNext]_rgVars

-----------------------------------------------------------------------------
(* Properties.                                                             *)

Tools == [server : ToSet(ServerNames), name : STRING]
\* The state has the shape that the code keeps.
RgTypeOK ==
  /\ live \subseteq ToSet(ServerNames)
  /\ manager.servers \in Seq(ToSet(ServerNames)) /\ manager.tools \in Seq(Tools)
  /\ app.phase \in {"starting", "building", "idle", "turn", "over", "aborted"}
  /\ app.cur \in 0..Len(registries) /\ app.wired \in 0..Len(registries)
  /\ app.phase \in {"idle", "turn"} => app.cur > 0
  /\ \A i \in DOMAIN registries : DOMAIN registries[i].owner \subseteq
       Builtins \cup {t.name : t \in ToSet(manager.tools)} \/ app.phase = "over"
  /\ \A k \in Kids : kids[k].svc \in 0..Len(registries)

\* A name of a registry is a built-in tool, or the tool of one server that no other
\* server gives and no built-in tool of this registry has: a call cannot reach another
\* tool than the one described to the model.
OneOwner ==
  app.phase # "over" =>
    \A i \in DOMAIN registries : \A n \in DOMAIN registries[i].owner :
      LET owner == registries[i].owner[n] IN
      /\ owner = "builtin" <=> n \in OwnNames(registries[i].mode)
      /\ owner # "builtin" =>
           {t \in ToSet(manager.tools) : t.name = n} = {[server |-> owner, name |-> n]}

\* A tool that a server gives is, in agent mode, in the registry under its server, or
\* among the skipped ones that the start notice lists: none is lost without a word.
Offered(server, name) == name \in DOMAIN Current.owner /\ Current.owner[name] = server
Skipped(server, name) ==
  \E i \in DOMAIN manager.skipped : manager.skipped[i].server = server /\ manager.skipped[i].name = name
NothingSilent ==
  (app.phase \in {"idle", "turn"} /\ Current.mode = "agent") =>
    \A server \in DOMAIN given : \A name \in ToSet(given[server]) :
      Offered(server, name) \/ Skipped(server, name)

\* The write-permission rule asks the manager which names are registered: they are
\* those that the current registry has from a server, when it was built for agent mode.
RegisteredAreOffered ==
  (app.phase \in {"idle", "turn"} /\ Current.mode = "agent") =>
    manager.registered = {n \in DOMAIN Current.owner : Current.owner[n] # "builtin"}

\* When a server cannot be started or asked, or the program ends, no server process that was
\* started is left behind.
NoServerLeft == app.phase = "over" => live = {}

\* A child cannot launch children, whatever the servers call their tools, and a
\* background child has only the tools that need no answer from the user.
KidsNarrow ==
  \A k \in Kids : /\ "agent" \notin kids[k].tools
                  /\ kids[k].background => kids[k].tools \subseteq AsyncAllowed

\* The registry at every moment: one tool to a name, none lost without a word, the manager's
\* names those of the registry, no server left behind, and children with fewer tools.
RegistryInv ==
  RgTypeOK /\ OneOwner /\ NothingSilent /\ RegisteredAreOffered /\ NoServerLeft /\ KidsNarrow

\* What the agent tool's text promises the model: a background run that has ended is
\* told to the parent session at the latest when the next turn begins.
NoticesReachParent ==
  [][BeginTurn => \A k \in Kids : kids[k].state = "finished" => k \in heard']_rgVars
=============================================================================
