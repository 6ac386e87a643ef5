------------------------------- MODULE MCTools -------------------------------
\* The tools and their registry, and the transcript that their results go to: the requests
\* built from it, and its store. They share no state, so a behaviour is one of the chosen
\* part, and the others stay as they began.
EXTENDS ToolRegistry, PatchText, PatchFiles, WebFetch, SearchCalls, RgBinary,
        ContextView, SessionStore

VARIABLE part

\* Two servers whose tools collide with each other, with themselves and with built-in tools.
Servers2 == <<"tracker", "wiki">>
Lists == {<<>>, <<"issue", "issue">>, <<"grep", "issue">>, <<"diagnostics", "page">>}

\* Patches of the main agent name up to three files; one file may be empty or too big.
PfNames == [agent \in Agents |-> IF agent = "main" THEN 3 ELSE 1]
PfDisks == [f : {Absent, "old"}, g : {Absent, "empty", "old", "big"}]

\* Two addresses of a host, one written in two ways.
Raws == {"http://a/x#top", "https://a/x", "https://a/y"}
Norm == [r \in Raws |-> IF r = "https://a/y" THEN r ELSE "https://a/x"]

\* Five files: two plain ones, and one each that is skipped, sensitive and hidden; grep in its
\* three modes and glob, over the workspace and over the skipped directory in two spellings,
\* with and without a glob of the model's that admits what the exclusions refuse; pages of one
\* and two entries, the configured limit, no limit, an offset past the end and a negative one.
FilesOfTree == 1..5
Where == <<"top", "skip", "secret", "hidden", "top">>
Query(tool, mode, scope, glob, context, limit, offset) ==
  [tool |-> tool, mode |-> mode, scope |-> scope, glob |-> glob, context |-> context,
   limit |-> limit, offset |-> offset]
Everywhere == {"top", "skip", "secret", "hidden", "git", "binary"}
Queries ==
  {Query("grep", m, ".", {}, FALSE, l, 0) : m \in OutputModes, l \in {-1, 1}}
    \cup {Query("grep", "content", ".", {"top"}, TRUE, 2, o) : o \in {-1, 1}}
    \cup {Query("grep", "files_with_matches", s, g, FALSE, 0, 0) : s \in Scopes, g \in {{}, Everywhere}}
    \cup {Query("glob", "files_with_matches", s, Everywhere, FALSE, -1, 0) : s \in {".", "skip", "git", "gone", "file"}}
\* The two plain files are of one age or not, and have up to two hits.
Workspaces ==
  {[f \in FilesOfTree |-> [time |-> IF f = 1 THEN s ELSE IF f = 5 THEN t ELSE 1,
                           hits |-> IF f = 1 THEN h ELSE IF f = 5 THEN k ELSE 1]] :
     s \in {1, 2}, t \in {1, 2}, h \in 0..1, k \in 0..2}

\* Two calls of one process and one of another, which carries another version of ripgrep.
ProcessOf == [c \in {"c1", "c2", "d1"} |-> IF c = "d1" THEN "d" ELSE "c"]
VersionOf == [p \in {"c", "d"} |-> IF p = "c" THEN "new" ELSE "old"]
ResolveCalls == DOMAIN ProcessOf

\* Each part begins in any of its initial states while it is the chosen one.
ToolsInit ==
  /\ part \in {"registry", "patchtext", "patchfiles", "web", "search", "ripgrep", "context", "store"}
  /\ RgInit /\ (part # "registry" => app.lsp /\ app.mode = CHOOSE m \in RunModes : TRUE)
  /\ PfInit /\ (part # "patchfiles" => \A f \in Files : disk[f] = Absent)
  /\ ScInit /\ (part # "search" => tree = CHOOSE t \in Trees : TRUE)
  /\ Init /\ (part # "store" => inner = "sqlite")
  /\ PtInit /\ WfInit /\ RbInit /\ CtxInit

ToolsNext ==
  \/ part = "registry" /\ RgNext
     /\ UNCHANGED <<part, ptVars, pfVars, wfVars, scVars, rbVars, ctxVars, vars>>
  \/ part = "patchtext" /\ PtNext
     /\ UNCHANGED <<part, rgVars, pfVars, wfVars, scVars, rbVars, ctxVars, vars>>
  \/ part = "patchfiles" /\ PfNext
     /\ UNCHANGED <<part, rgVars, ptVars, wfVars, scVars, rbVars, ctxVars, vars>>
  \/ part = "web" /\ WfNext
     /\ UNCHANGED <<part, rgVars, ptVars, pfVars, scVars, rbVars, ctxVars, vars>>
  \/ part = "search" /\ ScNext
     /\ UNCHANGED <<part, rgVars, ptVars, pfVars, wfVars, rbVars, ctxVars, vars>>
  \/ part = "ripgrep" /\ RbNext
     /\ UNCHANGED <<part, rgVars, ptVars, pfVars, wfVars, scVars, ctxVars, vars>>
  \/ part = "context" /\ CtxNext
     /\ UNCHANGED <<part, rgVars, ptVars, pfVars, wfVars, scVars, rbVars, vars>>
  \/ part = "store" /\ Next
     /\ UNCHANGED <<part, rgVars, ptVars, pfVars, wfVars, scVars, rbVars, ctxVars>>

toolsVars == <<part, rgVars, ptVars, pfVars, wfVars, scVars, rbVars, ctxVars, vars>>

ToolsSpec == ToolsInit /\ [][ToolsNext]_toolsVars

\* What no step of the tools does: a rollback leaves no file changed, the cache serves no old
\* page and drops no new one, a call of its own finds no copy of ripgrep missing, a compaction
\* leaves nothing out, and a title is never replaced.
StepsKeep ==
  [][PatchRollsBack /\ FreshServed /\ PutStays /\ FoundAlone /\ CompactCovers /\ TitleStays]_toolsVars
==============================================================================
