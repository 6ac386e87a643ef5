---------------------------- MODULE SearchCalls ----------------------------
(***************************************************************************)
(* The grep and glob tools: a call is checked, its ripgrep arguments are   *)
(* built, the program runs for at most a timeout, what it wrote is parsed  *)
(* and filtered, sorted by the files' times, cut to a page and reported.   *)
(* Files are edited between those steps.  The model asks for the pages of  *)
(* a grep one after the other, as the tool's footer invites it to.         *)
(*                                                                         *)
(* Ripgrep is external: of the files in its scope it takes those that the  *)
(* last of the globs that match them admits.  A file is a natural number,  *)
(* in the order of the paths; what its path says is given by Place.        *)
(***************************************************************************)
EXTENDS Naturals, Integers, FiniteSets, Sequences, SequencesExt

CONSTANTS
  SearchFiles,     \* the files of the workspace
  Place,           \* file -> "top" "skip" (in a skipped directory) "git" "secret" "hidden" "binary"
  Trees,           \* the workspaces to begin with: file -> [time, hits], time 1 or 2
  Inputs,          \* the inputs of calls: [tool, mode, scope, glob, context, limit, offset]
  HeadLimit,       \* tools.grep.head_limit (0: not set)
  DefaultLimit,    \* 250 in the code
  MaxResults,      \* tools.glob.max_results
  IncludeHidden,   \* tools.glob.include_hidden
  MaxHits,         \* bound: matching lines of a file
  MaxEdits         \* bound: edits of the workspace

Scopes == {".", "skip", "./skip", "git", "file", "gone", "outside"}
OutputModes == {"content", "files_with_matches", "count"}
FilePlaces == {"top", "skip", "git", "secret", "hidden", "binary"}
SearchInput == [tool : {"grep", "glob"}, mode : OutputModes, scope : Scopes, glob : SUBSET FilePlaces,
                context : BOOLEAN, limit : Nat \cup {-1}, offset : Int]

ASSUME SearchAssumption ==
  /\ SearchFiles \subseteq Nat /\ IsFiniteSet(SearchFiles) /\ DefaultLimit \in Nat \ {0}
  /\ Place \in [SearchFiles -> FilePlaces]
  /\ HeadLimit \in Nat /\ MaxResults \in Nat \ {0} /\ MaxHits \in Nat /\ MaxEdits \in Nat
  /\ Trees \subseteq [SearchFiles -> [time : {1, 2}, hits : 0..MaxHits]]
  /\ Inputs \subseteq SearchInput /\ Inputs # {}

VARIABLES
  tree,       \* file -> [time, hits]; time 0: there is no such file
  fileEdits,  \* edits made
  search,     \* the call: [at, in, found, records, list, answer, still]
  walk        \* the pages of one query: [from, shown, over], over once a page was not full
scVars == <<tree, fileEdits, search, walk>>

Exists(f) == tree[f].time > 0
NoAnswer == [kind |-> "none", body |-> <<>>, total |-> 0, matches |-> 0, more |-> FALSE]
AtRest == [at |-> "rest", in |-> CHOOSE i \in Inputs : TRUE, found |-> {}, list |-> <<>>,
           answer |-> NoAnswer, still |-> TRUE]
NoWalk == [from |-> 0, shown |-> <<>>, over |-> FALSE]
ScInit ==
  /\ tree \in Trees /\ fileEdits = 0 /\ search = AtRest /\ walk = NoWalk

-----------------------------------------------------------------------------
(* The arguments.                                                          *)

\* A glob admits the files of some places or, negated, refuses them.
Glob(neg, places) == [neg |-> neg, places |-> places]

\* Every file that the code counts as sensitive.
SensitiveExcludeGlobs == <<Glob(TRUE, {"secret"})>>
\* A scope that is spelled like a skipped directory, or below it, is entered.
SkipGlobs(scope) == IF scope = "skip" THEN <<>> ELSE <<Glob(TRUE, {"skip"})>>
IsGitOnlyPath(scope) == scope = "git"
\* The user's glob, then the exclusions: the later one decides.
BuildArgs(in) ==
  (IF in.glob = {} THEN <<>> ELSE <<Glob(FALSE, in.glob)>>)
     \o SensitiveExcludeGlobs \o SkipGlobs(in.scope) \o <<Glob(TRUE, {"git"})>>

\* tools.grep lets ripgrep leave hidden files out, tools.glob asks for them when configured.
IgnoreFlags(in) == in.tool = "glob" /\ IncludeHidden

-----------------------------------------------------------------------------
(* External: ripgrep.                                                      *)

InScope(f, scope) ==
  CASE scope = "." -> TRUE
    [] scope \in {"skip", "./skip"} -> Place[f] = "skip"
    [] scope = "file" -> Place[f] = "top" /\ \A g \in SearchFiles : Place[g] = "top" => f <= g
    [] OTHER -> FALSE
Deciding(f, globs) == {i \in DOMAIN globs : Place[f] \in globs[i].places}
Admits(f, globs, hidden) ==
  LET last == Deciding(f, globs)
  IN  IF last # {} THEN ~globs[CHOOSE i \in last : \A j \in last : j <= i].neg
      ELSE (\A i \in DOMAIN globs : globs[i].neg) /\ (Place[f] # "hidden" \/ hidden)
Selected(in) ==
  {f \in SearchFiles : Exists(f) /\ InScope(f, in.scope) /\ Admits(f, BuildArgs(in), IgnoreFlags(in))}

\* A matching line, and the line of context after it when the call asks for context.
Records(in, f) ==
  {[rel |-> f, line |-> 2 * k, kind |-> "match"] : k \in 1..tree[f].hits}
    \cup IF in.context THEN {[rel |-> f, line |-> 2 * k + 1, kind |-> "context"] : k \in 1..tree[f].hits}
         ELSE {}
Listed(f) == [rel |-> f, line |-> 0, kind |-> "file"]
Output(in) ==
  IF in.tool = "glob" THEN {Listed(f) : f \in Selected(in)}
  ELSE UNION {Records(in, f) : f \in Selected(in)}

-----------------------------------------------------------------------------
(* What is made of the output.                                             *)

\* A record is kept when its file is neither sensitive nor, as far as it can be opened,
\* binary; glob also drops hidden paths when they are not asked for.
IsSearchable(f) == Exists(f) /\ Place[f] # "binary"
IsHiddenRelPath(f) == Place[f] = "hidden"
ParsedRecords(in, found) ==
  {r \in found : /\ Place[r.rel] # "secret" /\ IsSearchable(r.rel)
                 /\ (in.tool = "glob" /\ ~IncludeHidden) => ~IsHiddenRelPath(r.rel)}

\* The file changed last comes first, those of one time in the order of their paths; a file
\* that is gone by now counts as the oldest.
FileModTime(f) == tree[f].time
Newer(f, g) == FileModTime(f) > FileModTime(g) \/ (FileModTime(f) = FileModTime(g) /\ f < g)
\* The set in the order of Before, which is total on it.
Sorted(set, Before(_, _)) ==
  [i \in 1..Cardinality(set) |-> CHOOSE x \in set : Cardinality({y \in set : Before(y, x)}) = i - 1]
SortFilesByMtime(files) == Sorted(files, Newer)
SortContentRecords(found) ==
  Sorted(found, LAMBDA a, b : IF a.rel # b.rel THEN Newer(a.rel, b.rel) ELSE a.line < b.line)

Matches(found, f) == {r \in found : r.rel = f /\ r.kind = "match"}
WithMatches(found) == {r.rel : r \in {r \in found : r.kind # "context"}}
\* The entries of the answer: lines, files, or files with their count.
Entries(in, found) ==
  IF in.tool = "glob" \/ in.mode = "files_with_matches" THEN SortFilesByMtime(WithMatches(found))
  ELSE IF in.mode = "content" THEN SortContentRecords(found)
  ELSE LET files == SortFilesByMtime(WithMatches(found))
       IN  [i \in DOMAIN files |-> [rel |-> files[i], count |-> Cardinality(Matches(found, files[i]))]]

\* -1: the call gave no limit; 0: no limit.
ResolveHeadLimit(in) ==
  IF in.limit >= 0 THEN in.limit ELSE IF HeadLimit > 0 THEN HeadLimit ELSE DefaultLimit
\* Mutant: the page begins one entry late.
PaginateLate(list, offset, limit) ==
  SubSeq(list, offset + (IF offset > 0 THEN 2 ELSE 1), IF limit > 0 /\ offset + limit < Len(list) THEN offset + limit ELSE Len(list))
Paginate(list, offset, limit) ==
  SubSeq(list, offset + 1, IF limit > 0 /\ offset + limit < Len(list) THEN offset + limit ELSE Len(list))
NeedsPaginationFooter(limit, offset, total, shown) ==
  offset > 0 \/ (limit > 0 /\ total > offset + shown)

Empty == [NoAnswer EXCEPT !.kind = "text"]
Error == [NoAnswer EXCEPT !.kind = "error"]
FormatGrepOutput(in, list, found) ==
  LET limit == ResolveHeadLimit(in)
      page == Paginate(list, in.offset, limit)
  IN  [kind |-> "text", body |-> page, total |-> Len(list),
       matches |-> IF in.mode = "count" THEN Cardinality({r \in found : r.kind = "match"}) ELSE 0,
       more |-> Len(list) > 0 /\ NeedsPaginationFooter(limit, in.offset, Len(list), Len(page))]
\* glob names the files that it shows and notes that there were more.
FormatGlobOutput(list) ==
  LET page == Paginate(list, 0, MaxResults)
  IN  [kind |-> "text", body |-> page, total |-> Len(page), matches |-> 0, more |-> Len(list) > MaxResults]

-----------------------------------------------------------------------------
(* The steps of a call.                                                    *)

\* What is refused before ripgrep runs; without a path, and with an empty one for grep, the
\* scope is the workspace.
BadPath(in) ==
  \/ in.scope = "outside"
  \/ in.tool = "glob" /\ in.scope \in {"gone", "file"}
Refused(in) == BadPath(in) \/ in.offset < 0
AnswersWith(answer) == search' = [search EXCEPT !.at = "answered", !.answer = answer]
Call(in) ==
  /\ search.at = "rest"
  /\ search' = [AtRest EXCEPT !.at = "check", !.in = in]
  /\ walk' = [from |-> in.offset, shown |-> <<>>, over |-> FALSE]
  /\ UNCHANGED <<tree, fileEdits>>
ExecuteSearch ==
  /\ search.at = "check"
  /\ LET in == search.in
     IN  IF in.tool = "grep" /\ IsGitOnlyPath(in.scope) THEN AnswersWith(Empty)
         ELSE IF Refused(in) THEN AnswersWith(Error)
         ELSE IF IsGitOnlyPath(in.scope) THEN AnswersWith(Empty)
         ELSE search' = [search EXCEPT !.at = "exec"]
  /\ UNCHANGED <<tree, fileEdits, walk>>
\* Ripgrep ends with 0 or 1: its output is parsed; or with another code, or not in time, or the
\* call is cancelled: the output is dropped.
Exec ==
  /\ search.at = "exec"
  /\ \/ search.in.scope # "gone" /\ search' = [search EXCEPT !.at = "parse", !.found = Output(search.in)]
     \/ AnswersWith(Error)
  /\ UNCHANGED <<tree, fileEdits, walk>>
Parse ==
  /\ search.at = "parse"
  /\ search' = [search EXCEPT !.at = "sort", !.found = ParsedRecords(search.in, search.found)]
  /\ UNCHANGED <<tree, fileEdits, walk>>
\* The pages of a query end with one that is not full, or empty.
Walked(in, page) ==
  IF in.tool = "grep"
  THEN [walk EXCEPT !.shown = @ \o page,
                    !.over = ResolveHeadLimit(in) = 0 \/ Len(page) < ResolveHeadLimit(in)]
  ELSE [walk EXCEPT !.shown = page, !.over = TRUE]
PostProcess ==
  /\ search.at = "sort"
  /\ LET in == search.in
         list == Entries(in, search.found)
         answer == IF in.tool = "glob" THEN FormatGlobOutput(list)
                   ELSE FormatGrepOutput(in, list, search.found)
     IN  \/ /\ search' = [search EXCEPT !.at = "answered", !.list = list, !.answer = answer]
            /\ walk' = Walked(in, answer.body)
         \/ AnswersWith(Error) /\ UNCHANGED walk
  /\ UNCHANGED <<tree, fileEdits>>

\* The model asks for the next page, or has done with the query.
NextPage ==
  /\ search.at = "answered" /\ search.answer.kind = "text" /\ search.answer.more /\ ~walk.over
  /\ search.in.tool = "grep" /\ ResolveHeadLimit(search.in) > 0
  /\ search' = [search EXCEPT !.at = "check", !.answer = NoAnswer, !.found = {}, !.list = <<>>,
                              !.in.offset = @ + ResolveHeadLimit(search.in)]
  /\ UNCHANGED <<tree, fileEdits, walk>>
Forget ==
  /\ search.at = "answered"
  /\ search' = AtRest /\ walk' = NoWalk
  /\ UNCHANGED <<tree, fileEdits>>

\* External: a file is written, created or removed.
Edit(f) ==
  /\ fileEdits < MaxEdits /\ fileEdits' = fileEdits + 1
  /\ \E h \in 0..MaxHits, t \in {0, 3 + fileEdits} : tree' = [tree EXCEPT ![f] = [time |-> t, hits |-> h]]
  /\ search' = [search EXCEPT !.still = FALSE]
  /\ UNCHANGED walk

ScNext ==
  \/ \E in \in Inputs : Call(in)
  \/ ExecuteSearch \/ Exec \/ Parse \/ PostProcess \/ NextPage \/ Forget
  \/ \E f \in SearchFiles : Edit(f)
ScSpec == ScInit /\ [][ScNext]_scVars

-----------------------------------------------------------------------------
(* Properties.                                                             *)

ScTypeOK ==
  /\ tree \in [SearchFiles -> [time : 0..(2 + MaxEdits), hits : 0..MaxHits]]
  /\ fileEdits \in 0..MaxEdits
  /\ search.at \in {"rest", "check", "exec", "parse", "sort", "answered"}
  /\ search.in.scope \in Scopes /\ search.in.mode \in OutputModes
  /\ search.at \in {"exec", "parse", "sort"} => search.in.offset \in Nat
  /\ search.answer.kind \in {"none", "text", "error"} /\ walk.over \in BOOLEAN

ShownFiles ==
  LET in == search.in
      body == search.answer.body
  IN  IF in.tool = "glob" \/ in.mode = "files_with_matches" THEN {body[i] : i \in DOMAIN body}
      ELSE {body[i].rel : i \in DOMAIN body}

\* Whatever glob the model writes and however the files change meanwhile, no answer names a
\* sensitive file, one of .git, one that is no text, or one of a skipped directory that the
\* path does not name; and a file hidden from glob is not named by it (buildRipgrepArgs,
\* parseRipgrepJSON, parseRipgrepFiles).
OnlyAllowed ==
  \A f \in ShownFiles :
     /\ Place[f] \in {"top", "hidden", "skip"}
     /\ Place[f] = "skip" => search.in.scope = "skip"
     /\ Place[f] = "hidden" /\ search.in.tool = "glob" => IncludeHidden

\* An answer without a footer, or without the note of glob, leaves no entry out, and one that
\* is empty with a total of 0 means that nothing is there (needsPaginationFooter).
NothingCutSilently ==
  search.answer.kind = "text" /\ ~search.answer.more => search.answer.body = search.list

\* The pages that the model asks for one after the other, in a workspace that nobody changes,
\* show every entry exactly once, in the order of one unlimited answer, and the totals of each
\* page are those of all (SortFilesByMtime, PaginateStrings, the footers).
PagesComplete ==
  search.at = "answered" /\ search.answer.kind = "text" /\ search.still /\ search.in.tool = "grep"
     /\ search.in.scope \notin {"git"} =>
    LET all == Entries(search.in, ParsedRecords(search.in, Output(search.in)))
        rest == SubSeq(all, walk.from + 1, Len(all))
    IN  /\ IsPrefix(walk.shown, rest)
        /\ walk.over \/ ~search.answer.more => walk.shown = rest
        /\ search.answer.total = Len(all)

\* An answer of a search: nothing that is excluded, nothing cut silently, and page by page
\* all of it.
SearchInv == ScTypeOK /\ OnlyAllowed /\ NothingCutSilently /\ PagesComplete
=============================================================================
