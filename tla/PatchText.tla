------------------------------ MODULE PatchText ------------------------------
(***************************************************************************)
(* The text of a patch: internal/patch, parsed line by line, and the hunks *)
(* of internal/patch/apply applied to the lines of a file.                 *)
(*                                                                         *)
(* One action feeds the parser one line.  A line is its kind and its text: *)
(* the five "*** " markers, "@@" with or without a context, the three      *)
(* kinds of change lines, an empty line, anything else.  The heredoc, the  *)
(* Begin and End lines and trimming are left out.                          *)
(***************************************************************************)
EXTENDS Naturals, FiniteSets, SequencesExt

CONSTANTS
  GoodPaths,    \* paths that the validator accepts
  BadPaths,     \* paths outside the workspace, or sensitive
  MaxLines,     \* bound: lines of a patch
  MaxDoc        \* bound: lines of the files that the hunks are tried on

ASSUME PatchTextAssumption ==
  /\ GoodPaths \cap BadPaths = {}
  /\ MaxLines \in Nat /\ MaxDoc \in Nat

VARIABLES
  fed,      \* the lines read so far
  parser    \* what Parse knows after them

ptVars == <<fed, parser>>

Texts == {"x", "y"}
EmptyText == ""                       \* the text of an empty line
HasText(line, context) == line = context \/ line = "xy"
Docs == UNION {[1..n -> Texts \cup {"xy"}] : n \in 0..MaxDoc}

FileHeaders == {"add", "delete", "update"}
PathKinds == FileHeaders \cup {"move"}
ChangeKinds == {"plus", "minus", "space"}
Lines == [kind : PathKinds, text : GoodPaths \cup BadPaths \cup {EmptyText}]
         \cup [kind : ChangeKinds, text : Texts]
         \cup [kind : {"at"}, text : {EmptyText, "x"}]
         \cup [kind : {"blank", "eof", "other"}, text : {EmptyText}]

\* Every marker begins with "*** ", the one of the end of the file too.
isHunkHeader(line) == line.kind \in PathKinds \cup {"eof"}

Chunk(context) == [context |-> context, old |-> <<>>, new |-> <<>>, eof |-> FALSE,
                   added |-> 0, removed |-> 0]
FileChange(kind, path) == [kind |-> kind, path |-> path, moveTo |-> EmptyText,
                           addLines |-> <<>>, chunks |-> <<>>]

-----------------------------------------------------------------------------
(* The parser.  mode is the loop it is in: between file operations, in the *)
(* lines of an added file, between the hunks of an update, in a hunk.      *)

StartParse == [mode |-> "top", out |-> <<>>, cur |-> FileChange("add", EmptyText),
               chunk |-> Chunk(EmptyText), seen |-> {}]
Refuse(p) == [p EXCEPT !.mode = "error"]

registerPath(p, path, next) ==
  IF path = EmptyText \/ path \in p.seen \/ path \in BadPaths THEN Refuse(p)
  ELSE [next EXCEPT !.seen = @ \cup {path}]

TopLine(p, line) ==
  CASE line.kind = "blank" -> p
    [] line.kind = "add" ->
         registerPath(p, line.text, [p EXCEPT !.mode = "add", !.cur = FileChange("add", line.text)])
    [] line.kind = "delete" ->
         registerPath(p, line.text, [p EXCEPT !.out = Append(@, FileChange("delete", line.text))])
    [] line.kind = "update" ->
         registerPath(p, line.text, [p EXCEPT !.mode = "update", !.cur = FileChange("update", line.text)])
    [] OTHER -> Refuse(p)

CloseChange(p) == [p EXCEPT !.mode = "top", !.out = Append(@, p.cur)]

AddLine(p, line) ==
  CASE isHunkHeader(line) -> TopLine(CloseChange(p), line)
    [] line.kind = "blank" -> p
    [] line.kind = "plus" -> [p EXCEPT !.cur.addLines = Append(@, line.text)]
    [] OTHER -> Refuse(p)

UpdateLine(p, line) ==
  CASE line.kind = "move" -> registerPath(p, line.text, [p EXCEPT !.cur.moveTo = line.text])
    [] isHunkHeader(line) /\ line.kind # "move" -> TopLine(CloseChange(p), line)
    [] line.kind = "at" -> [p EXCEPT !.mode = "chunk", !.chunk = Chunk(line.text)]
    [] line.kind = "blank" -> p
    [] OTHER -> Refuse(p)

CloseChunk(p) == [p EXCEPT !.mode = "update", !.cur.chunks = Append(@, p.chunk)]

\* An empty line is read as the removal of one.
HunkLine(c, line) ==
  CASE line.kind = "minus" -> [c EXCEPT !.old = Append(@, line.text), !.removed = @ + 1]
    [] line.kind = "blank" -> [c EXCEPT !.old = Append(@, EmptyText), !.removed = @ + 1]
    [] line.kind = "plus" -> [c EXCEPT !.new = Append(@, line.text), !.added = @ + 1]
    [] line.kind = "space" -> [c EXCEPT !.old = Append(@, line.text), !.new = Append(@, line.text)]

ChunkLine(p, line) ==
  CASE isHunkHeader(line) \/ line.kind = "at" -> UpdateLine(CloseChunk(p), line)
    [] line.kind = "other" -> Refuse(p)
    [] OTHER -> [p EXCEPT !.chunk = HunkLine(p.chunk, line)]

ParseLine(p, line) ==
  CASE p.mode = "top" -> TopLine(p, line)
    [] p.mode = "add" -> AddLine(p, line)
    [] p.mode = "update" -> UpdateLine(p, line)
    [] p.mode = "chunk" -> ChunkLine(p, line)

\* What Parse returns when the text ends here.
EndParse(p) == IF p.mode \in {"add", "update"} THEN CloseChange(p) ELSE p
ParseResult == EndParse(IF parser.mode = "chunk" THEN CloseChunk(parser) ELSE parser)
Accepted == ParseResult.mode # "error" /\ ParseResult.out # <<>>

PatchPaths == (UNION {{c.path, c.moveTo} : c \in ToSet(ParseResult.out)}) \ {EmptyText}
RequiredReadPaths == {c.path : c \in {d \in ToSet(ParseResult.out) : d.kind # "add"}}

TotalsUpTo(counts) ==
  LET total[n \in 0..Len(counts)] == IF n = 0 THEN 0 ELSE total[n - 1] + counts[n] IN total
Total(counts) == TotalsUpTo(counts)[Len(counts)]
Signs(chunks) == Total([k \in 1..Len(chunks) |-> chunks[k].added + chunks[k].removed])
ChangedLines(c) == Len(c.addLines) + Signs(c.chunks) + (IF c.kind = "delete" THEN 1 ELSE 0)
CountChangedLines == Total([k \in 1..Len(ParseResult.out) |-> ChangedLines(ParseResult.out[k])])

\* What the rows of the screen count, file by file.
FileLineStat(c) ==
  CASE c.kind = "add" -> [added |-> Len(c.addLines), removed |-> 0]
    [] c.kind = "delete" -> [added |-> 0, removed |-> 1]
    [] c.kind = "update" -> [added |-> Total([k \in 1..Len(c.chunks) |-> c.chunks[k].added]),
                             removed |-> Total([k \in 1..Len(c.chunks) |-> c.chunks[k].removed])]
FileLineStats == [k \in 1..Len(ParseResult.out) |-> FileLineStat(ParseResult.out[k])]

-----------------------------------------------------------------------------
(* A hunk applied to the lines of a file; Failed when it is refused.       *)

Failed == <<"failed">>
FoundAt(doc, i, lines) == i + Len(lines) - 1 <= Len(doc) /\ SubSeq(doc, i, i + Len(lines) - 1) = lines
Occurrences(doc, from, lines) == {i \in from..Len(doc) : FoundAt(doc, i, lines)}

\* Mutant: the first line that contains the context is as good as any.
findContextFirst(doc, context) ==
  LET containing == {i \in 1..Len(doc) : HasText(doc[i], context)}
  IN IF containing = {} THEN 0 ELSE Min(containing)

\* The line of the context, 0 when it is not there or ambiguous.
findContext(doc, context) ==
  LET exact == {i \in 1..Len(doc) : doc[i] = context}
      containing == {i \in 1..Len(doc) : HasText(doc[i], context)}
      candidates == IF exact # {} THEN exact ELSE containing
  IN IF Cardinality(candidates) = 1 THEN Min(candidates) ELSE 0

\* The place of the lines, 0 when there is none, or another one after it.
findSubsliceUnique(doc, from, lines) ==
  LET found == Occurrences(doc, from, lines)
      again == {j \in found : j >= Min(found) + Len(lines)}
  IN IF lines = <<>> \/ found = {} \/ again # {} THEN 0 ELSE Min(found)

applyChunk(doc, chunk) ==
  LET context == IF chunk.context = EmptyText THEN 1 ELSE findContext(doc, chunk.context)
      i == findSubsliceUnique(doc, context, chunk.old)
      after == i + Len(chunk.old)
  IN CASE context = 0 -> Failed
       [] context # 0 /\ chunk.old = <<>> /\ chunk.new # <<>> ->
            IF chunk.context = EmptyText THEN doc \o chunk.new
            ELSE SubSeq(doc, 1, context) \o chunk.new \o SubSeq(doc, context + 1, Len(doc))
       [] OTHER -> IF i = 0 \/ (chunk.eof /\ after - 1 # Len(doc)) THEN Failed
                   ELSE SubSeq(doc, 1, i - 1) \o chunk.new \o SubSeq(doc, after, Len(doc))

-----------------------------------------------------------------------------
PtInit == fed = <<>> /\ parser = StartParse

Feed(line) ==
  /\ Len(fed) < MaxLines /\ parser.mode # "error"
  /\ fed' = Append(fed, line)
  /\ parser' = ParseLine(parser, line)

PtNext == \E line \in Lines : Feed(line)
PtSpec == PtInit /\ [][PtNext]_ptVars

-----------------------------------------------------------------------------
(* Properties.                                                             *)

\* The lines of some kinds, those after line i and before the next line that ends its
\* part, and the place of a line among others.
LinesOf(lines, kinds) == {i \in 1..Len(lines) : lines[i].kind \in kinds}
LinesAfter(lines, i, ends, kinds) ==
  {j \in LinesOf(lines, kinds) : j > i /\ \A k \in (i + 1)..j : lines[k].kind \notin ends}
Rank(S, i) == Cardinality({j \in S : j <= i})
HunkEnds == PathKinds \cup {"at"}
Spells(lines, texts, S) == Len(texts) = Cardinality(S) /\ \A j \in S : texts[Rank(S, j)] = lines[j].text

IsHunk(lines, i, c) ==
  /\ c.context = lines[i].text
  /\ Spells(lines, c.old, LinesAfter(lines, i, HunkEnds, {"minus", "space", "blank"}))
  /\ Spells(lines, c.new, LinesAfter(lines, i, HunkEnds, {"plus", "space"}))

IsChange(lines, i, c) ==
  LET moves == LinesAfter(lines, i, FileHeaders, {"move"})
      hunks == LinesAfter(lines, i, FileHeaders, {"at"})
  IN /\ c.kind = lines[i].kind /\ c.path = lines[i].text
     /\ c.moveTo = IF moves = {} THEN EmptyText ELSE lines[Max(moves)].text
     /\ Spells(lines, c.addLines,
               IF c.kind = "add" THEN LinesAfter(lines, i, FileHeaders, {"plus"}) ELSE {})
     /\ Len(c.chunks) = Cardinality(hunks)
     /\ \A j \in hunks : IsHunk(lines, j, c.chunks[Rank(hunks, j)])

\* An accepted patch is what its text says: one change for each file header, in
\* their order, with the target of the last move; the hunks of an update are its "@@"
\* lines, and the old and the new lines of a hunk are its lines of each kind, in order,
\* up to the next hunk or marker.
ReadAs(lines, out) ==
  LET files == LinesOf(lines, FileHeaders)
  IN Len(out) = Cardinality(files) /\ \A i \in files : IsChange(lines, i, out[Rank(files, i)])
ParsedAsWritten == Accepted => ReadAs(fed, ParseResult.out)

\* The limit on changed lines counts every line with a sign once, an empty line of a
\* hunk, and a deletion as one line; a context line counts for nothing.  The screen
\* adds up to it.
Signed(lines) ==
  LinesOf(lines, {"plus", "minus", "delete"})
    \cup UNION {LinesAfter(lines, i, HunkEnds, {"blank"}) : i \in LinesOf(lines, {"at"})}
CountsSigns ==
  Accepted => /\ CountChangedLines = Cardinality(Signed(fed))
              /\ CountChangedLines = Total([k \in 1..Len(FileLineStats) |->
                                              FileLineStats[k].added + FileLineStats[k].removed])

\* No file is named twice by one patch, as a move's target neither, so no change
\* of a patch depends on another; and no path that was refused is in it.
NamedBy(c) == {c.path, c.moveTo} \ {EmptyText}
NamedOnce ==
  Accepted => /\ \A k, l \in 1..Len(ParseResult.out) :
                   k # l => NamedBy(ParseResult.out[k]) \cap NamedBy(ParseResult.out[l]) = {}
              /\ \A k \in 1..Len(ParseResult.out) : ParseResult.out[k].path # ParseResult.out[k].moveTo
              /\ PatchPaths \cap BadPaths = {}
              /\ RequiredReadPaths \subseteq PatchPaths

\* A hunk that is applied to a file replaces one occurrence of its old lines, at or
\* after the line of its context, and every other occurrence there overlaps that one.
PlacedIn(doc, c) ==
  LET r == applyChunk(doc, c)
      from == IF c.context = EmptyText THEN {1} ELSE {i \in 1..Len(doc) : HasText(doc[i], c.context)}
      nearest == IF \E i \in from : doc[i] = c.context THEN {i \in from : doc[i] = c.context} ELSE from
  IN r # Failed /\ c.old # <<>> =>
       \E i \in 1..Len(doc) :
         /\ FoundAt(doc, i, c.old)
         /\ r = SubSeq(doc, 1, i - 1) \o c.new \o SubSeq(doc, i + Len(c.old), Len(doc))
         /\ \A f \in nearest : i >= f
         /\ \A j \in Occurrences(doc, Max(nearest), c.old) : j < i + Len(c.old)
HunkPlaced == parser.mode = "chunk" => \A doc \in Docs : PlacedIn(doc, parser.chunk)

\* What the parser accepts is what the text says, and a hunk goes where its lines are.
PatchTextInv == ParsedAsWritten /\ CountsSigns /\ NamedOnce /\ HunkPlaced
=============================================================================
