---------------------------- MODULE Sessions_proofs ----------------------------
(***************************************************************************)
(* Proofs about SessionStore, for any number of sessions, callers, calls,  *)
(* failing statements and ends of the process: the invariant of the lazy   *)
(* store, and that it implements Transcripts.  Then about ChatCatalog, the *)
(* transcript on the screen, for any number of calls, blocks and pieces of *)
(* an answer: the invariant of the rows, the cache and the catalog.        *)
(***************************************************************************)
EXTENDS SessionStore, ChatCatalog, FiniteSetTheorems, SequenceTheorems, WellFoundedInduction,
        TLAPS

\* The types, with the totals of a row and of the calls left open: their bounds follow
\* from what was added (Bounds).
LooseRow == [title : 0 .. MaxMessages, conf : Confs \cup {"none"}, tokens : Nat, cost : Nat]
Calls == [op : Writes \cup {"none", "update"}, sess : Sessions \cup {"none"}, pc : Places,
          once : Onces \cup {NoOnce}, copy : LooseRow]
Messages == [id : Ids, role : {"user", "assistant"}]

Shape ==
  /\ inner \in {"sqlite", "memory"}
  /\ created \subseteq Sessions /\ gone \subseteq created /\ lost \subseteq created
  /\ pending \in [Sessions -> LooseRow]
  /\ materializing \in [Sessions -> Onces \cup {NoOnce}]
  /\ once \in [Onces -> {"fresh", "running", "ok", "failed"}]
  /\ rows \in [Sessions -> LooseRow]
  /\ msgs \in [Sessions -> Seq(Messages)]
  /\ call \in [Callers -> Calls]
  /\ used \in [Sessions -> Nat]
  /\ faults \in 0 .. MaxFaults
  /\ crashes \in 0 .. MaxCrashes

\* A row as its caller set it, and one that no write has touched yet.
Full(row) == row = NoRow \/ row.conf \in Confs
Blank(row) == row.title = 0 /\ row.tokens = 0 /\ row.cost = 0

Holding == {"create", "restore"}

\* Where a caller is tells what it holds, and for which session.
CallStage(c) ==
  LET k == call[c] IN
  /\ k.pc = "idle" => k = Idle
  /\ k.pc # "idle" => k.sess \in created
  /\ k.pc \in {"once", "write"} \cup Running => k.op \in Writes
  /\ k.pc = "touch" => k.op \in {"user", "assistant"} /\ k.copy.title \in Ids
  /\ k.pc \in {"read", "save"} => k.op = "update"
  /\ k.pc \in {"once"} \cup Running <=> k.once # NoOnce
  /\ k.pc \in Holding => k.copy.conf \in Confs /\ Blank(k.copy)
  /\ k.pc \in {"read", "save"} => k.copy.conf \in Confs
  /\ k.pc # "save" => k.copy.tokens = 0 /\ k.copy.cost = 0
  /\ k.pc \in {"touch", "save"} => rows[k.sess] # NoRow /\ inner = "sqlite"

RowStage(s) ==
  /\ Full(pending[s]) /\ Blank(pending[s])
  /\ Full(rows[s])
  /\ s \notin created => pending[s] = NoRow /\ rows[s] = NoRow
  /\ rows[s] = NoRow => msgs[s] = << >> /\ used[s] = 0

\* A session is pending, in the hands of one caller or in the table, and nowhere twice.
Apart(s) ==
  /\ pending[s] # NoRow => rows[s] = NoRow /\ Holders(s) = {}
  /\ rows[s] # NoRow => Holders(s) = {}
  /\ \A c, d \in Holders(s) : c = d

\* A Once that is running has a caller that runs it.
Served == \A o \in Onces : once[o] = "running" =>
            \E d \in Callers : call[d].once = o /\ call[d].pc \in Running

Stages ==
  /\ \A c \in Callers : CallStage(c)
  /\ \A s \in Sessions : RowStage(s) /\ Apart(s)
  /\ SessionKept
  /\ Served

\* What is stored, and what the calls under way will still store.
Writing(ops) == {c \in Callers : call[c].op \in ops /\ ~At(c, "touch")}
Answers(s) == {i \in DOMAIN msgs[s] : msgs[s][i].role = "assistant"}
Paying(s) == {c \in Callers : At(c, "touch") /\ call[c].op = "assistant" /\ call[c].sess = s}
Stored == {p \in Sessions \X Ids : p[2] <= Len(msgs[p[1]])}

MessageBound == NextId + InFlight({"user", "assistant"}) <= MaxMessages + 1
UsageBound == \A s \in Sessions : used[s] + InFlight({"usage"}) <= MaxUsage
Older == \A s \in Sessions : \A i \in DOMAIN msgs[s] : msgs[s][i].id < NextId

\* A row, also one that was read before, claims no more than was added and answered.
Paid(s, row) == row.tokens <= used[s] /\ row.cost + Cardinality(Paying(s)) <= Cardinality(Answers(s))
AllPaid ==
  /\ \A s \in Sessions : rows[s] # NoRow => Paid(s, rows[s])
  /\ \A c \in Callers : At(c, "save") => Paid(call[c].sess, call[c].copy)

Totals == \A s \in Sessions : rows[s] # NoRow /\ (s \notin lost \/ inner = "memory")
                                => rows[s].tokens = used[s]

Short == \A s \in Sessions : Len(msgs[s]) <= MaxMessages

Bounds == Short /\ MessageBound /\ UsageBound /\ Older /\ AllPaid /\ Totals

-----------------------------------------------------------------------------

\* Rows and calls as the proofs see them.
LEMMA NoRowFacts ==
  /\ NoRow \in LooseRow /\ Blank(NoRow) /\ Full(NoRow)
  /\ NoRow.title = 0 /\ NoRow.tokens = 0 /\ NoRow.cost = 0
  /\ \A row : row.conf \in Confs => row # NoRow
  /\ \A row : Full(row) /\ row # NoRow => row.conf \in Confs
  BY StoreAssumption DEF NoRow, LooseRow, Blank, Full

LEMMA IdleFacts ==
  /\ Idle.op = "none" /\ Idle.sess = "none" /\ Idle.pc = "idle" /\ Idle.once = NoOnce /\ Idle.copy = NoRow
  /\ Idle \in Calls
  BY NoRowFacts DEF Idle, Places, Calls

LEMMA SetFacts ==
  ASSUME Shape, NEW c \in Callers, NEW r, Set(c, r)
  PROVE  call'[c] = r /\ \A x \in Callers : x # c => call'[x] = call[x]
  BY DEF Shape, Set

\* The fields of a call and of a row.
LEMMA CallFacts ==
  ASSUME Shape, NEW c \in Callers
  PROVE  /\ call[c].op \in Writes \cup {"none", "update"} /\ call[c].sess \in Sessions \cup {"none"}
         /\ call[c].pc \in Places /\ call[c].once \in Onces \cup {NoOnce} /\ call[c].copy \in LooseRow
         /\ call[c] = [op |-> call[c].op, sess |-> call[c].sess, pc |-> call[c].pc,
                       once |-> call[c].once, copy |-> call[c].copy]
  BY DEF Shape, Calls

\* A step of c that takes no session out of its place.
Calm(c) ==
  /\ UNCHANGED <<created, pending, once, gone>>
  /\ \A s \in Sessions :
       /\ rows'[s] = NoRow <=> rows[s] = NoRow
       /\ Full(rows'[s])
       /\ rows[s] = NoRow => msgs'[s] = msgs[s] /\ used'[s] = used[s]
  /\ \A x \in Callers \ {c} : call'[x] = call[x]
  /\ inner' = inner
  /\ call[c].pc \notin Running
  /\ call'[c].pc \notin Running
  /\ CallStage(c)'

LEMMA CalmKeeps ==
  ASSUME Shape, Stages, NEW c \in Callers, Calm(c)
  PROVE  Stages'
<1>1. \A s \in Sessions : Holders(s)' = Holders(s)
  BY DEF Holders, Calm, Running
<1>2. ASSUME NEW x \in Callers PROVE CallStage(x)'
  <2>1. CASE x = c
    BY <2>1 DEF Calm
  <2>2. CASE x # c
    <3>1. CallStage(x) /\ call'[x] = call[x]
      BY <2>2 DEF Stages, Calm
    <3>2. call[x].pc # "idle" => call[x].sess \in Sessions
      BY <3>1 DEF CallStage, Shape
    <3> QED
      BY <3>1, <3>2 DEF CallStage, Calm
  <2> QED
    BY <2>1, <2>2
<1>3. ASSUME NEW s \in Sessions PROVE RowStage(s)' /\ Apart(s)'
  BY <1>1 DEF Stages, RowStage, Apart, Calm
<1>4. SessionKept'
  <2>1. Known' = Known
    BY <1>1 DEF Known, Calm, Shape
  <2> QED
    BY <2>1 DEF Stages, SessionKept, Calm
<1>5. Served'
  BY DEF Stages, Served, Calm
<1> QED
  BY <1>2, <1>3, <1>4, <1>5 DEF Stages

\* What the writes make of a row.
LEMMA TouchedRow ==
  ASSUME NEW row \in LooseRow, NEW role, NEW id \in Ids
  PROVE  /\ Touched(row, role, id) \in LooseRow /\ Touched(row, role, id).conf = row.conf
         /\ Touched(row, role, id).tokens = row.tokens
         /\ Touched(row, role, id).cost = IF role = "user" THEN row.cost ELSE row.cost + 1
  BY StoreAssumption DEF LooseRow, Touched, Ids

LEMMA UsedRow ==
  ASSUME NEW row \in LooseRow
  PROVE  /\ WithUsage(row) \in LooseRow /\ WithUsage(row).conf = row.conf
         /\ WithUsage(row).tokens = row.tokens + 1 /\ WithUsage(row).cost = row.cost
  BY DEF LooseRow, WithUsage

LEMMA SetRow ==
  ASSUME NEW row \in LooseRow, NEW v \in Confs
  PROVE  LET new == [row EXCEPT !.conf = v] IN
         /\ new \in LooseRow /\ new.conf = v
         /\ new.tokens = row.tokens /\ new.cost = row.cost /\ new.title = row.title
  BY DEF LooseRow

LEMMA OnceDoneCalm ==
  ASSUME Shape, Stages, NEW c \in Callers, OnceDone(c)
  PROVE  Calm(c)
<1> DEFINE s == call[c].sess
<1> USE DEF At, OnceDone, Returned
<1>1. CallStage(c) /\ s \in Sessions /\ RowStage(s) /\ rows[s] \in LooseRow /\ call[c].copy \in LooseRow
  BY CallFacts DEF Stages, CallStage, Shape
<1>2. call'[c] = Idle \/ call'[c] = [call[c] EXCEPT !.pc = "write", !.once = NoOnce]
  BY SetFacts DEF Return, Go
<1>3. \A x \in Callers \ {c} : call'[x] = call[x]
  BY SetFacts DEF Return, Go
<1>4. UNCHANGED <<created, pending, once, gone, inner>>
  BY DEF lazyVars, innerVars, histVars
<1>5. ASSUME NEW t \in Sessions
      PROVE  /\ rows'[t] = NoRow <=> rows[t] = NoRow
             /\ Full(rows'[t])
             /\ rows[t] = NoRow => msgs'[t] = msgs[t] /\ used'[t] = used[t]
  BY DEF innerVars, histVars, Stages, RowStage
<1>6. call[c].pc \notin Running /\ call'[c].pc \notin Running
  BY <1>2, CallFacts, IdleFacts DEF Running
<1>7. CallStage(c)'
  BY ZenonT(60), <1>1, <1>2, <1>4, <1>5, <1>6, CallFacts, IdleFacts, TouchedRow, UsedRow, SetRow, NoRowFacts
  DEF CallStage, Running, Holding, Writes, Returned
<1> QED
  BY <1>3, <1>4, <1>5, <1>6, <1>7 DEF Calm

LEMMA AddUsageCalm ==
  ASSUME Shape, Stages, NEW c \in Callers, AddUsage(c)
  PROVE  Calm(c)
<1> DEFINE s == call[c].sess
<1> USE DEF At, AddUsage
<1>1. CallStage(c) /\ s \in Sessions /\ RowStage(s) /\ rows[s] \in LooseRow /\ call[c].copy \in LooseRow
  BY CallFacts DEF Stages, CallStage, Shape
<1>2. call'[c] = Idle
  BY SetFacts DEF Return, Go
<1>3. \A x \in Callers \ {c} : call'[x] = call[x]
  BY SetFacts DEF Return, Go
<1>4. UNCHANGED <<created, pending, once, gone, inner>>
  BY DEF lazyVars, innerVars, histVars
<1>5. ASSUME NEW t \in Sessions
      PROVE  /\ rows'[t] = NoRow <=> rows[t] = NoRow
             /\ Full(rows'[t])
             /\ rows[t] = NoRow => msgs'[t] = msgs[t] /\ used'[t] = used[t]
  <2>1. rows'[t] = rows[t] \/ (t = s /\ rows[s] # NoRow /\ rows'[t] = WithUsage(rows[s]))
    BY <1>1 DEF Shape, CallStage, NewMessage, innerVars
  <2>2. rows[t] = NoRow => msgs'[t] = msgs[t] /\ used'[t] = used[t]
    BY <1>1 DEF Shape, innerVars, histVars
  <2>3. (WithUsage(rows[s])).conf \in Confs \/ rows[s] = NoRow
    <3>1. rows[s] = NoRow \/ rows[s].conf \in Confs
      BY <1>1, NoRowFacts DEF RowStage
    <3> QED
      BY <1>1, <3>1, TouchedRow, UsedRow, SetRow DEF CallStage
  <2>4. rows[s] # NoRow => WithUsage(rows[s]) # NoRow /\ Full(WithUsage(rows[s]))
    BY <2>3, NoRowFacts DEF Full
  <2> QED
    BY <2>1, <2>2, <2>4 DEF Stages, RowStage
<1>6. call[c].pc \notin Running /\ call'[c].pc \notin Running
  BY <1>2, CallFacts, IdleFacts DEF Running
<1>7. CallStage(c)'
  BY <1>1, <1>2, <1>4, <1>5, <1>6, CallFacts, IdleFacts, TouchedRow, UsedRow, SetRow, NoRowFacts
  DEF CallStage, Running, Holding, Writes
<1> QED
  BY <1>3, <1>4, <1>5, <1>6, <1>7 DEF Calm

LEMMA AppendRefusedCalm ==
  ASSUME Shape, Stages, NEW c \in Callers, AppendRefused(c)
  PROVE  Calm(c)
<1> DEFINE s == call[c].sess
<1> USE DEF At, AppendRefused, SessionExists
<1>1. CallStage(c) /\ s \in Sessions /\ RowStage(s) /\ rows[s] \in LooseRow /\ call[c].copy \in LooseRow
  BY CallFacts DEF Stages, CallStage, Shape
<1>2. call'[c] = Idle
  BY SetFacts DEF Return, Go
<1>3. \A x \in Callers \ {c} : call'[x] = call[x]
  BY SetFacts DEF Return, Go
<1>4. UNCHANGED <<created, pending, once, gone, inner>>
  BY DEF lazyVars, innerVars, histVars
<1>5. ASSUME NEW t \in Sessions
      PROVE  /\ rows'[t] = NoRow <=> rows[t] = NoRow
             /\ Full(rows'[t])
             /\ rows[t] = NoRow => msgs'[t] = msgs[t] /\ used'[t] = used[t]
  BY DEF innerVars, histVars, Stages, RowStage
<1>6. call[c].pc \notin Running /\ call'[c].pc \notin Running
  BY <1>2, CallFacts, IdleFacts DEF Running
<1>7. CallStage(c)'
  BY <1>1, <1>2, <1>4, <1>5, <1>6, CallFacts, IdleFacts, TouchedRow, UsedRow, SetRow, NoRowFacts
  DEF CallStage, Running, Holding, Writes
<1> QED
  BY <1>3, <1>4, <1>5, <1>6, <1>7 DEF Calm

LEMMA MemoryAppendCalm ==
  ASSUME Shape, Stages, NEW c \in Callers, MemoryAppend(c), NextId \in Ids
  PROVE  Calm(c)
<1> DEFINE s == call[c].sess
<1> USE DEF At, MemoryAppend, SessionExists
<1>1. CallStage(c) /\ s \in Sessions /\ RowStage(s) /\ rows[s] \in LooseRow /\ call[c].copy \in LooseRow
  BY CallFacts DEF Stages, CallStage, Shape
<1>2. call'[c] = Idle
  BY SetFacts DEF Return, Go, NewMessage
<1>3. \A x \in Callers \ {c} : call'[x] = call[x]
  BY SetFacts DEF Return, Go
<1>4. UNCHANGED <<created, pending, once, gone, inner>>
  BY DEF lazyVars, innerVars, histVars
<1>5. ASSUME NEW t \in Sessions
      PROVE  /\ rows'[t] = NoRow <=> rows[t] = NoRow
             /\ Full(rows'[t])
             /\ rows[t] = NoRow => msgs'[t] = msgs[t] /\ used'[t] = used[t]
  <2>1. rows'[t] = rows[t] \/ (t = s /\ rows[s] # NoRow /\ rows'[t] = Touched(rows[s], call[c].op, NextId))
    BY <1>1 DEF Shape, CallStage, NewMessage, innerVars
  <2>2. rows[t] = NoRow => msgs'[t] = msgs[t] /\ used'[t] = used[t]
    BY <1>1 DEF Shape, innerVars, histVars
  <2>3. (Touched(rows[s], call[c].op, NextId)).conf \in Confs \/ rows[s] = NoRow
    <3>1. rows[s] = NoRow \/ rows[s].conf \in Confs
      BY <1>1, NoRowFacts DEF RowStage
    <3> QED
      BY <1>1, <3>1, TouchedRow, UsedRow, SetRow DEF CallStage
  <2>4. rows[s] # NoRow => Touched(rows[s], call[c].op, NextId) # NoRow /\ Full(Touched(rows[s], call[c].op, NextId))
    BY <2>3, NoRowFacts DEF Full
  <2> QED
    BY <2>1, <2>2, <2>4 DEF Stages, RowStage
<1>6. call[c].pc \notin Running /\ call'[c].pc \notin Running
  BY <1>2, CallFacts, IdleFacts DEF Running
<1>7. CallStage(c)'
  BY <1>1, <1>2, <1>4, <1>5, <1>6, CallFacts, IdleFacts, TouchedRow, UsedRow, SetRow, NoRowFacts
  DEF CallStage, Running, Holding, Writes
<1> QED
  BY <1>3, <1>4, <1>5, <1>6, <1>7 DEF Calm

LEMMA AppendInsertCalm ==
  ASSUME Shape, Stages, NEW c \in Callers, AppendInsert(c), NextId \in Ids
  PROVE  Calm(c)
<1> DEFINE s == call[c].sess
<1> USE DEF At, AppendInsert, SessionExists
<1>1. CallStage(c) /\ s \in Sessions /\ RowStage(s) /\ rows[s] \in LooseRow /\ call[c].copy \in LooseRow
  BY CallFacts DEF Stages, CallStage, Shape
<1>2. call'[c] = [call[c] EXCEPT !.pc = "touch", !.copy.title = NextId]
  BY SetFacts DEF Return, Go, NewMessage
<1>3. \A x \in Callers \ {c} : call'[x] = call[x]
  BY SetFacts DEF Return, Go
<1>4. UNCHANGED <<created, pending, once, gone, inner>>
  BY DEF lazyVars, innerVars, histVars
<1>5. ASSUME NEW t \in Sessions
      PROVE  /\ rows'[t] = NoRow <=> rows[t] = NoRow
             /\ Full(rows'[t])
             /\ rows[t] = NoRow => msgs'[t] = msgs[t] /\ used'[t] = used[t]
  <2>1. rows'[t] = rows[t] \/ (t = s /\ rows[s] # NoRow /\ rows'[t] = rows[s])
    BY <1>1 DEF Shape, CallStage, NewMessage, innerVars
  <2>2. rows[t] = NoRow => msgs'[t] = msgs[t] /\ used'[t] = used[t]
    BY <1>1 DEF Shape, innerVars, histVars
  <2>3. (rows[s]).conf \in Confs \/ rows[s] = NoRow
    <3>1. rows[s] = NoRow \/ rows[s].conf \in Confs
      BY <1>1, NoRowFacts DEF RowStage
    <3> QED
      BY <1>1, <3>1, TouchedRow, UsedRow, SetRow DEF CallStage
  <2>4. rows[s] # NoRow => rows[s] # NoRow /\ Full(rows[s])
    BY <2>3, NoRowFacts DEF Full
  <2> QED
    BY <2>1, <2>2, <2>4 DEF Stages, RowStage
<1>6. call[c].pc \notin Running /\ call'[c].pc \notin Running
  BY <1>2, CallFacts, IdleFacts DEF Running
<1>8. call'[c].copy.title \in Ids /\ call'[c].pc = "touch" /\ call'[c].sess = s /\ call'[c].op = call[c].op
      /\ call'[c].once = call[c].once /\ rows[s] # NoRow /\ inner = "sqlite" /\ rows' = rows
      /\ call'[c].copy.tokens = call[c].copy.tokens /\ call'[c].copy.cost = call[c].copy.cost
  BY <1>1, <1>2, CallFacts DEF LooseRow
<1>7. CallStage(c)'
  BY <1>8, <1>1, <1>2, <1>4, <1>5, <1>6, CallFacts, IdleFacts, TouchedRow, UsedRow, SetRow, NoRowFacts
  DEF CallStage, Running, Holding, Writes
<1> QED
  BY <1>3, <1>4, <1>5, <1>6, <1>7 DEF Calm

LEMMA AppendTouchCalm ==
  ASSUME Shape, Stages, NEW c \in Callers, AppendTouch(c)
  PROVE  Calm(c)
<1> DEFINE s == call[c].sess
<1> USE DEF At, AppendTouch
<1>1. CallStage(c) /\ s \in Sessions /\ RowStage(s) /\ rows[s] \in LooseRow /\ call[c].copy \in LooseRow
  BY CallFacts DEF Stages, CallStage, Shape
<1>2. call'[c] = Idle
  BY SetFacts DEF Return, Go
<1>3. \A x \in Callers \ {c} : call'[x] = call[x]
  BY SetFacts DEF Return, Go
<1>4. UNCHANGED <<created, pending, once, gone, inner>>
  BY DEF lazyVars, innerVars, histVars
<1>5. ASSUME NEW t \in Sessions
      PROVE  /\ rows'[t] = NoRow <=> rows[t] = NoRow
             /\ Full(rows'[t])
             /\ rows[t] = NoRow => msgs'[t] = msgs[t] /\ used'[t] = used[t]
  <2>1. rows'[t] = rows[t] \/ (t = s /\ rows[s] # NoRow /\ rows'[t] = Touched(rows[s], call[c].op, call[c].copy.title))
    BY <1>1 DEF Shape, CallStage, NewMessage, innerVars
  <2>2. rows[t] = NoRow => msgs'[t] = msgs[t] /\ used'[t] = used[t]
    BY <1>1 DEF Shape, innerVars, histVars
  <2>3. (Touched(rows[s], call[c].op, call[c].copy.title)).conf \in Confs \/ rows[s] = NoRow
    <3>1. rows[s] = NoRow \/ rows[s].conf \in Confs
      BY <1>1, NoRowFacts DEF RowStage
    <3> QED
      BY <1>1, <3>1, TouchedRow, UsedRow, SetRow DEF CallStage
  <2>4. rows[s] # NoRow => Touched(rows[s], call[c].op, call[c].copy.title) # NoRow /\ Full(Touched(rows[s], call[c].op, call[c].copy.title))
    BY <2>3, NoRowFacts DEF Full
  <2> QED
    BY <2>1, <2>2, <2>4 DEF Stages, RowStage
<1>6. call[c].pc \notin Running /\ call'[c].pc \notin Running
  BY <1>2, CallFacts, IdleFacts DEF Running
<1>7. CallStage(c)'
  BY <1>1, <1>2, <1>4, <1>5, <1>6, CallFacts, IdleFacts, TouchedRow, UsedRow, SetRow, NoRowFacts
  DEF CallStage, Running, Holding, Writes
<1> QED
  BY <1>3, <1>4, <1>5, <1>6, <1>7 DEF Calm

LEMMA UpdateRefusedCalm ==
  ASSUME Shape, Stages, NEW c \in Callers, UpdateRefused(c)
  PROVE  Calm(c)
<1> DEFINE s == call[c].sess
<1> USE DEF At, UpdateRefused, SessionExists
<1>1. CallStage(c) /\ s \in Sessions /\ RowStage(s) /\ rows[s] \in LooseRow /\ call[c].copy \in LooseRow
  BY CallFacts DEF Stages, CallStage, Shape
<1>2. call'[c] = Idle
  BY SetFacts DEF Return, Go
<1>3. \A x \in Callers \ {c} : call'[x] = call[x]
  BY SetFacts DEF Return, Go
<1>4. UNCHANGED <<created, pending, once, gone, inner>>
  BY DEF lazyVars, innerVars, histVars
<1>5. ASSUME NEW t \in Sessions
      PROVE  /\ rows'[t] = NoRow <=> rows[t] = NoRow
             /\ Full(rows'[t])
             /\ rows[t] = NoRow => msgs'[t] = msgs[t] /\ used'[t] = used[t]
  BY DEF innerVars, histVars, Stages, RowStage
<1>6. call[c].pc \notin Running /\ call'[c].pc \notin Running
  BY <1>2, CallFacts, IdleFacts DEF Running
<1>7. CallStage(c)'
  BY <1>1, <1>2, <1>4, <1>5, <1>6, CallFacts, IdleFacts, TouchedRow, UsedRow, SetRow, NoRowFacts
  DEF CallStage, Running, Holding, Writes
<1> QED
  BY <1>3, <1>4, <1>5, <1>6, <1>7 DEF Calm

LEMMA MemoryUpdateCalm ==
  ASSUME Shape, Stages, NEW c \in Callers, MemoryUpdate(c)
  PROVE  Calm(c)
<1> DEFINE s == call[c].sess
<1> USE DEF At, MemoryUpdate, SessionExists, Updated
<1>1. CallStage(c) /\ s \in Sessions /\ RowStage(s) /\ rows[s] \in LooseRow /\ call[c].copy \in LooseRow
  BY CallFacts DEF Stages, CallStage, Shape
<1>2. call'[c] = Idle
  BY SetFacts DEF Return, Go
<1>3. \A x \in Callers \ {c} : call'[x] = call[x]
  BY SetFacts DEF Return, Go
<1>4. UNCHANGED <<created, pending, once, gone, inner>>
  BY DEF lazyVars, innerVars, histVars
<1>5. ASSUME NEW t \in Sessions
      PROVE  /\ rows'[t] = NoRow <=> rows[t] = NoRow
             /\ Full(rows'[t])
             /\ rows[t] = NoRow => msgs'[t] = msgs[t] /\ used'[t] = used[t]
  <2>1. rows'[t] = rows[t] \/ (t = s /\ rows[s] # NoRow /\ rows'[t] = [rows[s] EXCEPT !.conf = call[c].copy.conf])
    BY <1>1 DEF Shape, CallStage, NewMessage, innerVars
  <2>2. rows[t] = NoRow => msgs'[t] = msgs[t] /\ used'[t] = used[t]
    BY <1>1 DEF Shape, innerVars, histVars
  <2>3. ([rows[s] EXCEPT !.conf = call[c].copy.conf]).conf \in Confs \/ rows[s] = NoRow
    <3>1. rows[s] = NoRow \/ rows[s].conf \in Confs
      BY <1>1, NoRowFacts DEF RowStage
    <3> QED
      BY <1>1, <3>1, TouchedRow, UsedRow, SetRow DEF CallStage, LooseRow
  <2>4. rows[s] # NoRow => [rows[s] EXCEPT !.conf = call[c].copy.conf] # NoRow /\ Full([rows[s] EXCEPT !.conf = call[c].copy.conf])
    BY <2>3, NoRowFacts DEF Full
  <2> QED
    BY <2>1, <2>2, <2>4 DEF Stages, RowStage
<1>6. call[c].pc \notin Running /\ call'[c].pc \notin Running
  BY <1>2, CallFacts, IdleFacts DEF Running
<1>7. CallStage(c)'
  BY <1>1, <1>2, <1>4, <1>5, <1>6, CallFacts, IdleFacts, TouchedRow, UsedRow, SetRow, NoRowFacts
  DEF CallStage, Running, Holding, Writes
<1> QED
  BY <1>3, <1>4, <1>5, <1>6, <1>7 DEF Calm

LEMMA UpdateReadCalm ==
  ASSUME Shape, Stages, NEW c \in Callers, UpdateRead(c)
  PROVE  Calm(c)
<1> DEFINE s == call[c].sess
<1> USE DEF At, UpdateRead, UnlockedUpdate, SessionExists
<1>1. CallStage(c) /\ s \in Sessions /\ RowStage(s) /\ rows[s] \in LooseRow /\ call[c].copy \in LooseRow
  BY CallFacts DEF Stages, CallStage, Shape
<1>2. call'[c] = [call[c] EXCEPT !.pc = "save", !.copy = Updated(c)]
  BY SetFacts DEF Return, Go
<1>3. \A x \in Callers \ {c} : call'[x] = call[x]
  BY SetFacts DEF Return, Go
<1>4. UNCHANGED <<created, pending, once, gone, inner>>
  BY DEF lazyVars, innerVars, histVars
<1>5. ASSUME NEW t \in Sessions
      PROVE  /\ rows'[t] = NoRow <=> rows[t] = NoRow
             /\ Full(rows'[t])
             /\ rows[t] = NoRow => msgs'[t] = msgs[t] /\ used'[t] = used[t]
  BY DEF innerVars, histVars, Stages, RowStage
<1>6. call[c].pc \notin Running /\ call'[c].pc \notin Running
  BY <1>2, CallFacts, IdleFacts DEF Running
<1>8. call'[c].copy.conf \in Confs /\ call'[c].pc = "save" /\ call'[c].sess = s /\ call'[c].op = "update"
      /\ call'[c].once = call[c].once /\ rows[s] # NoRow /\ inner = "sqlite" /\ rows' = rows
  BY <1>1, <1>2, CallFacts, TouchedRow, UsedRow, SetRow DEF CallStage, Updated, innerVars, LooseRow
<1>7. CallStage(c)'
  BY <1>8, <1>1, <1>2, <1>4, <1>5, <1>6, CallFacts, IdleFacts, TouchedRow, UsedRow, SetRow, NoRowFacts
  DEF CallStage, Running, Holding, Writes, Updated, RowStage, LooseRow
<1> QED
  BY <1>3, <1>4, <1>5, <1>6, <1>7 DEF Calm

LEMMA UpdateSaveCalm ==
  ASSUME Shape, Stages, NEW c \in Callers, UpdateSave(c)
  PROVE  Calm(c)
<1> DEFINE s == call[c].sess
<1> USE DEF At, UpdateSave
<1>1. CallStage(c) /\ s \in Sessions /\ RowStage(s) /\ rows[s] \in LooseRow /\ call[c].copy \in LooseRow
  BY CallFacts DEF Stages, CallStage, Shape
<1>2. call'[c] = Idle
  BY SetFacts DEF Return, Go
<1>3. \A x \in Callers \ {c} : call'[x] = call[x]
  BY SetFacts DEF Return, Go
<1>4. UNCHANGED <<created, pending, once, gone, inner>>
  BY DEF lazyVars, innerVars, histVars
<1>5. ASSUME NEW t \in Sessions
      PROVE  /\ rows'[t] = NoRow <=> rows[t] = NoRow
             /\ Full(rows'[t])
             /\ rows[t] = NoRow => msgs'[t] = msgs[t] /\ used'[t] = used[t]
  <2>1. rows'[t] = rows[t] \/ (t = s /\ rows[s] # NoRow /\ rows'[t] = call[c].copy)
    BY <1>1 DEF Shape, CallStage, NewMessage, innerVars
  <2>2. rows[t] = NoRow => msgs'[t] = msgs[t] /\ used'[t] = used[t]
    BY <1>1 DEF Shape, innerVars, histVars
  <2>3. (call[c].copy).conf \in Confs \/ rows[s] = NoRow
    <3>1. rows[s] = NoRow \/ rows[s].conf \in Confs
      BY <1>1, NoRowFacts DEF RowStage
    <3> QED
      BY <1>1, <3>1, TouchedRow, UsedRow, SetRow DEF CallStage
  <2>4. rows[s] # NoRow => call[c].copy # NoRow /\ Full(call[c].copy)
    BY <2>3, NoRowFacts DEF Full
  <2> QED
    BY <2>1, <2>2, <2>4 DEF Stages, RowStage
<1>6. call[c].pc \notin Running /\ call'[c].pc \notin Running
  BY <1>2, CallFacts, IdleFacts DEF Running
<1>7. CallStage(c)'
  BY <1>1, <1>2, <1>4, <1>5, <1>6, CallFacts, IdleFacts, TouchedRow, UsedRow, SetRow, NoRowFacts
  DEF CallStage, Running, Holding, Writes
<1> QED
  BY <1>3, <1>4, <1>5, <1>6, <1>7 DEF Calm

\* There is always a Once that nobody refers to when a caller with none asks for that of a
\* session with none.
LEMMA FreeOnceExists ==
  ASSUME Shape, NEW c \in Callers, call[c].once = NoOnce,
         NEW s \in Sessions, materializing[s] = NoOnce
  PROVE  FreeOnce \in Onces /\ ~Referenced(FreeOnce)
<1> DEFINE S == Sessions \ {s}
           C == Callers \ {c}
           A == {materializing[t] : t \in S}
           B == {call[d].once : d \in C}
<1>1. /\ IsFiniteSet(S) /\ Cardinality(S) = Cardinality(Sessions) - 1
      /\ IsFiniteSet(C) /\ Cardinality(C) = Cardinality(Callers) - 1
      /\ Cardinality(Sessions) \in Nat /\ Cardinality(Callers) \in Nat
      /\ Cardinality(S) \in Nat /\ Cardinality(C) \in Nat
  BY FS_RemoveElement, FS_CardinalityType, StoreAssumption
<1>2. IsFiniteSet(A) /\ Cardinality(A) <= Cardinality(S) /\ Cardinality(A) \in Nat
  <2>1. [t \in S |-> materializing[t]] \in Surjection(S, A)
    BY DEF Surjection
  <2> QED
    BY <1>1, <2>1, FS_Surjection, FS_CardinalityType
<1>3. IsFiniteSet(B) /\ Cardinality(B) <= Cardinality(C) /\ Cardinality(B) \in Nat
  <2>1. [d \in C |-> call[d].once] \in Surjection(C, B)
    BY DEF Surjection
  <2> QED
    BY <1>1, <2>1, FS_Surjection, FS_CardinalityType
<1>4. /\ IsFiniteSet(A \cup B) /\ Cardinality(A \cup B) \in Nat
      /\ Cardinality(A \cup B) <= Cardinality(A) + Cardinality(B)
  <2>1. IsFiniteSet(A \cup B) /\ IsFiniteSet(A \cap B)
        /\ Cardinality(A \cup B) = Cardinality(A) + Cardinality(B) - Cardinality(A \cap B)
    BY <1>2, <1>3, FS_Union, FS_Intersection
  <2>2. Cardinality(A \cap B) \in Nat /\ Cardinality(A \cup B) \in Nat
    BY <2>1, FS_CardinalityType
  <2> QED
    BY <1>2, <1>3, <2>1, <2>2
<1>5. Cardinality(Onces) = Cardinality(Callers) + Cardinality(Sessions)
  BY <1>1, FS_Interval DEF Onces
<1>6. \E o \in Onces : ~Referenced(o)
  <2> SUFFICES ASSUME \A o \in Onces : Referenced(o) PROVE FALSE
    OBVIOUS
  <2>1. NoOnce \notin Onces
    BY DEF NoOnce, Onces
  <2>2. Onces \in SUBSET (A \cup B)
    BY <2>1 DEF Referenced
  <2>3. Cardinality(Onces) <= Cardinality(A \cup B)
    BY <1>4, <2>2, FS_Subset
  <2> QED
    BY <1>1, <1>2, <1>3, <1>4, <1>5, <2>3
<1> QED
  BY <1>6 DEF FreeOnce

LEMMA CreateSessionKeeps ==
  ASSUME Shape, Stages, NEW s \in Sessions, CreateSession(s)
  PROVE  Stages'
<1> USE DEF CreateSession, innerVars, histVars
<1>1. /\ NewRow # NoRow /\ Full(NewRow) /\ Blank(NewRow)
      /\ RowStage(s) /\ Apart(s) /\ s \notin created /\ s \notin gone
      /\ pending' = [pending EXCEPT ![s] = NewRow] /\ created' = created \cup {s}
      /\ UNCHANGED <<materializing, once, inner, rows, msgs, call, gone, used>>
  BY StoreAssumption DEF NewRow, NoRow, Full, Blank, Stages, Shape
<1>2. Holders(s) = {} /\ \A t \in Sessions : Holders(t)' = Holders(t)
  BY <1>1 DEF Holders, Stages, CallStage
<1>3. ASSUME NEW x \in Callers PROVE CallStage(x)'
  BY <1>1 DEF Stages, CallStage
<1>4. ASSUME NEW t \in Sessions PROVE RowStage(t)' /\ Apart(t)'
  BY <1>1, <1>2 DEF Stages, RowStage, Apart, Shape
<1>5. SessionKept'
  <2>1. Known' = Known \cup {s}
    BY <1>1, <1>2 DEF Known, Shape
  <2> QED
    BY <1>1, <2>1 DEF Stages, SessionKept
<1>6. Served'
  BY <1>1 DEF Stages, Served
<1> QED
  BY <1>3, <1>4, <1>5, <1>6 DEF Stages

LEMMA DropKeeps ==
  ASSUME Shape, Stages, NEW s \in Sessions, dropPending(s)
  PROVE  Stages'
<1> USE DEF dropPending, innerVars, histVars
<1>1. /\ RowStage(s) /\ Apart(s) /\ s \in created /\ pending' = [pending EXCEPT ![s] = NoRow]
      /\ gone' = IF pending[s] # NoRow THEN gone \cup {s} ELSE gone
      /\ UNCHANGED <<created, once, inner, rows, msgs, call, used>>
  BY DEF Stages, Shape
<1>2. \A t \in Sessions : Holders(t)' = Holders(t)
  BY <1>1 DEF Holders
<1>3. ASSUME NEW x \in Callers PROVE CallStage(x)'
  BY <1>1 DEF Stages, CallStage
<1>4. ASSUME NEW t \in Sessions PROVE RowStage(t)' /\ Apart(t)'
  BY <1>1, <1>2, NoRowFacts DEF Stages, RowStage, Apart, Shape
<1>5. SessionKept'
  <2>1. CASE pending[s] = NoRow
    <3>1. Known' = Known
      BY <1>1, <1>2, <2>1 DEF Known, Shape
    <3> QED
      BY <1>1, <2>1, <3>1 DEF Stages, SessionKept
  <2>2. CASE pending[s] # NoRow
    <3>1. Known' = Known \ {s}
      BY <1>1, <1>2, <2>2 DEF Known, Shape, Apart
    <3> QED
      BY <1>1, <2>2, <3>1 DEF Stages, SessionKept
  <2> QED
    BY <2>1, <2>2
<1>6. Served'
  BY <1>1 DEF Stages, Served
<1> QED
  BY <1>3, <1>4, <1>5, <1>6 DEF Stages

LEMMA CrashKeeps ==
  ASSUME Shape, Stages, Crash
  PROVE  Stages'
<1> USE DEF Crash, innerVars
<1>1. ASSUME NEW x \in Callers PROVE CallStage(x)'
  BY IdleFacts, NoRowFacts DEF CallStage, Running, Holding
<1>2. \A t \in Sessions : Holders(t)' = {}
  BY IdleFacts DEF Holders
<1>3. ASSUME NEW t \in Sessions PROVE RowStage(t)' /\ Apart(t)'
  BY <1>2, NoRowFacts DEF Stages, RowStage, Apart
<1>4. SessionKept'
  BY <1>2 DEF Stages, SessionKept, Known, Shape
<1>5. Served'
  BY DEF Served
<1> QED
  BY <1>1, <1>3, <1>4, <1>5 DEF Stages


LEMMA LookupKeeps ==
  ASSUME Shape, Stages, NEW c \in Callers, NEW op \in Writes, NEW s \in Sessions,
         MaterializeLookup(c, op, s)
  PROVE  Stages'
<1> DEFINE o == IF materializing[s] # NoOnce THEN materializing[s] ELSE FreeOnce
<1> USE DEF MaterializeLookup, innerVars, histVars
<1>10. call[c] = Idle
  BY DEF Stages, CallStage, At
<1>11. \A x \in Callers \ {c} : call'[x] = call[x]
  BY SetFacts
<1>1. /\ call[c] = Idle /\ call[c].once = NoOnce /\ s \in created
      /\ UNCHANGED <<created, pending, inner, rows, msgs, gone, used>>
      /\ \A x \in Callers \ {c} : call'[x] = call[x]
  BY <1>10, <1>11, IdleFacts
<1>2. pending[s] # NoRow => o \in Onces /\ (materializing[s] = NoOnce => ~Referenced(o))
  BY <1>1, FreeOnceExists DEF Shape
<1>3. /\ call'[c].op = op /\ call'[c].sess = s /\ call'[c].copy = NoRow
      /\ \/ pending[s] = NoRow /\ call'[c].pc = "write" /\ call'[c].once = NoOnce /\ once' = once
         \/ /\ pending[s] # NoRow /\ call'[c].pc = "once" /\ call'[c].once = o
            /\ once' = IF materializing[s] = o THEN once ELSE [once EXCEPT ![o] = "fresh"]
  <2>1. CASE pending[s] = NoRow
    <3>1. call'[c] = [[Idle EXCEPT !.op = op, !.sess = s] EXCEPT !.pc = "write"] /\ once' = once
      BY <2>1, SetFacts
    <3> QED
      BY <2>1, <3>1 DEF Idle
  <2>2. CASE pending[s] # NoRow
    <3>1. /\ call'[c] = [[Idle EXCEPT !.op = op, !.sess = s] EXCEPT !.pc = "once", !.once = o]
          /\ once' = IF materializing[s] = o THEN once ELSE [once EXCEPT ![o] = "fresh"]
      BY <2>2, SetFacts
    <3> HIDE DEF o
    <3> QED
      BY <2>2, <3>1 DEF Idle
  <2> QED
    BY <2>1, <2>2
<1> HIDE DEF o
<1>4. NoOnce \notin Onces
  BY DEF NoOnce, Onces
<1>5. \A t \in Sessions : Holders(t)' = Holders(t)
  BY <1>1, <1>3, IdleFacts DEF Holders
<1>6. ASSUME NEW x \in Callers PROVE CallStage(x)'
  <2>1. CASE x = c
    BY <1>1, <1>2, <1>3, <1>4, <2>1, NoRowFacts DEF CallStage, Running, Holding
  <2>2. CASE x # c
    BY <1>1, <2>2 DEF Stages, CallStage
  <2> QED
    BY <2>1, <2>2
<1>7. ASSUME NEW t \in Sessions PROVE RowStage(t)' /\ Apart(t)'
  BY <1>1, <1>5 DEF Stages, RowStage, Apart
<1>8. SessionKept'
  BY <1>1, <1>5 DEF Stages, SessionKept, Known, Shape
<1>9. Served'
  <2> SUFFICES ASSUME NEW p \in Onces, once'[p] = "running"
               PROVE  \E d \in Callers : call'[d].once = p /\ call'[d].pc \in Running
    BY DEF Served
  <2>1. once[p] = "running"
    BY <1>2, <1>3 DEF Shape
  <2>2. PICK d \in Callers : call[d].once = p /\ call[d].pc \in Running
    BY <2>1 DEF Stages, Served
  <2>3. d # c
    BY <1>1, <2>2, IdleFacts DEF Running
  <2> QED
    BY <1>1, <2>2, <2>3
<1> QED
  BY <1>6, <1>7, <1>8, <1>9 DEF Stages

LEMMA OnceDoKeeps ==
  ASSUME Shape, Stages, NEW c \in Callers, OnceDo(c)
  PROVE  Stages'
<1> USE DEF OnceDo, innerVars, histVars
<1>10. call[c].pc = "once" /\ CallStage(c)
  BY DEF Stages, At
<1>11. call[c].once \in Onces
  BY <1>10, CallFacts DEF CallStage
<1>12. call'[c] = [call[c] EXCEPT !.pc = "take"] /\ \A x \in Callers \ {c} : call'[x] = call[x]
  BY SetFacts DEF Go
<1>1. /\ call[c].pc = "once" /\ CallStage(c) /\ call[c].once \in Onces
      /\ UNCHANGED <<created, pending, inner, rows, msgs, gone, used>>
      /\ once' = [once EXCEPT ![call[c].once] = "running"]
      /\ \A x \in Callers \ {c} : call'[x] = call[x]
  BY <1>10, <1>11, <1>12
<1>2. /\ call'[c].op = call[c].op /\ call'[c].sess = call[c].sess /\ call'[c].copy = call[c].copy
      /\ call'[c].once = call[c].once /\ call'[c].pc = "take"
  BY <1>12, CallFacts
<1>3. \A t \in Sessions : Holders(t)' = Holders(t)
  BY <1>1, <1>2 DEF Holders
<1>4. ASSUME NEW x \in Callers PROVE CallStage(x)'
  <2>1. CASE x = c
    BY <1>1, <1>2, <2>1 DEF CallStage, Running, Holding
  <2>2. CASE x # c
    BY <1>1, <2>2 DEF Stages, CallStage
  <2> QED
    BY <2>1, <2>2
<1>5. ASSUME NEW t \in Sessions PROVE RowStage(t)' /\ Apart(t)'
  BY <1>1, <1>3 DEF Stages, RowStage, Apart
<1>6. SessionKept'
  BY <1>1, <1>3 DEF Stages, SessionKept, Known, Shape
<1>7. Served'
  <2> SUFFICES ASSUME NEW p \in Onces, once'[p] = "running"
               PROVE  \E d \in Callers : call'[d].once = p /\ call'[d].pc \in Running
    BY DEF Served
  <2>1. CASE p = call[c].once
    BY <1>2, <2>1 DEF Running
  <2>2. CASE p # call[c].once
    <3>1. PICK d \in Callers : call[d].once = p /\ call[d].pc \in Running
      BY <1>1, <2>2 DEF Stages, Served, Shape
    <3> QED
      BY <1>1, <2>2, <3>1
  <2> QED
    BY <2>1, <2>2
<1> QED
  BY <1>4, <1>5, <1>6, <1>7 DEF Stages

\* The caller that runs a Once goes on with it, or ends it with a result.
LEMMA RunnerServes ==
  ASSUME Shape, Stages, NEW c \in Callers, call[c].pc \in Running,
         \A x \in Callers \ {c} : call'[x] = call[x],
         \/ once' = once /\ call'[c].once = call[c].once /\ call'[c].pc \in Running
         \/ \E r \in Returned : once' = [once EXCEPT ![call[c].once] = r]
  PROVE  Served'
<1> SUFFICES ASSUME NEW p \in Onces, once'[p] = "running"
             PROVE  \E d \in Callers : call'[d].once = p /\ call'[d].pc \in Running
  BY DEF Served
<1>1. once[p] = "running" /\ (call[c].once = p => once' = once)
  BY DEF Shape, Returned
<1>2. PICK d \in Callers : call[d].once = p /\ call[d].pc \in Running
  BY <1>1 DEF Stages, Served
<1>3. CASE d = c
  BY <1>1, <1>2, <1>3 DEF Shape, Returned
<1>4. CASE d # c
  BY <1>2, <1>4
<1> QED
  BY <1>3, <1>4

LEMMA TakeKeeps ==
  ASSUME Shape, Stages, NEW c \in Callers, MaterializeTake(c)
  PROVE  Stages'
<1> USE DEF MaterializeTake, innerVars, histVars
<1>10. call[c].pc = "take" /\ CallStage(c) /\ call[c].sess \in created /\ call[c].sess \in Sessions
  BY DEF Stages, CallStage, Shape, At
<1> SUFFICES ASSUME NEW s \in Sessions, s = call[c].sess
             PROVE  Stages'
  BY <1>10
<1>11. s \in created /\ RowStage(s) /\ Apart(s)
  BY <1>10 DEF Stages
<1>12. \A x \in Callers \ {c} : call'[x] = call[x]
  BY SetFacts DEF Go, Return
<1>1. /\ call[c].pc = "take" /\ CallStage(c) /\ s \in Sessions /\ s \in created /\ RowStage(s) /\ Apart(s)
      /\ UNCHANGED <<created, inner, rows, msgs, gone, used>>
      /\ \A x \in Callers \ {c} : call'[x] = call[x]
  BY <1>10, <1>11, <1>12
<1>2. CASE pending[s] = NoRow
  <2>1. /\ pending' = pending /\ once' = [once EXCEPT ![call[c].once] = "ok"]
        /\ call'[c].op = call[c].op /\ call'[c].sess = s /\ call'[c].copy = call[c].copy
        /\ call'[c].once = NoOnce /\ call'[c].pc = "write"
    <3>1. call'[c] = [call[c] EXCEPT !.pc = "write", !.once = NoOnce]
      BY <1>2, SetFacts
    <3> QED
      BY <1>2, <3>1, CallFacts
  <2>2. \A t \in Sessions : Holders(t)' = Holders(t)
    BY <1>1, <2>1 DEF Holders
  <2>3. ASSUME NEW x \in Callers PROVE CallStage(x)'
    BY <1>1, <2>1 DEF Stages, CallStage, Running, Holding
  <2>4. ASSUME NEW t \in Sessions PROVE RowStage(t)' /\ Apart(t)'
    BY <1>1, <2>1, <2>2 DEF Stages, RowStage, Apart
  <2>5. SessionKept'
    BY <1>1, <2>1, <2>2 DEF Stages, SessionKept, Known, Shape
  <2>6. Served'
    BY <1>1, <2>1, RunnerServes DEF Running, Returned
  <2> QED
    BY <2>3, <2>4, <2>5, <2>6 DEF Stages
<1>3. CASE pending[s] # NoRow
  <2>1. /\ pending' = [pending EXCEPT ![s] = NoRow] /\ once' = once
        /\ call'[c].op = call[c].op /\ call'[c].sess = s /\ call'[c].copy = pending[s]
        /\ call'[c].once = call[c].once /\ call'[c].pc = "create"
    <3>1. call'[c] = [call[c] EXCEPT !.pc = "create", !.copy = pending[s]]
      BY <1>3, SetFacts
    <3> QED
      BY <1>3, <3>1, CallFacts DEF Taken
  <2>2. Holders(s) = {} /\ Holders(s)' = {c} /\ \A t \in Sessions \ {s} : Holders(t)' = Holders(t)
    BY <1>1, <1>3, <2>1 DEF Holders, Apart
  <2>3. ASSUME NEW x \in Callers PROVE CallStage(x)'
    <3>1. pending[s].conf \in Confs /\ Blank(pending[s])
      BY <1>1, <1>3, NoRowFacts DEF RowStage
    <3> QED
      BY <1>1, <2>1, <3>1 DEF Stages, CallStage, Running, Holding, Blank
  <2>4. ASSUME NEW t \in Sessions PROVE RowStage(t)' /\ Apart(t)'
    BY <1>1, <1>3, <2>1, <2>2, NoRowFacts DEF Stages, RowStage, Apart, Shape
  <2>5. SessionKept'
    <3>1. Known' = Known
      BY <1>1, <1>3, <2>1, <2>2 DEF Known, Shape
    <3> QED
      BY <1>1, <3>1 DEF Stages, SessionKept
  <2>6. Served'
    BY <1>1, <2>1, RunnerServes DEF Running
  <2> QED
    BY <2>3, <2>4, <2>5, <2>6 DEF Stages
<1> QED
  BY <1>2, <1>3

LEMMA CreateKeeps ==
  ASSUME Shape, Stages, NEW c \in Callers, MaterializeCreate(c)
  PROVE  Stages'
<1> USE DEF MaterializeCreate, innerVars, histVars
<1>10. call[c].pc = "create" /\ CallStage(c) /\ call[c].sess \in created /\ call[c].sess \in Sessions
  BY DEF Stages, CallStage, Shape, At
<1> SUFFICES ASSUME NEW s \in Sessions, s = call[c].sess
             PROVE  Stages'
  BY <1>10
<1>11. s \in created /\ RowStage(s) /\ Apart(s)
  BY <1>10 DEF Stages
<1>12. \A x \in Callers \ {c} : call'[x] = call[x]
  BY SetFacts DEF Go, Return
<1>13. c \in Holders(s) /\ pending[s] = NoRow /\ rows[s] = NoRow
  BY <1>10, <1>11 DEF Holders, Apart
<1>1. /\ call[c].pc = "create" /\ CallStage(c) /\ s \in Sessions /\ s \in created /\ RowStage(s) /\ Apart(s)
      /\ UNCHANGED <<created, pending, inner, msgs, gone, used>>
      /\ \A x \in Callers \ {c} : call'[x] = call[x]
      /\ c \in Holders(s) /\ pending[s] = NoRow /\ rows[s] = NoRow
  BY <1>10, <1>11, <1>12, <1>13
<1>2. CASE rows' = [rows EXCEPT ![s] = call[c].copy] /\ once' = [once EXCEPT ![call[c].once] = "ok"]
           /\ Set(c, [call[c] EXCEPT !.pc = "write", !.once = NoOnce, !.copy = NoRow])
  <2>1. /\ call'[c].op = call[c].op /\ call'[c].sess = s /\ call'[c].copy = NoRow
        /\ call'[c].once = NoOnce /\ call'[c].pc = "write"
    <3>1. call'[c] = [call[c] EXCEPT !.pc = "write", !.once = NoOnce, !.copy = NoRow]
      BY <1>2, SetFacts
    <3> QED
      BY <3>1, CallFacts
  <2>2. Holders(s) = {c} /\ Holders(s)' = {} /\ \A t \in Sessions \ {s} : Holders(t)' = Holders(t)
    BY <1>1, <2>1 DEF Holders, Apart
  <2>3. call[c].copy # NoRow /\ Full(call[c].copy) /\ \A t \in Sessions : rows[t] # NoRow => rows'[t] # NoRow
    BY <1>1, <1>2, NoRowFacts DEF CallStage, Holding, Full, Shape
  <2>4. ASSUME NEW x \in Callers PROVE CallStage(x)'
    <3>1. CASE x = c
      BY <1>1, <2>1, <3>1, NoRowFacts DEF CallStage, Running, Holding
    <3>2. CASE x # c
      BY <1>1, <2>3, <3>2 DEF Stages, CallStage, Shape
    <3> QED
      BY <3>1, <3>2
  <2>5. ASSUME NEW t \in Sessions PROVE RowStage(t)' /\ Apart(t)'
    <3>1. CASE t = s
      <4>1. rows'[s] = call[c].copy
        BY <1>1, <1>2 DEF Shape
      <4> QED
        BY <1>1, <2>2, <2>3, <3>1, <4>1 DEF RowStage, Apart
    <3>2. CASE t # s
      <4>1. rows'[t] = rows[t] /\ Holders(t)' = Holders(t) /\ RowStage(t) /\ Apart(t)
        BY <1>1, <1>2, <2>2, <3>2 DEF Stages, Shape
      <4> QED
        BY <1>1, <4>1 DEF RowStage, Apart
    <3> QED
      BY <3>1, <3>2
  <2>6. SessionKept'
    <3>1. Known' = Known
      BY <1>1, <1>2, <2>2, <2>3 DEF Known, Shape
    <3> QED
      BY <1>1, <3>1 DEF Stages, SessionKept
  <2>7. Served'
    BY <1>1, <1>2, RunnerServes DEF Running, Returned
  <2> QED
    BY <2>4, <2>5, <2>6, <2>7 DEF Stages
<1>3. CASE Go(c, "restore") /\ UNCHANGED <<rows, once>>
  <2>1. /\ call'[c].op = call[c].op /\ call'[c].sess = s /\ call'[c].copy = call[c].copy
        /\ call'[c].once = call[c].once /\ call'[c].pc = "restore"
    <3>1. call'[c] = [call[c] EXCEPT !.pc = "restore"]
      BY <1>3, SetFacts DEF Go
    <3> QED
      BY <3>1, CallFacts
  <2>2. \A t \in Sessions : Holders(t)' = Holders(t)
    BY <1>1, <2>1 DEF Holders
  <2>3. ASSUME NEW x \in Callers PROVE CallStage(x)'
    <3>1. CASE x = c
      BY <1>1, <2>1, <3>1, NoRowFacts DEF CallStage, Running, Holding
    <3>2. CASE x # c
      BY <1>1, <1>3, <3>2 DEF Stages, CallStage
    <3> QED
      BY <3>1, <3>2
  <2>4. ASSUME NEW t \in Sessions PROVE RowStage(t)' /\ Apart(t)'
    BY <1>1, <1>3, <2>2 DEF Stages, RowStage, Apart
  <2>5. SessionKept'
    BY <1>1, <1>3, <2>2 DEF Stages, SessionKept, Known, Shape
  <2>6. Served'
    BY <1>1, <1>3, <2>1, RunnerServes DEF Running
  <2> QED
    BY <2>3, <2>4, <2>5, <2>6 DEF Stages
<1> QED
  BY <1>2, <1>3

LEMMA RestoreKeeps ==
  ASSUME Shape, Stages, NEW c \in Callers, MaterializeRestore(c)
  PROVE  Stages'
<1> USE DEF MaterializeRestore, innerVars, histVars
<1>10. call[c].pc = "restore" /\ CallStage(c) /\ call[c].sess \in created /\ call[c].sess \in Sessions
  BY DEF Stages, CallStage, Shape, At
<1> SUFFICES ASSUME NEW s \in Sessions, s = call[c].sess
             PROVE  Stages'
  BY <1>10
<1>11. s \in created /\ RowStage(s) /\ Apart(s)
  BY <1>10 DEF Stages
<1>12. \A x \in Callers \ {c} : call'[x] = call[x]
  BY SetFacts DEF Go, Return
<1>13. c \in Holders(s) /\ pending[s] = NoRow /\ rows[s] = NoRow
  BY <1>10, <1>11 DEF Holders, Apart
<1>14. call'[c] = Idle
  BY SetFacts DEF Return
<1>1. /\ call[c].pc = "restore" /\ CallStage(c) /\ s \in Sessions /\ s \in created /\ RowStage(s) /\ Apart(s)
      /\ UNCHANGED <<created, inner, rows, msgs, gone, used>>
      /\ \A x \in Callers \ {c} : call'[x] = call[x]
      /\ c \in Holders(s) /\ pending[s] = NoRow /\ rows[s] = NoRow
      /\ pending' = [pending EXCEPT ![s] = call[c].copy] /\ call'[c] = Idle
      /\ once' = [once EXCEPT ![call[c].once] = "failed"]
  BY <1>10, <1>11, <1>12, <1>13, <1>14 DEF Restored
<1>2. Holders(s) = {c} /\ Holders(s)' = {} /\ \A t \in Sessions \ {s} : Holders(t)' = Holders(t)
  <2>1. Holders(s) = {c}
    BY <1>1 DEF Apart
  <2>2. c \notin Holders(s)' /\ \A t \in Sessions \ {s} : c \notin Holders(t) /\ c \notin Holders(t)'
    BY <1>1, IdleFacts DEF Holders
  <2>3. \A x \in Callers \ {c}, t \in Sessions : x \in Holders(t)' <=> x \in Holders(t)
    BY <1>1 DEF Holders
  <2>4. \A t \in Sessions : Holders(t) \subseteq Callers /\ Holders(t)' \subseteq Callers
    BY DEF Holders
  <2> QED
    BY <2>1, <2>2, <2>3, <2>4
<1>3. call[c].copy # NoRow /\ Full(call[c].copy) /\ Blank(call[c].copy)
  BY <1>1, NoRowFacts DEF CallStage, Holding, Full
<1>4. ASSUME NEW x \in Callers PROVE CallStage(x)'
  <2>1. CASE x = c
    BY <1>1, <2>1, IdleFacts, NoRowFacts DEF CallStage, Running, Holding
  <2>2. CASE x # c
    BY <1>1, <2>2 DEF Stages, CallStage
  <2> QED
    BY <2>1, <2>2
<1>5. ASSUME NEW t \in Sessions PROVE RowStage(t)' /\ Apart(t)'
  <2>1. CASE t = s
    <3>1. pending'[s] = call[c].copy
      BY <1>1 DEF Shape
    <3> QED
      BY <1>1, <1>2, <1>3, <2>1, <3>1 DEF RowStage, Apart
  <2>2. CASE t # s
    <3>1. pending'[t] = pending[t] /\ Holders(t)' = Holders(t) /\ RowStage(t) /\ Apart(t)
      BY <1>1, <1>2, <2>2 DEF Stages, Shape
    <3> QED
      BY <1>1, <3>1 DEF RowStage, Apart
  <2> QED
    BY <2>1, <2>2
<1>6. SessionKept'
  <2>1. Known' = Known
    BY <1>1, <1>2, <1>3 DEF Known, Shape
  <2> QED
    BY <1>1, <2>1 DEF Stages, SessionKept
<1>7. Served'
  BY <1>1, RunnerServes DEF Running, Returned
<1> QED
  BY <1>4, <1>5, <1>6, <1>7 DEF Stages

LEMMA UpdateLookupKeeps ==
  ASSUME Shape, Stages, NEW c \in Callers, NEW s \in Sessions, NEW v \in Confs, UpdateLookup(c, s, v)
  PROVE  Stages'
<1> USE DEF UpdateLookup, lazyVars, innerVars, histVars
<1>1. /\ call[c] = Idle /\ s \in created /\ RowStage(s) /\ Apart(s) /\ pending[s] \in LooseRow
      /\ UNCHANGED <<created, once, inner, rows, msgs, gone, used>>
  BY DEF Stages, CallStage, At, Shape
<1>2. CASE pending[s] # NoRow
  <2>1. call' = call /\ pending' = [pending EXCEPT ![s] = [pending[s] EXCEPT !.conf = v]]
    BY <1>2
  <2>2. [pending[s] EXCEPT !.conf = v].conf = v /\ Blank([pending[s] EXCEPT !.conf = v])
    BY <1>1, SetRow DEF RowStage, Blank
  <2>3. \A t \in Sessions : Holders(t)' = Holders(t)
    BY <2>1 DEF Holders
  <2>4. ASSUME NEW x \in Callers PROVE CallStage(x)'
    BY <1>1, <2>1 DEF Stages, CallStage
  <2>5. ASSUME NEW t \in Sessions PROVE RowStage(t)' /\ Apart(t)' /\ (pending'[t] = NoRow <=> pending[t] = NoRow)
    <3>1. CASE t = s
      <4>1. pending'[s] # NoRow /\ Full(pending'[s]) /\ Blank(pending'[s])
        <5>1. pending'[s] = [pending[s] EXCEPT !.conf = v]
          BY <2>1 DEF Shape
        <5> QED
          BY <2>2, <5>1, NoRowFacts DEF Full
      <4> QED
        BY <1>1, <1>2, <2>3, <3>1, <4>1 DEF RowStage, Apart
    <3>2. CASE t # s
      BY <1>1, <2>1, <2>3, <3>2 DEF Stages, RowStage, Apart, Shape
    <3> QED
      BY <3>1, <3>2
  <2>6. SessionKept'
    BY <1>1, <2>3, <2>5 DEF Stages, SessionKept, Known, Shape
  <2>7. Served'
    BY <1>1, <2>1 DEF Stages, Served
  <2> QED
    BY <2>4, <2>5, <2>6, <2>7 DEF Stages
<1>3. CASE pending[s] = NoRow
  <2>1. /\ call'[c].op = "update" /\ call'[c].sess = s /\ call'[c].pc = "read" /\ call'[c].once = NoOnce
        /\ call'[c].copy.conf = v /\ call'[c].copy.tokens = 0 /\ call'[c].copy.cost = 0 /\ pending' = pending
        /\ \A x \in Callers \ {c} : call'[x] = call[x]
    <3>1. call'[c] = [Idle EXCEPT !.op = "update", !.sess = s, !.pc = "read", !.copy.conf = v] /\ pending' = pending
      BY <1>3, SetFacts
    <3>2. \A x \in Callers \ {c} : call'[x] = call[x]
      BY <1>3, SetFacts
    <3> QED
      BY <3>1, <3>2 DEF Idle, NoRow
  <2>2. CallStage(c)'
    BY <1>1, <2>1, NoRowFacts DEF CallStage, Running, Holding
  <2>3. Calm(c)
    BY <1>1, <2>1, <2>2, IdleFacts DEF Calm, Running, Stages, RowStage
  <2> QED
    BY <2>3, CalmKeeps
<1> QED
  BY <1>2, <1>3



-----------------------------------------------------------------------------
(* How much is stored, and how much the calls under way will still store.   *)

LEMMA StoredFacts ==
  ASSUME Shape
  PROVE  /\ IsFiniteSet(Stored) /\ Cardinality(Stored) \in Nat
         /\ NextId = 1 + Cardinality(Stored) /\ NextId \in Nat /\ NextId >= 1
         /\ \A s \in Sessions : Len(msgs[s]) \in Nat /\ DOMAIN msgs[s] = 1 .. Len(msgs[s])
<1>1. IsFiniteSet(Sessions \X Ids)
  <2>1. IsFiniteSet(Ids)
    BY FS_Interval, StoreAssumption DEF Ids
  <2> QED
    BY <2>1, FS_Product, StoreAssumption
<1>2. IsFiniteSet(Stored)
  BY <1>1, FS_Subset DEF Stored
<1>3. Cardinality(Stored) \in Nat
  BY <1>2, FS_CardinalityType
<1>4. NextId = 1 + Cardinality(Stored)
  BY DEF NextId, Stored
<1> QED
  BY <1>2, <1>3, <1>4 DEF Shape

LEMMA FlightFacts ==
  ASSUME Shape, NEW ops
  PROVE  /\ IsFiniteSet(Writing(ops)) /\ InFlight(ops) = Cardinality(Writing(ops))
         /\ InFlight(ops) \in Nat
         /\ \A c \in Writing(ops) : InFlight(ops) >= 1
<1>1. IsFiniteSet(Writing(ops))
  BY FS_Subset, StoreAssumption DEF Writing
<1>2. InFlight(ops) = Cardinality(Writing(ops))
  BY DEF InFlight, Writing
<1>3. InFlight(ops) \in Nat /\ (InFlight(ops) = 0 => Writing(ops) = {})
  BY <1>1, <1>2, FS_CardinalityType, FS_EmptySet
<1> QED
  BY <1>1, <1>2, <1>3

\* A step of c that starts no write for ops leaves at most as many under way, and one
\* less when it ends one.
LEMMA FlightShrinks ==
  ASSUME Shape, Shape', NEW c \in Callers, NEW ops,
         \A x \in Callers \ {c} : call'[x] = call[x],
         c \in Writing(ops)' => c \in Writing(ops)
  PROVE  /\ InFlight(ops)' <= InFlight(ops)
         /\ c \in Writing(ops) /\ c \notin Writing(ops)' => InFlight(ops)' <= InFlight(ops) - 1
<1>1. \A x \in Callers \ {c} : x \in Writing(ops)' <=> x \in Writing(ops)
  BY DEF Writing, At
<1>2. Writing(ops) \subseteq Callers /\ Writing(ops)' \subseteq Callers
  BY DEF Writing
<1>3. Writing(ops)' \subseteq Writing(ops)
  BY <1>1, <1>2
<1>4. /\ IsFiniteSet(Writing(ops)) /\ InFlight(ops) = Cardinality(Writing(ops)) /\ InFlight(ops) \in Nat
      /\ IsFiniteSet(Writing(ops)') /\ InFlight(ops)' = Cardinality(Writing(ops)') /\ InFlight(ops)' \in Nat
  <2>1. /\ IsFiniteSet(Writing(ops)) /\ InFlight(ops) = Cardinality(Writing(ops)) /\ InFlight(ops) \in Nat
    BY FlightFacts
  <2>2. IsFiniteSet(Writing(ops)')
    BY <1>2, FS_Subset, StoreAssumption
  <2>3. InFlight(ops)' = Cardinality(Writing(ops)')
    BY DEF InFlight, Writing
  <2> QED
    BY <2>1, <2>2, <2>3, FS_CardinalityType
<1>5. InFlight(ops)' <= InFlight(ops)
  BY <1>3, <1>4, FS_Subset
<1>6. ASSUME c \in Writing(ops), c \notin Writing(ops)'
      PROVE  InFlight(ops)' <= InFlight(ops) - 1
  <2>1. Writing(ops)' \in SUBSET (Writing(ops) \ {c})
    BY <1>3, <1>6
  <2>2. IsFiniteSet(Writing(ops) \ {c}) /\ Cardinality(Writing(ops) \ {c}) = Cardinality(Writing(ops)) - 1
    BY <1>4, <1>6, FS_RemoveElement
  <2> QED
    BY <1>4, <2>1, <2>2, FS_Subset
<1> QED
  BY <1>5, <1>6

\* One that starts a write leaves at most one more.
LEMMA FlightGrows ==
  ASSUME Shape, Shape', NEW c \in Callers, NEW ops,
         \A x \in Callers \ {c} : call'[x] = call[x]
  PROVE  InFlight(ops)' <= InFlight(ops) + 1
<1>1. \A x \in Callers \ {c} : x \in Writing(ops)' <=> x \in Writing(ops)
  BY DEF Writing, At
<1>2. Writing(ops) \subseteq Callers /\ Writing(ops)' \subseteq Callers
  BY DEF Writing
<1>3. Writing(ops)' \in SUBSET (Writing(ops) \cup {c})
  BY <1>1, <1>2
<1>4. IsFiniteSet(Writing(ops)) /\ InFlight(ops) = Cardinality(Writing(ops)) /\ InFlight(ops) \in Nat
  BY FlightFacts
<1>5. /\ IsFiniteSet(Writing(ops) \cup {c}) /\ Cardinality(Writing(ops) \cup {c}) <= InFlight(ops) + 1
      /\ Cardinality(Writing(ops) \cup {c}) \in Nat
  BY <1>4, FS_AddElement, FS_CardinalityType
<1>6. IsFiniteSet(Writing(ops)') /\ Cardinality(Writing(ops)') \in Nat
      /\ Cardinality(Writing(ops)') <= Cardinality(Writing(ops) \cup {c})
  BY <1>3, <1>5, FS_Subset, FS_CardinalityType
<1>7. InFlight(ops)' = Cardinality(Writing(ops)')
  BY DEF InFlight, Writing
<1> QED
  BY <1>4, <1>5, <1>6, <1>7

\* While a message is under way there is an id for it, and room in its session.
LEMMA RoomForMessage ==
  ASSUME Shape, MessageBound, NEW c \in Callers, At(c, "write"), call[c].op \in {"user", "assistant"}
  PROVE  NextId \in Ids /\ \A s \in Sessions : Len(msgs[s]) < MaxMessages
<1>1. c \in Writing({"user", "assistant"})
  BY DEF Writing, At
<1>2. NextId <= MaxMessages /\ NextId \in Nat /\ NextId >= 1
  BY <1>1, FlightFacts, StoredFacts, StoreAssumption DEF MessageBound
<1>3. ASSUME NEW s \in Sessions, Len(msgs[s]) >= MaxMessages
      PROVE  FALSE
  <2>1. {<<s, i>> : i \in Ids} \in SUBSET Stored
    BY <1>3, StoredFacts, StoreAssumption DEF Stored, Ids
  <2>2. Cardinality({<<s, i>> : i \in Ids}) = MaxMessages
    <3> DEFINE f == [i \in Ids |-> <<s, i>>]
               P == {<<s, i>> : i \in Ids}
    <3>0. \A i \in Ids : f[i] = <<s, i>> /\ f[i] \in P
      OBVIOUS
    <3>5. \A i, j \in Ids : f[i] = f[j] => i = j
      BY <3>0
    <3>6. \A p \in P : \E i \in Ids : f[i] = p
      BY <3>0
    <3>7. f \in [Ids -> P]
      OBVIOUS
    <3>1. f \in Bijection(Ids, P)
      <4> HIDE DEF f, P
      <4> QED
        BY <3>5, <3>6, <3>7 DEF Bijection, Injection, Surjection, IsInjective
    <3>2. ExistsBijection(Ids, {<<s, i>> : i \in Ids})
      BY <3>1 DEF ExistsBijection
    <3>3. IsFiniteSet(Ids) /\ Cardinality(Ids) = MaxMessages
      BY FS_Interval, StoreAssumption DEF Ids
    <3> QED
      BY <3>2, <3>3, FS_Bijection
  <2>3. MaxMessages <= Cardinality(Stored)
    BY <2>1, <2>2, StoredFacts, FS_Subset
  <2> QED
    BY <1>2, <2>3, StoredFacts, StoreAssumption
<1> QED
  BY <1>2, <1>3, StoredFacts, StoreAssumption DEF Ids

\* Storing a message takes exactly one id.
LEMMA AppendTakesId ==
  ASSUME Shape, NEW s \in Sessions, NEW m \in Messages, Len(msgs[s]) < MaxMessages,
         msgs' = [msgs EXCEPT ![s] = Append(@, m)]
  PROVE  /\ NextId' = NextId + 1
         /\ Len(msgs[s])' = Len(msgs[s]) + 1
         /\ \A i \in 1 .. Len(msgs[s]) : msgs'[s][i] = msgs[s][i]
         /\ msgs'[s][Len(msgs[s]) + 1] = m
         /\ \A t \in Sessions \ {s} : msgs'[t] = msgs[t]
<1> DEFINE n == Len(msgs[s])
<1>1. n \in Nat /\ n + 1 \in Ids
  BY StoredFacts, StoreAssumption DEF Ids
<1>2. /\ msgs'[s] = Append(msgs[s], m) /\ msgs[s] \in Seq(Messages)
      /\ \A t \in Sessions \ {s} : msgs'[t] = msgs[t]
  BY DEF Shape
<1>3. /\ Len(msgs'[s]) = n + 1
      /\ \A i \in 1 .. n : msgs'[s][i] = msgs[s][i]
      /\ msgs'[s][n + 1] = m
  BY <1>2
<1>4. Stored' = Stored \cup {<<s, n + 1>>} /\ <<s, n + 1>> \notin Stored
  BY <1>1, <1>2, <1>3 DEF Stored, Ids
<1>5. Cardinality(Stored)' = Cardinality(Stored) + 1
  BY <1>4, StoredFacts, FS_AddElement
<1>6. NextId' = 1 + Cardinality(Stored)'
  BY DEF NextId, Stored
<1> QED
  BY <1>2, <1>3, <1>5, <1>6, StoredFacts


-----------------------------------------------------------------------------
(* Every step keeps the types.                                              *)

LEMMA CallTyped ==
  ASSUME Shape, NEW c \in Callers, NEW r \in Calls, Set(c, r)
  PROVE  call' \in [Callers -> Calls]
  BY DEF Shape, Set

LEMMA GoTyped ==
  ASSUME Shape, NEW c \in Callers, NEW pc \in Places, Go(c, pc)
  PROVE  call' \in [Callers -> Calls]
<1>1. [call[c] EXCEPT !.pc = pc] \in Calls
  BY DEF Shape, Calls
<1> QED
  BY <1>1, CallTyped DEF Go

LEMMA ReturnTyped ==
  ASSUME Shape, NEW c \in Callers, Return(c)
  PROVE  call' \in [Callers -> Calls]
  BY CallTyped, IdleFacts DEF Return

LEMMA RowTyped ==
  ASSUME Shape, NEW s \in Sessions, NEW row \in LooseRow
  PROVE  [rows EXCEPT ![s] = row] \in [Sessions -> LooseRow]
  BY DEF Shape

\* The steps of the lazy store.
LEMMA SessionShape ==
  ASSUME Shape, Crash \/ \E s \in Sessions : CreateSession(s) \/ dropPending(s)
  PROVE  Shape'
<1> USE DEF innerVars, histVars
<1>1. ASSUME NEW s \in Sessions, CreateSession(s)
      PROVE  Shape'
  <2>1. NewRow \in LooseRow
    BY StoreAssumption DEF NewRow, NoRow, LooseRow
  <2> QED
    BY <1>1, <2>1 DEF CreateSession, Shape
<1>2. ASSUME NEW s \in Sessions, dropPending(s)
      PROVE  Shape'
  BY <1>2, NoRowFacts DEF dropPending, Shape
<1>3. CASE Crash
  <2>1. /\ pending' \in [Sessions -> LooseRow] /\ materializing' \in [Sessions -> Onces \cup {NoOnce}]
        /\ once' \in [Onces -> {"fresh", "running", "ok", "failed"}] /\ call' \in [Callers -> Calls]
    BY <1>3, NoRowFacts, IdleFacts DEF Crash
  <2>2. crashes' \in 0 .. MaxCrashes /\ gone' \subseteq created'
    BY <1>3, StoreAssumption DEF Crash, Shape
  <2> QED
    BY <1>3, <2>1, <2>2 DEF Crash, Shape
<1> QED
  BY <1>1, <1>2, <1>3

LEMMA LookupShape ==
  ASSUME Shape, Stages, NEW c \in Callers, NEW s \in Sessions,
         \/ \E op \in Writes : MaterializeLookup(c, op, s)
         \/ \E v \in Confs : UpdateLookup(c, s, v)
  PROVE  Shape'
<1> USE DEF innerVars, histVars, lazyVars
<1>4. ASSUME NEW op \in Writes, MaterializeLookup(c, op, s)
      PROVE  Shape'
  <2> DEFINE o == IF materializing[s] # NoOnce THEN materializing[s] ELSE FreeOnce
  <2>1. call[c].once = NoOnce
    BY <1>4, IdleFacts DEF MaterializeLookup, Stages, CallStage, At
  <2>2. o \in Onces
    BY <2>1, FreeOnceExists DEF Shape
  <2>3. call' \in [Callers -> Calls]
    <3>1. [[Idle EXCEPT !.op = op, !.sess = s] EXCEPT !.pc = "write"] \in Calls
      BY NoRowFacts DEF Idle, Calls, Places
    <3>2. [[Idle EXCEPT !.op = op, !.sess = s] EXCEPT !.pc = "once", !.once = o] \in Calls
      <4> HIDE DEF o
      <4> QED
        BY <2>2, NoRowFacts DEF Idle, Calls, Places
    <3> QED
      BY <1>4, <3>1, <3>2, CallTyped DEF MaterializeLookup
  <2>4. materializing' \in [Sessions -> Onces \cup {NoOnce}] /\ once' \in [Onces -> {"fresh", "running", "ok", "failed"}]
    BY <1>4, <2>2 DEF MaterializeLookup, Shape
  <2> QED
    BY <1>4, <2>3, <2>4 DEF MaterializeLookup, Shape
<1>5. ASSUME NEW v \in Confs, UpdateLookup(c, s, v)
      PROVE  Shape'
  <2>1. call' \in [Callers -> Calls]
    <3>1. [Idle EXCEPT !.op = "update", !.sess = s, !.pc = "read", !.copy.conf = v] \in Calls
      BY NoRowFacts, StoreAssumption DEF Idle, Calls, Places, NoRow, LooseRow
    <3> QED
      BY <1>5, <3>1, CallTyped DEF UpdateLookup, Shape
  <2>2. pending' \in [Sessions -> LooseRow]
    <3>1. [pending[s] EXCEPT !.conf = v] \in LooseRow
      BY SetRow DEF Shape
    <3> QED
      BY <1>5, <3>1 DEF UpdateLookup, Shape
  <2> QED
    BY <1>5, <2>1, <2>2 DEF UpdateLookup, Shape
<1> QED
  BY <1>4, <1>5

LEMMA OnceShape ==
  ASSUME Shape, Stages, NEW c \in Callers,
         OnceDo(c) \/ OnceDone(c) \/ MaterializeTake(c) \/ MaterializeCreate(c) \/ MaterializeRestore(c)
  PROVE  Shape'
<1> USE DEF innerVars, histVars, lazyVars
<1>1. /\ call[c] \in Calls /\ call[c].copy \in LooseRow /\ call[c].once \in Onces \cup {NoOnce}
      /\ At(c, "idle") \/ call[c].sess \in Sessions
      /\ At(c, "once") \/ At(c, "take") \/ At(c, "create") \/ At(c, "restore") => call[c].once \in Onces
  BY CallFacts DEF Shape, Stages, CallStage, At, Running
<1>2. [call[c] EXCEPT !.pc = "write", !.once = NoOnce] \in Calls
  BY <1>1 DEF Calls, Places
<1>3. [call[c] EXCEPT !.pc = "write", !.once = NoOnce, !.copy = NoRow] \in Calls
  BY <1>1, NoRowFacts DEF Calls, Places
<1>4. CASE OnceDo(c)
  <2>1. call' \in [Callers -> Calls]
    BY <1>4, GoTyped DEF OnceDo, Places
  <2> QED
    BY <1>4, <2>1 DEF OnceDo, Shape
<1>5. CASE OnceDone(c)
  <2>1. call' \in [Callers -> Calls]
    BY <1>2, <1>5, CallTyped, ReturnTyped DEF OnceDone
  <2> QED
    BY <1>5, <2>1 DEF OnceDone, Shape
<1>6. CASE MaterializeTake(c)
  <2>1. call[c].sess \in Sessions
    BY <1>1, <1>6 DEF MaterializeTake, At
  <2>2. [call[c] EXCEPT !.pc = "create", !.copy = pending[call[c].sess]] \in Calls
    BY <1>1, <2>1 DEF Calls, Places, Shape
  <2>3. call' \in [Callers -> Calls]
    BY <1>2, <1>6, <2>2, CallTyped DEF MaterializeTake
  <2>4. once' \in [Onces -> {"fresh", "running", "ok", "failed"}]
    BY <1>6 DEF MaterializeTake, Shape
  <2>5. pending' \in [Sessions -> LooseRow]
    BY <1>6, NoRowFacts DEF MaterializeTake, Shape, Taken
  <2> QED
    BY <1>6, <2>3, <2>4, <2>5 DEF MaterializeTake, Shape
<1>7. CASE MaterializeCreate(c)
  <2>1. call' \in [Callers -> Calls]
    BY <1>3, <1>7, CallTyped, GoTyped DEF MaterializeCreate, Places
  <2>2. rows' \in [Sessions -> LooseRow] /\ once' \in [Onces -> {"fresh", "running", "ok", "failed"}]
    BY <1>1, <1>7 DEF MaterializeCreate, Shape, At
  <2>3. faults' \in 0 .. MaxFaults
    BY <1>7, StoreAssumption DEF MaterializeCreate, Shape, Fault
  <2> QED
    BY <1>7, <2>1, <2>2, <2>3 DEF MaterializeCreate, Shape
<1>8. CASE MaterializeRestore(c)
  <2>1. call' \in [Callers -> Calls]
    BY <1>8, ReturnTyped DEF MaterializeRestore
  <2>2. pending' \in [Sessions -> LooseRow] /\ once' \in [Onces -> {"fresh", "running", "ok", "failed"}]
        /\ materializing' \in [Sessions -> Onces \cup {NoOnce}]
    BY <1>1, <1>8 DEF MaterializeRestore, Shape, Restored
  <2> QED
    BY <1>8, <2>1, <2>2 DEF MaterializeRestore, Shape
<1> QED
  BY <1>4, <1>5, <1>6, <1>7, <1>8

\* The steps on the inner store.
LEMMA WriteShape ==
  ASSUME Shape, Stages, MessageBound, NEW c \in Callers,
         \/ AddUsage(c)
         \/ AppendRefused(c) \/ MemoryAppend(c) \/ AppendInsert(c) \/ AppendTouch(c)
         \/ UpdateRefused(c) \/ MemoryUpdate(c) \/ UpdateRead(c) \/ UpdateSave(c)
  PROVE  Shape'
<1> USE DEF innerVars, histVars, lazyVars
<1>1. /\ call[c] \in Calls /\ call[c].copy \in LooseRow
      /\ call[c].pc # "idle" => call[c].sess \in Sessions /\ call[c].sess \in created
      /\ call[c].pc = "touch" => call[c].copy.title \in Ids
      /\ call[c].pc = "read" => call[c].copy.conf \in Confs
  BY CallFacts DEF Shape, Stages, CallStage
<1> SUFFICES ASSUME NEW s, s = call[c].sess, s \in Sessions \/ call[c].pc = "idle"
             PROVE  Shape'
  BY <1>1
<1>9. ASSUME AppendInsert(c)
      PROVE  call' \in [Callers -> Calls]
  <2>1. NextId \in Ids /\ NewMessage(c).id = NextId
    BY <1>9, RoomForMessage DEF AppendInsert, NewMessage
  <2>2. [call[c] EXCEPT !.pc = "touch", !.copy.title = NewMessage(c).id] \in Calls
    <3>1. [call[c].copy EXCEPT !.title = NewMessage(c).id] \in LooseRow
      BY <1>1, <2>1, StoreAssumption DEF LooseRow, Ids
    <3> QED
      BY <1>1, <3>1 DEF Calls, Places
  <2> QED
    BY <1>9, <2>2, CallTyped DEF AppendInsert
<1>2. /\ call' \in [Callers -> Calls]
      /\ ~AddUsage(c) => used' = used
      /\ MemoryAppend(c) \/ AppendInsert(c) \/ msgs' = msgs
      /\ faults' \in 0 .. MaxFaults /\ lost' \subseteq created
      /\ UNCHANGED <<created, pending, materializing, once, inner, gone, crashes>>
  <2>1. CASE UpdateRead(c)
    <3>1. [call[c] EXCEPT !.pc = "save", !.copy = Updated(c)] \in Calls
      <4>1. Updated(c) \in LooseRow
        BY <1>1, <2>1, SetRow DEF UpdateRead, UnlockedUpdate, At, Updated, Shape
      <4> QED
        BY <1>1, <4>1 DEF Calls, Places
    <3> QED
      BY <2>1, <3>1, CallTyped DEF UpdateRead, UnlockedUpdate, Shape
  <2>2. CASE AppendInsert(c)
    BY <1>9, <2>2 DEF AppendInsert, Shape, At
  <2>3. CASE Return(c)
    <3>1. call' \in [Callers -> Calls]
      BY <2>3, ReturnTyped
    <3> QED
      BY SMTT(40), <1>1, <3>1, StoreAssumption DEF Shape, Fault, At, AddUsage, AppendRefused, MemoryAppend,
         AppendInsert,
         AppendTouch, UpdateRefused, MemoryUpdate, UpdateRead, UnlockedUpdate, UpdateSave
  <2> QED
    BY <2>1, <2>2, <2>3 DEF AddUsage, AppendRefused, MemoryAppend, AppendTouch, UpdateRefused,
       MemoryUpdate, UpdateSave
<1>3. CASE AddUsage(c)
  <2>1. s \in Sessions /\ WithUsage(rows[s]) \in LooseRow
    BY <1>1, <1>3, UsedRow DEF AddUsage, At, Shape
  <2>2. rows' \in [Sessions -> LooseRow] /\ used' \in [Sessions -> Nat]
    <3>1. rows' = rows \/ rows' = [rows EXCEPT ![s] = WithUsage(rows[s])]
      BY <1>3 DEF AddUsage
    <3>2. used' = used \/ used' = [used EXCEPT ![s] = used[s] + 1]
      BY <1>3 DEF AddUsage
    <3>3. used[s] + 1 \in Nat
      BY <2>1 DEF Shape
    <3>4. rows' \in [Sessions -> LooseRow]
      BY <2>1, <3>1, RowTyped DEF Shape
    <3>5. used' \in [Sessions -> Nat]
      BY <2>1, <3>2, <3>3 DEF Shape
    <3> QED
      BY <3>4, <3>5
  <2> QED
    BY <1>2, <1>3, <2>2 DEF AddUsage, Shape
<1>4. CASE AppendRefused(c) \/ UpdateRefused(c) \/ UpdateRead(c)
  BY <1>2, <1>4 DEF AppendRefused, UpdateRefused, UpdateRead, UnlockedUpdate, Shape
<1>5. CASE MemoryAppend(c) \/ AppendInsert(c)
  <2>1. s \in Sessions /\ call[c].op \in {"user", "assistant"} /\ NextId \in Ids
    BY <1>1, <1>5, RoomForMessage DEF MemoryAppend, AppendInsert, At
  <2>2. NewMessage(c) \in Messages /\ NewMessage(c).role = call[c].op /\ NewMessage(c).id = NextId
    BY <2>1 DEF NewMessage, Messages
  <2>3. msgs' \in [Sessions -> Seq(Messages)]
    <3>1. msgs' = [msgs EXCEPT ![s] = Append(msgs[s], NewMessage(c))]
      BY <1>5 DEF MemoryAppend, AppendInsert
    <3>2. Append(msgs[s], NewMessage(c)) \in Seq(Messages)
      BY <2>1, <2>2 DEF Shape
    <3> QED
      BY <3>1, <3>2 DEF Shape
  <2>4. rows' \in [Sessions -> LooseRow]
    <3>1. rows[s] \in LooseRow /\ Touched(rows[s], call[c].op, NextId) \in LooseRow
      BY <2>1, TouchedRow DEF Shape
    <3>2. rows' = rows \/ rows' = [rows EXCEPT ![s] = Touched(rows[s], call[c].op, NextId)]
      BY <1>5, <2>2 DEF MemoryAppend, AppendInsert
    <3> QED
      BY SMTT(40), <2>1, <3>1, <3>2, RowTyped DEF Shape
  <2>6. used' = used
    BY <1>5 DEF MemoryAppend, AppendInsert
  <2> QED
    BY <1>2, <2>3, <2>4, <2>6 DEF Shape
<1>6. CASE AppendTouch(c)
  <2>1. s \in Sessions /\ Touched(rows[s], call[c].op, call[c].copy.title) \in LooseRow
    BY <1>1, <1>6, TouchedRow DEF AppendTouch, At, Shape
  <2>2. rows' \in [Sessions -> LooseRow]
    BY <1>6, <2>1 DEF AppendTouch, Shape
  <2> QED
    BY <1>2, <1>6, <2>2 DEF AppendTouch, Shape
<1>7. CASE MemoryUpdate(c)
  <2>1. s \in Sessions /\ Updated(c) \in LooseRow
    BY <1>1, <1>7, SetRow DEF MemoryUpdate, At, Updated, Shape
  <2>2. rows' \in [Sessions -> LooseRow]
    BY <1>7, <2>1 DEF MemoryUpdate, Shape
  <2> QED
    BY <1>2, <1>7, <2>2 DEF MemoryUpdate, Shape
<1>8. CASE UpdateSave(c)
  <2>1. rows' \in [Sessions -> LooseRow]
    BY <1>1, <1>8 DEF UpdateSave, Shape
  <2> QED
    BY <1>2, <1>8, <2>1 DEF UpdateSave, Shape
<1> QED
  BY <1>3, <1>4, <1>5, <1>6, <1>7, <1>8

LEMMA StagesInductive ==
  ASSUME Shape, Stages, MessageBound, [Next]_vars
  PROVE  Shape' /\ Stages'
<1>1. CASE UNCHANGED vars
  BY <1>1 DEF vars, lazyVars, innerVars, histVars, Shape, Stages, CallStage, RowStage, Apart,
     SessionKept,
              Known, Holders, Served
<1>2. ASSUME NEW s \in Sessions, CreateSession(s) \/ dropPending(s)
      PROVE  Shape' /\ Stages'
  <2>1. Stages'
    BY <1>2, CreateSessionKeeps, DropKeeps
  <2>2. Shape'
    BY <1>2, SessionShape
  <2> QED
    BY <2>1, <2>2
<1>3. ASSUME NEW c \in Callers, NEW s \in Sessions, NEW op \in Writes, MaterializeLookup(c, op, s)
      PROVE  Shape' /\ Stages'
  BY <1>3, LookupKeeps, LookupShape
<1>4. ASSUME NEW c \in Callers, NEW s \in Sessions, NEW v \in Confs, UpdateLookup(c, s, v)
      PROVE  Shape' /\ Stages'
  BY <1>4, UpdateLookupKeeps, LookupShape
<1>5. ASSUME NEW c \in Callers, Step(c)
      PROVE  Shape' /\ Stages'
  <2>1. Shape'
    BY <1>5, OnceShape, WriteShape DEF Step
  <2>2. Calm(c) => Stages'
    BY CalmKeeps
  <2>3. At(c, "write") /\ call[c].op \in {"user", "assistant"} => NextId \in Ids
    BY RoomForMessage
  <2>4. MemoryAppend(c) \/ AppendInsert(c) => Calm(c)
    BY <2>3, MemoryAppendCalm, AppendInsertCalm DEF MemoryAppend, AppendInsert
  <2> QED
    BY <1>5, <2>1, <2>2, <2>4, OnceDoKeeps, OnceDoneCalm, TakeKeeps, CreateKeeps, RestoreKeeps,
       AddUsageCalm,
       AppendRefusedCalm, AppendTouchCalm, UpdateRefusedCalm, MemoryUpdateCalm, UpdateReadCalm,
       UpdateSaveCalm DEF Step
<1>6. CASE Crash
  BY <1>6, CrashKeeps, SessionShape
<1> QED
  BY <1>1, <1>2, <1>3, <1>4, <1>5, <1>6 DEF Next


-----------------------------------------------------------------------------
(* What a step does to the counters.                                        *)

\* A step of c leaves the other calls alone, and c at its call or at its end.
LEMMA StepCall ==
  ASSUME Shape, Stages, NEW c \in Callers, Step(c)
  PROVE  /\ \A x \in Callers \ {c} : call'[x] = call[x]
         /\ call'[c] = Idle \/ (call'[c].op = call[c].op /\ call'[c].sess = call[c].sess)
         /\ call[c].pc = "touch" => call'[c] = Idle
         /\ call'[c].pc = "touch" => AppendInsert(c)
         /\ call'[c].pc = "save" => UpdateRead(c)
<1>1. \A x \in Callers \ {c} : call'[x] = call[x]
  BY SetFacts DEF Step, Go, Return, OnceDo, OnceDone, MaterializeTake, MaterializeCreate,
     MaterializeRestore,
     AddUsage, AppendRefused, MemoryAppend, AppendInsert, AppendTouch, UpdateRefused, MemoryUpdate, UpdateRead,
     UnlockedUpdate, UpdateSave
<1>2. CASE Return(c)
  <2>1. call'[c] = Idle
    BY <1>2, SetFacts DEF Return
  <2> QED
    BY <1>1, <2>1, IdleFacts
<1>3. CASE OnceDo(c)
  <2>1. call'[c] = [call[c] EXCEPT !.pc = "take"] /\ call[c].pc = "once"
    BY <1>3, SetFacts DEF OnceDo, Go, At
  <2> QED
    BY <1>1, <2>1, CallFacts
<1>4. CASE OnceDone(c) /\ ~Return(c)
  <2>1. call'[c] = [call[c] EXCEPT !.pc = "write", !.once = NoOnce] /\ call[c].pc = "once"
    BY <1>4, SetFacts DEF OnceDone, At
  <2> QED
    BY <1>1, <2>1, CallFacts
<1>5. CASE MaterializeTake(c)
  <2>1. /\ call[c].pc = "take"
        /\ \/ call'[c] = [call[c] EXCEPT !.pc = "write", !.once = NoOnce]
           \/ call'[c] = [call[c] EXCEPT !.pc = "create", !.copy = pending[call[c].sess]]
    BY <1>5, SetFacts DEF MaterializeTake, At
  <2> QED
    BY ZenonT(60), <1>1, <2>1, CallFacts
<1>6. CASE MaterializeCreate(c)
  <2>1. /\ call[c].pc = "create"
        /\ \/ call'[c] = [call[c] EXCEPT !.pc = "write", !.once = NoOnce, !.copy = NoRow]
           \/ call'[c] = [call[c] EXCEPT !.pc = "restore"]
    BY <1>6, SetFacts DEF MaterializeCreate, At, Go
  <2> QED
    BY ZenonT(60), <1>1, <2>1, CallFacts
<1>7. CASE AppendInsert(c)
  <2>1. call'[c] = [call[c] EXCEPT !.pc = "touch", !.copy.title = NextId] /\ call[c].pc = "write"
    BY <1>7, SetFacts DEF AppendInsert, At, NewMessage
  <2> QED
    BY <1>1, <1>7, <2>1, CallFacts
<1>8. CASE UpdateRead(c)
  <2>1. call'[c] = [call[c] EXCEPT !.pc = "save", !.copy = Updated(c)] /\ call[c].pc = "read"
    BY <1>8, SetFacts DEF UpdateRead, UnlockedUpdate, At
  <2> QED
    BY <1>1, <1>8, <2>1, CallFacts
<1> QED
  BY <1>2, <1>3, <1>4, <1>5, <1>6, <1>7, <1>8 DEF Step, MaterializeRestore,
     AddUsage, AppendRefused, MemoryAppend, AppendTouch, UpdateRefused, MemoryUpdate, UpdateSave

\* No step but a lookup starts a write, and the step that stores it ends it.
LEMMA StepFlight ==
  ASSUME Shape, Shape', Stages, NEW c \in Callers, Step(c), NEW ops \in SUBSET Writes
  PROVE  /\ InFlight(ops)' <= InFlight(ops)
         /\ call[c].op \in ops /\ At(c, "write") /\ (call'[c] = Idle \/ call'[c].pc = "touch")
              => InFlight(ops)' <= InFlight(ops) - 1
<1>1. c \in Writing(ops)' => c \in Writing(ops)
  BY StepCall, IdleFacts DEF Writing, At, Writes
<1>2. /\ call[c].op \in ops /\ At(c, "write") => c \in Writing(ops)
      /\ call'[c] = Idle \/ call'[c].pc = "touch" => c \notin Writing(ops)'
  BY IdleFacts DEF Writing, At, Writes
<1> QED
  BY <1>1, <1>2, StepCall, FlightShrinks

LEMMA PayingFacts ==
  ASSUME Shape, NEW s \in Sessions
  PROVE  /\ IsFiniteSet(Paying(s)) /\ Cardinality(Paying(s)) \in Nat
         /\ IsFiniteSet(Answers(s)) /\ Cardinality(Answers(s)) \in Nat
         /\ Cardinality(Answers(s)) <= Len(msgs[s])
<1>1. IsFiniteSet(Paying(s))
  BY FS_Subset, StoreAssumption DEF Paying
<1>2. Answers(s) \in SUBSET (1 .. Len(msgs[s])) /\ Len(msgs[s]) \in Nat
  BY StoredFacts DEF Answers
<1>3. IsFiniteSet(1 .. Len(msgs[s])) /\ Cardinality(1 .. Len(msgs[s])) = Len(msgs[s])
  BY <1>2, FS_Interval
<1> QED
  BY <1>1, <1>2, <1>3, FS_Subset, FS_CardinalityType

\* An answer is paid for by the step after the one that stores it.
LEMMA StepPaying ==
  ASSUME Shape, Shape', Stages, NEW c \in Callers, Step(c), NEW s \in Sessions
  PROVE  /\ Cardinality(Paying(s)') <= Cardinality(Paying(s)) + 1
         /\ ~(AppendInsert(c) /\ call[c].op = "assistant" /\ call[c].sess = s)
              => Cardinality(Paying(s)') <= Cardinality(Paying(s))
         /\ At(c, "touch") /\ call[c].op = "assistant" /\ call[c].sess = s
              => Cardinality(Paying(s)') <= Cardinality(Paying(s)) - 1
<1>1. \A x \in Callers \ {c} : x \in Paying(s)' <=> x \in Paying(s)
  BY StepCall DEF Paying, At
<1>2. Paying(s) \subseteq Callers /\ Paying(s)' \subseteq Callers
  BY DEF Paying
<1>3. IsFiniteSet(Paying(s)) /\ Cardinality(Paying(s)) \in Nat /\ IsFiniteSet(Paying(s)')
      /\ Cardinality(Paying(s)') \in Nat
  BY <1>2, PayingFacts, FS_Subset, FS_CardinalityType, StoreAssumption
<1>4. Cardinality(Paying(s)') <= Cardinality(Paying(s)) + 1
  <2>1. Paying(s)' \in SUBSET (Paying(s) \cup {c})
    BY <1>1, <1>2
  <2>2. IsFiniteSet(Paying(s) \cup {c}) /\ Cardinality(Paying(s) \cup {c}) <= Cardinality(Paying(s)) + 1
        /\ Cardinality(Paying(s) \cup {c}) \in Nat
    <3>1. /\ IsFiniteSet(Paying(s) \cup {c})
          /\ Cardinality(Paying(s) \cup {c}) = IF c \in Paying(s) THEN Cardinality(Paying(s))
                                                                 ELSE Cardinality(Paying(s)) + 1
      BY <1>3, FS_AddElement
    <3> QED
      BY <1>3, <3>1
  <2> QED
    BY <1>3, <2>1, <2>2, FS_Subset
<1>5. ASSUME c \notin Paying(s)'
      PROVE  /\ Cardinality(Paying(s)') <= Cardinality(Paying(s))
             /\ c \in Paying(s) => Cardinality(Paying(s)') <= Cardinality(Paying(s)) - 1
  <2>1. Paying(s)' \in SUBSET (Paying(s) \ {c})
    BY <1>1, <1>2, <1>5
  <2>2. /\ IsFiniteSet(Paying(s) \ {c}) /\ Cardinality(Paying(s) \ {c}) \in Nat
        /\ Cardinality(Paying(s) \ {c}) = IF c \in Paying(s) THEN Cardinality(Paying(s)) - 1 ELSE Cardinality(Paying(s))
    BY <1>3, FS_RemoveElement, FS_CardinalityType
  <2> QED
    BY <1>3, <2>1, <2>2, FS_Subset
<1>6. c \in Paying(s)' => AppendInsert(c) /\ call[c].op = "assistant" /\ call[c].sess = s
  BY StepCall, IdleFacts DEF Paying, At
<1>7. At(c, "touch") /\ call[c].op = "assistant" /\ call[c].sess = s => c \in Paying(s) /\ ~AppendInsert(c)
  BY DEF Paying, At, AppendInsert
<1> QED
  BY <1>4, <1>5, <1>6, <1>7

LEMMA AppendAnswers ==
  ASSUME Shape, NEW s \in Sessions, NEW m \in Messages, Len(msgs[s]) < MaxMessages,
         msgs' = [msgs EXCEPT ![s] = Append(@, m)]
  PROVE  /\ \A t \in Sessions \ {s} : Answers(t)' = Answers(t)
         /\ Cardinality(Answers(s)') = IF m.role = "assistant" THEN Cardinality(Answers(s)) + 1
                                                               ELSE Cardinality(Answers(s))
<1>1. \A t \in Sessions \ {s} : Answers(t)' = Answers(t)
  BY AppendTakesId DEF Answers
<1>2. /\ Len(msgs[s]) \in Nat /\ DOMAIN msgs[s] = 1 .. Len(msgs[s])
      /\ msgs'[s] = Append(msgs[s], m) /\ DOMAIN msgs'[s] = 1 .. Len(msgs[s]) + 1
  <2>1. Len(msgs[s]) \in Nat /\ DOMAIN msgs[s] = 1 .. Len(msgs[s])
    BY StoredFacts
  <2>2. msgs'[s] = Append(msgs[s], m) /\ msgs[s] \in Seq(Messages)
    BY DEF Shape
  <2> QED
    BY <2>1, <2>2
<1>3. Len(msgs[s]) + 1 \notin Answers(s)
  BY <1>2 DEF Answers
<1>4. Answers(s)' = IF m.role = "assistant" THEN Answers(s) \cup {Len(msgs[s]) + 1} ELSE Answers(s)
  BY <1>2, AppendTakesId DEF Answers
<1> QED
  BY <1>1, <1>3, <1>4, PayingFacts, FS_AddElement


-----------------------------------------------------------------------------
(* The bounds, action by action.                                            *)

Appended(c) == MemoryAppend(c) \/ AppendInsert(c)

LEMMA AppendedFacts ==
  ASSUME Shape, Stages, MessageBound, NEW c \in Callers, Appended(c)
  PROVE  LET s == call[c].sess IN
         /\ s \in Sessions /\ rows[s] # NoRow /\ NextId \in Ids /\ call[c].op \in {"user", "assistant"}
         /\ NewMessage(c) \in Messages /\ NewMessage(c).id = NextId /\ NewMessage(c).role = call[c].op
         /\ Len(msgs[s]) < MaxMessages /\ At(c, "write")
         /\ msgs' = [msgs EXCEPT ![s] = Append(@, NewMessage(c))]
         /\ call'[c] = Idle \/ call'[c].pc = "touch"
<1> DEFINE s == call[c].sess
<1> USE DEF Appended, MemoryAppend, AppendInsert
<1>1. At(c, "write") /\ call[c].op \in {"user", "assistant"} /\ rows[s] # NoRow
      /\ msgs' = [msgs EXCEPT ![s] = Append(@, NewMessage(c))]
  BY DEF SessionExists
<1>2. s \in Sessions
  BY <1>1 DEF Stages, CallStage, At, Shape
<1>3. NextId \in Ids /\ Len(msgs[s]) < MaxMessages
  BY <1>1, <1>2, RoomForMessage
<1>4. NewMessage(c) \in Messages /\ NewMessage(c).id = NextId /\ NewMessage(c).role = call[c].op
  BY <1>1, <1>3 DEF NewMessage, Messages
<1>5. call'[c] = Idle \/ call'[c].pc = "touch"
  <2>1. CASE MemoryAppend(c)
    BY <2>1, SetFacts DEF Return
  <2>2. CASE AppendInsert(c)
    <3>1. call'[c] = [call[c] EXCEPT !.pc = "touch", !.copy.title = NextId]
      BY <2>2, SetFacts DEF NewMessage
    <3> QED
      BY <3>1, CallFacts
  <2> QED
    BY <2>1, <2>2
<1> QED
  BY <1>1, <1>2, <1>3, <1>4, <1>5

\* The messages and their ids.
Numbered == Short /\ MessageBound /\ Older

LEMMA QuietNumbered ==
  ASSUME Shape, Shape', Numbered, msgs' = msgs,
         InFlight({"user", "assistant"})' <= InFlight({"user", "assistant"})
  PROVE  Numbered'
<1>1. NextId' = NextId
  BY DEF NextId
<1>2. /\ NextId \in Nat /\ InFlight({"user", "assistant"}) \in Nat /\ InFlight({"user", "assistant"})' \in Nat
  <2>1. InFlight({"user", "assistant"})' \in Nat
    <3>1. IsFiniteSet(Writing({"user", "assistant"})')
      BY FS_Subset, StoreAssumption DEF Writing
    <3>2. InFlight({"user", "assistant"})' = Cardinality(Writing({"user", "assistant"})')
      BY DEF InFlight, Writing
    <3> QED
      BY <3>1, <3>2, FS_CardinalityType
  <2> QED
    BY <2>1, StoredFacts, FlightFacts
<1>3. MessageBound'
  BY <1>1, <1>2, StoreAssumption DEF Numbered, MessageBound
<1> QED
  BY <1>1, <1>3 DEF Numbered, Short, Older

LEMMA CrashFlight ==
  ASSUME Crash, NEW ops \in SUBSET Writes
  PROVE  InFlight(ops)' = 0 /\ \A s \in Sessions : Paying(s)' = {}
<1>1. Writing(ops)' = {}
  BY IdleFacts DEF Crash, Writing, Writes
<1>2. InFlight(ops)' = Cardinality(Writing(ops)')
  BY DEF InFlight, Writing
<1>3. \A s \in Sessions : Paying(s)' = {}
  BY IdleFacts DEF Crash, Paying, At
<1> QED
  BY <1>1, <1>2, <1>3, FS_EmptySet

\* What the lookups leave of the calls: one more write, within its bound, or none.
LEMMA LookupFlight ==
  ASSUME Shape, Shape', Stages, NEW c \in Callers, NEW s \in Sessions, NEW op \in Writes, NEW v \in Confs,
         MaterializeLookup(c, op, s) \/ UpdateLookup(c, s, v), NEW ops \in SUBSET Writes
  PROVE  /\ \A x \in Callers \ {c} : call'[x] = call[x]
         /\ InFlight(ops)' <= InFlight(ops) + 1
         /\ op \notin ops \/ UpdateLookup(c, s, v) => InFlight(ops)' <= InFlight(ops)
         /\ \A t \in Sessions : Paying(t)' = Paying(t)
         /\ \A x \in Callers : call'[x].pc = "save" => call'[x] = call[x]
         /\ UNCHANGED <<inner, rows, msgs, used, lost>>
<1>1. /\ \A x \in Callers \ {c} : call'[x] = call[x]
      /\ call[c] = Idle
      /\ UNCHANGED <<inner, rows, msgs, used, lost>>
  BY SetFacts DEF MaterializeLookup, UpdateLookup, innerVars, histVars, Stages, CallStage, At, Shape
<1>4. UpdateLookup(c, s, v) => call' = call \/ (call'[c].op = "update" /\ call'[c].pc = "read")
  <2>1. UpdateLookup(c, s, v)
          => call' = call \/ call'[c] = [Idle EXCEPT !.op = "update", !.sess = s, !.pc = "read", !.copy.conf = v]
    BY SetFacts DEF UpdateLookup
  <2> QED
    BY <2>1 DEF Idle, NoRow
<1>2. CASE MaterializeLookup(c, op, s)
  <2>1. call'[c].op = op /\ call'[c].pc \in {"once", "write"}
    <3> DEFINE o == IF materializing[s] # NoOnce THEN materializing[s] ELSE FreeOnce
    <3>1. \/ call'[c] = [[Idle EXCEPT !.op = op, !.sess = s] EXCEPT !.pc = "write"]
          \/ call'[c] = [[Idle EXCEPT !.op = op, !.sess = s] EXCEPT !.pc = "once", !.once = o]
      BY <1>2, SetFacts DEF MaterializeLookup
    <3> HIDE DEF o
    <3> QED
      BY <3>1 DEF Idle
  <2>2. op \notin ops => (c \in Writing(ops)' => c \in Writing(ops))
    BY <2>1 DEF Writing
  <2>3. \A t \in Sessions : Paying(t)' = Paying(t)
    BY <1>1, <2>1, IdleFacts DEF Paying, At
  <2>4. ~UpdateLookup(c, s, v)
    BY <1>1, <1>4, <2>1, IdleFacts
  <2> QED
    BY <1>1, <2>1, <2>2, <2>3, <2>4, FlightGrows, FlightShrinks
<1>3. CASE UpdateLookup(c, s, v)
  <2>1. call' = call \/ (call'[c].op = "update" /\ call'[c].pc = "read")
    BY <1>3, <1>4
  <2>2. c \in Writing(ops)' => c \in Writing(ops)
    BY <2>1 DEF Writing, At, Writes
  <2>3. \A t \in Sessions : Paying(t)' = Paying(t)
    BY <1>1, <2>1, IdleFacts DEF Paying, At
  <2> QED
    BY <1>1, <2>1, <2>2, <2>3, FlightGrows, FlightShrinks, FlightFacts
<1> QED
  BY <1>2, <1>3

LEMMA NumberedKept ==
  ASSUME Shape, Shape', Stages, Numbered, [Next]_vars
  PROVE  Numbered'
<1> DEFINE ops == {"user", "assistant"}
<1>0. ops \in SUBSET Writes
  BY DEF Writes
<1>1. CASE UNCHANGED vars
  BY <1>1 DEF vars, innerVars, lazyVars, histVars, Numbered, Short, MessageBound, Older, NextId,
     InFlight, At
<1>2. ASSUME NEW s \in Sessions, CreateSession(s) \/ dropPending(s)
      PROVE  Numbered'
  BY <1>2 DEF CreateSession, dropPending, innerVars, histVars,
              Numbered, Short, MessageBound, Older, NextId, InFlight, At
<1>3. ASSUME NEW c \in Callers, NEW s \in Sessions, NEW op \in Writes, MaterializeLookup(c, op, s)
      PROVE  Numbered'
  <2>1. /\ InFlight(ops)' <= InFlight(ops) + 1 /\ (op = "usage" => InFlight(ops)' <= InFlight(ops))
        /\ msgs' = msgs
    BY <1>0, <1>3, LookupFlight, StoreAssumption
  <2>2. CASE op = "usage"
    BY <2>1, <2>2, QuietNumbered
  <2>3. CASE op # "usage"
    <3>1. NextId + InFlight(ops) <= MaxMessages
      BY <1>3, <2>3 DEF MaterializeLookup, Allowed
    <3>2. NextId' = NextId /\ NextId \in Nat /\ InFlight(ops) \in Nat
      BY <2>1, StoredFacts, FlightFacts DEF NextId
    <3>3. InFlight(ops)' \in Nat
      <4>1. IsFiniteSet(Writing(ops)')
        BY FS_Subset, StoreAssumption DEF Writing
      <4>2. InFlight(ops)' = Cardinality(Writing(ops)')
        BY DEF InFlight, Writing
      <4> QED
        BY <4>1, <4>2, FS_CardinalityType
    <3>4. MessageBound'
      BY <2>1, <3>1, <3>2, <3>3, StoreAssumption DEF MessageBound
    <3> QED
      BY <2>1, <3>2, <3>4 DEF Numbered, Short, Older
  <2> QED
    BY <2>2, <2>3
<1>4. ASSUME NEW c \in Callers, NEW s \in Sessions, NEW v \in Confs, UpdateLookup(c, s, v)
      PROVE  Numbered'
  <2>1. InFlight(ops)' <= InFlight(ops) /\ msgs' = msgs
    <3>1. "usage" \in Writes
      BY DEF Writes
    <3> QED
      BY <1>0, <1>4, <3>1, LookupFlight
  <2> QED
    BY <2>1, QuietNumbered
<1>5. ASSUME NEW c \in Callers, Step(c)
      PROVE  Numbered'
  <2>1. CASE Appended(c)
    <3> DEFINE m == NewMessage(c)
    <3>0. MessageBound
      BY DEF Numbered
    <3>1. /\ call[c].sess \in Sessions /\ m \in Messages /\ m.id = NextId /\ call[c].op \in ops /\ At(c, "write")
          /\ Len(msgs[call[c].sess]) < MaxMessages /\ (call'[c] = Idle \/ call'[c].pc = "touch")
          /\ msgs' = [msgs EXCEPT ![call[c].sess] = Append(@, m)]
      BY <2>1, <3>0, AppendedFacts
    <3> HIDE DEF m
    <3> SUFFICES ASSUME NEW s \in Sessions, s = call[c].sess
                 PROVE  Numbered'
      BY <3>1
    <3>2. /\ NextId' = NextId + 1 /\ Len(msgs'[s]) = Len(msgs[s]) + 1
          /\ \A i \in 1 .. Len(msgs[s]) : msgs'[s][i] = msgs[s][i]
          /\ msgs'[s][Len(msgs[s]) + 1] = m
          /\ \A t \in Sessions \ {s} : msgs'[t] = msgs[t]
      BY <3>1, AppendTakesId
    <3>3. InFlight(ops)' <= InFlight(ops) - 1
      BY <1>0, <1>5, <3>1, StepFlight
    <3>4. NextId \in Nat /\ InFlight(ops) \in Nat /\ InFlight(ops)' \in Int
      <4>1. IsFiniteSet(Writing(ops)')
        BY FS_Subset, StoreAssumption DEF Writing
      <4>2. InFlight(ops)' = Cardinality(Writing(ops)')
        BY DEF InFlight, Writing
      <4> QED
        BY <4>1, <4>2, FS_CardinalityType, StoredFacts, FlightFacts
    <3>5. MessageBound'
      BY <3>2, <3>3, <3>4, StoreAssumption DEF Numbered, MessageBound
    <3>6. \A t \in Sessions : Len(msgs'[t]) \in Nat /\ DOMAIN msgs'[t] = 1 .. Len(msgs'[t])
      BY DEF Shape
    <3>7. Short'
      BY <3>1, <3>2, StoredFacts, StoreAssumption DEF Numbered, Short
    <3>8. Older'
      <4> SUFFICES ASSUME NEW t \in Sessions, NEW i \in 1 .. Len(msgs'[t])
                   PROVE  msgs'[t][i].id < NextId + 1
        BY <3>2, <3>6 DEF Older
      <4>1. \A k \in 1 .. Len(msgs[t]) : msgs[t][k].id < NextId /\ msgs[t][k].id \in Nat
        <5>1. \A k \in 1 .. Len(msgs[t]) : msgs[t][k] \in Messages
          BY DEF Shape
        <5>2. \A k \in 1 .. Len(msgs[t]) : msgs[t][k].id \in Nat
          BY <5>1 DEF Messages, Ids
        <5> QED
          BY <5>2, StoredFacts DEF Numbered, Older
      <4>2. CASE t = s /\ i = Len(msgs[s]) + 1
        BY <3>1, <3>2, <3>4, <4>2
      <4>3. CASE ~(t = s /\ i = Len(msgs[s]) + 1)
        <5>1. i \in 1 .. Len(msgs[t]) /\ msgs'[t][i] = msgs[t][i]
          BY SMTT(40), <3>2, <4>3, StoredFacts
        <5> QED
          BY <3>4, <4>1, <5>1
      <4> QED
        BY <4>2, <4>3
    <3> QED
      BY <3>5, <3>7, <3>8 DEF Numbered
  <2>2. CASE ~Appended(c)
    <3>1. msgs' = msgs
      BY <1>5, <2>2 DEF Appended, Step, OnceDo, OnceDone, MaterializeTake, MaterializeCreate,
         MaterializeRestore,
         AddUsage, AppendRefused, AppendTouch, UpdateRefused, MemoryUpdate, UpdateRead, UnlockedUpdate, UpdateSave,
         innerVars
    <3> QED
      BY <1>0, <1>5, <3>1, StepFlight, QuietNumbered
  <2> QED
    BY <2>1, <2>2
<1>6. CASE Crash
  <2>1. InFlight(ops)' = 0 /\ InFlight(ops) \in Nat /\ msgs' = msgs
    BY <1>0, <1>6, CrashFlight, FlightFacts DEF Crash, innerVars
  <2> QED
    BY <2>1, QuietNumbered
<1> QED
  BY <1>1, <1>2, <1>3, <1>4, <1>5, <1>6 DEF Next

LEMMA UsageBoundKept ==
  ASSUME Shape, Shape', Stages, UsageBound, [Next]_vars
  PROVE  UsageBound'
<1> DEFINE ops == {"usage"}
<1>0. ops \in SUBSET Writes
  BY DEF Writes
<1>7. /\ InFlight(ops) \in Nat /\ InFlight(ops)' \in Nat
      /\ \A s \in Sessions : used[s] \in Nat /\ used'[s] \in Nat
  <2>1. InFlight(ops)' \in Nat
    <3>1. IsFiniteSet(Writing(ops)')
      BY FS_Subset, StoreAssumption DEF Writing
    <3>2. InFlight(ops)' = Cardinality(Writing(ops)')
      BY DEF InFlight, Writing
    <3> QED
      BY <3>1, <3>2, FS_CardinalityType
  <2> QED
    BY <2>1, FlightFacts DEF Shape
<1>8. ASSUME used' = used, InFlight(ops)' <= InFlight(ops)
      PROVE  UsageBound'
  BY <1>7, <1>8, StoreAssumption DEF UsageBound
<1>1. CASE UNCHANGED vars
  BY <1>1 DEF vars, innerVars, lazyVars, histVars, UsageBound, InFlight, At
<1>2. ASSUME NEW s \in Sessions, CreateSession(s) \/ dropPending(s)
      PROVE  UsageBound'
  BY <1>2 DEF CreateSession, dropPending, innerVars, histVars, UsageBound, InFlight, At
<1>3. ASSUME NEW c \in Callers, NEW s \in Sessions, NEW op \in Writes, MaterializeLookup(c, op, s)
      PROVE  UsageBound'
  <2>1. /\ InFlight(ops)' <= InFlight(ops) + 1 /\ (op # "usage" => InFlight(ops)' <= InFlight(ops))
        /\ used' = used
    BY <1>0, <1>3, LookupFlight, StoreAssumption
  <2>2. op = "usage" => \A t \in Sessions : used[t] + InFlight(ops) < MaxUsage
    BY <1>3 DEF MaterializeLookup, Allowed
  <2> QED
    BY <1>7, <1>8, <2>1, <2>2, StoreAssumption DEF UsageBound
<1>4. ASSUME NEW c \in Callers, NEW s \in Sessions, NEW v \in Confs, UpdateLookup(c, s, v)
      PROVE  UsageBound'
  <2>1. InFlight(ops)' <= InFlight(ops) /\ used' = used
    <3>1. "usage" \in Writes
      BY DEF Writes
    <3> QED
      BY <1>0, <1>4, <3>1, LookupFlight
  <2> QED
    BY <1>8, <2>1
<1>5. ASSUME NEW c \in Callers, Step(c)
      PROVE  UsageBound'
  <2>1. CASE AddUsage(c)
    <3>1. InFlight(ops)' <= InFlight(ops) - 1
      <4>1. call'[c] = Idle
        BY <2>1, SetFacts DEF AddUsage, Return
      <4> QED
        BY <1>0, <1>5, <2>1, <4>1, StepFlight DEF AddUsage
    <3>2. \A t \in Sessions : used'[t] <= used[t] + 1
      <4>1. used' = used \/ used' = [used EXCEPT ![call[c].sess] = used[call[c].sess] + 1]
        BY <2>1 DEF AddUsage
      <4>2. used \in [Sessions -> Nat]
        BY DEF Shape
      <4>3. \A t \in Sessions : used'[t] = used[t] \/ used'[t] = used[t] + 1
        BY <4>1, <4>2
      <4> QED
        BY <1>7, <4>3
    <3> QED
      BY <1>7, <3>1, <3>2, StoreAssumption DEF UsageBound
  <2>2. CASE ~AddUsage(c)
    <3>1. used' = used
      BY <1>5, <2>2 DEF Step, OnceDo, OnceDone, MaterializeTake, MaterializeCreate, MaterializeRestore,
         AppendRefused, MemoryAppend, AppendInsert, AppendTouch, UpdateRefused, MemoryUpdate, UpdateRead,
         UnlockedUpdate, UpdateSave, histVars
    <3> QED
      BY <1>0, <1>5, <1>8, <3>1, StepFlight
  <2> QED
    BY <2>1, <2>2
<1>6. CASE Crash
  BY <1>0, <1>6, <1>7, <1>8, CrashFlight DEF Crash
<1> QED
  BY <1>1, <1>2, <1>3, <1>4, <1>5, <1>6 DEF Next


\* Paid after the step.
PaidNext(s, row) ==
  row.tokens <= used'[s] /\ row.cost + Cardinality(Paying(s)') <= Cardinality(Answers(s)')

\* A row stays paid for while what was added and answered keeps up with it.
LEMMA PaidKept ==
  ASSUME Shape, Shape', NEW s \in Sessions, NEW row \in LooseRow, NEW more \in LooseRow,
         Paid(s, row),
         more.tokens - row.tokens <= used'[s] - used[s],
         more.cost - row.cost + Cardinality(Paying(s)') - Cardinality(Paying(s))
           <= Cardinality(Answers(s)') - Cardinality(Answers(s))
  PROVE  PaidNext(s, more)
<1>1. /\ Cardinality(Paying(s)) \in Nat /\ Cardinality(Answers(s)) \in Nat
      /\ used[s] \in Nat /\ used'[s] \in Nat
  BY PayingFacts DEF Shape
<1>2. Cardinality(Paying(s)') \in Nat /\ Cardinality(Answers(s)') \in Nat
  <2>1. IsFiniteSet(Paying(s)')
    BY FS_Subset, StoreAssumption DEF Paying
  <2>2. Answers(s)' \in SUBSET (1 .. Len(msgs'[s])) /\ Len(msgs'[s]) \in Nat
    BY DEF Answers, Shape
  <2>3. IsFiniteSet(Answers(s)')
    <3>1. IsFiniteSet(1 .. Len(msgs'[s]))
      BY <2>2, FS_Interval
    <3> QED
      BY <2>2, <3>1, FS_Subset
  <2> QED
    BY <2>1, <2>3, FS_CardinalityType
<1>3. row.tokens \in Nat /\ row.cost \in Nat /\ more.tokens \in Nat /\ more.cost \in Nat
  BY DEF LooseRow
<1> QED
  BY <1>1, <1>2, <1>3 DEF Paid, PaidNext

\* Rows and totals as they are between any two steps.
Counted == AllPaid /\ Totals

\* What a step of c does to what is paid for and to what was added.
Fair(s) == /\ used'[s] >= used[s]
           /\ Cardinality(Paying(s)') - Cardinality(Paying(s)) <= Cardinality(Answers(s)') - Cardinality(Answers(s))

LEMMA CountedByRows ==
  ASSUME Shape, Shape', Stages, Stages', Counted, NEW c \in Callers,
         \A s \in Sessions : Fair(s),
         \A x \in Callers \ {c} : call'[x] = call[x],
         \A s \in Sessions : call'[c].pc = "save" /\ call'[c].sess = s => PaidNext(s, call'[c].copy),
         \A s \in Sessions : rows'[s] # NoRow /\ rows'[s] # rows[s] => PaidNext(s, rows'[s]),
         inner' = inner, lost \subseteq lost',
         \A s \in Sessions : rows'[s] # NoRow /\ (s \notin lost' \/ inner = "memory") =>
           \/ rows'[s] = rows[s] /\ used'[s] = used[s]
           \/ rows'[s].tokens = used'[s]
  PROVE  Counted'
<1>1. ASSUME NEW s \in Sessions, NEW row \in LooseRow, Paid(s, row)
      PROVE  PaidNext(s, row)
  <2>1. row.tokens - row.tokens = 0 /\ row.cost - row.cost = 0
    BY DEF LooseRow
  <2>2. /\ Cardinality(Paying(s)') \in Int /\ Cardinality(Paying(s)) \in Int
        /\ used[s] \in Int /\ used'[s] \in Int
    <3>1. IsFiniteSet(Paying(s)')
      BY FS_Subset, StoreAssumption DEF Paying
    <3> QED
      BY <3>1, PayingFacts, FS_CardinalityType DEF Shape
  <2>3. /\ row.tokens - row.tokens <= used'[s] - used[s]
        /\ row.cost - row.cost + Cardinality(Paying(s)') - Cardinality(Paying(s))
             <= Cardinality(Answers(s)') - Cardinality(Answers(s))
    BY <2>1, <2>2 DEF Fair
  <2> QED
    BY <1>1, <2>3, PaidKept
<1>2. ASSUME NEW s \in Sessions, rows'[s] # NoRow
      PROVE  PaidNext(s, rows'[s])
  <2>1. CASE rows'[s] = rows[s]
    <3>1. Paid(s, rows[s]) /\ rows[s] \in LooseRow
      BY <1>2, <2>1 DEF Counted, AllPaid, Shape
    <3> DEFINE row == rows'[s]
    <3> QED
      BY <1>1, <2>1, <3>1
  <2> QED
    BY <1>2, <2>1
<1>3. ASSUME NEW x \in Callers, call'[x].pc = "save", NEW s \in Sessions, s = call'[x].sess
      PROVE  PaidNext(s, call'[x].copy)
  <2>1. CASE x = c
    BY <1>3, <2>1
  <2>2. CASE x # c
    <3>1. /\ call'[x] = call[x] /\ Paid(s, call[x].copy) /\ call[x].copy \in LooseRow
      BY <1>3, <2>2, CallFacts DEF Counted, AllPaid, At
    <3> QED
      BY <1>1, <3>1
  <2> QED
    BY <2>1, <2>2
<1>4. AllPaid'
  <2>1. ASSUME NEW s \in Sessions, rows'[s] # NoRow
        PROVE  Paid(s, rows[s])'
    BY <1>2, <2>1 DEF Paid, PaidNext
  <2>2. ASSUME NEW x \in Callers, call'[x].pc = "save"
        PROVE  Paid(call[x].sess, call[x].copy)'
    <3>1. call'[x].sess \in Sessions
      BY <2>2 DEF Stages, CallStage, Shape
    <3>2. PICK s \in Sessions : s = call'[x].sess
      BY <3>1
    <3>3. PaidNext(s, call'[x].copy)
      BY <1>3, <2>2, <3>2
    <3>4. Paid(call[x].sess, call[x].copy)' <=> PaidNext(s, call'[x].copy)
      BY <3>2 DEF Paid, PaidNext, Paying, Answers
    <3> QED
      BY <3>3, <3>4
  <2> QED
    BY <2>1, <2>2 DEF AllPaid, At
<1>5. Totals'
  BY DEF Counted, Totals
<1> QED
  BY <1>4, <1>5 DEF Counted


\* A step of c that stores no message and pays for none counts nothing against anybody.
LEMMA StepFair ==
  ASSUME Shape, Shape', Stages, MessageBound, NEW c \in Callers, Step(c), NEW s \in Sessions
  PROVE  /\ Fair(s)
         /\ At(c, "touch") /\ call[c].op = "assistant" /\ call[c].sess = s
              => Cardinality(Paying(s)') <= Cardinality(Paying(s)) - 1 /\ Answers(s)' = Answers(s)
         /\ MemoryAppend(c) /\ call[c].op = "assistant" /\ call[c].sess = s
              => /\ Cardinality(Answers(s)') = Cardinality(Answers(s)) + 1
                 /\ Cardinality(Paying(s)') <= Cardinality(Paying(s))
<1>1. /\ Cardinality(Paying(s)) \in Nat /\ Cardinality(Answers(s)) \in Nat
      /\ used[s] \in Nat /\ used'[s] \in Nat /\ Cardinality(Paying(s)') \in Nat
  <2>1. IsFiniteSet(Paying(s)')
    BY FS_Subset, StoreAssumption DEF Paying
  <2> QED
    BY <2>1, PayingFacts, FS_CardinalityType DEF Shape
<1>2. used'[s] >= used[s]
  <2>1. CASE AddUsage(c)
    <3>1. used' = used \/ used' = [used EXCEPT ![call[c].sess] = used[call[c].sess] + 1]
      BY <2>1 DEF AddUsage
    <3>2. used \in [Sessions -> Nat]
      BY DEF Shape
    <3>3. used'[s] = used[s] \/ used'[s] = used[s] + 1
      BY <3>1, <3>2
    <3> QED
      BY <1>1, <3>3
  <2>2. CASE ~AddUsage(c)
    <3>1. used' = used
      BY <2>2 DEF Step, OnceDo, OnceDone, MaterializeTake, MaterializeCreate, MaterializeRestore,
         AppendRefused, MemoryAppend, AppendInsert, AppendTouch, UpdateRefused, MemoryUpdate, UpdateRead,
         UnlockedUpdate, UpdateSave, histVars
    <3> QED
      BY <1>1, <3>1
  <2> QED
    BY <2>1, <2>2
<1>3. CASE Appended(c)
  <2>1. /\ call[c].sess \in Sessions /\ NewMessage(c) \in Messages /\ NewMessage(c).role = call[c].op
        /\ Len(msgs[call[c].sess]) < MaxMessages /\ At(c, "write") /\ call[c].op \in {"user", "assistant"}
        /\ msgs' = [msgs EXCEPT ![call[c].sess] = Append(@, NewMessage(c))]
    BY <1>3, AppendedFacts
  <2>2. CASE call[c].sess = s
    <3>1. Cardinality(Answers(s)') = IF call[c].op = "assistant" THEN Cardinality(Answers(s)) + 1
                                                               ELSE Cardinality(Answers(s))
      BY <2>1, <2>2, AppendAnswers
    <3>2. ~AppendInsert(c) \/ ~MemoryAppend(c)
      BY DEF AppendInsert, MemoryAppend
    <3> QED
      BY <1>1, <1>2, <2>1, <3>1, <3>2, StepPaying DEF Fair, At
  <2>3. CASE call[c].sess # s
    <3>1. Answers(s)' = Answers(s)
      BY <2>1, <2>3, AppendAnswers
    <3> QED
      BY <1>1, <1>2, <2>3, <3>1, StepPaying DEF Fair
  <2> QED
    BY <2>2, <2>3
<1>4. CASE ~Appended(c)
  <2>1. msgs' = msgs
    BY <1>4 DEF Appended, Step, OnceDo, OnceDone, MaterializeTake, MaterializeCreate,
       MaterializeRestore,
       AddUsage, AppendRefused, AppendTouch, UpdateRefused, MemoryUpdate, UpdateRead, UnlockedUpdate, UpdateSave,
       innerVars
  <2>2. Answers(s)' = Answers(s)
    BY <2>1 DEF Answers
  <2> QED
    BY <1>1, <1>2, <1>4, <2>2, StepPaying DEF Fair, Appended
<1> QED
  BY <1>3, <1>4

LEMMA StepCounted ==
  ASSUME Shape, Shape', Stages, Stages', MessageBound, Counted, NEW c \in Callers, Step(c)
  PROVE  Counted'
<1> USE DEF innerVars, histVars, lazyVars
<1>1. \A s \in Sessions : Fair(s)
  BY StepFair
<1>2. /\ \A x \in Callers \ {c} : call'[x] = call[x]
      /\ call'[c].pc = "save" => UpdateRead(c)
      /\ call'[c] = Idle \/ call'[c].sess = call[c].sess
  BY StepCall
<1>3. inner' = inner /\ lost \subseteq lost'
  BY DEF Step, OnceDo, OnceDone, MaterializeTake, MaterializeCreate, MaterializeRestore, AddUsage,
     AppendRefused,
     MemoryAppend, AppendInsert, AppendTouch, UpdateRefused, MemoryUpdate, UpdateRead, UnlockedUpdate, UpdateSave
<1>4. /\ call[c].pc # "idle" => call[c].sess \in Sessions
      /\ call[c].copy \in LooseRow /\ CallStage(c)
      /\ \A s \in Sessions : rows[s] \in LooseRow /\ rows'[s] \in LooseRow
  BY CallFacts DEF Stages, CallStage, Shape
<1>0. call[c].pc # "idle"
  BY DEF Step, OnceDo, OnceDone, MaterializeTake, MaterializeCreate, MaterializeRestore, AddUsage,
     AppendRefused,
     MemoryAppend, AppendInsert, AppendTouch, UpdateRefused, MemoryUpdate, UpdateRead, UnlockedUpdate, UpdateSave, At
<1> SUFFICES ASSUME NEW k \in Sessions, k = call[c].sess
             PROVE  Counted'
  BY <1>0, <1>4
<1> DEFINE NewRowPaid == \A s \in Sessions : rows'[s] # NoRow /\ rows'[s] # rows[s] => PaidNext(s, rows'[s])
           NewCopyPaid == \A s \in Sessions : call'[c].pc = "save" /\ call'[c].sess = s => PaidNext(s, call'[c].copy)
           Exact == \A s \in Sessions : rows'[s] # NoRow /\ (s \notin lost' \/ inner = "memory") =>
                      \/ rows'[s] = rows[s] /\ used'[s] = used[s]
                      \/ rows'[s].tokens = used'[s]
<1>5. CASE UpdateRead(c)
  <2>1. /\ rows' = rows /\ used' = used /\ rows[k] # NoRow
        /\ call'[c] = [call[c] EXCEPT !.pc = "save", !.copy = Updated(c)]
    BY <1>5, SetFacts DEF UpdateRead, UnlockedUpdate, SessionExists
  <2>2. Updated(c).tokens = rows[k].tokens /\ Updated(c).cost = rows[k].cost /\ Updated(c) \in LooseRow
    BY <1>4, <1>5, SetRow DEF Updated, CallStage, UpdateRead, UnlockedUpdate, At
  <2>3. call'[c].copy = Updated(c) /\ call'[c].sess = k
    BY <2>1, CallFacts
  <2>4. PaidNext(k, Updated(c))
    <3>1. Paid(k, rows[k])
      BY <2>1 DEF Counted, AllPaid
    <3>2. /\ Updated(c).tokens - rows[k].tokens <= used'[k] - used[k]
          /\ Updated(c).cost - rows[k].cost + Cardinality(Paying(k)') - Cardinality(Paying(k))
                 <= Cardinality(Answers(k)') - Cardinality(Answers(k))
      <4>1. /\ Cardinality(Paying(k)') \in Int /\ Cardinality(Paying(k)) \in Int
            /\ used[k] \in Int
        <5>1. IsFiniteSet(Paying(k)')
          BY FS_Subset, StoreAssumption DEF Paying
        <5> QED
          BY <5>1, PayingFacts, FS_CardinalityType DEF Shape
      <4>2. Updated(c).tokens - rows[k].tokens = 0 /\ Updated(c).cost - rows[k].cost = 0 /\ used'[k] - used[k] = 0
        BY <1>4, <2>1, <2>2, <4>1 DEF LooseRow
      <4> QED
        BY <1>1, <4>1, <4>2 DEF Fair
    <3> QED
      BY <1>4, <2>2, <3>1, <3>2, PaidKept
  <2>5. NewRowPaid /\ NewCopyPaid /\ Exact
    BY <2>1, <2>3, <2>4
  <2> HIDE DEF NewRowPaid, NewCopyPaid, Exact
  <2> QED
    BY <1>1, <1>2, <1>3, <2>5, CountedByRows DEF NewRowPaid, NewCopyPaid, Exact
<1>6. CASE ~UpdateRead(c)
  <2>1. NewCopyPaid
    BY <1>2, <1>6
  <2>2. NewRowPaid /\ Exact
    <3>1. CASE rows' = rows /\ used' = used
      BY <3>1
    <3> DEFINE old == rows[k]
               new == rows'[k]
    <3>2. /\ Cardinality(Paying(k)') \in Int /\ Cardinality(Paying(k)) \in Nat /\ Cardinality(Answers(k)) \in Nat
          /\ used[k] \in Nat /\ used'[k] \in Nat /\ Fair(k)
          /\ old.tokens \in Nat /\ old.cost \in Nat /\ new.tokens \in Nat /\ new.cost \in Nat
      <4>1. IsFiniteSet(Paying(k)')
        BY FS_Subset, StoreAssumption DEF Paying
      <4>2. Cardinality(Paying(k)') \in Int /\ Cardinality(Paying(k)) \in Nat /\ Cardinality(Answers(k)) \in Nat
        BY <4>1, PayingFacts, FS_CardinalityType
      <4>3. used[k] \in Nat /\ used'[k] \in Nat
        BY DEF Shape
      <4>4. old.tokens \in Nat /\ old.cost \in Nat /\ new.tokens \in Nat /\ new.cost \in Nat
        BY <1>4 DEF LooseRow
      <4> QED
        BY <1>1, <4>2, <4>3, <4>4
    <3>3. old # NoRow => Paid(k, old)
      BY DEF Counted, AllPaid
    <3>4. ASSUME \A t \in Sessions \ {k} : rows'[t] = rows[t] /\ used'[t] = used[t],
                 PaidNext(k, new),
                 k \notin lost' \/ inner = "memory" => new.tokens = used'[k]
          PROVE  NewRowPaid /\ Exact
      BY <3>4
    <3> HIDE DEF NewRowPaid, Exact
    <3>5. CASE AddUsage(c)
      <4>1. CASE rows' = [rows EXCEPT ![k] = WithUsage(old)] /\ used' = [used EXCEPT ![k] = used[k] + 1]
                 /\ old # NoRow /\ lost' = lost
        <5>1. new = WithUsage(old) /\ used'[k] = used[k] + 1
              /\ \A t \in Sessions \ {k} : rows'[t] = rows[t] /\ used'[t] = used[t]
          BY <4>1 DEF Shape
        <5>2. new.tokens = old.tokens + 1 /\ new.cost = old.cost
          BY <1>4, <5>1, UsedRow
        <5>3. PaidNext(k, new)
          BY <1>4, <3>2, <3>3, <4>1, <5>1, <5>2, PaidKept DEF Fair
        <5>4. k \notin lost' \/ inner = "memory" => new.tokens = used'[k]
          BY <4>1, <5>1, <5>2 DEF Counted, Totals
        <5> QED
          BY <3>4, <5>1, <5>3, <5>4
      <4>2. CASE rows' = rows /\ used' = used
        BY <3>1, <4>2
      <4> QED
        BY <3>5, <4>1, <4>2 DEF AddUsage
    <3>6. ASSUME rows' = [rows EXCEPT ![k] = new], used' = used, old # NoRow, new.tokens = old.tokens,
                 lost' = lost,
                 new.cost - old.cost + Cardinality(Paying(k)') - Cardinality(Paying(k))
                   <= Cardinality(Answers(k)') - Cardinality(Answers(k))
          PROVE  NewRowPaid /\ Exact
      <4>1. used'[k] = used[k] /\ \A t \in Sessions \ {k} : rows'[t] = rows[t] /\ used'[t] = used[t]
        BY <3>6 DEF Shape
      <4>2. PaidNext(k, new)
        BY <1>4, <3>2, <3>3, <3>6, <4>1, PaidKept
      <4>3. k \notin lost' \/ inner = "memory" => new.tokens = used'[k]
        BY <3>6, <4>1 DEF Counted, Totals
      <4> QED
        BY <3>4, <4>1, <4>2, <4>3
    <3>7. CASE MemoryAppend(c)
      <4>1. /\ call[c].op \in {"user", "assistant"} /\ NextId \in Ids /\ old # NoRow
            /\ NewMessage(c).role = call[c].op /\ NewMessage(c).id = NextId
        BY <3>7, AppendedFacts DEF Appended
      <4>2. /\ rows' = [rows EXCEPT ![k] = Touched(old, call[c].op, NextId)] /\ used' = used /\ lost' = lost
        BY <3>7, <4>1 DEF MemoryAppend
      <4>3. new = Touched(old, call[c].op, NextId)
        BY <4>2 DEF Shape
      <4>4. new.tokens = old.tokens /\ new.cost = IF call[c].op = "user" THEN old.cost ELSE old.cost + 1
        BY <1>4, <4>1, <4>3, TouchedRow
      <4>5. call[c].op = "assistant" => /\ Cardinality(Answers(k)') = Cardinality(Answers(k)) + 1
                                        /\ Cardinality(Paying(k)') <= Cardinality(Paying(k))
        BY <3>7, StepFair
      <4>6. new.cost - old.cost + Cardinality(Paying(k)') - Cardinality(Paying(k))
                   <= Cardinality(Answers(k)') - Cardinality(Answers(k))
        BY <3>2, <4>1, <4>4, <4>5 DEF Fair
      <4> QED
        BY <3>6, <4>1, <4>2, <4>3, <4>4, <4>6
    <3>8. CASE AppendTouch(c)
      <4>1. CASE rows' = rows
        BY <3>1, <3>8, <4>1 DEF AppendTouch
      <4>2. CASE rows' # rows
        <5>1. /\ rows' = [rows EXCEPT ![k] = Touched(old, call[c].op, call[c].copy.title)]
              /\ used' = used /\ lost' = lost /\ At(c, "touch")
          BY <3>8, <4>2 DEF AppendTouch
        <5>2. old # NoRow /\ call[c].op \in {"user", "assistant"} /\ call[c].copy.title \in Ids
          BY <1>4, <5>1 DEF CallStage, At
        <5>3. new = Touched(old, call[c].op, call[c].copy.title)
          BY <5>1 DEF Shape
        <5>4. new.tokens = old.tokens /\ new.cost = IF call[c].op = "user" THEN old.cost ELSE old.cost + 1
          BY <1>4, <5>2, <5>3, TouchedRow
        <5>5. call[c].op = "assistant" => /\ Cardinality(Paying(k)') <= Cardinality(Paying(k)) - 1
                                          /\ Answers(k)' = Answers(k)
          BY <5>1, StepFair
        <5>6. new.cost - old.cost + Cardinality(Paying(k)') - Cardinality(Paying(k))
                   <= Cardinality(Answers(k)') - Cardinality(Answers(k))
          BY <3>2, <5>2, <5>4, <5>5 DEF Fair
        <5> QED
          BY <3>6, <5>1, <5>2, <5>3, <5>4, <5>6
      <4> QED
        BY <4>1, <4>2
    <3>9. CASE MemoryUpdate(c)
      <4>1. /\ rows' = [rows EXCEPT ![k] = Updated(c)] /\ used' = used /\ lost' = lost /\ old # NoRow
            /\ call[c].copy.conf \in Confs
        BY <1>4, <3>9 DEF MemoryUpdate, SessionExists, CallStage, At
      <4>2. new = Updated(c)
        BY <4>1 DEF Shape
      <4>3. new.tokens = old.tokens /\ new.cost = old.cost
        BY <1>4, <4>1, <4>2, SetRow DEF Updated
      <4>4. new.cost - old.cost + Cardinality(Paying(k)') - Cardinality(Paying(k))
                   <= Cardinality(Answers(k)') - Cardinality(Answers(k))
        BY <3>2, <4>3 DEF Fair
      <4> QED
        BY <3>6, <4>1, <4>2, <4>3, <4>4
    <3>10. CASE UpdateSave(c)
      <4>1. CASE rows' = rows
        BY <3>1, <3>10, <4>1 DEF UpdateSave
      <4>2. CASE rows' # rows
        <5>1. /\ rows' = [rows EXCEPT ![k] = call[c].copy] /\ used' = used
              /\ lost' = IF Stale(call[c].copy, old) THEN lost \cup {k} ELSE lost
              /\ At(c, "save")
          BY <3>10, <4>2 DEF UpdateSave
        <5>2. old # NoRow /\ inner = "sqlite" /\ Paid(k, call[c].copy)
          BY <1>4, <5>1 DEF CallStage, At, Counted, AllPaid
        <5>3. new = call[c].copy /\ used'[k] = used[k]
              /\ \A t \in Sessions \ {k} : rows'[t] = rows[t] /\ used'[t] = used[t]
          BY <5>1 DEF Shape
        <5>4. PaidNext(k, new)
          <6>1. new.cost - new.cost = 0 /\ new.tokens - new.tokens = 0 /\ new \in LooseRow
            BY <1>4, <3>2
          <6> QED
            BY <3>2, <5>2, <5>3, <6>1, PaidKept DEF Fair
        <5>5. k \notin lost' \/ inner = "memory" => new.tokens = used'[k]
          BY <5>1, <5>2, <5>3 DEF Stale, Counted, Totals
        <5> QED
          BY <3>4, <5>3, <5>4, <5>5
      <4> QED
        BY <4>1, <4>2
    <3>11. CASE MaterializeCreate(c)
      <4>1. CASE rows' = rows
        BY <3>1, <3>11, <4>1 DEF MaterializeCreate
      <4>2. CASE rows' # rows
        <5>1. rows' = [rows EXCEPT ![k] = call[c].copy] /\ used' = used /\ old = NoRow /\ At(c, "create")
              /\ msgs' = msgs
          BY <3>11, <4>2 DEF MaterializeCreate
        <5>2. call[c].copy.tokens = 0 /\ call[c].copy.cost = 0 /\ used[k] = 0
          BY <1>4, <5>1 DEF CallStage, At, Stages, RowStage
        <5>3. new = call[c].copy /\ used'[k] = used[k]
              /\ \A t \in Sessions \ {k} : rows'[t] = rows[t] /\ used'[t] = used[t]
          BY <5>1 DEF Shape
        <5>4. Paying(k) = {}
          BY <5>1 DEF Paying, Stages, CallStage, At
        <5>5. Cardinality(Paying(k)') <= 0
          <6>1. Cardinality(Paying(k)) = 0
            BY <5>4, FS_EmptySet
          <6>2. ~AppendInsert(c)
            BY <5>1 DEF AppendInsert, At
          <6> QED
            BY <6>1, <6>2, StepPaying
        <5>6. Answers(k)' = Answers(k)
          BY <5>1 DEF Answers
        <5> QED
          BY <3>2, <3>4, <5>2, <5>3, <5>5, <5>6 DEF PaidNext
      <4> QED
        BY <4>1, <4>2
    <3>12. CASE \/ OnceDo(c) \/ OnceDone(c) \/ MaterializeTake(c) \/ MaterializeRestore(c) \/ AppendRefused(c)
                \/ AppendInsert(c) \/ UpdateRefused(c)
      BY <3>1, <3>12 DEF OnceDo, OnceDone, MaterializeTake, MaterializeRestore, AppendRefused,
         AppendInsert,
         UpdateRefused
    <3> QED
      BY <1>6, <3>5, <3>7, <3>8, <3>9, <3>10, <3>11, <3>12 DEF Step
  <2> HIDE DEF NewRowPaid, NewCopyPaid, Exact
  <2> QED
    BY <1>1, <1>2, <1>3, <2>1, <2>2, CountedByRows DEF NewRowPaid, NewCopyPaid, Exact
<1> QED
  BY <1>5, <1>6


\* The other steps change no row and no total.
LEMMA CountedKept ==
  ASSUME Shape, Shape', Stages, Stages', MessageBound, Counted, [Next]_vars
  PROVE  Counted'
<1>1. CASE UNCHANGED vars
  BY <1>1 DEF vars, innerVars, lazyVars, histVars, Counted, AllPaid, Totals, Paid, Paying, Answers, At
<1>2. ASSUME NEW s \in Sessions, CreateSession(s) \/ dropPending(s)
      PROVE  Counted'
  <2>1. UNCHANGED <<inner, rows, msgs, call, used, lost>>
    BY <1>2 DEF CreateSession, dropPending, innerVars, histVars
  <2> QED
    BY <2>1 DEF Counted, AllPaid, Totals, Paid, Paying, Answers, At
<1>3. ASSUME NEW c \in Callers, NEW s \in Sessions, NEW op \in Writes, NEW v \in Confs,
             MaterializeLookup(c, op, s) \/ UpdateLookup(c, s, v)
      PROVE  Counted'
  <2>1. /\ \A x \in Callers : call'[x].pc = "save" => call'[x] = call[x]
        /\ \A t \in Sessions : Paying(t)' = Paying(t)
        /\ UNCHANGED <<inner, rows, msgs, used, lost>>
    <3>1. {} \in SUBSET Writes
      OBVIOUS
    <3> QED
      BY <1>3, <3>1, LookupFlight
  <2>2. \A t \in Sessions : Answers(t)' = Answers(t)
    BY <2>1 DEF Answers
  <2>3. \A t \in Sessions, row \in LooseRow : Paid(t, row) => PaidNext(t, row)
    BY <2>1, <2>2 DEF Paid, PaidNext
  <2>4. AllPaid'
    <3>1. ASSUME NEW t \in Sessions, rows'[t] # NoRow
          PROVE  Paid(t, rows[t])'
      BY <2>1, <2>2, <3>1 DEF Counted, AllPaid, Paid
    <3>2. ASSUME NEW x \in Callers, call'[x].pc = "save"
          PROVE  Paid(call[x].sess, call[x].copy)'
      <4>1. call'[x] = call[x] /\ call[x].sess \in Sessions /\ Paid(call[x].sess, call[x].copy)
        BY <2>1, <3>2 DEF Counted, AllPaid, At, Stages, CallStage, Shape
      <4>2. PICK t \in Sessions : t = call[x].sess
        BY <4>1
      <4>3. Paid(t, call[x].copy) /\ t = call'[x].sess /\ call'[x].copy = call[x].copy
        BY <4>1, <4>2
      <4>4. used' = used /\ Paying(t)' = Paying(t) /\ Answers(t)' = Answers(t)
        BY <2>1, <2>2
      <4>5. PaidNext(t, call'[x].copy)
        BY <4>3, <4>4 DEF Paid, PaidNext
      <4>6. Paid(call[x].sess, call[x].copy)' <=> PaidNext(t, call'[x].copy)
        BY <4>3 DEF Paid, PaidNext, Paying, Answers
      <4> QED
        BY <4>5, <4>6
    <3> QED
      BY <3>1, <3>2 DEF AllPaid, At
  <2>5. Totals'
    BY <2>1 DEF Counted, Totals
  <2> QED
    BY <2>4, <2>5 DEF Counted
<1>5. ASSUME NEW c \in Callers, Step(c)
      PROVE  Counted'
  BY <1>5, StepCounted
<1>6. CASE Crash
  <2>1. /\ \A x \in Callers : call'[x].pc # "save"
        /\ UNCHANGED <<inner, rows, msgs, used, lost>>
    BY <1>6, IdleFacts DEF Crash, innerVars
  <2>2. \A t \in Sessions : Paying(t)' = {}
    <3>1. {} \in SUBSET Writes
      OBVIOUS
    <3> QED
      BY <1>6, <3>1, CrashFlight
  <2>3. ASSUME NEW t \in Sessions, rows'[t] # NoRow
        PROVE  Paid(t, rows[t])'
    <3>1. Paid(t, rows[t]) /\ rows[t] \in LooseRow
      BY <2>1, <2>3 DEF Counted, AllPaid, Shape
    <3>2. Answers(t)' = Answers(t)
      BY <2>1 DEF Answers
    <3>3. /\ Cardinality(Paying(t)) \in Nat /\ Cardinality(Answers(t)) \in Nat /\ rows[t].cost \in Nat
          /\ Cardinality({}) = 0
      BY <3>1, PayingFacts, FS_EmptySet DEF LooseRow
    <3>4. rows[t].cost + Cardinality({}) <= Cardinality(Answers(t))
      BY <3>1, <3>3 DEF Paid
    <3> QED
      BY <2>1, <2>2, <3>1, <3>2, <3>4 DEF Paid
  <2> QED
    BY <2>1, <2>3 DEF Counted, AllPaid, Totals, At
<1>7. ASSUME NEW c \in Callers, NEW s \in Sessions, NEW op \in Writes, MaterializeLookup(c, op, s)
      PROVE  Counted'
  <2>1. PICK v \in Confs : TRUE
    BY StoreAssumption
  <2> QED
    BY <1>3, <1>7
<1>8. ASSUME NEW c \in Callers, NEW s \in Sessions, NEW v \in Confs, UpdateLookup(c, s, v)
      PROVE  Counted'
  <2>1. "user" \in Writes
    BY DEF Writes
  <2> QED
    BY <1>3, <1>8, <2>1
<1> QED
  BY <1>1, <1>2, <1>5, <1>6, <1>7, <1>8 DEF Next

-----------------------------------------------------------------------------
(* The invariant.                                                           *)

\* The inductive invariant: the types, where each session and each call is, and what the
\* totals may be.
StoreInductive == Shape /\ Stages /\ Bounds

LEMMA InitInductive ==
  ASSUME Init
  PROVE  StoreInductive
<1>1. Shape
  <2>1. call \in [Callers -> Calls] /\ pending \in [Sessions -> LooseRow] /\ rows \in [Sessions -> LooseRow]
    BY NoRowFacts, IdleFacts DEF Init
  <2>2. \A s \in Sessions : msgs[s] \in Seq(Messages)
    BY DEF Init
  <2> QED
    BY <2>1, <2>2, StoreAssumption DEF Init, Shape
<1>2. Stages
  <2>1. \A c \in Callers : call[c] = Idle
    BY DEF Init
  <2>2. ASSUME NEW c \in Callers PROVE CallStage(c)
    BY <2>1, IdleFacts, NoRowFacts DEF CallStage, Running, Holding
  <2>3. \A s \in Sessions : Holders(s) = {}
    BY <2>1, IdleFacts DEF Holders
  <2>4. ASSUME NEW s \in Sessions PROVE RowStage(s) /\ Apart(s)
    BY <2>3, NoRowFacts DEF Init, RowStage, Apart
  <2>5. SessionKept
    BY DEF Init, SessionKept, Known
  <2>6. Served
    BY DEF Init, Served
  <2> QED
    BY <2>2, <2>4, <2>5, <2>6 DEF Stages
<1>3. Bounds
  <2>1. \A s \in Sessions : Len(msgs[s]) = 0 /\ DOMAIN msgs[s] = {} /\ used[s] = 0 /\ rows[s] = NoRow
    BY DEF Init
  <2>2. \A ops : ops \in SUBSET Writes => InFlight(ops) = 0
    <3> SUFFICES ASSUME NEW ops \in SUBSET Writes PROVE InFlight(ops) = 0
      OBVIOUS
    <3>1. Writing(ops) = {}
      BY IdleFacts DEF Init, Writing, Writes
    <3>2. InFlight(ops) = Cardinality(Writing(ops))
      BY DEF InFlight, Writing
    <3> QED
      BY <3>1, <3>2, FS_EmptySet
  <2>3. NextId = 1
    <3>1. Stored = {}
      BY <2>1 DEF Stored, Ids
    <3>2. NextId = 1 + Cardinality(Stored)
      BY DEF NextId, Stored
    <3> QED
      BY <3>1, <3>2, FS_EmptySet
  <2>4. {"user", "assistant"} \in SUBSET Writes /\ {"usage"} \in SUBSET Writes
    BY DEF Writes
  <2>5. \A c \in Callers : ~At(c, "save")
    BY IdleFacts DEF Init, At
  <2> QED
    BY <2>1, <2>2, <2>3, <2>4, <2>5, StoreAssumption
    DEF Bounds, Short, MessageBound, UsageBound, Older, AllPaid, Totals
<1> QED
  BY <1>1, <1>2, <1>3 DEF StoreInductive

LEMMA NextInductive ==
  ASSUME StoreInductive, [Next]_vars
  PROVE  StoreInductive'
<1>1. Shape /\ Stages /\ Numbered /\ UsageBound /\ Counted /\ MessageBound
  BY DEF StoreInductive, Bounds, Numbered, Counted
<1>2. Shape' /\ Stages'
  BY <1>1, StagesInductive
<1>3. Numbered' /\ UsageBound' /\ Counted'
  BY <1>1, <1>2, NumberedKept, UsageBoundKept, CountedKept
<1> QED
  BY <1>2, <1>3 DEF StoreInductive, Bounds, Numbered, Counted

LEMMA InductiveTyping ==
  ASSUME StoreInductive
  PROVE  TypeOK
<1>1. Shape /\ Stages /\ Bounds
  BY DEF StoreInductive
<1>2. ASSUME NEW s \in Sessions PROVE used[s] \in 0 .. MaxUsage
  <2>1. used[s] + InFlight({"usage"}) <= MaxUsage /\ InFlight({"usage"}) \in Nat /\ used[s] \in Nat
    BY <1>1, FlightFacts DEF Bounds, UsageBound, Shape
  <2> QED
    BY <2>1, StoreAssumption
<1>3. \A s \in Sessions, row \in LooseRow : Paid(s, row) => row \in Row
  <2> SUFFICES ASSUME NEW s \in Sessions, NEW row \in LooseRow, Paid(s, row) PROVE row \in Row
    OBVIOUS
  <2>1. /\ Cardinality(Paying(s)) \in Nat /\ Cardinality(Answers(s)) \in Nat
        /\ Cardinality(Answers(s)) <= Len(msgs[s]) /\ Len(msgs[s]) <= MaxMessages /\ Len(msgs[s]) \in Nat
    BY <1>1, PayingFacts, StoredFacts DEF Bounds, Short
  <2>2. row.tokens \in Nat /\ row.cost \in Nat
    BY DEF LooseRow
  <2>3. row.tokens \in 0 .. MaxUsage
    BY <1>2, <2>2, StoreAssumption DEF Paid
  <2>4. row.cost \in 0 .. MaxMessages
    BY <2>1, <2>2, StoreAssumption DEF Paid
  <2> QED
    BY <2>3, <2>4 DEF Row, LooseRow
<1>4. \A row \in LooseRow : row.tokens = 0 /\ row.cost = 0 => row \in Row
  BY StoreAssumption DEF Row, LooseRow
<1>5. ASSUME NEW s \in Sessions PROVE pending[s] \in Row /\ rows[s] \in Row
  <2>1. pending[s] \in LooseRow /\ rows[s] \in LooseRow /\ Blank(pending[s])
        /\ (rows[s] # NoRow => Paid(s, rows[s]))
    BY <1>1 DEF Shape, Stages, RowStage, Bounds, AllPaid
  <2> QED
    BY <1>3, <1>4, <2>1, NoRowFacts DEF Blank
<1>6. ASSUME NEW c \in Callers
      PROVE  call[c] \in [op : Writes \cup {"none", "update"}, sess : Sessions \cup {"none"},
                          pc : Places, once : Onces \cup {NoOnce}, copy : Row]
  <2>1. CallStage(c) /\ call[c].copy \in LooseRow /\ call[c] \in Calls
    BY <1>1, CallFacts DEF Stages, Shape
  <2>2. call[c].copy \in Row
    <3>1. CASE call[c].pc = "save"
      <4>1. call[c].sess \in Sessions /\ Paid(call[c].sess, call[c].copy)
        BY <1>1, <2>1, <3>1 DEF CallStage, Shape, Bounds, AllPaid, At
      <4> QED
        BY <1>3, <2>1, <4>1
    <3>2. CASE call[c].pc # "save"
      BY <1>4, <2>1, <3>2 DEF CallStage
    <3> QED
      BY <3>1, <3>2
  <2> QED
    BY <2>1, <2>2 DEF Calls
<1>7. pending \in [Sessions -> Row] /\ rows \in [Sessions -> Row] /\ used \in [Sessions -> 0 .. MaxUsage]
  BY <1>1, <1>2, <1>5 DEF Shape
<1>8. call \in [Callers -> [op : Writes \cup {"none", "update"}, sess : Sessions \cup {"none"},
                            pc : Places, once : Onces \cup {NoOnce}, copy : Row]]
  BY <1>1, <1>6 DEF Shape
<1> QED
  BY <1>1, <1>7, <1>8 DEF Shape, TypeOK, Messages

\* The lazy store keeps each session in one place and never loses one, its totals are
\* those that were added, and no caller waits for a Once that nobody runs (lazy.go).
THEOREM StoreHolds == Spec => []StoreInv
<1>1. StoreInductive => StoreInv
  <2> SUFFICES ASSUME StoreInductive PROVE StoreInv
    OBVIOUS
  <2>1. Shape /\ Stages /\ Bounds
    BY DEF StoreInductive
  <2>2. OnePlace
    <3> SUFFICES ASSUME NEW s \in Sessions PROVE Cardinality(Holders(s)) <= 1
      BY <2>1 DEF OnePlace, Stages, Apart
    <3>1. CASE Holders(s) = {}
      BY <3>1, FS_EmptySet
    <3>2. CASE Holders(s) # {}
      <4>1. PICK c : Holders(s) = {c}
        BY <2>1, <3>2 DEF Stages, Apart
      <4> QED
        BY <4>1, FS_Singleton
    <3> QED
      BY <3>1, <3>2
  <2>3. UsageCounted
    <3> SUFFICES ASSUME NEW s \in Sessions, rows[s] # NoRow, s \notin lost \/ inner = "memory"
                 PROVE  rows[s].tokens = used[s] /\ rows[s].cost <= Cardinality(Answers(s))
      BY DEF UsageCounted, Answers
    <3>1. Paid(s, rows[s]) /\ rows[s].cost \in Nat
      BY <2>1 DEF Bounds, AllPaid, Shape, LooseRow
    <3>2. rows[s].cost <= Cardinality(Answers(s))
      BY <2>1, <3>1, PayingFacts DEF Paid
    <3> QED
      BY <2>1, <3>2 DEF Bounds, Totals
  <2>4. WaitersServed
    BY <2>1, CallFacts DEF WaitersServed, Stages, Served, CallStage, At, Shape, Returned
  <2> QED
    BY <2>1, <2>2, <2>3, <2>4, InductiveTyping DEF StoreInv, Stages
<1> QED
  BY <1>1, InitInductive, NextInductive, PTL DEF Spec


-----------------------------------------------------------------------------
(* The title.                                                               *)

LEMMA TitleStep ==
  ASSUME Shape, Stages, MessageBound, [Next]_vars
  PROVE  TitleStays
<1> SUFFICES ASSUME NEW s \in Sessions, rows[s].title # 0
             PROVE  rows'[s].title = rows[s].title \/ s \in lost'
  BY DEF TitleStays
<1>0. rows[s] \in LooseRow /\ rows[s] # NoRow
  BY NoRowFacts DEF Shape
<1>1. ASSUME NEW c \in Callers, Step(c), rows'[s] # rows[s]
      PROVE  rows'[s].title = rows[s].title \/ s \in lost'
  <2>1. call[c].sess = s /\ call[c].pc # "idle" /\ CallStage(c)
    BY <1>1 DEF Step, OnceDo, OnceDone, MaterializeTake, MaterializeCreate, MaterializeRestore,
       AddUsage,
       AppendRefused, MemoryAppend, AppendInsert, AppendTouch, UpdateRefused, MemoryUpdate, UpdateRead,
       UnlockedUpdate, UpdateSave, innerVars, Shape, Stages, At
  <2>2. \/ rows'[s] = WithUsage(rows[s])
        \/ Appended(c) /\ rows'[s] = Touched(rows[s], call[c].op, NextId)
        \/ rows'[s] = Touched(rows[s], call[c].op, call[c].copy.title)
        \/ rows'[s] = Updated(c)
        \/ rows'[s] = call[c].copy /\ (Stale(call[c].copy, rows[s]) => s \in lost')
    <3>1. CASE AddUsage(c)
      BY <1>1, <2>1, <3>1 DEF AddUsage, Shape
    <3>2. CASE MemoryAppend(c)
      <4>1. NewMessage(c).role = call[c].op /\ NewMessage(c).id = NextId
        BY DEF NewMessage
      <4> QED
        BY <2>1, <3>2, <4>1 DEF MemoryAppend, Appended, Shape
    <3>3. CASE AppendTouch(c)
      BY <1>1, <2>1, <3>3 DEF AppendTouch, Shape
    <3>4. CASE MemoryUpdate(c)
      BY <2>1, <3>4 DEF MemoryUpdate, Shape
    <3>5. CASE UpdateSave(c)
      BY <1>1, <2>1, <3>5 DEF UpdateSave, Shape
    <3>6. CASE MaterializeCreate(c)
      BY <1>0, <1>1, <2>1, <3>6 DEF MaterializeCreate, Shape
    <3> QED
      BY <1>1, <3>1, <3>2, <3>3, <3>4, <3>5, <3>6 DEF Step, OnceDo, OnceDone, MaterializeTake,
         MaterializeRestore,
         AppendRefused, AppendInsert, UpdateRefused, UpdateRead, UnlockedUpdate, innerVars
  <2>3. WithUsage(rows[s]).title = rows[s].title
    BY <1>0 DEF WithUsage, LooseRow
  <2>4. \A role, id : Touched(rows[s], role, id).title = rows[s].title
    BY <1>0 DEF Touched, LooseRow
  <2>5. Updated(c).title = rows[s].title
    BY <1>0, <2>1 DEF Updated, LooseRow
  <2> QED
    BY <2>2, <2>3, <2>4, <2>5 DEF Stale
<1>2. CASE ~\E c \in Callers : Step(c)
  <2>1. rows' = rows
    BY <1>2 DEF Next, vars, innerVars, CreateSession, dropPending, MaterializeLookup, UpdateLookup,
       Crash
  <2> QED
    BY <2>1
<1> QED
  BY <1>1, <1>2

\* The title of a session stays, but for a stale row written over it (sqlite_messages.go:83-88).
THEOREM TitleKept == Spec => [][TitleStays]_vars
<1>1. StoreInductive /\ [Next]_vars => [TitleStays]_vars
  BY TitleStep DEF StoreInductive, Bounds
<1> QED
  BY <1>1, InitInductive, NextInductive, PTL DEF Spec


-----------------------------------------------------------------------------
(* The promise of the store.                                                *)

\* The transcript of a session, as Transcripts sees it.
Log == [s \in Sessions |-> [i \in DOMAIN msgs[s] |-> msgs[s][i].id]]

LEMMA LogFacts ==
  ASSUME Shape, NEW s \in Sessions
  PROVE  /\ Log[s] \in Seq(Ids) /\ Len(Log[s]) = Len(msgs[s]) /\ DOMAIN Log[s] = 1 .. Len(msgs[s])
         /\ \A i \in 1 .. Len(msgs[s]) : Log[s][i] = msgs[s][i].id
         /\ msgs[s] = << >> => Log[s] = << >>
<1>1. Log[s] = [i \in 1 .. Len(msgs[s]) |-> msgs[s][i].id] /\ Len(msgs[s]) \in Nat
  BY StoredFacts DEF Log
<1>2. \A i \in 1 .. Len(msgs[s]) : msgs[s][i].id \in Ids
  <2>1. \A i \in 1 .. Len(msgs[s]) : msgs[s][i] \in Messages
    BY DEF Shape
  <2> QED
    BY <2>1 DEF Messages
<1> QED
  BY <1>1, <1>2

LEMMA AppendLog ==
  ASSUME Shape, Shape', NEW s \in Sessions, NEW m \in Messages, Len(msgs[s]) < MaxMessages,
         msgs' = [msgs EXCEPT ![s] = Append(@, m)]
  PROVE  Log' = [Log EXCEPT ![s] = Append(@, m.id)]
<1>1. /\ Len(msgs'[s]) = Len(msgs[s]) + 1 /\ Len(msgs[s]) \in Nat
      /\ \A i \in 1 .. Len(msgs[s]) : msgs'[s][i] = msgs[s][i]
      /\ msgs'[s][Len(msgs[s]) + 1] = m
      /\ \A t \in Sessions \ {s} : msgs'[t] = msgs[t]
  BY AppendTakesId, StoredFacts
<1>2. \A t \in Sessions : Log'[t] = [i \in DOMAIN msgs'[t] |-> msgs'[t][i].id]
  BY DEF Log
<1>3. ASSUME NEW t \in Sessions \ {s} PROVE Log'[t] = Log[t]
  BY <1>1, <1>2 DEF Log
<1>4. Log'[s] = Append(Log[s], m.id)
  <2>1. /\ Log[s] \in Seq(Ids) /\ Len(Log[s]) = Len(msgs[s]) /\ m.id \in Ids
        /\ \A i \in 1 .. Len(msgs[s]) : Log[s][i] = msgs[s][i].id
    BY LogFacts DEF Messages
  <2>2. Log'[s] = [i \in 1 .. Len(msgs[s]) + 1 |-> msgs'[s][i].id]
    <3>1. msgs'[s] \in Seq(Messages)
      BY DEF Shape
    <3>2. DOMAIN msgs'[s] = 1 .. Len(msgs[s]) + 1
      BY <1>1, <3>1
    <3> QED
      BY <1>2, <3>2
  <2>3. /\ Append(Log[s], m.id) \in Seq(Ids) /\ Len(Append(Log[s], m.id)) = Len(msgs[s]) + 1
        /\ \A i \in 1 .. Len(msgs[s]) : Append(Log[s], m.id)[i] = Log[s][i]
        /\ Append(Log[s], m.id)[Len(msgs[s]) + 1] = m.id
    BY <1>1, <2>1
  <2>4. Log'[s] \in Seq(Ids) /\ Len(Log'[s]) = Len(msgs[s]) + 1
    <3>1. \A i \in 1 .. Len(msgs[s]) + 1 : msgs'[s][i].id \in Ids
      BY <1>1, <2>1, LogFacts
    <3> QED
      BY <1>1, <2>2, <3>1
  <2>5. \A i \in 1 .. Len(msgs[s]) + 1 : Log'[s][i] = Append(Log[s], m.id)[i]
    BY <1>1, <2>1, <2>2, <2>3
  <2> QED
    BY <1>1, <2>3, <2>4, <2>5
<1> QED
  BY <1>3, <1>4 DEF Log

\* A session without a row has an empty transcript.
LEMMA EmptyLog ==
  ASSUME Shape, Stages, NEW s \in Sessions, rows[s] = NoRow
  PROVE  Log[s] = << >>
  BY LogFacts DEF Stages, RowStage

LEMMA StepRefines ==
  ASSUME StoreInductive, StoreInductive', [Next]_vars
  PROVE  [T!Next]_(T!vars)
<1>0. Shape /\ Stages /\ MessageBound /\ Older /\ Shape' /\ Stages'
  BY DEF StoreInductive, Bounds
<1>1. Known = created \ gone /\ Known' = created' \ gone'
  BY <1>0 DEF Stages, SessionKept
<1>2. ASSUME Known' = Known, msgs' = msgs
      PROVE  [T!Next]_(T!vars)
  BY <1>2 DEF T!vars
<1>3. CASE UNCHANGED vars
  BY <1>1, <1>2, <1>3 DEF vars, lazyVars, innerVars, histVars
<1>4. ASSUME NEW s \in Sessions, CreateSession(s)
      PROVE  [T!Next]_(T!vars)
  <2>1. s \notin Known /\ Known' = Known \cup {s} /\ Log' = Log /\ rows[s] = NoRow
    BY <1>0, <1>1, <1>4 DEF CreateSession, innerVars, histVars, Log, Shape, Stages, RowStage
  <2>2. Log[s] = << >>
    BY <1>0, <2>1, EmptyLog
  <2>3. T!Open(s)
    BY <2>1, <2>2 DEF T!Open, Log
  <2> QED
    BY <2>3 DEF T!Next
<1>5. ASSUME NEW s \in Sessions, dropPending(s)
      PROVE  [T!Next]_(T!vars)
  <2>1. Log' = Log /\ msgs' = msgs
    BY <1>5 DEF dropPending, innerVars, Log
  <2>2. CASE pending[s] = NoRow
    BY <1>1, <1>2, <1>5, <2>1, <2>2 DEF dropPending
  <2>3. CASE pending[s] # NoRow
    <3>1. Known' = Known \ {s} /\ s \in Known /\ rows[s] = NoRow
      BY <1>0, <1>1, <1>5, <2>3 DEF dropPending, Known, Stages, Apart
    <3>2. Log[s] = << >>
      BY <1>0, <3>1, EmptyLog
    <3>3. {s} \in SUBSET Known /\ T!Discard({s})
      BY <2>1, <3>1, <3>2 DEF T!Discard, Log
    <3> QED
      BY <3>3 DEF T!Next
  <2> QED
    BY <2>2, <2>3
<1>6. ASSUME NEW c \in Callers, NEW s \in Sessions,
             \/ \E op \in Writes : MaterializeLookup(c, op, s)
             \/ \E v \in Confs : UpdateLookup(c, s, v)
      PROVE  [T!Next]_(T!vars)
  BY <1>1, <1>2, <1>6 DEF MaterializeLookup, UpdateLookup, innerVars, histVars
<1>7. ASSUME NEW c \in Callers, Step(c)
      PROVE  [T!Next]_(T!vars)
  <2>1. created' = created /\ gone' = gone
    BY <1>7 DEF Step, OnceDo, OnceDone, MaterializeTake, MaterializeCreate, MaterializeRestore,
       AddUsage,
       AppendRefused, MemoryAppend, AppendInsert, AppendTouch, UpdateRefused, MemoryUpdate, UpdateRead,
       UnlockedUpdate, UpdateSave, lazyVars, histVars
  <2>2. Known' = Known
    BY <1>1, <2>1
  <2>3. CASE ~Appended(c)
    <3>1. msgs' = msgs
      BY <1>7, <2>3 DEF Appended, Step, OnceDo, OnceDone, MaterializeTake, MaterializeCreate,
         MaterializeRestore,
         AddUsage, AppendRefused, AppendTouch, UpdateRefused, MemoryUpdate, UpdateRead, UnlockedUpdate,
         UpdateSave, innerVars
    <3> QED
      BY <1>2, <2>2, <3>1
  <2>4. CASE Appended(c)
    <3> DEFINE m == NewMessage(c)
    <3>1. /\ call[c].sess \in Sessions /\ rows[call[c].sess] # NoRow /\ m \in Messages /\ m.id = NextId
          /\ NextId \in Ids /\ Len(msgs[call[c].sess]) < MaxMessages
          /\ msgs' = [msgs EXCEPT ![call[c].sess] = Append(@, m)]
      BY <1>0, <2>4, AppendedFacts
    <3> HIDE DEF m
    <3>2. PICK s \in Sessions : s = call[c].sess
      BY <3>1
    <3>3. s \in Known
      BY <1>0, <3>1, <3>2 DEF Known, Stages, RowStage
    <3>4. Log' = [Log EXCEPT ![s] = Append(@, NextId)]
      BY <1>0, <3>1, <3>2, AppendLog
    <3>5. \A t \in Sessions : \A i \in DOMAIN Log[t] : Log[t][i] # NextId
      <4> SUFFICES ASSUME NEW t \in Sessions, NEW i \in 1 .. Len(msgs[t]) PROVE msgs[t][i].id # NextId
        BY <1>0, LogFacts
      <4>1. msgs[t][i].id < NextId
        BY <1>0, StoredFacts DEF Older
      <4>2. msgs[t][i].id \in Nat /\ NextId \in Nat
        <5>1. msgs[t][i] \in Messages
          BY <1>0 DEF Shape
        <5> QED
          BY <1>0, <5>1, StoredFacts DEF Messages, Ids
      <4> QED
        BY <4>1, <4>2
    <3>6. PICK n \in Ids : n = NextId
      BY <3>1
    <3>7. T!Append1(s, n)
      BY <2>2, <3>3, <3>4, <3>5, <3>6 DEF T!Append1, Log
    <3> QED
      BY <3>7 DEF T!Next
  <2> QED
    BY <2>3, <2>4
<1>8. CASE Crash
  <2> DEFINE S == {s \in Known : rows[s] = NoRow}
  <2>1. Known' = Known \ S /\ Log' = Log
    BY <1>1, <1>8 DEF Crash, innerVars, Log
  <2>2. \A s \in S : Log[s] = << >>
    BY <1>0, EmptyLog DEF Known, Shape
  <2>3. T!Discard(S)
    BY <2>1, <2>2 DEF T!Discard, Log
  <2> QED
    BY <2>3 DEF T!Next
<1> QED
  BY <1>3, <1>4, <1>5, <1>6, <1>7, <1>8 DEF Next

\* The lazy store keeps the promise of Transcripts, over either inner store and across
\* ends of the process: messages go to open sessions, in order and under fresh ids, and
\* a session that has one is never given up (lazy.go, sqlite_messages.go, memory.go).
THEOREM StoreRefines == Spec => ImplementsTranscripts
<1>1. Init => T!Init
  <2> SUFFICES ASSUME Init PROVE T!Init
    OBVIOUS
  <2>1. Known = {}
    BY DEF Init, Known
  <2>2. \A s \in Sessions : Log[s] = << >>
    BY InitInductive, LogFacts DEF StoreInductive, Init
  <2> QED
    BY <2>1, <2>2 DEF T!Init, Log
<1>2. StoreInductive /\ StoreInductive' /\ [Next]_vars => [T!Next]_(T!vars)
  BY StepRefines
<1> QED
  BY <1>1, <1>2, InitInductive, NextInductive, PTL DEF Spec, ImplementsTranscripts, T!Spec



(***************************************************************************)
(* The transcript and its catalog.                                         *)
(***************************************************************************)
\* A set of numbers has its least, and a bounded one its last.
LEMMA Least ==
  ASSUME NEW D \in SUBSET Nat, D # {}
  PROVE  \E n \in D : \A m \in D : n <= m
<1> DEFINE LessThan == {p \in Nat \X Nat : p[1] < p[2]}
<1>1. IsWellFoundedOn(LessThan, Nat)
  BY ZenonT(20), NatLessThanWellFounded DEF OpToRel
<1>2. PICK n \in D : \A m \in D : ~ (<<m, n>> \in LessThan)
  <2> HIDE DEF LessThan
  <2> QED
    BY <1>1, WFMin
<1>3. ASSUME NEW m \in D PROVE n <= m
  <2>1. ~ (<<m, n>> \in LessThan)
    BY <1>2
  <2>2. ~ (m < n)
    BY <2>1
  <2> QED
    BY <2>2
<1> QED
  BY <1>3

LEMMA Lasts ==
  ASSUME NEW n \in Nat, NEW Elt, Elt \subseteq 1..n, Elt # {}
  PROVE  \E m \in Elt : \A k \in Elt : k <= m
<1> DEFINE LessThan == {p \in Nat \X Nat : p[1] < p[2]}
           D == {n - k : k \in Elt}
<1>1. IsWellFoundedOn(LessThan, Nat)
  BY ZenonT(20), NatLessThanWellFounded DEF OpToRel
<1>2. D \subseteq Nat /\ D # {}
  <2>1. \A k \in Elt : n - k \in Nat /\ n - k \in D
    OBVIOUS
  <2> QED
    BY <2>1
<1>3. PICK x \in D : \A y \in D : ~ (<<y, x>> \in LessThan)
  <2> HIDE DEF D, LessThan
  <2> QED
    BY <1>1, <1>2, WFMin
<1>4. PICK m \in Elt : x = n - m
  OBVIOUS
<1>5. ASSUME NEW k \in Elt PROVE k <= m
  <2>1. n - k \in D /\ n - k \in Nat /\ n - m \in Nat
    OBVIOUS
  <2>2. ~ (<<n - k, n - m>> \in LessThan)
    BY <1>3, <1>4, <2>1
  <2>3. ~ (n - k < n - m)
    BY <2>1, <2>2
  <2> QED
    BY <2>3
<1> QED
  BY <1>5

LEMMA MaxIn ==
  ASSUME NEW n \in Nat, NEW Elt, Elt \subseteq 1..n, Elt # {}
  PROVE  Max(Elt) \in Elt /\ \A k \in Elt : k <= Max(Elt)
<1>1. PICK m \in Elt : \A k \in Elt : k <= m
  BY Lasts
<1>2. \A k \in Elt : m >= k
  BY <1>1
<1> QED
  BY <1>2 DEF Max

LEMMA MinIn ==
  ASSUME NEW Elt, Elt \subseteq Nat, Elt # {}
  PROVE  Min(Elt) \in Elt /\ \A k \in Elt : Min(Elt) <= k
<1>1. PICK m \in Elt : \A k \in Elt : m <= k
  BY Least
<1> QED
  BY <1>1 DEF Min

\* Sequences joined one after the other, from a beginning on.
Joins(f, s, n) == f[0] = <<>> /\ \A i \in 1..n : f[i] = f[i - 1] \o s[i]

LEMMA Same ==
  ASSUME NEW S, NEW s \in Seq(S), NEW t \in Seq(S), Len(s) = Len(t), \A i \in 1..Len(s) : s[i] = t[i]
  PROVE  s = t
<1>1. PICK n \in Nat : n = Len(s) /\ n = Len(t) /\ s \in [1..n -> S] /\ t \in [1..n -> S]
  BY LenProperties
<1> QED
  BY <1>1

LEMMA Begin ==
  ASSUME NEW S, NEW s \in Seq(S), NEW k \in 0..Len(s)
  PROVE  /\ SubSeq(s, 1, k) \in Seq(S) /\ Len(SubSeq(s, 1, k)) = k
         /\ \A i \in 1..k : SubSeq(s, 1, k)[i] = s[i]
<1>1. PICK n \in Nat : n = Len(s)
  OBVIOUS
<1>2. \A i \in 1..k : s[i] \in S
  BY <1>1
<1>3. k \in Int /\ 1 \in Int
  BY <1>1
<1> DEFINE t == SubSeq(s, 1, k)
<1>4. /\ t \in Seq(S) /\ Len(t) = (IF 1 <= k THEN k - 1 + 1 ELSE 0)
      /\ \A i \in 1..(k - 1 + 1) : t[i] = s[1 + i - 1]
  BY <1>2, <1>3, SubSeqProperties
<1> HIDE DEF t
<1>5. k - 1 + 1 = k /\ (IF 1 <= k THEN k - 1 + 1 ELSE 0) = k /\ \A i \in 1..k : 1 + i - 1 = i
  BY <1>1
<1>6. t \in Seq(S) /\ Len(t) = k /\ \A i \in 1..k : t[i] = s[i]
  BY <1>4, <1>5
<1> QED
  BY <1>6 DEF t

LEMMA End ==
  ASSUME NEW S, NEW s \in Seq(S), NEW k \in 0..Len(s)
  PROVE  /\ SubSeq(s, k + 1, Len(s)) \in Seq(S) /\ Len(SubSeq(s, k + 1, Len(s))) = Len(s) - k
         /\ \A i \in 1..(Len(s) - k) : SubSeq(s, k + 1, Len(s))[i] = s[k + i]
<1>1. PICK n \in Nat : n = Len(s)
  OBVIOUS
<1>2. \A i \in (k + 1)..n : s[i] \in S
  BY <1>1
<1>3. k + 1 \in Int /\ n \in Int
  BY <1>1
<1> DEFINE t == SubSeq(s, k + 1, n)
<1>4. /\ t \in Seq(S) /\ Len(t) = (IF k + 1 <= n THEN n - (k + 1) + 1 ELSE 0)
      /\ \A i \in 1..(n - (k + 1) + 1) : t[i] = s[k + 1 + i - 1]
  BY <1>2, <1>3, SubSeqProperties
<1> HIDE DEF t
<1>5. n - (k + 1) + 1 = n - k /\ (IF k + 1 <= n THEN n - (k + 1) + 1 ELSE 0) = n - k /\ \A i \in 1..(n - k) : k + 1 + i - 1 = k + i
  BY <1>1
<1>6. t \in Seq(S) /\ Len(t) = n - k /\ \A i \in 1..(n - k) : t[i] = s[k + i]
  BY <1>4, <1>5
<1> QED
  BY <1>1, <1>6 DEF t

Associates(Elt) == \A x, y, z \in Seq(Elt) : (x \o y) \o z = x \o (y \o z)
LEMMA Assoc ==
  ASSUME NEW Elt
  PROVE  Associates(Elt)
<1> SUFFICES ASSUME NEW x \in Seq(Elt), NEW y \in Seq(Elt), NEW z \in Seq(Elt)
             PROVE  (x \o y) \o z = x \o (y \o z)
  BY DEF Associates
<1> QED
  OBVIOUS

LEMMA JoinsExist ==
  ASSUME NEW Elt, NEW s \in Seq(Seq(Elt))
  PROVE  \E f \in [0..Len(s) -> Seq(Elt)] : Joins(f, s, Len(s))
<1>n. PICK n \in Nat : n = Len(s) /\ \A i \in 1..n : s[i] \in Seq(Elt)
  OBVIOUS
<1> DEFINE Has(k) == \E f \in [0..k -> Seq(Elt)] : Joins(f, s, k)
           D == {k \in 0..n : ~ Has(k)}
<1>1. CASE D # {}
  <2>0. D \in SUBSET Nat
    OBVIOUS
  <2>1. PICK k \in D : \A m \in D : k <= m
    <3> HIDE DEF D
    <3> QED
      BY <1>1, <2>0, Least
  <2>2. k # 0
    <3>1. [i \in 0..0 |-> <<>>] \in [0..0 -> Seq(Elt)] /\ Joins([i \in 0..0 |-> <<>>], s, 0)
      BY DEF Joins
    <3> QED
      BY <3>1
  <2>3. k - 1 \in 0..n /\ Has(k - 1) /\ k \in 1..n /\ ~Has(k)
    <3> HIDE DEF Has
    <3>1. k \in 0..n /\ k \in Int /\ ~Has(k)
      BY <2>1
    <3>2. k - 1 \in 0..n /\ k \in 1..n /\ ~(k <= k - 1)
      BY <2>2, <3>1
    <3>3. k - 1 \notin D
      BY <2>1, <3>2
    <3> QED
      BY <3>1, <3>2, <3>3
  <2>4. PICK f \in [0..(k - 1) -> Seq(Elt)] : Joins(f, s, k - 1)
    BY <2>3
  <2>5. PICK last \in Seq(Elt) : last = f[k - 1] \o s[k]
    <3>1. f[k - 1] \in Seq(Elt) /\ s[k] \in Seq(Elt)
      BY <1>n, <2>3
    <3> QED
      BY <3>1, ConcatProperties
  <2> DEFINE g == [i \in 0..k |-> IF i = k THEN last ELSE f[i]]
  <2>6. g \in [0..k -> Seq(Elt)]
    BY <2>3
  <2>7. g[0] = <<>>
    BY <2>2, <2>3, <2>4 DEF Joins
  <2>8. ASSUME NEW i \in 1..k PROVE g[i] = g[i - 1] \o s[i]
    <3>1. CASE i = k
      <4>1. k - 1 \in 0..k /\ k - 1 # k /\ k \in 0..k
        BY <2>3
      <4>2. g[k] = last /\ g[k - 1] = f[k - 1]
        BY <4>1
      <4> HIDE DEF g
      <4> QED
        BY <2>5, <3>1, <4>2
    <3>2. CASE i # k
      <4>1. i \in 1..(k - 1) /\ i \in 0..k /\ i - 1 \in 0..k /\ i - 1 # k
        BY <3>2
      <4>2. f[i] = f[i - 1] \o s[i]
        BY <2>4, <4>1 DEF Joins
      <4>3. g[i] = f[i] /\ g[i - 1] = f[i - 1]
        BY <3>2, <4>1
      <4> HIDE DEF g
      <4> QED
        BY <4>2, <4>3
    <3> QED
      BY <3>1, <3>2
  <2> HIDE DEF g
  <2>9. Has(k)
    BY <2>6, <2>7, <2>8 DEF Joins
  <2> QED
    BY <2>3, <2>9
<1>2. CASE D = {}
  <2>1. n \in 0..n /\ Has(n)
    <3> HIDE DEF Has
    <3> QED
      BY <1>2
  <2> QED
    BY <1>n, <2>1
<1> QED
  BY <1>1, <1>2

LEMMA FlattenAt ==
  ASSUME NEW Elt, NEW s \in Seq(Seq(Elt)), NEW f \in [0..Len(s) -> Seq(Elt)], Joins(f, s, Len(s))
  PROVE  FlattenSeq(s) = f[Len(s)]
<1>n. PICK n \in Nat : n = Len(s) /\ DOMAIN s = 1..n /\ \A i \in 1..n : s[i] \in Seq(Elt)
  BY LenProperties
<1>f. f \in [0..n -> Seq(Elt)] /\ f[0] = <<>> /\ (\A i \in 1..n : f[i] = f[i - 1] \o s[i])
  BY <1>n DEF Joins
<1>3. CASE n = 0
  <2>1. FlattenSeq(s) = s
    BY <1>n, <1>3 DEF FlattenSeq
  <2>2. s = <<>>
    BY <1>n, <1>3
  <2> QED
    BY <1>n, <1>f, <1>3, <2>1, <2>2
<1>4. CASE n # 0
  <2> DEFINE Fix(h) == h = [i \in 1..n |-> IF i = 1 THEN s[i] ELSE h[i - 1] \o s[i]]
             g == [i \in 1..n |-> f[i]]
  <2>1. f[1] = s[1]
    <3>1. 1 \in 1..n /\ 1 - 1 = 0 /\ s[1] \in Seq(Elt)
      BY <1>n, <1>4
    <3>2. f[1] = <<>> \o s[1]
      BY <1>f, <3>1
    <3> QED
      BY <3>1, <3>2, ConcatEmptySeq
  <2>2. Fix(g)
    <3> DEFINE r == [i \in 1..n |-> IF i = 1 THEN s[i] ELSE g[i - 1] \o s[i]]
    <3>1. ASSUME NEW i \in 1..n PROVE g[i] = r[i]
      <4>1. CASE i = 1
        BY <2>1, <4>1
      <4>2. CASE i # 1
        <5>1. i - 1 \in 1..n
          BY <4>2
        <5>2. g[i - 1] = f[i - 1] /\ g[i] = f[i]
          BY <5>1
        <5> QED
          BY <1>f, <4>2, <5>2
      <4> QED
        BY <4>1, <4>2
    <3> QED
      BY <3>1
  <2>3. FlattenSeq(s) = (CHOOSE h : Fix(h))[n]
    BY <1>n, <1>4 DEF FlattenSeq
  <2> HIDE DEF g
  <2>4. PICK h : h = (CHOOSE k : Fix(k)) /\ Fix(h)
    <3> HIDE DEF Fix
    <3> QED
      BY <2>2
  <2>5. \A i \in 1..n : h[i] = IF i = 1 THEN s[i] ELSE h[i - 1] \o s[i]
    BY <2>4
  <2>6. \A k \in 1..n : h[k] = f[k]
    <3> DEFINE D == {k \in 1..n : h[k] # f[k]}
    <3>1. D \in SUBSET Nat
      OBVIOUS
    <3>2. CASE D # {}
      <4>1. PICK k \in D : \A m \in D : k <= m
        <5> HIDE DEF D
        <5> QED
          BY <3>1, <3>2, Least
      <4>2. k \in 1..n /\ h[k] # f[k]
        OBVIOUS
      <4>3. k # 1
        BY <2>1, <2>5, <4>2
      <4>4. k - 1 \in 1..n /\ ~(k <= k - 1)
        BY <4>2, <4>3
      <4>5. h[k - 1] = f[k - 1]
        BY <4>1, <4>4
      <4>6. h[k] = h[k - 1] \o s[k] /\ f[k] = f[k - 1] \o s[k]
        BY <1>f, <2>5, <4>2, <4>3
      <4> QED
        BY <4>2, <4>5, <4>6
    <3>3. CASE D = {}
      BY <3>3
    <3> QED
      BY <3>2, <3>3
  <2>7. n \in 1..n
    BY <1>4
  <2> HIDE DEF Fix
  <2>8. FlattenSeq(s) = h[n]
    BY <2>3, <2>4
  <2> QED
    BY <1>n, <2>6, <2>7, <2>8
<1> QED
  BY <1>3, <1>4

\* What is joined is what the beginning gives, and then the rest.
LEMMA FlattenSplit ==
  ASSUME NEW Elt, NEW s \in Seq(Seq(Elt)), NEW k \in 0..Len(s)
  PROVE  /\ FlattenSeq(s) \in Seq(Elt) /\ FlattenSeq(SubSeq(s, 1, k)) \in Seq(Elt)
         /\ FlattenSeq(SubSeq(s, k + 1, Len(s))) \in Seq(Elt)
         /\ FlattenSeq(s) = FlattenSeq(SubSeq(s, 1, k)) \o FlattenSeq(SubSeq(s, k + 1, Len(s)))
<1>n. PICK n \in Nat : n = Len(s) /\ k \in 0..n /\ k \in Nat /\ \A i \in 1..n : s[i] \in Seq(Elt)
  OBVIOUS
<1>1. PICK f \in [0..n -> Seq(Elt)] : Joins(f, s, n)
  BY <1>n, JoinsExist
<1>2. FlattenSeq(s) = f[n] /\ f[n] \in Seq(Elt) /\ f[k] \in Seq(Elt)
  <2>1. n \in 0..n
    BY <1>n
  <2> QED
    BY <1>n, <1>1, <2>1, FlattenAt
<1>3. FlattenSeq(SubSeq(s, 1, k)) = f[k]
  <2>1. PICK b : b = SubSeq(s, 1, k)
    OBVIOUS
  <2>2. b \in Seq(Seq(Elt)) /\ Len(b) = k /\ \A i \in 1..k : b[i] = s[i]
    BY <2>1, <1>n, Begin
  <2>3. PICK g \in [0..k -> Seq(Elt)] : g = [i \in 0..k |-> f[i]]
    <3>1. \A i \in 0..k : f[i] \in Seq(Elt)
      BY <1>n
    <3> QED
      BY <3>1
  <2>4. g[k] = f[k] /\ g[0] = f[0] /\ \A i \in 1..k : g[i] = f[i] /\ g[i - 1] = f[i - 1]
    <3>1. k \in 0..k /\ 0 \in 0..k /\ \A i \in 1..k : i \in 0..k /\ i - 1 \in 0..k
      BY <1>n
    <3> QED
      BY <2>3, <3>1
  <2>5. Joins(g, b, k)
    <3>1. \A i \in 1..k : i \in 1..n
      BY <1>n
    <3> QED
      BY <1>1, <2>2, <2>4, <3>1 DEF Joins
  <2>6. g \in [0..Len(b) -> Seq(Elt)] /\ Joins(g, b, Len(b))
    BY <2>2, <2>5
  <2>7. FlattenSeq(b) = g[Len(b)]
    BY <2>2, <2>6, FlattenAt
  <2> QED
    BY <2>1, <2>2, <2>4, <2>7
<1>4. PICK r : r = SubSeq(s, k + 1, n)
  OBVIOUS
<1>5. r \in Seq(Seq(Elt)) /\ Len(r) = n - k /\ \A i \in 1..(n - k) : r[i] = s[k + i]
  BY <1>4, <1>n, End
<1>m. PICK m \in Nat : m = n - k /\ k + m = n
  <2>1. n - k \in Nat /\ k + (n - k) = n
    BY <1>n
  <2> QED
    BY <2>1
<1>6. PICK g \in [0..m -> Seq(Elt)] : Joins(g, r, m)
  BY <1>5, <1>m, JoinsExist
<1>7. FlattenSeq(r) = g[m] /\ g[m] \in Seq(Elt)
  <2>1. m \in 0..m
    BY <1>m
  <2> QED
    BY <1>5, <1>6, <1>m, <2>1, FlattenAt
<1>a. Associates(Elt)
  BY Assoc
<1>8. \A i \in 0..m : f[k + i] = f[k] \o g[i]
  <2> DEFINE D == {i \in 0..m : f[k + i] # f[k] \o g[i]}
  <2>1. D \in SUBSET Nat
    OBVIOUS
  <2>2. CASE D # {}
    <3>1. PICK i \in D : \A j \in D : i <= j
      <4> HIDE DEF D
      <4> QED
        BY <2>1, <2>2, Least
    <3>2. i \in 0..m /\ f[k + i] # f[k] \o g[i]
      OBVIOUS
    <3>3. i # 0
      <4>1. f[k] \o <<>> = f[k]
        BY <1>2, ConcatEmptySeq
      <4>2. k + 0 = k /\ g[0] = <<>>
        BY <1>n, <1>6 DEF Joins
      <4> QED
        BY <3>2, <4>1, <4>2
    <3>4. i - 1 \in 0..m /\ i \in 1..m /\ ~(i <= i - 1) /\ k + i \in 1..n /\ (k + i) - 1 = k + (i - 1) /\ (k + i) - 1 \in 0..n
      BY <1>n, <1>m, <3>2, <3>3
    <3>5. f[k + (i - 1)] = f[k] \o g[i - 1]
      BY <3>1, <3>4
    <3>6. f[k + i] = f[k + (i - 1)] \o s[k + i]
      BY <1>1, <3>4 DEF Joins
    <3>7. g[i] = g[i - 1] \o s[k + i]
      BY <1>5, <1>6, <1>m, <3>4 DEF Joins
    <3>8. f[k] \in Seq(Elt) /\ g[i - 1] \in Seq(Elt) /\ s[k + i] \in Seq(Elt)
      BY <1>n, <1>2, <3>4
    <3>9. (f[k] \o g[i - 1]) \o s[k + i] = f[k] \o (g[i - 1] \o s[k + i])
      BY <1>a, <3>8 DEF Associates
    <3> QED
      BY <3>2, <3>5, <3>6, <3>7, <3>9
  <2>3. CASE D = {}
    BY <2>3
  <2> QED
    BY <2>2, <2>3
<1>9. f[n] = f[k] \o g[m]
  <2>1. m \in 0..m
    BY <1>m
  <2> QED
    BY <1>8, <1>m, <2>1
<1> QED
  BY <1>n, <1>2, <1>3, <1>4, <1>7, <1>9

\* What a block may hold: only an answer has text.
Roles == {"user", "interrupt", "planning", "assistant", "tool"}
Thinks == {"no", "open", "done"}
States == {"", "running", "ok", "error", "stopped"}
Args == MainCalls \cup SubCalls \cup {"", "other", "agent"}
Block == {b \in [role : Roles, text : Nat, think : Thinks, streaming : BOOLEAN, args : Args, state : States] :
            b.role # "assistant" => b.text = 0}
Key == [block : Block, at : Nat]
Words == Roles \cup Thinks \cup States \cup Args \cup {"thinking", "text", "...", "args", "header"}
Line == Words \X Words \X Nat

LEMMA Fields ==
  ASSUME NEW b \in Block
  PROVE  /\ b.role \in Roles /\ b.text \in Nat /\ b.think \in Thinks /\ b.streaming \in BOOLEAN /\ b.args \in Args
         /\ b.state \in States /\ (b.role # "assistant" => b.text = 0)
BY DEF Block

LEMMA Shorts ==
  ASSUME NEW Elt, NEW x \in Elt, NEW y \in Elt
  PROVE  <<>> \in Seq(Elt) /\ <<x>> \in Seq(Elt) /\ <<x, y>> \in Seq(Elt)
OBVIOUS

LEMMA Renders ==
  ASSUME NEW b \in Block, NEW now \in Nat
  PROVE  RenderBlock(b, now) \in Seq(Line)
<1>f. /\ b.role \in Roles /\ b.text \in Nat /\ b.think \in Thinks /\ b.args \in Args /\ b.state \in States
  BY Fields
<1>w. /\ b.role \in Words /\ b.think \in Words /\ b.args \in Words /\ b.state \in Words
      /\ {"thinking", "assistant", "...", "text", "tool", "args", "planning", ""} \subseteq Words
  BY <1>f DEF Words, Roles, Thinks, States, Args
<1>l. \A u, v \in Words : \A i \in Nat : <<u, v, i>> \in Line
  BY DEF Line
<1> HIDE DEF Words
<1>1. CASE b.role = "assistant"
  <2>1. PICK x \in Seq(Line) :
          x = IF b.think = "no" THEN <<>> ELSE << <<"thinking", b.think, IF b.think = "open" THEN now ELSE 0>> >>
    <3>1. PICK i \in Nat : i = IF b.think = "open" THEN now ELSE 0
      OBVIOUS
    <3>2. PICK l \in Line : l = <<"thinking", b.think, i>>
      BY <1>w, <1>l
    <3>3. <<>> \in Seq(Line) /\ <<l>> \in Seq(Line)
      BY Shorts
    <3> QED
      BY <3>1, <3>2, <3>3
  <2>2. PICK y \in Seq(Line) :
          y = IF b.text = 0 /\ b.streaming THEN << <<"assistant", "...", 0>> >>
              ELSE [i \in 1..b.text |-> <<"assistant", "text", i>>]
    <3>1. PICK l \in Line : l = <<"assistant", "...", 0>>
      BY <1>w, <1>l
    <3>2. <<l>> \in Seq(Line)
      BY Shorts
    <3>3. [i \in 1..b.text |-> <<"assistant", "text", i>>] \in Seq(Line)
      <4>1. PICK n \in Nat : n = b.text
        BY <1>f
      <4>2. ASSUME NEW i \in 1..n PROVE <<"assistant", "text", i>> \in Line
        <5>1. i \in Nat
          OBVIOUS
        <5>2. "assistant" \in Words /\ "text" \in Words
          BY <1>w
        <5> QED
          BY <1>l, <5>1, <5>2
      <4>3. [i \in 1..n |-> <<"assistant", "text", i>>] \in [1..n -> Line]
        BY <4>2
      <4>4. \A f \in [1..n -> Line] : f \in Seq(Line)
        OBVIOUS
      <4> QED
        BY <4>1, <4>3, <4>4
    <3> QED
      BY <3>1, <3>2, <3>3
  <2>3. RenderBlock(b, now) = x \o y
    BY <1>1, <2>1, <2>2 DEF RenderBlock
  <2> QED
    BY <2>3, ConcatProperties
<1>2. CASE b.role = "tool"
  <2>1. PICK l \in Line : l = <<"tool", b.state, 0>>
    BY <1>w, <1>l
  <2>2. PICK m \in Line : m = <<"args", b.args, 0>>
    BY <1>w, <1>l
  <2>3. <<l, m>> \in Seq(Line)
    BY Shorts
  <2>4. RenderBlock(b, now) = <<l, m>>
    BY <1>2, <2>1, <2>2 DEF RenderBlock
  <2> QED
    BY <2>3, <2>4
<1>3. CASE b.role = "planning"
  <2>1. PICK l \in Line : l = <<"planning", "", now>>
    BY <1>w, <1>l
  <2>2. <<l>> \in Seq(Line)
    BY Shorts
  <2>3. RenderBlock(b, now) = <<l>>
    BY <1>3, <2>1 DEF RenderBlock
  <2> QED
    BY <2>2, <2>3
<1>4. CASE b.role \notin {"assistant", "tool", "planning"}
  <2>1. PICK l \in Line : l = <<b.role, "", 0>>
    BY <1>w, <1>l
  <2>2. <<l>> \in Seq(Line)
    BY Shorts
  <2>3. RenderBlock(b, now) = <<l>>
    BY <1>4, <2>1 DEF RenderBlock
  <2> QED
    BY <2>2, <2>3
<1> QED
  BY <1>1, <1>2, <1>3, <1>4

\* The time matters to a live block only.
LEMMA Rests ==
  ASSUME NEW b \in Block, ~Live(b), NEW n \in Nat, NEW m \in Nat
  PROVE  RenderBlock(b, n) = RenderBlock(b, m)
<1>1. CASE b.role = "assistant"
  <2>1. (IF b.think = "open" THEN n ELSE 0) = (IF b.think = "open" THEN m ELSE 0)
    BY <1>1 DEF Live
  <2> QED
    BY <1>1, <2>1 DEF RenderBlock
<1>2. CASE b.role = "tool"
  BY <1>2 DEF RenderBlock
<1>3. CASE b.role = "planning"
  BY <1>3 DEF Live
<1>4. CASE b.role \notin {"assistant", "tool", "planning"}
  BY <1>4 DEF RenderBlock
<1> QED
  BY <1>1, <1>2, <1>3, <1>4

\* The lines of some keys, and what the cache may have.
Rendered(keys) == [i \in DOMAIN keys |-> RenderBlock(keys[i].block, keys[i].at)]
Entry(key) == [key |-> key, lines |-> RenderBlock(key.block, key.at)]
CacheTrue(cache) == \A i \in DOMAIN cache : \E key \in Key : cache[i] = {Entry(key)}

LEMMA Shown ==
  ASSUME NEW keys \in Seq(Key)
  PROVE  Rendered(keys) \in Seq(Seq(Line)) /\ Len(Rendered(keys)) = Len(keys)
         /\ \A i \in 1..Len(keys) : Rendered(keys)[i] = RenderBlock(keys[i].block, keys[i].at)
<1>1. PICK n \in Nat : n = Len(keys) /\ DOMAIN keys = 1..n
  BY LenProperties
<1>2. ASSUME NEW i \in 1..n PROVE RenderBlock(keys[i].block, keys[i].at) \in Seq(Line)
  <2>1. PICK key \in Key : key = keys[i]
    BY <1>1
  <2>2. key.block \in Block /\ key.at \in Nat
    BY DEF Key
  <2> QED
    BY <2>1, <2>2, Renders
<1>3. Rendered(keys) = [i \in 1..n |-> RenderBlock(keys[i].block, keys[i].at)]
  BY <1>1 DEF Rendered
<1>4. Rendered(keys) \in [1..n -> Seq(Line)]
  BY <1>2, <1>3
<1>5. \A S : \A f \in [1..n -> S] : f \in Seq(S) /\ Len(f) = n
  OBVIOUS
<1>6. \A i \in 1..n : Rendered(keys)[i] = RenderBlock(keys[i].block, keys[i].at)
  BY <1>3
<1> QED
  BY <1>1, <1>4, <1>5, <1>6

LEMMA Printed ==
  ASSUME NEW b \in Block, clock \in Nat
  PROVE  /\ Fingerprint(b) \in Key
         /\ RenderBlock(Fingerprint(b).block, Fingerprint(b).at) = RenderBlock(b, clock)
<1>1. PICK at \in Nat : at = IF Live(b) THEN clock ELSE 0
  OBVIOUS
<1>2. Fingerprint(b) = [block |-> b, at |-> at]
  BY <1>1 DEF Fingerprint
<1>3. Fingerprint(b) \in Key /\ Fingerprint(b).block = b /\ Fingerprint(b).at = at
  BY <1>2 DEF Key
<1>4. RenderBlock(b, at) = RenderBlock(b, clock)
  <2>1. CASE Live(b)
    BY <1>1, <2>1
  <2>2. CASE ~Live(b)
    BY <2>2, Rests
  <2> QED
    BY <2>1, <2>2
<1> QED
  BY <1>3, <1>4

LEMMA KeysAre ==
  ASSUME NEW blocks \in Seq(Block), clock \in Nat
  PROVE  /\ Keys(blocks) \in Seq(Key) /\ Len(Keys(blocks)) = Len(blocks)
         /\ \A i \in 1..Len(blocks) : Keys(blocks)[i] = Fingerprint(blocks[i])
<1>1. PICK n \in Nat : n = Len(blocks) /\ DOMAIN blocks = 1..n /\ \A i \in 1..n : blocks[i] \in Block
  BY LenProperties
<1>2. \A i \in 1..n : Fingerprint(blocks[i]) \in Key
  BY <1>1, Printed
<1>3. Keys(blocks) = [i \in 1..n |-> Fingerprint(blocks[i])]
  BY <1>1 DEF Keys
<1>4. Keys(blocks) \in [1..n -> Key]
  BY <1>2, <1>3
<1>5. \A S : \A f \in [1..n -> S] : f \in Seq(S) /\ Len(f) = n
  OBVIOUS
<1>6. \A i \in 1..n : Keys(blocks)[i] = Fingerprint(blocks[i])
  BY <1>3
<1> QED
  BY <1>1, <1>4, <1>5, <1>6

\* Whatever the cache has, what a sync takes from it is what the blocks are rendered as.
LEMMA Synced ==
  ASSUME NEW cache, CacheTrue(cache), NEW blocks \in Seq(Block), clock \in Nat
  PROVE  CacheTrue(SyncEntries(cache, blocks)) /\ Slices(SyncEntries(cache, blocks)) = Rendered(Keys(blocks))
<1>1. PICK n \in Nat : n = Len(blocks) /\ DOMAIN blocks = 1..n /\ \A i \in 1..n : blocks[i] \in Block
  BY LenProperties
<1>2. PICK now : now = SyncEntries(cache, blocks)
  OBVIOUS
<1>3. DOMAIN now = 1..n
  BY <1>1, <1>2 DEF SyncEntries
<1>4. ASSUME NEW i \in 1..n
      PROVE  /\ Fingerprint(blocks[i]) \in Key /\ now[i] = {Entry(Fingerprint(blocks[i]))}
             /\ Slices(now)[i] = RenderBlock(Fingerprint(blocks[i]).block, Fingerprint(blocks[i]).at)
  <2>1. PICK b \in Block : b = blocks[i]
    BY <1>1
  <2>2. PICK key \in Key : key = Fingerprint(b)
    BY Printed
  <2>3. Entry(key) = [key |-> key, lines |-> RenderBlock(b, clock)]
    BY <2>2, Printed DEF Entry
  <2>4. PICK old : old = IF i \in DOMAIN cache THEN cache[i] ELSE {}
    OBVIOUS
  <2>5. PICK hit : hit = {e \in old : e.key = key}
    OBVIOUS
  <2>6. now[i] = IF hit # {} THEN hit ELSE {Entry(key)}
    BY <1>1, <1>2, <2>1, <2>2, <2>3, <2>4, <2>5 DEF SyncEntries
  <2>7. hit # {} => hit = {Entry(key)}
    <3>1. SUFFICES ASSUME hit # {} PROVE hit = {Entry(key)}
      OBVIOUS
    <3>2. PICK k2 \in Key : old = {Entry(k2)}
      BY <2>4, <2>5, <3>1 DEF CacheTrue
    <3>3. Entry(k2).key = k2
      BY DEF Entry
    <3>4. k2 = key
      BY <2>5, <3>1, <3>2, <3>3
    <3> QED
      BY <2>5, <3>2, <3>3, <3>4
  <2>8. now[i] = {Entry(key)}
    BY <2>6, <2>7
  <2>9. Slices(now)[i] = Entry(key).lines
    <3>1. (CHOOSE e \in {Entry(key)} : TRUE) = Entry(key)
      OBVIOUS
    <3>2. Slices(now)[i] = (CHOOSE e \in now[i] : TRUE).lines
      BY <1>3 DEF Slices
    <3> QED
      BY <2>8, <3>1, <3>2
  <2>10. Entry(key).lines = RenderBlock(key.block, key.at)
    BY DEF Entry
  <2> QED
    BY <2>1, <2>2, <2>8, <2>9, <2>10
<1>5. CacheTrue(now)
  BY <1>3, <1>4 DEF CacheTrue
<1>6. Slices(now) = Rendered(Keys(blocks))
  <2>1. Slices(now) = [i \in 1..n |-> Slices(now)[i]]
    BY <1>3 DEF Slices
  <2>2. Rendered(Keys(blocks)) = [i \in 1..n |-> RenderBlock(Fingerprint(blocks[i]).block, Fingerprint(blocks[i]).at)]
    BY <1>1, KeysAre DEF Rendered, Keys
  <2> QED
    BY <1>4, <2>1, <2>2
<1> QED
  BY <1>2, <1>5, <1>6

\* The catalog: its keys give its lines, unless a rebuild raced.
CatTrue(c, r) ==
  \/ c = NoCatalog
  \/ /\ c.keys \in Seq(Key) /\ c.starts = BlockStarts(Rendered(c.keys))
     /\ (r \/ c.plain = AssemblePlain(Rendered(c.keys)))

\* What stands before the lines of the blocks.
Heading(n) == HeaderLines \o (IF n = 0 THEN <<>> ELSE << <<"", "", 0>>, <<"", "", 0>> >>)

LEMMA HeadingIs ==
  ASSUME NEW n \in Nat, n # 0
  PROVE  Heading(n) \in Seq(Line) /\ Len(Heading(n)) = 3
<1>1. PICK l \in Line : l = <<"header", "", 0>>
  BY DEF Line, Words, States
<1>2. PICK m \in Line : m = <<"", "", 0>>
  BY DEF Line, Words, States
<1>3. Heading(n) = <<l>> \o <<m, m>>
  BY <1>1, <1>2 DEF Heading, HeaderLines
<1>4. <<l>> \in Seq(Line) /\ <<m, m>> \in Seq(Line) /\ Len(<<l>>) = 1 /\ Len(<<m, m>>) = 2
  OBVIOUS
<1> QED
  BY <1>3, <1>4, ConcatProperties

LEMMA HeadingSame ==
  ASSUME NEW n \in Nat, n # 0
  PROVE  Heading(n) = Heading(1)
<1>1. PICK g : g = << <<"", "", 0>>, <<"", "", 0>> >>
  OBVIOUS
<1>2. \A k \in Nat : k # 0 => Heading(k) = HeaderLines \o g
  BY <1>1 DEF Heading
<1>3. 1 \in Nat /\ 1 # 0
  OBVIOUS
<1> QED
  BY <1>2, <1>3

LEMMA Assembled ==
  ASSUME NEW s \in Seq(Seq(Line)), s # <<>>
  PROVE  /\ AssemblePlain(s) = Heading(Len(s)) \o FlattenSeq(s)
         /\ Len(HeaderLines) + Len(Gap(s)) = 3
<1>1. Len(s) # 0
  OBVIOUS
<1>2. PICK g : g = << <<"", "", 0>>, <<"", "", 0>> >>
  OBVIOUS
<1>3. Gap(s) = g
  BY <1>2 DEF Gap
<1>4. Heading(Len(s)) = HeaderLines \o g
  BY <1>1, <1>2 DEF Heading
<1>5. AssemblePlain(s) = (HeaderLines \o Gap(s)) \o FlattenSeq(s)
  BY DEF AssemblePlain
<1>6. Len(g) = 2
  BY <1>2
<1>7. Len(HeaderLines) = 1
  BY DEF HeaderLines
<1> QED
  BY <1>3, <1>4, <1>5, <1>6, <1>7

LEMMA PrefixOf ==
  ASSUME NEW x \in Seq(Line), NEW y \in Seq(Line)
  PROVE  Prefix(x \o y, Len(x)) = x
<1>1. PICK n \in Nat, m \in Nat : n = Len(x) /\ m = Len(y) /\ x \in [1..n -> Line]
  BY LenProperties
<1>2. PICK z \in Seq(Line) : z = x \o y /\ Len(z) = n + m /\ \A i \in 1..(n + m) : z[i] = IF i <= n THEN x[i] ELSE y[i - n]
  <2>1. PICK z \in Seq(Line) : z = x \o y
    BY ConcatProperties
  <2>2. Len(z) = n + m /\ \A i \in 1..(n + m) : z[i] = IF i <= n THEN x[i] ELSE y[i - n]
    BY <1>1, <2>1, ConcatProperties
  <2> QED
    BY <2>1, <2>2
<1>3. DOMAIN z = 1..(n + m)
  BY <1>2, LenProperties
<1>4. \A i \in 1..n : i \in DOMAIN z /\ z[i] = x[i]
  BY <1>1, <1>2, <1>3
<1>5. Prefix(z, n) = [i \in 1..n |-> x[i]]
  BY <1>4 DEF Prefix
<1> QED
  BY <1>1, <1>2, <1>5

\* Blocks that begin as others do are shown as what those began with, and the rest.
LEMMA Glued ==
  ASSUME NEW s \in Seq(Seq(Line)), NEW t \in Seq(Seq(Line)), NEW k \in Nat, k >= 1, k <= Len(s), k <= Len(t),
         \A i \in 1..k : s[i] = t[i]
  PROVE  /\ FlattenSeq(SubSeq(t, 1, k)) \in Seq(Line)
         /\ AssemblePlain(s) = (Heading(1) \o FlattenSeq(SubSeq(t, 1, k))) \o FlattenSeq(SubSeq(s, k + 1, Len(s)))
<1>1. PICK n \in Nat, m \in Nat : n = Len(s) /\ m = Len(t) /\ k \in 0..n /\ k \in 0..m /\ n # 0 /\ s # <<>>
  OBVIOUS
<1>2. SubSeq(s, 1, k) = SubSeq(t, 1, k)
  <2>1. PICK b, c : b = SubSeq(s, 1, k) /\ c = SubSeq(t, 1, k)
    OBVIOUS
  <2>2. b \in Seq(Seq(Line)) /\ Len(b) = k /\ \A i \in 1..k : b[i] = s[i]
    BY <1>1, <2>1, Begin
  <2>3. c \in Seq(Seq(Line)) /\ Len(c) = k /\ \A i \in 1..k : c[i] = t[i]
    BY <1>1, <2>1, Begin
  <2>4. b = c
    BY <2>2, <2>3, Same
  <2> QED
    BY <2>1, <2>4
<1>3. PICK x \in Seq(Line), y \in Seq(Line) :
        x = FlattenSeq(SubSeq(t, 1, k)) /\ y = FlattenSeq(SubSeq(s, k + 1, Len(s))) /\ FlattenSeq(s) = x \o y
  <2>1. /\ FlattenSeq(SubSeq(s, 1, k)) \in Seq(Line) /\ FlattenSeq(SubSeq(s, k + 1, Len(s))) \in Seq(Line)
        /\ FlattenSeq(s) = FlattenSeq(SubSeq(s, 1, k)) \o FlattenSeq(SubSeq(s, k + 1, Len(s)))
    <3>1. k \in 0..Len(s)
      BY <1>1
    <3> QED
      BY ZenonT(60), <3>1, FlattenSplit
  <2> QED
    BY <1>2, <2>1
<1>4. PICK h \in Seq(Line) : h = Heading(1) /\ h = Heading(n)
  <2>1. Heading(1) = Heading(n)
    <3>1. n # 0
      BY <1>1
    <3> QED
      BY <3>1, HeadingSame
  <2> QED
    BY <2>1, HeadingIs
<1>5. AssemblePlain(s) = h \o (x \o y)
  BY <1>1, <1>3, <1>4, Assembled
<1>6. h \o (x \o y) = (h \o x) \o y
  <2>1. Associates(Line)
    BY Assoc
  <2> QED
    BY <2>1 DEF Associates
<1> QED
  BY <1>3, <1>4, <1>5, <1>6

LEMMA Rebuilt ==
  ASSUME NEW old, NEW cache, NEW blocks \in Seq(Block), clock \in Nat, raced \in BOOLEAN,
         CacheTrue(cache), CatTrue(old, raced), Rebuild(old, cache, blocks)
  PROVE  CacheTrue(entries') /\ CatTrue(cat', raced') /\ raced' \in BOOLEAN
<1>1. PICK keys \in Seq(Key) : keys = Keys(blocks)
  BY KeysAre
<1>2. PICK sl \in Seq(Seq(Line)) : sl = Rendered(keys) /\ Len(sl) = Len(keys)
  BY Shown
<1>3. PICK now : now = SyncEntries(cache, blocks) /\ CacheTrue(now) /\ Slices(now) = sl
  BY <1>1, <1>2, Synced
<1>4. PICK first : first = IF old.plain = <<>> THEN 1 ELSE FirstDirtyBlock(old, keys, BlockStarts(sl))
  OBVIOUS
<1>5. PICK kept : kept = IF first \in DOMAIN old.starts THEN Prefix(old.plain, old.starts[first]) ELSE old.plain
  OBVIOUS
<1>6. PICK plain : plain = IF first = 1 THEN AssemblePlain(sl) ELSE kept \o FlattenSeq(SubSeq(sl, first, Len(sl)))
  OBVIOUS
<1>7. PICK race \in BOOLEAN : race <=> (Len(keys) > Len(old.keys) /\ \E i \in DOMAIN old.keys : keys[i] # old.keys[i])
  OBVIOUS
<1>8. PICK new : new = [plain |-> plain, starts |-> BlockStarts(sl), keys |-> keys]
  OBVIOUS
<1>9. /\ entries' = now
      /\ cat' = IF first = 0 THEN old ELSE new
      /\ raced' = (first # 1 /\ (raced \/ race))
  BY <1>1, <1>3, <1>4, <1>5, <1>6, <1>7, <1>8 DEF Rebuild
<1>10. PICK nr \in BOOLEAN : nr = raced' /\ (nr <=> (first # 1 /\ (raced \/ race)))
  BY <1>9
<1>11. first # 0 /\ ~nr => plain = AssemblePlain(sl)
  <2>1. CASE first = 1
    BY <1>6, <2>1
  <2>2. SUFFICES ASSUME first # 0, first # 1, ~nr PROVE plain = AssemblePlain(sl)
    BY <2>1
  <2>3. first = FirstDirtyBlock(old, keys, BlockStarts(sl)) /\ ~raced /\ ~race /\ old.plain # <<>>
    BY <1>4, <1>10, <2>2
  <2>4. old # NoCatalog
    <3>1. NoCatalog.plain = <<>>
      BY DEF NoCatalog
    <3> QED
      BY <2>3, <3>1
  <2>5. PICK ok \in Seq(Key) : ok = old.keys
    BY <2>4 DEF CatTrue
  <2>6. PICK os \in Seq(Seq(Line)) : os = Rendered(ok) /\ Len(os) = Len(ok)
    BY Shown
  <2>7. PICK op, ost : op = old.plain /\ ost = old.starts
    OBVIOUS
  <2>8. op = AssemblePlain(os) /\ ost = BlockStarts(os)
    BY <2>3, <2>4, <2>5, <2>6, <2>7 DEF CatTrue
  <2>9. PICK n \in Nat, m \in Nat : n = Len(keys) /\ m = Len(ok) /\ DOMAIN keys = 1..n /\ DOMAIN ok = 1..m
    BY LenProperties
  <2>10. Len(sl) = n /\ Len(os) = m /\ DOMAIN os = 1..m
    BY <1>2, <2>6, <2>9, LenProperties
  <2>11. \A i \in 1..n : i \in 1..m /\ keys[i] = ok[i] => sl[i] = os[i]
    BY <1>2, <2>6, <2>9, Shown
  <2>12. kept = IF first \in 1..m THEN Prefix(op, ost[first]) ELSE op
    <3>1. DOMAIN ost = 1..m
      BY <2>8, <2>10 DEF BlockStarts
    <3> QED
      BY <1>5, <2>7, <3>1
  <2>13. first = IF n > m THEN m + 1
                ELSE IF n < m THEN 1
                ELSE IF {i \in 1..n : keys[i] # ok[i]} # {} THEN Min({i \in 1..n : keys[i] # ok[i]})
                ELSE IF BlockStarts(sl) # ost THEN 1 ELSE 0
    BY <2>3, <2>5, <2>7, <2>9 DEF FirstDirtyBlock
  <2>14. CASE n > m
    <3>1. first = m + 1 /\ first \notin 1..m /\ m >= 1 /\ m <= n /\ m \in 1..n /\ m # 0
      BY <2>2, <2>9, <2>13, <2>14
    <3>2. \A i \in 1..m : i \in 1..n /\ keys[i] = ok[i]
      <4>1. Len(keys) > Len(old.keys) /\ DOMAIN old.keys = 1..m
        BY <2>5, <2>9, <2>14
      <4>2. \A i \in DOMAIN old.keys : keys[i] = old.keys[i]
        BY <1>7, <2>3, <4>1
      <4>3. \A i \in 1..m : keys[i] = ok[i]
        BY <2>5, <4>1, <4>2
      <4>4. \A i \in 1..m : i \in 1..n
        BY <2>9, <2>14
      <4> QED
        BY <4>3, <4>4
    <3>3. \A i \in 1..m : sl[i] = os[i]
      BY <2>11, <3>2
    <3>4. AssemblePlain(sl) = (Heading(1) \o FlattenSeq(SubSeq(os, 1, m))) \o FlattenSeq(SubSeq(sl, m + 1, n))
      <4>1. m \in Nat /\ m >= 1 /\ m <= Len(sl) /\ m <= Len(os)
        BY <2>9, <2>10, <3>1
      <4>2. AssemblePlain(sl) = (Heading(1) \o FlattenSeq(SubSeq(os, 1, m))) \o FlattenSeq(SubSeq(sl, m + 1, Len(sl)))
        BY <3>3, <4>1, Glued
      <4> QED
        BY <2>10, <4>2
    <3>5. SubSeq(os, 1, m) = os
      <4>1. PICK b : b = SubSeq(os, 1, m)
        OBVIOUS
      <4>2. b \in Seq(Seq(Line)) /\ Len(b) = m /\ \A i \in 1..m : b[i] = os[i]
        BY <2>9, <2>10, <4>1, Begin
      <4> QED
        BY <2>10, <4>1, <4>2, Same
    <3>6. op = Heading(1) \o FlattenSeq(os)
      <4>1. os # <<>>
        BY <2>10, <3>1
      <4>2. op = Heading(m) \o FlattenSeq(os)
        BY <2>8, <2>10, <4>1, Assembled
      <4>3. Heading(m) = Heading(1)
        BY <3>1, HeadingSame
      <4> QED
        BY <4>2, <4>3
    <3>7. plain = op \o FlattenSeq(SubSeq(sl, m + 1, n))
      BY <1>6, <2>2, <2>10, <2>12, <3>1
    <3> QED
      BY <3>4, <3>5, <3>6, <3>7
  <2>15. CASE n < m
    BY <2>2, <2>9, <2>13, <2>15
  <2>16. CASE n = m
    <3> DEFINE differ == {i \in 1..n : keys[i] # ok[i]}
    <3>1. differ # {} /\ first = Min(differ)
      BY <2>2, <2>9, <2>13, <2>16
    <3>2. first \in differ /\ \A i \in differ : first <= i
      <4>1. differ \subseteq Nat
        BY <2>9
      <4> HIDE DEF differ
      <4> QED
        BY <3>1, <4>1, MinIn
    <3>3. PICK f \in Nat : f = first /\ f \in 1..n /\ f \in 1..m /\ f >= 2
      BY <2>2, <2>9, <2>16, <3>2
    <3>4. PICK k \in Nat : k + 1 = f /\ k >= 1 /\ k <= n /\ k <= m /\ f - 1 = k
      <4>1. f - 1 \in Nat /\ (f - 1) + 1 = f /\ f - 1 >= 1 /\ f - 1 <= n /\ f - 1 <= m
        BY <2>9, <3>3
      <4> QED
        BY <4>1
    <3>5. \A i \in 1..k : i \in 1..n /\ i \in 1..m /\ ~(f <= i)
      BY <2>9, <3>3, <3>4
    <3>6. \A i \in 1..k : sl[i] = os[i] /\ os[i] = os[i]
      <4>1. \A i \in 1..k : i \notin differ
        <5> HIDE DEF differ
        <5> QED
          BY <3>2, <3>3, <3>5
      <4>2. \A i \in 1..k : keys[i] = ok[i]
        BY <3>5, <4>1
      <4> QED
        BY <2>11, <3>5, <4>2
    <3> HIDE DEF differ
    <3>7. PICK x \in Seq(Line) : x = FlattenSeq(SubSeq(os, 1, k))
      BY <2>10, <3>4, <3>6, Glued
    <3>8. AssemblePlain(sl) = (Heading(1) \o x) \o FlattenSeq(SubSeq(sl, f, n))
      BY <2>10, <3>4, <3>6, <3>7, Glued
    <3>9. op = (Heading(1) \o x) \o FlattenSeq(SubSeq(os, f, m)) /\ FlattenSeq(SubSeq(os, f, m)) \in Seq(Line)
      <4>1. k \in 0..Len(os)
        BY <2>9, <2>10, <3>4
      <4>2. FlattenSeq(SubSeq(os, k + 1, Len(os))) \in Seq(Line)
        BY <4>1, FlattenSplit
      <4>3. AssemblePlain(os) = (Heading(1) \o x) \o FlattenSeq(SubSeq(os, k + 1, Len(os)))
        BY <2>10, <3>4, <3>7, Glued
      <4> QED
        BY <2>8, <2>10, <3>4, <4>2, <4>3
    <3>10. PICK hx \in Seq(Line) : hx = Heading(1) \o x /\ Len(hx) = 3 + Len(x)
      <4>1. Heading(1) \in Seq(Line) /\ Len(Heading(1)) = 3
        BY HeadingIs
      <4>2. PICK h \in Seq(Line) : h = Heading(1) /\ Len(h) = 3
        BY <4>1
      <4>3. h \o x \in Seq(Line) /\ Len(h \o x) = Len(h) + Len(x)
        BY ConcatProperties
      <4> QED
        BY <4>2, <4>3
    <3>11. ost[f] = Len(hx)
      <4>1. os # <<>>
        BY <2>10, <3>3
      <4>2. Len(HeaderLines) + Len(Gap(os)) = 3
        BY <4>1, Assembled
      <4>3. ost[f] = Len(HeaderLines) + Len(Gap(os)) + Len(FlattenSeq(SubSeq(os, 1, f - 1)))
        BY <2>8, <2>10, <3>3 DEF BlockStarts
      <4> QED
        BY <3>4, <3>7, <3>10, <4>2, <4>3
    <3>12. kept = hx
      <4>1. PICK y \in Seq(Line) : y = FlattenSeq(SubSeq(os, f, m))
        BY <3>9
      <4>2. op = hx \o y
        BY <3>9, <3>10, <4>1
      <4>3. kept = Prefix(hx \o y, Len(hx))
        BY <2>12, <3>3, <3>11, <4>2
      <4> QED
        BY <4>3, PrefixOf
    <3> QED
      BY <1>6, <2>2, <2>10, <3>3, <3>8, <3>10, <3>12
  <2> QED
    BY <2>9, <2>14, <2>15, <2>16
<1>12. CASE first = 0
  <2>1. cat' = old /\ (raced => nr)
    BY <1>9, <1>10, <1>12
  <2>2. CatTrue(old, nr)
    BY <2>1 DEF CatTrue
  <2> QED
    BY <1>3, <1>9, <1>10, <2>1, <2>2
<1>13. CASE first # 0
  <2>1. new.keys = keys /\ new.starts = BlockStarts(sl) /\ new.plain = plain
    BY <1>8
  <2>2. CatTrue(new, nr)
    BY <1>2, <1>11, <1>13, <2>1 DEF CatTrue
  <2> QED
    BY <1>3, <1>9, <1>10, <1>13, <2>2
<1> QED
  BY <1>12, <1>13

-----------------------------------------------------------------------------
(* The edits of a transcript.                                              *)

\* What a transcript says, asks, runs and plans.
Says(m, n) == IsFiniteSet(Pieces(m)) /\ Cardinality(Pieces(m)) = n
Runs(m, n) == IsFiniteSet(RunningRows(m)) /\ Cardinality(RunningRows(m)) = n
Asked(m) == Of(m, "user") # {}
Cut(m) == Asked(m) /\ \E i \in Of(m, "interrupt") : \A u \in Of(m, "user") : u < i
NoPlans(m) == Of(m, "planning") = {}
OnePlan(m) == \A i, j \in Of(m, "planning") : i = j
\* One transcript says, asks and runs what another does.
Alike(m, r) ==
  /\ \A n \in Nat : (Says(m, n) => Says(r, n)) /\ (Runs(m, n) => Runs(r, n))
  /\ (Asked(r) <=> Asked(m)) /\ (Cut(r) <=> Cut(m))

LEMMA OfIs ==
  ASSUME NEW m \in Seq(Block), NEW role
  PROVE  Of(m, role) = {i \in 1..Len(m) : m[i].role = role}
<1>1. DOMAIN m = 1..Len(m)
  BY LenProperties
<1> QED
  BY <1>1 DEF Of

LEMMA RunsIs ==
  ASSUME NEW m \in Seq(Block)
  PROVE  RunningRows(m) = {i \in 1..Len(m) : m[i].role = "tool" /\ m[i].state = "running"}
<1>1. Of(m, "tool") = {i \in 1..Len(m) : m[i].role = "tool"}
  BY OfIs
<1> QED
  BY <1>1 DEF RunningRows

LEMMA PiecesIs ==
  ASSUME NEW m \in Seq(Block), NEW p
  PROVE  p \in Pieces(m) <=> \E i \in 1..Len(m) : \E k \in 1..m[i].text : p = <<i, k>>
<1>1. DOMAIN m = 1..Len(m)
  BY LenProperties
<1> QED
  BY <1>1 DEF Pieces

LEMMA RunsFinite ==
  ASSUME NEW m \in Seq(Block)
  PROVE  IsFiniteSet(RunningRows(m)) /\ RunningRows(m) \subseteq 1..Len(m)
<1>1. PICK n \in Nat : n = Len(m)
  OBVIOUS
<1>2. RunningRows(m) \in SUBSET (1..n)
  BY <1>1, RunsIs
<1>3. IsFiniteSet(1..n)
  BY FS_Interval
<1> QED
  BY <1>1, <1>2, <1>3, FS_Subset

\* The last interrupt after the last line of the user.
LEMMA CutIs ==
  ASSUME NEW m \in Seq(Block)
  PROVE  (Of(m, "user") # {} /\ \E i \in (Max(Of(m, "user")) + 1)..Len(m) : m[i].role = "interrupt") <=> Cut(m)
<1>1. PICK n \in Nat : n = Len(m)
  OBVIOUS
<1>2. PICK U : U = Of(m, "user") /\ U \subseteq 1..n
  BY <1>1, OfIs
<1>3. PICK I : I = Of(m, "interrupt") /\ I = {i \in 1..n : m[i].role = "interrupt"}
  BY <1>1, OfIs
<1>4. CASE U # {}
  <2>1. PICK x \in 1..n : x = Max(U) /\ x \in U /\ \A u \in U : u <= x
    BY <1>2, <1>4, MaxIn
  <2>2. \A i \in 1..n : (\A u \in U : u < i) <=> i \in (x + 1)..n
    <3>1. SUFFICES ASSUME NEW i \in 1..n PROVE (\A u \in U : u < i) <=> x < i
      <4>1. \A i \in 1..n : x < i <=> i \in (x + 1)..n
        BY <2>1
      <4> QED
        BY <3>1, <4>1
    <3>2. \A u \in U : u \in Nat /\ u <= x /\ x \in Nat /\ i \in Nat
      BY <1>2, <2>1
    <3> QED
      BY <2>1, <3>2
  <2>3. (x + 1)..n \subseteq 1..n
    BY <2>1
  <2>4. (\E i \in (x + 1)..n : m[i].role = "interrupt") <=> (\E i \in I : \A u \in U : u < i)
    BY <1>3, <2>2, <2>3
  <2> QED
    BY <1>1, <1>2, <1>3, <1>4, <2>1, <2>4 DEF Cut, Asked
<1>5. CASE U = {}
  BY <1>2, <1>5 DEF Cut, Asked
<1> QED
  BY <1>4, <1>5

\* Blocks of the same roles, texts and states.
LEMMA SameRoles ==
  ASSUME NEW m \in Seq(Block), NEW r \in Seq(Block), Len(r) = Len(m), \A i \in 1..Len(m) : r[i].role = m[i].role
  PROVE  (\A role : Of(r, role) = Of(m, role)) /\ (Asked(r) <=> Asked(m)) /\ (Cut(r) <=> Cut(m))
         /\ (NoPlans(r) <=> NoPlans(m)) /\ (OnePlan(r) <=> OnePlan(m))
<1>1. PICK n \in Nat : n = Len(m) /\ n = Len(r)
  OBVIOUS
<1>2. ASSUME NEW role PROVE Of(r, role) = Of(m, role)
  <2>1. Of(m, role) = {i \in 1..n : m[i].role = role}
    BY <1>1, OfIs
  <2>2. Of(r, role) = {i \in 1..n : r[i].role = role}
    BY <1>1, OfIs
  <2> QED
    BY <1>1, <2>1, <2>2
<1> QED
  BY <1>2 DEF Asked, Cut, NoPlans, OnePlan

LEMMA SameTexts ==
  ASSUME NEW m \in Seq(Block), NEW r \in Seq(Block), Len(r) = Len(m), \A i \in 1..Len(m) : r[i].text = m[i].text
  PROVE  Pieces(r) = Pieces(m)
<1>1. PICK n \in Nat : n = Len(m) /\ n = Len(r)
  OBVIOUS
<1>2. ASSUME NEW p PROVE p \in Pieces(r) <=> p \in Pieces(m)
  <2>1. p \in Pieces(m) <=> \E i \in 1..n : \E k \in 1..m[i].text : p = <<i, k>>
    BY <1>1, PiecesIs
  <2>2. p \in Pieces(r) <=> \E i \in 1..n : \E k \in 1..r[i].text : p = <<i, k>>
    BY <1>1, PiecesIs
  <2> QED
    BY <1>1, <2>1, <2>2
<1> QED
  BY <1>2

LEMMA SameStates ==
  ASSUME NEW m \in Seq(Block), NEW r \in Seq(Block), Len(r) = Len(m),
         \A i \in 1..Len(m) : r[i].role = m[i].role /\ r[i].state = m[i].state
  PROVE  RunningRows(r) = RunningRows(m)
<1>1. PICK n \in Nat : n = Len(m) /\ n = Len(r)
  OBVIOUS
<1>2. RunningRows(m) = {i \in 1..n : m[i].role = "tool" /\ m[i].state = "running"}
  BY <1>1, RunsIs
<1>3. RunningRows(r) = {i \in 1..n : r[i].role = "tool" /\ r[i].state = "running"}
  BY <1>1, RunsIs
<1> QED
  BY <1>1, <1>2, <1>3

\* Blocks that differ in none of these.
Keeps(m, r) ==
  /\ Len(r) = Len(m)
  /\ \A i \in 1..Len(m) : r[i].role = m[i].role /\ r[i].text = m[i].text /\ r[i].state = m[i].state

LEMMA Kept ==
  ASSUME NEW m \in Seq(Block), NEW r \in Seq(Block), Keeps(m, r)
  PROVE  Alike(m, r) /\ (NoPlans(r) <=> NoPlans(m)) /\ (OnePlan(r) <=> OnePlan(m))
<1>1. Pieces(r) = Pieces(m)
  BY SameTexts DEF Keeps
<1>2. RunningRows(r) = RunningRows(m)
  BY SameStates DEF Keeps
<1>3. (Asked(r) <=> Asked(m)) /\ (Cut(r) <=> Cut(m)) /\ (NoPlans(r) <=> NoPlans(m)) /\ (OnePlan(r) <=> OnePlan(m))
  BY SameRoles DEF Keeps
<1> QED
  BY <1>1, <1>2, <1>3 DEF Alike, Says, Runs

\* A block at the end.
Adds(m, b, r) ==
  /\ r \in Seq(Block) /\ Len(r) = Len(m) + 1 /\ r # <<>>
  /\ \A i \in 1..Len(m) : r[i] = m[i]
  /\ r[Len(m) + 1] = b

LEMMA RowAppended ==
  ASSUME NEW m \in Seq(Block), NEW b \in Block
  PROVE  Adds(m, b, Append(m, b))
BY AppendProperties DEF Adds

LEMMA OfAppended ==
  ASSUME NEW m \in Seq(Block), NEW b \in Block, NEW r, Adds(m, b, r)
  PROVE  /\ \A role : b.role # role => Of(r, role) = Of(m, role)
         /\ \A role : b.role = role => Of(r, role) = Of(m, role) \cup {Len(m) + 1}
         /\ \A role : \A i \in Of(m, role) : i \in Nat /\ i < Len(m) + 1
<1>1. PICK n \in Nat : n = Len(m)
  OBVIOUS
<1>2. r \in Seq(Block) /\ Len(r) = n + 1 /\ (\A i \in 1..n : r[i] = m[i]) /\ r[n + 1] = b
  BY <1>1 DEF Adds
<1>3. ASSUME NEW role
      PROVE  /\ b.role # role => Of(r, role) = Of(m, role)
             /\ b.role = role => Of(r, role) = Of(m, role) \cup {n + 1}
             /\ \A i \in Of(m, role) : i \in Nat /\ i < n + 1
  <2>3. Of(m, role) = {i \in 1..n : m[i].role = role}
    BY <1>1, OfIs
  <2>4. Of(r, role) = {i \in 1..(n + 1) : r[i].role = role}
    BY <1>2, OfIs
  <2>5. 1..(n + 1) = (1..n) \cup {n + 1} /\ n + 1 \notin 1..n
    BY <1>1
  <2>6. b.role # role => Of(r, role) = Of(m, role)
    BY <1>2, <2>3, <2>4, <2>5
  <2>7. b.role = role => Of(r, role) = Of(m, role) \cup {n + 1}
    BY <1>2, <2>3, <2>4, <2>5
  <2>8. \A i \in Of(m, role) : i \in Nat /\ i < n + 1
    BY <1>1, <2>3
  <2> QED
    BY <2>6, <2>7, <2>8
<1> QED
  BY <1>1, <1>3

LEMMA PiecesAppended ==
  ASSUME NEW m \in Seq(Block), NEW b \in Block, b.text = 0, NEW r, Adds(m, b, r)
  PROVE  Pieces(r) = Pieces(m)
<1>1. PICK n \in Nat : n = Len(m)
  OBVIOUS
<1>2. r \in Seq(Block) /\ Len(r) = n + 1 /\ (\A i \in 1..n : r[i] = m[i]) /\ r[n + 1] = b
  BY <1>1 DEF Adds
<1>3. ASSUME NEW p PROVE p \in Pieces(r) <=> p \in Pieces(m)
  <2>1. p \in Pieces(m) <=> \E i \in 1..n : \E k \in 1..m[i].text : p = <<i, k>>
    BY <1>1, PiecesIs
  <2>2. p \in Pieces(r) <=> \E i \in 1..(n + 1) : \E k \in 1..r[i].text : p = <<i, k>>
    BY <1>1, <1>2, PiecesIs
  <2>3. \A k \in 1..r[n + 1].text : FALSE
    BY <1>2
  <2>4. 1..(n + 1) = (1..n) \cup {n + 1}
    BY <1>1
  <2> QED
    BY <1>2, <2>1, <2>2, <2>3, <2>4
<1> QED
  BY <1>3

LEMMA RunsAppended ==
  ASSUME NEW m \in Seq(Block), NEW b \in Block, NEW r, Adds(m, b, r), NEW n \in Nat, Runs(m, n)
  PROVE  /\ (b.role # "tool" \/ b.state # "running") => Runs(r, n)
         /\ (b.role = "tool" /\ b.state = "running") => Runs(r, n + 1)
<1>1. PICK l \in Nat : l = Len(m)
  OBVIOUS
<1>2. r \in Seq(Block) /\ Len(r) = l + 1 /\ (\A i \in 1..l : r[i] = m[i]) /\ r[l + 1] = b
  BY <1>1 DEF Adds
<1>3. RunningRows(m) = {i \in 1..l : m[i].role = "tool" /\ m[i].state = "running"}
  BY <1>1, RunsIs
<1>4. RunningRows(r) = {i \in 1..(l + 1) : r[i].role = "tool" /\ r[i].state = "running"}
  BY <1>2, RunsIs
<1>5. 1..(l + 1) = (1..l) \cup {l + 1} /\ l + 1 \notin 1..l
  BY <1>1
<1>6. (b.role # "tool" \/ b.state # "running") => RunningRows(r) = RunningRows(m)
  BY <1>2, <1>3, <1>4, <1>5
<1>7. (b.role = "tool" /\ b.state = "running") => RunningRows(r) = RunningRows(m) \cup {l + 1} /\ l + 1 \notin RunningRows(m)
  BY <1>2, <1>3, <1>4, <1>5
<1>8. PICK S : S = RunningRows(m) /\ IsFiniteSet(S) /\ Cardinality(S) = n
  BY DEF Runs
<1>9. l + 1 \notin S => IsFiniteSet(S \cup {l + 1}) /\ Cardinality(S \cup {l + 1}) = n + 1
  BY <1>8, FS_AddElement
<1> QED
  BY <1>6, <1>7, <1>8, <1>9 DEF Runs

\* What a new block is to the transcript, by its role.
LEMMA AppendAlike ==
  ASSUME NEW m \in Seq(Block), NEW b \in Block, b.text = 0, NEW r, Adds(m, b, r),
         b.role \in {"assistant", "planning"} \/ (b.role = "tool" /\ b.state # "running")
  PROVE  Alike(m, r)
<1>1. Pieces(r) = Pieces(m)
  BY PiecesAppended
<1>2. \A n \in Nat : Runs(m, n) => Runs(r, n)
  BY RunsAppended
<1>3. Of(r, "user") = Of(m, "user") /\ Of(r, "interrupt") = Of(m, "interrupt")
  BY OfAppended
<1> QED
  BY <1>1, <1>2, <1>3 DEF Alike, Says, Asked, Cut

LEMMA AppendPlans ==
  ASSUME NEW m \in Seq(Block), NEW b \in Block, NEW r, Adds(m, b, r)
  PROVE  /\ b.role # "planning" => (OnePlan(m) => OnePlan(r)) /\ (NoPlans(m) => NoPlans(r))
         /\ NoPlans(m) => OnePlan(r)
<1>1. CASE b.role # "planning"
  <2>1. Of(r, "planning") = Of(m, "planning")
    BY <1>1, OfAppended
  <2> QED
    BY <1>1, <2>1 DEF OnePlan, NoPlans
<1>2. CASE b.role = "planning"
  <2>1. Of(r, "planning") = Of(m, "planning") \cup {Len(m) + 1}
    BY <1>2, OfAppended
  <2> QED
    BY <1>2, <2>1 DEF OnePlan, NoPlans
<1> QED
  BY <1>1, <1>2

LEMMA AppendUser ==
  ASSUME NEW m \in Seq(Block), NEW b \in Block, b.role = "user", NEW r, Adds(m, b, r)
  PROVE  /\ Asked(r) /\ ~Cut(r) /\ (NoPlans(m) => NoPlans(r))
         /\ \A n \in Nat : (Says(m, n) => Says(r, n)) /\ (Runs(m, n) => Runs(r, n))
<1>1. Pieces(r) = Pieces(m)
  <2>1. b.text = 0
    BY Fields
  <2> QED
    BY <2>1, PiecesAppended
<1>2. \A n \in Nat : Runs(m, n) => Runs(r, n)
  BY RunsAppended
<1>3. PICK e \in Nat : e = Len(m) + 1
  OBVIOUS
<1>4. Of(r, "user") = Of(m, "user") \cup {e} /\ Of(r, "interrupt") = Of(m, "interrupt")
  BY <1>3, OfAppended
<1>5. \A i \in Of(r, "interrupt") : ~(e < i)
  BY <1>3, <1>4, OfAppended
<1>6. Asked(r) /\ ~Cut(r)
  BY <1>4, <1>5 DEF Asked, Cut
<1>7. NoPlans(m) => NoPlans(r)
  BY AppendPlans
<1> QED
  BY <1>1, <1>2, <1>6, <1>7 DEF Says

LEMMA AppendInterrupt ==
  ASSUME NEW m \in Seq(Block), NEW b \in Block, b.role = "interrupt", NEW r, Adds(m, b, r), Asked(m)
  PROVE  /\ Asked(r) /\ Cut(r) /\ (NoPlans(m) => NoPlans(r))
         /\ \A n \in Nat : (Says(m, n) => Says(r, n)) /\ (Runs(m, n) => Runs(r, n))
<1>1. Pieces(r) = Pieces(m)
  <2>1. b.text = 0
    BY Fields
  <2> QED
    BY <2>1, PiecesAppended
<1>2. \A n \in Nat : Runs(m, n) => Runs(r, n)
  BY RunsAppended
<1>3. PICK e \in Nat : e = Len(m) + 1
  OBVIOUS
<1>4. Of(r, "user") = Of(m, "user") /\ Of(r, "interrupt") = Of(m, "interrupt") \cup {e}
  BY <1>3, OfAppended
<1>5. \A u \in Of(r, "user") : u < e
  BY <1>3, <1>4, OfAppended
<1>6. Asked(r) /\ Cut(r)
  BY <1>4, <1>5 DEF Asked, Cut
<1>7. NoPlans(m) => NoPlans(r)
  BY AppendPlans
<1> QED
  BY <1>1, <1>2, <1>6, <1>7 DEF Says

\* Another block in one's place.
Changes(m, k, b, r) ==
  /\ r \in Seq(Block) /\ Len(r) = Len(m) /\ r[k] = b
  /\ \A i \in 1..Len(m) : i # k => r[i] = m[i]

LEMMA Changed ==
  ASSUME NEW m \in Seq(Block), NEW k \in 1..Len(m), NEW b \in Block
  PROVE  Changes(m, k, b, [m EXCEPT ![k] = b])
<1>1. PICK n \in Nat : n = Len(m) /\ m \in [1..n -> Block]
  BY LenProperties
<1>2. PICK r \in [1..n -> Block] : r = [m EXCEPT ![k] = b]
  BY <1>1
<1>3. r[k] = b /\ \A i \in 1..n : i # k => r[i] = m[i]
  BY <1>1, <1>2
<1>4. r \in Seq(Block) /\ Len(r) = n
  BY <1>1
<1> QED
  BY <1>1, <1>2, <1>3, <1>4 DEF Changes

LEMMA ChangeKeeps ==
  ASSUME NEW m \in Seq(Block), NEW k \in 1..Len(m), NEW b \in Block, NEW r, Changes(m, k, b, r),
         b.role = m[k].role, b.text = m[k].text, b.state = m[k].state
  PROVE  Keeps(m, r)
<1>1. Len(r) = Len(m) /\ r[k] = b /\ \A i \in 1..Len(m) : i # k => r[i] = m[i]
  BY DEF Changes
<1> QED
  BY <1>1 DEF Keeps

\* A piece more in an answer.
LEMMA ChangeSays ==
  ASSUME NEW m \in Seq(Block), NEW k \in 1..Len(m), NEW b \in Block, NEW r, Changes(m, k, b, r),
         b.role = m[k].role, b.text = m[k].text + 1, b.state = m[k].state, NEW n \in Nat, Says(m, n)
  PROVE  Says(r, n + 1)
<1>1. r \in Seq(Block) /\ Len(r) = Len(m) /\ r[k] = b /\ \A i \in 1..Len(m) : i # k => r[i] = m[i]
  BY DEF Changes
<1>2. PICK l \in Nat : l = Len(m)
  OBVIOUS
<1>3. PICK x \in Nat : x = m[k].text
  <2>1. m[k] \in Block
    BY <1>2
  <2> QED
    BY <2>1, Fields
<1>4. PICK q : q = <<k, x + 1>>
  OBVIOUS
<1>5. ASSUME NEW p PROVE p \in Pieces(r) <=> (p \in Pieces(m) \/ p = q)
  <2>1. p \in Pieces(m) <=> \E i \in 1..l : \E j \in 1..m[i].text : p = <<i, j>>
    BY <1>2, PiecesIs
  <2>2. p \in Pieces(r) <=> \E i \in 1..l : \E j \in 1..r[i].text : p = <<i, j>>
    BY <1>1, <1>2, PiecesIs
  <2>3. 1..r[k].text = (1..m[k].text) \cup {x + 1}
    <3>1. 1..(x + 1) = (1..x) \cup {x + 1}
      BY <1>3
    <3> QED
      BY <1>1, <1>3, <3>1
  <2> QED
    BY <1>1, <1>2, <1>4, <2>1, <2>2, <2>3
<1>6. q \notin Pieces(m)
  <2>1. q \in Pieces(m) <=> \E i \in 1..l : \E j \in 1..m[i].text : q = <<i, j>>
    BY <1>2, PiecesIs
  <2>2. x + 1 \notin 1..m[k].text
    BY <1>3
  <2> QED
    BY <1>4, <2>1, <2>2
<1>7. PICK S : S = Pieces(m) /\ IsFiniteSet(S) /\ Cardinality(S) = n
  BY DEF Says
<1>8. Pieces(r) = S \cup {q}
  BY <1>5, <1>7
<1>9. IsFiniteSet(S \cup {q}) /\ Cardinality(S \cup {q}) = n + 1
  BY <1>6, <1>7, FS_AddElement
<1> QED
  BY <1>8, <1>9 DEF Says

\* A row that no longer runs.
LEMMA ChangeRuns ==
  ASSUME NEW m \in Seq(Block), NEW k \in RunningRows(m), NEW b \in Block, NEW r, Changes(m, k, b, r),
         b.role = "tool", b.state # "running", NEW n \in Nat, Runs(m, n)
  PROVE  /\ n # 0 /\ Runs(r, n - 1) /\ r \in Seq(Block) /\ Len(r) = Len(m) /\ Pieces(r) = Pieces(m)
         /\ (Asked(r) <=> Asked(m)) /\ (Cut(r) <=> Cut(m)) /\ (NoPlans(r) <=> NoPlans(m)) /\ (OnePlan(r) <=> OnePlan(m))
<1>1. PICK l \in Nat : l = Len(m)
  OBVIOUS
<1>2. RunningRows(m) = {i \in 1..l : m[i].role = "tool" /\ m[i].state = "running"}
  BY <1>1, RunsIs
<1>3. k \in 1..l /\ m[k].role = "tool"
  BY <1>2
<1>4. r \in Seq(Block) /\ Len(r) = l /\ r[k] = b /\ \A i \in 1..l : i # k => r[i] = m[i]
  BY <1>1 DEF Changes
<1>5. RunningRows(r) = {i \in 1..l : r[i].role = "tool" /\ r[i].state = "running"}
  BY <1>1, <1>4, RunsIs
<1>6. RunningRows(r) = RunningRows(m) \ {k}
  BY <1>2, <1>3, <1>4, <1>5
<1>7. PICK S : S = RunningRows(m) /\ IsFiniteSet(S) /\ Cardinality(S) = n
  BY DEF Runs
<1>8. IsFiniteSet(S \ {k}) /\ Cardinality(S \ {k}) = n - 1 /\ n # 0
  <2>1. S # {}
    BY <1>7
  <2>2. n # 0
    BY <1>7, <2>1, FS_EmptySet
  <2> QED
    BY <1>7, <2>2, FS_RemoveElement
<1>9. Runs(r, n - 1)
  BY <1>6, <1>7, <1>8 DEF Runs
<1>10. Pieces(r) = Pieces(m)
  <2>1. m[k] \in Block
    BY <1>1, <1>3
  <2>2. b.text = 0 /\ m[k].text = 0
    BY <1>3, <2>1, Fields
  <2>3. \A i \in 1..l : r[i].text = m[i].text
    BY <1>4, <2>2
  <2> QED
    BY <1>1, <1>4, <2>3, SameTexts
<1>11. \A i \in 1..l : r[i].role = m[i].role
  BY <1>3, <1>4
<1>12. (Asked(r) <=> Asked(m)) /\ (Cut(r) <=> Cut(m)) /\ (NoPlans(r) <=> NoPlans(m)) /\ (OnePlan(r) <=> OnePlan(m))
  BY <1>1, <1>4, <1>11, SameRoles
<1> QED
  BY <1>1, <1>4, <1>8, <1>9, <1>10, <1>12

LEMMA Matched ==
  ASSUME NEW S, IsFiniteSet(S), NEW Elt, NEW f \in [S -> Elt], NEW g \in [Elt -> S],
         \A x \in S : g[f[x]] = x, \A y \in Elt : f[g[y]] = y
  PROVE  IsFiniteSet(Elt) /\ Cardinality(Elt) = Cardinality(S)
<1>1. \A x, y \in S : f[x] = f[y] => x = y
  OBVIOUS
<1>2. \A y \in Elt : \E x \in S : f[x] = y
  OBVIOUS
<1>3. f \in Bijection(S, Elt)
  BY <1>1, <1>2 DEF Bijection, Injection, Surjection, IsInjective
<1>4. ExistsBijection(S, Elt)
  BY <1>3 DEF ExistsBijection
<1> QED
  BY <1>4, FS_Bijection

\* Where a block stands before and after the one at k is taken out.
Up(k, i) == IF i < k THEN i ELSE i + 1
Down(k, i) == IF i < k THEN i ELSE i - 1

LEMMA UpDown ==
  ASSUME NEW n \in Nat, NEW k \in 1..n
  PROVE  /\ \A i \in 1..(n - 1) : Up(k, i) \in 1..n /\ Up(k, i) # k /\ Down(k, Up(k, i)) = i
         /\ \A j \in 1..n : j # k => Down(k, j) \in 1..(n - 1) /\ Up(k, Down(k, j)) = j
         /\ \A i, j \in 1..(n - 1) : i < j <=> Up(k, i) < Up(k, j)
BY DEF Up, Down

Shifts(k, n) == \A i \in 1..(n - 1) : Up(k, i) \in 1..n /\ Down(k, Up(k, i)) = i
LEMMA Shifted ==
  ASSUME NEW n \in Nat, NEW k \in 1..n
  PROVE  Shifts(k, n)
BY UpDown DEF Shifts

Removes(m, k, r) ==
  /\ r \in Seq(Block) /\ Len(r) = Len(m) - 1
  /\ \A i \in 1..(Len(m) - 1) : r[i] = m[Up(k, i)]

LEMMA Removed ==
  ASSUME NEW m \in Seq(Block), NEW k \in 1..Len(m)
  PROVE  Removes(m, k, RemoveAt(m, k))
<1>1. PICK n \in Nat : n = Len(m)
  OBVIOUS
<1>2. PICK j \in Nat : j = k - 1 /\ j \in 0..n /\ k = j + 1 /\ k \in Nat /\ k <= n /\ k \in 0..n
  BY <1>1
<1>3. PICK x \in Seq(Block) : x = SubSeq(m, 1, k - 1) /\ Len(x) = j /\ \A i \in 1..j : x[i] = m[i]
  <2>1. PICK x : x = SubSeq(m, 1, j)
    OBVIOUS
  <2>2. x \in Seq(Block) /\ Len(x) = j /\ \A i \in 1..j : x[i] = m[i]
    BY <1>1, <1>2, <2>1, Begin
  <2> QED
    BY <1>2, <2>1, <2>2
<1>4. PICK y \in Seq(Block) : y = SubSeq(m, k + 1, Len(m)) /\ Len(y) = n - k /\ \A i \in 1..(n - k) : y[i] = m[k + i]
  <2>1. PICK y : y = SubSeq(m, k + 1, Len(m))
    OBVIOUS
  <2>2. y \in Seq(Block) /\ Len(y) = n - k /\ \A i \in 1..(n - k) : y[i] = m[k + i]
    BY <1>1, <1>2, <2>1, End
  <2> QED
    BY <2>1, <2>2
<1>5. PICK r \in Seq(Block) : r = x \o y
  BY ConcatProperties
<1>6. Len(r) = Len(x) + Len(y) /\ \A i \in 1..(Len(x) + Len(y)) : r[i] = IF i <= Len(x) THEN x[i] ELSE y[i - Len(x)]
  BY <1>5, ConcatProperties
<1>7. Len(r) = n - 1 /\ \A i \in 1..(n - 1) : r[i] = IF i <= j THEN x[i] ELSE y[i - j]
  <2>1. j + (n - k) = n - 1
    BY <1>2
  <2> QED
    BY <1>3, <1>4, <1>6, <2>1
<1>8. ASSUME NEW i \in 1..(n - 1) PROVE r[i] = m[Up(k, i)]
  <2>1. CASE i < k
    <3>1. i \in 1..j /\ i <= j /\ Up(k, i) = i
      BY <1>2, <2>1 DEF Up
    <3> QED
      BY <1>3, <1>7, <3>1
  <2>2. CASE ~(i < k)
    <3>1. ~(i <= j) /\ i - j \in 1..(n - k) /\ k + (i - j) = i + 1 /\ Up(k, i) = i + 1
      BY <1>2, <2>2 DEF Up
    <3> QED
      BY <1>4, <1>7, <3>1
  <2> QED
    BY <2>1, <2>2
<1>9. RemoveAt(m, k) = r
  BY <1>3, <1>4, <1>5 DEF RemoveAt
<1> QED
  BY <1>1, <1>7, <1>8, <1>9 DEF Removes

LEMMA OfRemoved ==
  ASSUME NEW m \in Seq(Block), NEW k \in 1..Len(m), NEW r, Removes(m, k, r), NEW role
  PROVE  /\ \A i \in Of(r, role) : i \in 1..(Len(m) - 1) /\ Up(k, i) \in Of(m, role) \ {k}
         /\ \A j \in Of(m, role) \ {k} : j \in 1..Len(m) /\ Down(k, j) \in Of(r, role)
<1>1. PICK n \in Nat : n = Len(m) /\ k \in 1..n
  OBVIOUS
<1>2. r \in Seq(Block) /\ Len(r) = n - 1 /\ \A i \in 1..(n - 1) : r[i] = m[Up(k, i)]
  BY <1>1 DEF Removes
<1>3. Of(m, role) = {i \in 1..n : m[i].role = role}
  BY <1>1, OfIs
<1>4. Of(r, role) = {i \in 1..(n - 1) : r[i].role = role}
  BY <1>2, OfIs
<1>5. \A i \in Of(r, role) : i \in 1..(n - 1) /\ Up(k, i) \in Of(m, role) \ {k}
  BY <1>1, <1>2, <1>3, <1>4, UpDown
<1>6. ASSUME NEW j \in Of(m, role) \ {k} PROVE j \in 1..n /\ Down(k, j) \in Of(r, role)
  <2>1. j \in 1..n /\ j # k /\ m[j].role = role
    BY <1>3
  <2>2. PICK d \in 1..(n - 1) : d = Down(k, j) /\ Up(k, d) = j
    BY <1>1, <2>1, UpDown
  <2>3. r[d].role = role
    BY <1>2, <2>1, <2>2
  <2> QED
    BY <1>4, <2>1, <2>2, <2>3
<1> QED
  BY <1>1, <1>5, <1>6

LEMMA RunsRemoved ==
  ASSUME NEW m \in Seq(Block), NEW k \in 1..Len(m), m[k].role # "tool", NEW r, Removes(m, k, r), NEW c \in Nat, Runs(m, c)
  PROVE  Runs(r, c)
<1>1. PICK n \in Nat : n = Len(m) /\ k \in 1..n
  OBVIOUS
<1>2. r \in Seq(Block) /\ Len(r) = n - 1 /\ \A i \in 1..(n - 1) : r[i] = m[Up(k, i)]
  BY <1>1 DEF Removes
<1>3. PICK S : S = RunningRows(m) /\ IsFiniteSet(S) /\ Cardinality(S) = c
  BY DEF Runs
<1>4. PICK Elt : Elt = RunningRows(r)
  OBVIOUS
<1>5. S = {i \in 1..n : m[i].role = "tool" /\ m[i].state = "running"}
  BY <1>1, <1>3, RunsIs
<1>6. Elt = {i \in 1..(n - 1) : r[i].role = "tool" /\ r[i].state = "running"}
  BY <1>2, <1>4, RunsIs
<1>7. ASSUME NEW j \in S PROVE Down(k, j) \in Elt /\ Up(k, Down(k, j)) = j
  <2>1. j \in 1..n /\ j # k /\ m[j].role = "tool" /\ m[j].state = "running"
    BY <1>5
  <2>2. PICK d \in 1..(n - 1) : d = Down(k, j) /\ Up(k, d) = j
    BY <1>1, <2>1, UpDown
  <2>3. r[d] = m[j]
    BY <1>2, <2>2
  <2> QED
    BY <1>6, <2>1, <2>2, <2>3
<1>8. ASSUME NEW i \in Elt PROVE Up(k, i) \in S /\ Down(k, Up(k, i)) = i
  <2>1. i \in 1..(n - 1) /\ r[i].role = "tool" /\ r[i].state = "running"
    BY <1>6
  <2>2. PICK u \in 1..n : u = Up(k, i) /\ Down(k, u) = i
    <3>1. Up(k, i) \in 1..n /\ Down(k, Up(k, i)) = i
      BY <1>1, <2>1, UpDown
    <3> QED
      BY <3>1
  <2>3. r[i] = m[u]
    BY <1>2, <2>1, <2>2
  <2> QED
    BY <1>5, <2>1, <2>2, <2>3
<1>9. PICK f \in [S -> Elt] : f = [j \in S |-> Down(k, j)]
  BY <1>7
<1>10. PICK g \in [Elt -> S] : g = [i \in Elt |-> Up(k, i)]
  BY <1>8
<1>11. \A j \in S : g[f[j]] = j
  BY <1>7, <1>9, <1>10
<1>12. \A i \in Elt : f[g[i]] = i
  BY <1>8, <1>9, <1>10
<1>13. IsFiniteSet(Elt) /\ Cardinality(Elt) = Cardinality(S)
  BY <1>3, <1>11, <1>12, Matched
<1> QED
  BY <1>3, <1>4, <1>13 DEF Runs

LEMMA SaysRemoved ==
  ASSUME NEW m \in Seq(Block), NEW k \in 1..Len(m), m[k].text = 0, NEW r, Removes(m, k, r), NEW c \in Nat, Says(m, c)
  PROVE  Says(r, c)
<1>1. PICK n \in Nat : n = Len(m) /\ k \in 1..n
  OBVIOUS
<1>2. r \in Seq(Block) /\ Len(r) = n - 1 /\ \A i \in 1..(n - 1) : r[i] = m[Up(k, i)]
  BY <1>1 DEF Removes
<1>3. PICK S : S = Pieces(m) /\ IsFiniteSet(S) /\ Cardinality(S) = c
  BY DEF Says
<1>4. PICK Elt : Elt = Pieces(r)
  OBVIOUS
<1>5. \A p : p \in S <=> \E i \in 1..n : \E l \in 1..m[i].text : p = <<i, l>>
  BY <1>1, <1>3, PiecesIs
<1>6. \A p : p \in Elt <=> \E i \in 1..(n - 1) : \E l \in 1..r[i].text : p = <<i, l>>
  BY <1>2, <1>4, PiecesIs
<1>u. Shifts(k, n)
  BY <1>1, Shifted
<1> DEFINE dn(p) == <<Down(k, p[1]), p[2]>>
           up(p) == <<Up(k, p[1]), p[2]>>
<1>7. ASSUME NEW p \in S PROVE dn(p) \in Elt /\ up(dn(p)) = p
  <2>1. PICK j \in 1..n : \E l \in 1..m[j].text : p = <<j, l>>
    BY <1>5
  <2>2. PICK l \in 1..m[j].text : p = <<j, l>>
    BY <2>1
  <2>3. j # k
    <3>1. \A x \in 1..0 : FALSE
      OBVIOUS
    <3> QED
      BY <2>2, <3>1
  <2>4. PICK d \in 1..(n - 1) : d = Down(k, j) /\ Up(k, d) = j
    BY <1>1, <2>3, UpDown
  <2>5. r[d] = m[j]
    BY <1>2, <2>4
  <2>6. dn(p) = <<d, l>> /\ up(dn(p)) = <<j, l>>
    BY <2>2, <2>4
  <2> QED
    BY <1>6, <2>2, <2>4, <2>5, <2>6
<1>8. ASSUME NEW p \in Elt PROVE up(p) \in S /\ dn(up(p)) = p
  <2>1. PICK i \in 1..(n - 1) : \E l \in 1..r[i].text : p = <<i, l>>
    BY <1>6
  <2>2. PICK l \in 1..r[i].text : p = <<i, l>>
    BY <2>1
  <2>3. PICK u \in 1..n : u = Up(k, i) /\ Down(k, u) = i
    <3>1. Up(k, i) \in 1..n /\ Down(k, Up(k, i)) = i
      BY <1>u DEF Shifts
    <3> QED
      BY <3>1
  <2>4. r[i] = m[u]
    BY <1>2, <2>3
  <2>5. up(p) = <<u, l>> /\ dn(up(p)) = <<i, l>>
    BY <2>2, <2>3
  <2> QED
    BY <1>5, <2>2, <2>3, <2>4, <2>5
<1> HIDE DEF up, dn
<1>9. PICK f \in [S -> Elt] : f = [p \in S |-> dn(p)]
  BY <1>7
<1>10. PICK g \in [Elt -> S] : g = [p \in Elt |-> up(p)]
  BY <1>8
<1>11. \A p \in S : g[f[p]] = p
  BY <1>7, <1>9, <1>10
<1>12. \A p \in Elt : f[g[p]] = p
  BY <1>8, <1>9, <1>10
<1>13. IsFiniteSet(Elt) /\ Cardinality(Elt) = Cardinality(S)
  BY <1>3, <1>11, <1>12, Matched
<1> QED
  BY <1>3, <1>4, <1>13 DEF Says

LEMMA RemoveAlike ==
  ASSUME NEW m \in Seq(Block), NEW k \in Of(m, "planning"), NEW r, Removes(m, k, r)
  PROVE  Alike(m, r) /\ (OnePlan(m) => NoPlans(r)) /\ r \in Seq(Block) /\ Len(r) + 1 = Len(m)
<1>1. PICK n \in Nat : n = Len(m)
  OBVIOUS
<1>2. k \in 1..n /\ m[k] \in Block /\ m[k].role = "planning"
  BY <1>1, OfIs
<1>3. m[k].text = 0
  BY <1>2, Fields
<1>4. \A c \in Nat : (Says(m, c) => Says(r, c)) /\ (Runs(m, c) => Runs(r, c))
  BY <1>1, <1>2, <1>3, SaysRemoved, RunsRemoved
<1>5. ASSUME NEW role
      PROVE  /\ \A i \in Of(r, role) : i \in 1..(n - 1) /\ Up(k, i) \in Of(m, role) \ {k}
             /\ \A j \in Of(m, role) \ {k} : j \in 1..n /\ Down(k, j) \in Of(r, role)
  BY <1>1, <1>2, OfRemoved
<1>6. k \notin Of(m, "user") /\ k \notin Of(m, "interrupt")
  BY <1>2, OfIs
<1>7. Asked(r) <=> Asked(m)
  BY <1>5, <1>6 DEF Asked
<1>8. Cut(m) => Cut(r)
  <2>1. SUFFICES ASSUME Cut(m) PROVE Cut(r)
    OBVIOUS
  <2>2. PICK j \in Of(m, "interrupt") : \A u \in Of(m, "user") : u < j
    BY <2>1 DEF Cut
  <2>3. PICK i \in 1..(n - 1) : i = Down(k, j) /\ i \in Of(r, "interrupt") /\ Up(k, i) = j
    <3>1. j \in 1..n /\ j # k /\ Down(k, j) \in Of(r, "interrupt")
      BY <1>5, <1>6, <2>2
    <3> QED
      BY <1>1, <1>2, <3>1, UpDown
  <2>4. ASSUME NEW v \in Of(r, "user") PROVE v < i
    <3>1. v \in 1..(n - 1) /\ Up(k, v) < Up(k, i)
      BY <1>5, <2>2, <2>3
    <3> QED
      BY <1>1, <1>2, <3>1, UpDown
  <2>5. Asked(r)
    BY <1>7, <2>1 DEF Cut
  <2> QED
    BY <2>3, <2>4, <2>5 DEF Cut
<1>9. Cut(r) => Cut(m)
  <2>1. SUFFICES ASSUME Cut(r) PROVE Cut(m)
    OBVIOUS
  <2>2. PICK i \in Of(r, "interrupt") : \A v \in Of(r, "user") : v < i
    BY <2>1 DEF Cut
  <2>3. i \in 1..(n - 1) /\ Up(k, i) \in Of(m, "interrupt")
    BY <1>5, <2>2
  <2>4. ASSUME NEW u \in Of(m, "user") PROVE u < Up(k, i)
    <3>1. u \in 1..n /\ u # k /\ Down(k, u) \in Of(r, "user")
      BY <1>5, <1>6
    <3>2. PICK v \in 1..(n - 1) : v = Down(k, u) /\ Up(k, v) = u
      BY <1>1, <1>2, <3>1, UpDown
    <3>3. v < i
      BY <2>2, <3>1, <3>2
    <3> QED
      BY <1>1, <1>2, <2>3, <3>2, <3>3, UpDown
  <2>5. Asked(m)
    BY <1>7, <2>1 DEF Cut
  <2> QED
    BY <2>3, <2>4, <2>5 DEF Cut
<1>10. OnePlan(m) => NoPlans(r)
  BY <1>5 DEF OnePlan, NoPlans
<1>11. r \in Seq(Block) /\ Len(r) + 1 = Len(m)
  BY <1>1 DEF Removes
<1> QED
  BY <1>4, <1>7, <1>8, <1>9, <1>10, <1>11 DEF Alike

\* The blocks that the program makes, and what it makes of them.
LEMMA Made ==
  /\ User \in Block /\ User.role = "user"
  /\ Interrupt \in Block /\ Interrupt.role = "interrupt"
  /\ Planning \in Block /\ Planning.role = "planning" /\ Planning.text = 0
BY DEF User, Interrupt, Planning, Plain, Block, Roles, Thinks, States, Args

LEMMA MadeAnswer ==
  ASSUME NEW n \in Nat, NEW s \in BOOLEAN
  PROVE  Assistant(n, s) \in Block /\ Assistant(n, s).role = "assistant" /\ Assistant(n, s).text = n
BY DEF Assistant, Plain, Block, Roles, Thinks, States, Args

LEMMA MadeTool ==
  ASSUME NEW args \in Args, NEW state \in States
  PROVE  Tool(args, state) \in Block /\ Tool(args, state).role = "tool" /\ Tool(args, state).text = 0 /\ Tool(args, state).state = state
BY DEF Tool, Plain, Block, Roles, Thinks, States

LEMMA Reasoned ==
  ASSUME NEW b \in Block
  PROVE  /\ FinalizeReasoning(b) \in Block /\ FinalizeReasoning(b).role = b.role /\ FinalizeReasoning(b).text = b.text
         /\ FinalizeReasoning(b).state = b.state
BY DEF FinalizeReasoning, Block, Thinks

LEMMA IsFinished ==
  ASSUME NEW b \in Block
  PROVE  Finished(b) \in Block /\ Finished(b).role = b.role /\ Finished(b).text = b.text /\ Finished(b).state = b.state
<1>1. PICK c \in Block : c = FinalizeReasoning(b) /\ c.role = b.role /\ c.text = b.text /\ c.state = b.state
  BY Reasoned
<1>2. [c EXCEPT !.streaming = FALSE] \in Block
  BY DEF Block
<1> QED
  BY <1>1, <1>2 DEF Finished, Block

LEMMA IsThinking ==
  ASSUME NEW b \in Block
  PROVE  Thinking(b) \in Block /\ Thinking(b).role = b.role /\ Thinking(b).text = b.text /\ Thinking(b).state = b.state
BY DEF Thinking, Block, Thinks

LEMMA IsLonger ==
  ASSUME NEW b \in Block, b.role = "assistant"
  PROVE  Longer(b) \in Block /\ Longer(b).role = b.role /\ Longer(b).text = b.text + 1 /\ Longer(b).state = b.state
<1>1. PICK c \in Block : c = FinalizeReasoning(b) /\ c.role = b.role /\ c.text = b.text /\ c.state = b.state
  BY Reasoned
<1>2. c.text + 1 \in Nat
  BY Fields
<1>3. PICK d : d = [c EXCEPT !.streaming = TRUE, !.text = @ + 1]
  OBVIOUS
<1>4. d \in Block /\ d.role = c.role /\ d.text = c.text + 1 /\ d.state = c.state
  BY <1>1, <1>2, <1>3 DEF Block
<1> QED
  BY <1>1, <1>3, <1>4 DEF Longer

LEMMA LastOf ==
  ASSUME NEW m \in Seq(Block), NEW role, LastIs(m, role)
  PROVE  /\ m # <<>> /\ Len(m) \in 1..Len(m) /\ Last(m) = m[Len(m)] /\ Last(m) \in Block /\ Last(m).role = role
         /\ Len(m) \in Of(m, role)
<1>1. m # <<>> /\ Last(m) = m[Len(m)] /\ Last(m).role = role
  BY DEF LastIs, Last
<1>2. PICK n \in Nat : n = Len(m)
  OBVIOUS
<1>3. n # 0
  BY <1>1, <1>2
<1>4. n \in 1..n
  BY <1>3
<1>5. m[n] \in Block
  BY <1>2, <1>4
<1>6. n \in Of(m, role)
  BY <1>1, <1>2, <1>4, OfIs
<1> QED
  BY <1>1, <1>2, <1>4, <1>5, <1>6

\* A transcript's plans are those of another.
SamePlans(m, r) == (NoPlans(m) => NoPlans(r)) /\ (OnePlan(m) => OnePlan(r))

LEMMA ClearIs ==
  ASSUME NEW m \in Seq(Block)
  PROVE  /\ ClearPlanningBlock(m) \in Seq(Block) /\ Len(ClearPlanningBlock(m)) <= Len(m)
         /\ Alike(m, ClearPlanningBlock(m)) /\ (OnePlan(m) => NoPlans(ClearPlanningBlock(m)))
<1>1. PICK n, at : n \in Nat /\ n = Len(m) /\ at = Of(m, "planning") /\ at \subseteq 1..n
  <2>1. Of(m, "planning") \subseteq 1..Len(m)
    BY OfIs
  <2> QED
    BY <2>1
<1>2. CASE at = {}
  <2>1. ClearPlanningBlock(m) = m
    BY <1>1, <1>2 DEF ClearPlanningBlock
  <2>2. Alike(m, m) /\ NoPlans(m)
    BY <1>1, <1>2 DEF Alike, NoPlans
  <2> QED
    BY <1>1, <2>1, <2>2
<1>3. CASE at # {}
  <2>1. PICK k \in at : k = Max(at)
    BY <1>1, <1>3, MaxIn
  <2>2. PICK r : r = RemoveAt(m, k)
    OBVIOUS
  <2>3. ClearPlanningBlock(m) = r
    BY <1>1, <1>3, <2>1, <2>2 DEF ClearPlanningBlock
  <2>4. k \in 1..Len(m) /\ k \in Of(m, "planning")
    BY <1>1
  <2>5. Removes(m, k, r)
    BY <2>2, <2>4, Removed
  <2>6. Alike(m, r) /\ (OnePlan(m) => NoPlans(r)) /\ r \in Seq(Block) /\ Len(r) + 1 = Len(m)
    BY <2>4, <2>5, RemoveAlike
  <2>7. Len(r) \in Nat
    BY <2>6
  <2> QED
    BY <1>1, <2>3, <2>6, <2>7
<1> QED
  BY <1>2, <1>3

LEMMA AlikeTwice ==
  ASSUME NEW m, NEW r, NEW q, Alike(m, r), Alike(r, q)
  PROVE  Alike(m, q)
BY DEF Alike

LEMMA EnsureIs ==
  ASSUME NEW m \in Seq(Block)
  PROVE  /\ EnsureStreaming(m) \in Seq(Block) /\ Len(EnsureStreaming(m)) <= Len(m) + 1
         /\ Alike(m, EnsureStreaming(m)) /\ SamePlans(m, EnsureStreaming(m)) /\ LastIs(EnsureStreaming(m), "assistant")
<1>1. CASE LastIs(m, "assistant")
  <2>1. EnsureStreaming(m) = m
    BY <1>1 DEF EnsureStreaming
  <2>2. Alike(m, m) /\ SamePlans(m, m)
    BY DEF Alike, SamePlans
  <2>3. Len(m) <= Len(m) + 1
    OBVIOUS
  <2> QED
    BY <1>1, <2>1, <2>2, <2>3
<1>2. CASE ~LastIs(m, "assistant")
  <2>1. PICK b \in Block : b = Assistant(0, TRUE) /\ b.role = "assistant" /\ b.text = 0
    BY MadeAnswer
  <2>2. PICK r : r = Append(m, b)
    OBVIOUS
  <2>3. EnsureStreaming(m) = r
    BY <1>2, <2>1, <2>2 DEF EnsureStreaming
  <2>4. Adds(m, b, r)
    BY <2>2, RowAppended
  <2>5. Alike(m, r)
    BY <2>1, <2>4, AppendAlike
  <2>6. SamePlans(m, r)
    BY <2>1, <2>4, AppendPlans DEF SamePlans
  <2>7. r \in Seq(Block) /\ Len(r) = Len(m) + 1 /\ r # <<>> /\ r[Len(m) + 1] = b
    BY <2>4 DEF Adds
  <2>8. LastIs(r, "assistant")
    BY <2>1, <2>7 DEF LastIs, Last
  <2>9. Len(r) <= Len(m) + 1
    BY <2>7
  <2> QED
    BY <2>3, <2>5, <2>6, <2>7, <2>8, <2>9
<1> QED
  BY <1>1, <1>2

LEMMA ReasoningIs ==
  ASSUME NEW m \in Seq(Block)
  PROVE  /\ AppendAssistantReasoning(m) \in Seq(Block) /\ Len(AppendAssistantReasoning(m)) <= Len(m) + 1
         /\ Alike(m, AppendAssistantReasoning(m)) /\ SamePlans(m, AppendAssistantReasoning(m))
<1>1. PICK e \in Seq(Block) : e = EnsureStreaming(m) /\ Len(e) <= Len(m) + 1 /\ Alike(m, e) /\ SamePlans(m, e)
                              /\ LastIs(e, "assistant")
  BY EnsureIs
<1>2. PICK k \in 1..Len(e) : k = Len(e) /\ Last(e) = e[k] /\ Last(e) \in Block
  BY <1>1, LastOf
<1>3. PICK b \in Block : b = Thinking(Last(e)) /\ b.role = e[k].role /\ b.text = e[k].text /\ b.state = e[k].state
  BY <1>2, IsThinking
<1>4. PICK r : r = [e EXCEPT ![k] = b]
  OBVIOUS
<1>5. AppendAssistantReasoning(m) = r
  BY <1>1, <1>2, <1>3, <1>4 DEF AppendAssistantReasoning, ChangeLast
<1>6. Changes(e, k, b, r)
  BY <1>4, Changed
<1>7. Keeps(e, r)
  BY <1>3, <1>6, ChangeKeeps
<1>8. r \in Seq(Block) /\ Len(r) = Len(e)
  BY <1>6 DEF Changes
<1>9. Alike(e, r) /\ SamePlans(e, r)
  BY <1>7, <1>8, Kept DEF SamePlans
<1>10. Alike(m, r)
  BY <1>1, <1>9, AlikeTwice
<1> QED
  BY <1>1, <1>5, <1>8, <1>9, <1>10 DEF SamePlans

LEMMA ContentIs ==
  ASSUME NEW m \in Seq(Block)
  PROVE  /\ AppendAssistantContent(m) \in Seq(Block) /\ Len(AppendAssistantContent(m)) <= Len(m) + 1
         /\ SamePlans(m, AppendAssistantContent(m))
         /\ (Asked(AppendAssistantContent(m)) <=> Asked(m)) /\ (Cut(AppendAssistantContent(m)) <=> Cut(m))
         /\ \A n \in Nat : (Says(m, n) => Says(AppendAssistantContent(m), n + 1))
                           /\ (Runs(m, n) => Runs(AppendAssistantContent(m), n))
<1>1. PICK e \in Seq(Block) : e = EnsureStreaming(m) /\ Len(e) <= Len(m) + 1 /\ Alike(m, e) /\ SamePlans(m, e)
                              /\ LastIs(e, "assistant")
  BY EnsureIs
<1>2. PICK k \in 1..Len(e) : k = Len(e) /\ Last(e) = e[k] /\ Last(e) \in Block /\ e[k].role = "assistant"
  BY <1>1, LastOf
<1>3. PICK b \in Block : b = Longer(Last(e)) /\ b.role = e[k].role /\ b.text = e[k].text + 1 /\ b.state = e[k].state
  BY <1>2, IsLonger
<1>4. PICK r : r = [e EXCEPT ![k] = b]
  OBVIOUS
<1>5. AppendAssistantContent(m) = r
  BY <1>1, <1>2, <1>3, <1>4 DEF AppendAssistantContent, ChangeLast
<1>6. Changes(e, k, b, r)
  BY <1>4, Changed
<1>7. \A n \in Nat : Says(e, n) => Says(r, n + 1)
  BY <1>3, <1>6, ChangeSays
<1>8. r \in Seq(Block) /\ Len(r) = Len(e)
  BY <1>6 DEF Changes
<1>9. \A i \in 1..Len(e) : r[i].role = e[i].role /\ r[i].state = e[i].state
  BY <1>3, <1>6 DEF Changes
<1>10. (Asked(r) <=> Asked(e)) /\ (Cut(r) <=> Cut(e)) /\ (NoPlans(r) <=> NoPlans(e)) /\ (OnePlan(r) <=> OnePlan(e))
  BY <1>8, <1>9, SameRoles
<1>11. RunningRows(r) = RunningRows(e)
  BY <1>8, <1>9, SameStates
<1>12. (Asked(r) <=> Asked(m)) /\ (Cut(r) <=> Cut(m)) /\ SamePlans(m, r)
  BY <1>1, <1>10 DEF Alike, SamePlans
<1>13. \A n \in Nat : (Says(m, n) => Says(r, n + 1)) /\ (Runs(m, n) => Runs(r, n))
  BY <1>1, <1>7, <1>11 DEF Alike, Runs
<1> QED
  BY <1>1, <1>5, <1>8, <1>12, <1>13

LEMMA PlanningIs ==
  ASSUME NEW m \in Seq(Block), OnePlan(m)
  PROVE  /\ AppendPlanningBlock(m) \in Seq(Block) /\ Len(AppendPlanningBlock(m)) <= Len(m) + 1
         /\ Alike(m, AppendPlanningBlock(m)) /\ OnePlan(AppendPlanningBlock(m))
<1>1. CASE LastIs(m, "planning")
  <2>1. AppendPlanningBlock(m) = m
    BY <1>1 DEF AppendPlanningBlock
  <2>2. Alike(m, m)
    BY DEF Alike
  <2>3. Len(m) <= Len(m) + 1
    OBVIOUS
  <2> QED
    BY <2>1, <2>2, <2>3
<1>2. CASE ~LastIs(m, "planning")
  <2>1. PICK c \in Seq(Block) : c = ClearPlanningBlock(m) /\ Len(c) <= Len(m) /\ Alike(m, c) /\ NoPlans(c)
    BY ClearIs
  <2>2. PICK b \in Block : b = Planning /\ b.role = "planning" /\ b.text = 0
    BY Made
  <2>3. PICK r : r = Append(c, b)
    OBVIOUS
  <2>4. AppendPlanningBlock(m) = r
    BY <1>2, <2>1, <2>2, <2>3 DEF AppendPlanningBlock
  <2>5. Adds(c, b, r)
    BY <2>3, RowAppended
  <2>6. Alike(c, r)
    BY <2>2, <2>5, AppendAlike
  <2>7. OnePlan(r)
    BY <2>1, <2>5, AppendPlans
  <2>8. r \in Seq(Block) /\ Len(r) = Len(c) + 1
    BY <2>5 DEF Adds
  <2>9. Alike(m, r)
    BY <2>1, <2>6, AlikeTwice
  <2>10. Len(r) <= Len(m) + 1
    BY <2>1, <2>8
  <2> QED
    BY <2>4, <2>7, <2>8, <2>9, <2>10
<1> QED
  BY <1>1, <1>2

LEMMA FinalizeIs ==
  ASSUME NEW m \in Seq(Block)
  PROVE  /\ FinalizeLastAssistant(m) \in Seq(Block) /\ Len(FinalizeLastAssistant(m)) = Len(m)
         /\ Alike(m, FinalizeLastAssistant(m)) /\ SamePlans(m, FinalizeLastAssistant(m))
<1>1. PICK n, at : n \in Nat /\ n = Len(m) /\ at = Of(m, "assistant") /\ at \subseteq 1..n
  <2>1. Of(m, "assistant") \subseteq 1..Len(m)
    BY OfIs
  <2> QED
    BY <2>1
<1>2. CASE at = {}
  <2>1. FinalizeLastAssistant(m) = m
    BY <1>1, <1>2 DEF FinalizeLastAssistant
  <2>2. Alike(m, m) /\ SamePlans(m, m)
    BY DEF Alike, SamePlans
  <2> QED
    BY <2>1, <2>2
<1>3. CASE at # {}
  <2>1. PICK k \in at : k = Max(at)
    BY <1>1, <1>3, MaxIn
  <2>2. k \in 1..Len(m) /\ m[k] \in Block
    BY <1>1
  <2>3. PICK b \in Block : b = Finished(m[k]) /\ b.role = m[k].role /\ b.text = m[k].text /\ b.state = m[k].state
    BY <2>2, IsFinished
  <2>4. PICK r : r = [m EXCEPT ![k] = b]
    OBVIOUS
  <2>5. FinalizeLastAssistant(m) = r
    BY <1>1, <1>3, <2>1, <2>2, <2>3, <2>4 DEF FinalizeLastAssistant
  <2>6. Changes(m, k, b, r)
    BY <2>2, <2>4, Changed
  <2>7. Keeps(m, r)
    BY <2>2, <2>3, <2>6, ChangeKeeps
  <2>8. r \in Seq(Block) /\ Len(r) = Len(m)
    BY <2>6 DEF Changes
  <2>9. Alike(m, r) /\ SamePlans(m, r)
    BY <2>7, <2>8, Kept DEF SamePlans
  <2> QED
    BY <2>5, <2>8, <2>9
<1> QED
  BY <1>2, <1>3

LEMMA ToolRowIs ==
  ASSUME NEW m \in Seq(Block), NEW row \in Block, row.role = "tool"
  PROVE  /\ AppendToolBlock(m, row) \in Seq(Block) /\ Len(AppendToolBlock(m, row)) = Len(m) + 1
         /\ SamePlans(m, AppendToolBlock(m, row))
         /\ (Asked(AppendToolBlock(m, row)) <=> Asked(m)) /\ (Cut(AppendToolBlock(m, row)) <=> Cut(m))
         /\ \A n \in Nat : (Says(m, n) => Says(AppendToolBlock(m, row), n))
                           /\ (Runs(m, n) /\ row.state = "running" => Runs(AppendToolBlock(m, row), n + 1))
<1>1. PICK e \in Seq(Block) :
        /\ e = IF LastIs(m, "assistant") THEN ChangeLast(m, Finished(Last(m))) ELSE m
        /\ Len(e) = Len(m) /\ Alike(m, e) /\ SamePlans(m, e)
  <2>1. CASE LastIs(m, "assistant")
    <3>1. PICK k \in 1..Len(m) : k = Len(m) /\ Last(m) = m[k] /\ Last(m) \in Block
      BY <2>1, LastOf
    <3>2. PICK b \in Block : b = Finished(Last(m)) /\ b.role = m[k].role /\ b.text = m[k].text /\ b.state = m[k].state
      BY <3>1, IsFinished
    <3>3. PICK e : e = [m EXCEPT ![k] = b]
      OBVIOUS
    <3>4. Changes(m, k, b, e)
      BY <3>3, Changed
    <3>5. Keeps(m, e)
      BY <3>2, <3>4, ChangeKeeps
    <3>6. e \in Seq(Block) /\ Len(e) = Len(m)
      BY <3>4 DEF Changes
    <3>7. Alike(m, e) /\ SamePlans(m, e)
      BY <3>5, <3>6, Kept DEF SamePlans
    <3>8. e = ChangeLast(m, Finished(Last(m)))
      BY <3>1, <3>2, <3>3 DEF ChangeLast
    <3> QED
      BY <2>1, <3>6, <3>7, <3>8
  <2>2. CASE ~LastIs(m, "assistant")
    <3>1. Alike(m, m) /\ SamePlans(m, m)
      BY DEF Alike, SamePlans
    <3> QED
      BY <2>2, <3>1
  <2> QED
    BY <2>1, <2>2
<1>2. PICK r : r = Append(e, row) /\ AppendToolBlock(m, row) = r
  BY <1>1 DEF AppendToolBlock
<1>3. Adds(e, row, r)
  BY <1>2, RowAppended
<1>4. r \in Seq(Block) /\ Len(r) = Len(e) + 1
  BY <1>3 DEF Adds
<1>5. row.text = 0
  BY Fields
<1>6. Pieces(r) = Pieces(e)
  BY <1>3, <1>5, PiecesAppended
<1>7. Of(r, "user") = Of(e, "user") /\ Of(r, "interrupt") = Of(e, "interrupt")
  BY <1>3, OfAppended
<1>8. \A n \in Nat : Runs(e, n) /\ row.state = "running" => Runs(r, n + 1)
  BY <1>3, RunsAppended
<1>9. SamePlans(e, r)
  BY <1>3, AppendPlans DEF SamePlans
<1>10. (Asked(r) <=> Asked(m)) /\ (Cut(r) <=> Cut(m)) /\ SamePlans(m, r)
  BY <1>1, <1>7, <1>9 DEF Alike, Asked, Cut, SamePlans
<1>11. \A n \in Nat : (Says(m, n) => Says(r, n)) /\ (Runs(m, n) /\ row.state = "running" => Runs(r, n + 1))
  BY <1>1, <1>6, <1>8 DEF Alike, Says
<1> QED
  BY <1>1, <1>2, <1>4, <1>10, <1>11

LEMMA FinishIs ==
  ASSUME NEW m \in Seq(Block), NEW row \in Block, row.role = "tool", row.state # "running",
         NEW n \in Nat, Runs(m, n), n # 0
  PROVE  /\ FinishToolBlock(m, row) \in Seq(Block) /\ Len(FinishToolBlock(m, row)) = Len(m)
         /\ SamePlans(m, FinishToolBlock(m, row))
         /\ (Asked(FinishToolBlock(m, row)) <=> Asked(m)) /\ (Cut(FinishToolBlock(m, row)) <=> Cut(m))
         /\ Runs(FinishToolBlock(m, row), n - 1)
         /\ \A c \in Nat : Says(m, c) => Says(FinishToolBlock(m, row), c)
<1>1. PICK l, R : l \in Nat /\ l = Len(m) /\ R = RunningRows(m) /\ R \subseteq 1..l
  <2>1. RunningRows(m) \subseteq 1..Len(m)
    BY RunsFinite
  <2> QED
    BY <2>1
<1>2. R # {}
  <2>1. Cardinality({}) = 0
    BY FS_EmptySet
  <2> QED
    BY <1>1, <2>1 DEF Runs
<1>3. PICK X : X = {i \in R : m[i].args = row.args}
  OBVIOUS
<1>4. PICK Y : Y = (IF X # {} THEN X ELSE R) /\ Y \subseteq 1..l /\ Y # {} /\ Y \subseteq R
  BY <1>1, <1>2, <1>3
<1>5. PICK k \in R : k = Max(Y)
  <2>1. Max(Y) \in Y
    BY <1>1, <1>4, MaxIn
  <2> QED
    BY <1>4, <2>1
<1>6. PICK r : r = [m EXCEPT ![k] = row]
  OBVIOUS
<1>7. FinishToolBlock(m, row) = r
  BY <1>1, <1>3, <1>4, <1>5, <1>6 DEF FinishToolBlock
<1>8. k \in 1..Len(m) /\ k \in RunningRows(m)
  BY <1>1
<1>9. Changes(m, k, row, r)
  BY <1>6, <1>8, Changed
<1>10. /\ Runs(r, n - 1) /\ r \in Seq(Block) /\ Len(r) = Len(m) /\ Pieces(r) = Pieces(m)
       /\ (Asked(r) <=> Asked(m)) /\ (Cut(r) <=> Cut(m)) /\ (NoPlans(r) <=> NoPlans(m)) /\ (OnePlan(r) <=> OnePlan(m))
  BY <1>8, <1>9, ChangeRuns
<1> QED
  BY <1>7, <1>10 DEF SamePlans, Says

LEMMA StopIs ==
  ASSUME NEW m \in Seq(Block)
  PROVE  /\ StopRows(m) \in Seq(Block) /\ Len(StopRows(m)) = Len(m) /\ Runs(StopRows(m), 0)
         /\ SamePlans(m, StopRows(m)) /\ (Asked(StopRows(m)) <=> Asked(m)) /\ (Cut(StopRows(m)) <=> Cut(m))
         /\ \A c \in Nat : Says(m, c) => Says(StopRows(m), c)
<1>1. PICK n \in Nat : n = Len(m) /\ DOMAIN m = 1..n /\ \A i \in 1..n : m[i] \in Block
  BY LenProperties
<1>2. RunningRows(m) = {i \in 1..n : m[i].role = "tool" /\ m[i].state = "running"}
  BY <1>1, RunsIs
<1>3. PICK r : r = [i \in 1..n |-> IF i \in RunningRows(m) THEN [m[i] EXCEPT !.state = "stopped"] ELSE m[i]]
  OBVIOUS
<1>4. StopRows(m) = r
  BY <1>1, <1>3 DEF StopRows
<1>5. ASSUME NEW i \in 1..n
      PROVE  /\ r[i] \in Block /\ r[i].role = m[i].role /\ r[i].text = m[i].text
             /\ ~(r[i].role = "tool" /\ r[i].state = "running")
  <2>1. PICK b \in Block : b = m[i]
    BY <1>1
  <2>2. PICK c : c = [b EXCEPT !.state = "stopped"]
    OBVIOUS
  <2>3. c \in Block /\ c.role = b.role /\ c.text = b.text /\ c.state = "stopped"
    BY <2>2 DEF Block, States
  <2>4. r[i] = IF i \in RunningRows(m) THEN c ELSE b
    BY <1>3, <2>1, <2>2
  <2>5. i \in RunningRows(m) <=> (b.role = "tool" /\ b.state = "running")
    BY <1>2, <2>1
  <2> QED
    BY <2>1, <2>3, <2>4, <2>5
<1>6. r \in Seq(Block) /\ Len(r) = n
  <2>1. r \in [1..n -> Block]
    BY <1>3, <1>5
  <2>2. \A f \in [1..n -> Block] : f \in Seq(Block) /\ Len(f) = n
    OBVIOUS
  <2> QED
    BY <2>1, <2>2
<1>7. Pieces(r) = Pieces(m)
  BY <1>1, <1>5, <1>6, SameTexts
<1>8. (Asked(r) <=> Asked(m)) /\ (Cut(r) <=> Cut(m)) /\ (NoPlans(r) <=> NoPlans(m)) /\ (OnePlan(r) <=> OnePlan(m))
  BY <1>1, <1>5, <1>6, SameRoles
<1>9. Runs(r, 0)
  <2>1. RunningRows(r) = {}
    BY <1>5, <1>6, RunsIs
  <2> QED
    BY <2>1, FS_EmptySet DEF Runs
<1> QED
  BY <1>1, <1>4, <1>6, <1>7, <1>8, <1>9 DEF SamePlans, Says

-----------------------------------------------------------------------------
(* The invariant.                                                          *)

CatalogCalls == [MainCalls \cup SubCalls \cup {"run"} -> {"idle", "open", "done"}]
Opens(cs) == Cardinality({c \in MainCalls : cs[c] = "open"})

Typed ==
  /\ main \in Seq(Block) /\ sub \in Seq(Block) /\ chat \in Seq(Block)
  /\ Len(main) <= MaxBlocks /\ Len(sub) <= MaxBlocks /\ Len(chat) <= MaxBlocks
  /\ nav \in {"main", "list", "detail"} /\ running \in BOOLEAN
  /\ calls \in CatalogCalls /\ heard \in 0..MaxHeard /\ clock \in 0..MaxClock
\* The transcript, beside the turn that runs, its calls and the pieces of the answers.
Held(m, run, cs, h) ==
  /\ Says(m, h) /\ OnePlan(m)
  /\ (~run => NoPlans(m)) /\ (run => Asked(m))
  /\ Runs(m, IF run /\ ~Cut(m) THEN Opens(cs) ELSE 0)
Shows == CacheTrue(entries) /\ CatTrue(cat, raced) /\ raced \in BOOLEAN
Catalogued == Typed /\ Held(main, running, calls, heard) /\ Shows

LEMMA CatalogBounds == MaxBlocks \in Nat /\ MaxHeard \in Nat /\ MaxClock \in Nat /\ MaxBlocks >= 2 /\ MaxHeard >= 1
BY CatalogAssumption

LEMMA OpensNat ==
  ASSUME NEW cs
  PROVE  IsFiniteSet({c \in MainCalls : cs[c] = "open"}) /\ Opens(cs) \in Nat
<1>1. {c \in MainCalls : cs[c] = "open"} \in SUBSET MainCalls
  OBVIOUS
<1>2. IsFiniteSet(MainCalls)
  BY CatalogAssumption
<1>3. PICK S : S = {c \in MainCalls : cs[c] = "open"} /\ IsFiniteSet(S)
  BY <1>1, <1>2, FS_Subset
<1> QED
  BY <1>3, FS_CardinalityType DEF Opens

LEMMA OpensSame ==
  ASSUME NEW cs, NEW ds, \A c \in MainCalls : cs[c] = "open" <=> ds[c] = "open"
  PROVE  Opens(ds) = Opens(cs)
<1>1. {c \in MainCalls : ds[c] = "open"} = {c \in MainCalls : cs[c] = "open"}
  OBVIOUS
<1> QED
  BY <1>1 DEF Opens

LEMMA OpensMore ==
  ASSUME NEW cs \in CatalogCalls, NEW c \in MainCalls, cs[c] # "open", NEW ds, ds = [cs EXCEPT ![c] = "open"]
  PROVE  ds \in CatalogCalls /\ Opens(ds) = Opens(cs) + 1
<1>1. PICK S : S = {x \in MainCalls : cs[x] = "open"} /\ IsFiniteSet(S)
  BY OpensNat
<1>2. ds \in CatalogCalls /\ ds[c] = "open" /\ \A x \in MainCalls : x # c => ds[x] = cs[x]
  BY DEF CatalogCalls
<1>3. {x \in MainCalls : ds[x] = "open"} = S \cup {c} /\ c \notin S
  BY <1>1, <1>2
<1>4. Cardinality(S \cup {c}) = Cardinality(S) + 1
  BY <1>1, <1>3, FS_AddElement
<1> QED
  BY <1>1, <1>2, <1>3, <1>4 DEF Opens

LEMMA OpensLess ==
  ASSUME NEW cs \in CatalogCalls, NEW c \in MainCalls, cs[c] = "open", NEW ds, ds = [cs EXCEPT ![c] = "done"]
  PROVE  ds \in CatalogCalls /\ Opens(ds) = Opens(cs) - 1 /\ Opens(cs) # 0
<1>1. PICK S : S = {x \in MainCalls : cs[x] = "open"} /\ IsFiniteSet(S)
  BY OpensNat
<1>2. ds \in CatalogCalls /\ ds[c] = "done" /\ \A x \in MainCalls : x # c => ds[x] = cs[x]
  BY DEF CatalogCalls
<1>3. {x \in MainCalls : ds[x] = "open"} = S \ {c} /\ c \in S
  BY <1>1, <1>2
<1>4. Cardinality(S \ {c}) = Cardinality(S) - 1
  BY <1>1, <1>3, FS_RemoveElement
<1>5. Cardinality(S) # 0
  BY <1>1, <1>3, FS_EmptySet
<1> QED
  BY <1>1, <1>2, <1>3, <1>4, <1>5 DEF Opens

LEMMA OpensNone ==
  ASSUME NEW cs, \A c \in MainCalls : cs[c] # "open"
  PROVE  Opens(cs) = 0
<1>1. {c \in MainCalls : cs[c] = "open"} = {}
  OBVIOUS
<1> QED
  BY <1>1, FS_EmptySet DEF Opens

\* What is shown after a step is the lines of its keys, whether the step syncs or not.
LEMMA ShowsKept ==
  ASSUME Shows, clock \in Nat, chat' \in Seq(Block), SyncChat \/ SyncChatResetting \/ NotSynced
  PROVE  Shows'
<1>1. PICK blocks \in Seq(Block) : blocks = chat'
  OBVIOUS
<1>2. PICK oe, oc : oe = entries /\ oc = cat
  OBVIOUS
<1>3. CASE SyncChat
  <2>1. Rebuild(oc, oe, blocks)
    BY <1>1, <1>2, <1>3 DEF SyncChat, Rebuild
  <2>2. CacheTrue(oe) /\ CatTrue(oc, raced) /\ raced \in BOOLEAN
    BY <1>2 DEF Shows
  <2> QED
    BY <2>1, <2>2, Rebuilt DEF Shows
<1>4. CASE SyncChatResetting
  <2>1. PICK ne, nc : ne = NoEntries /\ nc = NoCatalog
    OBVIOUS
  <2>2. Rebuild(nc, ne, blocks)
    BY <1>1, <1>4, <2>1 DEF SyncChatResetting, Rebuild
  <2>3. CacheTrue(ne) /\ CatTrue(nc, raced) /\ raced \in BOOLEAN
    BY <2>1 DEF Shows, CacheTrue, CatTrue, NoEntries
  <2> QED
    BY <2>2, <2>3, Rebuilt DEF Shows
<1>5. CASE NotSynced
  BY <1>5 DEF NotSynced, Shows, CacheTrue, CatTrue
<1> QED
  BY <1>3, <1>4, <1>5

\* An edit of the main transcript, whichever is displayed.
MainIs(m) == main' = m /\ chat' = (IF nav = "detail" THEN sub ELSE m) /\ sub' = sub /\ nav' = nav

LEMMA MainEdited ==
  ASSUME Typed, NEW m \in Seq(Block), Len(m) <= MaxBlocks, MainIs(m),
         running' \in BOOLEAN, calls' \in CatalogCalls, heard' \in 0..MaxHeard, clock' = clock
  PROVE  Typed'
BY DEF Typed, MainIs

\* One that changes neither what it says nor what it asks and runs.
LEMMA HeldAlike ==
  ASSUME NEW m, NEW r, NEW run \in BOOLEAN, NEW cs, NEW h \in Nat, Held(m, run, cs, h), Alike(m, r),
         OnePlan(r), ~run => NoPlans(r)
  PROVE  Held(r, run, cs, h)
<1>1. (IF run /\ ~Cut(m) THEN Opens(cs) ELSE 0) \in Nat
  BY OpensNat
<1>2. Cut(r) <=> Cut(m)
  BY DEF Alike
<1> QED
  BY <1>1, <1>2 DEF Held, Alike

LEMMA Interrupted ==
  ASSUME Typed
  PROVE  CurrentTurnInterrupted <=> Cut(main)
<1>1. main \in Seq(Block)
  BY DEF Typed
<1> QED
  BY <1>1, CutIs DEF CurrentTurnInterrupted

\* The clock and the bounds.
LEMMA Types ==
  ASSUME Catalogued
  PROVE  /\ Typed /\ running \in BOOLEAN /\ calls \in CatalogCalls /\ heard \in 0..MaxHeard /\ heard \in Nat
         /\ clock \in Nat /\ Len(main) \in Nat /\ Len(main) <= MaxBlocks /\ Opens(calls) \in Nat
<1>1. Opens(calls) \in Nat
  BY OpensNat
<1> QED
  BY <1>1, CatalogBounds DEF Catalogued, Typed

\* The steps, each on what is displayed and on the main transcript.
LEMMA SubmitStep ==
  ASSUME Catalogued, SubmitLine
  PROVE  Typed' /\ Held(main', running', calls', heard')
<1>1. PICK m \in Seq(Block) : m = main /\ Len(m) + 1 < MaxBlocks
  BY DEF Catalogued, Typed, SubmitLine
<1>2. PICK b \in Block : b = User /\ b.role = "user"
  BY Made
<1>3. PICK r : r = Append(m, b)
  OBVIOUS
<1>4. Adds(m, b, r)
  BY <1>3, RowAppended
<1>5. r \in Seq(Block) /\ Len(r) = Len(m) + 1
  BY <1>4 DEF Adds
<1>6. main' = r /\ ~running /\ running' = TRUE /\ heard' = heard /\ sub' = <<>> /\ nav' = "main" /\ clock' = clock
  BY <1>1, <1>2, <1>3 DEF SubmitLine
<1>7. PICK n \in Nat, h \in Nat : n = Opens(calls) /\ h = heard
  BY Types DEF Catalogued, Typed
<1>8. Says(m, h) /\ NoPlans(m) /\ Runs(m, 0)
  BY <1>1, <1>6, <1>7 DEF Catalogued, Held
<1>9. Asked(r) /\ ~Cut(r) /\ NoPlans(r) /\ Says(r, h) /\ Runs(r, 0)
  BY <1>2, <1>4, <1>8, AppendUser
<1>10. OnePlan(r)
  BY <1>9 DEF OnePlan, NoPlans
<1>11. PICK q \in Seq(Block) : q = AppendPlanningBlock(r) /\ Len(q) <= Len(r) + 1
  BY <1>5, <1>10, PlanningIs
<1>12. chat' = q
  BY <1>6, <1>11 DEF SubmitLine
<1>13. calls' = [c \in MainCalls \cup SubCalls \cup {"run"} |-> "idle"]
  BY DEF SubmitLine, Catalogued, Typed, CatalogCalls
<1>14. calls' \in CatalogCalls /\ \A c \in MainCalls : calls'[c] # "open"
  BY <1>13 DEF CatalogCalls
<1>15. Opens(calls') = 0
  <2>1. PICK cs : cs = calls'
    OBVIOUS
  <2> QED
    BY <1>14, <2>1, OpensNone
<1>16. Held(main', running', calls', heard')
  BY <1>6, <1>7, <1>9, <1>10, <1>15 DEF Held
<1>17. Len(r) <= MaxBlocks /\ Len(q) <= MaxBlocks
  BY <1>1, <1>5, <1>11, CatalogBounds
<1>18. <<>> \in Seq(Block) /\ Len(<<>>) <= MaxBlocks
  BY CatalogBounds
<1>19. heard \in 0..MaxHeard /\ clock \in 0..MaxClock
  BY DEF Catalogued, Typed
<1>20. Typed'
  BY <1>5, <1>6, <1>12, <1>14, <1>17, <1>18, <1>19 DEF Typed
<1> QED
  BY <1>16, <1>20

\* What an event of the turn finds.
Found(m, n, h) ==
  /\ m = main /\ n = Opens(calls) /\ h = heard
  /\ running = TRUE /\ ~Cut(m) /\ Says(m, h) /\ OnePlan(m) /\ Asked(m) /\ Runs(m, n)

LEMMA EventFinds ==
  ASSUME Catalogued, EventsAllowed
  PROVE  \E m \in Seq(Block), n \in Nat, h \in Nat : Found(m, n, h)
<1>1. PICK m \in Seq(Block), n \in Nat, h \in Nat : m = main /\ n = Opens(calls) /\ h = heard
  BY Types DEF Catalogued, Typed
<1>2. running = TRUE /\ ~Cut(m)
  BY <1>1, Interrupted DEF EventsAllowed, Catalogued, Typed
<1> QED
  BY <1>1, <1>2 DEF Found, Catalogued, Held

LEMMA ContentStep ==
  ASSUME Catalogued, StreamContent
  PROVE  Typed' /\ Held(main', running', calls', heard')
<1>1. PICK m \in Seq(Block), n \in Nat, h \in Nat : Found(m, n, h)
  BY EventFinds DEF StreamContent
<1>2. PICK c \in Seq(Block) : c = ClearPlanningBlock(m) /\ Len(c) <= Len(m) /\ Alike(m, c) /\ NoPlans(c)
  BY <1>1, ClearIs DEF Found
<1>3. PICK r \in Seq(Block) : r = AppendAssistantContent(c) /\ Len(r) <= Len(c) + 1 /\ NoPlans(r)
                              /\ (Asked(r) <=> Asked(c)) /\ (Cut(r) <=> Cut(c))
                              /\ (\A k \in Nat : (Says(c, k) => Says(r, k + 1)) /\ (Runs(c, k) => Runs(r, k)))
  BY <1>2, ContentIs DEF SamePlans
<1>4. MainIs(r) /\ heard' = heard + 1 /\ running' = running /\ calls' = calls /\ clock' = clock
  BY <1>1, <1>2, <1>3 DEF StreamContent, WithMainChat, View, MainIs, Found
<1>5. Len(m) < MaxBlocks /\ heard < MaxHeard
  BY <1>1 DEF StreamContent, HasRoom, Found
<1>6. Len(r) <= MaxBlocks
  BY <1>2, <1>3, <1>5, CatalogBounds
<1>7. Says(r, h + 1) /\ Runs(r, n) /\ Asked(r) /\ ~Cut(r)
  BY <1>1, <1>2, <1>3 DEF Found, Alike
<1>8. main' = r /\ running' = TRUE /\ heard' = h + 1 /\ Opens(calls') = n
  BY <1>1, <1>4 DEF MainIs, Found
<1>9. OnePlan(r)
  BY <1>3 DEF OnePlan, NoPlans
<1>10. Held(main', running', calls', heard')
  BY <1>7, <1>8, <1>9 DEF Held
<1>11. heard' \in 0..MaxHeard
  BY <1>4, <1>5, Types, CatalogBounds
<1>12. Typed'
  BY <1>4, <1>6, <1>11, Types, MainEdited
<1> QED
  BY <1>10, <1>12

\* An edit that keeps what the transcript says, asks and runs.
LEMMA AlikeStep ==
  ASSUME Catalogued, EventsAllowed, NEW r \in Seq(Block), Len(r) <= MaxBlocks, Alike(main, r), OnePlan(r),
         main' = r, running' = running, calls' = calls, heard' = heard
  PROVE  Held(main', running', calls', heard')
<1>1. PICK m \in Seq(Block), n \in Nat, h \in Nat : Found(m, n, h)
  BY EventFinds
<1>2. Says(r, h) /\ Runs(r, n) /\ Asked(r) /\ ~Cut(r)
  BY <1>1 DEF Found, Alike
<1>3. running' = TRUE /\ heard' = h /\ Opens(calls') = n
  BY <1>1 DEF Found
<1> QED
  BY <1>2, <1>3 DEF Held

LEMMA ReasoningStep ==
  ASSUME Catalogued, StreamReasoning
  PROVE  Typed' /\ Held(main', running', calls', heard')
<1>1. PICK m \in Seq(Block), n \in Nat, h \in Nat : Found(m, n, h)
  BY EventFinds DEF StreamReasoning
<1>2. PICK c \in Seq(Block) : c = ClearPlanningBlock(m) /\ Len(c) <= Len(m) /\ Alike(m, c) /\ NoPlans(c)
  BY <1>1, ClearIs DEF Found
<1>3. PICK r \in Seq(Block) : r = AppendAssistantReasoning(c) /\ Len(r) <= Len(c) + 1 /\ NoPlans(r) /\ Alike(c, r)
  BY <1>2, ReasoningIs DEF SamePlans
<1>4. MainIs(r) /\ heard' = heard /\ running' = running /\ calls' = calls /\ clock' = clock
  BY <1>1, <1>2, <1>3 DEF StreamReasoning, WithMainChat, View, MainIs, Found
<1>5. Len(m) < MaxBlocks
  BY <1>1 DEF StreamReasoning, HasRoom, Found
<1>6. Len(r) <= MaxBlocks
  BY <1>2, <1>3, <1>5, CatalogBounds
<1>7. OnePlan(r)
  BY <1>3 DEF OnePlan, NoPlans
<1>8. Alike(main, r)
  BY <1>1, <1>2, <1>3, AlikeTwice DEF Found
<1>9. EventsAllowed /\ main' = r
  BY <1>4 DEF StreamReasoning, MainIs
<1>10. Held(main', running', calls', heard')
  BY <1>4, <1>6, <1>7, <1>8, <1>9, AlikeStep
<1>11. Typed'
  BY <1>4, <1>6, Types, MainEdited
<1> QED
  BY <1>10, <1>11

LEMMA PlanningStartStep ==
  ASSUME Catalogued, PlanningStart
  PROVE  Typed' /\ Held(main', running', calls', heard')
<1>1. PICK m \in Seq(Block), n \in Nat, h \in Nat : Found(m, n, h)
  BY EventFinds DEF PlanningStart
<1>2. PICK r \in Seq(Block) : r = AppendPlanningBlock(m) /\ Len(r) <= Len(m) + 1 /\ Alike(m, r) /\ OnePlan(r)
  BY <1>1, PlanningIs DEF Found
<1>3. MainIs(r) /\ heard' = heard /\ running' = running /\ calls' = calls /\ clock' = clock
  BY <1>1, <1>2 DEF PlanningStart, WithMainChat, View, MainIs, Found
<1>4. Len(m) < MaxBlocks
  BY <1>1 DEF PlanningStart, HasRoom, Found
<1>5. Len(r) <= MaxBlocks
  BY <1>2, <1>4, CatalogBounds
<1>6. EventsAllowed /\ main' = r /\ Alike(main, r)
  BY <1>1, <1>2, <1>3 DEF PlanningStart, MainIs, Found
<1>7. Held(main', running', calls', heard')
  BY <1>2, <1>3, <1>5, <1>6, AlikeStep
<1>8. Typed'
  BY <1>3, <1>5, Types, MainEdited
<1> QED
  BY <1>7, <1>8

LEMMA PlanningEndStep ==
  ASSUME Catalogued, PlanningEnd
  PROVE  Typed' /\ Held(main', running', calls', heard')
<1>1. PICK m \in Seq(Block), n \in Nat, h \in Nat : Found(m, n, h)
  BY EventFinds DEF PlanningEnd
<1>2. PICK r \in Seq(Block) : r = ClearPlanningBlock(m) /\ Len(r) <= Len(m) /\ Alike(m, r) /\ NoPlans(r)
  BY <1>1, ClearIs DEF Found
<1>3. MainIs(r) /\ heard' = heard /\ running' = running /\ calls' = calls /\ clock' = clock
  BY <1>1, <1>2 DEF PlanningEnd, WithMainChat, View, MainIs, Found
<1>4. Len(m) <= MaxBlocks
  BY <1>1, Types DEF Found
<1>5. Len(r) <= MaxBlocks
  BY <1>2, <1>4, CatalogBounds
<1>6. EventsAllowed /\ main' = r /\ Alike(main, r)
  BY <1>1, <1>2, <1>3 DEF PlanningEnd, MainIs, Found
<1>7. OnePlan(r)
  BY <1>2 DEF OnePlan, NoPlans
<1>8. Held(main', running', calls', heard')
  BY <1>3, <1>5, <1>6, <1>7, AlikeStep
<1>9. Typed'
  BY <1>3, <1>5, Types, MainEdited
<1> QED
  BY <1>8, <1>9

LEMMA SegmentEndStep ==
  ASSUME Catalogued, AssistantSegmentEnd
  PROVE  Typed' /\ Held(main', running', calls', heard')
<1>1. PICK m \in Seq(Block), s \in Seq(Block), d \in Seq(Block) : m = main /\ s = sub /\ d = chat
  BY DEF Catalogued, Typed
<1>2. Len(m) \in Nat /\ Len(s) \in Nat /\ Len(d) \in Nat /\ Len(m) <= MaxBlocks /\ Len(s) <= MaxBlocks /\ Len(d) <= MaxBlocks
  BY <1>1 DEF Catalogued, Typed
<1>3. PICK fm \in Seq(Block) : fm = FinalizeLastAssistant(m) /\ Len(fm) = Len(m) /\ Alike(m, fm) /\ SamePlans(m, fm)
  BY FinalizeIs
<1>4. PICK fs \in Seq(Block) : fs = FinalizeLastAssistant(s) /\ Len(fs) = Len(s)
  BY FinalizeIs
<1>5. PICK fd \in Seq(Block) : fd = FinalizeLastAssistant(d) /\ Len(fd) = Len(d)
  BY FinalizeIs
<1>6. chat' = fd /\ nav' = nav /\ running' = running /\ calls' = calls /\ heard' = heard /\ clock' = clock /\ EventsAllowed
  BY <1>1, <1>5 DEF AssistantSegmentEnd
<1>7. (main' = m \/ main' = fm) /\ (sub' = s \/ sub' = fs)
  BY <1>1, <1>3, <1>4 DEF AssistantSegmentEnd
<1>8. Typed'
  BY <1>2, <1>3, <1>4, <1>5, <1>6, <1>7 DEF Typed, Catalogued
<1>9. PICK r \in Seq(Block) : main' = r /\ Alike(main, r) /\ OnePlan(r) /\ Len(r) <= MaxBlocks
  <2>1. OnePlan(m) /\ Alike(m, m)
    BY <1>1 DEF Catalogued, Held, Alike
  <2> QED
    BY <1>1, <1>2, <1>3, <1>7, <2>1 DEF SamePlans
<1>10. Held(main', running', calls', heard')
  BY <1>6, <1>9, AlikeStep
<1> QED
  BY <1>8, <1>10

\* A step that leaves the transcript, the turn and its calls.
LEMMA KeepsHeld ==
  ASSUME Catalogued, main' = main, running' = running, heard' = heard,
         \A c \in MainCalls : calls'[c] = "open" <=> calls[c] = "open"
  PROVE  Held(main', running', calls', heard')
<1>1. PICK cs, ds : cs = calls /\ ds = calls'
  OBVIOUS
<1>2. Opens(ds) = Opens(cs)
  BY <1>1, OpensSame
<1>3. Held(main, running, calls, heard)
  BY DEF Catalogued
<1> QED
  BY <1>1, <1>2, <1>3 DEF Held

LEMMA ToolStartStep ==
  ASSUME Catalogued, NEW c \in MainCalls, ToolStart(c)
  PROVE  Typed' /\ Held(main', running', calls', heard')
<1>1. PICK cs \in CatalogCalls : cs = calls /\ cs[c] = "idle" /\ running = TRUE
  BY Types DEF ToolStart
<1>2. PICK ds : ds = [cs EXCEPT ![c] = "open"]
  OBVIOUS
<1>3. ds \in CatalogCalls /\ Opens(ds) = Opens(cs) + 1
  BY <1>1, <1>2, OpensMore
<1>4. calls' = ds /\ running' = running /\ heard' = heard /\ clock' = clock
  BY <1>1, <1>2 DEF ToolStart
<1>5. CASE EventsAllowed
  <2>1. PICK m \in Seq(Block), n \in Nat, h \in Nat : Found(m, n, h)
    BY <1>5, EventFinds
  <2>2. PICK row \in Block : row = Tool(c, "running") /\ row.role = "tool" /\ row.state = "running"
    <3>1. c \in Args /\ "running" \in States
      BY DEF Args, States
    <3> QED
      BY <3>1, MadeTool
  <2>3. PICK r \in Seq(Block) : r = AppendToolBlock(m, row) /\ Len(r) = Len(m) + 1 /\ SamePlans(m, r)
                                /\ (Asked(r) <=> Asked(m)) /\ (Cut(r) <=> Cut(m))
                                /\ (\A k \in Nat : (Says(m, k) => Says(r, k)) /\ (Runs(m, k) /\ row.state = "running" => Runs(r, k + 1)))
    BY <2>2, ToolRowIs
  <2>4. MainIs(r)
    BY <1>5, <2>1, <2>2, <2>3 DEF ToolStart, WithMainChat, View, MainIs, Found
  <2>5. Len(m) < MaxBlocks
    BY <2>1 DEF ToolStart, HasRoom, Found
  <2>6. Len(r) <= MaxBlocks
    BY <2>3, <2>5, CatalogBounds
  <2>7. Typed'
    BY <1>3, <1>4, <2>4, <2>6, Types, MainEdited
  <2>8. Says(r, h) /\ Runs(r, n + 1) /\ Asked(r) /\ ~Cut(r) /\ OnePlan(r)
    BY <2>1, <2>2, <2>3 DEF Found, SamePlans
  <2>9. main' = r /\ running' = TRUE /\ heard' = h /\ Opens(calls') = n + 1
    BY <1>1, <1>3, <1>4, <2>1, <2>4 DEF MainIs, Found
  <2>10. Held(main', running', calls', heard')
    BY <2>8, <2>9 DEF Held
  <2> QED
    BY <2>7, <2>10
<1>6. CASE ~EventsAllowed
  <2>1. main' = main /\ sub' = sub /\ chat' = chat /\ nav' = nav
    BY <1>6 DEF ToolStart
  <2>2. Typed'
    BY <1>3, <1>4, <2>1, Types DEF Typed
  <2>3. Cut(main)
    BY <1>1, <1>6, Interrupted DEF EventsAllowed, Catalogued
  <2>4. Held(main', running', calls', heard')
    BY <1>4, <2>1, <2>3 DEF Held, Catalogued
  <2> QED
    BY <2>2, <2>4
<1> QED
  BY <1>5, <1>6

LEMMA ToolEndStep ==
  ASSUME Catalogued, NEW c \in MainCalls, NEW args \in {c, "other"}, ToolEnd(c, args)
  PROVE  Typed' /\ Held(main', running', calls', heard')
<1>1. PICK cs \in CatalogCalls : cs = calls /\ cs[c] = "open" /\ running = TRUE
  BY Types DEF ToolEnd
<1>2. PICK ds : ds = [cs EXCEPT ![c] = "done"]
  OBVIOUS
<1>3. ds \in CatalogCalls /\ Opens(ds) = Opens(cs) - 1 /\ Opens(cs) # 0
  BY <1>1, <1>2, OpensLess
<1>4. calls' = ds /\ running' = running /\ heard' = heard /\ clock' = clock
  BY <1>1, <1>2 DEF ToolEnd
<1>5. CASE EventsAllowed
  <2>1. PICK m \in Seq(Block), n \in Nat, h \in Nat : Found(m, n, h)
    BY <1>5, EventFinds
  <2>2. PICK row \in Block : row = Tool(args, "ok") /\ row.role = "tool" /\ row.state # "running"
    <3>1. args \in Args /\ "ok" \in States
      BY DEF Args, States
    <3> QED
      BY <3>1, MadeTool
  <2>3. n # 0 /\ Runs(m, n)
    BY <1>1, <1>3, <2>1 DEF Found
  <2>4. PICK r \in Seq(Block) : r = FinishToolBlock(m, row) /\ Len(r) = Len(m) /\ SamePlans(m, r)
                                /\ (Asked(r) <=> Asked(m)) /\ (Cut(r) <=> Cut(m)) /\ Runs(r, n - 1)
                                /\ \A k \in Nat : Says(m, k) => Says(r, k)
    BY <2>2, <2>3, FinishIs
  <2>5. MainIs(r)
    BY <1>5, <2>1, <2>2, <2>4 DEF ToolEnd, WithMainChat, View, MainIs, Found
  <2>6. Len(r) <= MaxBlocks
    BY <2>1, <2>4, Types DEF Found
  <2>7. Typed'
    BY <1>3, <1>4, <2>5, <2>6, Types, MainEdited
  <2>8. Says(r, h) /\ Asked(r) /\ ~Cut(r) /\ OnePlan(r)
    BY <2>1, <2>4 DEF Found, SamePlans
  <2>9. main' = r /\ running' = TRUE /\ heard' = h /\ Opens(calls') = n - 1
    BY <1>1, <1>3, <1>4, <2>1, <2>5 DEF MainIs, Found
  <2>10. Held(main', running', calls', heard')
    BY <2>4, <2>8, <2>9 DEF Held
  <2> QED
    BY <2>7, <2>10
<1>6. CASE ~EventsAllowed
  <2>1. main' = main /\ sub' = sub /\ chat' = chat /\ nav' = nav
    BY <1>6 DEF ToolEnd
  <2>2. Typed'
    BY <1>3, <1>4, <2>1, Types DEF Typed
  <2>3. Cut(main)
    BY <1>1, <1>6, Interrupted DEF EventsAllowed, Catalogued
  <2>4. Held(main', running', calls', heard')
    BY <1>4, <2>1, <2>3 DEF Held, Catalogued
  <2> QED
    BY <2>2, <2>4
<1> QED
  BY <1>5, <1>6

LEMMA DoneStep ==
  ASSUME Catalogued, TurnDone
  PROVE  Typed' /\ Held(main', running', calls', heard')
<1>1. PICK m \in Seq(Block), h \in Nat : m = main /\ h = heard /\ Says(m, h) /\ OnePlan(m)
  BY Types DEF Catalogued, Held, Typed
<1>2. PICK c \in Seq(Block) : c = ClearPlanningBlock(m) /\ Len(c) <= Len(m) /\ Alike(m, c) /\ NoPlans(c)
  BY <1>1, ClearIs
<1>3. PICK f \in Seq(Block) : f = FinalizeLastAssistant(c) /\ Len(f) = Len(c) /\ Alike(c, f) /\ SamePlans(c, f)
  BY FinalizeIs
<1>4. PICK r \in Seq(Block) : r = StopRows(f) /\ Len(r) = Len(f) /\ Runs(r, 0) /\ SamePlans(f, r)
                              /\ \A k \in Nat : Says(f, k) => Says(r, k)
  BY StopIs
<1>5. MainIs(r) /\ heard' = heard /\ running' = FALSE /\ calls' = calls /\ clock' = clock
  BY <1>1, <1>2, <1>3, <1>4 DEF TurnDone, WithMainChat, View, MainIs
<1>6. Len(r) <= MaxBlocks
  BY <1>1, <1>2, <1>3, <1>4, Types, CatalogBounds
<1>7. Typed'
  BY <1>5, <1>6, Types, MainEdited
<1>8. NoPlans(r) /\ OnePlan(r) /\ Says(r, h)
  BY <1>1, <1>2, <1>3, <1>4 DEF SamePlans, Alike, NoPlans, OnePlan
<1>9. main' = r /\ heard' = h
  BY <1>1, <1>5 DEF MainIs
<1>10. Held(main', running', calls', heard')
  BY <1>4, <1>5, <1>8, <1>9 DEF Held
<1> QED
  BY <1>7, <1>10

LEMMA CancelStep ==
  ASSUME Catalogued, Cancel
  PROVE  Typed' /\ Held(main', running', calls', heard')
<1>1. PICK m \in Seq(Block), h \in Nat : m = main /\ h = heard /\ Says(m, h) /\ OnePlan(m) /\ Asked(m)
  BY Types DEF Catalogued, Held, Typed, Cancel
<1>2. PICK f \in Seq(Block) : f = FinalizeLastAssistant(m) /\ Len(f) = Len(m) /\ Alike(m, f) /\ SamePlans(m, f)
  BY FinalizeIs
<1>3. OnePlan(f)
  BY <1>1, <1>2 DEF SamePlans
<1>4. PICK c \in Seq(Block) : c = ClearPlanningBlock(f) /\ Len(c) <= Len(f) /\ Alike(f, c) /\ NoPlans(c)
  BY <1>3, ClearIs
<1>5. PICK s \in Seq(Block) : s = StopRows(c) /\ Len(s) = Len(c) /\ Runs(s, 0) /\ SamePlans(c, s) /\ (Asked(s) <=> Asked(c))
                              /\ \A k \in Nat : Says(c, k) => Says(s, k)
  BY StopIs
<1>6. PICK b \in Block : b = Interrupt /\ b.role = "interrupt"
  BY Made
<1>7. PICK r : r = Append(s, b)
  OBVIOUS
<1>8. Adds(s, b, r)
  BY <1>7, RowAppended
<1>9. r \in Seq(Block) /\ Len(r) = Len(s) + 1
  BY <1>8 DEF Adds
<1>10. Asked(s) /\ Says(s, h) /\ NoPlans(s)
  BY <1>1, <1>2, <1>4, <1>5 DEF Alike, SamePlans
<1>11. Asked(r) /\ Cut(r) /\ NoPlans(r) /\ Says(r, h) /\ Runs(r, 0)
  BY <1>5, <1>6, <1>8, <1>10, AppendInterrupt
<1>12. MainIs(r) /\ heard' = heard /\ running' = running /\ calls' = calls /\ clock' = clock
  BY <1>1, <1>2, <1>4, <1>5, <1>6, <1>7 DEF Cancel, WithMainChat, View, MainIs
<1>13. Len(r) <= MaxBlocks
  <2>1. Len(m) < MaxBlocks
    BY <1>1 DEF Cancel, HasRoom
  <2> QED
    BY <1>2, <1>4, <1>5, <1>9, <2>1, CatalogBounds
<1>14. Typed'
  BY <1>9, <1>12, <1>13, Types, MainEdited
<1>15. main' = r /\ heard' = h /\ running' = TRUE
  BY <1>1, <1>12 DEF MainIs, Cancel, Catalogued, Typed
<1>16. OnePlan(r)
  BY <1>11 DEF OnePlan, NoPlans
<1>17. Held(main', running', calls', heard')
  BY <1>11, <1>15, <1>16 DEF Held
<1> QED
  BY <1>14, <1>17

\* Other calls than the turn's.
LEMMA OtherCalls ==
  ASSUME Catalogued, NEW c \in SubCalls \cup {"run"}, NEW v \in {"idle", "open", "done"}, calls' = [calls EXCEPT ![c] = v]
  PROVE  calls' \in CatalogCalls /\ \A x \in MainCalls : calls'[x] = "open" <=> calls[x] = "open"
<1>1. c \notin MainCalls
  BY CatalogAssumption
<1>2. calls \in CatalogCalls
  BY Types
<1> QED
  BY <1>1, <1>2 DEF CatalogCalls

LEMMA SubStartStep ==
  ASSUME Catalogued, SubStart
  PROVE  Typed' /\ Held(main', running', calls', heard')
<1>1. PICK b \in Block : b = User
  BY Made
<1>2. PICK a \in Block : a = [Assistant(0, TRUE) EXCEPT !.think = "open"]
  <2>1. PICK x \in Block : x = Assistant(0, TRUE)
    BY MadeAnswer
  <2>2. [x EXCEPT !.think = "open"] \in Block
    BY DEF Block, Thinks
  <2> QED
    BY <2>1, <2>2
<1>3. PICK s \in Seq(Block) : s = <<b, a>> /\ Len(s) = 2
  <2>1. <<b, a>> \in Seq(Block) /\ Len(<<b, a>>) = 2
    OBVIOUS
  <2> QED
    BY <2>1
<1>4. sub' = s /\ calls' = [calls EXCEPT !["run"] = "open"] /\ main' = main /\ chat' = chat /\ nav' = nav
      /\ running' = running /\ heard' = heard /\ clock' = clock
  BY <1>1, <1>2, <1>3 DEF SubStart
<1>5. calls' \in CatalogCalls /\ \A x \in MainCalls : calls'[x] = "open" <=> calls[x] = "open"
  BY <1>4, OtherCalls
<1>6. Held(main', running', calls', heard')
  BY <1>4, <1>5, KeepsHeld
<1>7. Len(s) <= MaxBlocks
  BY <1>3, CatalogBounds
<1>8. Typed'
  BY <1>4, <1>5, <1>7, Types DEF Typed
<1> QED
  BY <1>6, <1>8

\* An edit of the sub-agent's transcript.
LEMMA SubEdited ==
  ASSUME Catalogued, NEW s \in Seq(Block), Len(s) <= MaxBlocks, ShowSub(s), calls' \in CatalogCalls,
         running' = running, heard' = heard, clock' = clock
  PROVE  Typed' /\ main' = main
BY Types DEF ShowSub, Typed

LEMMA SubToolStartStep ==
  ASSUME Catalogued, NEW c \in SubCalls, SubToolStart(c)
  PROVE  Typed' /\ Held(main', running', calls', heard')
<1>1. PICK m \in Seq(Block) : m = sub /\ Len(m) < MaxBlocks
  BY DEF Catalogued, Typed, SubToolStart
<1>2. PICK row \in Block : row = Tool(c, "running") /\ row.role = "tool"
  <2>1. c \in Args /\ "running" \in States
    BY DEF Args, States
  <2> QED
    BY <2>1, MadeTool
<1>3. PICK s \in Seq(Block) : s = AppendToolBlock(m, row) /\ Len(s) = Len(m) + 1
  BY <1>2, ToolRowIs
<1>4. ShowSub(s) /\ calls' = [calls EXCEPT ![c] = "open"] /\ running' = running /\ heard' = heard /\ clock' = clock
  BY <1>1, <1>2, <1>3 DEF SubToolStart, ShowSub
<1>5. calls' \in CatalogCalls /\ \A x \in MainCalls : calls'[x] = "open" <=> calls[x] = "open"
  BY <1>4, OtherCalls
<1>6. Len(s) <= MaxBlocks
  BY <1>1, <1>3, CatalogBounds
<1>7. Typed' /\ main' = main
  BY <1>4, <1>5, <1>6, SubEdited
<1> QED
  BY <1>4, <1>5, <1>7, KeepsHeld

LEMMA SubToolEndStep ==
  ASSUME Catalogued, NEW c \in SubCalls, SubToolEnd(c)
  PROVE  Typed' /\ Held(main', running', calls', heard')
<1>1. PICK m \in Seq(Block) : m = sub /\ Len(m) < MaxBlocks
  BY DEF Catalogued, Typed, SubToolEnd
<1>2. PICK row \in Block : row = Tool(c, "ok") /\ row.role = "tool"
  <2>1. c \in Args /\ "ok" \in States
    BY DEF Args, States
  <2> QED
    BY <2>1, MadeTool
<1>3. PICK s \in Seq(Block) :
        /\ s = IF RunningRows(m) = {} THEN AppendToolBlock(m, row) ELSE [m EXCEPT ![Max(RunningRows(m))] = row]
        /\ Len(s) <= Len(m) + 1
  <2>1. CASE RunningRows(m) = {}
    <3>1. PICK s \in Seq(Block) : s = AppendToolBlock(m, row) /\ Len(s) = Len(m) + 1
      BY <1>2, ToolRowIs
    <3>2. Len(s) <= Len(m) + 1
      BY <3>1
    <3> QED
      BY <2>1, <3>1, <3>2
  <2>2. CASE RunningRows(m) # {}
    <3>1. PICK n, R : n \in Nat /\ n = Len(m) /\ R = RunningRows(m) /\ R \subseteq 1..n
      <4>1. RunningRows(m) \subseteq 1..Len(m)
        BY RunsFinite
      <4> QED
        BY <4>1
    <3>2. PICK k \in 1..n : k = Max(R)
      BY <2>2, <3>1, MaxIn
    <3>3. PICK s : s = [m EXCEPT ![k] = row]
      OBVIOUS
    <3>4. Changes(m, k, row, s)
      BY <3>1, <3>3, Changed
    <3>5. s \in Seq(Block) /\ Len(s) = Len(m)
      BY <3>4 DEF Changes
    <3>6. Len(s) <= Len(m) + 1
      BY <3>5
    <3> QED
      BY <2>2, <3>1, <3>2, <3>3, <3>5, <3>6
  <2> QED
    BY <2>1, <2>2
<1>4. ShowSub(s) /\ calls' = [calls EXCEPT ![c] = "done"] /\ running' = running /\ heard' = heard /\ clock' = clock
  BY <1>1, <1>2, <1>3 DEF SubToolEnd, ShowSub
<1>5. calls' \in CatalogCalls /\ \A x \in MainCalls : calls'[x] = "open" <=> calls[x] = "open"
  BY <1>4, OtherCalls
<1>6. Len(s) <= MaxBlocks
  BY <1>1, <1>3, CatalogBounds
<1>7. Typed' /\ main' = main
  BY <1>4, <1>5, <1>6, SubEdited
<1> QED
  BY <1>4, <1>5, <1>7, KeepsHeld

LEMMA SubEndStep ==
  ASSUME Catalogued, SubEnd
  PROVE  Typed' /\ Held(main', running', calls', heard')
<1>1. PICK m \in Seq(Block) : m = sub /\ Len(m) < MaxBlocks
  BY DEF Catalogued, Typed, SubEnd
<1>2. PICK f \in Seq(Block) : f = FinalizeLastAssistant(m) /\ Len(f) = Len(m)
  BY FinalizeIs
<1>3. PICK t \in Seq(Block) : t = StopRows(f) /\ Len(t) = Len(f)
  BY StopIs
<1>4. {Tool("agent", "error"), Assistant(1, FALSE)} \subseteq Block
  <2>1. "agent" \in Args /\ "error" \in States
    BY DEF Args, States
  <2>2. Tool("agent", "error") \in Block
    BY <2>1, MadeTool
  <2>3. Assistant(1, FALSE) \in Block
    BY MadeAnswer
  <2> QED
    BY <2>2, <2>3
<1>5. PICK b \in Block : ShowSub(Append(t, b))
  <2>1. PICK b \in {Tool("agent", "error"), Assistant(1, FALSE)} : ShowSub(Append(StopRows(FinalizeLastAssistant(sub)), b))
    BY DEF SubEnd
  <2>2. ShowSub(Append(t, b))
    BY <1>1, <1>2, <1>3, <2>1 DEF ShowSub
  <2> QED
    BY <1>4, <2>2
<1>6. PICK s \in Seq(Block) : s = Append(t, b) /\ Len(s) = Len(t) + 1
  BY AppendProperties
<1>7. ShowSub(s)
  BY <1>5, <1>6 DEF ShowSub
<1>8. calls' = [c \in DOMAIN calls |-> IF c \in SubCalls \cup {"run"} THEN "done" ELSE calls[c]]
      /\ running' = running /\ heard' = heard /\ clock' = clock
  BY DEF SubEnd
<1>9. calls' \in CatalogCalls /\ \A x \in MainCalls : calls'[x] = calls[x]
  <2>1. calls \in CatalogCalls
    BY Types
  <2>2. \A x \in MainCalls : x \notin SubCalls \cup {"run"}
    BY CatalogAssumption
  <2> QED
    BY <1>8, <2>1, <2>2 DEF CatalogCalls
<1>10. Len(s) <= MaxBlocks
  BY <1>1, <1>2, <1>3, <1>6, CatalogBounds
<1>11. Typed' /\ main' = main
  BY <1>7, <1>8, <1>9, <1>10, SubEdited
<1> QED
  BY <1>8, <1>9, <1>11, KeepsHeld

LEMMA NavStep ==
  ASSUME Catalogued, OpenList \/ OpenDetail \/ Back \/ Flush \/ Pass
  PROVE  Typed' /\ Held(main', running', calls', heard')
<1>1. main' = main /\ sub' = sub /\ running' = running /\ calls' = calls /\ heard' = heard
      /\ (chat' = main \/ chat' = sub \/ chat' = chat) /\ nav' \in {"main", "list", "detail"}
  BY DEF OpenList, OpenDetail, Back, Flush, Pass, Catalogued, Typed
<1>2. clock' \in 0..MaxClock
  <2>1. clock \in 0..MaxClock
    BY DEF Catalogued, Typed
  <2>2. clock' = clock \/ (clock < MaxClock /\ clock' = clock + 1)
    BY DEF OpenList, OpenDetail, Back, Flush, Pass
  <2> QED
    BY <2>1, <2>2, CatalogBounds
<1>3. Typed'
  BY <1>1, <1>2 DEF Typed, Catalogued
<1> QED
  BY <1>1, <1>3, KeepsHeld

LEMMA ResumeStep ==
  ASSUME Catalogued, SessionResumed
  PROVE  Typed' /\ Held(main', running', calls', heard')
<1>1. PICK b \in Block : b = User /\ b.role = "user" /\ b.text = 0
  BY Made, Fields
<1>2. PICK a \in Block : a = Assistant(1, FALSE) /\ a.role = "assistant" /\ a.text = 1
  BY MadeAnswer
<1>3. PICK r \in Seq(Block) : r = <<b, a>> /\ Len(r) = 2 /\ r[1] = b /\ r[2] = a
  <2>1. <<b, a>> \in Seq(Block) /\ Len(<<b, a>>) = 2 /\ <<b, a>>[1] = b /\ <<b, a>>[2] = a
    OBVIOUS
  <2> QED
    BY <2>1
<1>4. main' = r /\ heard' = 1 /\ running = FALSE /\ running' = running /\ sub' = <<>> /\ nav' = "main"
      /\ (chat' = chat \/ chat' = r) /\ calls' = calls /\ clock' = clock
  BY <1>1, <1>2, <1>3, Types DEF SessionResumed
<1>5. (\A i \in 1..2 : r[i].role \in {"user", "assistant"}) /\ r[1].text = 0 /\ r[2].text = 1
  <2>1. \A i \in 1..2 : i = 1 \/ i = 2
    OBVIOUS
  <2>2. r[1].role = "user" /\ r[2].role = "assistant" /\ r[1].text = 0 /\ r[2].text = 1
    BY <1>1, <1>2, <1>3
  <2> QED
    BY <2>1, <2>2
<1>6. NoPlans(r) /\ OnePlan(r)
  <2>1. Of(r, "planning") = {i \in 1..2 : r[i].role = "planning"}
    BY <1>3, OfIs
  <2>2. Of(r, "planning") = {}
    BY <1>5, <2>1
  <2> QED
    BY <2>2 DEF NoPlans, OnePlan
<1>7. Runs(r, 0)
  <2>1. RunningRows(r) = {i \in 1..2 : r[i].role = "tool" /\ r[i].state = "running"}
    BY <1>3, RunsIs
  <2>2. RunningRows(r) = {}
    BY <1>5, <2>1
  <2> QED
    BY <2>2, FS_EmptySet DEF Runs
<1>8. Says(r, 1)
  <2>1. PICK q : q = <<2, 1>>
    OBVIOUS
  <2>2. ASSUME NEW p PROVE p \in Pieces(r) <=> p = q
    <3>1. p \in Pieces(r) <=> \E i \in 1..Len(r) : \E k \in 1..r[i].text : p = <<i, k>>
      BY PiecesIs
    <3>2. 1..Len(r) = {1, 2}
      BY <1>3
    <3>3. 1..r[1].text = {} /\ 1..r[2].text = {1}
      <4>1. 1..0 = {} /\ 1..1 = {1}
        OBVIOUS
      <4> QED
        BY <1>5, <4>1
    <3> QED
      BY <2>1, <3>1, <3>2, <3>3
  <2>3. Pieces(r) = {q}
    BY <2>2
  <2> QED
    BY <2>3, FS_Singleton DEF Says
<1>9. Held(main', running', calls', heard')
  BY <1>4, <1>6, <1>7, <1>8 DEF Held
<1>10. heard' \in 0..MaxHeard /\ Len(r) <= MaxBlocks
  BY <1>3, <1>4, CatalogBounds
<1>11. <<>> \in Seq(Block) /\ Len(<<>>) <= MaxBlocks
  BY CatalogBounds
<1>12. Typed'
  BY <1>4, <1>10, <1>11 DEF Typed, Catalogued
<1> QED
  BY <1>9, <1>12

-----------------------------------------------------------------------------

LEMMA CatalogInit == CgInit => Catalogued
<1> SUFFICES ASSUME CgInit PROVE Catalogued
  OBVIOUS
<1>1. PICK m \in Seq(Block) : m = <<>> /\ Len(m) = 0
  <2>1. <<>> \in Seq(Block) /\ Len(<<>>) = 0
    OBVIOUS
  <2> QED
    BY <2>1
<1>2. main = m /\ sub = m /\ chat = m /\ nav = "main" /\ running = FALSE /\ heard = 0 /\ clock = 0
      /\ calls = [c \in MainCalls \cup SubCalls \cup {"run"} |-> "idle"]
  BY <1>1 DEF CgInit
<1>3. Typed
  <2>1. calls \in CatalogCalls
    BY <1>2 DEF CatalogCalls
  <2>2. 0 <= MaxBlocks /\ 0 \in 0..MaxHeard /\ 0 \in 0..MaxClock
    BY CatalogBounds
  <2>3. Len(main) <= MaxBlocks /\ Len(sub) <= MaxBlocks /\ Len(chat) <= MaxBlocks
    BY <1>1, <1>2, <2>2
  <2> QED
    BY <1>1, <1>2, <2>1, <2>2, <2>3 DEF Typed
<1>4. (\A role : Of(m, role) = {}) /\ RunningRows(m) = {} /\ Pieces(m) = {}
  BY <1>1 DEF Of, RunningRows, Pieces
<1>5. Held(main, running, calls, heard)
  BY <1>2, <1>4, FS_EmptySet DEF Held, Says, Runs, OnePlan, NoPlans
<1>6. Shows
  <2>1. entries = NoEntries /\ cat = NoCatalog /\ raced = FALSE
    BY DEF CgInit
  <2>2. CacheTrue(entries)
    BY <2>1 DEF CacheTrue, NoEntries
  <2> QED
    BY <2>1, <2>2 DEF Shows, CatTrue
<1> QED
  BY <1>3, <1>5, <1>6 DEF Catalogued

LEMMA CatalogNext == Catalogued /\ [CgNext]_cgVars => Catalogued'
<1> SUFFICES ASSUME Catalogued, [CgNext]_cgVars PROVE Catalogued'
  OBVIOUS
<1>1. CASE CgNext
  <2>1. Typed' /\ Held(main', running', calls', heard')
    BY <1>1, SubmitStep, ContentStep, ReasoningStep, PlanningStartStep, PlanningEndStep, SegmentEndStep, DoneStep,
       CancelStep, ToolStartStep, ToolEndStep, SubStartStep, SubToolStartStep, SubToolEndStep, SubEndStep, NavStep,
       ResumeStep DEF CgNext
  <2>2. SyncChat \/ SyncChatResetting \/ NotSynced
    BY <1>1 DEF CgNext, SubmitLine, StreamContent, StreamReasoning, PlanningStart, PlanningEnd, AssistantSegmentEnd,
       ToolStart, ToolEnd, TurnDone, Cancel, SubStart, SubToolStart, SubToolEnd, SubEnd, OpenList, OpenDetail, Back,
       SessionResumed, Flush, Pass, NotSynced
  <2>3. Shows /\ clock \in Nat /\ chat' \in Seq(Block)
    BY <2>1, Types DEF Catalogued, Typed
  <2>4. Shows'
    BY <2>2, <2>3, ShowsKept
  <2> QED
    BY <2>1, <2>4 DEF Catalogued
<1>2. CASE UNCHANGED cgVars
  BY <1>2 DEF cgVars, Catalogued, Typed, Held, Shows, CacheTrue, CatTrue, CatalogCalls, Opens
<1> QED
  BY <1>1, <1>2

LEMMA CatalogGives == Catalogued => CatalogInv
<1> SUFFICES ASSUME Catalogued PROVE CatalogInv
  OBVIOUS
<1>1. PICK m \in Seq(Block), h \in Nat : m = main /\ h = heard /\ Held(m, running, calls, h)
  BY Types DEF Catalogued, Typed
<1>2. CgTypeOK
  <2>1. {Len(main), Len(sub), Len(chat)} \subseteq 0..MaxBlocks
    BY CatalogBounds DEF Catalogued, Typed
  <2>2. \A i \in DOMAIN entries : Cardinality(entries[i]) <= 1
    <3>1. ASSUME NEW i \in DOMAIN entries PROVE Cardinality(entries[i]) <= 1
      <4>1. PICK key \in Key : entries[i] = {Entry(key)}
        BY DEF Catalogued, Shows, CacheTrue
      <4>2. Cardinality({Entry(key)}) = 1
        BY FS_Singleton
      <4> QED
        BY <4>1, <4>2
    <3> QED
      BY <3>1
  <2>3. Len(cat.starts) = Len(cat.keys)
    <3>1. CASE cat = NoCatalog
      BY <3>1 DEF NoCatalog
    <3>2. CASE cat # NoCatalog
      <4>1. PICK keys \in Seq(Key) : keys = cat.keys /\ cat.starts = BlockStarts(Rendered(keys))
        BY <3>2 DEF Catalogued, Shows, CatTrue
      <4>2. PICK n \in Nat : n = Len(keys)
        OBVIOUS
      <4>3. DOMAIN Rendered(keys) = 1..n
        BY <4>2, Shown, LenProperties
      <4>4. DOMAIN BlockStarts(Rendered(keys)) = 1..n
        BY <4>3 DEF BlockStarts
      <4>5. Len(BlockStarts(Rendered(keys))) = n
        BY <4>3, <4>4 DEF BlockStarts
      <4> QED
        BY <4>1, <4>2, <4>5
    <3> QED
      BY <3>1, <3>2
  <2>4. \A c \in DOMAIN calls : calls[c] \in {"idle", "open", "done"}
    BY DEF Catalogued, Typed, CatalogCalls
  <2>5. nav \in {"main", "list", "detail"} /\ {running, raced} \subseteq BOOLEAN /\ heard \in 0..MaxHeard /\ clock \in 0..MaxClock
    BY DEF Catalogued, Typed, Shows
  <2> QED
    BY <2>1, <2>2, <2>3, <2>4, <2>5 DEF CgTypeOK
<1>3. PlainIsChatElse
  <2>1. FromNothing = AssemblePlain(Rendered(cat.keys))
    BY DEF FromNothing, Rendered
  <2> QED
    BY <2>1 DEF PlainIsChatElse, PlainIsChat, Catalogued, Shows, CatTrue
<1>4. RowsAreCalls
  <2>1. SUFFICES ASSUME EventsAllowed PROVE Cardinality(RunningRows(main)) = Opens(calls)
    BY DEF RowsAreCalls, Opens
  <2>2. running = TRUE /\ ~Cut(m)
    BY <1>1, <2>1, Interrupted DEF EventsAllowed, Catalogued, Typed
  <2> QED
    BY <1>1, <2>2 DEF Held, Runs
<1>5. AnswerKept
  BY <1>1 DEF AnswerKept, Held, Says
<1>6. OnePlanning
  <2>1. PICK P : P = Of(m, "planning") /\ \A i, j \in P : i = j
    BY <1>1 DEF Held, OnePlan
  <2>2. CASE P = {}
    <3>1. Cardinality(P) = 0
      BY <2>2, FS_EmptySet
    <3> QED
      BY <1>1, <2>1, <3>1 DEF OnePlanning
  <2>3. CASE P # {}
    <3>1. PICK p : p \in P
      BY <2>3
    <3>2. P = {p}
      BY <2>1, <3>1
    <3>3. Cardinality(P) = 1
      BY <3>2, FS_Singleton
    <3>4. running
      BY <1>1, <2>1, <2>3 DEF Held, NoPlans
    <3> QED
      BY <1>1, <2>1, <3>3, <3>4 DEF OnePlanning
  <2> QED
    BY <2>2, <2>3
<1> QED
  BY <1>2, <1>3, <1>4, <1>5, <1>6 DEF CatalogInv

\* The transcript has each piece of the answers once, one running row for each call of the turn that is
\* open, and at most one planning row; and the lines shown are those of the blocks rendered last, pieced
\* together from earlier rebuilds, unless a rebuild saw new blocks together with a change of an earlier
\* one (the handlers of chat_display.go, FirstDirtyBlock and Rebuild of the line catalog).
THEOREM CatalogHolds == CgSpec => []CatalogInv
<1>1. Catalogued /\ [CgNext]_cgVars => Catalogued'
  BY CatalogNext
<1> QED
  BY <1>1, CatalogInit, CatalogGives, PTL DEF CgSpec
================================================================================
