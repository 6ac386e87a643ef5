---------------------------- MODULE SessionStore ----------------------------
(***************************************************************************)
(* The session store: LazyStore (src/internal/session/lazy.go), which      *)
(* keeps a new session in memory until its first write, on top of one of   *)
(* the two inner stores, SQLite (src/internal/session/sqlite) or memory    *)
(* (src/internal/session/memory.go).                                       *)
(*                                                                         *)
(* A step is what a caller does between two points where another caller    *)
(* can interfere: one critical section of the LazyStore's mutex, or one    *)
(* statement of the database, whose pool has a single connection.  The     *)
(* memory store does a whole operation under its own mutex.                *)
(***************************************************************************)
EXTENDS Naturals, Sequences, FiniteSets

CONSTANTS
  Sessions,      \* identifiers CreateSession may draw (uuid: never twice)
  Callers,       \* goroutines that use the store: a turn, the UI loop
  Confs,         \* values of the columns that UpdateSession's functions set
  MaxMessages,   \* bound on the messages of all sessions
  MaxUsage,      \* bound on the AddUsage calls
  MaxFaults,     \* bound on statements that fail (context, disk, lock)
  MaxCrashes     \* bound on ends of the process

ASSUME StoreAssumption ==
  /\ IsFiniteSet(Callers) /\ IsFiniteSet(Sessions)
  /\ Confs # {} /\ "none" \notin Confs
  /\ {MaxMessages, MaxUsage, MaxFaults, MaxCrashes} \subseteq Nat

NoRow  == [title |-> 0, conf |-> "none", tokens |-> 0, cost |-> 0]
NoOnce == 0

\* The sync.Once values that can be referenced at a time: one per caller, one per session.
Onces == 1 .. (Cardinality(Callers) + Cardinality(Sessions))
Writes == {"user", "assistant", "usage"}       \* operations that materialize

VARIABLES
  inner,          \* which inner store the LazyStore wraps
  created,        \* ids CreateSession has handed out
  pending,        \* LazyStore.pending
  materializing,  \* LazyStore.materializing: a Once for a session
  once,           \* the state of each Once, with the error it returned
  rows,           \* table sessions
  msgs,           \* table messages: msgs[s] is a sequence of ids and roles
  call,           \* what each caller is doing
  gone,           \* history: sessions dropped while pending, or lost with the process
  used,           \* history: usage added to the row of a session
  lost,           \* history: sessions with a column overwritten by a stale value
  faults,         \* statements that have failed so far
  crashes         \* ends of the process so far

lazyVars  == <<created, pending, materializing, once>>
innerVars == <<inner, rows, msgs>>
histVars  == <<gone, used, lost>>
vars == <<lazyVars, innerVars, call, histVars, faults, crashes>>

Idle == [op |-> "none", sess |-> "none", pc |-> "idle", once |-> NoOnce, copy |-> NoRow]

NewRow == [NoRow EXCEPT !.conf = CHOOSE v \in Confs : TRUE]
Ids == 1 .. MaxMessages
\* The autoincremented id of the next message.
NextId == 1 + Cardinality({p \in Sessions \X Ids : p[2] <= Len(msgs[p[1]])})

At(c, pc) == call[c].pc = pc
Set(c, r) == call' = [call EXCEPT ![c] = r]
Go(c, pc) == Set(c, [call[c] EXCEPT !.pc = pc])
Return(c) == Set(c, Idle)
\* A statement of the database fails: the context is cancelled, the disk is full, the database is locked.
Fault == inner = "sqlite" /\ faults < MaxFaults /\ faults' = faults + 1

Init ==
  /\ inner \in {"sqlite", "memory"}
  /\ created = {}
  /\ pending = [s \in Sessions |-> NoRow]
  /\ materializing = [s \in Sessions |-> NoOnce]
  /\ once = [o \in Onces |-> "fresh"]
  /\ rows = [s \in Sessions |-> NoRow]
  /\ msgs = [s \in Sessions |-> << >>]
  /\ call = [c \in Callers |-> Idle]
  /\ gone = {}
  /\ used = [s \in Sessions |-> 0]
  /\ lost = {}
  /\ faults = 0
  /\ crashes = 0

-----------------------------------------------------------------------------
(* LazyStore: creation, lookup and drop of sessions that have no row yet.   *)

CreateSession(s) ==
  /\ s \notin created
  /\ created' = created \cup {s}
  /\ pending' = [pending EXCEPT ![s] = NewRow]
  /\ UNCHANGED <<materializing, once, innerVars, call, histVars, faults, crashes>>

dropPending(s) ==
  /\ s \in created
  /\ pending' = [pending EXCEPT ![s] = NoRow]
  /\ materializing' = [materializing EXCEPT ![s] = NoOnce]
  /\ gone' = IF pending[s] # NoRow THEN gone \cup {s} ELSE gone
  /\ UNCHANGED <<created, once, innerVars, call, used, lost, faults, crashes>>

\* What Get returns, and whether ListMessages has a session to list.
Get(s) == IF pending[s] # NoRow THEN pending[s] ELSE rows[s]

-----------------------------------------------------------------------------
(* materialize: the first write to a session stores its row, once.          *)

Referenced(o) == (\E s \in Sessions : materializing[s] = o) \/ (\E c \in Callers : call[c].once = o)
FreeOnce == CHOOSE o \in Onces : ~Referenced(o)

\* Bounds, with what the calls under way will still write.
InFlight(ops) == Cardinality({c \in Callers : call[c].op \in ops /\ ~At(c, "touch")})
Allowed(op) ==
  IF op = "usage" THEN \A s \in Sessions : used[s] + InFlight({"usage"}) < MaxUsage
                  ELSE NextId + InFlight({"user", "assistant"}) <= MaxMessages

MaterializeLookup(c, op, s) ==
  /\ At(c, "idle")
  /\ s \in created
  /\ Allowed(op)
  /\ LET o == IF materializing[s] # NoOnce THEN materializing[s] ELSE FreeOnce
         r == [Idle EXCEPT !.op = op, !.sess = s]
     IN IF pending[s] = NoRow
        THEN /\ Set(c, [r EXCEPT !.pc = "write"])
             /\ UNCHANGED <<materializing, once>>
        ELSE /\ Set(c, [r EXCEPT !.pc = "once", !.once = o])
             /\ materializing' = [materializing EXCEPT ![s] = o]
             /\ once' = IF materializing[s] = o THEN once ELSE [once EXCEPT ![o] = "fresh"]
  /\ UNCHANGED <<created, pending, innerVars, histVars, faults, crashes>>

Returned == {"ok", "failed"}

\* once.Do: the first caller runs the function, the others wait for it to end.
OnceDo(c) ==
  /\ At(c, "once")
  /\ once[call[c].once] = "fresh"
  /\ once' = [once EXCEPT ![call[c].once] = "running"]
  /\ Go(c, "take")
  /\ UNCHANGED <<created, pending, materializing, innerVars, histVars, faults, crashes>>

OnceDone(c) ==
  /\ At(c, "once")
  /\ once[call[c].once] \in Returned
  /\ IF once[call[c].once] = "ok"
     THEN Set(c, [call[c] EXCEPT !.pc = "write", !.once = NoOnce])
     ELSE Return(c)
  /\ UNCHANGED <<lazyVars, innerVars, histVars, faults, crashes>>

Taken(s) == [pending EXCEPT ![s] = NoRow]

\* Under the mutex: the session leaves pending before the inner store has it.
MaterializeTake(c) ==
  /\ At(c, "take")
  /\ LET s == call[c].sess IN
     IF pending[s] = NoRow
     THEN /\ once' = [once EXCEPT ![call[c].once] = "ok"]
          /\ Set(c, [call[c] EXCEPT !.pc = "write", !.once = NoOnce])
          /\ UNCHANGED pending
     ELSE /\ pending' = Taken(s)
          /\ Set(c, [call[c] EXCEPT !.pc = "create", !.copy = pending[s]])
          /\ UNCHANGED once
  /\ UNCHANGED <<created, materializing, innerVars, histVars, faults, crashes>>

\* inner.Create: an insertion, refused when the key exists.
MaterializeCreate(c) ==
  /\ At(c, "create")
  /\ LET s == call[c].sess IN
     \/ /\ rows[s] = NoRow
        /\ rows' = [rows EXCEPT ![s] = call[c].copy]
        /\ once' = [once EXCEPT ![call[c].once] = "ok"]
        /\ Set(c, [call[c] EXCEPT !.pc = "write", !.once = NoOnce, !.copy = NoRow])
        /\ UNCHANGED faults
     \/ /\ rows[s] # NoRow
        /\ Go(c, "restore")
        /\ UNCHANGED <<rows, once, faults>>
     \/ /\ Fault
        /\ Go(c, "restore")
        /\ UNCHANGED <<rows, once>>
  /\ UNCHANGED <<created, pending, materializing, inner, msgs, histVars, crashes>>

Restored(s, row) == [pending EXCEPT ![s] = row]

MaterializeRestore(c) ==
  /\ At(c, "restore")
  /\ LET s == call[c].sess IN
     /\ pending' = Restored(s, call[c].copy)
     /\ materializing' = [materializing EXCEPT ![s] = NoOnce]
     /\ once' = [once EXCEPT ![call[c].once] = "failed"]
  /\ Return(c)
  /\ UNCHANGED <<created, innerVars, histVars, faults, crashes>>

-----------------------------------------------------------------------------
(* Writes to the inner store.                                               *)

\* A column other than those fn sets has changed since the row was read.
Stale(copy, row) == \/ copy.title # row.title
                    \/ copy.tokens # row.tokens
                    \/ copy.cost # row.cost

WithUsage(row) == [row EXCEPT !.tokens = @ + 1]

AddUsage(c) ==
  /\ At(c, "write")
  /\ call[c].op = "usage"
  /\ LET s == call[c].sess IN
     \/ /\ rows[s] # NoRow
        /\ rows' = [rows EXCEPT ![s] = WithUsage(@)]
        /\ used' = [used EXCEPT ![s] = @ + 1]
        /\ UNCHANGED faults
     \/ /\ rows[s] = NoRow       \* SQLite updates no row and reports no error
        /\ UNCHANGED <<rows, used, faults>>
     \/ Fault /\ UNCHANGED <<rows, used>>
  /\ Return(c)
  /\ UNCHANGED <<lazyVars, inner, msgs, gone, lost, crashes>>

\* The second half of AppendMessage: title of the first user message, or cost of an answer.
Touched(row, role, id) ==
  IF role = "user" THEN [row EXCEPT !.title = IF @ = 0 THEN id ELSE @]
                   ELSE [row EXCEPT !.cost = @ + 1]

\* Mutant: a message is appended to a session without a row.
NoForeignKey(s) == TRUE
SessionExists(s) == rows[s] # NoRow

NewMessage(c) == [id |-> NextId, role |-> call[c].op]

\* No such session: an error, in SQLite by the foreign key.
AppendRefused(c) ==
  /\ At(c, "write")
  /\ call[c].op \in {"user", "assistant"}
  /\ \/ ~SessionExists(call[c].sess) /\ UNCHANGED faults
     \/ Fault
  /\ Return(c)
  /\ UNCHANGED <<lazyVars, innerVars, histVars, crashes>>

MemoryAppend(c) ==
  /\ inner = "memory"
  /\ At(c, "write")
  /\ call[c].op \in {"user", "assistant"}
  /\ LET s == call[c].sess
         m == NewMessage(c)
     IN /\ SessionExists(s)
        /\ msgs' = [msgs EXCEPT ![s] = Append(@, m)]
        /\ rows' = [rows EXCEPT ![s] = Touched(@, m.role, m.id)]
  /\ Return(c)
  /\ UNCHANGED <<lazyVars, inner, histVars, faults, crashes>>

\* SQLite: the insertion, a statement of its own.
AppendInsert(c) ==
  /\ inner = "sqlite"
  /\ At(c, "write")
  /\ call[c].op \in {"user", "assistant"}
  /\ LET s == call[c].sess
         m == NewMessage(c)
     IN /\ SessionExists(s)
        /\ msgs' = [msgs EXCEPT ![s] = Append(@, m)]
        /\ Set(c, [call[c] EXCEPT !.pc = "touch", !.copy.title = m.id])
  /\ UNCHANGED <<lazyVars, inner, rows, histVars, faults, crashes>>

\* SQLite only; when it fails, the message stays although the call reports an error.
AppendTouch(c) ==
  /\ At(c, "touch")
  /\ LET s == call[c].sess IN
     \/ /\ rows' = [rows EXCEPT ![s] = Touched(@, call[c].op, call[c].copy.title)]
        /\ UNCHANGED faults
     \/ Fault /\ UNCHANGED rows
  /\ Return(c)
  /\ UNCHANGED <<lazyVars, inner, msgs, histVars, crashes>>

\* LazyStore.UpdateSession: a pending session is changed in place, under the mutex.
UpdateLookup(c, s, v) ==
  /\ At(c, "idle")
  /\ s \in created
  /\ IF pending[s] # NoRow
     THEN /\ pending' = [pending EXCEPT ![s].conf = v]
          /\ UNCHANGED call
     ELSE /\ Set(c, [Idle EXCEPT !.op = "update", !.sess = s, !.pc = "read", !.copy.conf = v])
          /\ UNCHANGED pending
  /\ UNCHANGED <<created, materializing, once, innerVars, histVars, faults, crashes>>

Updated(c) == [rows[call[c].sess] EXCEPT !.conf = call[c].copy.conf]

UpdateRefused(c) ==
  /\ At(c, "read")
  /\ \/ ~SessionExists(call[c].sess) /\ UNCHANGED faults
     \/ Fault
  /\ Return(c)
  /\ UNCHANGED <<lazyVars, innerVars, histVars, crashes>>

\* The row is read and fn applied to the copy; nothing keeps others out until it is saved.
UnlockedUpdate(c) ==
  /\ At(c, "read")
  /\ SessionExists(call[c].sess)
  /\ Set(c, [call[c] EXCEPT !.pc = "save", !.copy = Updated(c)])
  /\ UNCHANGED <<lazyVars, innerVars, histVars, faults, crashes>>

MemoryUpdate(c) ==
  /\ inner = "memory"
  /\ At(c, "read")
  /\ SessionExists(call[c].sess)
  /\ rows' = [rows EXCEPT ![call[c].sess] = Updated(c)]
  /\ Return(c)
  /\ UNCHANGED <<lazyVars, inner, msgs, histVars, faults, crashes>>

\* SQLite: the row is read, and fn applied to the copy.
UpdateRead(c) ==
  /\ inner = "sqlite"
  /\ UnlockedUpdate(c)

\* SQLite only: every column is written back as it was read.
UpdateSave(c) ==
  /\ At(c, "save")
  /\ LET s == call[c].sess IN
     \/ /\ rows' = [rows EXCEPT ![s] = call[c].copy]
        /\ lost' = IF Stale(call[c].copy, rows[s]) THEN lost \cup {s} ELSE lost
        /\ UNCHANGED faults
     \/ Fault /\ UNCHANGED <<rows, lost>>
  /\ Return(c)
  /\ UNCHANGED <<lazyVars, inner, msgs, gone, used, crashes>>

\* The process ends; what is in memory is gone, what is in the database stays.
Crash ==
  /\ crashes < MaxCrashes
  /\ crashes' = crashes + 1
  /\ inner = "sqlite"
  /\ pending' = [s \in Sessions |-> NoRow]
  /\ materializing' = [s \in Sessions |-> NoOnce]
  /\ once' = [o \in Onces |-> "fresh"]
  /\ call' = [c \in Callers |-> Idle]
  /\ gone' = gone \cup {s \in created : rows[s] = NoRow}
  /\ UNCHANGED <<created, innerVars, used, lost, faults>>

Step(c) ==
  \/ OnceDo(c) \/ OnceDone(c) \/ MaterializeTake(c) \/ MaterializeCreate(c) \/ MaterializeRestore(c)
  \/ AddUsage(c)
  \/ AppendRefused(c) \/ MemoryAppend(c) \/ AppendInsert(c) \/ AppendTouch(c)
  \/ UpdateRefused(c) \/ MemoryUpdate(c) \/ UpdateRead(c) \/ UpdateSave(c)

Next ==
  \/ \E s \in Sessions : CreateSession(s) \/ dropPending(s)
  \/ \E c \in Callers, s \in Sessions, op \in Writes : MaterializeLookup(c, op, s)
  \/ \E c \in Callers, s \in Sessions, v \in Confs : UpdateLookup(c, s, v)
  \/ \E c \in Callers : Step(c)
  \/ Crash

Spec == Init /\ [][Next]_vars

-----------------------------------------------------------------------------
(* Properties.                                                              *)

Row == [title : 0 .. MaxMessages, conf : Confs \cup {"none"}, tokens : 0 .. MaxUsage,
        cost : 0 .. MaxMessages]
Places == {"idle", "once", "take", "create", "restore", "write", "touch", "read", "save"}

\* The types of all variables: titles are ids of messages, totals are within
\* what was added, every Once that is referenced exists (lazy.go, sqlite, memory.go).
TypeOK ==
  /\ inner \in {"sqlite", "memory"}
  /\ created \subseteq Sessions /\ gone \subseteq created /\ lost \subseteq created
  /\ pending \in [Sessions -> Row]
  /\ materializing \in [Sessions -> Onces \cup {NoOnce}]
  /\ once \in [Onces -> {"fresh", "running", "ok", "failed"}]
  /\ rows \in [Sessions -> Row]
  /\ msgs \in [Sessions -> Seq([id : Ids, role : {"user", "assistant"}])]
  /\ call \in [Callers -> [op : Writes \cup {"none", "update"}, sess : Sessions \cup {"none"},
                           pc : Places, once : Onces \cup {NoOnce}, copy : Row]]
  /\ used \in [Sessions -> 0 .. MaxUsage]
  /\ faults \in 0 .. MaxFaults
  /\ crashes \in 0 .. MaxCrashes

\* The caller that has taken the session out of pending and has not stored it yet.
Holders(s) == {c \in Callers : call[c].sess = s /\ call[c].pc \in {"create", "restore"}}
Known == {s \in created : pending[s] # NoRow \/ rows[s] # NoRow \/ Holders(s) # {}}

\* A session is in exactly one place: pending, in the hands of one caller, or in the
\* table.  In particular it is created once although any number of first writes race,
\* and inner.Create never meets its own key (materialize, lazy.go:134).
OnePlace ==
  \A s \in Sessions :
    /\ pending[s] # NoRow => rows[s] = NoRow /\ Holders(s) = {}
    /\ rows[s] # NoRow => Holders(s) = {}
    /\ Cardinality(Holders(s)) <= 1

\* No session vanishes: one that was neither dropped while pending nor lost with the
\* process can still be reached, also after a Create that failed (lazy.go:158).
SessionKept == Known = created \ gone

\* The totals of a session are exactly what AddUsage added, and each answer that was
\* stored is paid for at most once, unless an UpdateSession wrote a stale row over
\* them, which the memory store never does (sqlite_sessions.go:46-85).
UsageCounted ==
  \A s \in Sessions : rows[s] # NoRow /\ (s \notin lost \/ inner = "memory") =>
    /\ rows[s].tokens = used[s]
    /\ rows[s].cost <= Cardinality({i \in DOMAIN msgs[s] : msgs[s][i].role = "assistant"})

\* The title of a session is set once, by a user message of that session, and stays,
\* except when a stale row is written over it (sqlite_messages.go:83-88).
TitleStays ==
  \A s \in Sessions : rows[s].title # 0 => rows'[s].title = rows[s].title \/ s \in lost'

\* The LazyStore keeps the promise of Transcripts: messages go to sessions that are
\* open, in order and under fresh ids, and a session with messages is never given up.
T == INSTANCE Transcripts WITH
       open <- Known,
       log  <- [s \in Sessions |-> [i \in DOMAIN msgs[s] |-> msgs[s][i].id]]
ImplementsTranscripts == T!Spec

\* The steps between once.Do and its return wait for nothing (lazy.go:147-168).
Running == {"take", "create", "restore"}

\* A caller that waits in once.Do waits for one that goes on: the caller that creates the
\* row cannot wait for anything, and tells those who wait also that it has failed.
WaitersServed ==
  \A c \in Callers : At(c, "once") /\ once[call[c].once] \notin {"fresh"} \cup Returned =>
    \E d \in Callers : call[d].once = call[c].once /\ call[d].pc \in Running

\* The lazy store between any two steps of its callers: a session in one place and never
\* gone, its totals those that were added, and nobody waiting for nobody.
StoreInv == TypeOK /\ OnePlace /\ SessionKept /\ UsageCounted /\ WaitersServed
=============================================================================
