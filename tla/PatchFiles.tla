----------------------------- MODULE PatchFiles -----------------------------
(***************************************************************************)
(* What apply_patch and write_file do to the workspace, and the records    *)
(* that /rewind restores it from: internal/patch/apply/apply.go,           *)
(* internal/tool/builtin/write_file and internal/checkpoint.               *)
(*                                                                         *)
(* A call names its files before it changes one: the record of a call of   *)
(* the main agent is on disk first; sub-agents have no record store.  One  *)
(* action is one change of a patch, its file read, written and backed up.  *)
(* What a hunk makes of a file is PatchText's subject: here it is any text *)
(* or a failure.  Directories, modes and the failure of the rollback's own *)
(* writes are left out.                                                    *)
(***************************************************************************)
EXTENDS Naturals, FiniteSets, SequencesExt

CONSTANTS
  Files,        \* files of the workspace
  Aliases,      \* those that have a second spelling, "./f" for "f"
  StartDisks,   \* bound: what the workspace may hold at the start
  MaxRecords,   \* bound: records of the session
  MaxCalls,     \* bound: calls of the two tools, edits of the user, crashes
  MaxNames      \* bound: files that a patch of each agent names

Agents == {"main", "sub"}
Absent == "absent"
Torn == "torn"
Written == {"new"}                       \* the text that the calls write
Contents == Written \cup {"empty", "old", "big", Torn}

ASSUME PatchFilesAssumption ==
  /\ Aliases \subseteq Files /\ StartDisks \subseteq [Files -> Contents \cup {Absent}]
  /\ MaxRecords \in Nat /\ MaxCalls \in Nat /\ MaxNames \in [Agents -> Nat]

VARIABLES
  disk,       \* Files -> its text
  edit,       \* agent -> the call it is in
  records,    \* the checkpoints of the session, by id
  edits,      \* calls so far
  spot        \* ghost: for each record the disk it was made on, and the files that
              \* anyone without a record has written since

pfVars == <<disk, edit, records, edits, spot>>

Names == (Files \X {"plain"}) \cup (Aliases \X {"alias"})
File(name) == name[1]

NoEdit == [pc |-> "idle", left |-> <<>>, backups |-> <<>>, written |-> <<>>,
           before |-> <<>>, foreign |-> {}, excused |-> {}]

-----------------------------------------------------------------------------
(* Records.                                                                *)

CapturePaths(names) == [f \in {File(n) : n \in names} |-> disk[f]]

\* Mutant: only the first path of the call is captured.
PathsFromToolFirst(names) == {names[1]}

PathsFromTool(names) == ToSet(names)

\* A file too large to capture refuses the call.
Capturable(names) == \A n \in PathsFromTool(names) : disk[File(n)] # "big"

\* Ghosts: what the calls under way, and the records, learn of a write by someone else.
Overwritten(agent, files) ==
  [a \in Agents |-> IF a = agent \/ edit[a].pc = "idle" THEN edit[a]
                    ELSE [edit[a] EXCEPT !.foreign = @ \cup files]]
Loosened(files) == [i \in DOMAIN spot |-> [spot[i] EXCEPT !.loose = @ \cup files]]

recordCheckpoint(agent, names, pc) ==
  IF agent # "main" THEN UNCHANGED <<records, spot>>
  ELSE /\ Capturable(names) /\ Len(records) < MaxRecords
       /\ records' = Append(records, [torn |-> FALSE, files |-> CapturePaths(PathsFromTool(names))])
       /\ spot' = Append(spot, [disk |-> disk, loose |-> {}])

-----------------------------------------------------------------------------
PfInit ==
  /\ disk \in StartDisks
  /\ edit = [a \in Agents |-> NoEdit]
  /\ records = <<>> /\ edits = 0 /\ spot = <<>>

NotEditing(agent) == edit[agent].pc = "idle"
Begin(agent, names, pc) ==
  /\ NotEditing(agent) /\ edits < MaxCalls /\ edits' = edits + 1
  /\ recordCheckpoint(agent, names, pc)
  /\ edit' = [edit EXCEPT ![agent] = [NoEdit EXCEPT !.pc = pc, !.left = names, !.before = disk]]
  /\ UNCHANGED disk

\* The parser refuses a name that comes twice, not two names of one file.
BeginPatch(agent, names) == Begin(agent, names, "patch")
BeginWrite(agent, name) == Begin(agent, <<name>>, "write")

\* A write of the files given, and what the other calls and the records learn of it.
Change(agent, texts, e) ==
  LET files == DOMAIN texts
  IN /\ disk' = [f \in Files |-> IF f \in files THEN texts[f] ELSE disk[f]]
     /\ edit' = [Overwritten(agent, files) EXCEPT ![agent] = e]
     /\ spot' = IF agent = "main" THEN spot ELSE Loosened(files)
     /\ UNCHANGED <<records, edits>>

\* The backup of a file: its text, none when it is absent.  An update copies the text
\* into a nil slice, so the backup of an empty file is none as well.
Backup(f, op) == IF op = "update" /\ disk[f] = "empty" THEN Absent ELSE disk[f]

BackedUp(e, f, op) ==
  [e EXCEPT !.backups = [g \in DOMAIN @ \cup {f} |-> IF g = f THEN Backup(f, op) ELSE @[g]],
            !.excused = @ \cup (IF f \in DOMAIN e.backups THEN {<<f, "twice">>} ELSE {})
                          \cup (IF Backup(f, op) # disk[f] THEN {<<f, "empty">>} ELSE {})]

Fail(agent, e) == Change(agent, <<>>, [e EXCEPT !.pc = "rollback"])

\* A write that fails leaves nothing, or part of the text; no rollback knows of it.
WriteFails(agent, e, f) ==
  \/ Fail(agent, e)
  \/ Change(agent, [g \in {f} |-> Torn], [e EXCEPT !.pc = "rollback", !.excused = @ \cup {<<f, "torn">>}])

PathsTaken(agent, n) == [edit[agent] EXCEPT !.left = SubSeq(@, n + 1, Len(@))]
Patching(agent) == edit[agent].pc = "patch" /\ edit[agent].left # <<>>
Target(agent) == File(edit[agent].left[1])

ChangeAdd(agent) ==
  /\ Patching(agent)
  /\ LET f == Target(agent)
         e == BackedUp(PathsTaken(agent, 1), f, "add")
     IN IF disk[f] # Absent THEN Fail(agent, edit[agent])
        ELSE \/ \E text \in Written : Change(agent, [g \in {f} |-> text], [e EXCEPT !.written = Append(@, f)])
             \/ WriteFails(agent, e, f)

ChangeDelete(agent) ==
  /\ Patching(agent)
  /\ LET f == Target(agent)
         e == BackedUp(PathsTaken(agent, 1), f, "delete")
     IN IF disk[f] = Absent THEN Fail(agent, edit[agent])
        ELSE \/ Change(agent, [g \in {f} |-> Absent], [e EXCEPT !.written = Append(@, f)])
             \/ Fail(agent, e)

ChangeUpdate(agent) ==
  /\ Patching(agent)
  /\ LET f == Target(agent)
         e == BackedUp(PathsTaken(agent, 1), f, "update")
     IN IF disk[f] = Absent THEN Fail(agent, edit[agent])
        ELSE \/ Fail(agent, e)                                      \* a hunk is not found
             \/ \E text \in Written : Change(agent, [g \in {f} |-> text], [e EXCEPT !.written = Append(@, f)])
             \/ WriteFails(agent, e, f)

\* Mutant: the source that a move removed is not among the files to roll back.
MovedDestOnly(e, source, dest) == [e EXCEPT !.written = Append(@, dest)]

Moved(e, source, dest) == [e EXCEPT !.written = @ \o <<dest, source>>]

\* An update that moves the file: the target is written, then the source removed.
ChangeMove(agent) ==
  /\ Patching(agent) /\ Len(edit[agent].left) > 1
  /\ LET f == Target(agent)
         dest == File(edit[agent].left[2])
         e == BackedUp(BackedUp(PathsTaken(agent, 2), f, "update"), dest, "add")
     IN IF disk[f] = Absent \/ disk[dest] # Absent THEN Fail(agent, edit[agent])
        ELSE \/ Fail(agent, edit[agent])
             \/ \E text \in Written \cup {disk[f]} :
                  \/ Change(agent, [g \in {f, dest} |-> IF g = f THEN Absent ELSE text], Moved(e, f, dest))
                  \/ Change(agent, [g \in {dest} |-> text],
                            [e EXCEPT !.pc = "rollback", !.written = Append(@, dest)])
             \/ WriteFails(agent, e, dest)

PatchApplied(agent) ==
  /\ edit[agent].pc = "patch" /\ edit[agent].left = <<>>
  /\ Change(agent, <<>>, NoEdit)

\* What has been written is taken back, in the order it was written.
Rollback(agent) ==
  /\ edit[agent].pc = "rollback"
  /\ LET e == edit[agent] IN Change(agent, [f \in ToSet(e.written) |-> e.backups[f]], NoEdit)

WriteFile(agent) ==
  /\ edit[agent].pc = "write"
  /\ \/ \E text \in Written \cup {Torn} : Change(agent, [g \in {Target(agent)} |-> text], NoEdit)
     \/ Change(agent, <<>>, NoEdit)

-----------------------------------------------------------------------------
(* The user edits a file; a crash; /rewind while the main agent is idle.   *)

UserEdit(f) ==
  /\ edits \in 1..(MaxCalls - 1) /\ edits' = edits + 1
  /\ disk' = [disk EXCEPT ![f] = "old"] /\ disk[f] # "old"
  /\ edit' = Overwritten("user", {f})
  /\ spot' = Loosened({f}) /\ UNCHANGED records

\* A crash keeps the files as they are, and may tear the record being written.
CrashInPatch ==
  /\ edits < MaxCalls /\ edits' = edits + 1
  /\ edit' = [a \in Agents |-> NoEdit]
  /\ \/ UNCHANGED <<records, spot>> /\ edit' # edit
     \/ /\ Len(records) < MaxRecords /\ NotEditing("main")
        /\ records' = Append(records, [torn |-> TRUE, files |-> <<>>])
        /\ spot' = Append(spot, [disk |-> disk, loose |-> {}])
  /\ UNCHANGED disk

\* ApplyRewind makes no record of its own.
Rewind(id) ==
  /\ NotEditing("main") /\ ~records[id].torn
  /\ LET files == DOMAIN records[id].files
     IN /\ disk' = [f \in Files |-> IF f \in files THEN records[id].files[f] ELSE disk[f]]
        /\ edit' = Overwritten("user", files)
        /\ spot' = [i \in DOMAIN spot |-> IF id < i THEN [spot[i] EXCEPT !.loose = @ \cup files] ELSE spot[i]]
  /\ UNCHANGED <<records, edits>>

PfNext ==
  \/ \E agent \in Agents :
       \/ \E names \in {s \in SeqOf(Names, MaxNames[agent]) : s # <<>> /\ IsInjective(s)} : BeginPatch(agent, names)
       \/ \E name \in Names : BeginWrite(agent, name)
       \/ ChangeAdd(agent) \/ ChangeDelete(agent) \/ ChangeUpdate(agent) \/ ChangeMove(agent)
       \/ PatchApplied(agent) \/ Rollback(agent) \/ WriteFile(agent)
  \/ \E f \in Files : UserEdit(f)
  \/ CrashInPatch
  \/ \E id \in 1..Len(records) : Rewind(id)

PfSpec == PfInit /\ [][PfNext]_pfVars

-----------------------------------------------------------------------------
(* Properties.                                                             *)

PfTypeOK ==
  /\ disk \in [Files -> Contents \cup {Absent}]
  /\ \A a \in Agents : /\ edit[a].pc \in {"idle", "patch", "write", "rollback"}
                       /\ ToSet(edit[a].written) \subseteq DOMAIN edit[a].backups
                       /\ edit[a].pc # "idle" => edit[a].before \in [Files -> Contents \cup {Absent}]
  /\ DOMAIN spot = DOMAIN records

\* A patch that fails leaves every file as it was before it, when no one else wrote the
\* file meanwhile; except where the code does not: an updated file that was empty is
\* removed, a write cut short stays, and of a file with two names in the patch the
\* second backup, taken after the first change, replaces the first.
PatchRollsBack ==
  \A a \in Agents : Rollback(a) =>
    \A f \in Files \ edit[a].foreign :
      disk'[f] = edit[a].before[f] \/ \E why \in {"empty", "torn", "twice"} : <<f, why>> \in edit[a].excused

\* Undoing the records from the newest back to one of them gives each file the text it
\* had when that record was made, whatever failed or crashed in between, unless it was
\* written since by something that makes no record: a sub-agent, the user, a rewind to
\* an earlier one.
UndoComplete ==
  \A n \in DOMAIN records : \A f \in Files \ spot[n].loose :
    LET saved == {k \in n..Len(records) : f \in DOMAIN records[k].files}
    IN (IF saved = {} THEN disk[f]
        ELSE records[CHOOSE k \in saved : \A j \in saved : k <= j].files[f]) = spot[n].disk[f]

\* The records are always good for an undo.
UndoInv == PfTypeOK /\ UndoComplete
=============================================================================
