------------------------------ MODULE RgBinary ------------------------------
(***************************************************************************)
(* The bundled ripgrep of the search tools: the program carries it inside  *)
(* and keeps a copy under ~/.ds-code/bin/rg.  Every call looks whether the *)
(* copy is still the one it knows, else verifies its hash, else replaces   *)
(* it; then it runs what is there.  The calls of a process share what it   *)
(* knows, and every process of the user, of this or another version, works *)
(* on the same copy.                                                       *)
(***************************************************************************)
EXTENDS Naturals, FiniteSets

CONSTANTS
  RgCalls,        \* the calls
  RgProcess,      \* call -> its process
  RgVersion,      \* process -> the ripgrep that it carries
  MaxStamp        \* bound: changes of the copy

Processes == {RgProcess[c] : c \in RgCalls}
Own(c) == RgVersion[RgProcess[c]]
RgVersions == {RgVersion[p] : p \in Processes}

ASSUME RgAssumption ==
  /\ MaxStamp \in Nat /\ RgCalls \subseteq DOMAIN RgProcess /\ Processes \subseteq DOMAIN RgVersion
  /\ "nothing" \notin RgVersions

VARIABLES
  copy,        \* the file: [holds, stamp], the stamp standing for its size and time
  stamps,      \* stamps given out
  validated,   \* process -> the stamp of the copy that it knows; 0: none
  blind,       \* the processes that took the stamp of a copy that is not theirs
  resolve      \* call -> [at, ran, alone], alone: no other changed the copy since it began
rbVars == <<copy, stamps, validated, blind, resolve>>

NoCopy == [holds |-> "nothing", stamp |-> 0]
Resting == [at |-> "rest", ran |-> "nothing", alone |-> TRUE]
RbInit ==
  /\ copy = NoCopy /\ stamps = 0
  /\ validated = [p \in Processes |-> 0] /\ blind = {}
  /\ resolve = [c \in RgCalls |-> Resting]

StandsAt(c, where) == resolve[c].at = where
Goes(c, where) == resolve' = [resolve EXCEPT ![c].at = where]
ResolveFails(c) == resolve' = [resolve EXCEPT ![c].at = "failed"]
\* Call c changes the copy: the others are not alone with it any more.
Changes(c, holds, where) ==
  /\ stamps < MaxStamp /\ stamps' = stamps + 1
  /\ copy' = IF holds = "nothing" THEN NoCopy ELSE [holds |-> holds, stamp |-> stamps + 1]
  /\ resolve' = [d \in RgCalls |-> IF d = c THEN [resolve[c] EXCEPT !.at = where]
                                   ELSE [resolve[d] EXCEPT !.alone = FALSE]]

Path(c) ==
  /\ StandsAt(c, "rest") /\ resolve' = [resolve EXCEPT ![c] = [Resting EXCEPT !.at = "stat"]]
  /\ UNCHANGED <<copy, stamps, validated, blind>>
CachedPathIfValid(c) == validated[RgProcess[c]] > 0 /\ copy.stamp = validated[RgProcess[c]]
Stat(c) ==
  /\ StandsAt(c, "stat") /\ Goes(c, IF CachedPathIfValid(c) THEN "exec" ELSE "verify")
  /\ UNCHANGED <<copy, stamps, validated, blind>>
VerifyOnDisk(c) ==
  /\ StandsAt(c, "verify")
  /\ Goes(c, IF copy.holds = Own(c) THEN "mark" ELSE "write") \/ (copy.holds # "nothing" /\ ResolveFails(c))
  /\ UNCHANGED <<copy, stamps, validated, blind>>
\* Mutant: the copy is written where it stands.
WriteInPlace(c) ==
  /\ StandsAt(c, "write") /\ Changes(c, "torn", "remove")
  /\ UNCHANGED <<validated, blind>>
\* writeAtomic: a temporary file, which nobody else looks at; a crash leaves it.
WriteTemp(c) ==
  /\ StandsAt(c, "write")
  /\ Goes(c, "remove") \/ ResolveFails(c)
  /\ UNCHANGED <<copy, stamps, validated, blind>>
RemoveOld(c) ==
  /\ StandsAt(c, "remove")
  /\ IF copy.holds = "nothing" THEN Goes(c, "rename") /\ UNCHANGED <<copy, stamps>>
     ELSE Changes(c, "nothing", "rename")
  /\ UNCHANGED <<validated, blind>>
Rename(c) ==
  /\ StandsAt(c, "rename") /\ Changes(c, Own(c), "mark")
  /\ UNCHANGED <<validated, blind>>
\* setValidated: what is there now, which may be another's.
SetValidated(c) ==
  /\ StandsAt(c, "mark") /\ Goes(c, "exec")
  /\ validated' = [validated EXCEPT ![RgProcess[c]] = copy.stamp]
  /\ blind' = IF copy.holds \in {"nothing", Own(c)} THEN blind \ {RgProcess[c]} ELSE blind \cup {RgProcess[c]}
  /\ UNCHANGED <<copy, stamps>>
Run(c) ==
  /\ StandsAt(c, "exec")
  /\ IF copy.holds = "nothing" THEN ResolveFails(c)
     ELSE resolve' = [resolve EXCEPT ![c].at = "ended", ![c].ran = copy.holds]
  /\ UNCHANGED <<copy, stamps, validated, blind>>
CallOver(c) ==
  /\ resolve[c].at \in {"ended", "failed"} /\ resolve' = [resolve EXCEPT ![c] = Resting]
  /\ UNCHANGED <<copy, stamps, validated, blind>>

\* Crash, and a new start of the process: what it knew and its calls are gone.
CrashOf(p) ==
  /\ \E c \in RgCalls : RgProcess[c] = p /\ ~StandsAt(c, "rest")
  /\ validated' = [validated EXCEPT ![p] = 0] /\ blind' = blind \ {p}
  /\ resolve' = [c \in RgCalls |-> IF RgProcess[c] = p THEN Resting ELSE resolve[c]]
  /\ UNCHANGED <<copy, stamps>>
\* External: something else writes or removes the copy.
Tamper ==
  /\ stamps < MaxStamp /\ stamps' = stamps + 1
  /\ copy' \in {NoCopy, [holds |-> "other", stamp |-> stamps + 1]}
  /\ resolve' = [c \in RgCalls |-> [resolve[c] EXCEPT !.alone = FALSE]]
  /\ UNCHANGED <<validated, blind>>

RbNext ==
  \/ \E c \in RgCalls :
       \/ Path(c) \/ Stat(c) \/ VerifyOnDisk(c) \/ WriteTemp(c) \/ RemoveOld(c) \/ Rename(c)
       \/ SetValidated(c) \/ Run(c) \/ CallOver(c)
  \/ \E p \in Processes : CrashOf(p)
  \/ Tamper
RbSpec == RbInit /\ [][RbNext]_rbVars

-----------------------------------------------------------------------------
(* Properties.                                                             *)

RbTypeOK ==
  /\ copy \in [holds : {"nothing", "other"} \cup RgVersions, stamp : 0..MaxStamp]
  /\ stamps \in 0..MaxStamp /\ validated \in [Processes -> 0..MaxStamp] /\ blind \subseteq Processes
  /\ \A c \in RgCalls : resolve[c].alone \in BOOLEAN
  /\ \A p \in Processes : validated[p] <= stamps

\* A call that nobody disturbs runs the ripgrep of its own version, whatever was there before it
\* and whichever process crashed while it wrote; unless its process once took, right after the
\* hash was verified, the stamp of a copy that another had put there by then (Path, setValidated).
RunsOwn ==
  \A c \in RgCalls : resolve[c].at = "ended" /\ resolve[c].alone /\ RgProcess[c] \notin blind =>
     resolve[c].ran = Own(c)
\* Nobody ever runs a copy that is half written (writeAtomic).
RunsWhole == \A c \in RgCalls : resolve[c].ran \in {"nothing", "other"} \cup RgVersions
\* A call finds nothing to run only when another removed the copy meanwhile, not of itself.
FoundAlone ==
  \A c \in RgCalls : resolve[c].at = "exec" /\ resolve'[c].at = "failed" => ~resolve[c].alone

\* What is run is a whole ripgrep of the version asked for.
RgInv == RbTypeOK /\ RunsOwn /\ RunsWhole
=============================================================================
