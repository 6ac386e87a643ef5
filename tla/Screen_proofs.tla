---------------------------- MODULE Screen_proofs ---------------------------
(***************************************************************************)
(* Theorems about three parts of the screen: the turns, with what their    *)
(* goroutines send and what Esc does to them (TuiTurns), the questions     *)
(* that ask before a call runs (ToolPermission), and the place of the      *)
(* reader with the wheel, the page keys and the coalesced syncs            *)
(* (ChatScroll).                                                           *)
(***************************************************************************)
EXTENDS TuiTurns, ToolPermission, ChatScroll, WellFoundedInduction, TLAPS

(***************************************************************************)
(* TuiTurns. What the loop shows of the turn that it believes under way,   *)
(* what the turn's goroutine has sent and what its session holds agree, as *)
(* long as no command crossed the turn.                                    *)
(***************************************************************************)

MarkSet == [role : {"user", "interrupt", "block"}, turn : Nat]
TurnSet == [kind : {"user", "auto"}, session : ChatSessions, phase : {"new", "run", "returned", "sent", "gone"},
            cancelled : BOOLEAN, esc : BOOLEAN, blocks : Nat, crossed : BOOLEAN]
EventSet == [what : {"started", "block", "done", "complete"}, turn : Nat]
CmdSet == [kind : {"history", "slash", "resume", "context"}, sid : ChatSessions, answer : {"", "ok", "error", "taken"}]
UiSet == [running : BOOLEAN, cancel : Nat, escPending : BOOLEAN, overlay : BOOLEAN, session : ChatSessions]

TtShape ==
  /\ ui \in UiSet /\ shown \in Seq(MarkSet) /\ turns \in Seq(TurnSet) /\ events \in Seq(EventSet)
  /\ cmds \in Seq(CmdSet) /\ stored \in [ChatSessions -> Seq(MarkSet)]

UnderWay == {"run", "returned", "sent"}
\* An event of a turn comes while its goroutine is under way; nothing of it comes after its end.
Channel ==
  \A i \in 1..Len(events) :
    \/ events[i].what = "complete" /\ events[i].turn = NoTurn
    \/ /\ events[i].what # "complete" /\ events[i].turn \in Turns /\ turns[events[i].turn].phase \in UnderWay
       /\ events[i].what = "done" =>
            /\ turns[events[i].turn].phase = "sent"
            /\ \A j \in i+1..Len(events) : events[j].turn # events[i].turn

\* The marks, displayed and stored, are of the turns so far; a session holds no block.
Known ==
  /\ \A i \in 1..Len(shown) : shown[i].turn \in 0..Len(turns)
  /\ \A s \in ChatSessions : \A i \in 1..Len(stored[s]) :
       stored[s][i].role # "block" /\ stored[s][i].turn \in 0..Len(turns)

LastLine(blocks, i) ==
  i \in 1..Len(blocks) /\ blocks[i].role = "user" /\ \A j \in i+1..Len(blocks) : blocks[j].role # "user"
Shows(blocks, m) == \E i \in 1..Len(blocks) : blocks[i] = m

\* The turn of the user's that is under way and that nothing crossed: the screen is its own.
Own(t) == turns[t].kind = "user" /\ Alive(t) /\ ~turns[t].crossed
Displayed(t) ==
  /\ ui.session = turns[t].session /\ ~Marked(t)
  /\ \E i \in 1..Len(shown) : LastLine(shown, i)
  /\ TurnInterrupted <=> turns[t].esc
  /\ ui.escPending => turns[t].esc
  /\ Shows(shown, Mark("interrupt", t)) => turns[t].esc
OwnShown == \A t \in Turns : Own(t) => Displayed(t)

TtState == TtTypeOK /\ OneTurn /\ Known /\ OwnShown /\ InterruptRecorded /\ InterruptIsLast
TtInductive == TtShape /\ Channel /\ TtState

-----------------------------------------------------------------------------
(* Sequences, marks, and the turn an Esc is meant for.                     *)

LEMMA Appended ==
  ASSUME NEW S, NEW s \in Seq(S), NEW e \in S
  PROVE  /\ Append(s, e) \in Seq(S) /\ Len(Append(s, e)) = Len(s) + 1 /\ Append(s, e)[Len(s) + 1] = e
         /\ \A i \in 1..Len(s) : Append(s, e)[i] = s[i]
  OBVIOUS

LEMMA Tailed ==
  ASSUME NEW S, NEW s \in Seq(S), s # <<>>
  PROVE  /\ Tail(s) \in Seq(S) /\ Len(Tail(s)) = Len(s) - 1 /\ Head(s) = s[1] /\ 1 \in 1..Len(s)
         /\ \A i \in 1..Len(s) - 1 : Tail(s)[i] = s[i + 1]
  OBVIOUS

LEMMA Replaced ==
  ASSUME NEW S, NEW s \in Seq(S), NEW i \in 1..Len(s), NEW e \in S
  PROVE  [s EXCEPT ![i] = e] \in Seq(S)
  OBVIOUS

LEMMA MarkFacts ==
  ASSUME NEW role \in {"user", "interrupt", "block"}, NEW t \in Nat
  PROVE  Mark(role, t) \in MarkSet /\ Mark(role, t).role = role /\ Mark(role, t).turn = t
  BY DEF Mark, MarkSet

\* A user line opens a part of the chat that no interruption closes yet.
LEMMA UserLine ==
  ASSUME NEW b \in Seq(MarkSet), NEW t \in Nat
  PROVE  /\ ~Interrupted(Append(b, Mark("user", t)))
         /\ \E i \in 1..Len(Append(b, Mark("user", t))) : LastLine(Append(b, Mark("user", t)), i)
<1> DEFINE c == Append(b, Mark("user", t))
<1>1. /\ c \in Seq(MarkSet) /\ Len(c) = Len(b) + 1 /\ c[Len(b) + 1].role = "user"
      /\ Len(b) \in Nat
  BY Appended, MarkFacts
<1> HIDE DEF c
<1>2. LastLine(c, Len(c))
  BY <1>1 DEF LastLine
<1>3. \A i \in 1..Len(c) : c[i].role = "user" /\ (\A j \in i+1..Len(c) : c[j].role # "user") => i = Len(c)
  BY <1>1
<1>4. ~Interrupted(c)
  BY <1>1, <1>3 DEF Interrupted
<1>5. \E i \in 1..Len(c) : LastLine(c, i)
  BY <1>1, <1>2
<1> QED
  BY <1>4, <1>5 DEF c

\* What is not a user line leaves the last user line where it is.
LEMMA OtherLine ==
  ASSUME NEW b \in Seq(MarkSet), NEW t \in Nat, NEW role \in {"interrupt", "block"}
  PROVE  LET c == Append(b, Mark(role, t)) IN
         /\ \A i \in Nat : LastLine(c, i) <=> LastLine(b, i)
         /\ role = "block" => (Interrupted(c) <=> Interrupted(b))
         /\ role = "interrupt" /\ (\E i \in 1..Len(b) : LastLine(b, i)) => Interrupted(c)
<1> DEFINE c == Append(b, Mark(role, t))
<1>1. /\ c \in Seq(MarkSet) /\ Len(c) = Len(b) + 1 /\ c[Len(b) + 1].role = role
      /\ Len(b) \in Nat /\ \A i \in 1..Len(b) : c[i] = b[i]
  BY Appended, MarkFacts
<1> HIDE DEF c
<1>2. ASSUME NEW i \in Nat PROVE LastLine(c, i) <=> LastLine(b, i)
  <2>1. ASSUME LastLine(c, i) PROVE LastLine(b, i)
    BY <1>1, <2>1 DEF LastLine
  <2>2. ASSUME LastLine(b, i) PROVE LastLine(c, i)
    <3>1. \A j \in i+1..Len(c) : j \in i+1..Len(b) \/ j = Len(b) + 1
      BY <1>1
    <3>2. i \in 1..Len(c) /\ c[i].role = "user"
      BY <1>1, <2>2 DEF LastLine
    <3>3. \A j \in i+1..Len(b) : j \in 1..Len(b)
      BY <1>1
    <3> QED
      BY <1>1, <2>2, <3>1, <3>2, <3>3 DEF LastLine
  <2> QED
    BY <2>1, <2>2
<1>3. \A d \in {b, c} : Interrupted(d) <=>
        \E i \in 1..Len(d) : LastLine(d, i) /\ \E j \in i+1..Len(d) : d[j].role = "interrupt"
  BY Zenon DEF Interrupted, LastLine
<1>4. ASSUME role = "block" PROVE Interrupted(c) <=> Interrupted(b)
  <2>1. ASSUME Interrupted(c) PROVE Interrupted(b)
    <3>1. PICK i \in 1..Len(c) : LastLine(c, i) /\ \E j \in i+1..Len(c) : c[j].role = "interrupt"
      BY <1>3, <2>1
    <3>2. PICK j \in i+1..Len(c) : c[j].role = "interrupt"
      BY <3>1
    <3>3. LastLine(b, i)
      BY <1>2, <3>1, <1>1
    <3>4. j \in i+1..Len(b) /\ b[j].role = "interrupt"
      BY <1>1, <1>4, <3>2
    <3> QED
      BY <1>3, <3>3, <3>4 DEF LastLine
  <2>2. ASSUME Interrupted(b) PROVE Interrupted(c)
    <3>1. PICK i \in 1..Len(b) : LastLine(b, i) /\ \E j \in i+1..Len(b) : b[j].role = "interrupt"
      BY <1>3, <2>2
    <3>2. LastLine(c, i)
      BY <1>2, <3>1, <1>1
    <3>3. PICK j \in i+1..Len(b) : b[j].role = "interrupt"
      BY <3>1
    <3>4. j \in i+1..Len(c) /\ c[j].role = "interrupt"
      BY <1>1, <3>3
    <3> QED
      BY <1>3, <3>2, <3>4 DEF LastLine
  <2> QED
    BY <2>1, <2>2
<1>5. ASSUME role = "interrupt", \E i \in 1..Len(b) : LastLine(b, i) PROVE Interrupted(c)
  <2>1. PICK i \in 1..Len(b) : LastLine(b, i)
    BY <1>5
  <2>2. LastLine(c, i) /\ i \in 1..Len(c) /\ Len(c) \in i+1..Len(c) /\ c[Len(c)].role = "interrupt"
    BY <1>1, <1>2, <1>5, <2>1
  <2> QED
    BY <1>3, <2>2
<1> QED
  BY <1>2, <1>4, <1>5 DEF c

\* The naturals are ordered well: a set of them has a last bounded element.
LEMMA Lasts ==
  ASSUME NEW n \in Nat, NEW T, T \subseteq 1..n, T # {}
  PROVE  \E m \in T : \A k \in T : k <= m
<1> DEFINE LessThan == {p \in Nat \X Nat : p[1] < p[2]}
           D == {n - k : k \in T}
<1>1. IsWellFoundedOn(LessThan, Nat)
  BY ZenonT(20), NatLessThanWellFounded DEF OpToRel
<1>2. D \subseteq Nat /\ D # {}
  <2>1. \A k \in T : n - k \in Nat /\ n - k \in D
    OBVIOUS
  <2> QED
    BY <2>1
<1>3. PICK x \in D : \A y \in D : ~ (<<y, x>> \in LessThan)
  <2> HIDE DEF D, LessThan
  <2> QED
    BY <1>1, <1>2, WFMin
<1>4. PICK m \in T : x = n - m
  OBVIOUS
<1>5. ASSUME NEW k \in T PROVE k <= m
  <2>1. n - k \in D /\ n - k \in Nat /\ n - m \in Nat
    OBVIOUS
  <2>2. ~ (<<n - k, n - m>> \in LessThan)
    BY <1>3, <1>4, <2>1
  <2>3. ~ (n - k < n - m)
    BY <2>1, <2>2
  <2> QED
    BY <2>3
<1> QED
  BY <1>5

\* Esc means a turn that has not been reported done, if there is one.
LEMMA CurrentFacts ==
  ASSUME TtShape
  PROVE  /\ Current \in 0..Len(turns)
         /\ Current # NoTurn => Current \in Turns /\ Alive(Current)
         /\ \A t \in Turns : Alive(t) => Current # NoTurn
<1>1. Len(turns) \in Nat
  BY DEF TtShape
<1>2. CASE \E t \in Turns : Alive(t)
  <2> DEFINE T == {t \in Turns : Alive(t)}
  <2>1. PICK m \in T : \A k \in T : k <= m
    <3>1. T \subseteq 1..Len(turns) /\ T # {}
      BY <1>2 DEF Turns
    <3> HIDE DEF T
    <3> QED
      BY <1>1, <3>1, Lasts
  <2>2. m \in Turns /\ turns[m].phase # "gone"
    BY DEF Alive
  <2>3. \A s \in m+1..Len(turns) : turns[s].phase = "gone"
    <3> SUFFICES ASSUME NEW s \in m+1..Len(turns), turns[s].phase # "gone" PROVE FALSE
      OBVIOUS
    <3>1. s \in Turns /\ ~(s <= m)
      BY <1>1, <2>2 DEF Turns
    <3> QED
      BY <2>1, <3>1 DEF Alive
  <2>4. \E t \in Turns : turns[t].phase # "gone"
    BY <2>2
  <2>5. Current = CHOOSE t \in Turns : turns[t].phase # "gone" /\ \A s \in t+1..Len(turns) : turns[s].phase = "gone"
    BY <2>4, Zenon DEF Current
  <2>6. Current \in Turns /\ turns[Current].phase # "gone"
    BY <2>2, <2>3, <2>5, Zenon
  <2>7. Current \in 1..Len(turns) /\ Current # NoTurn
    BY <1>1, <2>6 DEF Turns, NoTurn
  <2> QED
    BY <1>1, <2>6, <2>7 DEF Alive
<1>3. CASE ~\E t \in Turns : Alive(t)
  <2>1. Current = NoTurn
    BY <1>3 DEF Current, Alive
  <2> QED
    BY <1>1, <1>3, <2>1 DEF NoTurn
<1> QED
  BY <1>2, <1>3

-----------------------------------------------------------------------------
(* The initial states, and the steps that change nothing of what is shown. *)

LEMMA TtInitHolds ==
  ASSUME TtInit
  PROVE  TtInductive
<1> DEFINE first == [kind |-> "history", sid |-> FirstSession, answer |-> ""]
<1>1. FirstSession \in ChatSessions /\ EventRoom \in Nat
  BY TuiTurnsAssumption DEF TuiTurnsAssumption
<1>2. first \in CmdSet
  BY <1>1 DEF CmdSet
<1>3. /\ ui = [running |-> FALSE, cancel |-> NoTurn, escPending |-> FALSE, overlay |-> FALSE, session |-> FirstSession]
      /\ shown = <<>> /\ turns = <<>> /\ events = <<>>
      /\ cmds = <<first>>
      /\ stored = [x \in ChatSessions |-> IF x = FirstSession THEN <<Mark("user", NoTurn), Mark("interrupt", NoTurn)>>
                                          ELSE <<Mark("user", NoTurn)>>]
  BY Zenon DEF TtInit
<1> HIDE DEF first
<1>4. /\ Mark("user", NoTurn) \in MarkSet /\ Mark("interrupt", NoTurn) \in MarkSet /\ NoTurn = 0
      /\ Mark("user", NoTurn).role = "user" /\ Mark("interrupt", NoTurn).role = "interrupt"
      /\ Mark("user", NoTurn).turn = 0 /\ Mark("interrupt", NoTurn).turn = 0
  BY MarkFacts DEF NoTurn
<1>5. TtShape
  <2>1. ui \in UiSet /\ shown \in Seq(MarkSet) /\ turns \in Seq(TurnSet) /\ events \in Seq(EventSet)
    BY <1>1, <1>3, <1>4 DEF UiSet
  <2>2. cmds \in Seq(CmdSet)
    BY <1>2, <1>3
  <2>3. stored \in [ChatSessions -> Seq(MarkSet)]
    BY <1>3, <1>4
  <2> QED
    BY <2>1, <2>2, <2>3 DEF TtShape
<1>6. Turns = {}
  BY <1>3 DEF Turns
<1>7. TtTypeOK
  BY <1>1, <1>3 DEF TtTypeOK
<1>8. OneTurn /\ OwnShown /\ InterruptRecorded /\ InterruptIsLast /\ Channel
  BY <1>3, <1>6 DEF OneTurn, OwnShown, InterruptRecorded, InterruptIsLast, Channel
<1>9. Known
  <2>1. ASSUME NEW s \in ChatSessions, NEW i \in 1..Len(stored[s])
        PROVE  stored[s][i].role # "block" /\ stored[s][i].turn \in 0..Len(turns)
    <3>1. stored[s] = <<Mark("user", NoTurn), Mark("interrupt", NoTurn)>> \/ stored[s] = <<Mark("user", NoTurn)>>
      BY <1>3
    <3>2. stored[s][i] = Mark("user", NoTurn) \/ stored[s][i] = Mark("interrupt", NoTurn)
      BY <3>1
    <3> QED
      BY <1>3, <1>4, <3>2
  <2> QED
    BY <1>3, <2>1 DEF Known
<1> QED
  BY <1>5, <1>7, <1>8, <1>9 DEF TtInductive, TtState

\* A goroutine that is under way stays so.
PhasesKept ==
  /\ Turns \subseteq Turns'
  /\ \A t \in Turns :
       /\ turns[t].phase \in UnderWay => turns'[t].phase \in UnderWay
       /\ turns[t].phase = "sent" => turns'[t].phase = "sent"
SameTurns ==
  /\ Len(turns') = Len(turns)
  /\ \A t \in Turns :
       /\ turns'[t].kind = turns[t].kind /\ turns'[t].session = turns[t].session
       /\ turns'[t].esc = turns[t].esc /\ turns'[t].crossed = turns[t].crossed
       /\ turns'[t].phase = "gone" <=> turns[t].phase = "gone"
SameMarks ==
  \A s \in ChatSessions :
    stored'[s] = stored[s] \/ \E t \in Turns : stored'[s] = Append(stored[s], Mark("user", t))
SameUi ==
  /\ ui'.running = ui.running /\ ui'.cancel = ui.cancel /\ ui'.escPending = ui.escPending
  /\ ui'.session = ui.session
Quiet == SameTurns /\ PhasesKept /\ SameMarks /\ SameUi /\ shown' = shown

LEMMA TurnFields ==
  ASSUME TtShape, NEW t \in Turns
  PROVE  /\ turns[t] \in TurnSet /\ turns[t].session \in ChatSessions /\ t \in Nat /\ t # NoTurn
         /\ turns[t].esc \in BOOLEAN /\ turns[t].crossed \in BOOLEAN
<1>1. turns \in Seq(TurnSet) /\ t \in 1..Len(turns)
  BY DEF TtShape, Turns
<1>2. turns[t] \in TurnSet /\ t \in Nat /\ t # NoTurn
  BY <1>1 DEF NoTurn
<1> QED
  BY <1>2 DEF TurnSet

LEMMA QuietState ==
  ASSUME TtShape, TtShape', TtState, Quiet, Len(events') <= EventRoom
  PROVE  TtState'
<1>1. Turns' = Turns
  BY DEF Quiet, SameTurns, Turns
<1>2. \A t \in Turns : /\ Alive(t)' <=> Alive(t)
                       /\ turns'[t].kind = turns[t].kind /\ turns'[t].session = turns[t].session
                       /\ turns'[t].esc = turns[t].esc /\ turns'[t].crossed = turns[t].crossed
  BY DEF Quiet, SameTurns, Alive
<1>3. ASSUME NEW t \in Turns PROVE Marked(t)' <=> Marked(t)
  <2> DEFINE s == turns[t].session
  <2>1. s \in ChatSessions /\ t \in Nat
    BY TurnFields
  <2>2. turns'[t].session = s
    BY <1>2
  <2>3. stored[s] \in Seq(MarkSet)
    BY <2>1 DEF TtShape
  <2>4. CASE stored'[s] = stored[s]
    BY <2>2, <2>4 DEF Marked
  <2>5. ASSUME NEW u \in Turns, stored'[s] = Append(stored[s], Mark("user", u)) PROVE Marked(t)' <=> Marked(t)
    <3>1. /\ u \in Nat /\ Mark("user", u) \in MarkSet
          /\ Mark("user", u).role = "user" /\ Mark("interrupt", t).role = "interrupt"
      BY <2>1, MarkFacts, TurnFields
    <3>2. /\ Len(stored'[s]) = Len(stored[s]) + 1 /\ stored'[s][Len(stored[s]) + 1] = Mark("user", u)
          /\ \A i \in 1..Len(stored[s]) : stored'[s][i] = stored[s][i]
      BY <2>3, <2>5, <3>1, Appended
    <3>3. Mark("user", u) # Mark("interrupt", t)
      BY <3>1
    <3>4. Len(stored[s]) \in Nat
      BY <2>3
    <3>5. (\E i \in 1..Len(stored'[s]) : stored'[s][i] = Mark("interrupt", t)) <=>
          (\E i \in 1..Len(stored[s]) : stored[s][i] = Mark("interrupt", t))
      <4> DEFINE m == Mark("interrupt", t)
                 old == stored[s]
                 new == stored'[s]
      <4>1. /\ Len(new) = Len(old) + 1 /\ new[Len(old) + 1] # m /\ Len(old) \in Nat
            /\ \A i \in 1..Len(old) : new[i] = old[i]
        BY <3>2, <3>3, <3>4
      <4> HIDE DEF m, old, new
      <4>2. (\E i \in 1..Len(new) : new[i] = m) <=> (\E i \in 1..Len(old) : old[i] = m)
        BY <4>1
      <4> QED
        BY <4>2 DEF m, old, new
    <3> QED
      BY <2>2, <3>5 DEF Marked, Mark
  <2> QED
    BY <2>1, <2>4, <2>5 DEF Quiet, SameMarks
<1>4. TtTypeOK'
  <2>1. ui'.session \in ChatSessions /\ ui'.cancel \in {NoTurn} \cup Turns
    BY DEF Quiet, SameUi, TtState, TtTypeOK
  <2>2. ui'.escPending => ui'.cancel = NoTurn /\ ui'.running
    BY DEF Quiet, SameUi, TtState, TtTypeOK
  <2>3. ui'.cancel # NoTurn => turns'[ui'.cancel].phase \in UnderWay
    <3> SUFFICES ASSUME ui'.cancel # NoTurn PROVE turns'[ui'.cancel].phase \in UnderWay
      OBVIOUS
    <3>1. ui'.cancel = ui.cancel
      BY DEF Quiet, SameUi
    <3>2. ui.cancel \in Turns /\ turns[ui.cancel].phase \in UnderWay
      BY <3>1 DEF TtState, TtTypeOK, UnderWay
    <3> QED
      BY <3>1, <3>2 DEF Quiet, PhasesKept
  <2> QED
    BY <1>1, <2>1, <2>2, <2>3 DEF TtTypeOK, UnderWay
<1>5. OneTurn'
  BY <1>1, <1>2 DEF TtState, OneTurn, Quiet, SameUi
<1>6. Known'
  <2>1. Len(turns') = Len(turns) /\ shown' = shown
    BY DEF Quiet, SameTurns
  <2>2. ASSUME NEW s \in ChatSessions, NEW i \in 1..Len(stored'[s])
        PROVE  stored'[s][i].role # "block" /\ stored'[s][i].turn \in 0..Len(turns)
    <3>1. CASE stored'[s] = stored[s]
      BY <2>2, <3>1 DEF TtState, Known
    <3>2. ASSUME NEW u \in Turns, stored'[s] = Append(stored[s], Mark("user", u))
          PROVE  stored'[s][i].role # "block" /\ stored'[s][i].turn \in 0..Len(turns)
      <4>1. /\ u \in Nat /\ u \in 0..Len(turns) /\ Mark("user", u) \in MarkSet
            /\ Mark("user", u).role = "user" /\ Mark("user", u).turn = u
        BY MarkFacts, TurnFields DEF Turns, TtShape
      <4>2. stored[s] \in Seq(MarkSet)
        BY DEF TtShape
      <4>3. \/ i \in 1..Len(stored[s]) /\ stored'[s][i] = stored[s][i]
            \/ stored'[s][i] = Mark("user", u)
        BY <2>2, <3>2, <4>1, <4>2, Appended
      <4> QED
        BY <4>1, <4>3 DEF TtState, Known
    <3> QED
      BY <3>1, <3>2 DEF Quiet, SameMarks
  <2> QED
    BY <2>1, <2>2 DEF TtState, Known
<1>7. OwnShown'
  <2> SUFFICES ASSUME NEW t \in Turns, Own(t)' PROVE Displayed(t)'
    BY <1>1 DEF OwnShown
  <2>1. Own(t)
    BY <1>2 DEF Own
  <2>2. Displayed(t)
    BY <2>1 DEF TtState, OwnShown
  <2>3. shown' = shown /\ ui'.session = ui.session /\ ui'.escPending = ui.escPending
    BY DEF Quiet, SameUi
  <2>4. TurnInterrupted' <=> TurnInterrupted
    BY <2>3 DEF TurnInterrupted
  <2>5. turns'[t].session = turns[t].session /\ turns'[t].esc = turns[t].esc
    BY <1>2
  <2>6. ui'.session = turns'[t].session /\ ~Marked(t)'
    BY <1>3, <2>2, <2>3, <2>5 DEF Displayed
  <2>7. \E i \in 1..Len(shown') : LastLine(shown', i)
    BY <2>2, <2>3 DEF Displayed
  <2>8. (TurnInterrupted' <=> turns'[t].esc) /\ (ui'.escPending => turns'[t].esc)
    BY <2>2, <2>3, <2>4, <2>5 DEF Displayed
  <2>9. Shows(shown', Mark("interrupt", t)) => turns'[t].esc
    BY <2>2, <2>3, <2>5 DEF Displayed
  <2> QED
    BY <2>6, <2>7, <2>8, <2>9 DEF Displayed, Mark
<1>8. InterruptRecorded'
  BY <1>1, <1>2, <1>3 DEF TtState, InterruptRecorded
<1>9. InterruptIsLast'
  <2>1. shown' = shown
    BY DEF Quiet
  <2> QED
    BY <1>1, <1>2, <2>1 DEF TtState, InterruptIsLast, Mark
<1> QED
  BY <1>4, <1>5, <1>6, <1>7, <1>8, <1>9 DEF TtState

-----------------------------------------------------------------------------
(* The channel.                                                            *)

LEMMA EventFields ==
  ASSUME TtShape, NEW i \in 1..Len(events)
  PROVE  events[i] \in EventSet /\ events[i].turn \in Nat /\ i \in Nat /\ Len(events) \in Nat
<1>1. events \in Seq(EventSet)
  BY DEF TtShape
<1>2. events[i] \in EventSet /\ i \in Nat /\ Len(events) \in Nat
  BY <1>1
<1> QED
  BY <1>2 DEF EventSet

LEMMA ChannelStays ==
  ASSUME TtShape, Channel, PhasesKept, events' = events
  PROVE  Channel'
<1> SUFFICES ASSUME NEW i \in 1..Len(events)
             PROVE  \/ events[i].what = "complete" /\ events[i].turn = NoTurn
                    \/ /\ events[i].what # "complete" /\ events[i].turn \in Turns'
                       /\ turns'[events[i].turn].phase \in UnderWay
                       /\ events[i].what = "done" =>
                            /\ turns'[events[i].turn].phase = "sent"
                            /\ \A j \in i+1..Len(events) : events[j].turn # events[i].turn
  BY DEF Channel
<1> DEFINE t == events[i].turn
<1>1. CASE events[i].what = "complete" /\ t = NoTurn
  BY <1>1
<1>2. CASE ~(events[i].what = "complete" /\ t = NoTurn)
  <2>1. /\ events[i].what # "complete" /\ t \in Turns /\ turns[t].phase \in UnderWay
        /\ events[i].what = "done" =>
             /\ turns[t].phase = "sent"
             /\ \A j \in i+1..Len(events) : events[j].turn # t
    BY <1>2 DEF Channel
  <2> HIDE DEF t
  <2>2. /\ t \in Turns' /\ turns'[t].phase \in UnderWay
        /\ turns[t].phase = "sent" => turns'[t].phase = "sent"
    BY <2>1 DEF PhasesKept
  <2> QED
    BY <2>1, <2>2 DEF t
<1> QED
  BY <1>1, <1>2

\* A goroutine whose end is not in the channel sends.
Sendable(e) ==
  \/ e.what = "complete" /\ e.turn = NoTurn
  \/ /\ e.what # "complete" /\ e.turn \in Turns /\ turns[e.turn].phase # "sent"
     /\ turns'[e.turn].phase \in UnderWay /\ (e.what = "done" => turns'[e.turn].phase = "sent")
Sends == \E e \in EventSet : Sendable(e) /\ events' = Append(events, e)

LEMMA ChannelGrows ==
  ASSUME TtShape, Channel, PhasesKept, Sends
  PROVE  Channel'
<1>1. PICK e \in EventSet : Sendable(e) /\ events' = Append(events, e)
  BY DEF Sends
<1>2. events \in Seq(EventSet)
  BY DEF TtShape
<1>3. /\ Len(events') = Len(events) + 1 /\ events'[Len(events) + 1] = e /\ Len(events) \in Nat
      /\ \A i \in 1..Len(events) : events'[i] = events[i]
  BY <1>1, <1>2, Appended
<1> SUFFICES ASSUME NEW i \in 1..Len(events')
             PROVE  \/ events'[i].what = "complete" /\ events'[i].turn = NoTurn
                    \/ /\ events'[i].what # "complete" /\ events'[i].turn \in Turns'
                       /\ turns'[events'[i].turn].phase \in UnderWay
                       /\ events'[i].what = "done" =>
                            /\ turns'[events'[i].turn].phase = "sent"
                            /\ \A j \in i+1..Len(events') : events'[j].turn # events'[i].turn
  BY DEF Channel
<1>4. CASE i = Len(events) + 1
  <2>1. events'[i] = e /\ i+1..Len(events') = {}
    BY <1>3, <1>4
  <2> QED
    BY <1>1, <2>1 DEF Sendable, PhasesKept
<1>5. CASE i \in 1..Len(events)
  <2>1. events'[i] = events[i]
    BY <1>3, <1>5
  <2>2. \/ events[i].what = "complete" /\ events[i].turn = NoTurn
        \/ /\ events[i].what # "complete" /\ events[i].turn \in Turns
           /\ turns[events[i].turn].phase \in UnderWay
           /\ events[i].what = "done" =>
                /\ turns[events[i].turn].phase = "sent"
                /\ \A j \in i+1..Len(events) : events[j].turn # events[i].turn
    BY <1>5 DEF Channel
  <2>3. ASSUME events[i].what = "done", events[i].turn \in Turns, turns[events[i].turn].phase = "sent",
               \A j \in i+1..Len(events) : events[j].turn # events[i].turn,
               NEW j \in i+1..Len(events')
        PROVE  events'[j].turn # events'[i].turn
    <3>1. j \in i+1..Len(events) \/ j = Len(events) + 1
      BY <1>3, <1>5
    <3>2. CASE j = Len(events) + 1
      <4>1. events'[j] = e
        BY <1>3, <3>2
      <4>2. events[i].turn \in Nat /\ events[i].turn # NoTurn
        BY <2>3, TurnFields
      <4> QED
        BY <1>1, <2>1, <2>3, <4>1, <4>2 DEF Sendable
    <3>3. CASE j \in i+1..Len(events)
      <4>1. events'[j] = events[j]
        BY <1>3, <1>5, <3>3
      <4> QED
        BY <2>1, <2>3, <3>3, <4>1
    <3> QED
      BY <3>1, <3>2, <3>3
  <2>4. ASSUME events[i].turn \in Turns, turns[events[i].turn].phase \in UnderWay
        PROVE  /\ events[i].turn \in Turns' /\ turns'[events[i].turn].phase \in UnderWay
               /\ turns[events[i].turn].phase = "sent" => turns'[events[i].turn].phase = "sent"
    BY <2>4 DEF PhasesKept
  <2>5. CASE events[i].what = "complete" /\ events[i].turn = NoTurn
    BY <2>1, <2>5
  <2>6. CASE ~(events[i].what = "complete" /\ events[i].turn = NoTurn)
    <3>1. /\ events[i].what # "complete" /\ events[i].turn \in Turns /\ turns[events[i].turn].phase \in UnderWay
          /\ events[i].what = "done" => turns[events[i].turn].phase = "sent"
      BY <2>2, <2>6
    <3>2. events'[i].what = "done" => \A j \in i+1..Len(events') : events'[j].turn # events'[i].turn
      BY <2>1, <2>2, <2>3, <2>6
    <3> QED
      BY <2>1, <2>4, <3>1, <3>2
  <2> QED
    BY <2>5, <2>6
<1> QED
  BY <1>3, <1>4, <1>5

\* The loop takes the event at the head; a turn whose end it takes may be gone then.
Takes ==
  /\ events # <<>> /\ events' = Tail(events)
  /\ Turns \subseteq Turns'
  /\ \A t \in Turns :
       \/ /\ turns[t].phase \in UnderWay => turns'[t].phase \in UnderWay
          /\ turns[t].phase = "sent" => turns'[t].phase = "sent"
       \/ Head(events).what = "done" /\ Head(events).turn = t

LEMMA ChannelTails ==
  ASSUME TtShape, Channel, Takes
  PROVE  Channel'
<1>1. events \in Seq(EventSet) /\ events # <<>>
  BY DEF TtShape, Takes
<1>2. /\ Len(events') = Len(events) - 1 /\ Len(events) \in Nat /\ Head(events) = events[1] /\ 1 \in 1..Len(events)
      /\ \A i \in 1..Len(events) - 1 : events'[i] = events[i + 1]
  BY <1>1, Tailed DEF Takes
<1> SUFFICES ASSUME NEW i \in 1..Len(events')
             PROVE  \/ events'[i].what = "complete" /\ events'[i].turn = NoTurn
                    \/ /\ events'[i].what # "complete" /\ events'[i].turn \in Turns'
                       /\ turns'[events'[i].turn].phase \in UnderWay
                       /\ events'[i].what = "done" =>
                            /\ turns'[events'[i].turn].phase = "sent"
                            /\ \A j \in i+1..Len(events') : events'[j].turn # events'[i].turn
  BY DEF Channel
<1> DEFINE k == i + 1
<1>3. k \in 1..Len(events) /\ events'[i] = events[k] /\ k \in 2..Len(events)
  BY <1>2
<1>4. \/ events[k].what = "complete" /\ events[k].turn = NoTurn
      \/ /\ events[k].what # "complete" /\ events[k].turn \in Turns
         /\ turns[events[k].turn].phase \in UnderWay
         /\ events[k].what = "done" =>
              /\ turns[events[k].turn].phase = "sent"
              /\ \A j \in k+1..Len(events) : events[j].turn # events[k].turn
  BY <1>3 DEF Channel
<1>5. ASSUME Head(events).what = "done" PROVE Head(events).turn # events[k].turn
  <2>1. events[1].what = "done" /\ k \in 1+1..Len(events)
    BY <1>2, <1>3, <1>5
  <2>2. \A j \in 1+1..Len(events) : events[j].turn # events[1].turn
    BY <1>2, <2>1 DEF Channel
  <2> QED
    BY <1>2, <2>1, <2>2
<1>6. ASSUME \A j \in k+1..Len(events) : events[j].turn # events[k].turn,
             NEW j \in i+1..Len(events')
      PROVE  events'[j].turn # events'[i].turn
  <2>1. j + 1 \in k+1..Len(events) /\ events'[j] = events[j + 1]
    BY <1>2, <1>3
  <2> QED
    BY <1>3, <1>6, <2>1
<1> HIDE DEF k
<1> QED
  BY <1>3, <1>4, <1>5, <1>6 DEF Takes

-----------------------------------------------------------------------------
(* The steps of the goroutines, and those that touch the overlay only.     *)

LEMMA CmdFields ==
  ASSUME TtShape, NEW i \in 1..Len(cmds)
  PROVE  /\ cmds[i] \in CmdSet /\ cmds[i].sid \in ChatSessions
         /\ \A a \in {"", "ok", "error", "taken"} : [cmds EXCEPT ![i].answer = a] \in Seq(CmdSet)
<1>1. cmds \in Seq(CmdSet)
  BY DEF TtShape
<1>2. cmds[i] \in CmdSet
  BY <1>1
<1>3. ASSUME NEW a \in {"", "ok", "error", "taken"} PROVE [cmds EXCEPT ![i].answer = a] \in Seq(CmdSet)
  <2> DEFINE c == [cmds[i] EXCEPT !.answer = a]
  <2>1. c \in CmdSet
    BY <1>2 DEF CmdSet
  <2>2. \A r \in CmdSet : [cmds EXCEPT ![i] = r] \in Seq(CmdSet)
    BY <1>1, Replaced
  <2> QED
    BY <2>1, <2>2
<1> QED
  BY <1>2, <1>3 DEF CmdSet

\* Nothing but the overlay, the commands and the channel changes.
Overlaid ==
  /\ ui' = ui \/ \E b \in BOOLEAN : ui' = [ui EXCEPT !.overlay = b]
  /\ shown' = shown /\ turns' = turns /\ stored' = stored

LEMMA OverlaidHolds ==
  ASSUME TtInductive, Overlaid, cmds' \in Seq(CmdSet), events' = events
  PROVE  TtInductive'
<1>1. TtShape /\ Channel /\ TtState
  BY DEF TtInductive
<1>2. ui' \in UiSet /\ SameUi
  BY <1>1 DEF TtShape, UiSet, Overlaid, SameUi
<1>3. TtShape'
  BY <1>1, <1>2 DEF TtShape, Overlaid
<1>4. Quiet
  <2>1. Turns' = Turns
    BY DEF Overlaid, Turns
  <2> QED
    BY <1>2, <2>1 DEF Quiet, Overlaid, SameTurns, PhasesKept, SameMarks
<1>5. Len(events') <= EventRoom
  BY <1>1 DEF TtState, TtTypeOK
<1>6. Channel'
  BY <1>1, <1>4, ChannelStays DEF Quiet
<1> QED
  BY <1>1, <1>3, <1>4, <1>5, <1>6, QuietState DEF TtInductive

LEMMA CloseOverlayHolds ==
  ASSUME TtInductive, CloseOverlay
  PROVE  TtInductive'
<1>1. Overlaid /\ events' = events
  BY DEF CloseOverlay, Overlaid
<1>2. cmds' \in Seq(CmdSet)
  BY DEF CloseOverlay, TtInductive, TtShape
<1> QED
  BY <1>1, <1>2, OverlaidHolds

\* A command joins those there were.
LEMMA IssueHolds ==
  ASSUME TtInductive, RunSlash \/ ResumeSession \/ ShowContext
  PROVE  TtInductive'
<1>1. Overlaid /\ events' = events
  BY DEF RunSlash, ResumeSession, ShowContext, Overlaid
<1>2. \E kind \in {"slash", "resume", "context"}, sid \in ChatSessions : Issue(kind, sid)
  <2>1. ui.session \in ChatSessions
    BY DEF TtInductive, TtState, TtTypeOK
  <2> QED
    BY <2>1 DEF RunSlash, ResumeSession, ShowContext
<1>3. PICK kind \in {"slash", "resume", "context"}, sid \in ChatSessions : Issue(kind, sid)
  BY <1>2
<1> DEFINE c == [kind |-> kind, sid |-> sid, answer |-> ""]
<1>4. c \in CmdSet
  BY DEF CmdSet
<1>5. cmds' = Append(cmds, c)
  BY <1>3 DEF Issue
<1>6. cmds' \in Seq(CmdSet)
  <2> HIDE DEF c
  <2> QED
    BY <1>4, <1>5, Appended DEF TtInductive, TtShape
<1> QED
  BY <1>1, <1>6, OverlaidHolds

LEMMA BackgroundHolds ==
  ASSUME TtInductive, BackgroundComplete
  PROVE  TtInductive'
<1> DEFINE e == [what |-> "complete", turn |-> NoTurn]
<1>1. TtShape /\ Channel /\ TtState
  BY DEF TtInductive
<1>2. e \in EventSet /\ Sendable(e)
  BY DEF EventSet, Sendable, NoTurn
<1>3. events' = Append(events, e) /\ Len(events) < EventRoom
  BY DEF BackgroundComplete, SendCritical, ChannelRoom
<1> HIDE DEF e
<1>4. Quiet
  <2>1. ui' = ui /\ shown' = shown /\ turns' = turns /\ stored' = stored
    BY DEF BackgroundComplete
  <2>2. Turns' = Turns
    BY <2>1 DEF Turns
  <2> QED
    BY <2>1, <2>2 DEF Quiet, SameTurns, PhasesKept, SameMarks, SameUi
<1>5. events' \in Seq(EventSet) /\ Len(events') <= EventRoom
  <2>1. events \in Seq(EventSet) /\ EventRoom \in Nat
    BY <1>1, TuiTurnsAssumption DEF TtShape, TuiTurnsAssumption
  <2> QED
    BY <1>2, <1>3, <2>1, Appended
<1>6. TtShape'
  BY <1>1, <1>5 DEF TtShape, BackgroundComplete
<1>7. Channel'
  BY <1>1, <1>2, <1>3, <1>4, ChannelGrows DEF Sends, Quiet
<1> QED
  BY <1>1, <1>4, <1>5, <1>6, <1>7, QuietState DEF TtInductive

\* The record of one turn changes.
LEMMA TurnChanged ==
  ASSUME TtShape, NEW t \in Turns, NEW r \in TurnSet, turns' = [turns EXCEPT ![t] = r]
  PROVE  /\ turns' \in Seq(TurnSet) /\ Len(turns') = Len(turns) /\ Turns' = Turns
         /\ turns'[t] = r /\ \A s \in Turns \ {t} : turns'[s] = turns[s]
<1>1. turns \in Seq(TurnSet) /\ t \in 1..Len(turns)
  BY DEF TtShape, Turns
<1>2. turns' \in Seq(TurnSet) /\ Len(turns') = Len(turns)
  BY <1>1
<1> QED
  BY <1>1, <1>2 DEF Turns

\* A step of the goroutine of t: its phase, and a block more.
Runs(t, from, to) ==
  /\ turns[t].phase = from
  /\ \E n \in Nat : turns' = [turns EXCEPT ![t] = [turns[t] EXCEPT !.phase = to, !.blocks = n]]

LEMMA RunsFacts ==
  ASSUME TtShape, NEW t \in Turns,
         \/ Runs(t, "new", "run") \/ Runs(t, "run", "run") \/ Runs(t, "run", "returned")
         \/ Runs(t, "returned", "sent")
  PROVE  turns' \in Seq(TurnSet) /\ SameTurns /\ PhasesKept /\ Turns' = Turns
<1>1. turns[t] \in TurnSet
  BY TurnFields
<1>2. PICK n \in Nat, from \in {"new", "run", "returned"}, to \in {"run", "returned", "sent"} :
        turns[t].phase = from /\ turns' = [turns EXCEPT ![t] = [turns[t] EXCEPT !.phase = to, !.blocks = n]]
  BY DEF Runs
<1> DEFINE r == [turns[t] EXCEPT !.phase = to, !.blocks = n]
<1>3. /\ r \in TurnSet /\ r.phase = to /\ r.kind = turns[t].kind /\ r.session = turns[t].session
      /\ r.esc = turns[t].esc /\ r.crossed = turns[t].crossed
  BY <1>1 DEF TurnSet
<1>4. turns' = [turns EXCEPT ![t] = r]
  BY <1>2
<1> HIDE DEF r
<1>5. /\ turns' \in Seq(TurnSet) /\ Len(turns') = Len(turns) /\ Turns' = Turns
      /\ turns'[t] = r /\ \A s \in Turns \ {t} : turns'[s] = turns[s]
  BY <1>3, <1>4, TurnChanged
<1>6. SameTurns
  BY <1>2, <1>3, <1>5 DEF SameTurns
<1>7. PhasesKept
  BY <1>2, <1>3, <1>5 DEF PhasesKept, UnderWay
<1> QED
  BY <1>5, <1>6, <1>7

LEMMA GoroutineHolds ==
  ASSUME TtInductive, NEW t \in Turns, RunAsync(t) \/ RunTurn(t) \/ TurnReturns(t) \/ SendDone(t)
  PROVE  TtInductive'
<1>1. TtShape /\ Channel /\ TtState /\ turns[t] \in TurnSet /\ t \in Nat /\ t # NoTurn
  BY TurnFields DEF TtInductive
<1>2. \/ Runs(t, "new", "run") \/ Runs(t, "run", "run") \/ Runs(t, "run", "returned")
      \/ Runs(t, "returned", "sent")
  <2>1. turns[t].blocks \in Nat
    BY <1>1 DEF TurnSet
  <2>2. \A p \in {"run", "returned", "sent"} :
          [turns EXCEPT ![t].phase = p] = [turns EXCEPT ![t] = [turns[t] EXCEPT !.phase = p, !.blocks = turns[t].blocks]]
    BY <1>1 DEF TurnSet
  <2>3. CASE RunAsync(t)
    BY <2>1, <2>2, <2>3 DEF RunAsync, Runs
  <2>4. CASE RunTurn(t)
    <3>1. [turns EXCEPT ![t].blocks = @ + 1]
            = [turns EXCEPT ![t] = [turns[t] EXCEPT !.phase = "run", !.blocks = turns[t].blocks + 1]]
      BY <1>1, <2>4 DEF TurnSet, RunTurn
    <3>2. turns[t].phase = "run" /\ turns' = [turns EXCEPT ![t].blocks = @ + 1] /\ turns[t].blocks + 1 \in Nat
      BY <2>1, <2>4 DEF RunTurn
    <3> QED
      BY <3>1, <3>2, Zenon DEF Runs
  <2>5. CASE TurnReturns(t)
    BY <2>1, <2>2, <2>5 DEF TurnReturns, Runs
  <2>6. CASE SendDone(t)
    BY <2>1, <2>2, <2>6 DEF SendDone, Runs
  <2> QED
    BY <2>3, <2>4, <2>5, <2>6
<1>3. turns' \in Seq(TurnSet) /\ SameTurns /\ PhasesKept /\ Turns' = Turns
  BY <1>1, <1>2, RunsFacts
<1>4. ui' = ui /\ shown' = shown /\ cmds' = cmds
  BY DEF RunAsync, RunTurn, TurnReturns, SendDone
<1>5. SameMarks /\ stored' \in [ChatSessions -> Seq(MarkSet)]
  <2>1. Mark("user", t) \in MarkSet
    BY <1>1, MarkFacts
  <2>2. stored \in [ChatSessions -> Seq(MarkSet)] /\ turns[t].session \in ChatSessions
    BY <1>1, TurnFields DEF TtShape
  <2>3. CASE stored' = stored
    BY <2>2, <2>3 DEF SameMarks
  <2>4. CASE stored' = [stored EXCEPT ![turns[t].session] = Append(@, Mark("user", t))]
    <3> DEFINE m == Mark("user", t)
    <3> HIDE DEF m
    <3>1. stored' = [stored EXCEPT ![turns[t].session] = Append(stored[turns[t].session], m)]
      BY <2>4 DEF m
    <3>2. stored' \in [ChatSessions -> Seq(MarkSet)]
      BY <2>1, <2>2, <3>1, Appended DEF m
    <3>3. \A s \in ChatSessions : stored'[s] = stored[s] \/ stored'[s] = Append(stored[s], m)
      BY <2>2, <3>1
    <3> QED
      BY <3>2, <3>3 DEF SameMarks, m
  <2> QED
    BY <2>3, <2>4 DEF RunAsync, RunTurn, TurnReturns, SendDone
<1>6. Quiet
  BY <1>3, <1>4, <1>5 DEF Quiet, SameUi
<1>7. events' = events \/ (Sends /\ Len(events) < EventRoom)
  <2>1. \A what \in {"started", "block", "done"} :
          /\ [what |-> what, turn |-> t] \in EventSet /\ [what |-> what, turn |-> t].what = what
          /\ [what |-> what, turn |-> t].turn = t
    BY <1>1 DEF EventSet
  <2>2. CASE RunAsync(t)
    <3>1. turns[t].phase = "new" /\ turns'[t].phase = "run" /\ Len(events) < EventRoom
      BY <1>1, <2>2 DEF RunAsync, SendCritical, ChannelRoom, TtShape, Turns
    <3>2. events' = Append(events, [what |-> "started", turn |-> t])
      BY <2>2 DEF RunAsync, SendCritical
    <3>3. Sendable([what |-> "started", turn |-> t])
      BY <2>1, <3>1 DEF Sendable, UnderWay
    <3> QED
      BY <2>1, <3>1, <3>2, <3>3 DEF Sends
  <2>3. CASE RunTurn(t)
    <3>1. turns[t].phase = "run" /\ turns'[t].phase = "run"
      BY <1>1, <2>3 DEF RunTurn, TtShape, Turns
    <3>2. events' = events \/ (events' = Append(events, [what |-> "block", turn |-> t]) /\ Len(events) < EventRoom)
      BY <2>3 DEF RunTurn, SendOrDrop, ChannelRoom
    <3>3. Sendable([what |-> "block", turn |-> t])
      BY <2>1, <3>1 DEF Sendable, UnderWay
    <3> QED
      BY <2>1, <3>2, <3>3 DEF Sends
  <2>4. CASE TurnReturns(t)
    BY <2>4 DEF TurnReturns
  <2>5. CASE SendDone(t)
    <3>1. turns[t].phase = "returned" /\ turns'[t].phase = "sent" /\ Len(events) < EventRoom
      BY <1>1, <2>5 DEF SendDone, SendCritical, ChannelRoom, TtShape, Turns
    <3>2. events' = Append(events, [what |-> "done", turn |-> t])
      BY <2>5 DEF SendDone, SendCritical
    <3>3. Sendable([what |-> "done", turn |-> t])
      BY <2>1, <3>1 DEF Sendable, UnderWay
    <3> QED
      BY <2>1, <3>1, <3>2, <3>3 DEF Sends
  <2> QED
    BY <2>2, <2>3, <2>4, <2>5
<1>8. Channel' /\ events' \in Seq(EventSet) /\ Len(events') <= EventRoom
  <2>1. events \in Seq(EventSet) /\ Len(events) <= EventRoom /\ EventRoom \in Nat
    BY <1>1, TuiTurnsAssumption DEF TtShape, TuiTurnsAssumption, TtState, TtTypeOK
  <2>2. CASE events' = events
    BY <1>1, <1>3, <2>1, <2>2, ChannelStays
  <2>3. CASE Sends /\ Len(events) < EventRoom
    <3>1. \E e \in EventSet : events' = Append(events, e)
      BY <2>3 DEF Sends
    <3>2. events' \in Seq(EventSet) /\ Len(events') = Len(events) + 1
      BY <2>1, <3>1, Appended
    <3> QED
      BY <1>1, <1>3, <2>1, <2>3, <3>2, ChannelGrows
  <2> QED
    BY <1>7, <2>2, <2>3
<1>9. TtShape'
  BY <1>1, <1>3, <1>4, <1>5, <1>8 DEF TtShape
<1> QED
  BY <1>1, <1>6, <1>8, <1>9, QuietState DEF TtInductive

-----------------------------------------------------------------------------
(* The steps after which every turn that is left is a crossed one.         *)

LEMMA CrossedFacts ==
  ASSUME NEW ts \in Seq(TurnSet)
  PROVE  /\ Crossed(ts) \in Seq(TurnSet) /\ Len(Crossed(ts)) = Len(ts)
         /\ \A t \in 1..Len(ts) :
              /\ Crossed(ts)[t].kind = ts[t].kind /\ Crossed(ts)[t].session = ts[t].session
              /\ Crossed(ts)[t].esc = ts[t].esc /\ Crossed(ts)[t].phase = ts[t].phase
              /\ ts[t].phase # "gone" => Crossed(ts)[t].crossed
              /\ ts[t].phase = "gone" => Crossed(ts)[t].crossed = ts[t].crossed
<1> DEFINE g == [t \in 1..Len(ts) |-> IF ts[t].phase # "gone" THEN [ts[t] EXCEPT !.crossed = TRUE] ELSE ts[t]]
<1>1. Crossed(ts) = g
  BY DEF Crossed
<1>2. ASSUME NEW t \in 1..Len(ts)
      PROVE  /\ g[t] \in TurnSet /\ g[t].kind = ts[t].kind /\ g[t].session = ts[t].session
             /\ g[t].esc = ts[t].esc /\ g[t].phase = ts[t].phase
             /\ ts[t].phase # "gone" => g[t].crossed
             /\ ts[t].phase = "gone" => g[t].crossed = ts[t].crossed
  <2>1. ts[t] \in TurnSet
    OBVIOUS
  <2>2. TRUE \in BOOLEAN
    OBVIOUS
  <2> QED
    BY <2>1, <2>2 DEF TurnSet
<1>3. g \in Seq(TurnSet) /\ Len(g) = Len(ts)
  <2>1. Len(ts) \in Nat /\ \A t \in 1..Len(ts) : g[t] \in TurnSet
    <3> HIDE DEF g
    <3> QED
      BY <1>2
  <2>2. g \in [1..Len(ts) -> TurnSet]
    BY <2>1
  <2> HIDE DEF g
  <2> QED
    BY <2>1, <2>2
<1> QED
  BY <1>1, <1>2, <1>3

\* TryAutoResumeTurn: at most a turn of the background's own more.
LEMMA AutoFacts ==
  ASSUME NEW u \in UiSet, NEW ts \in Seq(TurnSet), AutoResumed(u, ts)
  PROVE  /\ ui' \in UiSet /\ turns' \in Seq(TurnSet)
         /\ ui'.session = u.session /\ ui'.cancel = u.cancel /\ (ui'.escPending => u.escPending)
         /\ u.running => ui' = u /\ turns' = ts
         /\ Turns' = 1..Len(ts) \/ Turns' = 1..Len(ts) + 1
         /\ \A t \in 1..Len(ts) : turns'[t] = ts[t]
         /\ Turns' # 1..Len(ts) =>
              /\ turns'[Len(ts) + 1].kind = "auto" /\ turns'[Len(ts) + 1].phase = "new" /\ ui'.running
              /\ turns'[Len(ts) + 1].crossed <=> \E t \in 1..Len(ts) : ts[t].phase # "gone"
<1>1. CASE ui' = u /\ turns' = ts
  <2>1. Turns' = 1..Len(ts)
    BY <1>1 DEF Turns
  <2> QED
    BY <1>1, <2>1
<1>2. CASE /\ ~u.running /\ ui' = [u EXCEPT !.running = TRUE, !.escPending = FALSE]
           /\ turns' = Append(ts, NewTurn("auto", u.session, ts))
  <2> DEFINE n == NewTurn("auto", u.session, ts)
  <2>1. DOMAIN ts = 1..Len(ts) /\ u.session \in ChatSessions
    BY DEF UiSet
  <2>2. /\ n \in TurnSet /\ n.kind = "auto" /\ n.phase = "new"
        /\ n.crossed <=> \E t \in 1..Len(ts) : ts[t].phase # "gone"
    <3>1. (\E t \in DOMAIN ts : ts[t].phase # "gone") \in BOOLEAN
      OBVIOUS
    <3> QED
      BY <2>1, <3>1 DEF NewTurn, TurnSet
  <2> HIDE DEF n
  <2>3. /\ turns' \in Seq(TurnSet) /\ Len(turns') = Len(ts) + 1 /\ turns'[Len(ts) + 1] = n
        /\ \A t \in 1..Len(ts) : turns'[t] = ts[t]
    BY <1>2, <2>2, Appended DEF n
  <2>4. Turns' = 1..Len(ts) + 1
    BY <2>3 DEF Turns
  <2>5. /\ ui' \in UiSet /\ ui'.session = u.session /\ ui'.cancel = u.cancel /\ ui'.running /\ ~ui'.escPending
    BY <1>2 DEF UiSet
  <2> QED
    BY <1>2, <2>2, <2>3, <2>4, <2>5
<1> QED
  BY <1>1, <1>2 DEF AutoResumed

Settles ==
  /\ Turns \subseteq Turns' /\ Len(turns) <= Len(turns')
  /\ \A t \in Turns :
       /\ turns'[t].kind = turns[t].kind /\ turns'[t].session = turns[t].session /\ turns'[t].esc = turns[t].esc
       /\ turns[t].crossed => turns'[t].crossed
       /\ Alive(t)' => turns'[t].crossed
  /\ \A t \in Turns' \ Turns :
       /\ t = Len(turns) + 1 /\ turns'[t].kind = "auto" /\ Alive(t)' /\ ui'.running
       /\ ~turns'[t].crossed => \A s \in Turns : ~Alive(s)'
  /\ shown' = shown \/ \E s \in ChatSessions : shown' = stored[s]
  /\ \A s \in ChatSessions :
       stored'[s] = stored[s] \/ \E t \in 0..Len(turns) : stored'[s] = Append(stored[s], Mark("interrupt", t))
  /\ \A t \in Turns : turns'[t].kind = "user" /\ ~Alive(t)' /\ ~turns'[t].crossed => (Marked(t)' <=> turns'[t].esc)

LEMMA StoredKnown ==
  ASSUME TtShape, TtShape', Known, Len(turns) <= Len(turns'),
         \A s \in ChatSessions :
           stored'[s] = stored[s] \/ \E t \in 0..Len(turns) : stored'[s] = Append(stored[s], Mark("interrupt", t)),
         NEW s \in ChatSessions, NEW i \in 1..Len(stored'[s])
  PROVE  stored'[s][i].role # "block" /\ stored'[s][i].turn \in 0..Len(turns')
<1>1. Len(turns) \in Nat /\ Len(turns') \in Nat /\ stored[s] \in Seq(MarkSet)
  BY DEF TtShape
<1>2. CASE stored'[s] = stored[s]
  BY <1>1, <1>2 DEF Known
<1>3. ASSUME NEW t \in 0..Len(turns), stored'[s] = Append(stored[s], Mark("interrupt", t))
      PROVE  stored'[s][i].role # "block" /\ stored'[s][i].turn \in 0..Len(turns')
  <2>1. /\ t \in Nat /\ Mark("interrupt", t) \in MarkSet
        /\ Mark("interrupt", t).role = "interrupt" /\ Mark("interrupt", t).turn = t
    BY <1>1, MarkFacts
  <2>2. \/ i \in 1..Len(stored[s]) /\ stored'[s][i] = stored[s][i]
        \/ stored'[s][i] = Mark("interrupt", t)
    BY <1>1, <1>3, <2>1, Appended
  <2> QED
    BY <1>1, <2>1, <2>2 DEF Known
<1> QED
  BY <1>2, <1>3

LEMMA SettlesState ==
  ASSUME TtShape, TtShape', TtState, Settles, TtTypeOK'
  PROVE  TtState'
<1>1. Len(turns) \in Nat /\ Len(turns') \in Nat /\ Len(turns) <= Len(turns')
  BY DEF TtShape, Settles
<1>2. OneTurn'
  <2> SUFFICES ASSUME NEW t \in Turns', Alive(t)', ~turns'[t].crossed
               PROVE  ui'.running /\ \A s \in Turns' \ {t} : ~Alive(s)'
    BY DEF OneTurn
  <2>1. t \notin Turns
    BY DEF Settles
  <2>2. /\ t = Len(turns) + 1 /\ ui'.running /\ \A s \in Turns : ~Alive(s)'
    BY <2>1 DEF Settles
  <2>3. \A s \in Turns' \ Turns : s = t
    BY <2>2 DEF Settles
  <2> QED
    BY <2>2, <2>3
<1>3. Known'
  <2>1. ASSUME NEW i \in 1..Len(shown') PROVE shown'[i].turn \in 0..Len(turns')
    <3>1. CASE shown' = shown
      BY <1>1, <2>1, <3>1 DEF TtState, Known
    <3>2. ASSUME NEW s \in ChatSessions, shown' = stored[s] PROVE shown'[i].turn \in 0..Len(turns')
      BY <1>1, <2>1, <3>2 DEF TtState, Known
    <3> QED
      BY <3>1, <3>2 DEF Settles
  <2>2. ASSUME NEW s \in ChatSessions, NEW i \in 1..Len(stored'[s])
        PROVE  stored'[s][i].role # "block" /\ stored'[s][i].turn \in 0..Len(turns')
    BY <1>1, StoredKnown DEF TtState, Settles
  <2> QED
    BY <2>1, <2>2 DEF Known
<1>4. OwnShown'
  <2> SUFFICES ASSUME NEW t \in Turns', Own(t)' PROVE FALSE
    BY DEF OwnShown
  <2>1. turns'[t].kind = "user" /\ Alive(t)' /\ ~turns'[t].crossed
    BY DEF Own
  <2> QED
    BY <2>1 DEF Settles
<1>5. InterruptRecorded'
  <2> SUFFICES ASSUME NEW t \in Turns', turns'[t].kind = "user", ~Alive(t)', ~turns'[t].crossed
               PROVE  Marked(t)' <=> turns'[t].esc
    BY DEF InterruptRecorded
  <2>1. t \in Turns
    BY DEF Settles
  <2> QED
    BY <2>1 DEF Settles
<1>6. InterruptIsLast'
  <2> SUFFICES ASSUME NEW i \in 1..Len(shown'), NEW t \in Turns', shown'[i] = Mark("interrupt", t),
                      turns'[t].kind = "user", ~turns'[t].crossed, NEW j \in i+1..Len(shown')
               PROVE  shown'[j] # Mark("block", t)
    BY DEF InterruptIsLast, Mark
  <2>1. t \in Turns /\ turns[t].kind = "user" /\ ~turns[t].crossed
    BY DEF Settles
  <2>2. CASE shown' = shown
    BY <2>1, <2>2 DEF TtState, InterruptIsLast
  <2>3. ASSUME NEW s \in ChatSessions, shown' = stored[s] PROVE shown'[j] # Mark("block", t)
    <3>1. stored[s] \in Seq(MarkSet) /\ t \in Nat
      BY <2>1, TurnFields DEF TtShape
    <3>2. j \in 1..Len(stored[s])
      BY <2>3, <3>1
    <3>3. shown'[j].role # "block"
      BY <2>3, <3>2 DEF TtState, Known
    <3> QED
      BY <3>1, <3>3, MarkFacts
  <2> QED
    BY <2>2, <2>3 DEF Settles
<1> QED
  BY <1>2, <1>3, <1>4, <1>5, <1>6 DEF TtState

\* A session that gains the mark of another turn: whether t is marked stays.
LEMMA MarkedKept ==
  ASSUME TtShape, NEW t \in Turns, turns'[t].session = turns[t].session,
         LET s == turns[t].session IN
           stored'[s] = stored[s]
           \/ \E u \in 0..Len(turns) : u # t /\ stored'[s] = Append(stored[s], Mark("interrupt", u))
  PROVE  Marked(t)' <=> Marked(t)
<1> DEFINE s == turns[t].session
           m == Mark("interrupt", t)
           old == stored[s]
           new == stored'[s]
<1>1. s \in ChatSessions /\ t \in Nat /\ old \in Seq(MarkSet) /\ Len(turns) \in Nat
  BY TurnFields DEF TtShape
<1>2. CASE new = old
  BY <1>2 DEF Marked, Mark
<1>3. ASSUME NEW u \in 0..Len(turns), u # t, new = Append(old, Mark("interrupt", u))
      PROVE  Marked(t)' <=> Marked(t)
  <2>1. u \in Nat /\ Mark("interrupt", u) \in MarkSet /\ Mark("interrupt", u).turn = u /\ m.turn = t
    BY <1>1, MarkFacts
  <2>2. /\ Len(new) = Len(old) + 1 /\ new[Len(old) + 1] # m /\ Len(old) \in Nat
        /\ \A i \in 1..Len(old) : new[i] = old[i]
    BY <1>1, <1>3, <2>1, Appended
  <2>3. (\E i \in 1..Len(new) : new[i] = m) <=> (\E i \in 1..Len(old) : old[i] = m)
    <3> HIDE DEF m, old, new
    <3> QED
      BY <2>2
  <2> QED
    BY <2>3 DEF Marked, Mark
<1> QED
  BY <1>2, <1>3

\* What PersistInterrupt writes.
LEMMA Persisted ==
  ASSUME TtShape, NEW t \in 0..Len(turns), PersistInterrupt(t)
  PROVE  /\ stored' \in [ChatSessions -> Seq(MarkSet)]
         /\ \A s \in ChatSessions : stored'[s] = stored[s] \/ stored'[s] = Append(stored[s], Mark("interrupt", t))
         /\ IF TurnInterrupted THEN stored'[ui.session] = Append(stored[ui.session], Mark("interrupt", t))
            ELSE stored' = stored
<1> DEFINE m == Mark("interrupt", t)
<1>1. stored \in [ChatSessions -> Seq(MarkSet)] /\ ui.session \in ChatSessions /\ m \in MarkSet
  <2>1. t \in Nat
    BY DEF TtShape
  <2> QED
    BY <2>1, MarkFacts DEF TtShape, UiSet
<1>2. stored' = IF TurnInterrupted THEN [stored EXCEPT ![ui.session] = Append(stored[ui.session], m)] ELSE stored
  BY DEF PersistInterrupt
<1> HIDE DEF m
<1>3. stored' \in [ChatSessions -> Seq(MarkSet)]
  <2>1. Append(stored[ui.session], m) \in Seq(MarkSet)
    BY <1>1, Appended
  <2> QED
    BY <1>1, <1>2, <2>1
<1>4. \A s \in ChatSessions : stored'[s] = stored[s] \/ stored'[s] = Append(stored[s], m)
  BY <1>1, <1>2
<1>5. IF TurnInterrupted THEN stored'[ui.session] = Append(stored[ui.session], m) ELSE stored' = stored
  BY <1>1, <1>2
<1> QED
  BY <1>3, <1>4, <1>5 DEF m

LEMMA CommandFailsHolds ==
  ASSUME TtInductive, NEW i \in 1..Len(cmds), CommandAnswered(i), cmds[i].answer = "error",
         cmds[i].kind \in {"slash", "context"}
  PROVE  TtInductive'
<1>1. TtShape /\ Channel /\ TtState
  BY DEF TtInductive
<1>2. PICK u, ts : /\ u = Idle(ui) /\ ts = Crossed(turns) /\ AutoResumed(u, ts) /\ PersistInterrupt(NoTurn)
                   /\ shown' = shown /\ events' = events /\ cmds' = [cmds EXCEPT ![i].answer = "taken"]
  BY DEF CommandAnswered
<1>3. /\ u \in UiSet /\ ~u.running /\ u.cancel = NoTurn /\ ~u.escPending /\ u.session = ui.session
  BY <1>1, <1>2 DEF Idle, TtShape, UiSet, NoTurn
<1>4. /\ turns \in Seq(TurnSet) /\ Len(turns) \in Nat /\ Turns = 1..Len(turns)
  BY <1>1 DEF TtShape, Turns
<1>5. /\ ts \in Seq(TurnSet) /\ Len(ts) = Len(turns)
      /\ \A t \in Turns :
           /\ ts[t].kind = turns[t].kind /\ ts[t].session = turns[t].session
           /\ ts[t].esc = turns[t].esc /\ ts[t].phase = turns[t].phase
           /\ turns[t].phase # "gone" => ts[t].crossed
           /\ turns[t].phase = "gone" => ts[t].crossed = turns[t].crossed
  BY <1>2, <1>4, CrossedFacts
<1>6. /\ ui' \in UiSet /\ turns' \in Seq(TurnSet)
      /\ ui'.session = u.session /\ ui'.cancel = u.cancel /\ (ui'.escPending => u.escPending)
      /\ Turns' = 1..Len(ts) \/ Turns' = 1..Len(ts) + 1
      /\ \A t \in 1..Len(ts) : turns'[t] = ts[t]
      /\ Turns' # 1..Len(ts) =>
           /\ turns'[Len(ts) + 1].kind = "auto" /\ turns'[Len(ts) + 1].phase = "new" /\ ui'.running
           /\ turns'[Len(ts) + 1].crossed <=> \E t \in 1..Len(ts) : ts[t].phase # "gone"
  BY <1>2, <1>3, <1>5, AutoFacts
<1>7. /\ stored' \in [ChatSessions -> Seq(MarkSet)]
      /\ \A s \in ChatSessions : stored'[s] = stored[s] \/ stored'[s] = Append(stored[s], Mark("interrupt", NoTurn))
      /\ NoTurn \in 0..Len(turns)
  <2>1. NoTurn \in 0..Len(turns)
    BY <1>4 DEF NoTurn
  <2> QED
    BY <1>1, <1>2, <2>1, Persisted
<1>8. TtShape'
  BY <1>1, <1>2, <1>6, <1>7, CmdFields DEF TtShape
<1>9. TtTypeOK'
  BY <1>1, <1>2, <1>3, <1>6, <1>8 DEF TtTypeOK, TtState, TtShape, UiSet
<1>10. Turns \subseteq Turns' /\ \A t \in Turns : turns'[t] = ts[t]
  BY <1>4, <1>5, <1>6
<1>11. Settles
  <2>1. Len(turns) <= Len(turns')
    <3>1. Len(turns') \in Nat /\ Turns' = 1..Len(turns')
      BY <1>8 DEF Turns, TtShape
    <3> QED
      BY <1>4, <1>10, <3>1
  <2>2. ASSUME NEW t \in Turns
        PROVE  /\ turns'[t].kind = turns[t].kind /\ turns'[t].session = turns[t].session /\ turns'[t].esc = turns[t].esc
               /\ turns[t].crossed => turns'[t].crossed
               /\ Alive(t)' => turns'[t].crossed
               /\ ~Alive(t)' => ~Alive(t) /\ turns'[t].crossed = turns[t].crossed
    BY <1>5, <1>10 DEF Alive
  <2>3. ASSUME NEW t \in Turns' \ Turns
        PROVE  /\ t = Len(turns) + 1 /\ turns'[t].kind = "auto" /\ Alive(t)' /\ ui'.running
               /\ ~turns'[t].crossed => \A s \in Turns : ~Alive(s)'
    <3>1. t = Len(ts) + 1 /\ Turns' # 1..Len(ts)
      BY <1>4, <1>5, <1>6
    <3>2. turns'[t].kind = "auto" /\ turns'[t].phase = "new" /\ ui'.running
          /\ (turns'[t].crossed <=> \E s \in 1..Len(ts) : ts[s].phase # "gone")
      BY <1>6, <3>1
    <3> QED
      BY <1>4, <1>5, <1>10, <3>1, <3>2 DEF Alive
  <2>4. ASSUME NEW t \in Turns, turns'[t].kind = "user", ~Alive(t)', ~turns'[t].crossed
        PROVE  Marked(t)' <=> turns'[t].esc
    <3>1. Marked(t)' <=> Marked(t)
      <4>1. t # NoTurn /\ turns[t].session \in ChatSessions
        BY <1>1, TurnFields
      <4> QED
        BY <1>1, <1>7, <2>2, <4>1, MarkedKept
    <3> QED
      BY <1>1, <2>2, <2>4, <3>1 DEF TtState, InterruptRecorded
  <2> QED
    BY <1>2, <1>7, <1>10, <2>1, <2>2, <2>3, <2>4 DEF Settles
<1>12. PhasesKept
  BY <1>5, <1>10 DEF PhasesKept
<1>13. Channel' /\ TtState'
  BY <1>1, <1>2, <1>8, <1>9, <1>11, <1>12, ChannelStays, SettlesState
<1> QED
  BY <1>8, <1>13 DEF TtInductive

\* The end of a turn: any other that is left was crossed, since two were under way.
LEMMA DoneHolds ==
  ASSUME TtInductive, UpdateEvent, Head(events).what = "done"
  PROVE  TtInductive'
<1>1. PICK d : d = Head(events).turn
  OBVIOUS
<1>2. TtShape /\ Channel /\ TtState
  BY DEF TtInductive
<1>3. events # <<>> /\ events' = Tail(events) /\ UpdateTurnDone(d) /\ cmds' = cmds
  BY <1>1 DEF UpdateEvent
<1>4. /\ events \in Seq(EventSet) /\ Head(events) = events[1] /\ 1 \in 1..Len(events)
      /\ events' \in Seq(EventSet) /\ Len(events') <= EventRoom
  <2>1. events \in Seq(EventSet) /\ Len(events) <= EventRoom /\ EventRoom \in Nat
    BY <1>2, TuiTurnsAssumption DEF TtShape, TtState, TtTypeOK, TuiTurnsAssumption
  <2> QED
    BY <1>3, <2>1, Tailed
<1>5. d \in Turns /\ turns[d].phase = "sent"
  BY <1>1, <1>2, <1>4 DEF Channel
<1>6. turns[d] \in TurnSet /\ turns[d].session \in ChatSessions /\ d \in Nat /\ d # NoTurn
  BY <1>2, <1>5, TurnFields
<1>7. turns \in Seq(TurnSet) /\ Len(turns) \in Nat /\ Turns = 1..Len(turns)
  BY <1>2 DEF TtShape, Turns
<1>8. PICK u, ts : /\ u = Idle(ui) /\ ts = [turns EXCEPT ![d].phase = "gone"] /\ AutoResumed(u, ts)
                   /\ PersistInterrupt(d) /\ shown' = shown
  BY <1>3 DEF UpdateTurnDone
<1>9. u \in UiSet /\ ~u.running /\ u.cancel = NoTurn /\ ~u.escPending /\ u.session = ui.session
  BY <1>2, <1>8 DEF Idle, TtShape, UiSet, NoTurn
<1>10. /\ ts \in Seq(TurnSet) /\ Len(ts) = Len(turns)
       /\ ts[d].phase = "gone" /\ ts[d].kind = turns[d].kind /\ ts[d].session = turns[d].session
       /\ ts[d].esc = turns[d].esc /\ ts[d].crossed = turns[d].crossed
       /\ \A t \in Turns \ {d} : ts[t] = turns[t]
  <2> DEFINE r == [turns[d] EXCEPT !.phase = "gone"]
  <2>1. /\ r \in TurnSet /\ r.phase = "gone" /\ r.kind = turns[d].kind /\ r.session = turns[d].session
        /\ r.esc = turns[d].esc /\ r.crossed = turns[d].crossed
    BY <1>6 DEF TurnSet
  <2>2. ts = [turns EXCEPT ![d] = r]
    BY <1>8
  <2> HIDE DEF r
  <2>3. ts \in Seq(TurnSet)
    BY <1>5, <1>7, <2>1, <2>2, Replaced
  <2>4. Len(ts) = Len(turns) /\ ts[d] = r /\ \A t \in Turns \ {d} : ts[t] = turns[t]
    BY <1>5, <1>7, <2>2
  <2> QED
    BY <2>1, <2>3, <2>4
<1>11. /\ ui' \in UiSet /\ turns' \in Seq(TurnSet)
       /\ ui'.session = u.session /\ ui'.cancel = u.cancel /\ (ui'.escPending => u.escPending)
       /\ Turns' = 1..Len(ts) \/ Turns' = 1..Len(ts) + 1
       /\ \A t \in 1..Len(ts) : turns'[t] = ts[t]
       /\ Turns' # 1..Len(ts) =>
            /\ turns'[Len(ts) + 1].kind = "auto" /\ turns'[Len(ts) + 1].phase = "new" /\ ui'.running
            /\ turns'[Len(ts) + 1].crossed <=> \E t \in 1..Len(ts) : ts[t].phase # "gone"
  BY <1>8, <1>9, <1>10, AutoFacts
<1>12. /\ stored' \in [ChatSessions -> Seq(MarkSet)]
       /\ \A s \in ChatSessions : stored'[s] = stored[s] \/ stored'[s] = Append(stored[s], Mark("interrupt", d))
       /\ IF TurnInterrupted THEN stored'[ui.session] = Append(stored[ui.session], Mark("interrupt", d))
          ELSE stored' = stored
       /\ d \in 0..Len(turns)
  <2>1. d \in 0..Len(turns)
    BY <1>5, <1>7
  <2> QED
    BY <1>2, <1>8, <2>1, Persisted
<1>13. TtShape'
  BY <1>2, <1>3, <1>4, <1>8, <1>11, <1>12 DEF TtShape
<1>14. TtTypeOK'
  BY <1>4, <1>9, <1>11 DEF TtTypeOK, UiSet
<1>15. Turns \subseteq Turns' /\ \A t \in Turns : turns'[t] = ts[t]
  BY <1>7, <1>10, <1>11
<1>16. \A t \in Turns \ {d} : Alive(t) => turns[t].crossed
  <2>1. Alive(d)
    BY <1>5 DEF Alive
  <2> QED
    BY <1>2, <1>5, <2>1 DEF TtState, OneTurn
<1>17. Settles
  <2>1. Len(turns) <= Len(turns')
    <3>1. Len(turns') \in Nat /\ Turns' = 1..Len(turns')
      BY <1>13 DEF Turns, TtShape
    <3>2. Len(turns) = 0 \/ Len(turns) \in Turns
      BY <1>7
    <3> QED
      BY <1>7, <1>15, <3>1, <3>2
  <2>2. ASSUME NEW t \in Turns
        PROVE  /\ turns'[t].kind = turns[t].kind /\ turns'[t].session = turns[t].session /\ turns'[t].esc = turns[t].esc
               /\ turns[t].crossed => turns'[t].crossed
               /\ Alive(t)' => turns'[t].crossed
               /\ turns'[t].crossed = turns[t].crossed
               /\ t # d => (Alive(t)' <=> Alive(t))
    BY <1>10, <1>15, <1>16 DEF Alive
  <2>3. ASSUME NEW t \in Turns' \ Turns
        PROVE  /\ t = Len(turns) + 1 /\ turns'[t].kind = "auto" /\ Alive(t)' /\ ui'.running
               /\ ~turns'[t].crossed => \A s \in Turns : ~Alive(s)'
    <3>1. t = Len(ts) + 1 /\ Turns' # 1..Len(ts)
      BY <1>7, <1>10, <1>11
    <3>2. turns'[t].kind = "auto" /\ turns'[t].phase = "new" /\ ui'.running
          /\ (turns'[t].crossed <=> \E s \in 1..Len(ts) : ts[s].phase # "gone")
      BY <1>11, <3>1
    <3> QED
      BY <1>7, <1>10, <1>15, <3>1, <3>2 DEF Alive
  <2>4. ASSUME NEW t \in Turns, turns'[t].kind = "user", ~Alive(t)', ~turns'[t].crossed
        PROVE  Marked(t)' <=> turns'[t].esc
    <3>1. CASE t # d
      <4>1. Marked(t)' <=> Marked(t)
        <5>1. turns[t].session \in ChatSessions /\ turns'[t].session = turns[t].session
          BY <1>2, <2>2, TurnFields
        <5> QED
          BY <1>2, <1>12, <3>1, <5>1, MarkedKept
      <4> QED
        BY <1>2, <2>2, <2>4, <3>1, <4>1 DEF TtState, InterruptRecorded
    <3>2. CASE t = d
      <4>1. Own(d)
        BY <1>5, <2>2, <2>4, <3>2 DEF Own, Alive
      <4>2. ui.session = turns[d].session /\ ~Marked(d) /\ (TurnInterrupted <=> turns[d].esc)
        BY <1>2, <1>5, <4>1 DEF TtState, OwnShown, Displayed
      <4>3. turns'[d].session = turns[d].session /\ turns'[d].esc = turns[d].esc
        BY <1>5, <2>2
      <4>4. CASE TurnInterrupted
        <5> DEFINE b == stored[turns[d].session]
        <5>1. stored'[turns[d].session] = Append(b, Mark("interrupt", d))
          BY <1>12, <4>2, <4>4
        <5>2. b \in Seq(MarkSet) /\ Mark("interrupt", d) \in MarkSet /\ Len(b) \in Nat
          BY <1>2, <1>6, MarkFacts DEF TtShape
        <5> HIDE DEF b
        <5>3. /\ Len(stored'[turns[d].session]) = Len(b) + 1
              /\ stored'[turns[d].session][Len(b) + 1] = Mark("interrupt", d)
          BY <5>1, <5>2, Appended
        <5>4. Len(b) + 1 \in 1..Len(stored'[turns[d].session])
          BY <5>2, <5>3
        <5>5. Marked(d)'
          BY <4>3, <5>3, <5>4 DEF Marked, Mark
        <5> QED
          BY <3>2, <4>2, <4>3, <4>4, <5>5
      <4>5. CASE ~TurnInterrupted
        <5>1. Marked(d)' <=> Marked(d)
          BY <1>2, <1>5, <1>12, <4>3, <4>5, MarkedKept
        <5> QED
          BY <3>2, <4>2, <4>3, <4>5, <5>1
      <4> QED
        BY <4>4, <4>5
    <3> QED
      BY <3>1, <3>2
  <2> QED
    BY <1>8, <1>12, <1>15, <2>1, <2>2, <2>3, <2>4 DEF Settles
<1>18. Takes
  <2>1. \A t \in Turns \ {d} : turns'[t] = turns[t]
    BY <1>10, <1>15
  <2> QED
    BY <1>1, <1>3, <1>15, <2>1 DEF Takes
<1>19. Channel' /\ TtState'
  BY <1>2, <1>13, <1>14, <1>17, <1>18, ChannelTails, SettlesState
<1> QED
  BY <1>13, <1>19 DEF TtInductive

\* The notice of a background run may start a turn of its own.
LEMMA CompleteHolds ==
  ASSUME TtInductive, UpdateEvent, Head(events).what = "complete"
  PROVE  TtInductive'
<1>1. TtShape /\ Channel /\ TtState
  BY DEF TtInductive
<1>2. /\ events # <<>> /\ events' = Tail(events) /\ AutoResumed(ui, turns)
      /\ shown' = shown /\ stored' = stored /\ cmds' = cmds
  BY DEF UpdateEvent
<1>3. events' \in Seq(EventSet) /\ Len(events') <= EventRoom
  <2>1. events \in Seq(EventSet) /\ Len(events) <= EventRoom /\ EventRoom \in Nat
    BY <1>1, TuiTurnsAssumption DEF TtShape, TtState, TtTypeOK, TuiTurnsAssumption
  <2> QED
    BY <1>2, <2>1, Tailed
<1>4. turns \in Seq(TurnSet) /\ Len(turns) \in Nat /\ Turns = 1..Len(turns) /\ ui \in UiSet
  BY <1>1 DEF TtShape, Turns
<1>5. PICK u, ts : u = ui /\ ts = turns /\ AutoResumed(u, ts)
  BY <1>2
<1>6. /\ ui' \in UiSet /\ turns' \in Seq(TurnSet)
      /\ ui'.session = u.session /\ ui'.cancel = u.cancel /\ (ui'.escPending => u.escPending)
      /\ u.running => ui' = u /\ turns' = ts
      /\ Turns' = 1..Len(ts) \/ Turns' = 1..Len(ts) + 1
      /\ \A t \in 1..Len(ts) : turns'[t] = ts[t]
      /\ Turns' # 1..Len(ts) =>
           /\ turns'[Len(ts) + 1].kind = "auto" /\ turns'[Len(ts) + 1].phase = "new" /\ ui'.running
           /\ turns'[Len(ts) + 1].crossed <=> \E t \in 1..Len(ts) : ts[t].phase # "gone"
  BY <1>4, <1>5, AutoFacts
<1>7. TtShape'
  BY <1>1, <1>2, <1>3, <1>6 DEF TtShape
<1>8. Turns \subseteq Turns' /\ \A t \in Turns : turns'[t] = turns[t]
  BY <1>4, <1>5, <1>6
<1>9. Channel'
  <2>1. Takes
    BY <1>2, <1>8 DEF Takes
  <2> QED
    BY <1>1, <2>1, ChannelTails
<1>10. CASE ui.running
  <2>1. ui' = ui /\ turns' = turns /\ Turns' = Turns
    BY <1>5, <1>6, <1>10 DEF Turns
  <2>2. Quiet
    BY <1>2, <2>1 DEF Quiet, SameTurns, PhasesKept, SameMarks, SameUi
  <2> QED
    BY <1>1, <1>3, <1>7, <1>9, <2>2, QuietState DEF TtInductive
<1>11. CASE ~ui.running
  <2>1. \A t \in Turns : Alive(t) => turns[t].crossed
    BY <1>1, <1>11 DEF TtState, OneTurn
  <2>2. TtTypeOK'
    <3>1. ~ui.escPending /\ ui.cancel \in {NoTurn} \cup Turns /\ ui.session \in ChatSessions
          /\ (ui.cancel # NoTurn => turns[ui.cancel].phase \in UnderWay)
      BY <1>1, <1>11 DEF TtState, TtTypeOK, UnderWay
    <3> QED
      BY <1>3, <1>5, <1>6, <1>8, <3>1 DEF TtTypeOK, UnderWay
  <2>3. Settles
    <3>1. Len(turns) <= Len(turns')
      <4>1. Len(turns') \in Nat /\ Turns' = 1..Len(turns')
        BY <1>7 DEF Turns, TtShape
      <4>2. Len(turns) = 0 \/ Len(turns) \in Turns
        BY <1>4
      <4> QED
        BY <1>4, <1>8, <4>1, <4>2
    <3>2. ASSUME NEW t \in Turns
          PROVE  /\ turns'[t] = turns[t] /\ (Alive(t)' <=> Alive(t)) /\ (Marked(t)' <=> Marked(t))
                 /\ Alive(t)' => turns'[t].crossed
      BY <1>2, <1>8, <2>1 DEF Alive, Marked, Mark
    <3>3. ASSUME NEW t \in Turns' \ Turns
          PROVE  /\ t = Len(turns) + 1 /\ turns'[t].kind = "auto" /\ Alive(t)' /\ ui'.running
                 /\ ~turns'[t].crossed => \A s \in Turns : ~Alive(s)'
      <4>1. t = Len(ts) + 1 /\ Turns' # 1..Len(ts)
        BY <1>4, <1>5, <1>6
      <4>2. turns'[t].kind = "auto" /\ turns'[t].phase = "new" /\ ui'.running
            /\ (turns'[t].crossed <=> \E s \in 1..Len(ts) : ts[s].phase # "gone")
        BY <1>6, <4>1
      <4> QED
        BY <1>4, <1>5, <1>8, <4>1, <4>2 DEF Alive
    <3>4. ASSUME NEW t \in Turns, turns'[t].kind = "user", ~Alive(t)', ~turns'[t].crossed
          PROVE  Marked(t)' <=> turns'[t].esc
      BY <1>1, <3>2, <3>4 DEF TtState, InterruptRecorded
    <3> QED
      BY <1>2, <1>8, <3>1, <3>2, <3>3, <3>4 DEF Settles
  <2> QED
    BY <1>1, <1>7, <1>9, <2>2, <2>3, SettlesState DEF TtInductive
<1> QED
  BY <1>10, <1>11

\* What is displayed, or the session, is replaced while turns are left: they are crossed.
LEMMA CrossesHolds ==
  ASSUME TtInductive, turns' = Crossed(turns), ui' \in UiSet, ui'.running = ui.running, ui'.cancel = ui.cancel,
         ui'.escPending = ui.escPending, shown' = shown \/ \E s \in ChatSessions : shown' = stored[s],
         stored' = stored, events' = events, cmds' \in Seq(CmdSet)
  PROVE  TtInductive'
<1>1. TtShape /\ Channel /\ TtState
  BY DEF TtInductive
<1>2. turns \in Seq(TurnSet) /\ Len(turns) \in Nat /\ Turns = 1..Len(turns)
  BY <1>1 DEF TtShape, Turns
<1>3. /\ turns' \in Seq(TurnSet) /\ Len(turns') = Len(turns) /\ Turns' = Turns
      /\ \A t \in Turns :
           /\ turns'[t].kind = turns[t].kind /\ turns'[t].session = turns[t].session
           /\ turns'[t].esc = turns[t].esc /\ turns'[t].phase = turns[t].phase
           /\ turns[t].phase # "gone" => turns'[t].crossed
           /\ turns[t].phase = "gone" => turns'[t].crossed = turns[t].crossed
  BY <1>2, CrossedFacts DEF Turns
<1>4. TtShape'
  <2>1. shown' \in Seq(MarkSet)
    BY <1>1 DEF TtShape
  <2> QED
    BY <1>1, <1>3, <2>1 DEF TtShape
<1>5. TtTypeOK'
  <2>1. ui.cancel # NoTurn => turns'[ui.cancel].phase = turns[ui.cancel].phase
    BY <1>1, <1>3 DEF TtState, TtTypeOK
  <2> QED
    BY <1>1, <1>3, <2>1 DEF TtState, TtTypeOK, UiSet
<1>6. PhasesKept
  BY <1>3 DEF PhasesKept
<1>7. Settles
  <2>1. ASSUME NEW t \in Turns
        PROVE  /\ (Alive(t)' <=> Alive(t)) /\ (Marked(t)' <=> Marked(t))
               /\ Alive(t)' => turns'[t].crossed
               /\ ~Alive(t) => turns'[t].crossed = turns[t].crossed
    BY <1>3 DEF Alive, Marked, Mark
  <2>2. ASSUME NEW t \in Turns, turns'[t].kind = "user", ~Alive(t)', ~turns'[t].crossed
        PROVE  Marked(t)' <=> turns'[t].esc
    BY <1>1, <1>3, <2>1, <2>2 DEF TtState, InterruptRecorded
  <2>3. \A t \in Turns : turns[t].crossed => turns'[t].crossed
    BY <1>3
  <2> QED
    BY <1>2, <1>3, <2>1, <2>2, <2>3 DEF Settles
<1> QED
  BY <1>1, <1>4, <1>5, <1>6, <1>7, ChannelStays, SettlesState DEF TtInductive

LEMMA CommandRunsHolds ==
  ASSUME TtInductive, NEW i \in 1..Len(cmds), CommandRuns(i)
  PROVE  TtInductive'
<1>1. TtShape
  BY DEF TtInductive
<1>2. PICK a \in {"ok", "error"} : cmds' = [cmds EXCEPT ![i].answer = a]
  BY DEF CommandRuns
<1>3. cmds' \in Seq(CmdSet)
  BY <1>1, <1>2, CmdFields
<1>4. events' = events /\ shown' = shown /\ stored' = stored
  BY DEF CommandRuns
<1>5. CASE cmds[i].kind = "slash"
  <2>1. PICK s \in ChatSessions : /\ ui' = [ui EXCEPT !.session = s]
                                  /\ turns' = IF s # ui.session THEN Crossed(turns) ELSE turns
    BY <1>5 DEF CommandRuns
  <2>2. CASE s = ui.session
    <3>1. ui' = ui /\ turns' = turns
      BY <1>1, <2>1, <2>2 DEF TtShape, UiSet
    <3> QED
      BY <1>3, <1>4, <3>1, OverlaidHolds DEF Overlaid
  <2>3. CASE s # ui.session
    <3>1. /\ ui' \in UiSet /\ ui'.running = ui.running /\ ui'.cancel = ui.cancel
          /\ ui'.escPending = ui.escPending /\ turns' = Crossed(turns)
      BY <1>1, <2>1, <2>3 DEF TtShape, UiSet
    <3> QED
      BY <1>3, <1>4, <3>1, CrossesHolds
  <2> QED
    BY <2>2, <2>3
<1>6. CASE cmds[i].kind # "slash"
  <2>1. ui' = ui /\ turns' = turns
    BY <1>6 DEF CommandRuns
  <2> QED
    BY <1>3, <1>4, <2>1, OverlaidHolds DEF Overlaid
<1> QED
  BY <1>5, <1>6

LEMMA CommandAnsweredHolds ==
  ASSUME TtInductive, NEW i \in 1..Len(cmds), CommandAnswered(i)
  PROVE  TtInductive'
<1>1. TtShape /\ cmds[i] \in CmdSet /\ cmds[i].sid \in ChatSessions
  BY CmdFields DEF TtInductive
<1>2. cmds' \in Seq(CmdSet) /\ events' = events
  <2>1. cmds' = [cmds EXCEPT ![i].answer = "taken"] /\ events' = events
    BY DEF CommandAnswered
  <2> QED
    BY <1>1, <2>1, CmdFields
<1>3. CASE cmds[i].answer = "error" /\ cmds[i].kind \in {"slash", "context"}
  BY <1>3, CommandFailsHolds
<1>4. CASE cmds[i].answer = "error" /\ cmds[i].kind \notin {"slash", "context"}
  <2>1. Overlaid
    BY <1>4 DEF CommandAnswered, Overlaid
  <2> QED
    BY <1>2, <2>1, OverlaidHolds
<1>5. CASE cmds[i].answer # "error" /\ cmds[i].kind = "slash"
  <2>1. Overlaid
    BY <1>5 DEF CommandAnswered, Overlaid
  <2> QED
    BY <1>2, <2>1, OverlaidHolds
<1>6. CASE cmds[i].answer # "error" /\ cmds[i].kind = "context"
  <2>1. Overlaid
    BY <1>6 DEF CommandAnswered, Overlaid
  <2> QED
    BY <1>2, <2>1, OverlaidHolds
<1>7. CASE cmds[i].answer # "error" /\ cmds[i].kind = "resume"
  <2>1. /\ ui' = [ui EXCEPT !.session = cmds[i].sid, !.overlay = FALSE]
        /\ shown' = stored[cmds[i].sid] /\ turns' = Crossed(turns) /\ stored' = stored
    BY <1>7 DEF CommandAnswered
  <2>2. /\ ui' \in UiSet /\ ui'.running = ui.running /\ ui'.cancel = ui.cancel
        /\ ui'.escPending = ui.escPending
    BY <1>1, <2>1 DEF TtShape, UiSet
  <2> QED
    BY <1>1, <1>2, <2>1, <2>2, CrossesHolds
<1>8. CASE cmds[i].answer # "error" /\ cmds[i].kind = "history"
  <2>1. CASE stored[cmds[i].sid] = <<>>
    <3>1. Overlaid
      BY <1>8, <2>1 DEF CommandAnswered, Overlaid
    <3> QED
      BY <1>2, <3>1, OverlaidHolds
  <2>2. CASE stored[cmds[i].sid] # <<>>
    <3>1. ui' = ui /\ shown' = stored[cmds[i].sid] /\ turns' = Crossed(turns) /\ stored' = stored
      BY <1>8, <2>2 DEF CommandAnswered
    <3> QED
      BY <1>1, <1>2, <3>1, CrossesHolds DEF TtShape
  <2> QED
    BY <2>1, <2>2
<1> QED
  BY <1>1, <1>3, <1>4, <1>5, <1>6, <1>7, <1>8 DEF CmdSet

-----------------------------------------------------------------------------
(* The steps that show something: a line of the user's, a mark, a block.   *)

LEMMA SubmitHolds ==
  ASSUME TtInductive, SubmitTurn
  PROVE  TtInductive'
<1>1. TtShape /\ Channel /\ TtState
  BY DEF TtInductive
<1>2. /\ turns \in Seq(TurnSet) /\ Len(turns) \in Nat /\ Turns = 1..Len(turns) /\ shown \in Seq(MarkSet)
      /\ Len(shown) \in Nat /\ ui \in UiSet /\ ui.session \in ChatSessions
  BY <1>1 DEF TtShape, Turns, UiSet
<1>3. PICK n, t : n = NewTurn("user", ui.session, turns) /\ t = Len(turns) + 1
  OBVIOUS
<1>4. /\ ~ui.running /\ events' = events /\ cmds' = cmds /\ stored' = stored /\ turns' = Append(turns, n)
      /\ shown' = Append(shown, Mark("user", t))
      /\ ui' = [ui EXCEPT !.running = TRUE, !.escPending = FALSE, !.overlay = FALSE]
  BY <1>3 DEF SubmitTurn, SubmitAllowed
<1>5. /\ n \in TurnSet /\ n.kind = "user" /\ n.session = ui.session /\ n.phase = "new" /\ n.esc = FALSE
      /\ n.crossed <=> \E s \in Turns : Alive(s)
  <2>1. DOMAIN turns = Turns /\ (\E s \in Turns : turns[s].phase # "gone") \in BOOLEAN /\ FALSE \in BOOLEAN
    BY <1>2
  <2> QED
    BY <1>2, <1>3, <2>1 DEF NewTurn, TurnSet, Alive
<1>6. /\ turns' \in Seq(TurnSet) /\ Len(turns') = t /\ turns'[t] = n /\ t \in Nat
      /\ Turns' = Turns \cup {t} /\ t \notin Turns /\ t # NoTurn
      /\ \A s \in Turns : turns'[s] = turns[s]
  <2>1. /\ turns' \in Seq(TurnSet) /\ Len(turns') = t /\ turns'[t] = n /\ t \in Nat
        /\ \A s \in Turns : turns'[s] = turns[s]
    BY <1>2, <1>3, <1>4, <1>5, Appended
  <2> QED
    BY <1>2, <1>3, <2>1 DEF Turns, NoTurn
<1>7. /\ Mark("user", t) \in MarkSet /\ Mark("user", t).role = "user" /\ Mark("user", t).turn = t
      /\ \A s \in Nat : /\ Mark("interrupt", s).role = "interrupt" /\ Mark("interrupt", s).turn = s
                        /\ Mark("block", s).role = "block"
  BY <1>6, MarkFacts
<1>8. /\ shown' \in Seq(MarkSet) /\ Len(shown') = Len(shown) + 1 /\ shown'[Len(shown) + 1] = Mark("user", t)
      /\ \A i \in 1..Len(shown) : shown'[i] = shown[i]
  BY <1>2, <1>4, <1>7, Appended
<1>9. /\ ui' \in UiSet /\ ui'.running /\ ~ui'.escPending /\ ui'.cancel = ui.cancel /\ ui'.session = ui.session
  BY <1>2, <1>4 DEF UiSet
<1>10. TtShape'
  BY <1>1, <1>4, <1>6, <1>8, <1>9 DEF TtShape
<1>11. Channel'
  <2>1. PhasesKept
    BY <1>6 DEF PhasesKept
  <2> QED
    BY <1>1, <1>4, <2>1, ChannelStays
<1>12. TtTypeOK'
  <2>1. ui.cancel # NoTurn => turns'[ui.cancel] = turns[ui.cancel]
    BY <1>1, <1>6 DEF TtState, TtTypeOK
  <2> QED
    BY <1>1, <1>2, <1>4, <1>6, <1>9, <2>1 DEF TtState, TtTypeOK
<1>13. \A s \in Turns : ~(Alive(s) /\ ~turns[s].crossed)
  BY <1>1, <1>4 DEF TtState, OneTurn
<1>14. OneTurn'
  <2> SUFFICES ASSUME NEW s \in Turns', Alive(s)', ~turns'[s].crossed
               PROVE  ui'.running /\ \A r \in Turns' \ {s} : ~Alive(r)'
    BY DEF OneTurn
  <2>1. s = t
    BY <1>6, <1>13 DEF Alive
  <2>2. \A r \in Turns : ~Alive(r)'
    BY <1>5, <1>6, <2>1 DEF Alive
  <2> QED
    BY <1>6, <1>9, <2>1, <2>2
<1>15. Known'
  <2>1. ASSUME NEW i \in 1..Len(shown') PROVE shown'[i].turn \in 0..Len(turns')
    <3>1. CASE i = Len(shown) + 1
      BY <1>6, <1>7, <1>8, <3>1
    <3>2. CASE i \in 1..Len(shown)
      BY <1>1, <1>2, <1>3, <1>6, <1>8, <3>2 DEF TtState, Known
    <3> QED
      BY <1>2, <1>8, <3>1, <3>2
  <2>2. ASSUME NEW s \in ChatSessions, NEW i \in 1..Len(stored'[s])
        PROVE  stored'[s][i].role # "block" /\ stored'[s][i].turn \in 0..Len(turns')
    BY <1>1, <1>2, <1>3, <1>4, <1>6 DEF TtState, Known
  <2> QED
    BY <2>1, <2>2 DEF Known
<1>16. OwnShown'
  <2> SUFFICES ASSUME NEW s \in Turns', Own(s)' PROVE Displayed(s)'
    BY DEF OwnShown
  <2>1. s = t
    BY <1>6, <1>13 DEF Own, Alive
  <2>2. turns'[s].session = ui.session /\ turns'[s].esc = FALSE
    BY <1>5, <1>6, <2>1
  <2>3. ~Marked(s)'
    <3> SUFFICES ASSUME NEW i \in 1..Len(stored[ui.session]), stored[ui.session][i] = Mark("interrupt", t) PROVE FALSE
      BY <1>4, <2>1, <2>2 DEF Marked, Mark
    <3>1. stored[ui.session][i].turn \in 0..Len(turns)
      BY <1>1, <1>2 DEF TtState, Known
    <3> QED
      BY <1>2, <1>3, <1>6, <1>7, <3>1
  <2>4. /\ ~Interrupted(shown') /\ \E i \in 1..Len(shown') : LastLine(shown', i)
    BY <1>2, <1>4, <1>6, UserLine
  <2>5. ~Shows(shown', Mark("interrupt", t))
    <3> SUFFICES ASSUME NEW i \in 1..Len(shown'), shown'[i] = Mark("interrupt", t) PROVE FALSE
      BY DEF Shows
    <3>1. i \in 1..Len(shown)
      BY <1>2, <1>6, <1>7, <1>8
    <3>2. shown[i].turn \in 0..Len(turns)
      BY <1>1, <3>1 DEF TtState, Known
    <3> QED
      BY <1>2, <1>3, <1>6, <1>7, <1>8, <3>1, <3>2
  <2> QED
    BY <1>9, <2>1, <2>2, <2>3, <2>4, <2>5 DEF Displayed, TurnInterrupted, Mark
<1>17. InterruptRecorded'
  <2> SUFFICES ASSUME NEW s \in Turns', turns'[s].kind = "user", ~Alive(s)', ~turns'[s].crossed
               PROVE  Marked(s)' <=> turns'[s].esc
    BY DEF InterruptRecorded
  <2>1. s \in Turns /\ turns'[s] = turns[s]
    BY <1>5, <1>6 DEF Alive
  <2>2. (Marked(s)' <=> Marked(s)) /\ (Alive(s)' <=> Alive(s))
    BY <1>4, <2>1 DEF Marked, Alive, Mark
  <2> QED
    BY <1>1, <2>1, <2>2 DEF TtState, InterruptRecorded
<1>18. InterruptIsLast'
  <2> SUFFICES ASSUME NEW i \in 1..Len(shown'), NEW s \in Turns', shown'[i] = Mark("interrupt", s),
                      turns'[s].kind = "user", ~turns'[s].crossed, NEW j \in i+1..Len(shown')
               PROVE  shown'[j] # Mark("block", s)
    BY DEF InterruptIsLast, Mark
  <2>1. s \in Nat
    BY <1>2, <1>6
  <2>2. i \in 1..Len(shown)
    BY <1>2, <1>7, <1>8, <2>1
  <2>3. CASE j = Len(shown) + 1
    BY <1>7, <1>8, <2>1, <2>3
  <2>4. CASE j \in i+1..Len(shown)
    <3>1. shown[i].turn \in 0..Len(turns) /\ shown[i] = Mark("interrupt", s) /\ shown'[j] = shown[j]
      BY <1>1, <1>2, <1>8, <2>2, <2>4 DEF TtState, Known
    <3>2. s \in Turns /\ turns'[s] = turns[s]
      BY <1>2, <1>3, <1>6, <1>7, <2>1, <3>1
    <3> QED
      BY <1>1, <2>2, <2>4, <3>1, <3>2 DEF TtState, InterruptIsLast
  <2> QED
    BY <1>2, <1>8, <2>2, <2>3, <2>4
<1> QED
  BY <1>10, <1>11, <1>12, <1>14, <1>15, <1>16, <1>17, <1>18 DEF TtInductive, TtState

\* A mark of an interruption, or a block, joins what is displayed.
Grows(role, c) == shown' = Append(shown, Mark(role, c))
Grown(role, c) ==
  /\ shown' \in Seq(MarkSet) /\ Len(shown') = Len(shown) + 1 /\ shown'[Len(shown) + 1] = Mark(role, c)
  /\ \A i \in 1..Len(shown) : shown'[i] = shown[i]
  /\ \A i \in 1..Len(shown') : shown'[i].turn \in 0..Len(turns)

LEMMA GrowsFacts ==
  ASSUME TtShape, Known, NEW role \in {"interrupt", "block"}, NEW c \in 0..Len(turns), Grows(role, c)
  PROVE  Grown(role, c)
<1>1. shown \in Seq(MarkSet) /\ c \in Nat /\ Len(shown) \in Nat
  BY DEF TtShape
<1>2. Mark(role, c) \in MarkSet /\ Mark(role, c).turn = c
  BY <1>1, MarkFacts
<1>3. /\ shown' \in Seq(MarkSet) /\ Len(shown') = Len(shown) + 1 /\ shown'[Len(shown) + 1] = Mark(role, c)
      /\ \A i \in 1..Len(shown) : shown'[i] = shown[i]
  BY <1>1, <1>2, Appended DEF Grows
<1>4. ASSUME NEW i \in 1..Len(shown') PROVE shown'[i].turn \in 0..Len(turns)
  <2>1. i \in 1..Len(shown) \/ i = Len(shown) + 1
    BY <1>1, <1>3
  <2> QED
    BY <1>2, <1>3, <2>1 DEF Known
<1> QED
  BY <1>3, <1>4 DEF Grown

\* Nothing comes below a mark of its own turn, unless a block of a turn that was interrupted would.
LEMMA LastKept ==
  ASSUME TtShape, InterruptIsLast, Turns' = Turns,
         \A t \in Turns : turns'[t].kind = turns[t].kind /\ turns'[t].crossed = turns[t].crossed,
         NEW role \in {"interrupt", "block"}, NEW c \in 0..Len(turns), Grown(role, c),
         role = "block" /\ c \in Turns /\ turns[c].kind = "user" /\ ~turns[c].crossed =>
           ~Shows(shown, Mark("interrupt", c))
  PROVE  InterruptIsLast'
<1>1. shown \in Seq(MarkSet) /\ c \in Nat /\ Len(shown) \in Nat
  BY DEF TtShape
<1> SUFFICES ASSUME NEW i \in 1..Len(shown'), NEW s \in Turns, shown'[i] = Mark("interrupt", s),
                    turns[s].kind = "user", ~turns[s].crossed, NEW j \in i+1..Len(shown')
             PROVE  shown'[j] # Mark("block", s)
  BY DEF InterruptIsLast, Mark
<1>2. s \in Nat
  BY TurnFields
<1>3. /\ Mark("block", s).role = "block" /\ Mark("block", s).turn = s
      /\ Mark(role, c).role = role /\ Mark(role, c).turn = c
  BY <1>1, <1>2, MarkFacts
<1>4. i \in 1..Len(shown) /\ shown[i] = Mark("interrupt", s)
  BY <1>1 DEF Grown
<1>5. CASE j = Len(shown) + 1
  <2> SUFFICES ASSUME shown'[j] = Mark("block", s) PROVE FALSE
    OBVIOUS
  <2>1. role = "block" /\ s = c
    BY <1>3, <1>5 DEF Grown
  <2> QED
    BY <1>4, <2>1 DEF Shows
<1>6. CASE j \in i+1..Len(shown)
  <2>1. j \in 1..Len(shown)
    BY <1>1, <1>4, <1>6
  <2>2. shown'[j] = shown[j]
    BY <2>1 DEF Grown
  <2> QED
    BY <1>4, <1>6, <2>2 DEF InterruptIsLast
<1> QED
  BY <1>1, <1>4, <1>5, <1>6 DEF Grown

\* The mark of an interruption joins once, below the last line of the user's.
LEMMA MarkJoins ==
  ASSUME TtShape, Known, NEW c \in 0..Len(turns), c = Current, shown' = WithInterruptBlock
  PROVE  /\ TurnInterrupted => shown' = shown
         /\ ~TurnInterrupted => Grown("interrupt", c)
         /\ (\E i \in 1..Len(shown) : LastLine(shown, i)) =>
              Interrupted(shown') /\ \E i \in 1..Len(shown') : LastLine(shown', i)
<1>1. shown \in Seq(MarkSet) /\ c \in Nat /\ Len(shown) \in Nat
  BY DEF TtShape
<1>2. CASE TurnInterrupted
  <2>1. shown' = shown
    BY <1>2 DEF WithInterruptBlock
  <2> QED
    BY <1>2, <2>1 DEF TurnInterrupted
<1>3. CASE ~TurnInterrupted
  <2>1. Grows("interrupt", c)
    BY <1>3 DEF WithInterruptBlock, Grows
  <2>2. Grown("interrupt", c)
    BY <2>1, GrowsFacts
  <2>3. ASSUME NEW i \in 1..Len(shown), LastLine(shown, i)
        PROVE  Interrupted(shown') /\ \E k \in 1..Len(shown') : LastLine(shown', k)
    <3>1. LastLine(shown', i) /\ Interrupted(shown')
      BY <1>1, <2>1, <2>3, OtherLine DEF Grows
    <3> QED
      BY <1>1, <2>2, <3>1 DEF Grown
  <2> QED
    BY <1>3, <2>2, <2>3
<1> QED
  BY <1>2, <1>3

LEMMA EscHolds ==
  ASSUME TtInductive, Esc
  PROVE  TtInductive'
<1>1. TtShape /\ Channel /\ TtState
  BY DEF TtInductive
<1>2. PICK c : c = Current
  OBVIOUS
<1>3. c \in 0..Len(turns) /\ (c # NoTurn => c \in Turns /\ Alive(c)) /\ \A t \in Turns : Alive(t) => c # NoTurn
  BY <1>1, <1>2, CurrentFacts
<1>4. /\ turns \in Seq(TurnSet) /\ Len(turns) \in Nat /\ Turns = 1..Len(turns) /\ shown \in Seq(MarkSet)
      /\ Len(shown) \in Nat /\ ui \in UiSet
  BY <1>1 DEF TtShape, Turns
<1>5. /\ ui.running /\ events' = events /\ cmds' = cmds /\ stored' = stored /\ shown' = WithInterruptBlock
      /\ ui' = [ui EXCEPT !.escPending = (ui.cancel = NoTurn)]
      /\ turns' = [t \in Turns |->
           [turns[t] EXCEPT !.cancelled = turns[t].cancelled \/ t = ui.cancel,
                            !.esc = turns[t].esc \/ (t = c /\ ~TurnInterrupted)]]
  BY <1>2 DEF Esc
<1>6. ASSUME NEW t \in Turns
      PROVE  /\ turns'[t] \in TurnSet /\ turns'[t].kind = turns[t].kind /\ turns'[t].session = turns[t].session
             /\ turns'[t].phase = turns[t].phase /\ turns'[t].crossed = turns[t].crossed
             /\ turns'[t].esc <=> turns[t].esc \/ (t = c /\ ~TurnInterrupted)
  <2> DEFINE x == turns[t].cancelled \/ t = ui.cancel
             y == turns[t].esc \/ (t = c /\ ~TurnInterrupted)
             r == [turns[t] EXCEPT !.cancelled = x, !.esc = y]
  <2>1. turns[t] \in TurnSet
    BY <1>1, TurnFields
  <2>2. x \in BOOLEAN /\ y \in BOOLEAN
    BY <2>1, Zenon DEF TurnSet
  <2>3. turns'[t] = r
    BY <1>5
  <2> HIDE DEF x, y
  <2>4. /\ r \in TurnSet /\ r.kind = turns[t].kind /\ r.session = turns[t].session
        /\ r.phase = turns[t].phase /\ r.crossed = turns[t].crossed /\ r.esc = y
    BY <2>1, <2>2 DEF TurnSet
  <2>5. y <=> turns[t].esc \/ (t = c /\ ~TurnInterrupted)
    BY DEF y
  <2> HIDE DEF r
  <2> QED
    BY <2>3, <2>4, <2>5
<1>7. turns' \in Seq(TurnSet) /\ Len(turns') = Len(turns) /\ Turns' = Turns
  <2>1. turns' \in [1..Len(turns) -> TurnSet]
    <3>1. DOMAIN turns' = Turns /\ turns' = [t \in Turns |-> turns'[t]]
      BY <1>5
    <3> QED
      BY <1>4, <1>6, <3>1
  <2> QED
    BY <1>4, <2>1 DEF Turns
<1>8. /\ ui' \in UiSet /\ ui'.running = ui.running /\ ui'.cancel = ui.cancel /\ ui'.session = ui.session
      /\ ui'.escPending = (ui.cancel = NoTurn)
  <2>1. (ui.cancel = NoTurn) \in BOOLEAN
    OBVIOUS
  <2> QED
    BY <1>4, <1>5, <2>1 DEF UiSet
<1>9. /\ TurnInterrupted => shown' = shown
      /\ ~TurnInterrupted => Grown("interrupt", c)
      /\ (\E i \in 1..Len(shown) : LastLine(shown, i)) =>
           Interrupted(shown') /\ \E i \in 1..Len(shown') : LastLine(shown', i)
  BY <1>1, <1>2, <1>3, <1>5, MarkJoins DEF TtState
<1>10. TtShape'
  BY <1>1, <1>4, <1>5, <1>7, <1>8, <1>9 DEF TtShape, Grown
<1>11. Channel'
  <2>1. PhasesKept
    BY <1>6, <1>7 DEF PhasesKept
  <2> QED
    BY <1>1, <1>5, <2>1, ChannelStays
<1>12. \A t \in Turns : (Alive(t)' <=> Alive(t)) /\ (Marked(t)' <=> Marked(t))
  BY ZenonT(60), <1>5, <1>6 DEF Alive, Marked, Mark
<1>13. TtTypeOK'
  <2>1. ui.cancel # NoTurn => turns'[ui.cancel].phase = turns[ui.cancel].phase
    BY <1>1, <1>6 DEF TtState, TtTypeOK
  <2> QED
    BY <1>1, <1>5, <1>7, <1>8, <2>1 DEF TtState, TtTypeOK
<1>14. OneTurn'
  BY <1>1, <1>6, <1>7, <1>8, <1>12 DEF TtState, OneTurn
<1>15. Known'
  <2>1. \A i \in 1..Len(shown') : shown'[i].turn \in 0..Len(turns)
    BY <1>1, <1>9 DEF TtState, Known, Grown
  <2> QED
    BY <1>1, <1>5, <1>7, <2>1 DEF TtState, Known
<1>16. OwnShown'
  <2> SUFFICES ASSUME NEW t \in Turns, Own(t)' PROVE Displayed(t)'
    BY <1>7 DEF OwnShown
  <2>1. Own(t) /\ Displayed(t)
    BY <1>1, <1>6, <1>12 DEF Own, TtState, OwnShown
  <2>2. c = t
    <3>1. Alive(t) /\ ~turns[t].crossed /\ c \in Turns /\ Alive(c)
      BY <1>3, <2>1 DEF Own
    <3> QED
      BY <1>1, <3>1 DEF TtState, OneTurn
  <2>3. turns'[t].esc
    BY <1>6, <2>1, <2>2 DEF Displayed
  <2>4. Interrupted(shown') /\ \E i \in 1..Len(shown') : LastLine(shown', i)
    BY <1>9, <2>1 DEF Displayed
  <2>5. ui'.session = turns'[t].session /\ ~Marked(t)'
    BY <1>6, <1>8, <1>12, <2>1 DEF Displayed
  <2> QED
    BY <2>3, <2>4, <2>5 DEF Displayed, TurnInterrupted
<1>17. InterruptRecorded'
  <2> SUFFICES ASSUME NEW t \in Turns, turns'[t].kind = "user", ~Alive(t)', ~turns'[t].crossed
               PROVE  Marked(t)' <=> turns'[t].esc
    BY <1>7 DEF InterruptRecorded
  <2>1. ~Alive(t) /\ t \in Nat /\ t # NoTurn
    BY <1>1, <1>12, TurnFields
  <2>2. t # c
    BY <1>3, <2>1
  <2> QED
    BY <1>1, <1>6, <1>12, <2>1, <2>2 DEF TtState, InterruptRecorded
<1>18. InterruptIsLast'
  <2>1. CASE TurnInterrupted
    <3>1. shown' = shown
      BY <1>9, <2>1
    <3> QED
      BY SMTT(40), <1>1, <1>6, <1>7, <3>1 DEF TtState, InterruptIsLast, Mark
  <2>2. CASE ~TurnInterrupted
    BY <1>1, <1>3, <1>6, <1>7, <1>9, <2>2, LastKept DEF TtState
  <2> QED
    BY <2>1, <2>2
<1> QED
  BY <1>10, <1>11, <1>13, <1>14, <1>15, <1>16, <1>17, <1>18 DEF TtInductive, TtState

LEMMA StartedHolds ==
  ASSUME TtInductive, UpdateEvent, Head(events).what = "started"
  PROVE  TtInductive'
<1>1. TtShape /\ Channel /\ TtState
  BY DEF TtInductive
<1>2. PICK d, c : d = Head(events).turn /\ c = Current
  OBVIOUS
<1>3. c \in 0..Len(turns)
  BY <1>1, <1>2, CurrentFacts
<1>4. /\ events # <<>> /\ events' = Tail(events) /\ UpdateTurnStarted(d) /\ stored' = stored /\ cmds' = cmds
  BY <1>2 DEF UpdateEvent
<1>5. /\ events \in Seq(EventSet) /\ Head(events) = events[1] /\ 1 \in 1..Len(events)
      /\ events' \in Seq(EventSet) /\ Len(events') <= EventRoom
  <2>1. events \in Seq(EventSet) /\ Len(events) <= EventRoom /\ EventRoom \in Nat
    BY <1>1, TuiTurnsAssumption DEF TtShape, TtState, TtTypeOK, TuiTurnsAssumption
  <2> QED
    BY <1>4, <2>1, Tailed
<1>6. d \in Turns /\ turns[d].phase \in UnderWay
  BY <1>1, <1>2, <1>5 DEF Channel
<1>7. turns[d] \in TurnSet /\ d \in Nat
  BY <1>1, <1>6, TurnFields
<1>8. /\ turns' \in Seq(TurnSet) /\ Len(turns') = Len(turns) /\ Turns' = Turns
      /\ \A t \in Turns :
           /\ turns'[t].kind = turns[t].kind /\ turns'[t].session = turns[t].session
           /\ turns'[t].phase = turns[t].phase /\ turns'[t].crossed = turns[t].crossed
           /\ turns'[t].esc = turns[t].esc
  <2> DEFINE r == [turns[d] EXCEPT !.cancelled = TRUE]
  <2>1. /\ r \in TurnSet /\ r.kind = turns[d].kind /\ r.session = turns[d].session
        /\ r.phase = turns[d].phase /\ r.crossed = turns[d].crossed /\ r.esc = turns[d].esc
    <3>1. TRUE \in BOOLEAN
      OBVIOUS
    <3> QED
      BY <1>7, <3>1 DEF TurnSet
  <2>2. turns' = [turns EXCEPT ![d] = r] \/ turns' = turns
    BY <1>4 DEF UpdateTurnStarted
  <2> HIDE DEF r
  <2>3. CASE turns' = turns
    BY <1>1, <2>3 DEF Turns, TtShape
  <2>4. CASE turns' = [turns EXCEPT ![d] = r]
    <3>1. /\ turns' \in Seq(TurnSet) /\ Len(turns') = Len(turns) /\ Turns' = Turns
          /\ turns'[d] = r /\ \A s \in Turns \ {d} : turns'[s] = turns[s]
      BY <1>1, <1>6, <2>1, <2>4, TurnChanged
    <3> QED
      BY <2>1, <3>1
  <2> QED
    BY <2>2, <2>3, <2>4
<1>9. /\ ui' \in UiSet /\ ui'.running = ui.running /\ ui'.cancel = d /\ ui'.session = ui.session /\ ~ui'.escPending
  BY <1>1, <1>4, <1>7 DEF UpdateTurnStarted, TtShape, UiSet
<1>10. /\ shown' = shown \/ (ui.escPending /\ ~TurnInterrupted /\ Grown("interrupt", c))
  <2>1. CASE ~ui.escPending
    BY <1>4, <2>1 DEF UpdateTurnStarted
  <2>2. CASE ui.escPending
    <3>1. shown' = WithInterruptBlock
      BY <1>4, <2>2 DEF UpdateTurnStarted
    <3> QED
      BY <1>1, <1>2, <1>3, <2>2, <3>1, MarkJoins DEF TtState
  <2> QED
    BY <2>1, <2>2
<1>11. TtShape'
  BY <1>1, <1>4, <1>5, <1>8, <1>9, <1>10 DEF TtShape, Grown
<1>12. Channel'
  <2>1. Takes
    BY <1>4, <1>8 DEF Takes
  <2> QED
    BY <1>1, <2>1, ChannelTails
<1>13. \A t \in Turns : (Alive(t)' <=> Alive(t)) /\ (Marked(t)' <=> Marked(t))
  BY <1>4, <1>8 DEF Alive, Marked, Mark
<1>14. TtTypeOK'
  BY <1>1, <1>5, <1>6, <1>8, <1>9 DEF TtState, TtTypeOK, UnderWay
<1>15. OneTurn'
  BY <1>1, <1>8, <1>9, <1>13 DEF TtState, OneTurn
<1>16. Known'
  <2>1. \A i \in 1..Len(shown') : shown'[i].turn \in 0..Len(turns)
    BY <1>1, <1>10 DEF TtState, Known, Grown
  <2> QED
    BY <1>1, <1>4, <1>8, <2>1 DEF TtState, Known
<1>17. OwnShown'
  <2> SUFFICES ASSUME NEW t \in Turns, Own(t)' PROVE Displayed(t)'
    BY <1>8 DEF OwnShown
  <2>1. Own(t) /\ Displayed(t)
    BY <1>1, <1>8, <1>13 DEF Own, TtState, OwnShown
  <2>2. shown' = shown
    BY <1>10, <2>1 DEF Displayed
  <2>3. /\ TurnInterrupted' <=> TurnInterrupted
        /\ Shows(shown', Mark("interrupt", t)) <=> Shows(shown, Mark("interrupt", t))
    BY <2>2 DEF TurnInterrupted
  <2>4. (\E i \in 1..Len(shown') : LastLine(shown', i)) /\ ui'.session = turns'[t].session /\ ~Marked(t)'
    BY <1>8, <1>9, <1>13, <2>1, <2>2 DEF Displayed
  <2>5. turns'[t].esc = turns[t].esc
    BY <1>8
  <2> QED
    BY <1>9, <2>1, <2>3, <2>4, <2>5 DEF Displayed, Mark
<1>18. InterruptRecorded'
  BY <1>1, <1>8, <1>13 DEF TtState, InterruptRecorded
<1>19. InterruptIsLast'
  <2>1. CASE shown' = shown
    BY <1>1, <1>8, <2>1 DEF TtState, InterruptIsLast, Mark
  <2>2. CASE Grown("interrupt", c)
    BY <1>1, <1>3, <1>8, <2>2, LastKept DEF TtState
  <2> QED
    BY <1>10, <2>1, <2>2
<1> QED
  BY <1>11, <1>12, <1>14, <1>15, <1>16, <1>17, <1>18, <1>19 DEF TtInductive, TtState

LEMMA BlockHolds ==
  ASSUME TtInductive, UpdateEvent, Head(events).what = "block"
  PROVE  TtInductive'
<1>1. TtShape /\ Channel /\ TtState
  BY DEF TtInductive
<1>2. PICK d : d = Head(events).turn
  OBVIOUS
<1>3. /\ events # <<>> /\ events' = Tail(events) /\ UpdateStream(d)
      /\ ui' = ui /\ turns' = turns /\ stored' = stored /\ cmds' = cmds
  BY <1>2 DEF UpdateEvent
<1>4. /\ events \in Seq(EventSet) /\ Head(events) = events[1] /\ 1 \in 1..Len(events)
      /\ events' \in Seq(EventSet) /\ Len(events') <= EventRoom
  <2>1. events \in Seq(EventSet) /\ Len(events) <= EventRoom /\ EventRoom \in Nat
    BY <1>1, TuiTurnsAssumption DEF TtShape, TtState, TtTypeOK, TuiTurnsAssumption
  <2> QED
    BY <1>3, <2>1, Tailed
<1>5. d \in Turns /\ turns[d].phase \in UnderWay
  BY <1>1, <1>2, <1>4 DEF Channel
<1>6. d \in Nat /\ d \in 0..Len(turns) /\ Alive(d)
  BY <1>1, <1>5, TurnFields DEF Turns, TtShape, Alive, UnderWay
<1>7. shown' = shown \/ (~TurnInterrupted /\ Grows("block", d) /\ Grown("block", d))
  <2>1. shown' = shown \/ (~TurnInterrupted /\ Grows("block", d))
    BY <1>3 DEF UpdateStream, EventsTaken, Grows
  <2> QED
    BY <1>1, <1>6, <2>1, GrowsFacts DEF TtState
<1>8. TtShape'
  BY <1>1, <1>3, <1>4, <1>7 DEF TtShape, Grown
<1>9. Turns' = Turns /\ \A t \in Turns : (Alive(t)' <=> Alive(t)) /\ (Marked(t)' <=> Marked(t))
  BY <1>3 DEF Alive, Marked, Mark, Turns
<1>10. Channel'
  <2>1. Takes
    BY <1>3, <1>9 DEF Takes
  <2> QED
    BY <1>1, <2>1, ChannelTails
<1>11. TtTypeOK' /\ OneTurn' /\ InterruptRecorded'
  BY <1>1, <1>3, <1>4, <1>9 DEF TtState, TtTypeOK, OneTurn, InterruptRecorded
<1>12. Known'
  <2>1. \A i \in 1..Len(shown') : shown'[i].turn \in 0..Len(turns)
    BY <1>1, <1>7 DEF TtState, Known, Grown
  <2> QED
    BY <1>1, <1>3, <2>1 DEF TtState, Known
<1>13. OwnShown'
  <2> SUFFICES ASSUME NEW t \in Turns, Own(t)' PROVE Displayed(t)'
    BY <1>9 DEF OwnShown
  <2>1. Own(t) /\ Displayed(t)
    BY <1>1, <1>3, <1>9 DEF Own, TtState, OwnShown
  <2>2. /\ TurnInterrupted' <=> TurnInterrupted
        /\ \E i \in 1..Len(shown') : LastLine(shown', i)
        /\ Shows(shown', Mark("interrupt", t)) => Shows(shown, Mark("interrupt", t))
    <3>1. CASE shown' = shown
      BY <2>1, <3>1 DEF TurnInterrupted, Displayed
    <3>2. CASE Grows("block", d) /\ Grown("block", d)
      <4>1. shown \in Seq(MarkSet) /\ Len(shown) \in Nat /\ t \in Nat
        BY <1>1, TurnFields DEF TtShape
      <4>2. (Interrupted(shown') <=> Interrupted(shown)) /\ \A i \in Nat : LastLine(shown', i) <=> LastLine(shown, i)
        BY <1>6, <3>2, <4>1, OtherLine DEF Grows
      <4>3. PICK i \in 1..Len(shown) : LastLine(shown, i)
        BY <2>1 DEF Displayed
      <4>4. i \in 1..Len(shown') /\ LastLine(shown', i)
        BY <3>2, <4>1, <4>2, <4>3 DEF Grown
      <4>5. Mark("block", d) # Mark("interrupt", t)
        BY <1>6, <4>1, MarkFacts
      <4>6. Shows(shown', Mark("interrupt", t)) => Shows(shown, Mark("interrupt", t))
        <5> DEFINE m == Mark("interrupt", t)
        <5> HIDE DEF m
        <5>1. shown'[Len(shown) + 1] # m
          BY <3>2, <4>5 DEF Grown, m
        <5>2. ASSUME NEW k \in 1..Len(shown'), shown'[k] = m PROVE Shows(shown, m)
          <6>1. k \in 1..Len(shown) /\ shown[k] = m
            BY <3>2, <4>1, <5>1, <5>2 DEF Grown
          <6> QED
            BY <6>1 DEF Shows
        <5> QED
          BY <5>2 DEF Shows, m
      <4> QED
        BY <4>2, <4>4, <4>6 DEF TurnInterrupted
    <3> QED
      BY <1>7, <3>1, <3>2
  <2> QED
    BY <1>3, <1>9, <2>1, <2>2 DEF Displayed, Mark
<1>14. InterruptIsLast'
  <2>1. CASE shown' = shown
    BY <1>1, <1>3, <1>9, <2>1 DEF TtState, InterruptIsLast, Mark
  <2>2. CASE ~TurnInterrupted /\ Grown("block", d)
    <3>1. turns[d].kind = "user" /\ ~turns[d].crossed => ~Shows(shown, Mark("interrupt", d))
      BY <1>1, <1>5, <1>6, <2>2 DEF TtState, OwnShown, Own, Displayed
    <3> QED
      BY <1>1, <1>3, <1>6, <1>9, <2>2, <3>1, LastKept DEF TtState
  <2> QED
    BY <1>7, <2>1, <2>2
<1> QED
  BY <1>8, <1>10, <1>11, <1>12, <1>13, <1>14 DEF TtInductive, TtState

-----------------------------------------------------------------------------
(* The theorem.                                                            *)

LEMMA TtSteps == TtInductive /\ [TtNext]_ttVars => TtInductive'
<1> SUFFICES ASSUME TtInductive, [TtNext]_ttVars PROVE TtInductive'
  OBVIOUS
<1>1. CASE SubmitTurn
  BY <1>1, SubmitHolds
<1>2. CASE Esc
  BY <1>2, EscHolds
<1>3. CASE CloseOverlay
  BY <1>3, CloseOverlayHolds
<1>4. CASE UpdateEvent
  <2>1. Head(events).what \in {"started", "block", "done", "complete"}
    <3>1. events \in Seq(EventSet) /\ events # <<>>
      BY <1>4 DEF TtInductive, TtShape, UpdateEvent
    <3>2. Head(events) \in EventSet
      BY <3>1
    <3> QED
      BY <3>2 DEF EventSet
  <2> QED
    BY <1>4, <2>1, StartedHolds, BlockHolds, DoneHolds, CompleteHolds
<1>5. CASE BackgroundComplete
  BY <1>5, BackgroundHolds
<1>6. CASE \E t \in Turns : RunAsync(t) \/ RunTurn(t) \/ TurnReturns(t) \/ SendDone(t)
  BY <1>6, GoroutineHolds
<1>7. CASE RunSlash \/ ResumeSession \/ ShowContext
  BY <1>7, IssueHolds
<1>8. CASE \E i \in 1..Len(cmds) : CommandRuns(i) \/ CommandAnswered(i)
  BY <1>8, CommandRunsHolds, CommandAnsweredHolds
<1>9. CASE UNCHANGED ttVars
  <2>1. Overlaid /\ cmds' = cmds /\ events' = events
    BY <1>9 DEF ttVars, Overlaid
  <2> QED
    BY <2>1, OverlaidHolds DEF TtInductive, TtShape
<1> QED
  BY <1>1, <1>2, <1>3, <1>4, <1>5, <1>6, <1>7, <1>8, <1>9 DEF TtNext

\* The turns as the interface sees them (TurnsInv): two are under way at once, or one that the
\* interface believes over, only after a command crossed it; a turn reported done left a mark of
\* interruption in its session if and only if Esc was pressed for it; nothing of a turn is
\* displayed below its mark. For every channel, any number of turns, commands and events, and
\* every order in which they come.
THEOREM TurnsHold == TtSpec => []TurnsInv
<1>1. TtInit => TtInductive
  BY TtInitHolds
<1>2. TtInductive => TurnsInv
  BY DEF TtInductive, TtState, TurnsInv
<1> QED
  BY <1>1, <1>2, TtSteps, PTL DEF TtSpec

-----------------------------------------------------------------------------
USE ToolPermissionAssumption DEF ToolPermissionAssumption

(***************************************************************************)
(* ToolPermission. A question is in one place, of a call that waits for it *)
(* unanswered; what a call may do was allowed by its mode, by the lists or *)
(* by an answer given to it.                                               *)
(***************************************************************************)

HostSet == WebHosts \cup {Blocked, ""}
ArgSet == [risk : {"", "allow", "ask", "deny"}, path : Paths, host : HostSet]
ToolSet == (UNION {CallTools[c] : c \in PermCalls}) \cup {""}
EngineSet == [mode : PermModes, interactive : BOOLEAN, prompter : {"none", "tui", "stdin"}, allow : SUBSET HostSet]
AskingSet == [pc : {"idle", "send", "wait", "stdin", "save", "append", "run", "ran", "done"}, tool : ToolSet,
              args : ArgSet, mode : PermModes \cup {""}, answer : {"", "yes", "no", "once", "always"},
              once : SUBSET HostSet, hosts : SUBSET HostSet, base : SUBSET HostSet, lost : BOOLEAN, hops : Nat]
QuestionSet == [ch : PermCalls \cup {NoCall}, listeners : 0 .. MaxListeners, coming : SUBSET PermCalls,
                slot : PermCalls \cup {NoCall}]

TpShape ==
  /\ engine \in [Engines -> EngineSet] /\ childOf \in Engines /\ saved \subseteq HostSet
  /\ asking \in [PermCalls -> AskingSet] /\ question \in [Kinds -> QuestionSet]
  /\ screen \in [overlay : Kinds \cup {"none", "help"}, help : BOOLEAN]
  /\ mainTurn \in [running : BOOLEAN, cancelled : BOOLEAN, modes : 0 .. MaxModes]

\* A question in the channel, on its way or shown is that of a call which waits, and is at one place.
Waits ==
  \A k \in Kinds :
    /\ \A c \in PermCalls : c \in question[k].coming \/ c = question[k].ch \/ c = question[k].slot =>
         asking[c].pc = "wait" /\ asking[c].answer = "" /\ KindOf(c) = k
    /\ question[k].ch \notin question[k].coming /\ question[k].slot \notin question[k].coming
    /\ question[k].ch # NoCall => question[k].ch # question[k].slot

Put(h) == \E d \in PermCalls : asking[d].answer = "always" /\ asking[d].args.host = h
Listed(h) == h \in saved \/ Put(h)

\* Whatever the lists lose to each other, they are the list of the start and what answers put on it.
Lists ==
  /\ \A e \in Engines : \A h \in engine[e].allow : Listed(h)
  /\ \A c \in PermCalls : asking[c].pc \in {"save", "append"} => \A h \in asking[c].base : Listed(h)
  /\ \A c \in PermCalls : asking[c].pc = "save" => \A h \in saved : h \in asking[c].base \/ Put(h)

Passed(args) == args.risk # "deny" /\ args.host # Blocked /\ args.path \in {"inside", "data"}
\* The call is one that the mode does not let pass without a question.
Writes(r) == isWriteTool(r.tool) /\ r.args.risk # "allow" /\ r.mode # "auto"
Cause(r) == r.mode = "auto" \/ Listed(r.args.host) \/ r.answer = "once"

\* A call at its place: what its record says of the decision and of the answer.
Decided(r) ==
  /\ r.pc = "idle" => r.answer = "" /\ r.once = {} /\ r.hosts = {}
  /\ r.pc \notin {"idle", "done"} => Passed(r.args) /\ r.args \in Args(r.tool) /\ (Writes(r) => r.mode = "ask")
  /\ r.pc \in {"send", "stdin"} => r.answer = ""
  /\ r.pc = "stdin" => r.tool # "web_fetch"
  /\ r.answer = "yes" => r.tool # "web_fetch"
  /\ r.answer \in {"once", "always"} => r.tool = "web_fetch"
  /\ r.pc \in {"save", "append"} => r.answer = "always"
  /\ r.pc \in {"run", "ran"} => (r.args.risk = "ask" \/ Writes(r) => r.answer = "yes")
  /\ r.pc = "ran" /\ isWriteTool(r.tool) => r.args.path = "inside"
  /\ r.once # {} => r.once = {r.args.host} /\ r.answer = "once"
Caused(r) ==
  /\ r.pc \in {"run", "ran"} /\ r.tool = "web_fetch" => Cause(r)
  /\ r.hosts # {} => r.hosts = {r.args.host} /\ r.args.host # Blocked /\ Cause(r)
Calls == \A c \in PermCalls : Decided(asking[c]) /\ Caused(asking[c])

Overlays == screen.overlay \in Kinds => question[screen.overlay].slot # NoCall

TpInductive == TpShape /\ Waits /\ Lists /\ Calls /\ Overlays /\ LostOnlyToAnother

-----------------------------------------------------------------------------
(* What a step does to the record of a call.                               *)

Pcs == {"idle", "send", "wait", "stdin", "save", "append", "run", "ran", "done"}
\* The record of c becomes another; those of the other calls stay.
Only(c) == asking' \in [PermCalls -> AskingSet] /\ \A d \in PermCalls \ {c} : asking'[d] = asking[d]
Same(c) == asking'[c].tool = asking[c].tool /\ asking'[c].args = asking[c].args /\ asking'[c].mode = asking[c].mode

LEMMA Fields ==
  ASSUME NEW r \in AskingSet
  PROVE  /\ r.pc \in Pcs /\ r.tool \in ToolSet /\ r.args \in ArgSet /\ r.mode \in PermModes \cup {""}
         /\ r.answer \in {"", "yes", "no", "once", "always"} /\ r.once \subseteq HostSet /\ r.hosts \subseteq HostSet
         /\ r.base \subseteq HostSet /\ r.lost \in BOOLEAN /\ r.hops \in Nat
  BY DEF AskingSet, Pcs

LEMMA MovesFacts ==
  ASSUME TpShape, NEW c \in PermCalls, NEW pc \in Pcs, Moves(c, pc)
  PROVE  /\ Only(c) /\ Same(c) /\ asking'[c].pc = pc /\ asking'[c].answer = asking[c].answer
         /\ asking'[c].once = asking[c].once /\ asking'[c].hosts = asking[c].hosts
         /\ asking'[c].base = asking[c].base /\ asking'[c].lost = asking[c].lost
<1> DEFINE r == [asking[c] EXCEPT !.pc = pc]
<1>1. asking \in [PermCalls -> AskingSet] /\ asking[c] \in AskingSet
  BY DEF TpShape
<1>2. asking' = [asking EXCEPT ![c] = r]
  BY DEF Moves
<1>3. /\ r \in AskingSet /\ r.pc = pc /\ r.answer = asking[c].answer /\ r.tool = asking[c].tool
      /\ r.args = asking[c].args /\ r.mode = asking[c].mode /\ r.once = asking[c].once
      /\ r.hosts = asking[c].hosts /\ r.base = asking[c].base /\ r.lost = asking[c].lost
  BY <1>1 DEF AskingSet, Pcs
<1> HIDE DEF r
<1> QED
  BY <1>1, <1>2, <1>3 DEF Only, Same

\* A call with a record of its own place and answer.
LEMMA OnlyFacts ==
  ASSUME TpShape, NEW c \in PermCalls, NEW r \in AskingSet, asking' = [asking EXCEPT ![c] = r]
  PROVE  Only(c) /\ asking'[c] = r
  BY DEF TpShape, Only

\* What an answer put on a list stays listed.
LEMMA PutKept ==
  ASSUME TpShape,
         \A d \in PermCalls : asking[d].answer = "always" =>
           asking'[d].answer = "always" /\ asking'[d].args = asking[d].args,
         NEW h, Put(h)
  PROVE  Put(h)'
  BY DEF Put

\* The lists are as they were, and no call begins to write one.
ListsStay ==
  /\ saved' = saved /\ \A e \in Engines : engine'[e].allow = engine[e].allow
  /\ \A d \in PermCalls : asking[d].answer = "always" =>
       asking'[d].answer = "always" /\ asking'[d].args = asking[d].args
  /\ \A d \in PermCalls : asking'[d].pc \in {"save", "append"} =>
       asking'[d].pc = asking[d].pc /\ asking'[d].base = asking[d].base

LEMMA ListsKept ==
  ASSUME TpShape, Lists, ListsStay
  PROVE  Lists' /\ \A h : Listed(h) => Listed(h)'
<1>1. \A h : Put(h) => Put(h)'
  BY PutKept DEF ListsStay
<1>2. \A h : Listed(h) => Listed(h)'
  BY <1>1 DEF Listed, ListsStay
<1>3. \A e \in Engines : \A h \in engine'[e].allow : Listed(h)'
  BY <1>2 DEF Lists, ListsStay
<1>4. \A c \in PermCalls : asking'[c].pc \in {"save", "append"} => \A h \in asking'[c].base : Listed(h)'
  BY <1>2 DEF Lists, ListsStay
<1>5. \A c \in PermCalls : asking'[c].pc = "save" => \A h \in saved' : h \in asking'[c].base \/ Put(h)'
  BY <1>1 DEF Lists, ListsStay
<1> QED
  BY <1>2, <1>3, <1>4, <1>5 DEF Lists

\* The other calls keep their reasons.
LEMMA CausedKept ==
  ASSUME NEW d \in PermCalls, Caused(asking[d]), asking'[d] = asking[d], \A h : Listed(h) => Listed(h)'
  PROVE  Caused(asking[d])'
  BY DEF Caused, Cause

\* A step of one call that changes no question.
LEMMA CallMoves ==
  ASSUME TpInductive, NEW c \in PermCalls, Only(c), engine' \in [Engines -> EngineSet], saved' \subseteq HostSet,
         UNCHANGED <<childOf, question, screen>>, mainTurn' = mainTurn,
         ~(asking[c].pc = "wait" /\ asking[c].answer = ""),
         asking'[c].pc = "wait" => asking'[c].answer # "",
         Decided(asking[c])', Caused(asking[c])', Lists', \A h : Listed(h) => Listed(h)'
  PROVE  TpInductive'
<1>1. TpShape'
  BY DEF TpInductive, TpShape, Only
<1>2. Waits'
  <2> SUFFICES ASSUME NEW k \in Kinds
               PROVE  /\ \A d \in PermCalls : d \in question[k].coming \/ d = question[k].ch \/ d = question[k].slot =>
                           asking'[d].pc = "wait" /\ asking'[d].answer = "" /\ KindOf(d)' = k
                      /\ question[k].ch \notin question[k].coming /\ question[k].slot \notin question[k].coming
                      /\ question[k].ch # NoCall => question[k].ch # question[k].slot
    BY DEF Waits
  <2>1. ASSUME NEW d \in PermCalls, d \in question[k].coming \/ d = question[k].ch \/ d = question[k].slot
        PROVE  asking'[d].pc = "wait" /\ asking'[d].answer = "" /\ KindOf(d)' = k
    <3>1. asking[d].pc = "wait" /\ asking[d].answer = "" /\ KindOf(d) = k
      BY <2>1 DEF TpInductive, Waits
    <3>2. asking'[d] = asking[d]
      BY <3>1 DEF Only
    <3> QED
      BY <3>1, <3>2 DEF KindOf
  <2> QED
    BY <2>1 DEF TpInductive, Waits
<1>3. Calls'
  <2> SUFFICES ASSUME NEW d \in PermCalls PROVE Decided(asking[d])' /\ Caused(asking[d])'
    BY DEF Calls
  <2>1. CASE d = c
    BY <2>1
  <2>2. CASE d # c
    <3>1. asking'[d] = asking[d] /\ Decided(asking[d]) /\ Caused(asking[d])
      BY <2>2 DEF TpInductive, Calls, Only
    <3>2. Caused(asking[d])'
      BY <3>1, CausedKept
    <3> QED
      BY <3>1, <3>2
  <2> QED
    BY <2>1, <2>2
<1>4. Overlays'
  BY DEF TpInductive, Overlays
<1>5. LostOnlyToAnother'
  BY DEF TpInductive, LostOnlyToAnother, QuestionIn, In, Only
<1> QED
  BY <1>1, <1>2, <1>3, <1>4, <1>5 DEF TpInductive

-----------------------------------------------------------------------------
(* The decision.                                                           *)

LEMMA CheckFacts ==
  ASSUME TpShape, NEW c \in PermCalls, NEW tool, NEW args \in Args(tool), Check(c, tool, args) # "deny"
  PROVE  LET v == Check(c, tool, args)
             mode == engine[EngineOf(c)].mode
             writes == isWriteTool(tool) /\ args.risk # "allow" /\ mode # "auto"
         IN  /\ args \in ArgSet /\ Passed(args) /\ v \in {"allow", "tool", "web"} /\ mode \in PermModes
             /\ (v = "tool" => tool # "web_fetch") /\ (v = "web" => tool = "web_fetch")
             /\ writes => mode = "ask"
             /\ v = "allow" => args.risk # "ask" /\ ~writes /\ (tool = "web_fetch" => HostPasses(c, args.host))
<1> DEFINE e == EngineOf(c)
<1>1. e \in Engines /\ engine[e] \in EngineSet /\ engine[e].mode \in PermModes
  BY DEF TpShape, EngineOf, Engines, EngineSet
<1>2. AskTool(e) \in {"deny", "tool"}
  BY DEF AskTool
<1> HIDE DEF e
<1>3. CASE tool = "shell"
  <2>1. args \in [risk : {"allow", "ask", "deny"}, path : Paths, host : {""}]
    BY <1>3 DEF Args
  <2>2. args.risk \in {"allow", "ask", "deny"} /\ args.path \in Paths /\ args.host = "" /\ args \in ArgSet
    BY <2>1 DEF ArgSet, HostSet
  <2>3. Check(c, tool, args) = checkShellCommand(e, args)
    BY <1>3 DEF Check, e
  <2>4. args.risk # "deny" /\ args.path = "inside"
    BY <2>2, <2>3 DEF checkShellCommand, checkSensitiveShell, ResolveAccessPath, ResolveRel,
       isSensitiveAbs, Paths
  <2>5. CASE args.risk = "allow"
    <3>1. checkShellCommand(e, args) \in {"deny", "allow"}
      BY <2>4, <2>5 DEF checkShellCommand, checkSensitiveShell, ResolveAccessPath, ResolveRel,
         isSensitiveAbs
    <3> QED
      BY <1>1, <1>3, <2>2, <2>3, <2>4, <2>5, <3>1 DEF Passed, Blocked, e
  <2>6. CASE args.risk = "ask"
    <3>1. checkShellCommand(e, args) =
            IF engine[e].mode = "readonly" \/ ~engine[e].interactive THEN "deny" ELSE AskTool(e)
      BY <2>4, <2>6 DEF checkShellCommand, checkSensitiveShell, ResolveAccessPath, ResolveRel,
         isSensitiveAbs
    <3>2. checkShellCommand(e, args) = "tool" /\ engine[e].mode # "readonly"
      BY <1>2, <2>3, <3>1
    <3> QED
      BY <1>1, <1>3, <2>2, <2>3, <2>4, <2>6, <3>2 DEF Passed, Blocked, PermModes, e
  <2> QED
    BY <2>2, <2>4, <2>5, <2>6
<1>4. CASE tool = "web_fetch"
  <2>1. args \in [risk : {""}, path : {"inside"}, host : WebHosts \cup {Blocked}]
    BY <1>4 DEF Args
  <2>2. args.risk = "" /\ args.path = "inside" /\ args \in ArgSet
    BY <2>1 DEF ArgSet, HostSet, Paths
  <2>3. Check(c, tool, args) = authorizeFetchHost(c, args.host) /\ ~isWriteTool(tool)
    BY <1>4 DEF Check, isWriteTool
  <2>4. args.host # Blocked
    BY <2>3 DEF authorizeFetchHost
  <2>5. authorizeFetchHost(c, args.host) \in {"allow", "deny", "web"}
        /\ (authorizeFetchHost(c, args.host) = "allow" => HostPasses(c, args.host))
    BY <2>4 DEF authorizeFetchHost
  <2> QED
    BY <1>1, <1>4, <2>2, <2>3, <2>4, <2>5 DEF Passed, e
<1>5. CASE tool \notin {"shell", "web_fetch"}
  <2>1. args \in [risk : {""}, path : Paths, host : {""}]
    BY <1>5 DEF Args
  <2>2. args.risk = "" /\ args.path \in Paths /\ args.host = "" /\ args \in ArgSet
    BY <2>1 DEF ArgSet, HostSet
  <2>3. CASE isWriteTool(tool)
    <3>1. Check(c, tool, args) =
            IF engine[e].mode = "readonly" \/ ~CheckReadablePath(args.path) THEN "deny"
            ELSE IF engine[e].mode = "auto" THEN "allow"
            ELSE IF engine[e].interactive THEN AskTool(e) ELSE "deny"
      BY <1>5, <2>3 DEF Check, e
    <3>2. CheckReadablePath(args.path) /\ engine[e].mode # "readonly"
          /\ (Check(c, tool, args) = "allow" => engine[e].mode = "auto") /\ Check(c, tool, args) \in {"allow", "tool"}
      BY <1>2, <3>1
    <3> QED
      BY <1>1, <1>5, <2>2, <3>2
         DEF Passed, Blocked, PermModes, CheckReadablePath, resolveProjectDataRead,
            ResolveAccessPath, ResolveRel,
             isSensitiveAbs, Paths, e
  <2>4. CASE ~isWriteTool(tool)
    <3>1. Check(c, tool, args) = IF CheckReadablePath(args.path) THEN "allow" ELSE "deny"
      BY <1>5, <2>4 DEF Check
    <3> QED
      BY <1>1, <1>5, <2>2, <2>4, <3>1
         DEF Passed, Blocked, CheckReadablePath, resolveProjectDataRead, ResolveAccessPath,
            ResolveRel,
             isSensitiveAbs, Paths, e
  <2> QED
    BY <2>3, <2>4
<1> QED
  BY <1>3, <1>4, <1>5

-----------------------------------------------------------------------------
(* The steps of a call.                                                    *)

LEMMA CallStarts ==
  ASSUME TpInductive, NEW c \in PermCalls, executeTool(c)
  PROVE  TpInductive'
<1>0. TpShape /\ Lists /\ Calls /\ asking[c] \in AskingSet /\ EngineOf(c) \in Engines
  BY DEF TpInductive, TpShape, EngineOf, Engines
<1>1. PICK tool \in CallTools[c] : \E args \in Args(tool) :
        /\ In(c, {"idle"})
        /\ IF Check(c, tool, args) = "deny" THEN Moves(c, "done")
           ELSE asking' = [asking EXCEPT ![c] =
             [@ EXCEPT !.tool = tool, !.args = args, !.mode = engine[EngineOf(c)].mode,
                       !.pc = CASE Check(c, tool, args) = "allow" -> "run"
                                [] Check(c, tool, args) = "tool" ->
                                     IF engine[EngineOf(c)].prompter = "tui" THEN "send" ELSE "stdin"
                                [] Check(c, tool, args) = "web" -> "send"]]
  BY DEF executeTool, MayStart, Checked
<1>2. PICK args \in Args(tool) :
        /\ In(c, {"idle"})
        /\ IF Check(c, tool, args) = "deny" THEN Moves(c, "done")
           ELSE asking' = [asking EXCEPT ![c] =
             [@ EXCEPT !.tool = tool, !.args = args, !.mode = engine[EngineOf(c)].mode,
                       !.pc = CASE Check(c, tool, args) = "allow" -> "run"
                                [] Check(c, tool, args) = "tool" ->
                                     IF engine[EngineOf(c)].prompter = "tui" THEN "send" ELSE "stdin"
                                [] Check(c, tool, args) = "web" -> "send"]]
  BY <1>1
<1>3. UNCHANGED <<engine, childOf, saved, question, screen, mainTurn>>
  BY DEF executeTool
<1>4. asking[c].pc = "idle" /\ asking[c].answer = "" /\ asking[c].once = {} /\ asking[c].hosts = {}
  BY <1>0, <1>1 DEF In, Calls, Decided
<1>5. ASSUME Only(c), asking'[c].answer = "", asking'[c].pc \in {"run", "send", "stdin", "done"}
      PROVE  Lists' /\ \A h : Listed(h) => Listed(h)'
  <2>1. ListsStay
    BY <1>4, <1>5, <1>3 DEF Only, Same, ListsStay
  <2> QED
    BY <1>0, <2>1, ListsKept
<1>6. CASE Check(c, tool, args) = "deny"
  <2>1. /\ Only(c) /\ asking'[c].pc = "done" /\ asking'[c].answer = "" /\ asking'[c].once = {}
        /\ asking'[c].hosts = {}
    BY <1>0, <1>2, <1>4, <1>6, MovesFacts DEF Pcs
  <2>2. Decided(asking[c])' /\ Caused(asking[c])'
    BY <2>1 DEF Decided, Caused
  <2> QED
    BY <1>0, <1>3, <1>4, <1>5, <2>1, <2>2, CallMoves DEF TpShape
<1>7. CASE Check(c, tool, args) # "deny"
  <2> DEFINE v == Check(c, tool, args)
             mode == engine[EngineOf(c)].mode
             pc == IF v = "allow" THEN "run" ELSE
                   IF v = "tool" /\ engine[EngineOf(c)].prompter # "tui" THEN "stdin" ELSE "send"
             r == [asking[c] EXCEPT !.tool = tool, !.args = args, !.mode = mode, !.pc = pc]
  <2>1. /\ args \in ArgSet /\ Passed(args) /\ v \in {"allow", "tool", "web"} /\ mode \in PermModes
        /\ (v = "tool" => tool # "web_fetch") /\ (v = "web" => tool = "web_fetch")
        /\ (isWriteTool(tool) /\ args.risk # "allow" /\ mode # "auto" => mode = "ask")
        /\ v = "allow" => args.risk # "ask" /\ ~(isWriteTool(tool) /\ args.risk # "allow" /\ mode # "auto")
        /\ v = "allow" /\ tool = "web_fetch" => HostPasses(c, args.host)
    BY <1>0, <1>7, CheckFacts
  <2>2. asking' = [asking EXCEPT ![c] = r]
    BY <1>2, <1>7, <2>1
  <2>3. tool \in ToolSet /\ pc \in {"run", "send", "stdin"}
    BY DEF ToolSet
  <2>4. v = "allow" /\ tool = "web_fetch" => mode = "auto" \/ Listed(args.host)
    BY <1>0, <1>4, <2>1 DEF HostPasses, Lists
  <2>5. (pc = "run" <=> v = "allow") /\ (pc = "stdin" => v = "tool")
    BY <2>1
  <2> HIDE DEF v, mode, pc
  <2>6. /\ r \in AskingSet /\ r.pc = pc /\ r.tool = tool /\ r.args = args /\ r.mode = mode /\ r.answer = ""
        /\ r.once = {} /\ r.hosts = {}
    BY <1>0, <1>4, <2>1, <2>3 DEF AskingSet
  <2> HIDE DEF r
  <2>7. Only(c) /\ asking'[c] = r
    BY <1>0, <2>2, <2>6, OnlyFacts
  <2>8. Lists' /\ \A h : Listed(h) => Listed(h)'
    BY <1>5, <2>3, <2>6, <2>7
  <2>9. Decided(r)
    BY <2>1, <2>3, <2>5, <2>6 DEF Decided, Writes
  <2>10. Caused(asking[c])'
    BY <2>1, <2>4, <2>5, <2>3, <2>6, <2>7, <2>8 DEF Caused, Cause
  <2> QED
    BY <1>0, <1>3, <1>4, <2>3, <2>6, <2>7, <2>8, <2>9, <2>10, CallMoves DEF TpShape
<1> QED
  BY <1>6, <1>7

\* The question of the call goes into the channel.
LEMMA QuestionSent ==
  ASSUME TpInductive, NEW c \in PermCalls, Send(c)
  PROVE  TpInductive'
<1> DEFINE k == KindOf(c)
<1>0. /\ TpShape /\ Waits /\ Lists /\ Calls /\ Overlays /\ LostOnlyToAnother /\ k \in Kinds
      /\ asking[c].pc = "send" /\ question[k].ch = NoCall /\ Decided(asking[c]) /\ Caused(asking[c])
  BY DEF TpInductive, Send, In, KindOf, Kinds, Calls
<1>1. UNCHANGED <<engine, childOf, saved, screen, mainTurn>> /\ question' = [question EXCEPT ![k].ch = c] /\ Moves(c, "wait")
  BY DEF Send
<1>2. /\ Only(c) /\ Same(c) /\ asking'[c].pc = "wait" /\ asking'[c].answer = "" /\ asking'[c].answer = asking[c].answer
      /\ asking'[c].once = asking[c].once /\ asking'[c].hosts = asking[c].hosts /\ asking'[c].lost = asking[c].lost
  BY <1>0, <1>1, MovesFacts DEF Pcs, Decided
<1>3. Lists' /\ \A h : Listed(h) => Listed(h)'
  <2>1. ListsStay
    BY <1>2, <1>1 DEF Only, Same, ListsStay
  <2> QED
    BY <1>0, <2>1, ListsKept
<1> HIDE DEF k
<1>4. /\ question' \in [Kinds -> QuestionSet] /\ \A j \in Kinds \ {k} : question'[j] = question[j]
      /\ question'[k].ch = c /\ question'[k].coming = question[k].coming /\ question'[k].slot = question[k].slot
  BY <1>0, <1>1 DEF TpShape, QuestionSet
<1>5. TpShape'
  BY <1>0, <1>1, <1>2, <1>4 DEF TpShape, Only
<1>6. Waits'
  <2>1. \A d \in PermCalls : KindOf(d)' = KindOf(d)
    BY <1>2 DEF KindOf, Only, Same
  <2>2. \A d \in PermCalls \ {c} : asking'[d] = asking[d]
    BY <1>2 DEF Only
  <2>3. \A j \in Kinds : c \notin question[j].coming /\ c # question[j].slot /\ c # question[j].ch
    BY <1>0 DEF Waits
  <2>4. ASSUME NEW j \in Kinds, NEW d \in PermCalls,
               d \in question'[j].coming \/ d = question'[j].ch \/ d = question'[j].slot
        PROVE  asking'[d].pc = "wait" /\ asking'[d].answer = "" /\ KindOf(d)' = j
    <3>1. CASE d = c
      BY <1>2, <1>4, <2>1, <2>3, <2>4, <3>1 DEF k
    <3>2. CASE d # c
      <4>1. d \in question[j].coming \/ d = question[j].ch \/ d = question[j].slot
        BY <1>4, <2>4, <3>2
      <4>2. asking[d].pc = "wait" /\ asking[d].answer = "" /\ KindOf(d) = j
        BY <1>0, <4>1 DEF Waits
      <4> QED
        BY <2>1, <2>2, <3>2, <4>2
    <3> QED
      BY <3>1, <3>2
  <2>5. ASSUME NEW j \in Kinds
        PROVE  /\ question'[j].ch \notin question'[j].coming /\ question'[j].slot \notin question'[j].coming
               /\ question'[j].ch # NoCall => question'[j].ch # question'[j].slot
    <3>1. /\ question[j].ch \notin question[j].coming /\ question[j].slot \notin question[j].coming
          /\ question[j].ch # NoCall => question[j].ch # question[j].slot
      BY <1>0 DEF Waits
    <3>2. CASE j = k
      BY <1>4, <2>3, <3>1, <3>2
    <3>3. CASE j # k
      BY <1>4, <3>1, <3>3
    <3> QED
      BY <3>2, <3>3
  <2> QED
    BY <2>4, <2>5 DEF Waits
<1>7. Calls'
  <2>1. Decided(asking[c])'
    BY <1>0, <1>2 DEF Decided, Same, Writes
  <2>2. Caused(asking[c])'
    BY <1>0, <1>2, <1>3 DEF Caused, Cause, Same
  <2>3. \A d \in PermCalls \ {c} : Decided(asking[d])' /\ Caused(asking[d])'
    BY <1>0, <1>2, <1>3, CausedKept DEF Calls, Only
  <2> QED
    BY <2>1, <2>2, <2>3 DEF Calls
<1>8. Overlays'
  BY <1>0, <1>1, <1>4 DEF Overlays
<1>9. LostOnlyToAnother'
  <2> SUFFICES ASSUME NEW d \in PermCalls, asking'[d].pc = "wait" PROVE QuestionIn(d)' \/ asking'[d].lost
    BY DEF LostOnlyToAnother, In
  <2>1. CASE d = c
    BY <1>0, <1>4, <2>1 DEF QuestionIn
  <2>2. CASE d # c
    <3>1. asking'[d] = asking[d] /\ (QuestionIn(d) \/ asking[d].lost) /\ d # NoCall
      BY <1>0, <1>2, <2>2 DEF Only, LostOnlyToAnother, In
    <3> QED
      BY <1>0, <1>4, <3>1 DEF QuestionIn
  <2> QED
    BY <2>1, <2>2
<1> QED
  BY <1>3, <1>5, <1>6, <1>7, <1>8, <1>9 DEF TpInductive

\* The answer of a call that waits is in no question any more.
LEMMA CallGoesOn ==
  ASSUME TpInductive, NEW c \in PermCalls, Replied(c)
  PROVE  TpInductive'
<1> DEFINE h == asking[c].args.host
<1>0. /\ TpShape /\ Lists /\ Calls /\ asking[c] \in AskingSet /\ asking[c].pc = "wait" /\ asking[c].answer # ""
      /\ Decided(asking[c]) /\ Caused(asking[c]) /\ h \in HostSet
  <2>1. asking[c] \in AskingSet
    BY DEF TpInductive, TpShape
  <2>2. asking[c].args \in ArgSet
    BY <2>1 DEF AskingSet
  <2> QED
    BY <2>1, <2>2 DEF TpInductive, Replied, In, Calls, ArgSet
<1>1. UNCHANGED <<engine, saved, childOf, question, screen, mainTurn>>
  BY <1>0, Fields DEF Replied
<1>3. PICK pc \in Pcs : /\ Only(c) /\ Same(c) /\ asking'[c].pc = pc /\ asking'[c].answer = asking[c].answer
                        /\ asking'[c].hosts = asking[c].hosts
                        /\ asking'[c].once \in {asking[c].once, {h}}
                        /\ asking'[c].once # asking[c].once => asking[c].answer = "once"
                        /\ \/ pc = "done"
                           \/ pc = "run" /\ asking[c].answer \in {"yes", "once"}
                           \/ pc = "save" /\ asking[c].answer = "always" /\ asking'[c].base = saved
  <2>1. CASE asking[c].answer = "no"
    BY <1>0, <2>1, MovesFacts DEF Replied, Pcs
  <2>2. CASE asking[c].answer = "yes"
    BY <1>0, <2>2, MovesFacts DEF Replied, Pcs
  <2>3. CASE asking[c].answer = "once"
    <3> DEFINE r == [asking[c] EXCEPT !.pc = "run", !.once = {h}]
    <3>1. asking' = [asking EXCEPT ![c] = r]
      BY <1>0, <2>3 DEF Replied, approveOnce
    <3>2. /\ r \in AskingSet /\ r.pc = "run" /\ r.once = {h} /\ r.tool = asking[c].tool /\ r.args = asking[c].args
          /\ r.mode = asking[c].mode /\ r.answer = asking[c].answer /\ r.hosts = asking[c].hosts
      BY <1>0 DEF AskingSet
    <3> HIDE DEF r
    <3>3. Only(c) /\ asking'[c] = r
      BY <1>0, <3>1, <3>2, OnlyFacts
    <3> QED
      BY <2>3, <3>2, <3>3 DEF Same, Pcs
  <2>4. CASE asking[c].answer = "always"
    <3> DEFINE r == [asking[c] EXCEPT !.pc = "save", !.base = saved]
    <3>1. asking' = [asking EXCEPT ![c] = r]
      BY <1>0, <2>4 DEF Replied
    <3>2. /\ r \in AskingSet /\ r.pc = "save" /\ r.base = saved /\ r.tool = asking[c].tool /\ r.args = asking[c].args
          /\ r.mode = asking[c].mode /\ r.answer = asking[c].answer /\ r.hosts = asking[c].hosts
          /\ r.once = asking[c].once
      BY <1>0 DEF AskingSet, TpShape
    <3> HIDE DEF r
    <3>3. Only(c) /\ asking'[c] = r
      BY <1>0, <3>1, <3>2, OnlyFacts
    <3> QED
      BY <2>4, <3>2, <3>3 DEF Same, Pcs
  <2> QED
    BY <1>0, <2>1, <2>2, <2>3, <2>4, Fields
<1>4. (\A x : Listed(x) => Listed(x)') /\ \A x \in saved : Listed(x)'
  <2>1. \A d \in PermCalls : asking[d].answer = "always" =>
          asking'[d].answer = "always" /\ asking'[d].args = asking[d].args
    BY <1>3 DEF Only, Same
  <2>2. \A x : Put(x) => Put(x)'
    BY <1>0, <2>1, PutKept
  <2> QED
    BY <1>1, <2>2 DEF Listed
<1>5. Lists'
  <2>1. \A e \in Engines : \A x \in engine'[e].allow : Listed(x)'
    BY <1>0, <1>1, <1>4 DEF Lists
  <2>2. ASSUME NEW d \in PermCalls, asking'[d].pc \in {"save", "append"}, NEW x \in asking'[d].base
        PROVE  Listed(x)'
    <3>1. CASE d = c
      BY <1>3, <1>4, <2>2, <3>1
    <3>2. CASE d # c
      BY <1>0, <1>3, <1>4, <2>2, <3>2 DEF Only, Lists
    <3> QED
      BY <3>1, <3>2
  <2>3. ASSUME NEW d \in PermCalls, asking'[d].pc = "save", NEW x \in saved'
        PROVE  x \in asking'[d].base \/ Put(x)'
    <3>1. CASE d = c
      BY <1>1, <1>3, <2>3, <3>1
    <3>2. CASE d # c
      <4>1. asking'[d] = asking[d]
        BY <1>3, <3>2 DEF Only
      <4>2. x \in asking[d].base \/ Put(x)
        BY <1>0, <1>1, <2>3, <4>1 DEF Lists
      <4>3. \A e \in PermCalls : asking[e].answer = "always" =>
              asking'[e].answer = "always" /\ asking'[e].args = asking[e].args
        BY <1>3 DEF Only, Same
      <4> QED
        BY <1>0, <4>1, <4>2, <4>3, PutKept
    <3> QED
      BY <3>1, <3>2
  <2> QED
    BY <2>1, <2>2, <2>3 DEF Lists
<1>6. Decided(asking[c])'
  BY <1>0, <1>3 DEF Decided, Same, Writes, Args, isWriteTool
<1>7. Caused(asking[c])'
  BY <1>0, <1>3, <1>4 DEF Caused, Cause, Same, Decided
<1> QED
  BY <1>0, <1>1, <1>3, <1>4, <1>5, <1>6, <1>7, CallMoves DEF TpShape

LEMMA ListWritten ==
  ASSUME TpInductive, NEW c \in PermCalls, AppendWebAllowlist(c)
  PROVE  TpInductive'
<1> DEFINE h == asking[c].args.host
<1>0. /\ TpShape /\ Lists /\ asking[c] \in AskingSet /\ asking[c].pc = "save" /\ asking[c].answer = "always"
      /\ Decided(asking[c]) /\ Caused(asking[c]) /\ h \in HostSet /\ asking[c].base \subseteq HostSet /\ Put(h)
      /\ EngineOf(c) \in Engines /\ engine[EngineOf(c)].allow \subseteq HostSet
  <2>1. asking[c] \in AskingSet /\ asking[c].pc = "save"
    BY DEF TpInductive, TpShape, AppendWebAllowlist, In
  <2>2. asking[c].args \in ArgSet /\ asking[c].base \subseteq HostSet
    BY <2>1 DEF AskingSet
  <2>3. EngineOf(c) \in Engines /\ engine[EngineOf(c)] \in EngineSet
    BY DEF TpInductive, TpShape, EngineOf, Engines
  <2>4. Decided(asking[c]) /\ Caused(asking[c]) /\ asking[c].answer = "always"
    BY <2>1 DEF TpInductive, Calls, Decided
  <2> QED
    BY <2>1, <2>2, <2>3, <2>4 DEF TpInductive, ArgSet, EngineSet, Put
<1>1. UNCHANGED <<engine, childOf, question, screen, mainTurn>>
  BY DEF AppendWebAllowlist
<1>2. CASE Moves(c, "done") /\ saved' = saved
  <2>1. /\ Only(c) /\ Same(c) /\ asking'[c].pc = "done" /\ asking'[c].answer = asking[c].answer
        /\ asking'[c].once = asking[c].once /\ asking'[c].hosts = asking[c].hosts
    BY <1>0, <1>2, MovesFacts DEF Pcs
  <2>2. ListsStay
    BY <1>1, <1>2, <2>1 DEF Only, Same, ListsStay
  <2>3. Lists' /\ \A x : Listed(x) => Listed(x)'
    BY <1>0, <2>2, ListsKept
  <2>4. Decided(asking[c])'
    BY <1>0, <2>1 DEF Decided, Same
  <2>5. Caused(asking[c])'
    BY <1>0, <2>1, <2>3 DEF Caused, Cause, Same
  <2> QED
    BY <1>0, <1>1, <1>2, <2>1, <2>3, <2>4, <2>5, CallMoves DEF TpShape
<1>3. CASE ~(Moves(c, "done") /\ saved' = saved)
  <2> DEFINE r == [asking[c] EXCEPT !.pc = "append", !.base = engine[EngineOf(c)].allow]
  <2>1. saved' = asking[c].base \cup {h} /\ asking' = [asking EXCEPT ![c] = r]
    BY <1>3 DEF AppendWebAllowlist
  <2>2. /\ r \in AskingSet /\ r.pc = "append" /\ r.base = engine[EngineOf(c)].allow /\ r.tool = asking[c].tool
        /\ r.args = asking[c].args /\ r.mode = asking[c].mode /\ r.answer = asking[c].answer
        /\ r.hosts = asking[c].hosts /\ r.once = asking[c].once
    BY <1>0 DEF AskingSet
  <2> HIDE DEF r
  <2>3. Only(c) /\ asking'[c] = r
    BY <1>0, <2>1, <2>2, OnlyFacts
  <2>4. \A d \in PermCalls : asking[d].answer = "always" =>
          asking'[d].answer = "always" /\ asking'[d].args = asking[d].args
    BY <2>2, <2>3 DEF Only
  <2>5. \A x : Put(x) => Put(x)'
    BY <1>0, <2>4, PutKept
  <2>6. \A x \in saved : x \in asking[c].base \/ Put(x)
    BY <1>0 DEF Lists
  <2>7. \A x : Listed(x) => Listed(x)'
    BY <2>1, <2>5, <2>6 DEF Listed
  <2>8. \A x \in asking[c].base : Listed(x)
    BY <1>0 DEF Lists
  <2>9. Lists'
    <3>1. \A e \in Engines : \A x \in engine'[e].allow : Listed(x)'
      BY <1>0, <1>1, <2>7 DEF Lists
    <3>2. ASSUME NEW d \in PermCalls, asking'[d].pc \in {"save", "append"}, NEW x \in asking'[d].base
          PROVE  Listed(x)'
      <4>1. CASE d = c
        <5>1. x \in engine[EngineOf(c)].allow
          BY <2>2, <2>3, <3>2, <4>1
        <5> QED
          BY <1>0, <2>7, <5>1 DEF Lists
      <4>2. CASE d # c
        BY <1>0, <2>3, <2>7, <3>2, <4>2 DEF Only, Lists
      <4> QED
        BY <4>1, <4>2
    <3>3. ASSUME NEW d \in PermCalls, asking'[d].pc = "save", NEW x \in saved'
          PROVE  x \in asking'[d].base \/ Put(x)'
      <4>1. d # c
        BY <2>2, <2>3, <3>3
      <4>2. asking'[d] = asking[d]
        BY <2>3, <4>1 DEF Only
      <4>3. Put(x) \/ x \in saved
        BY <1>0, <2>1, <2>8, <3>3 DEF Listed
      <4>4. Put(x) \/ x \in asking[d].base
        BY <1>0, <3>3, <4>2, <4>3 DEF Lists
      <4> QED
        BY <2>5, <4>2, <4>4
    <3> QED
      BY <3>1, <3>2, <3>3 DEF Lists
  <2>10. Decided(asking[c])'
    BY <1>0, <2>2, <2>3 DEF Decided, Writes
  <2>11. Caused(asking[c])'
    BY <1>0, <2>2, <2>3, <2>7 DEF Caused, Cause
  <2>12. saved' \subseteq HostSet
    BY <1>0, <2>1
  <2> QED
    BY <1>0, <1>1, <2>2, <2>3, <2>7, <2>9, <2>10, <2>11, <2>12, CallMoves DEF TpShape
<1> QED
  BY <1>2, <1>3

LEMMA ListTaken ==
  ASSUME TpInductive, NEW c \in PermCalls, AppendAllowlist(c)
  PROVE  TpInductive'
<1> DEFINE h == asking[c].args.host
           new == asking[c].base \cup {h}
<1>0. /\ TpShape /\ Lists /\ asking[c] \in AskingSet /\ asking[c].pc = "append" /\ asking[c].answer = "always"
      /\ Decided(asking[c]) /\ Caused(asking[c]) /\ new \subseteq HostSet /\ Put(h) /\ EngineOf(c) \in Engines
  <2>1. asking[c] \in AskingSet /\ asking[c].pc = "append"
    BY DEF TpInductive, TpShape, AppendAllowlist, In
  <2>2. asking[c].args \in ArgSet /\ asking[c].base \subseteq HostSet
    BY <2>1 DEF AskingSet
  <2>3. EngineOf(c) \in Engines
    BY DEF TpInductive, TpShape, EngineOf, Engines
  <2>4. Decided(asking[c]) /\ Caused(asking[c]) /\ asking[c].answer = "always"
    BY <2>1 DEF TpInductive, Calls, Decided
  <2> QED
    BY <2>1, <2>2, <2>3, <2>4 DEF TpInductive, ArgSet, Put
<1>1. UNCHANGED <<childOf, saved, question, screen, mainTurn>> /\ Moves(c, "run")
      /\ engine' = [engine EXCEPT ![EngineOf(c)].allow = new]
  BY DEF AppendAllowlist
<1>2. /\ Only(c) /\ Same(c) /\ asking'[c].pc = "run" /\ asking'[c].answer = asking[c].answer
      /\ asking'[c].once = asking[c].once /\ asking'[c].hosts = asking[c].hosts
  BY <1>0, <1>1, MovesFacts DEF Pcs
<1> HIDE DEF new
<1>3. engine' \in [Engines -> EngineSet]
      /\ \A e \in Engines : engine'[e].allow = IF e = EngineOf(c) THEN new ELSE engine[e].allow
  BY <1>0, <1>1 DEF TpShape, EngineSet
<1>4. \A d \in PermCalls : asking[d].answer = "always" =>
        asking'[d].answer = "always" /\ asking'[d].args = asking[d].args
  BY <1>2 DEF Only, Same
<1>5. \A x : Put(x) => Put(x)'
  BY <1>0, <1>4, PutKept
<1>6. \A x : Listed(x) => Listed(x)'
  BY <1>1, <1>5 DEF Listed
<1>7. Lists'
  <2>1. ASSUME NEW e \in Engines, NEW x \in engine'[e].allow PROVE Listed(x)'
    <3>1. x \in new \/ x \in engine[e].allow
      BY <1>3, <2>1
    <3>2. Listed(x)
      BY <1>0, <3>1 DEF Lists, Listed, new
    <3> QED
      BY <1>6, <3>2
  <2>2. ASSUME NEW d \in PermCalls, asking'[d].pc \in {"save", "append"}
        PROVE  /\ \A x \in asking'[d].base : Listed(x)'
               /\ asking'[d].pc = "save" => \A x \in saved' : x \in asking'[d].base \/ Put(x)'
    <3>1. asking'[d] = asking[d]
      BY <1>2, <2>2 DEF Only
    <3> QED
      BY <1>0, <1>1, <1>5, <1>6, <2>2, <3>1 DEF Lists
  <2> QED
    BY <2>1, <2>2 DEF Lists
<1>8. Decided(asking[c])'
  BY <1>0, <1>2 DEF Decided, Same, Writes, Args, isWriteTool
<1>9. Caused(asking[c])'
  BY <1>0, <1>2, <1>5 DEF Caused, Cause, Same, Listed
<1> QED
  BY <1>0, <1>1, <1>2, <1>3, <1>6, <1>7, <1>8, <1>9, CallMoves DEF TpShape

\* The call runs, is sent on, ends, or takes the answer of the terminal.
LEMMA CallRuns ==
  ASSUME TpInductive, NEW c \in PermCalls, ExecuteTool(c) \/ Fetch(c) \/ Redirect(c) \/ Finish(c) \/ StdinAnswer(c)
  PROVE  TpInductive'
<1>0. /\ TpShape /\ Lists /\ asking[c] \in AskingSet /\ Decided(asking[c]) /\ Caused(asking[c])
      /\ asking[c].pc \in {"run", "ran", "stdin"} /\ asking[c].args \in ArgSet /\ asking[c].args.host \in HostSet
  <2>1. asking[c] \in AskingSet /\ asking[c].pc \in {"run", "ran", "stdin"}
    BY DEF TpInductive, TpShape, ExecuteTool, Fetch, Redirect, Finish, StdinAnswer, In
  <2>2. asking[c].args \in ArgSet
    BY <2>1 DEF AskingSet
  <2> QED
    BY <2>1, <2>2 DEF TpInductive, Calls, ArgSet
<1>1. UNCHANGED <<engine, childOf, saved, question, screen, mainTurn>>
  BY DEF ExecuteTool, Fetch, Redirect, Finish, StdinAnswer
<1>2. ASSUME Only(c), Same(c), asking'[c].pc \notin {"save", "append"}, asking'[c].pc = "wait" => asking'[c].answer # "",
             asking'[c].answer = asking[c].answer \/ asking[c].answer = "",
             Decided(asking[c])', (\A h : Listed(h) => Listed(h)') => Caused(asking[c])'
      PROVE  TpInductive'
  <2>1. ListsStay
    BY <1>1, <1>2 DEF Only, Same, ListsStay
  <2>2. Lists' /\ \A h : Listed(h) => Listed(h)'
    BY <1>0, <2>1, ListsKept
  <2>3. Caused(asking[c])'
    BY <1>2, <2>2
  <2>4. ~(asking[c].pc = "wait" /\ asking[c].answer = "") /\ engine' \in [Engines -> EngineSet] /\ saved' \subseteq HostSet
    BY <1>0, <1>1 DEF TpShape
  <2> QED
    BY <1>0, <1>1, <1>2, <2>2, <2>3, <2>4, CallMoves
<1>3. CASE ExecuteTool(c)
  <2> DEFINE pc == IF isWriteTool(asking[c].tool) /\ ~ResolveRel(asking[c].args.path) THEN "done" ELSE "ran"
  <2>1. asking[c].pc = "run" /\ asking[c].tool # "web_fetch" /\ Moves(c, pc) /\ pc \in {"done", "ran"}
    BY <1>3 DEF ExecuteTool, In
  <2>2. pc = "ran" /\ isWriteTool(asking[c].tool) => asking[c].args.path = "inside"
    BY <1>0, <2>1 DEF Decided, Passed, ResolveRel
  <2> HIDE DEF pc
  <2>3. pc \in Pcs
    BY <2>1 DEF Pcs
  <2>4. /\ Only(c) /\ Same(c) /\ asking'[c].pc = pc /\ asking'[c].answer = asking[c].answer
        /\ asking'[c].once = asking[c].once /\ asking'[c].hosts = asking[c].hosts
    BY <1>0, <2>1, <2>3, MovesFacts
  <2>5. Decided(asking[c])'
    BY <1>0, <2>1, <2>2, <2>4 DEF Decided, Same, Writes
  <2>6. (\A h : Listed(h) => Listed(h)') => Caused(asking[c])'
    BY <1>0, <2>1, <2>4 DEF Caused, Cause, Same
  <2> QED
    BY <1>2, <2>1, <2>4, <2>5, <2>6
<1>4. CASE Finish(c)
  <2>1. asking[c].pc = "ran" /\ Moves(c, "done")
    BY <1>4 DEF Finish, In
  <2>2. /\ Only(c) /\ Same(c) /\ asking'[c].pc = "done" /\ asking'[c].answer = asking[c].answer
        /\ asking'[c].once = asking[c].once /\ asking'[c].hosts = asking[c].hosts
    BY <1>0, <2>1, MovesFacts DEF Pcs
  <2>3. Decided(asking[c])'
    BY <1>0, <2>1, <2>2 DEF Decided, Same, Writes
  <2>4. (\A h : Listed(h) => Listed(h)') => Caused(asking[c])'
    BY <1>0, <2>1, <2>2 DEF Caused, Cause, Same
  <2> QED
    BY <1>2, <2>1, <2>2, <2>3, <2>4
<1>5. CASE Redirect(c)
  <2> DEFINE more == asking[c].hops + 1
             r == [asking[c] EXCEPT !.pc = "run", !.hops = more]
  <2>0. more \in Nat
    <3>1. asking[c].hops \in Nat
      BY <1>0 DEF AskingSet
    <3> QED
      BY <3>1
  <2>1. asking[c].pc = "ran" /\ asking[c].tool = "web_fetch" /\ asking' = [asking EXCEPT ![c] = r]
    BY <1>5 DEF Redirect, In
  <2> HIDE DEF more
  <2>2. /\ r \in AskingSet /\ r.pc = "run" /\ r.tool = asking[c].tool /\ r.args = asking[c].args
        /\ r.mode = asking[c].mode /\ r.answer = asking[c].answer /\ r.hosts = asking[c].hosts /\ r.once = asking[c].once
    BY <1>0, <2>0 DEF AskingSet
  <2> HIDE DEF r
  <2>3. Only(c) /\ asking'[c] = r
    BY <1>0, <2>1, <2>2, OnlyFacts
  <2>4. Decided(asking[c])'
    BY ZenonT(60), <1>0, <2>1, <2>2, <2>3 DEF Decided, Writes, isWriteTool
  <2>5. (\A h : Listed(h) => Listed(h)') => Caused(asking[c])'
    BY <1>0, <2>1, <2>2, <2>3 DEF Caused, Cause
  <2> QED
    BY <1>2, <2>1, <2>2, <2>3, <2>4, <2>5 DEF Same
<1>6. CASE Fetch(c)
  <2>1. asking[c].pc = "run" /\ asking[c].tool = "web_fetch"
    BY <1>6 DEF Fetch, In
  <2>2. CASE ~CheckFetchHost(c, asking[c].args.host)
    <3>1. Moves(c, "done")
      BY <1>6, <2>2 DEF Fetch
    <3>2. /\ Only(c) /\ Same(c) /\ asking'[c].pc = "done" /\ asking'[c].answer = asking[c].answer
          /\ asking'[c].once = asking[c].once /\ asking'[c].hosts = asking[c].hosts
      BY <1>0, <3>1, MovesFacts DEF Pcs
    <3>3. Decided(asking[c])'
      BY <1>0, <2>1, <3>2 DEF Decided, Same, Writes
    <3>4. (\A h : Listed(h) => Listed(h)') => Caused(asking[c])'
      BY <1>0, <2>1, <3>2 DEF Caused, Cause, Same
    <3> QED
      BY <1>2, <3>2, <3>3, <3>4
  <2>3. CASE CheckFetchHost(c, asking[c].args.host)
    <3> DEFINE r == [asking[c] EXCEPT !.pc = "ran", !.hosts = {asking[c].args.host}]
    <3>1. asking' = [asking EXCEPT ![c] = r]
      BY <1>6, <2>3 DEF Fetch
    <3>2. /\ r \in AskingSet /\ r.pc = "ran" /\ r.tool = asking[c].tool /\ r.args = asking[c].args
          /\ r.mode = asking[c].mode /\ r.answer = asking[c].answer /\ r.hosts = {asking[c].args.host}
          /\ r.once = asking[c].once
      BY <1>0 DEF AskingSet
    <3> HIDE DEF r
    <3>3. Only(c) /\ asking'[c] = r
      BY <1>0, <3>1, <3>2, OnlyFacts
    <3>4. Decided(asking[c])'
      BY <1>0, <2>1, <3>2, <3>3 DEF Decided, Writes, isWriteTool
    <3>5. (\A h : Listed(h) => Listed(h)') => Caused(asking[c])'
      BY <1>0, <2>1, <2>3, <3>2, <3>3 DEF Caused, Cause, CheckFetchHost
    <3> QED
      BY <1>2, <3>2, <3>3, <3>4, <3>5 DEF Same
  <2> QED
    BY <2>2, <2>3
<1>7. CASE StdinAnswer(c)
  <2>1. PICK a \in {"yes", "no"} : asking' = [asking EXCEPT ![c].answer = a, ![c].pc = "wait"]
    BY <1>7 DEF StdinAnswer
  <2> DEFINE r == [asking[c] EXCEPT !.answer = a, !.pc = "wait"]
  <2>2. asking[c].pc = "stdin" /\ asking' = [asking EXCEPT ![c] = r]
    BY <1>0, <1>7, <2>1 DEF StdinAnswer, In, TpShape
  <2>3. /\ r \in AskingSet /\ r.pc = "wait" /\ r.tool = asking[c].tool /\ r.args = asking[c].args
        /\ r.mode = asking[c].mode /\ r.answer = a /\ r.hosts = asking[c].hosts /\ r.once = asking[c].once
    BY <1>0 DEF AskingSet
  <2> HIDE DEF r
  <2>4. Only(c) /\ asking'[c] = r
    BY <1>0, <2>2, <2>3, OnlyFacts
  <2>5. Decided(asking[c])' /\ asking[c].answer = ""
    BY <1>0, <2>2, <2>3, <2>4 DEF Decided, Writes
  <2>6. (\A h : Listed(h) => Listed(h)') => Caused(asking[c])'
    BY <1>0, <2>2, <2>3, <2>4, <2>5 DEF Caused, Cause
  <2> QED
    BY <1>2, <2>3, <2>4, <2>5, <2>6 DEF Same
<1> QED
  BY <1>3, <1>4, <1>5, <1>6, <1>7

-----------------------------------------------------------------------------
(* The questions.                                                          *)

LEMMA ArmedFacts ==
  ASSUME NEW q \in QuestionSet
  PROVE  /\ Armed(q) \in QuestionSet /\ Armed(q).ch = q.ch /\ Armed(q).coming = q.coming /\ Armed(q).slot = q.slot
<1>1. q.listeners \in 0 .. MaxListeners
  BY DEF QuestionSet
<1> DEFINE n == IF q.listeners < MaxListeners THEN q.listeners + 1 ELSE q.listeners
<1>2. n \in 0 .. MaxListeners
  BY <1>1
<1>3. Armed(q) = [q EXCEPT !.listeners = n]
  BY DEF Armed
<1> HIDE DEF n
<1> QED
  BY <1>2, <1>3 DEF QuestionSet

\* A call is at a place of the questions.
At(k, c) == c \in question[k].coming \/ c = question[k].ch \/ c = question[k].slot

LEMMA WaitsAt ==
  ASSUME Waits, NEW k \in Kinds, NEW c \in PermCalls, At(k, c)
  PROVE  asking[c].pc = "wait" /\ asking[c].answer = "" /\ KindOf(c) = k
  BY DEF Waits, At

\* A step of the questions: no call moves; one that is answered or lost leaves its place.
LEMMA QuestionMoves ==
  ASSUME TpInductive, asking' \in [PermCalls -> AskingSet], question' \in [Kinds -> QuestionSet],
         screen' \in [overlay : Kinds \cup {"none", "help"}, help : BOOLEAN],
         mainTurn' \in [running : BOOLEAN, cancelled : BOOLEAN, modes : 0 .. MaxModes],
         UNCHANGED <<engine, childOf, saved>>,
         \A c \in PermCalls :
           /\ asking'[c].pc = asking[c].pc /\ asking'[c].base = asking[c].base /\ asking'[c].hosts = asking[c].hosts
           /\ asking'[c].once = asking[c].once /\ Same(c)
           /\ asking'[c].answer # asking[c].answer =>
                /\ \E k \in Kinds : At(k, c) /\ \A j \in Kinds : ~At(j, c)'
                /\ asking'[c].answer \in (IF KindOf(c) = "web" THEN {"once", "always", "no"} ELSE {"yes", "no"})
           /\ \A k \in Kinds : /\ At(k, c)' => At(k, c)
                               /\ At(k, c) /\ ~At(k, c)' => asking'[c].answer # "" \/ asking'[c].lost
           /\ asking[c].lost => asking'[c].lost,
         \A k \in Kinds : /\ question'[k].ch \notin question'[k].coming /\ question'[k].slot \notin question'[k].coming
                          /\ question'[k].ch # NoCall => question'[k].ch # question'[k].slot,
         Overlays'
  PROVE  TpInductive'
<1>0. TpShape /\ Waits /\ Lists /\ Calls /\ LostOnlyToAnother
  BY DEF TpInductive
<1>1. TpShape'
  BY <1>0 DEF TpShape
<1>2. \A c \in PermCalls : \A k \in Kinds :
        At(k, c) => asking[c].pc = "wait" /\ asking[c].answer = "" /\ KindOf(c) = k
  BY <1>0, WaitsAt
<1>3. Waits'
  <2>1. ASSUME NEW k \in Kinds, NEW c \in PermCalls, At(k, c)'
        PROVE  asking'[c].pc = "wait" /\ asking'[c].answer = "" /\ KindOf(c)' = k
    <3>1. At(k, c) /\ asking'[c].pc = asking[c].pc /\ asking'[c].answer = asking[c].answer /\ Same(c)
      BY <2>1
    <3>2. asking[c].pc = "wait" /\ asking[c].answer = "" /\ KindOf(c) = k
      BY <1>2, <3>1
    <3> QED
      BY <3>1, <3>2 DEF KindOf, Same
  <2> SUFFICES ASSUME NEW k \in Kinds
               PROVE  /\ \A c \in PermCalls :
                           c \in question'[k].coming \/ c = question'[k].ch \/ c = question'[k].slot =>
                             asking'[c].pc = "wait" /\ asking'[c].answer = "" /\ KindOf(c)' = k
                      /\ question'[k].ch \notin question'[k].coming /\ question'[k].slot \notin question'[k].coming
                      /\ question'[k].ch # NoCall => question'[k].ch # question'[k].slot
    BY DEF Waits
  <2>2. ASSUME NEW c \in PermCalls, c \in question'[k].coming \/ c = question'[k].ch \/ c = question'[k].slot
        PROVE  asking'[c].pc = "wait" /\ asking'[c].answer = "" /\ KindOf(c)' = k
    <3>1. At(k, c)'
      BY <2>2 DEF At
    <3> QED
      BY <2>1, <3>1
  <2>3. /\ question'[k].ch \notin question'[k].coming /\ question'[k].slot \notin question'[k].coming
        /\ question'[k].ch # NoCall => question'[k].ch # question'[k].slot
    OBVIOUS
  <2> QED
    BY <2>2, <2>3
<1>4. \A c \in PermCalls : asking'[c].answer # asking[c].answer => asking[c].pc = "wait" /\ asking[c].answer = ""
  BY <1>2
<1>5. ListsStay
  BY <1>4 DEF ListsStay, Same
<1>6. Lists' /\ \A h : Listed(h) => Listed(h)'
  BY <1>0, <1>5, ListsKept
<1>7. Calls'
  <2> SUFFICES ASSUME NEW c \in PermCalls PROVE Decided(asking[c])' /\ Caused(asking[c])'
    BY DEF Calls
  <2>1. Decided(asking[c]) /\ Caused(asking[c])
    BY <1>0 DEF Calls
  <2>2. asking'[c].pc = asking[c].pc /\ asking'[c].hosts = asking[c].hosts /\ asking'[c].once = asking[c].once
        /\ Same(c)
    OBVIOUS
  <2>3. CASE asking'[c].answer = asking[c].answer
    <3>1. Decided(asking[c])'
      BY <2>1, <2>2, <2>3 DEF Decided, Same, Writes
    <3>2. Caused(asking[c])'
      BY <1>6, <2>1, <2>2, <2>3 DEF Caused, Cause, Same
    <3> QED
      BY <3>1, <3>2
  <2>4. CASE asking'[c].answer # asking[c].answer
    <3>1. /\ asking[c].pc = "wait" /\ asking[c].answer = ""
          /\ asking'[c].answer \in (IF asking[c].tool = "web_fetch" THEN {"once", "always", "no"} ELSE {"yes", "no"})
      BY <1>4, <2>4 DEF KindOf
    <3>2. Decided(asking[c])'
      BY <2>1, <2>2, <3>1 DEF Decided, Same, Writes
    <3>3. Caused(asking[c])'
      BY <1>6, <2>1, <2>2, <3>1 DEF Caused, Cause, Same
    <3> QED
      BY <3>2, <3>3
  <2> QED
    BY <2>3, <2>4
<1>8. LostOnlyToAnother'
  <2> SUFFICES ASSUME NEW c \in PermCalls, asking'[c].pc = "wait" PROVE QuestionIn(c)' \/ asking'[c].lost
    BY DEF LostOnlyToAnother, In
  <2>1. asking[c].pc = "wait"
    OBVIOUS
  <2>2. asking[c].answer # "" \/ asking[c].lost \/ \E k \in Kinds : At(k, c)
    BY <1>0, <2>1 DEF LostOnlyToAnother, In, QuestionIn, At
  <2>3. CASE asking[c].answer # ""
    BY <1>4, <2>3 DEF QuestionIn
  <2>4. CASE asking[c].lost
    BY <2>4
  <2>5. ASSUME NEW k \in Kinds, At(k, c) PROVE QuestionIn(c)' \/ asking'[c].lost
    <3>1. At(k, c)' \/ asking'[c].answer # "" \/ asking'[c].lost
      BY <2>5
    <3> QED
      BY <3>1 DEF QuestionIn, At
  <2> QED
    BY <2>2, <2>3, <2>4, <2>5
<1> QED
  BY <1>1, <1>3, <1>6, <1>7, <1>8 DEF TpInductive

LEMMA Listened ==
  ASSUME TpInductive, NEW k \in Kinds, Listen(k)
  PROVE  TpInductive'
<1> DEFINE q == question[k]
           n == q.listeners - 1
           r == [q EXCEPT !.listeners = n, !.coming = @ \cup {q.ch}, !.ch = NoCall]
<1>0. /\ TpShape /\ Waits /\ Overlays /\ q \in QuestionSet /\ q.ch \in PermCalls /\ n \in 0 .. MaxListeners
  <2>1. TpShape /\ Waits /\ Overlays /\ q \in QuestionSet /\ q.ch # NoCall /\ q.listeners > 0
    BY DEF TpInductive, TpShape, Listen
  <2>2. q.listeners \in 0 .. MaxListeners /\ q.ch \in PermCalls
    BY <2>1 DEF QuestionSet
  <2> QED
    BY <2>1, <2>2
<1>1. UNCHANGED <<engine, childOf, saved, asking, screen, mainTurn>> /\ question' = [question EXCEPT ![k] = r]
  BY DEF Listen
<1> HIDE DEF n
<1>2. r \in QuestionSet /\ r.ch = NoCall /\ r.coming = q.coming \cup {q.ch} /\ r.slot = q.slot
  BY <1>0 DEF QuestionSet
<1> HIDE DEF r
<1>3. question' \in [Kinds -> QuestionSet] /\ question'[k] = r /\ \A j \in Kinds \ {k} : question'[j] = question[j]
  BY <1>0, <1>1, <1>2 DEF TpShape
<1>4. \A c \in PermCalls : \A j \in Kinds : At(j, c)' <=> At(j, c)
  <2> SUFFICES ASSUME NEW c \in PermCalls, NEW j \in Kinds PROVE At(j, c)' <=> At(j, c)
    OBVIOUS
  <2>1. CASE j = k
    BY <1>2, <1>3, <2>1 DEF At
  <2>2. CASE j # k
    BY <1>3, <2>2 DEF At
  <2> QED
    BY <2>1, <2>2
<1>5. ASSUME NEW j \in Kinds
      PROVE  /\ question'[j].ch \notin question'[j].coming /\ question'[j].slot \notin question'[j].coming
             /\ question'[j].ch # NoCall => question'[j].ch # question'[j].slot
  <2>1. /\ question[j].ch \notin question[j].coming /\ question[j].slot \notin question[j].coming
        /\ question[j].ch # NoCall => question[j].ch # question[j].slot
    BY <1>0 DEF Waits
  <2>2. CASE j = k
    <3>1. NoCall \notin q.coming
      BY <1>0 DEF QuestionSet
    <3> QED
      BY <1>0, <1>2, <1>3, <2>1, <2>2, <3>1
  <2>3. CASE j # k
    BY <1>3, <2>1, <2>3
  <2> QED
    BY <2>2, <2>3
<1>6. Overlays'
  BY <1>0, <1>1, <1>2, <1>3 DEF Overlays
<1>7. /\ asking' \in [PermCalls -> AskingSet] /\ screen' \in [overlay : Kinds \cup {"none", "help"}, help : BOOLEAN]
      /\ mainTurn' \in [running : BOOLEAN, cancelled : BOOLEAN, modes : 0 .. MaxModes]
  BY <1>0, <1>1 DEF TpShape
<1> QED
  BY <1>1, <1>3, <1>4, <1>5, <1>6, <1>7, QuestionMoves DEF Same

\* The question takes the slot; whoever was there is lost.
LEMMA Shown ==
  ASSUME TpInductive, NEW k \in Kinds, NEW c \in PermCalls, ShowQuestion(k, c)
  PROVE  TpInductive'
<1> DEFINE q == question[k]
           r == [q EXCEPT !.coming = @ \ {c}, !.slot = c]
<1>0. TpShape /\ Waits /\ Overlays /\ q \in QuestionSet /\ c \in q.coming
  BY DEF TpInductive, TpShape, ShowQuestion
<1>1. /\ UNCHANGED <<engine, childOf, saved, mainTurn>> /\ question' = [question EXCEPT ![k] = Armed(r)]
      /\ screen' = [screen EXCEPT !.overlay = k]
      /\ asking' = [d \in PermCalls |-> IF d = q.slot THEN [asking[d] EXCEPT !.lost = TRUE] ELSE asking[d]]
  <2>1. question' = [question EXCEPT ![k] = Armed(r)]
    BY DEF ShowQuestion
  <2>2. /\ UNCHANGED <<engine, childOf, saved, mainTurn>> /\ screen' = [screen EXCEPT !.overlay = k]
        /\ asking' = [d \in PermCalls |-> IF d = q.slot THEN [asking[d] EXCEPT !.lost = TRUE] ELSE asking[d]]
    BY DEF ShowQuestion
  <2> QED
    BY <2>1, <2>2
<1>2. r \in QuestionSet /\ r.ch = q.ch /\ r.coming = q.coming \ {c} /\ r.slot = c
  BY <1>0 DEF QuestionSet
<1> HIDE DEF r
<1> DEFINE a == Armed(r)
<1>3. a \in QuestionSet /\ a.ch = q.ch /\ a.coming = q.coming \ {c} /\ a.slot = c
  BY <1>2, ArmedFacts
<1> HIDE DEF a
<1>4. question' \in [Kinds -> QuestionSet] /\ question'[k] = a /\ \A j \in Kinds \ {k} : question'[j] = question[j]
  BY <1>0, <1>1, <1>3 DEF TpShape, a
<1>5. /\ asking' \in [PermCalls -> AskingSet]
      /\ \A d \in PermCalls :
           /\ asking'[d].pc = asking[d].pc /\ asking'[d].base = asking[d].base /\ asking'[d].hosts = asking[d].hosts
           /\ asking'[d].once = asking[d].once /\ Same(d) /\ asking'[d].answer = asking[d].answer
           /\ (asking[d].lost \/ d = q.slot => asking'[d].lost)
  <2>1. ASSUME NEW d \in PermCalls
        PROVE  LET b == [asking[d] EXCEPT !.lost = TRUE]
               IN  b \in AskingSet /\ b.pc = asking[d].pc /\ b.base = asking[d].base /\ b.hosts = asking[d].hosts
                   /\ b.once = asking[d].once /\ b.tool = asking[d].tool /\ b.args = asking[d].args
                   /\ b.mode = asking[d].mode /\ b.answer = asking[d].answer /\ b.lost = TRUE
    <3>1. asking[d] \in AskingSet /\ TRUE \in BOOLEAN
      BY <1>0 DEF TpShape
    <3> QED
      BY <3>1 DEF AskingSet
  <2>2. \A d \in PermCalls : asking[d] \in AskingSet /\ asking[d].lost \in BOOLEAN
    BY <1>0, Fields DEF TpShape
  <2>3. \A d \in PermCalls : asking'[d] = IF d = q.slot THEN [asking[d] EXCEPT !.lost = TRUE] ELSE asking[d]
    BY <1>1
  <2>4. asking' \in [PermCalls -> AskingSet]
    BY <1>1, <2>1, <2>2
  <2>5. ASSUME NEW d \in PermCalls
        PROVE  /\ asking'[d].pc = asking[d].pc /\ asking'[d].base = asking[d].base /\ asking'[d].hosts = asking[d].hosts
               /\ asking'[d].once = asking[d].once /\ Same(d) /\ asking'[d].answer = asking[d].answer
               /\ (asking[d].lost \/ d = q.slot => asking'[d].lost)
    <3>1. CASE d = q.slot
      BY ZenonT(60), <2>1, <2>2, <2>3, <3>1 DEF Same
    <3>2. CASE d # q.slot
      <4>1. asking'[d] = asking[d] /\ asking[d].lost \in BOOLEAN
        BY <2>2, <2>3, <3>2
      <4> QED
        BY <3>2, <4>1 DEF Same
    <3> QED
      BY <3>1, <3>2
  <2> QED
    BY <2>4, <2>5
<1>6. \A d \in PermCalls : \A j \in Kinds : /\ At(j, d)' => At(j, d)
                                            /\ At(j, d) /\ ~At(j, d)' => asking'[d].lost
  <2> SUFFICES ASSUME NEW d \in PermCalls, NEW j \in Kinds
               PROVE  (At(j, d)' => At(j, d)) /\ (At(j, d) /\ ~At(j, d)' => asking'[d].lost)
    OBVIOUS
  <2>1. CASE j = k
    <3>1. At(k, d)' <=> d \in (q.coming \ {c}) \cup {c} \/ d = q.ch
      BY <1>3, <1>4 DEF At
    <3>2. At(k, d) <=> d \in q.coming \/ d = q.ch \/ d = q.slot
      BY DEF At
    <3> QED
      BY <1>0, <1>5, <2>1, <3>1, <3>2
  <2>2. CASE j # k
    BY <1>4, <2>2 DEF At
  <2> QED
    BY <2>1, <2>2
<1>7. ASSUME NEW j \in Kinds
      PROVE  /\ question'[j].ch \notin question'[j].coming /\ question'[j].slot \notin question'[j].coming
             /\ question'[j].ch # NoCall => question'[j].ch # question'[j].slot
  <2>1. /\ question[j].ch \notin question[j].coming /\ question[j].slot \notin question[j].coming
        /\ question[j].ch # NoCall => question[j].ch # question[j].slot
    BY <1>0 DEF Waits
  <2>2. CASE j = k
    BY <1>0, <1>3, <1>4, <2>1, <2>2
  <2>3. CASE j # k
    BY <1>4, <2>1, <2>3
  <2> QED
    BY <2>2, <2>3
<1>8. /\ screen' \in [overlay : Kinds \cup {"none", "help"}, help : BOOLEAN] /\ screen'.overlay = k
      /\ mainTurn' \in [running : BOOLEAN, cancelled : BOOLEAN, modes : 0 .. MaxModes]
  BY <1>0, <1>1 DEF TpShape
<1>9. Overlays'
  BY <1>3, <1>4, <1>8 DEF Overlays
<1>10. UNCHANGED <<engine, childOf, saved>>
  BY <1>1
<1>11. \A d \in PermCalls :
         /\ asking'[d].pc = asking[d].pc /\ asking'[d].base = asking[d].base /\ asking'[d].hosts = asking[d].hosts
         /\ asking'[d].once = asking[d].once /\ Same(d)
         /\ asking'[d].answer # asking[d].answer =>
              /\ \E j \in Kinds : At(j, d) /\ \A i \in Kinds : ~At(i, d)'
              /\ asking'[d].answer \in (IF KindOf(d) = "web" THEN {"once", "always", "no"} ELSE {"yes", "no"})
         /\ \A j \in Kinds : /\ At(j, d)' => At(j, d)
                             /\ At(j, d) /\ ~At(j, d)' => asking'[d].answer # "" \/ asking'[d].lost
         /\ asking[d].lost => asking'[d].lost
  <2> SUFFICES ASSUME NEW d \in PermCalls
               PROVE  /\ asking'[d].pc = asking[d].pc /\ asking'[d].base = asking[d].base /\ asking'[d].hosts = asking[d].hosts
                      /\ asking'[d].once = asking[d].once /\ Same(d) /\ asking'[d].answer = asking[d].answer
                      /\ \A j \in Kinds : /\ At(j, d)' => At(j, d)
                                          /\ At(j, d) /\ ~At(j, d)' => asking'[d].answer # "" \/ asking'[d].lost
                      /\ asking[d].lost => asking'[d].lost
    OBVIOUS
  <2>1. /\ asking'[d].pc = asking[d].pc /\ asking'[d].base = asking[d].base /\ asking'[d].hosts = asking[d].hosts
        /\ asking'[d].once = asking[d].once /\ Same(d) /\ asking'[d].answer = asking[d].answer
        /\ asking[d].lost => asking'[d].lost
    BY <1>5
  <2>2. \A j \in Kinds : /\ At(j, d)' => At(j, d)
                         /\ At(j, d) /\ ~At(j, d)' => asking'[d].lost
    BY <1>6
  <2> QED
    BY <2>1, <2>2
<1> QED
  BY <1>4, <1>5, <1>7, <1>8, <1>9, <1>10, <1>11, QuestionMoves

\* The questions in some slots are answered and leave them.
LEMMA Answered ==
  ASSUME TpInductive, NEW kinds \in SUBSET Kinds, UNCHANGED <<engine, childOf, saved>>,
         question' \in [Kinds -> QuestionSet],
         \A k \in Kinds : /\ question'[k].ch = question[k].ch /\ question'[k].coming = question[k].coming
                          /\ question'[k].slot = IF k \in kinds THEN NoCall ELSE question[k].slot,
         asking' \in [PermCalls -> AskingSet],
         \A c \in PermCalls :
           /\ asking'[c].pc = asking[c].pc /\ asking'[c].base = asking[c].base /\ asking'[c].hosts = asking[c].hosts
           /\ asking'[c].once = asking[c].once /\ Same(c) /\ asking'[c].lost = asking[c].lost
           /\ \A k \in kinds : c = question[k].slot =>
                asking'[c].answer \in (IF k = "web" THEN {"once", "always", "no"} ELSE {"yes", "no"})
           /\ (\A k \in kinds : c # question[k].slot) => asking'[c].answer = asking[c].answer,
         screen' \in [overlay : Kinds \cup {"none", "help"}, help : BOOLEAN],
         mainTurn' \in [running : BOOLEAN, cancelled : BOOLEAN, modes : 0 .. MaxModes], Overlays'
  PROVE  TpInductive'
<1>0. TpShape /\ Waits
  BY DEF TpInductive
<1>1. ASSUME NEW j \in Kinds
      PROVE  /\ question'[j].ch \notin question'[j].coming /\ question'[j].slot \notin question'[j].coming
             /\ question'[j].ch # NoCall => question'[j].ch # question'[j].slot
  <2>1. /\ question[j].ch \notin question[j].coming /\ question[j].slot \notin question[j].coming
        /\ question[j].ch # NoCall => question[j].ch # question[j].slot
    BY <1>0 DEF Waits
  <2>2. /\ question'[j].ch = question[j].ch /\ question'[j].coming = question[j].coming
        /\ question'[j].slot = IF j \in kinds THEN NoCall ELSE question[j].slot
    OBVIOUS
  <2>3. NoCall \notin question[j].coming
    BY <1>0 DEF TpShape, QuestionSet
  <2> QED
    BY <2>1, <2>2, <2>3
<1>2. \A c \in PermCalls : \A j \in Kinds :
        At(j, c)' <=> c \in question[j].coming \/ c = question[j].ch \/ (j \notin kinds /\ c = question[j].slot)
  <2> SUFFICES ASSUME NEW c \in PermCalls, NEW j \in Kinds
               PROVE  At(j, c)' <=> c \in question[j].coming \/ c = question[j].ch
                                   \/ (j \notin kinds /\ c = question[j].slot)
    OBVIOUS
  <2>1. /\ question'[j].ch = question[j].ch /\ question'[j].coming = question[j].coming
        /\ question'[j].slot = IF j \in kinds THEN NoCall ELSE question[j].slot
    OBVIOUS
  <2> QED
    BY <2>1 DEF At
<1>3. ASSUME NEW c \in PermCalls
      PROVE  /\ asking'[c].pc = asking[c].pc /\ asking'[c].base = asking[c].base /\ asking'[c].hosts = asking[c].hosts
             /\ asking'[c].once = asking[c].once /\ Same(c)
             /\ asking'[c].answer # asking[c].answer =>
                  /\ \E k \in Kinds : At(k, c) /\ \A j \in Kinds : ~At(j, c)'
                  /\ asking'[c].answer \in (IF KindOf(c) = "web" THEN {"once", "always", "no"} ELSE {"yes", "no"})
             /\ \A k \in Kinds : /\ At(k, c)' => At(k, c)
                                 /\ At(k, c) /\ ~At(k, c)' => asking'[c].answer # "" \/ asking'[c].lost
             /\ asking[c].lost => asking'[c].lost
  <2>1. /\ asking'[c].pc = asking[c].pc /\ asking'[c].base = asking[c].base /\ asking'[c].hosts = asking[c].hosts
        /\ asking'[c].once = asking[c].once /\ Same(c) /\ asking'[c].lost = asking[c].lost
    OBVIOUS
  <2>2. ASSUME NEW k \in kinds, c = question[k].slot
        PROVE  /\ At(k, c) /\ k = KindOf(c) /\ \A j \in Kinds : ~At(j, c)'
               /\ asking'[c].answer \in (IF k = "web" THEN {"once", "always", "no"} ELSE {"yes", "no"})
    <3>1. At(k, c)
      BY <2>2 DEF At
    <3>2. \A j \in Kinds : At(j, c) => KindOf(c) = j
      BY ZenonT(60), <1>0, WaitsAt
    <3>3. question[k].slot \notin question[k].coming /\ (question[k].ch # NoCall => question[k].ch # question[k].slot)
      BY <1>0 DEF Waits
    <3>4. c \notin question[k].coming /\ c # question[k].ch
      BY <2>2, <3>3
    <3>5. ASSUME NEW j \in Kinds, At(j, c)' PROVE FALSE
      <4>1. At(j, c) /\ (j = k => At(k, c)')
        BY <1>2, <3>5 DEF At
      <4> QED
        BY <1>2, <3>1, <3>2, <3>4, <4>1
    <3> QED
      BY <2>2, <3>1, <3>2, <3>5
  <2>3. ASSUME NEW k \in Kinds, At(k, c), ~At(k, c)' PROVE k \in kinds /\ c = question[k].slot
    BY <1>2, <2>3 DEF At
  <2>4. \A k \in Kinds : At(k, c)' => At(k, c)
    BY <1>2 DEF At
  <2>5. CASE \E k \in kinds : c = question[k].slot
    <3>1. PICK k \in kinds : c = question[k].slot
      BY <2>5
    <3>2. /\ At(k, c) /\ k = KindOf(c) /\ \A j \in Kinds : ~At(j, c)'
          /\ asking'[c].answer \in (IF KindOf(c) = "web" THEN {"once", "always", "no"} ELSE {"yes", "no"})
      BY <2>2, <3>1
    <3>3. asking'[c].answer # ""
      BY <3>2
    <3> QED
      BY <2>1, <2>4, <3>2, <3>3
  <2>6. CASE \A k \in kinds : c # question[k].slot
    <3>1. asking'[c].answer = asking[c].answer
      BY <2>6
    <3> QED
      BY <2>1, <2>3, <2>4, <2>6, <3>1
  <2> QED
    BY <2>5, <2>6
<1> QED
  BY <1>1, <1>3, QuestionMoves

\* No question and no call moves.
LEMMA ScreenMoves ==
  ASSUME TpInductive, UNCHANGED <<asking, question, childOf, saved>>, engine' \in [Engines -> EngineSet],
         \A e \in Engines : engine'[e].allow = engine[e].allow,
         screen' \in [overlay : Kinds \cup {"none", "help"}, help : BOOLEAN],
         mainTurn' \in [running : BOOLEAN, cancelled : BOOLEAN, modes : 0 .. MaxModes], Overlays'
  PROVE  TpInductive'
<1>1. ListsStay
  BY DEF ListsStay
<1>2. Lists' /\ \A h : Listed(h) => Listed(h)'
  BY <1>1, ListsKept DEF TpInductive
<1>3. TpShape' /\ Waits'
  BY ZenonT(60) DEF TpInductive, TpShape, Waits, KindOf
<1>4. Calls'
  <2> SUFFICES ASSUME NEW c \in PermCalls PROVE Decided(asking[c])' /\ Caused(asking[c])'
    BY DEF Calls
  <2>1. Decided(asking[c]) /\ Caused(asking[c]) /\ asking'[c] = asking[c]
    BY DEF TpInductive, Calls
  <2>2. Caused(asking[c])'
    BY <1>2, <2>1, CausedKept
  <2> QED
    BY <2>1, <2>2
<1>5. LostOnlyToAnother'
  BY DEF TpInductive, LostOnlyToAnother, QuestionIn, In
<1> QED
  BY <1>2, <1>3, <1>4, <1>5 DEF TpInductive

LEMMA KeyAnswers ==
  ASSUME TpInductive, NEW k \in Kinds, Answer(k)
  PROVE  TpInductive'
<1> DEFINE q == question[k]
           c == q.slot
<1>0. /\ TpShape /\ Waits /\ Overlays /\ q \in QuestionSet /\ c \in PermCalls /\ screen.overlay = k
      /\ \A j \in Kinds : At(j, c) => j = k
  <2>1. TpShape /\ Waits /\ Overlays /\ q \in QuestionSet /\ c # NoCall /\ screen.overlay = k
    BY DEF TpInductive, TpShape, Answer, Asked
  <2>2. c \in PermCalls /\ At(k, c)
    BY <2>1 DEF QuestionSet, At
  <2>3. \A j \in Kinds : At(j, c) => KindOf(c) = j
    BY <2>1, <2>2, WaitsAt
  <2> QED
    BY <2>1, <2>2, <2>3
<1>1. UNCHANGED <<engine, childOf, saved, mainTurn>>
  BY DEF Answer
<1>2. PICK a \in (IF k = "web" THEN {"once", "always"} ELSE {"yes"}) \cup {"no", "esc", "other"} :
        IF a = "other" THEN question' = [question EXCEPT ![k] = Armed(@)] /\ UNCHANGED <<asking, screen>>
        ELSE /\ asking' = [asking EXCEPT ![question[k].slot].answer = IF a = "esc" THEN "no" ELSE a]
             /\ question' = [question EXCEPT ![k] = Armed([@ EXCEPT !.slot = NoCall])]
             /\ screen' = [screen EXCEPT !.overlay = "none"]
  BY DEF Answer
<1>3. mainTurn' \in [running : BOOLEAN, cancelled : BOOLEAN, modes : 0 .. MaxModes]
  BY <1>0, <1>1 DEF TpShape
<1>4. CASE a = "other"
  <2> DEFINE r == Armed(q)
  <2>1. r \in QuestionSet /\ r.ch = q.ch /\ r.coming = q.coming /\ r.slot = q.slot
    BY <1>0, ArmedFacts
  <2>2. question' = [question EXCEPT ![k] = r] /\ UNCHANGED <<asking, screen>>
    BY <1>2, <1>4
  <2> HIDE DEF r
  <2>3. /\ question' \in [Kinds -> QuestionSet]
        /\ \A j \in Kinds : /\ question'[j].ch = question[j].ch /\ question'[j].coming = question[j].coming
                            /\ question'[j].slot = IF j \in {} THEN NoCall ELSE question[j].slot
    BY <1>0, <2>1, <2>2 DEF TpShape
  <2>4. Overlays'
    BY <1>0, <2>2, <2>3 DEF Overlays
  <2>5. /\ asking' \in [PermCalls -> AskingSet] /\ screen' \in [overlay : Kinds \cup {"none", "help"}, help : BOOLEAN]
        /\ \A d \in PermCalls :
             /\ asking'[d].pc = asking[d].pc /\ asking'[d].base = asking[d].base /\ asking'[d].hosts = asking[d].hosts
             /\ asking'[d].once = asking[d].once /\ Same(d) /\ asking'[d].lost = asking[d].lost
             /\ \A j \in {} : d = question[j].slot =>
                  asking'[d].answer \in (IF j = "web" THEN {"once", "always", "no"} ELSE {"yes", "no"})
             /\ (\A j \in {} : d # question[j].slot) => asking'[d].answer = asking[d].answer
    BY <1>0, <2>2 DEF TpShape, Same
  <2> DEFINE kinds == {}
  <2>6. kinds \in SUBSET Kinds
    OBVIOUS
  <2> HIDE DEF kinds
  <2> QED
    BY <1>1, <1>3, <2>3, <2>4, <2>5, <2>6, Answered DEF kinds
<1>5. CASE a # "other"
  <2> DEFINE said == IF a = "esc" THEN "no" ELSE a
             r == [q EXCEPT !.slot = NoCall]
             b == Armed(r)
             new == [asking[c] EXCEPT !.answer = said]
  <2>1. /\ asking' = [asking EXCEPT ![c] = new] /\ question' = [question EXCEPT ![k] = b]
        /\ screen' = [screen EXCEPT !.overlay = "none"]
    BY <1>0, <1>2, <1>5 DEF TpShape
  <2>2. r \in QuestionSet /\ r.ch = q.ch /\ r.coming = q.coming /\ r.slot = NoCall
    BY <1>0 DEF QuestionSet
  <2> HIDE DEF r
  <2>3. b \in QuestionSet /\ b.ch = q.ch /\ b.coming = q.coming /\ b.slot = NoCall
    BY <2>2, ArmedFacts
  <2>4. said \in (IF k = "web" THEN {"once", "always", "no"} ELSE {"yes", "no"})
    BY <1>5
  <2>5. said \in {"", "yes", "no", "once", "always"}
    BY <2>4
  <2> HIDE DEF said, b
  <2>6. asking[c] \in AskingSet
    BY <1>0 DEF TpShape
  <2>7. /\ new \in AskingSet /\ new.pc = asking[c].pc /\ new.base = asking[c].base /\ new.hosts = asking[c].hosts
        /\ new.once = asking[c].once /\ new.tool = asking[c].tool /\ new.args = asking[c].args
        /\ new.mode = asking[c].mode /\ new.lost = asking[c].lost /\ new.answer = said
    BY <2>5, <2>6 DEF AskingSet
  <2> HIDE DEF new
  <2>8. asking' \in [PermCalls -> AskingSet] /\ asking'[c] = new /\ \A d \in PermCalls \ {c} : asking'[d] = asking[d]
    BY <1>0, <2>1, <2>7 DEF TpShape
  <2>9. question' \in [Kinds -> QuestionSet] /\ question'[k] = b /\ \A j \in Kinds \ {k} : question'[j] = question[j]
    BY <1>0, <2>1, <2>3 DEF TpShape
  <2> DEFINE kinds == {k}
  <2>10. \A j \in Kinds : /\ question'[j].ch = question[j].ch /\ question'[j].coming = question[j].coming
                          /\ question'[j].slot = IF j \in kinds THEN NoCall ELSE question[j].slot
    BY <2>3, <2>9
  <2>11. screen' \in [overlay : Kinds \cup {"none", "help"}, help : BOOLEAN] /\ screen'.overlay = "none"
    BY <1>0, <2>1 DEF TpShape
  <2>12. Overlays'
    BY <2>11 DEF Overlays, Kinds
  <2>13. ASSUME NEW d \in PermCalls
         PROVE  /\ asking'[d].pc = asking[d].pc /\ asking'[d].base = asking[d].base /\ asking'[d].hosts = asking[d].hosts
                /\ asking'[d].once = asking[d].once /\ Same(d) /\ asking'[d].lost = asking[d].lost
                /\ \A j \in kinds : d = question[j].slot =>
                     asking'[d].answer \in (IF j = "web" THEN {"once", "always", "no"} ELSE {"yes", "no"})
                /\ (\A j \in kinds : d # question[j].slot) => asking'[d].answer = asking[d].answer
    <3>1. CASE d = c
      BY <2>4, <2>7, <2>8, <3>1 DEF Same
    <3>2. CASE d # c
      BY <2>8, <3>2 DEF Same
    <3> QED
      BY <3>1, <3>2
  <2>14. kinds \in SUBSET Kinds
    OBVIOUS
  <2> HIDE DEF kinds
  <2> QED
    BY <1>1, <1>3, <2>8, <2>9, <2>10, <2>11, <2>12, <2>13, <2>14, Answered
<1> QED
  BY <1>4, <1>5

LEMMA Cancels ==
  ASSUME TpInductive, RequestCancel
  PROVE  TpInductive'
<1> DEFINE kinds == {k \in Kinds : question[k].slot # NoCall}
           clear(k) == [question[k] EXCEPT !.slot = NoCall]
<1>0. TpShape /\ Overlays /\ \A k \in Kinds : question[k] \in QuestionSet
  BY DEF TpInductive, TpShape
<1>1. /\ mainTurn' = [mainTurn EXCEPT !.cancelled = TRUE] /\ UNCHANGED <<engine, childOf, saved>>
      /\ asking' = [c \in PermCalls |-> IF c \in DeniedByCancel THEN [asking[c] EXCEPT !.answer = "no"] ELSE asking[c]]
      /\ question' = [k \in Kinds |-> IF Asked(k) THEN Armed(clear(k)) ELSE clear(k)]
      /\ screen' = [screen EXCEPT !.overlay = IF DeniedByCancel # {} THEN "none" ELSE @]
  BY DEF RequestCancel
<1>2. \A k \in Kinds : /\ clear(k) \in QuestionSet /\ clear(k).ch = question[k].ch
                       /\ clear(k).coming = question[k].coming /\ clear(k).slot = NoCall
  BY <1>0 DEF QuestionSet
<1> HIDE DEF clear
<1>3. ASSUME NEW k \in Kinds
      PROVE  question'[k] \in QuestionSet /\ question'[k].ch = question[k].ch
             /\ question'[k].coming = question[k].coming /\ question'[k].slot = NoCall
  <2>1. CASE Asked(k)
    <3>1. question'[k] = Armed(clear(k))
      BY <1>1, <2>1
    <3> QED
      BY <1>2, <3>1, ArmedFacts
  <2>2. CASE ~Asked(k)
    BY <1>1, <1>2, <2>2
  <2> QED
    BY <2>1, <2>2
<1>4. question' \in [Kinds -> QuestionSet]
  BY <1>1, <1>3
<1>5. ASSUME NEW c \in PermCalls PROVE c \in DeniedByCancel <=> \E k \in kinds : c = question[k].slot
  BY DEF DeniedByCancel
<1>6. \A k \in Kinds : /\ question'[k].ch = question[k].ch /\ question'[k].coming = question[k].coming
                       /\ question'[k].slot = IF k \in kinds THEN NoCall ELSE question[k].slot
  BY <1>3
<1>7. ASSUME NEW c \in PermCalls
      PROVE  LET b == [asking[c] EXCEPT !.answer = "no"]
             IN  /\ b \in AskingSet /\ b.pc = asking[c].pc /\ b.base = asking[c].base /\ b.hosts = asking[c].hosts
                 /\ b.once = asking[c].once /\ b.tool = asking[c].tool /\ b.args = asking[c].args
                 /\ b.mode = asking[c].mode /\ b.lost = asking[c].lost /\ b.answer = "no"
  <2>1. asking[c] \in AskingSet
    BY <1>0 DEF TpShape
  <2> QED
    BY <2>1 DEF AskingSet
<1>8. asking' \in [PermCalls -> AskingSet]
  BY <1>0, <1>1, <1>7 DEF TpShape
<1>9. ASSUME NEW c \in PermCalls
      PROVE  /\ asking'[c].pc = asking[c].pc /\ asking'[c].base = asking[c].base /\ asking'[c].hosts = asking[c].hosts
             /\ asking'[c].once = asking[c].once /\ Same(c) /\ asking'[c].lost = asking[c].lost
             /\ \A k \in kinds : c = question[k].slot =>
                  asking'[c].answer \in (IF k = "web" THEN {"once", "always", "no"} ELSE {"yes", "no"})
             /\ (\A k \in kinds : c # question[k].slot) => asking'[c].answer = asking[c].answer
  <2>1. CASE c \in DeniedByCancel
    <3>1. asking'[c] = [asking[c] EXCEPT !.answer = "no"] /\ \E k \in kinds : c = question[k].slot
      BY <1>1, <1>5, <2>1
    <3> QED
      BY <1>7, <3>1 DEF Same
  <2>2. CASE c \notin DeniedByCancel
    <3>1. asking'[c] = asking[c] /\ ~\E k \in kinds : c = question[k].slot
      BY <1>1, <1>5, <2>2
    <3> QED
      BY <3>1 DEF Same
  <2> QED
    BY <2>1, <2>2
<1>10. /\ screen' \in [overlay : Kinds \cup {"none", "help"}, help : BOOLEAN]
       /\ mainTurn' \in [running : BOOLEAN, cancelled : BOOLEAN, modes : 0 .. MaxModes]
  <2>1. TRUE \in BOOLEAN
    OBVIOUS
  <2> QED
    BY <1>0, <1>1, <2>1 DEF TpShape
<1>11. Overlays'
  <2> SUFFICES screen'.overlay \notin Kinds
    BY DEF Overlays
  <2>1. CASE DeniedByCancel # {}
    <3>1. screen'.overlay = "none"
      BY <1>0, <1>1, <2>1 DEF TpShape
    <3> QED
      BY <3>1 DEF Kinds
  <2>2. CASE DeniedByCancel = {}
    <3>1. screen'.overlay = screen.overlay
      BY <1>0, <1>1, <2>2 DEF TpShape
    <3>2. \A k \in Kinds : question[k].slot = NoCall
      BY <2>2 DEF DeniedByCancel
    <3> QED
      BY <1>0, <3>1, <3>2 DEF Overlays
  <2> QED
    BY <2>1, <2>2
<1>12. kinds \in SUBSET Kinds
  OBVIOUS
<1> HIDE DEF kinds
<1> QED
  BY <1>1, <1>4, <1>6, <1>8, <1>9, <1>10, <1>11, <1>12, Answered

LEMMA IdleStep ==
  ASSUME TpInductive, UpdateHelp \/ KeyHelp \/ Dismiss \/ TurnDone \/ \E mode \in PermModes : Permissions(mode)
  PROVE  TpInductive'
<1>0. TpShape /\ Overlays /\ TRUE \in BOOLEAN /\ FALSE \in BOOLEAN
  BY DEF TpInductive
<1>1. UNCHANGED <<asking, question, childOf, saved>>
  BY DEF UpdateHelp, KeyHelp, Dismiss, TurnDone, Permissions
<1>2. engine' \in [Engines -> EngineSet] /\ \A e \in Engines : engine'[e].allow = engine[e].allow
  <2>1. CASE engine' = engine
    BY <1>0, <2>1 DEF TpShape
  <2>2. CASE \E mode \in PermModes : Permissions(mode)
    <3>1. PICK mode \in PermModes : engine' = [engine EXCEPT !["main"].mode = mode,
                                              !["main"].prompter = IF mode = "ask" THEN "stdin" ELSE "none"]
      BY <2>2 DEF Permissions
    <3> DEFINE prompter == IF mode = "ask" THEN "stdin" ELSE "none"
               r == [engine["main"] EXCEPT !.mode = mode, !.prompter = prompter]
    <3>2. engine' = [engine EXCEPT !["main"] = r]
      BY <1>0, <3>1 DEF TpShape, Engines
    <3>3. prompter \in {"none", "tui", "stdin"}
      OBVIOUS
    <3> HIDE DEF prompter
    <3>4. r \in EngineSet /\ r.allow = engine["main"].allow
      BY ZenonT(60), <1>0, <3>3 DEF TpShape, EngineSet, Engines
    <3> HIDE DEF r
    <3> QED
      BY <1>0, <3>2, <3>4 DEF TpShape
  <2> QED
    BY <2>1, <2>2 DEF UpdateHelp, KeyHelp, Dismiss, TurnDone
<1>3. /\ screen' \in [overlay : Kinds \cup {"none", "help"}, help : BOOLEAN]
      /\ screen'.overlay \in {screen.overlay, "none", "help"}
  <2>1. CASE screen' = screen
    BY <1>0, <2>1 DEF TpShape
  <2>2. CASE UpdateHelp
    BY <1>0, <2>2 DEF UpdateHelp
  <2>3. CASE KeyHelp
    BY <1>0, <2>3 DEF KeyHelp, TpShape
  <2>4. CASE Dismiss
    BY <1>0, <2>4 DEF Dismiss, TpShape
  <2> QED
    BY <2>1, <2>2, <2>3, <2>4 DEF TurnDone, Permissions
<1>4. mainTurn' \in [running : BOOLEAN, cancelled : BOOLEAN, modes : 0 .. MaxModes]
  <2>1. CASE mainTurn' = mainTurn
    BY <1>0, <2>1 DEF TpShape
  <2>2. CASE TurnDone
    BY <1>0, <2>2 DEF TurnDone, TpShape
  <2>3. CASE \E mode \in PermModes : Permissions(mode)
    <3> DEFINE n == mainTurn.modes + 1
    <3>1. mainTurn.modes \in 0 .. MaxModes /\ mainTurn.modes < MaxModes
      BY <1>0, <2>3 DEF TpShape, Permissions
    <3>2. n \in 0 .. MaxModes
      BY <3>1
    <3>3. mainTurn' = [mainTurn EXCEPT !.modes = n]
      BY <2>3 DEF Permissions
    <3> HIDE DEF n
    <3> QED
      BY <1>0, <3>2, <3>3 DEF TpShape
  <2> QED
    BY <2>1, <2>2, <2>3 DEF UpdateHelp, KeyHelp, Dismiss
<1>5. Overlays'
  BY <1>0, <1>1, <1>3 DEF Overlays, Kinds
<1> QED
  BY <1>1, <1>2, <1>3, <1>4, <1>5, ScreenMoves

LEMMA TpInits == TpInit => TpInductive
<1> SUFFICES ASSUME TpInit PROVE TpInductive
  OBVIOUS
<1>0. TRUE \in BOOLEAN /\ FALSE \in BOOLEAN
  OBVIOUS
<1>1. /\ NewCall \in AskingSet /\ NewCall.pc = "idle" /\ NewCall.answer = "" /\ NewCall.once = {}
      /\ NewCall.hosts = {}
  <2> DEFINE args == [risk |-> "", path |-> "inside", host |-> ""]
  <2>1. args \in ArgSet
    BY DEF ArgSet, Paths, HostSet
  <2>2. "" \in ToolSet
    BY DEF ToolSet
  <2>3. NewCall = [pc |-> "idle", tool |-> "", args |-> args, mode |-> "", answer |-> "", once |-> {}, hosts |-> {},
                   base |-> {}, lost |-> FALSE, hops |-> 0]
    BY DEF NewCall
  <2> HIDE DEF args
  <2> QED
    BY <1>0, <2>1, <2>2, <2>3 DEF AskingSet
<1>2. PICK mode \in PermModes, tty \in BOOLEAN, listed \in {{}, WebHosts} :
        /\ engine = [e \in Engines |->
             [mode |-> IF e = "readonly" THEN "readonly" ELSE mode,
              interactive |-> e # "readonly" /\ (tty \/ mode = "ask"),
              prompter |-> IF mode = "ask" /\ e # "readonly" THEN "tui" ELSE "none",
              allow |-> listed]]
        /\ saved = listed
  BY DEF TpInit
<1>3. saved \subseteq HostSet
  BY <1>2 DEF HostSet
<1>4. engine \in [Engines -> EngineSet] /\ \A e \in Engines : engine[e].allow = saved
  <2> SUFFICES ASSUME NEW e \in Engines PROVE engine[e] \in EngineSet /\ engine[e].allow = saved
    BY <1>2
  <2> DEFINE m == IF e = "readonly" THEN "readonly" ELSE mode
             i == e # "readonly" /\ (tty \/ mode = "ask")
             p == IF mode = "ask" /\ e # "readonly" THEN "tui" ELSE "none"
  <2>1. engine[e] = [mode |-> m, interactive |-> i, prompter |-> p, allow |-> saved]
    BY <1>2
  <2>2. m \in PermModes /\ i \in BOOLEAN /\ p \in {"none", "tui", "stdin"}
    BY DEF PermModes
  <2> HIDE DEF m, i, p
  <2> QED
    BY <1>3, <2>1, <2>2 DEF EngineSet
<1>5. /\ question = [k \in Kinds |-> [ch |-> NoCall, listeners |-> 1, coming |-> {}, slot |-> NoCall]]
      /\ question \in [Kinds -> QuestionSet]
  BY DEF TpInit, QuestionSet
<1>6. /\ screen = [overlay |-> "none", help |-> FALSE]
      /\ screen \in [overlay : Kinds \cup {"none", "help"}, help : BOOLEAN]
      /\ mainTurn \in [running : BOOLEAN, cancelled : BOOLEAN, modes : 0 .. MaxModes]
  BY <1>0 DEF TpInit
<1>7. asking \in [PermCalls -> AskingSet] /\ \A c \in PermCalls : asking[c] = NewCall
  BY <1>1 DEF TpInit
<1>8. TpShape
  BY <1>3, <1>4, <1>5, <1>6, <1>7 DEF TpShape, TpInit
<1>9. Waits
  BY <1>5 DEF Waits
<1>10. Lists
  BY <1>1, <1>4, <1>7 DEF Lists, Listed
<1>11. Calls
  BY <1>1, <1>7 DEF Calls, Decided, Caused
<1>12. Overlays
  BY <1>6 DEF Overlays, Kinds
<1>13. LostOnlyToAnother
  BY <1>1, <1>7 DEF LostOnlyToAnother, In
<1> QED
  BY <1>8, <1>9, <1>10, <1>11, <1>12, <1>13 DEF TpInductive

LEMMA TpSteps == TpInductive /\ [TpNext]_tpVars => TpInductive'
<1> SUFFICES ASSUME TpInductive, [TpNext]_tpVars PROVE TpInductive'
  OBVIOUS
<1>1. ASSUME NEW c \in PermCalls, CallStep(c) \/ StdinAnswer(c) PROVE TpInductive'
  BY <1>1, CallStarts, QuestionSent, CallGoesOn, ListWritten, ListTaken, CallRuns DEF CallStep
<1>2. CASE UiStep
  BY <1>2, Listened, Shown DEF UiStep
<1>3. CASE EscCancels
  BY <1>3, Cancels DEF EscCancels
<1>4. ASSUME NEW k \in Kinds, Answer(k) PROVE TpInductive'
  BY <1>4, KeyAnswers
<1>5. CASE UpdateHelp \/ KeyHelp \/ Dismiss \/ TurnDone \/ \E mode \in PermModes : Permissions(mode)
  BY <1>5, IdleStep
<1>6. CASE UNCHANGED tpVars
  <2>1. Overlays' /\ engine' \in [Engines -> EngineSet]
        /\ screen' \in [overlay : Kinds \cup {"none", "help"}, help : BOOLEAN]
        /\ mainTurn' \in [running : BOOLEAN, cancelled : BOOLEAN, modes : 0 .. MaxModes]
    BY <1>6 DEF tpVars, TpInductive, TpShape, Overlays
  <2> QED
    BY <1>6, <2>1, ScreenMoves DEF tpVars
<1> QED
  BY <1>1, <1>2, <1>3, <1>4, <1>5, <1>6 DEF TpNext

\* Every step of a call gives it one new record and leaves the others theirs.
LEMMA MovesAsRecord ==
  ASSUME asking \in [PermCalls -> AskingSet], NEW c \in PermCalls, CallStep(c) \/ StdinAnswer(c)
  PROVE  \E r : asking' = [asking EXCEPT ![c] = r]
<1>1. CASE \E pc : Moves(c, pc)
  BY <1>1 DEF Moves
<1>2. CASE executeTool(c)
  BY <1>1, <1>2 DEF executeTool
<1>3. CASE Replied(c)
  <2>1. CASE asking[c].answer \in {"no", "yes"}
    BY <1>1, <1>3, <2>1 DEF Replied
  <2>2. CASE asking[c].answer = "once"
    <3>1. asking' = [asking EXCEPT ![c].pc = "run", ![c].once = {asking[c].args.host}]
      BY <1>3, <2>2 DEF Replied, approveOnce
    <3>2. asking' = [asking EXCEPT ![c] = [asking[c] EXCEPT !.pc = "run", !.once = {asking[c].args.host}]]
      BY <3>1
    <3> QED
      BY <3>2
  <2>3. CASE asking[c].answer = "always"
    <3>1. asking' = [asking EXCEPT ![c].pc = "save", ![c].base = saved]
      BY <1>3, <2>3 DEF Replied
    <3>2. asking' = [asking EXCEPT ![c] = [asking[c] EXCEPT !.pc = "save", !.base = saved]]
      BY <3>1
    <3> QED
      BY <3>2
  <2>4. asking[c].answer \in {"", "yes", "no", "once", "always"} /\ asking[c].answer # ""
    BY <1>3, Fields DEF Replied
  <2> QED
    BY <2>1, <2>2, <2>3, <2>4
<1>4. CASE AppendWebAllowlist(c) \/ AppendAllowlist(c)
  BY <1>1, <1>4 DEF AppendWebAllowlist, AppendAllowlist
<1>5. CASE Send(c) \/ ExecuteTool(c) \/ Fetch(c) \/ Redirect(c) \/ Finish(c)
  BY <1>1, <1>5 DEF Send, ExecuteTool, Fetch, Redirect, Finish
<1>6. CASE StdinAnswer(c)
  BY <1>6 DEF StdinAnswer
<1> QED
  BY <1>2, <1>3, <1>4, <1>5, <1>6 DEF CallStep

\* What runs was approved for that very call, whatever other calls, their answers, the overlays and
\* the allow lists did meanwhile, and no question is lost but to another one (Check, TUIPrompter,
\* AppendWebAllowlist), for any calls, tools, hosts and redirects.
THEOREM CallsApproved == TpSpec => []Approved
<1>1. TpInductive => Approved
  <2> SUFFICES ASSUME TpInductive PROVE Approved
    OBVIOUS
  <2>1. TpTypeOK
    <3>1. \A c \in PermCalls : In(c, {"idle", "send", "wait", "stdin", "save", "append", "run", "ran", "done"})
      BY Fields DEF TpInductive, TpShape, In, Pcs
    <3>2. \A k \in Kinds : question[k].listeners \in 0 .. MaxListeners
      BY DEF TpInductive, TpShape, QuestionSet
    <3> QED
      BY <3>1, <3>2 DEF TpTypeOK, TpInductive, Overlays
  <2>2. RanApproved
    <3> SUFFICES ASSUME NEW c \in PermCalls, In(c, {"run", "ran"})
                 PROVE  LET a == asking[c].args
                        IN /\ a.risk # "deny" /\ a.host # Blocked /\ a.path \in {"inside", "data"}
                           /\ In(c, {"ran"}) /\ isWriteTool(asking[c].tool) => a.path = "inside"
                           /\ a.risk = "ask" => asking[c].answer = "yes"
                           /\ isWriteTool(asking[c].tool) /\ a.risk # "allow" /\ asking[c].mode # "auto"
                                => asking[c].mode = "ask" /\ asking[c].answer = "yes"
      BY DEF RanApproved
    <3>1. Decided(asking[c]) /\ asking[c].pc \in {"run", "ran"}
      BY DEF TpInductive, Calls, In
    <3> QED
      BY <3>1 DEF Decided, Passed, Writes, In
  <2>3. HostsApproved
    <3> SUFFICES ASSUME NEW c \in PermCalls, NEW h \in asking[c].hosts
                 PROVE  /\ h # Blocked
                        /\ \/ asking[c].mode = "auto"
                           \/ h \in saved \/ \E d \in PermCalls : asking[d].answer = "always" /\ asking[d].args.host = h
                           \/ asking[c].answer = "once" /\ h = asking[c].args.host
      BY DEF HostsApproved
    <3>1. Caused(asking[c]) /\ h = asking[c].args.host
      BY DEF TpInductive, Calls, Caused
    <3> QED
      BY <3>1 DEF Caused, Cause, Listed, Put
  <2> QED
    BY <2>1, <2>2, <2>3 DEF Approved, TpInductive
<1> QED
  BY <1>1, TpInits, TpSteps, PTL DEF TpSpec

\* An approval is given only by a key pressed while that call's question was shown (the overlays'
\* handlers, SlotDeny): no key that was meant for another question approves a call.
THEOREM AnswersSeen == TpSpec => AnswerSeen
<1> DEFINE Seen == \A c \in PermCalls :
      asking[c].answer = "" /\ asking'[c].answer \in {"yes", "once", "always"} /\ In(c, {"wait"})
        => \E k \in Kinds : screen.overlay = k /\ question[k].slot = c
<1>1. TpInductive /\ [TpNext]_tpVars => [Seen]_tpVars
  <2> SUFFICES ASSUME TpInductive, TpNext, NEW c \in PermCalls, asking[c].answer = "", asking[c].pc = "wait",
                      asking'[c].answer \in {"yes", "once", "always"}
               PROVE  \E k \in Kinds : screen.overlay = k /\ question[k].slot = c
    BY DEF In
  <2>0. asking \in [PermCalls -> AskingSet]
    BY DEF TpInductive, TpShape
  <2>1. ASSUME NEW d \in PermCalls, CallStep(d) \/ StdinAnswer(d) PROVE asking'[c] = asking[c]
    <3>1. d # c
      BY <2>1 DEF CallStep, executeTool, MayStart, Send, Replied, AppendWebAllowlist,
         AppendAllowlist, ExecuteTool,
                  Fetch, Redirect, Finish, StdinAnswer, In
    <3>2. \E r : asking' = [asking EXCEPT ![d] = r]
      BY <2>0, <2>1, MovesAsRecord
    <3> QED
      BY <2>0, <3>1, <3>2
  <2>2. ASSUME NEW k \in Kinds, Answer(k) PROVE screen.overlay = k /\ question[k].slot = c
    <3>1. screen.overlay = k /\ (asking' = asking \/ \E a : asking' = [asking EXCEPT ![question[k].slot].answer = a])
      BY <2>2 DEF Answer, Asked
    <3> QED
      BY <2>0, <3>1
  <2>3. CASE EscCancels
    <3>1. asking' = [d \in PermCalls |-> IF d \in DeniedByCancel THEN [asking[d] EXCEPT !.answer = "no"] ELSE asking[d]]
      BY <2>3 DEF EscCancels, RequestCancel
    <3>2. asking[c] \in AskingSet
      BY <2>0
    <3>3. [asking[c] EXCEPT !.answer = "no"].answer = "no"
      BY <3>2 DEF AskingSet
    <3> QED
      BY <3>1, <3>3
  <2>4. ASSUME NEW k \in Kinds, NEW d \in PermCalls, ShowQuestion(k, d) PROVE asking'[c].answer = asking[c].answer
    <3>1. asking'[c] = IF c = question[k].slot THEN [asking[c] EXCEPT !.lost = TRUE] ELSE asking[c]
      BY <2>4 DEF ShowQuestion
    <3>2. [asking[c] EXCEPT !.lost = TRUE].answer = asking[c].answer
      BY <2>0 DEF AskingSet
    <3> QED
      BY <3>1, <3>2
  <2>5. CASE \/ UpdateHelp \/ KeyHelp \/ Dismiss \/ TurnDone \/ \E mode \in PermModes : Permissions(mode)
             \/ \E k \in Kinds : Listen(k)
    BY <2>5 DEF UpdateHelp, KeyHelp, Dismiss, TurnDone, Permissions, Listen
  <2> QED
    BY <2>1, <2>2, <2>3, <2>4, <2>5 DEF TpNext, UiStep
<1>2. [][Seen]_tpVars => AnswerSeen
  BY PTL DEF AnswerSeen
<1> QED
  BY <1>1, <1>2, TpInits, TpSteps, PTL DEF TpSpec

-----------------------------------------------------------------------------
HIDE ToolPermissionAssumption DEF ToolPermissionAssumption
USE ScrollAssumption DEF ScrollAssumption

(***************************************************************************)
(* ChatScroll. A sync that was put off waits for a tick that is on its     *)
(* way; every tick and page key schedules at most one sync that waited.    *)
(***************************************************************************)

\* Every tick, and every page key, schedules at most one sync that waited; so one flush may be on its way
\* beyond the bound, and none can wait then.
FlushesBounded == flushes \in Nat /\ (flushes <= MaxLater \/ (flushes = MaxLater + 1 /\ ~deferred))

\* The transcript and where the reader is.
ShownOK ==
  /\ lines \in 1 .. MaxChatLines /\ total \in 1 .. MaxChatLines /\ chatY \in {Bottom} \cup 0 .. MaxChatLines
  /\ height \in [Areas -> 0 .. Rows] /\ height["chat"] \in 1 .. Rows /\ height["tool"] \in {0, ToolRows}
  /\ window \in 0 .. MaxChatLines /\ toolOpen \in BOOLEAN /\ profile \in {"native", "integrated"}
\* The queues and the ticks.
WheelOK ==
  /\ queued \in [Areas -> (-PendingMax) .. PendingMax] /\ draining \in BOOLEAN /\ dropped \in BOOLEAN
  /\ ticks \in 0 .. MaxLater
\* The syncs on their way.
SyncsOK == stale \in BOOLEAN /\ deferred \in BOOLEAN /\ scheduled \in BOOLEAN /\ FlushesBounded

CsInductive == ShownOK /\ WheelOK /\ SyncsOK /\ NothingStranded

LEMMA Typing == CsInductive => CsTypeOK
<1>1. SUFFICES ASSUME CsInductive PROVE CsTypeOK
  OBVIOUS
<1>2. {stale, toolOpen, draining, deferred, scheduled, dropped} \subseteq BOOLEAN
  BY <1>1 DEF CsInductive, ShownOK, WheelOK, SyncsOK
<1>3. flushes \in 0 .. (2 * MaxLater)
  BY <1>1 DEF CsInductive, SyncsOK, FlushesBounded
<1>4. \A a \in Areas : queued[a] \in (-PendingMax) .. PendingMax
  BY <1>1 DEF CsInductive, WheelOK
<1> QED
  BY <1>1, <1>2, <1>3, <1>4 DEF CsInductive, CsTypeOK, ShownOK, WheelOK, SyncsOK

-----------------------------------------------------------------------------
(* Places and steps.                                                       *)

LEMMA LesserIn == ASSUME NEW a \in Int, NEW b \in Int
                  PROVE  Lesser(a, b) \in {a, b} /\ Lesser(a, b) <= a /\ Lesser(a, b) <= b
  BY DEF Lesser
LEMMA LargerIn == ASSUME NEW a \in Int, NEW b \in Int
                  PROVE  Larger(a, b) \in {a, b} /\ Larger(a, b) >= a /\ Larger(a, b) >= b
  BY DEF Larger

LEMMA MaxYIn == ASSUME NEW n \in 1 .. MaxChatLines, NEW h \in 1 .. Rows PROVE MaxY(n, h) \in 0 .. MaxChatLines
  BY DEF MaxY, Larger

LEMMA EffectiveIn ==
  ASSUME NEW y \in {Bottom} \cup Int, NEW m \in Nat
  PROVE  EffectiveChatY(y, m) \in 0 .. m
  BY DEF EffectiveChatY, Lesser, Larger, Bottom

LEMMA PlaceForIn ==
  ASSUME ShownOK, NEW y \in Int
  PROVE  PlaceFor(y) \in {Bottom} \cup 0 .. MaxChatLines
<1> DEFINE m == MaxY(total, height["chat"])
           c == Lesser(Larger(y, 0), m)
<1>1. m \in 0 .. MaxChatLines
  BY MaxYIn DEF ShownOK
<1>2. PlaceFor(y) = IF c >= m THEN Bottom ELSE c
  BY DEF PlaceFor
<1> HIDE DEF m
<1>3. c \in 0 .. m
  BY <1>1 DEF Lesser, Larger
<1> QED
  BY <1>1, <1>2, <1>3

LEMMA NowIn == ASSUME ShownOK PROVE EffectiveNow \in Int
<1> DEFINE m == MaxY(total, height["chat"])
<1>1. m \in Nat /\ chatY \in {Bottom} \cup Int
  BY MaxYIn DEF ShownOK
<1> HIDE DEF m
<1>2. EffectiveChatY(chatY, m) \in 0 .. m
  BY <1>1, EffectiveIn
<1> QED
  BY <1>1, <1>2 DEF EffectiveNow, m

LEMMA CapIn ==
  ASSUME NEW step \in Nat \ {0}, NEW h \in Int, NEW abs \in Nat \ {0}
  PROVE  Cap(step, h, abs) \in 1 .. abs
  BY DEF Cap, Lesser, Larger

\* A tick drains some of the lines, never more than there are.
LEMMA DrainIn ==
  ASSUME NEW n \in (-PendingMax) .. PendingMax, NEW h \in Int
  PROVE  DrainStep(n, h) \in Int /\ Drained(n, DrainStep(n, h)) \in (-PendingMax) .. PendingMax
<1> DEFINE abs == Abs(n)
           step == IF profile = "integrated" THEN DrainAdaptive(abs, h) ELSE DrainProportional(abs, h)
<1>1. abs \in Nat /\ (n = 0 <=> abs = 0) /\ (abs = n \/ abs = -n)
  BY DEF Abs
<1>2. CASE n = 0 \/ h < 1
  <2>1. DrainStep(n, h) = 0
    BY <1>2 DEF DrainStep
  <2> QED
    BY <2>1 DEF Drained
<1>3. CASE ~(n = 0 \/ h < 1)
  <2>1. abs \in Nat \ {0}
    BY <1>1, <1>3
  <2>2. DrainStep(n, h) = IF n < 0 THEN -Lesser(step, abs) ELSE Lesser(step, abs)
    BY <1>3 DEF DrainStep
  <2> HIDE DEF abs
  <2>3. DrainProportional(abs, h) \in 1 .. abs
    <3> DEFINE s == Larger((abs * 3) \div 4, ScrollMinPerFrame)
    <3>1. s \in Nat \ {0}
      <4>1. (abs * 3) \div 4 \in Int
        BY <2>1
      <4> QED
        BY <4>1, LargerIn
    <3>2. DrainProportional(abs, h) = Cap(s, h, abs)
      BY DEF DrainProportional
    <3> HIDE DEF s
    <3> QED
      BY <2>1, <3>1, <3>2, CapIn
  <2>4. DrainAdaptive(abs, h) \in 1 .. abs
    <3> DEFINE m == Lesser(abs, ScrollMaxPending)
               s == IF m > HighFrom THEN ScrollStepHigh ELSE ScrollStepMed
    <3>1. m \in Nat \ {0} /\ m <= abs
      BY <2>1 DEF Lesser
    <3>2. DrainAdaptive(abs, h) = IF abs <= ScrollInstantThreshold THEN abs ELSE Cap(s, h, m)
      BY DEF DrainAdaptive
    <3>3. s \in Nat \ {0}
      OBVIOUS
    <3> HIDE DEF m, s
    <3>4. Cap(s, h, m) \in 1 .. m
      BY <3>1, <3>3, CapIn
    <3> QED
      BY <2>1, <3>1, <3>2, <3>4
  <2>5. step \in 1 .. abs
    BY <2>3, <2>4
  <2> HIDE DEF step
  <2>6. Lesser(step, abs) \in 1 .. abs
    BY <2>1, <2>5 DEF Lesser
  <2> DEFINE d == DrainStep(n, h)
  <2>7. d \in Int /\ (n < 0 => d \in (-abs) .. (-1)) /\ (n > 0 => d \in 1 .. abs)
    BY <2>1, <2>2, <2>6
  <2> HIDE DEF d
  <2>8. Drained(n, d) \in (-PendingMax) .. PendingMax
    BY <1>1, <1>3, <2>7 DEF Drained
  <2> QED
    BY <2>7, <2>8 DEF d
<1> QED
  BY <1>2, <1>3

LEMMA LayoutIn ==
  ASSUME toolOpen \in BOOLEAN, NEW n \in 1 .. MaxChatLines
  PROVE  /\ LayoutHeights(n) \in [Areas -> 0 .. Rows] /\ LayoutHeights(n)["chat"] \in 1 .. Rows
         /\ LayoutHeights(n)["tool"] \in {0, ToolRows}
<1> DEFINE tool == IF toolOpen THEN ToolRows ELSE 0
           rows == Lesser(n, Rows - tool)
<1>1. tool \in {0, ToolRows} /\ ToolRows \in 1 .. Rows /\ Rows \in Nat /\ rows \in 1 .. Rows
  BY DEF Lesser
<1>2. LayoutHeights(n) = [chat |-> rows, tool |-> tool]
  BY DEF LayoutHeights
<1> HIDE DEF tool, rows
<1> QED
  BY <1>1, <1>2 DEF Areas

-----------------------------------------------------------------------------
(* What a sync and its scheduling do.                                      *)

LEMMA SyncIn ==
  ASSUME CsInductive, NEW n \in 1 .. MaxChatLines, SyncAndFollow(n)
  PROVE  /\ total' = n /\ height' \in [Areas -> 0 .. Rows] /\ height'["chat"] \in 1 .. Rows
         /\ height'["tool"] \in {0, ToolRows} /\ stale' = FALSE
         /\ window' \in 0 .. MaxChatLines /\ chatY' \in {Bottom} \cup 0 .. MaxChatLines
<1> DEFINE now == LayoutHeights(n)
           m == MaxY(n, now["chat"])
           e == EffectiveChatY(chatY, m)
           y == IF WasAtBottom(n) THEN m ELSE e
<1>1. /\ total' = n /\ height' = now /\ window' = y /\ stale' = FALSE
      /\ chatY' = IF WasAtBottom(n) THEN Bottom ELSE y
  BY DEF SyncAndFollow
<1>2. now \in [Areas -> 0 .. Rows] /\ now["chat"] \in 1 .. Rows /\ now["tool"] \in {0, ToolRows}
  BY LayoutIn DEF CsInductive, ShownOK
<1>3. m \in 0 .. MaxChatLines
  BY <1>2, MaxYIn
<1> HIDE DEF now, m
<1>4. e \in 0 .. m
  <2>1. chatY \in {Bottom} \cup Int /\ m \in Nat
    BY <1>3 DEF CsInductive, ShownOK
  <2> QED
    BY <2>1, EffectiveIn
<1> HIDE DEF e
<1> QED
  BY <1>1, <1>2, <1>3, <1>4


\* A sync that is scheduled, unless one is already.
Scheduled ==
  IF scheduled THEN UNCHANGED <<scheduled, flushes>> ELSE scheduled' = TRUE /\ flushes' = flushes + 1

LEMMA ScheduledIn ==
  ASSUME CsInductive, Scheduled
  PROVE  scheduled' = TRUE /\ flushes' \in {flushes, flushes + 1} /\ flushes' > 0
<1>1. flushes \in Nat /\ scheduled \in BOOLEAN /\ (scheduled => flushes > 0)
  BY DEF CsInductive, SyncsOK, FlushesBounded, NothingStranded
<1>2. CASE scheduled
  <2>1. scheduled = TRUE /\ scheduled' = scheduled /\ flushes' = flushes
    BY <1>1, <1>2 DEF Scheduled
  <2> QED
    BY <1>1, <1>2, <2>1
<1>3. CASE ~scheduled
  <2>1. scheduled' = TRUE /\ flushes' = flushes + 1
    BY <1>3 DEF Scheduled
  <2>2. flushes' \in {flushes, flushes + 1} /\ flushes' > 0
    BY <1>1, <2>1
  <2> QED
    BY <2>1, <2>2
<1> QED
  BY <1>2, <1>3

\* A sync that waited is on its way when nothing is queued any more.
Resumed == IF deferred THEN deferred' = FALSE /\ Scheduled ELSE UNCHANGED <<deferred, scheduled, flushes>>

LEMMA ResumedIn ==
  ASSUME CsInductive, Resumed
  PROVE  /\ deferred' = FALSE /\ scheduled' \in BOOLEAN /\ flushes' \in {flushes, flushes + 1}
         /\ (scheduled' => flushes' > 0) /\ (scheduled \/ deferred => scheduled')
         /\ (~deferred => flushes' = flushes)
<1>1. /\ flushes \in Nat /\ scheduled \in BOOLEAN /\ deferred \in BOOLEAN /\ (scheduled => flushes > 0)
  BY DEF CsInductive, SyncsOK, FlushesBounded, NothingStranded
<1>2. CASE deferred
  <2>1. deferred' = FALSE /\ scheduled' = TRUE /\ flushes' \in {flushes, flushes + 1} /\ flushes' > 0
    BY <1>2, ScheduledIn DEF Resumed
  <2> QED
    BY <1>2, <2>1
<1>3. CASE ~deferred
  <2>1. deferred' = deferred /\ scheduled' = scheduled /\ flushes' = flushes
    BY <1>3 DEF Resumed
  <2>2. deferred' = FALSE
    BY <1>1, <1>3, <2>1
  <2> QED
    BY <1>1, <1>3, <2>1, <2>2
<1> QED
  BY <1>2, <1>3

-----------------------------------------------------------------------------
(* The actions.                                                            *)

LEMMA NoneQueued == ~HasQueued([a \in Areas |-> 0])
  BY DEF HasQueued

\* A sync that was made at once goes on to be flushed, or waits for the queue.
LEMMA EventKeeps ==
  ASSUME CsInductive, NEW n \in 1 .. MaxChatLines, ChatEvent(n) PROVE CsInductive'
<1>1. ShownOK /\ WheelOK /\ SyncsOK /\ NothingStranded
  BY DEF CsInductive
<1>2. flushes < MaxLater /\ lines' = n /\ UNCHANGED <<profile, toolOpen, queued, draining, ticks, dropped>>
  BY DEF ChatEvent, HasRoomLater
<1>3. WheelOK'
  BY <1>1, <1>2 DEF WheelOK
<1>4. CASE stale' = TRUE /\ ScheduleSync(draining, queued, deferred) /\ UNCHANGED <<total, height, chatY, window>>
  <2>1. ShownOK'
    BY <1>1, <1>2, <1>4 DEF ShownOK
  <2>2. /\ draining \/ HasQueued(queued) => deferred' = TRUE /\ scheduled' = scheduled /\ flushes' = flushes
        /\ ~(draining \/ HasQueued(queued)) =>
             deferred' = deferred /\ scheduled' = TRUE /\ flushes' \in {flushes, flushes + 1} /\ flushes' > 0
    <3>1. CASE draining \/ HasQueued(queued)
      BY <1>4, <3>1 DEF ScheduleSync
    <3>2. CASE ~(draining \/ HasQueued(queued))
      <4>1. deferred' = deferred /\ Scheduled
        BY <1>4, <3>2 DEF ScheduleSync, Scheduled
      <4> QED
        BY <3>2, <4>1, ScheduledIn
    <3> QED
      BY <3>1, <3>2
  <2>3. SyncsOK'
    <3>1. stale' \in BOOLEAN /\ deferred' \in BOOLEAN /\ scheduled' \in BOOLEAN
      BY <1>1, <1>4, <2>2 DEF SyncsOK
    <3>2. flushes' \in Nat /\ flushes' <= MaxLater
      BY <1>1, <1>2, <2>2 DEF SyncsOK, FlushesBounded
    <3> QED
      BY <3>1, <3>2 DEF SyncsOK, FlushesBounded
  <2>4. NothingStranded'
    BY <1>1, <1>2, <2>2 DEF NothingStranded
  <2> QED
    BY <1>3, <2>1, <2>3, <2>4 DEF CsInductive
<1>5. CASE /\ SyncAndFollow(n)
           /\ IF draining \/ HasQueued(queued) THEN deferred' = TRUE /\ scheduled' = FALSE /\ UNCHANGED flushes
              ELSE scheduled' = TRUE /\ flushes' = flushes + 1 /\ UNCHANGED deferred
  <2>1. /\ total' = n /\ height' \in [Areas -> 0 .. Rows] /\ height'["chat"] \in 1 .. Rows
        /\ height'["tool"] \in {0, ToolRows} /\ stale' = FALSE
        /\ window' \in 0 .. MaxChatLines /\ chatY' \in {Bottom} \cup 0 .. MaxChatLines
    BY <1>5, SyncIn
  <2>2. ShownOK'
    BY <1>1, <1>2, <2>1 DEF ShownOK
  <2>3. SyncsOK'
    <3>1. stale' \in BOOLEAN /\ deferred' \in BOOLEAN /\ scheduled' \in BOOLEAN
      BY <1>1, <1>5, <2>1 DEF SyncsOK
    <3>2. flushes' \in Nat /\ flushes' <= MaxLater
      BY <1>1, <1>2, <1>5 DEF SyncsOK, FlushesBounded
    <3> QED
      BY <3>1, <3>2 DEF SyncsOK, FlushesBounded
  <2>4. NothingStranded'
    BY <1>1, <1>2, <1>5, <2>1 DEF NothingStranded, SyncsOK, FlushesBounded
  <2> QED
    BY <1>3, <2>2, <2>3, <2>4 DEF CsInductive
<1> QED
  BY <1>4, <1>5 DEF ChatEvent

LEMMA LoadKeeps ==
  ASSUME CsInductive, NEW n \in 1 .. MaxChatLines, Load(n) PROVE CsInductive'
<1>1. ShownOK /\ WheelOK /\ SyncsOK /\ NothingStranded
  BY DEF CsInductive
<1>2. /\ flushes < MaxLater /\ lines' = n /\ total' = n /\ chatY' = Bottom /\ stale' = FALSE
      /\ height' = LayoutHeights(n) /\ window' = MaxY(n, LayoutHeights(n)["chat"])
      /\ UNCHANGED <<profile, toolOpen, queued, draining, ticks, dropped>>
  BY DEF Load, HasRoomLater
<1>3. IF draining \/ HasQueued(queued) THEN deferred' = TRUE /\ scheduled' = FALSE /\ UNCHANGED flushes
      ELSE scheduled' = TRUE /\ flushes' = flushes + 1 /\ UNCHANGED deferred
  BY DEF Load
<1>4. /\ LayoutHeights(n) \in [Areas -> 0 .. Rows] /\ LayoutHeights(n)["chat"] \in 1 .. Rows
      /\ LayoutHeights(n)["tool"] \in {0, ToolRows}
  BY <1>1, LayoutIn DEF ShownOK
<1>5. window' \in 0 .. MaxChatLines
  BY <1>2, <1>4, MaxYIn
<1>6. ShownOK'
  BY <1>1, <1>2, <1>4, <1>5 DEF ShownOK
<1>7. WheelOK'
  BY <1>1, <1>2 DEF WheelOK
<1>8. SyncsOK'
  <2>1. stale' \in BOOLEAN /\ deferred' \in BOOLEAN /\ scheduled' \in BOOLEAN
    BY <1>1, <1>2, <1>3 DEF SyncsOK
  <2>2. flushes' \in Nat /\ flushes' <= MaxLater
    BY <1>1, <1>2, <1>3 DEF SyncsOK, FlushesBounded
  <2> QED
    BY <2>1, <2>2 DEF SyncsOK, FlushesBounded
<1>9. NothingStranded'
  BY <1>1, <1>2, <1>3 DEF NothingStranded, SyncsOK, FlushesBounded
<1> QED
  BY <1>6, <1>7, <1>8, <1>9 DEF CsInductive

LEMMA FlushKeeps == ASSUME CsInductive, ChatSyncFlush PROVE CsInductive'
<1>1. ShownOK /\ WheelOK /\ SyncsOK /\ NothingStranded
  BY DEF CsInductive
<1>2. /\ flushes > 0 /\ flushes' = flushes - 1 /\ scheduled' = FALSE /\ SyncAndFollow(lines)
      /\ UNCHANGED <<profile, lines, toolOpen, queued, draining, deferred, ticks, dropped>>
  BY DEF ChatSyncFlush
<1>3. /\ total' = lines /\ height' \in [Areas -> 0 .. Rows] /\ height'["chat"] \in 1 .. Rows
      /\ height'["tool"] \in {0, ToolRows} /\ stale' = FALSE
      /\ window' \in 0 .. MaxChatLines /\ chatY' \in {Bottom} \cup 0 .. MaxChatLines
  BY <1>1, <1>2, SyncIn DEF ShownOK
<1>4. ShownOK'
  BY <1>1, <1>2, <1>3 DEF ShownOK
<1>5. WheelOK'
  BY <1>1, <1>2 DEF WheelOK
<1>6. SyncsOK'
  <2>1. stale' \in BOOLEAN /\ deferred' \in BOOLEAN /\ scheduled' \in BOOLEAN
    BY <1>1, <1>2, <1>3 DEF SyncsOK
  <2>2. flushes' \in Nat /\ flushes' <= MaxLater
    BY <1>1, <1>2 DEF SyncsOK, FlushesBounded
  <2> QED
    BY <2>1, <2>2 DEF SyncsOK, FlushesBounded
<1>7. NothingStranded'
  BY <1>1, <1>2, <1>3 DEF NothingStranded
<1> QED
  BY <1>4, <1>5, <1>6, <1>7 DEF CsInductive

LEMMA LayoutKeeps == ASSUME CsInductive, ToggleTool \/ RefreshLayout PROVE CsInductive'
<1>1. ShownOK /\ WheelOK /\ SyncsOK /\ NothingStranded
  BY DEF CsInductive
<1>2. UNCHANGED <<profile, lines, stale, total, chatY, window, queued, draining, deferred, scheduled, ticks,
                  flushes, dropped>>
  BY DEF ToggleTool, RefreshLayout
<1>3. /\ toolOpen' \in BOOLEAN /\ height' \in [Areas -> 0 .. Rows]
      /\ height'["chat"] \in 1 .. Rows /\ height'["tool"] \in {0, ToolRows}
  <2>1. CASE ToggleTool
    BY <1>1, <2>1 DEF ToggleTool, ShownOK
  <2>2. CASE RefreshLayout
    BY <1>1, <2>2, LayoutIn DEF RefreshLayout, ShownOK
  <2> QED
    BY <2>1, <2>2
<1>4. ShownOK'
  BY <1>1, <1>2, <1>3 DEF ShownOK
<1>5. WheelOK' /\ SyncsOK' /\ NothingStranded'
  BY <1>1, <1>2 DEF WheelOK, SyncsOK, FlushesBounded, NothingStranded
<1> QED
  BY <1>4, <1>5 DEF CsInductive

\* The first notch puts a sync off and starts the tick that will end the wait.
LEMMA WheelKeeps ==
  ASSUME CsInductive, NEW a \in Areas, NEW delta \in Int, Wheel(a, delta) PROVE CsInductive'
<1>1. ShownOK /\ WheelOK /\ SyncsOK /\ NothingStranded
  BY DEF CsInductive
<1>2. /\ ticks < MaxLater /\ flushes < MaxLater
      /\ queued' = [queued EXCEPT ![a] = ClampPending(@ + delta)]
      /\ UNCHANGED <<profile, lines, stale, total, height, chatY, window, toolOpen, scheduled, flushes, dropped>>
  BY DEF Wheel, HasRoomLater
<1>3. IF draining THEN UNCHANGED <<draining, deferred, ticks>>
      ELSE draining' = TRUE /\ deferred' = TRUE /\ ticks' = ticks + 1
  BY DEF Wheel
<1>4. ClampPending(queued[a] + delta) \in (-PendingMax) .. PendingMax
  <2> DEFINE n == queued[a] + delta
  <2>1. n \in Int
    BY <1>1 DEF WheelOK
  <2> HIDE DEF n
  <2>2. ClampPending(n) \in (-PendingMax) .. PendingMax
    BY <2>1 DEF ClampPending, Lesser, Larger
  <2> QED
    BY <2>2 DEF n
<1>5. draining' = TRUE /\ ticks' \in 1 .. MaxLater /\ deferred' \in BOOLEAN /\ (deferred => deferred')
  <2>1. CASE draining
    <3>1. ticks \in 1 .. MaxLater
      BY <1>1, <2>1 DEF WheelOK, NothingStranded
    <3>2. draining = TRUE /\ deferred \in BOOLEAN
      BY <1>1, <2>1 DEF WheelOK, SyncsOK
    <3>3. draining' = draining /\ deferred' = deferred /\ ticks' = ticks
      BY <1>3, <2>1
    <3> QED
      BY <3>1, <3>2, <3>3
  <2>2. CASE ~draining
    <3>1. draining' = TRUE /\ deferred' = TRUE /\ ticks' = ticks + 1
      BY <1>3, <2>2
    <3>2. ticks' \in 1 .. MaxLater
      BY <1>1, <1>2, <3>1 DEF WheelOK
    <3> QED
      BY <3>1, <3>2
  <2> QED
    BY <2>1, <2>2
<1>6. ShownOK'
  BY <1>1, <1>2 DEF ShownOK
<1>7. WheelOK'
  <2>1. queued' \in [Areas -> (-PendingMax) .. PendingMax]
    BY <1>1, <1>2, <1>4 DEF WheelOK
  <2> QED
    BY <1>1, <1>2, <1>5, <2>1 DEF WheelOK
<1>8. SyncsOK'
  BY <1>1, <1>2, <1>5 DEF SyncsOK, FlushesBounded
<1>9. NothingStranded'
  BY <1>1, <1>2, <1>5 DEF NothingStranded, WheelOK
<1> QED
  BY <1>6, <1>7, <1>8, <1>9 DEF CsInductive

\* What a step shows when the queue is empty: a sync that waited is on its way.
LEMMA ResumedKeeps ==
  ASSUME CsInductive, ShownOK', WheelOK', Resumed, draining' = FALSE, ~HasQueued(queued'),
         UNCHANGED <<stale, dropped>>
  PROVE  CsInductive'
<1>1. ShownOK /\ WheelOK /\ SyncsOK /\ NothingStranded
  BY DEF CsInductive
<1>2. /\ deferred' = FALSE /\ scheduled' \in BOOLEAN /\ flushes' \in {flushes, flushes + 1}
      /\ (scheduled' => flushes' > 0) /\ (scheduled \/ deferred => scheduled')
      /\ (~deferred => flushes' = flushes)
  BY ResumedIn
<1>3. FlushesBounded'
  <2>1. flushes' \in Nat /\ flushes' <= MaxLater + 1
    BY <1>1, <1>2 DEF SyncsOK, FlushesBounded
  <2> QED
    BY <1>2, <2>1 DEF FlushesBounded
<1>4. SyncsOK'
  BY <1>1, <1>2, <1>3 DEF SyncsOK
<1>5. NothingStranded'
  BY <1>1, <1>2 DEF NothingStranded
<1> QED
  BY <1>4, <1>5 DEF CsInductive

LEMMA Resuming ==
  ASSUME NEW q, ~HasQueued(q), Resume(FALSE, q) PROVE Resumed
  BY DEF Resume, ScheduleSync, Resumed, Scheduled

LEMMA JumpKeeps ==
  ASSUME CsInductive, NEW delta \in Int, JumpViewport(delta) PROVE CsInductive'
<1>1. ShownOK /\ WheelOK /\ SyncsOK /\ NothingStranded
  BY DEF CsInductive
<1>2. /\ chatY' = PlaceFor(EffectiveNow + queued["chat"] + delta)
      /\ queued' = [b \in Areas |-> 0] /\ draining' = FALSE /\ Resume(FALSE, [b \in Areas |-> 0])
      /\ UNCHANGED <<profile, lines, stale, total, height, window, toolOpen, ticks, dropped>>
  BY DEF JumpViewport
<1>3. EffectiveNow \in Int
  BY <1>1, NowIn
<1>4. EffectiveNow + queued["chat"] + delta \in Int
  BY <1>1, <1>3 DEF WheelOK, Areas
<1>5. chatY' \in {Bottom} \cup 0 .. MaxChatLines
  BY <1>1, <1>2, <1>4, PlaceForIn
<1>6. ShownOK'
  BY <1>1, <1>2, <1>5 DEF ShownOK
<1>7. WheelOK'
  <2>1. 0 \in (-PendingMax) .. PendingMax
    OBVIOUS
  <2>2. queued' \in [Areas -> (-PendingMax) .. PendingMax]
    BY <1>2, <2>1
  <2> QED
    BY <1>1, <1>2, <2>2 DEF WheelOK
<1>8. Resumed
  BY <1>2, NoneQueued, Resuming
<1>9. ~HasQueued(queued')
  BY <1>2, NoneQueued
<1> QED
  BY <1>2, <1>6, <1>7, <1>8, <1>9, ResumedKeeps

LEMMA TickKeeps == ASSUME CsInductive, WheelTick PROVE CsInductive'
<1>1. ShownOK /\ WheelOK /\ SyncsOK /\ NothingStranded
  BY DEF CsInductive
<1>2. ticks > 0 /\ UNCHANGED <<profile, lines, stale, total, height, window, toolOpen>>
  BY DEF WheelTick
<1>3. ticks - 1 \in 0 .. MaxLater /\ 0 \in (-PendingMax) .. PendingMax
  BY <1>1, <1>2 DEF WheelOK
<1>4. CASE ~HasQueued(queued)
  <2>1. /\ draining' = FALSE /\ Resume(FALSE, queued) /\ ticks' = ticks - 1
        /\ UNCHANGED <<chatY, queued, dropped>>
    BY <1>4 DEF WheelTick
  <2>2. Resumed
    BY <1>4, <2>1 DEF Resume, ScheduleSync, Resumed, Scheduled
  <2>3. ShownOK'
    BY <1>1, <1>2, <2>1 DEF ShownOK
  <2>4. WheelOK'
    BY <1>1, <1>3, <2>1 DEF WheelOK
  <2>5. ~HasQueued(queued')
    BY <1>4, <2>1 DEF HasQueued
  <2> QED
    BY <1>2, <2>1, <2>2, <2>3, <2>4, <2>5, ResumedKeeps
<1>5. CASE HasQueued(queued)
  <2> DEFINE a == ActiveTarget
             step == DrainStep(queued[a], height[a])
             left == [queued EXCEPT ![a] = Drained(@, step)]
  <2>1. IF step = 0
        THEN /\ queued' = [b \in Areas |-> 0] /\ draining' = FALSE /\ ticks' = ticks - 1
             /\ dropped' = (dropped \/ deferred) /\ UNCHANGED <<chatY, deferred, scheduled, flushes>>
        ELSE /\ chatY' = IF a = "chat" THEN PlaceFor(EffectiveNow + step) ELSE chatY
             /\ queued' = left /\ UNCHANGED dropped
             /\ IF HasQueued(left)
                THEN UNCHANGED <<draining, ticks, deferred, scheduled, flushes>>
                ELSE draining' = FALSE /\ ticks' = ticks - 1 /\ Resume(FALSE, left)
    BY <1>5 DEF WheelTick
  <2>2. a \in Areas
    BY DEF ActiveTarget, Areas
  <2>3. queued[a] \in (-PendingMax) .. PendingMax /\ height[a] \in Int
    BY <1>1, <2>2 DEF WheelOK, ShownOK
  <2>4. step \in Int /\ Drained(queued[a], step) \in (-PendingMax) .. PendingMax
    BY <2>3, DrainIn
  <2>5. left \in [Areas -> (-PendingMax) .. PendingMax]
    BY <1>1, <2>2, <2>4 DEF WheelOK
  <2> HIDE DEF step, left, a
  <2>6. CASE step = 0
    <3>1. /\ queued' = [b \in Areas |-> 0] /\ draining' = FALSE /\ ticks' = ticks - 1
          /\ dropped' = (dropped \/ deferred) /\ UNCHANGED <<chatY, deferred, scheduled, flushes>>
      BY <2>1, <2>6
    <3>2. ShownOK'
      BY <1>1, <1>2, <3>1 DEF ShownOK
    <3>3. WheelOK'
      <4>1. queued' \in [Areas -> (-PendingMax) .. PendingMax]
        BY <1>3, <3>1
      <4> QED
        BY <1>3, <3>1, <4>1 DEF WheelOK
    <3>4. SyncsOK'
      BY <1>1, <1>2, <3>1 DEF SyncsOK, FlushesBounded
    <3>5. ~HasQueued(queued')
      BY <3>1, NoneQueued
    <3>6. /\ (stale /\ ~dropped => deferred \/ scheduled) /\ (scheduled => flushes > 0)
          /\ deferred \in BOOLEAN /\ dropped \in BOOLEAN
      BY <1>1 DEF NothingStranded, SyncsOK, WheelOK
    <3>7. NothingStranded'
      BY <1>2, <3>1, <3>5, <3>6 DEF NothingStranded
    <3> QED
      BY <3>2, <3>3, <3>4, <3>7 DEF CsInductive
  <2>7. CASE step # 0
    <3>1. /\ chatY' = IF a = "chat" THEN PlaceFor(EffectiveNow + step) ELSE chatY
          /\ queued' = left /\ UNCHANGED dropped
          /\ IF HasQueued(left)
             THEN UNCHANGED <<draining, ticks, deferred, scheduled, flushes>>
             ELSE draining' = FALSE /\ ticks' = ticks - 1 /\ Resume(FALSE, left)
      BY <2>1, <2>7
    <3>2. chatY' \in {Bottom} \cup 0 .. MaxChatLines
      <4>1. EffectiveNow + step \in Int
        BY <1>1, <2>4, NowIn
      <4> QED
        BY <1>1, <3>1, <4>1, PlaceForIn DEF ShownOK
    <3>3. ShownOK'
      BY <1>1, <1>2, <3>2 DEF ShownOK
    <3>4. CASE HasQueued(left)
      <4>1. UNCHANGED <<draining, ticks, deferred, scheduled, flushes>>
        BY <3>1, <3>4
      <4>2. WheelOK'
        BY <1>1, <2>5, <3>1, <4>1 DEF WheelOK
      <4>3. SyncsOK'
        BY <1>1, <1>2, <4>1 DEF SyncsOK, FlushesBounded
      <4>4. NothingStranded'
        BY <1>1, <1>2, <1>5, <3>1, <4>1 DEF NothingStranded
      <4> QED
        BY <3>3, <4>2, <4>3, <4>4 DEF CsInductive
    <3>5. CASE ~HasQueued(left)
      <4>1. draining' = FALSE /\ ticks' = ticks - 1 /\ Resume(FALSE, left)
        BY <3>1, <3>5
      <4>2. Resumed
        BY <3>5, <4>1 DEF Resume, ScheduleSync, Resumed, Scheduled
      <4>3. WheelOK'
        BY <1>1, <1>3, <2>5, <3>1, <4>1 DEF WheelOK
      <4>4. ~HasQueued(queued')
        BY <3>1, <3>5
      <4> QED
        BY <1>2, <3>1, <3>3, <4>1, <4>2, <4>3, <4>4, ResumedKeeps
    <3> QED
      BY <3>4, <3>5
  <2> QED
    BY <2>6, <2>7
<1> QED
  BY <1>4, <1>5

LEMMA CsStarts == CsInit => CsInductive
<1>1. SUFFICES ASSUME CsInit PROVE CsInductive
  OBVIOUS
<1>2. /\ lines \in 1 .. MaxChatLines /\ total = lines
      /\ height = [chat |-> Lesser(lines, Rows), tool |-> 0]
      /\ window = Larger(0, lines - Lesser(lines, Rows)) /\ chatY = Bottom /\ toolOpen = FALSE
      /\ profile \in Profiles
  BY <1>1 DEF CsInit
<1>3. Lesser(lines, Rows) \in 1 .. Rows /\ window \in 0 .. MaxChatLines
  BY <1>2 DEF Lesser, Larger
<1>4. /\ height \in [Areas -> 0 .. Rows] /\ height["chat"] \in 1 .. Rows /\ height["tool"] \in {0, ToolRows}
  BY <1>2, <1>3 DEF Areas
<1>5. ShownOK
  BY <1>2, <1>3, <1>4 DEF ShownOK
<1>6. WheelOK
  <2>1. 0 \in (-PendingMax) .. PendingMax
    OBVIOUS
  <2>2. queued \in [Areas -> (-PendingMax) .. PendingMax]
    BY <1>1, <2>1 DEF CsInit
  <2>3. draining = FALSE /\ dropped = FALSE /\ ticks = 0 /\ FALSE \in BOOLEAN /\ 0 \in 0 .. MaxLater
    BY <1>1 DEF CsInit
  <2> QED
    BY <2>2, <2>3 DEF WheelOK
<1>7. SyncsOK
  <2>1. stale = FALSE /\ deferred = FALSE /\ scheduled = FALSE /\ flushes = 0
    BY <1>1 DEF CsInit
  <2>2. FlushesBounded
    BY <2>1 DEF FlushesBounded
  <2>3. FALSE \in BOOLEAN
    OBVIOUS
  <2> QED
    BY <2>1, <2>2, <2>3 DEF SyncsOK
<1>8. NothingStranded
  BY <1>1 DEF CsInit, NothingStranded, HasQueued
<1> QED
  BY <1>5, <1>6, <1>7, <1>8 DEF CsInductive

LEMMA CsSteps == CsInductive /\ [CsNext]_csVars => CsInductive'
<1> SUFFICES ASSUME CsInductive, [CsNext]_csVars PROVE CsInductive'
  OBVIOUS
<1>1. CASE \E n \in 1 .. MaxChatLines : ChatEvent(n) \/ Load(n)
  BY <1>1, EventKeeps, LoadKeeps
<1>2. CASE ChatSyncFlush
  BY <1>2, FlushKeeps
<1>3. CASE ToggleTool \/ RefreshLayout
  BY <1>3, LayoutKeeps
<1>4. CASE WheelTick
  BY <1>4, TickKeeps
<1>5. CASE \E a \in Areas, d \in WheelSteps : Wheel(a, d) \/ Wheel(a, -d)
  <2>1. PICK a \in Areas, d \in WheelSteps : Wheel(a, d) \/ Wheel(a, -d)
    BY <1>5
  <2>2. d \in Nat \ {0}
    OBVIOUS
  <2>3. d \in Int /\ -d \in Int
    BY <2>2
  <2> QED
    BY <2>1, <2>3, WheelKeeps
<1>6. CASE \E d \in PageDeltas : JumpViewport(d)
  <2>1. PICK d \in PageDeltas : JumpViewport(d)
    BY <1>6
  <2>2. d \in Int
    <3>1. height["chat"] \in Int
      BY DEF CsInductive, ShownOK
    <3> QED
      BY <3>1 DEF PageDeltas
  <2> QED
    BY <2>1, <2>2, JumpKeeps
<1>7. CASE UNCHANGED csVars
  <2>1. UNCHANGED <<profile, lines, stale, total, height, chatY, window, toolOpen, queued, draining, deferred,
                    scheduled, ticks, flushes, dropped>>
    BY <1>7 DEF csVars
  <2> QED
    BY <2>1 DEF CsInductive, ShownOK, WheelOK, SyncsOK, FlushesBounded, NothingStranded
<1> QED
  BY <1>1, <1>2, <1>3, <1>4, <1>5, <1>6, <1>7 DEF CsNext

\* The queues, timers and syncs agree, with any step, threshold and screen: queued lines have a tick that
\* drains them, a scheduled sync has its flush, and a sync that was put off is not forgotten, but for the
\* one that a tick drops which finds its panel closed (handleWheelScrollTick, jumpViewport).
THEOREM ScrollHolds == CsSpec => []ScrollInv
<1>1. CsInductive => ScrollInv
  BY Typing DEF CsInductive, ScrollInv
<1> QED
  BY <1>1, CsStarts, CsSteps, PTL DEF CsSpec

-----------------------------------------------------------------------------
(* The reader's place.                                                     *)

Kept ==
  IF chatY = Bottom THEN chatY' = Bottom
  ELSE chatY < MaxY(total, height["chat"]) =>
         chatY' \in {chatY, MaxY(total', height'["chat"])} /\ chatY' <= chatY

LEMMA SyncKept ==
  ASSUME CsInductive, NEW n \in 1 .. MaxChatLines, SyncAndFollow(n) PROVE Kept
<1> DEFINE was == MaxY(total, height["chat"])
           m == MaxY(total', height'["chat"])
<1>1. total \in 1 .. MaxChatLines /\ chatY \in {Bottom} \cup 0 .. MaxChatLines /\ was \in Nat
  BY MaxYIn DEF CsInductive, ShownOK
<1>2. m \in Nat
  <2>1. total' \in 1 .. MaxChatLines /\ height'["chat"] \in 1 .. Rows
    BY SyncIn
  <2> QED
    BY <2>1, MaxYIn
<1>3. chatY' = IF WasAtBottom(n) THEN Bottom ELSE EffectiveChatY(chatY, m)
  BY DEF SyncAndFollow
<1>4. WasAtBottom(n) <=> chatY = Bottom \/ (total > 0 /\ chatY >= was)
  BY DEF WasAtBottom
<1>5. Kept <=> IF chatY = Bottom THEN chatY' = Bottom
               ELSE chatY < was => chatY' \in {chatY, m} /\ chatY' <= chatY
  BY DEF Kept
<1> HIDE DEF was, m
<1>6. CASE chatY = Bottom
  BY <1>3, <1>4, <1>5, <1>6
<1>7. CASE chatY # Bottom /\ chatY < was
  <2>1. ~WasAtBottom(n)
    BY <1>1, <1>4, <1>7
  <2>2. chatY' = Lesser(Larger(chatY, 0), m)
    BY <1>3, <1>7, <2>1 DEF EffectiveChatY
  <2> QED
    BY <1>1, <1>2, <1>5, <1>7, <2>2 DEF Lesser, Larger
<1>8. CASE chatY # Bottom /\ ~(chatY < was)
  BY <1>5, <1>8
<1> QED
  BY <1>6, <1>7, <1>8

\* Only the reader moves the reader: who follows the end goes on following it, and who reads further up
\* stays at the line unless the transcript becomes too short for that (syncChat, setChatScrollY).
THEOREM ReaderKept == CsSpec => PlaceKept
<1>1. CsInductive /\ [CsNext]_csVars =>
        [~(WheelTick \/ (\E d \in PageDeltas : JumpViewport(d)) \/ (\E n \in 1 .. MaxChatLines : Load(n))) =>
           IF chatY = Bottom THEN chatY' = Bottom
           ELSE chatY < MaxY(total, height["chat"]) =>
                  chatY' \in {chatY, MaxY(total', height'["chat"])} /\ chatY' <= chatY]_csVars
  <2> SUFFICES ASSUME CsInductive, CsNext,
                      ~(WheelTick \/ (\E d \in PageDeltas : JumpViewport(d))
                        \/ (\E n \in 1 .. MaxChatLines : Load(n)))
               PROVE  Kept
    BY DEF Kept
  <2>1. chatY \in Int
    BY DEF CsInductive, ShownOK, Bottom
  <2>2. CASE chatY' = chatY
    BY <2>1, <2>2 DEF Kept
  <2>3. ASSUME NEW n \in 1 .. MaxChatLines, ChatEvent(n) PROVE Kept
    <3>1. chatY' = chatY \/ SyncAndFollow(n)
      BY <2>3 DEF ChatEvent
    <3> QED
      BY <2>2, <3>1, SyncKept
  <2>4. CASE ChatSyncFlush
    <3>1. SyncAndFollow(lines) /\ lines \in 1 .. MaxChatLines
      BY <2>4 DEF ChatSyncFlush, CsInductive, ShownOK
    <3> QED
      BY <3>1, SyncKept
  <2>5. CASE ToggleTool \/ RefreshLayout
    BY <2>2, <2>5 DEF ToggleTool, RefreshLayout
  <2>6. CASE \E a \in Areas, d \in WheelSteps : Wheel(a, d) \/ Wheel(a, -d)
    BY <2>2, <2>6 DEF Wheel
  <2> QED
    BY <2>3, <2>4, <2>5, <2>6 DEF CsNext
<1> QED
  BY <1>1, CsStarts, CsSteps, PTL DEF CsSpec, PlaceKept
=============================================================================
