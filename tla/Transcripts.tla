----------------------------- MODULE Transcripts -----------------------------
(***************************************************************************)
(* What the session store promises its callers, whatever keeps the rows    *)
(* (src/internal/session/store.go): a session is open from its creation    *)
(* on, messages are only ever appended to open sessions, each under an id  *)
(* of its own, and a session that has a message is never given up.         *)
(***************************************************************************)
EXTENDS Naturals, Sequences

CONSTANTS Sessions,   \* identifiers of sessions
          Ids         \* identifiers of messages

VARIABLES open,       \* the sessions a caller may use
          log         \* log[s]: ids of the messages of s, oldest first

vars == <<open, log>>

TypeOK ==
  /\ open \subseteq Sessions
  /\ log \in [Sessions -> Seq(Ids)]

Init ==
  /\ open = {}
  /\ log = [s \in Sessions |-> << >>]

Open(s) ==
  /\ s \notin open
  /\ log[s] = << >>
  /\ open' = open \cup {s}
  /\ UNCHANGED log

\* Dropped by its user, or lost with the process: only sessions without messages.
Discard(S) ==
  /\ \A s \in S : log[s] = << >>
  /\ open' = open \ S
  /\ UNCHANGED log

Append1(s, m) ==
  /\ s \in open
  /\ \A t \in Sessions : \A i \in DOMAIN log[t] : log[t][i] # m
  /\ log' = [log EXCEPT ![s] = Append(@, m)]
  /\ UNCHANGED open

Next ==
  \/ \E s \in Sessions : Open(s)
  \/ \E S \in SUBSET open : Discard(S)
  \/ \E s \in Sessions, m \in Ids : Append1(s, m)

Spec == Init /\ [][Next]_vars
==============================================================================
