---------------------------- MODULE ChatRecovery ----------------------------
(***************************************************************************)
(* The requests of a user turn and the recovery from their errors: the     *)
(* sub-rounds of Runner.runTurn and finishMaxTurnsExceeded (agent/         *)
(* runner_turn.go, runner_loop.go) call chatWithRecovery (agent/           *)
(* recovery.go), which calls the client (llm/deepseek/client), which tries *)
(* each HTTP request up to three times.                                    *)
(*                                                                         *)
(* Three budgets are nested: the tries of one Chat, the attempts of one    *)
(* chatWithRecovery, and the LoopState, made once for a turn and shared by *)
(* all its sub-rounds.  An error is the class the code's predicates on its *)
(* text put it in; what the model answers is nondeterministic.             *)
(***************************************************************************)
EXTENDS Integers

CONSTANTS MaxRounds,                                   \* Runner.MaxTurns
          HasFallback,                                 \* is there a fallback model?
          ConfigTokens,                                \* llm.max_tokens
          maxOutputTokensEscalate,                     \* 65536
          maxRecoveryAttempts,                         \* 3
          maxRateLimitRetries, maxServerErrorRetries,  \* 3 and 2
          httpTries                                    \* 3

ASSUME ChatRecoveryAssumption ==
  /\ MaxRounds \in Nat
  /\ HasFallback \in BOOLEAN
  /\ ConfigTokens \in Nat /\ maxOutputTokensEscalate \in Nat
  /\ maxRecoveryAttempts \in Nat
  /\ maxRateLimitRetries \in Nat
  /\ maxServerErrorRetries \in 0..maxRateLimitRetries
  /\ httpTries \in Nat \ {0}

VARIABLES
  pc,                                               \* where the turn is
  round,                                            \* sub-round; MaxRounds is the request for a summary
  cancelled,                                        \* is the turn's context cancelled?
  compactRetried, snipRetried, maxTokensEscalated, outputRecoveryCount,
  networkRetryCount, fallbackTried, ephemeralTail,  \* LoopState
  attempt,                                          \* chatWithRecovery's local counter
  err,                                              \* class of the last error
  tokens, model, continues, tail,                   \* currentReq
  tries,                                            \* doWithRetry's local counter
  sent,                                             \* HTTP requests of this turn                     (history)
  backoffs                                          \* retries of this call that only `attempt` bounds (history)

loopState == <<compactRetried, snipRetried, maxTokensEscalated,
               outputRecoveryCount, networkRetryCount, fallbackTried, ephemeralTail>>
request == <<tokens, model, continues, tail>>
vars == <<pc, round, cancelled, loopState, attempt, err, request, tries, sent, backoffs>>

Errors == {"context", "length", "empty", "network", "rate", "server", "other"}

NewLoopState ==
  /\ compactRetried' = FALSE /\ snipRetried' = FALSE
  /\ maxTokensEscalated' = FALSE
  /\ outputRecoveryCount' = 0 /\ networkRetryCount' = 0
  /\ fallbackTried' = FALSE
  /\ ephemeralTail' = FALSE

Init ==
  /\ pc = "prepare" /\ round = 0 /\ cancelled = FALSE
  /\ compactRetried = FALSE /\ snipRetried = FALSE
  /\ maxTokensEscalated = FALSE
  /\ outputRecoveryCount = 0 /\ networkRetryCount = 0
  /\ fallbackTried = FALSE
  /\ ephemeralTail = FALSE
  /\ attempt = 0 /\ err = "none"
  /\ tokens = ConfigTokens /\ model = "session" /\ continues = 0 /\ tail = FALSE
  /\ tries = 0 /\ sent = 0 /\ backoffs = 0

\* The variables of a call of chatWithRecovery live as long as the call.
locals == <<attempt, err, request, tries, backoffs>>
NoLocals(withTail) ==
  /\ attempt' = 0 /\ err' = "none" /\ tries' = 0 /\ backoffs' = 0
  /\ tokens' = ConfigTokens /\ model' = "session" /\ continues' = 0 /\ tail' = withTail

\* chatWithRecovery starts with the request of its caller.
Call(withTail) ==
  /\ pc' = "http"
  /\ NoLocals(withTail)
  /\ UNCHANGED <<round, cancelled, sent>>

\* A sub-round: PrepareRequest and the request.
Prepare ==
  /\ pc = "prepare" /\ round < MaxRounds /\ ~cancelled
  /\ Call(FALSE)
  /\ UNCHANGED loopState

\* Mutant: a fresh LoopState for the summary.
PrepareSummaryFresh ==
  /\ pc = "prepare" /\ round = MaxRounds
  /\ ephemeralTail' = TRUE
  /\ Call(TRUE)
  /\ compactRetried' = FALSE /\ snipRetried' = FALSE
  /\ maxTokensEscalated' = FALSE
  /\ outputRecoveryCount' = 0 /\ networkRetryCount' = 0
  /\ fallbackTried' = FALSE

\* finishMaxTurnsExceeded: the same with the summary prompt at the end, which is
\* not part of the session.
PrepareSummary ==
  /\ pc = "prepare" /\ round = MaxRounds
  /\ ephemeralTail' = TRUE
  /\ Call(TRUE)
  /\ UNCHANGED <<compactRetried, snipRetried, maxTokensEscalated,
                 outputRecoveryCount, networkRetryCount, fallbackTried>>

\* The store fails, or the context is cancelled.
PrepareFail ==
  /\ pc = "prepare"
  /\ pc' = "done"
  /\ UNCHANGED <<round, cancelled, loopState, locals, sent>>

(***************************************************************************)
(* The client.                                                             *)
(***************************************************************************)

clientFrame == <<round, cancelled, loopState, attempt, request, backoffs>>

\* The transport fails, or the status is 429 or 5xx: doWithRetry tries again.
HttpRetry ==
  /\ pc = "http" /\ ~cancelled
  /\ tries' = tries + 1 /\ sent' = sent + 1
  /\ IF tries' < httpTries
     THEN pc' = "http" /\ err' = err
     ELSE pc' = "recover" /\ err' \in {"network", "rate", "server", "other"}
  /\ UNCHANGED clientFrame

\* A response that is an error, breaks off, is empty or was cut at its length.
HttpError ==
  /\ pc = "http" /\ ~cancelled
  /\ err' \in Errors
  /\ sent' = sent + 1 /\ pc' = "recover"
  /\ UNCHANGED <<clientFrame, tries>>

\* A good answer: tool calls, or the end of the turn.  (The summary request offers
\* no tools.)
HttpAnswer ==
  /\ pc = "http" /\ ~cancelled
  /\ sent' = sent + 1
  /\ pc' \in (IF round < MaxRounds THEN {"tools", "done"} ELSE {"done"})
  /\ NoLocals(FALSE)
  /\ UNCHANGED <<round, cancelled, loopState>>

\* Mutant: a cancelled request counts as a failed one and is made again.
HttpCancelledAgain ==
  /\ pc = "http" /\ cancelled
  /\ UNCHANGED vars

\* doWithRetry looks at the context before and after each request.
HttpCancelled ==
  /\ pc = "http" /\ cancelled
  /\ err' = "other" /\ pc' = "recover"
  /\ UNCHANGED <<clientFrame, tries, sent>>

(***************************************************************************)
(* The cases of chatWithRecovery's switch.                                 *)
(***************************************************************************)

Retry == pc' = "http" /\ attempt' = attempt + 1 /\ err' = "none" /\ tries' = 0

\* chatWithRecovery returns an error: the turn is over.  (The failed summary is
\* replaced by a fixed text.)
GiveUp == pc' = "done" /\ NoLocals(FALSE) /\ UNCHANGED loopState

recoverFrame == <<round, cancelled, sent>>

\* Mutant: the prepared messages without the tail.
RebuildNoTail ==
  /\ tokens' = ConfigTokens /\ continues' = 0 /\ tail' = FALSE
  /\ model' = model

\* mergePreparedMessages(view.Messages, state.EphemeralTail)
Rebuild ==
  /\ tokens' = ConfigTokens /\ continues' = 0 /\ tail' = ephemeralTail
  /\ model' = model

\* Context too long: compact, then snip; PrepareRequest may fail.
RecoverContext ==
  /\ pc = "recover" /\ err = "context"
  /\ UNCHANGED recoverFrame
  /\ \/ /\ ~compactRetried \/ ~snipRetried
        /\ compactRetried' = TRUE
        /\ snipRetried' = (snipRetried \/ compactRetried)
        /\ \/ Rebuild /\ Retry /\ UNCHANGED backoffs
           \/ pc' = "done" /\ NoLocals(FALSE)
        /\ UNCHANGED <<maxTokensEscalated, outputRecoveryCount, networkRetryCount,
                       fallbackTried, ephemeralTail>>
     \/ compactRetried /\ snipRetried /\ GiveUp

\* tryOutputRecovery: "continue from where you left off".
OutputRecovery ==
  IF outputRecoveryCount < maxRecoveryAttempts
  THEN /\ outputRecoveryCount' = outputRecoveryCount + 1
       /\ continues' = continues + 1
       /\ Retry
       /\ UNCHANGED <<compactRetried, snipRetried, maxTokensEscalated, networkRetryCount,
                      fallbackTried, ephemeralTail, tokens, model, tail, backoffs>>
  ELSE GiveUp

\* Cut at its length: raise the limit once, then ask to continue.
RecoverLength ==
  /\ pc = "recover" /\ err = "length"
  /\ UNCHANGED recoverFrame
  /\ \/ /\ ~maxTokensEscalated
        /\ maxTokensEscalated' = TRUE
        /\ tokens' = maxOutputTokensEscalate
        /\ Retry
        /\ UNCHANGED <<compactRetried, snipRetried, outputRecoveryCount, networkRetryCount,
                       fallbackTried, ephemeralTail, model, continues, tail, backoffs>>
     \/ maxTokensEscalated /\ OutputRecovery

RecoverEmpty ==
  /\ pc = "recover" /\ err = "empty"
  /\ UNCHANGED recoverFrame
  /\ OutputRecovery

\* Mutant: the count is not kept.
RecoverNetworkUncounted ==
  /\ pc = "recover" /\ err = "network"
  /\ UNCHANGED recoverFrame
  /\ Retry /\ UNCHANGED <<loopState, request, backoffs>>

RecoverNetwork ==
  /\ pc = "recover" /\ err = "network"
  /\ UNCHANGED recoverFrame
  /\ \/ /\ networkRetryCount < maxRecoveryAttempts
        /\ networkRetryCount' = networkRetryCount + 1
        /\ Retry
        /\ UNCHANGED <<compactRetried, snipRetried, maxTokensEscalated, outputRecoveryCount,
                       fallbackTried, ephemeralTail, request, backoffs>>
     \/ networkRetryCount >= maxRecoveryAttempts /\ GiveUp

\* Rate limits and server errors wait 2^attempt seconds, or until the context is
\* cancelled, as long as `attempt` (which every other retry counts too) is small.
Backoff(max) ==
  /\ attempt < max
  /\ \/ Retry /\ backoffs' = backoffs + 1 /\ UNCHANGED <<loopState, request>>
     \/ cancelled /\ GiveUp

RecoverRate ==
  /\ pc = "recover" /\ err = "rate"
  /\ UNCHANGED recoverFrame
  /\ \/ Backoff(maxRateLimitRetries)
     \/ attempt >= maxRateLimitRetries /\ GiveUp

RecoverServer ==
  /\ pc = "recover" /\ err = "server"
  /\ UNCHANGED recoverFrame
  /\ \/ Backoff(maxServerErrorRetries)
     \/ /\ attempt >= maxServerErrorRetries
        /\ ~fallbackTried /\ HasFallback
        /\ fallbackTried' = TRUE
        /\ model' = "fallback"
        /\ Retry
        /\ UNCHANGED <<compactRetried, snipRetried, maxTokensEscalated, outputRecoveryCount,
                       networkRetryCount, ephemeralTail, tokens, continues, tail, backoffs>>
     \/ /\ attempt >= maxServerErrorRetries
        /\ fallbackTried \/ ~HasFallback
        /\ GiveUp

RecoverOther ==
  /\ pc = "recover" /\ err = "other"
  /\ UNCHANGED recoverFrame
  /\ GiveUp

(***************************************************************************)
(* The rest of the turn.                                                   *)
(***************************************************************************)

\* runToolCalls, which ends the turn if the store fails or the turn is cancelled.
Tools ==
  /\ pc = "tools"
  /\ \/ pc' = "prepare" /\ round' = round + 1
     \/ pc' = "done" /\ round' = round
  /\ UNCHANGED <<cancelled, loopState, locals, sent>>

Cancel ==
  /\ pc # "done" /\ ~cancelled
  /\ cancelled' = TRUE
  /\ UNCHANGED <<pc, round, loopState, locals, sent>>

\* The next turn of the user.
BeginTurn ==
  /\ pc = "done"
  /\ pc' = "prepare" /\ round' = 0 /\ cancelled' = FALSE
  /\ NewLoopState
  /\ sent' = 0
  /\ UNCHANGED locals

-----------------------------------------------------------------------------
Recover == RecoverContext \/ RecoverLength \/ RecoverEmpty \/ RecoverNetwork
             \/ RecoverRate \/ RecoverServer \/ RecoverOther
Step == Prepare \/ PrepareSummary \/ PrepareFail
          \/ HttpRetry \/ HttpError \/ HttpAnswer \/ HttpCancelled \/ Recover \/ Tools
Next == Step \/ Cancel \/ BeginTurn

Spec == Init /\ [][Next]_vars
FairSpec == Spec /\ WF_vars(Step)     \* the goroutine runs, requests time out

-----------------------------------------------------------------------------
(***************************************************************************)
(* Properties.                                                             *)
(***************************************************************************)

\* Every variable keeps to the values the code gives it.
TypeFlags ==
  /\ cancelled \in BOOLEAN
  /\ compactRetried \in BOOLEAN /\ snipRetried \in BOOLEAN
  /\ maxTokensEscalated \in BOOLEAN
  /\ fallbackTried \in BOOLEAN
  /\ ephemeralTail \in BOOLEAN /\ tail \in BOOLEAN

TypeCounters ==
  /\ round \in 0..MaxRounds
  /\ outputRecoveryCount \in 0..maxRecoveryAttempts
  /\ networkRetryCount \in 0..maxRecoveryAttempts
  /\ continues \in 0..outputRecoveryCount
  /\ attempt \in Nat /\ sent \in Nat
  /\ backoffs \in 0..maxRateLimitRetries
  /\ tries \in 0..httpTries

TypeNames ==
  /\ pc \in {"prepare", "http", "recover", "tools", "done"}
  /\ err \in Errors \cup {"none"}
  /\ model \in {"session", "fallback"}
  /\ tokens \in {ConfigTokens, maxOutputTokensEscalate}

TypeOK == TypeFlags /\ TypeCounters /\ TypeNames

\* Retries a turn has left behind for good: each of them once in the LoopState.
B(b) == IF b THEN 1 ELSE 0
Used == B(compactRetried) + B(snipRetried) + B(maxTokensEscalated)
          + outputRecoveryCount + networkRetryCount + B(fallbackTried)

\* The cost of a turn, whatever the model and the network do: every sub-round, and
\* the summary, has one Chat and at most three retries of its own; ten more belong
\* to the turn as a whole; a Chat is at most three HTTP requests.
PerCall == 1 + maxRateLimitRetries
PerTurn == 4 + 2 * maxRecoveryAttempts
TurnCost == sent <= httpTries * (PerCall * (MaxRounds + 1) + PerTurn)

\* The inductive form of TurnCost: what a call has spent and may still spend.  Only
\* retries made while `attempt` is small are not counted by the LoopState.
Ahead == IF pc = "http" THEN httpTries - tries ELSE 0
InCall == pc \in {"http", "recover"}
Calls == IF InCall \/ pc = "prepare" THEN round ELSE round + 1
Budget == PerCall * Calls + Used + (IF InCall THEN 1 + backoffs ELSE 0)

Locals ==
  /\ backoffs <= attempt
  /\ pc = "http" => tries < httpTries
  /\ pc = "tools" => round < MaxRounds
  /\ ~InCall => continues = 0

CostInv == Locals /\ sent + Ahead <= httpTries * Budget

\* However often the request is rebuilt, the request for a summary ends with the
\* prompt that asks for it (recovery.go:83), and no other request does.
SummaryPromptKept == InCall => (tail <=> round = MaxRounds)

\* Every turn ends, whatever the model answers and however its requests fail.
TurnEnds == pc = "prepare" ~> pc = "done"

\* What holds at every moment of a turn: the types and limits of the counters of LoopState,
\* and that the requests made so far, with those a call has left, are within the budget.
RecoveryInv == TypeOK /\ CostInv
=============================================================================
