------------------------ MODULE ChatRecovery_proofs ------------------------
(***************************************************************************)
(* Proofs about ChatRecovery: types, the cost of a turn, and the summary   *)
(* prompt, for every value of the budgets.                                 *)
(***************************************************************************)
EXTENDS ChatRecovery, TLAPS

USE ChatRecoveryAssumption DEF ChatRecoveryAssumption

(***************************************************************************)
(* Types.                                                                  *)
(***************************************************************************)

\* TypeOK is not inductive: its bounds follow from where the turn is and from what
\* the counters of a call have in common (Locals).
TypeInv == TypeOK /\ Locals

\* The initial state satisfies the invariant.
LEMMA TypeInit == Init => TypeInv
<1>1. Init => TypeFlags
  BY DEF Init, TypeFlags
<1>2. Init => TypeCounters
  BY DEF Init, TypeCounters
<1>3. Init => TypeNames
  BY DEF Init, TypeNames
<1>4. Init => Locals
  BY DEF Init, Locals, InCall
<1> QED
  BY <1>1, <1>2, <1>3, <1>4 DEF TypeInv, TypeOK

\* Every step sets a flag or leaves it.
LEMMA FlagsStep == TypeFlags /\ [Next]_vars => TypeFlags'
<1> SUFFICES ASSUME TypeFlags, [Next]_vars
             PROVE TypeFlags'
  OBVIOUS
<1> USE DEF TypeFlags, locals, request, loopState
<1>1. CASE Prepare
  BY <1>1 DEF Prepare, Call, NoLocals
<1>2. CASE PrepareSummary
  BY <1>2 DEF PrepareSummary, Call, NoLocals
<1>3. CASE PrepareFail
  BY <1>3 DEF PrepareFail
<1>4. CASE HttpRetry
  BY <1>4 DEF HttpRetry, clientFrame
<1>5. CASE HttpError
  BY <1>5 DEF HttpError, clientFrame
<1>6. CASE HttpAnswer
  BY <1>6 DEF HttpAnswer, NoLocals
<1>7. CASE HttpCancelled
  BY <1>7 DEF HttpCancelled, clientFrame
<1>8. CASE RecoverContext
  BY <1>8 DEF RecoverContext, recoverFrame, Rebuild, Retry, GiveUp, NoLocals
<1>9. CASE RecoverLength
  BY <1>9 DEF RecoverLength, recoverFrame, OutputRecovery, Retry, GiveUp, NoLocals
<1>10. CASE RecoverEmpty
  BY <1>10 DEF RecoverEmpty, recoverFrame, OutputRecovery, Retry, GiveUp, NoLocals
<1>11. CASE RecoverNetwork
  BY <1>11 DEF RecoverNetwork, recoverFrame, Retry, GiveUp, NoLocals
<1>12. CASE RecoverRate
  BY <1>12 DEF RecoverRate, recoverFrame, Backoff, Retry, GiveUp, NoLocals
<1>13. CASE RecoverServer
  BY <1>13 DEF RecoverServer, recoverFrame, Backoff, Retry, GiveUp, NoLocals
<1>14. CASE RecoverOther
  BY <1>14 DEF RecoverOther, recoverFrame, GiveUp, NoLocals
<1>15. CASE Tools
  BY <1>15 DEF Tools
<1>16. CASE Cancel
  BY <1>16 DEF Cancel
<1>17. CASE BeginTurn
  BY <1>17 DEF BeginTurn, NewLoopState
<1>18. CASE UNCHANGED vars
  BY <1>18 DEF vars
<1> QED
  BY <1>1, <1>2, <1>3, <1>4, <1>5, <1>6, <1>7, <1>8, <1>9, <1>10, <1>11, <1>12,
     <1>13, <1>14, <1>15, <1>16, <1>17, <1>18 DEF Next, Step, Recover

\* Every step takes the names of the code.
LEMMA NamesStep == TypeNames /\ [Next]_vars => TypeNames'
<1> SUFFICES ASSUME TypeNames, [Next]_vars
             PROVE TypeNames'
  OBVIOUS
<1> USE DEF TypeNames, Errors, locals, request, loopState
<1>1. CASE Prepare
  BY <1>1 DEF Prepare, Call, NoLocals
<1>2. CASE PrepareSummary
  BY <1>2 DEF PrepareSummary, Call, NoLocals
<1>3. CASE PrepareFail
  BY <1>3 DEF PrepareFail
<1>4. CASE HttpRetry
  BY <1>4 DEF HttpRetry, clientFrame
<1>5. CASE HttpError
  BY <1>5 DEF HttpError, clientFrame
<1>6. CASE HttpAnswer
  BY <1>6 DEF HttpAnswer, NoLocals
<1>7. CASE HttpCancelled
  BY <1>7 DEF HttpCancelled, clientFrame
<1>8. CASE RecoverContext
  BY <1>8 DEF RecoverContext, recoverFrame, Rebuild, Retry, GiveUp, NoLocals
<1>9. CASE RecoverLength
  BY <1>9 DEF RecoverLength, recoverFrame, OutputRecovery, Retry, GiveUp, NoLocals
<1>10. CASE RecoverEmpty
  BY <1>10 DEF RecoverEmpty, recoverFrame, OutputRecovery, Retry, GiveUp, NoLocals
<1>11. CASE RecoverNetwork
  BY <1>11 DEF RecoverNetwork, recoverFrame, Retry, GiveUp, NoLocals
<1>12. CASE RecoverRate
  BY <1>12 DEF RecoverRate, recoverFrame, Backoff, Retry, GiveUp, NoLocals
<1>13. CASE RecoverServer
  BY <1>13 DEF RecoverServer, recoverFrame, Backoff, Retry, GiveUp, NoLocals
<1>14. CASE RecoverOther
  BY <1>14 DEF RecoverOther, recoverFrame, GiveUp, NoLocals
<1>15. CASE Tools
  BY <1>15 DEF Tools
<1>16. CASE Cancel
  BY <1>16 DEF Cancel
<1>17. CASE BeginTurn
  BY <1>17 DEF BeginTurn, NewLoopState
<1>18. CASE UNCHANGED vars
  BY <1>18 DEF vars
<1> QED
  BY <1>1, <1>2, <1>3, <1>4, <1>5, <1>6, <1>7, <1>8, <1>9, <1>10, <1>11, <1>12,
     <1>13, <1>14, <1>15, <1>16, <1>17, <1>18 DEF Next, Step, Recover

\* Every counter is compared with its bound before it grows.
LEMMA CountersStep == TypeCounters /\ Locals /\ [Next]_vars => TypeCounters' /\ Locals'
<1> SUFFICES ASSUME TypeCounters, Locals, [Next]_vars
             PROVE TypeCounters' /\ Locals'
  OBVIOUS
<1> USE DEF TypeCounters, Locals, InCall, locals, request, loopState
<1>1. CASE Prepare
  BY <1>1 DEF Prepare, Call, NoLocals
<1>2. CASE PrepareSummary
  BY <1>2 DEF PrepareSummary, Call, NoLocals
<1>3. CASE PrepareFail
  BY <1>3 DEF PrepareFail
<1>4. CASE HttpRetry
  BY <1>4 DEF HttpRetry, clientFrame
<1>5. CASE HttpError
  BY <1>5 DEF HttpError, clientFrame
<1>6. CASE HttpAnswer
  BY <1>6 DEF HttpAnswer, NoLocals
<1>7. CASE HttpCancelled
  BY <1>7 DEF HttpCancelled, clientFrame
<1>8. CASE RecoverContext
  BY <1>8 DEF RecoverContext, recoverFrame, Rebuild, Retry, GiveUp, NoLocals
<1>9. CASE RecoverLength
  BY <1>9 DEF RecoverLength, recoverFrame, OutputRecovery, Retry, GiveUp, NoLocals
<1>10. CASE RecoverEmpty
  BY <1>10 DEF RecoverEmpty, recoverFrame, OutputRecovery, Retry, GiveUp, NoLocals
<1>11. CASE RecoverNetwork
  BY <1>11 DEF RecoverNetwork, recoverFrame, Retry, GiveUp, NoLocals
<1>12. CASE RecoverRate
  BY <1>12 DEF RecoverRate, recoverFrame, Backoff, Retry, GiveUp, NoLocals
<1>13. CASE RecoverServer
  BY <1>13 DEF RecoverServer, recoverFrame, Backoff, Retry, GiveUp, NoLocals
<1>14. CASE RecoverOther
  BY <1>14 DEF RecoverOther, recoverFrame, GiveUp, NoLocals
<1>15. CASE Tools
  BY <1>15 DEF Tools
<1>16. CASE Cancel
  BY <1>16 DEF Cancel
<1>17. CASE BeginTurn
  BY <1>17 DEF BeginTurn, NewLoopState
<1>18. CASE UNCHANGED vars
  BY <1>18 DEF vars
<1> QED
  BY <1>1, <1>2, <1>3, <1>4, <1>5, <1>6, <1>7, <1>8, <1>9, <1>10, <1>11, <1>12,
     <1>13, <1>14, <1>15, <1>16, <1>17, <1>18 DEF Next, Step, Recover

\* The type invariant of ChatRecovery holds in every reachable state.
THEOREM Typing == Spec => []TypeOK
<1>1. TypeInv /\ [Next]_vars => TypeInv'
  BY FlagsStep, NamesStep, CountersStep DEF TypeInv, TypeOK
<1> QED
  BY TypeInit, <1>1, PTL DEF Spec, TypeInv

(***************************************************************************)
(* The cost of a turn.                                                     *)
(***************************************************************************)

\* Arithmetic of the budget: a multiple of httpTries grows with its factor, and the
\* share of a call covers what the call has spent.
LEMMA Less ==
  ASSUME NEW x \in Nat, NEW y \in Nat, NEW a \in Nat, NEW b \in Nat,
         x <= httpTries * a, y <= x, a <= b
  PROVE  y <= httpTries * b
<1>1. httpTries * a <= httpTries * b
  OBVIOUS
<1> QED
  BY <1>1

LEMMA OneMore ==
  ASSUME NEW x \in Nat, NEW a \in Nat, x <= httpTries * a
  PROVE  x + httpTries <= httpTries * (a + 1)
<1>1. httpTries * (a + 1) = httpTries * a + httpTries
  OBVIOUS
<1> QED
  BY <1>1

LEMMA Share ==
  ASSUME NEW r \in Nat
  PROVE  PerCall * r \in Nat /\ PerCall * (r + 1) = PerCall * r + PerCall
BY DEF PerCall

LEMMA Whole ==
  ASSUME NEW r \in Nat, NEW q \in Nat, r <= q
  PROVE  PerCall * r <= PerCall * q
BY DEF PerCall

\* Used counts at most PerTurn retries.
LEMMA UsedBound ==
  TypeFlags /\ TypeCounters => Used \in Nat /\ Used <= PerTurn
BY DEF TypeFlags, TypeCounters, Used, B, PerTurn

\* The budget is a number, before a step and after it.
Numbers ==
  /\ Budget \in Nat /\ Calls \in Nat /\ Ahead \in Nat
  /\ Used \in Nat /\ Used <= PerTurn
  /\ PerCall * Calls \in Nat
  /\ sent \in Nat /\ round \in Nat /\ backoffs \in Nat

LEMMA BudgetType == TypeInv => Numbers
<1> SUFFICES ASSUME TypeInv
             PROVE  Numbers
  OBVIOUS
<1>1. Used \in Nat /\ Used <= PerTurn
  BY UsedBound DEF TypeInv, TypeOK
<1>2. Calls \in Nat /\ Ahead \in Nat
  BY DEF TypeInv, TypeOK, TypeCounters, Locals, Calls, Ahead
<1>3. PerCall * Calls \in Nat
  BY <1>2, Share
<1>4. sent \in Nat /\ round \in Nat /\ backoffs \in Nat
  BY DEF TypeInv, TypeOK, TypeCounters
<1>5. Budget \in Nat
  BY <1>1, <1>3, <1>4 DEF Budget
<1> QED
  BY <1>1, <1>2, <1>3, <1>4, <1>5 DEF Numbers

LEMMA BudgetTypeNext == TypeInv' => Numbers'
BY BudgetType, PTL

\* What may be spent does not grow, and the budget does not shrink.
LEMMA SpendLess ==
  ASSUME Numbers, Numbers', CostInv, sent' + Ahead' <= sent + Ahead, Budget <= Budget'
  PROVE  sent' + Ahead' <= httpTries * Budget'
<1>1. PICK s \in Nat, h \in Nat, a \in Nat : s = sent /\ h = Ahead /\ a = Budget
  BY DEF Numbers
<1>2. PICK t \in Nat, g \in Nat, b \in Nat : t = sent' /\ g = Ahead' /\ b = Budget'
  BY DEF Numbers
<1>3. s + h <= httpTries * a /\ t + g <= s + h /\ a <= b
  BY <1>1, <1>2, Zenon DEF CostInv
<1>4. PICK x \in Nat, y \in Nat : x = s + h /\ y = t + g
  OBVIOUS
<1>5. y <= httpTries * b
  BY <1>3, <1>4, Less
<1> QED
  BY <1>2, <1>4, <1>5, Zenon

\* One more Chat is one more in the budget.
LEMMA SpendOne ==
  ASSUME Numbers, Numbers', CostInv,
         Ahead = 0, sent' = sent, Ahead' = httpTries, Budget' = Budget + 1
  PROVE  sent' + Ahead' <= httpTries * Budget'
<1>1. PICK s \in Nat, a \in Nat : s = sent /\ a = Budget
  BY DEF Numbers
<1>2. s + 0 <= httpTries * a
  BY <1>1, Zenon DEF CostInv
<1>3. s + httpTries <= httpTries * (a + 1)
  BY <1>2, OneMore
<1> QED
  BY <1>1, <1>3, Zenon

\* A retry is counted by the LoopState or by the backoffs.
LEMMA RetryCost ==
  ASSUME Numbers, Numbers', CostInv, pc = "recover", Retry, round' = round, sent' = sent,
         Used' + backoffs' = Used + backoffs + 1
  PROVE  sent' + Ahead' <= httpTries * Budget'
<1>1. Ahead = 0 /\ Ahead' = httpTries
  BY DEF Ahead, Retry
<1>2. Calls = round /\ Calls' = round
  BY DEF Calls, InCall, Retry
<1>3. PICK p \in Nat, u \in Nat, k \in Nat : p = PerCall * round /\ u = Used /\ k = backoffs
  BY <1>2 DEF Numbers
<1>4. PICK v \in Nat, l \in Nat : v = Used' /\ l = backoffs'
  BY DEF Numbers
<1>5. Budget = p + u + (1 + k) /\ Budget' = p + v + (1 + l) /\ v + l = u + k + 1
  <2>1. Budget = PerCall * round + Used + (1 + backoffs)
    BY <1>2, Zenon DEF Budget, InCall
  <2>2. Budget' = PerCall * round + Used' + (1 + backoffs')
    BY <1>2, Zenon DEF Budget, InCall, Retry
  <2> QED
    BY <1>3, <1>4, <2>1, <2>2, Zenon
<1>6. p + v + (1 + l) = (p + u + (1 + k)) + 1
  BY <1>5
<1>7. Budget' = Budget + 1
  BY <1>5, <1>6, Zenon
<1> QED
  BY <1>1, <1>7, SpendOne

\* The end of a call leaves the rest of its share unused.
LEMMA EndCost ==
  ASSUME Numbers, Numbers', CostInv, InCall, backoffs <= maxRateLimitRetries,
         pc' \in {"tools", "done"}, round' = round, sent' <= sent + Ahead, Used <= Used'
  PROVE  sent' + Ahead' <= httpTries * Budget'
<1>1. Ahead' = 0
  BY DEF Ahead
<1>2. Calls = round /\ Calls' = round + 1
  BY DEF Calls, InCall
<1>3. PICK s \in Nat, h \in Nat, r \in Nat, k \in Nat, u \in Nat :
        s = sent /\ h = Ahead /\ r = round /\ k = backoffs /\ u = Used
  BY DEF Numbers
<1>4. PICK t \in Nat, v \in Nat : t = sent' /\ v = Used'
  BY DEF Numbers
<1>5. t <= s + h /\ u <= v /\ k <= maxRateLimitRetries
  BY <1>3, <1>4, Zenon
<1>6. Budget = PerCall * r + u + (1 + k)
  BY <1>2, <1>3, Zenon DEF Budget
<1>7. Budget' = PerCall * (r + 1) + v + 0
  <2>1. pc' \notin {"http", "recover"}
    OBVIOUS
  <2> QED
    BY <1>2, <1>3, <1>4, <2>1, Zenon DEF Budget, InCall
<1>8. PerCall * r + u + (1 + k) <= PerCall * (r + 1) + v + 0
  <2>1. PICK p \in Nat : p = PerCall * r
    BY Share
  <2>2. PerCall * (r + 1) = p + PerCall
    BY <2>1, Share
  <2>3. p + u + (1 + k) <= p + PerCall + v + 0
    BY <1>5 DEF PerCall
  <2> QED
    BY <2>1, <2>2, <2>3, Zenon
<1>9. Budget <= Budget'
  BY <1>6, <1>7, <1>8, Zenon
<1>10. t + 0 <= s + h
  BY <1>5
<1>11. sent' + Ahead' <= sent + Ahead
  BY <1>1, <1>3, <1>4, <1>10, Zenon
<1> QED
  BY <1>9, <1>11, SpendLess

\* Retries counted by the LoopState, and those that give up.
LEMMA CountedCost ==
  ASSUME TypeInv, Numbers, Numbers', CostInv, pc = "recover",
         RecoverContext \/ RecoverLength \/ RecoverEmpty \/ RecoverNetwork
           \/ RecoverRate \/ RecoverServer \/ RecoverOther
  PROVE  sent' + Ahead' <= httpTries * Budget'
<1>1. round' = round /\ sent' = sent
  BY DEF RecoverContext, RecoverLength, RecoverEmpty, RecoverNetwork, RecoverRate,
         RecoverServer, RecoverOther, recoverFrame
<1>2. Ahead = 0
  BY DEF Ahead
<1>3. InCall /\ backoffs <= maxRateLimitRetries
  BY DEF InCall, TypeInv, TypeOK, TypeCounters
<1>4. sent' <= sent + Ahead
  <2>1. PICK s \in Nat : s = sent
    BY DEF Numbers
  <2>2. s <= s + 0
    OBVIOUS
  <2> QED
    BY <1>1, <1>2, <2>1, <2>2, Zenon
<1>5. CASE Retry /\ Used' + backoffs' = Used + backoffs + 1
  BY <1>1, <1>5, RetryCost
<1>6. CASE pc' = "done" /\ Used <= Used'
  BY <1>1, <1>3, <1>4, <1>6, EndCost
<1>7. (Retry /\ Used' + backoffs' = Used + backoffs + 1) \/ (pc' = "done" /\ Used <= Used')
  <2> USE DEF TypeInv, TypeOK, TypeCounters, TypeFlags, Used, B, loopState, request
  <2>1. CASE RecoverContext
    BY <2>1 DEF RecoverContext, GiveUp, NoLocals
  <2>2. CASE RecoverLength
    BY <2>2 DEF RecoverLength, OutputRecovery, GiveUp, NoLocals
  <2>3. CASE RecoverEmpty
    BY <2>3 DEF RecoverEmpty, OutputRecovery, GiveUp, NoLocals
  <2>4. CASE RecoverNetwork
    BY <2>4 DEF RecoverNetwork, GiveUp, NoLocals
  <2>5. CASE RecoverRate
    <3>1. CASE attempt < maxRateLimitRetries
      <4>1. CASE Retry /\ backoffs' = backoffs + 1 /\ UNCHANGED <<loopState, request>>
        BY <4>1
      <4>2. CASE GiveUp
        BY <4>2 DEF GiveUp, NoLocals
      <4> QED
        BY <2>5, <3>1, <4>1, <4>2 DEF RecoverRate, Backoff
    <3>2. CASE ~(attempt < maxRateLimitRetries)
      BY <2>5, <3>2 DEF RecoverRate, Backoff, GiveUp, NoLocals
    <3> QED
      BY <3>1, <3>2
  <2>6. CASE RecoverServer
    BY <2>6 DEF RecoverServer, Backoff, GiveUp, NoLocals
  <2>7. CASE RecoverOther
    BY <2>7 DEF RecoverOther, GiveUp, NoLocals
  <2> QED
    BY <2>1, <2>2, <2>3, <2>4, <2>5, <2>6, <2>7
<1> QED
  BY <1>5, <1>6, <1>7

\* A call begins with the first of the requests its share allows.
LEMMA CallCost ==
  ASSUME Numbers, Numbers', CostInv, Prepare \/ PrepareSummary
  PROVE  sent' + Ahead' <= httpTries * Budget'
<1>1. /\ pc = "prepare" /\ pc' = "http" /\ round' = round /\ sent' = sent
      /\ tries' = 0 /\ backoffs' = 0
  BY DEF Prepare, PrepareSummary, Call, NoLocals
<1>2. Used' = Used
  BY DEF Prepare, PrepareSummary, loopState, Used
<1>3. Ahead = 0 /\ Ahead' = httpTries
  BY <1>1 DEF Ahead
<1>4. Calls = round /\ Calls' = round
  BY <1>1 DEF Calls, InCall
<1>5. PICK p \in Nat, u \in Nat : p = PerCall * round /\ u = Used
  BY <1>4 DEF Numbers
<1>6. Budget = p + u + 0 /\ Budget' = p + u + (1 + 0)
  <2>1. ~InCall /\ InCall'
    BY <1>1 DEF InCall
  <2>2. Budget = PerCall * round + Used + 0
    BY <1>4, <2>1, Zenon DEF Budget
  <2>3. Budget' = PerCall * round + Used + (1 + 0)
    BY <1>1, <1>2, <1>4, <2>1, Zenon DEF Budget
  <2> QED
    BY <1>5, <2>2, <2>3, Zenon
<1>7. p + u + (1 + 0) = (p + u + 0) + 1
  OBVIOUS
<1>8. Budget' = Budget + 1
  BY <1>6, <1>7, Zenon
<1> QED
  BY <1>1, <1>3, <1>8, SpendOne

\* Outside chatWithRecovery nothing is sent, and a sub-round adds its share.
LEMMA OutsideCost ==
  ASSUME TypeInv, TypeInv', Numbers, Numbers', CostInv, ~InCall, ~InCall',
         UNCHANGED <<loopState, sent>>, Calls <= Calls'
  PROVE  sent' + Ahead' <= httpTries * Budget'
<1>1. Ahead = 0 /\ Ahead' = 0
  BY DEF Ahead, InCall
<1>2. Used' = Used /\ sent' = sent
  BY DEF loopState, Used
<1>3. PICK c \in Nat, d \in Nat, u \in Nat : c = Calls /\ d = Calls' /\ u = Used
  BY DEF Numbers
<1>4. Budget = PerCall * c + u + 0 /\ Budget' = PerCall * d + u + 0
  BY <1>2, <1>3, Zenon DEF Budget
<1>5. PerCall * c + u + 0 <= PerCall * d + u + 0
  <2>1. c <= d
    BY <1>3, Zenon
  <2>2. PICK p \in Nat, q \in Nat : p = PerCall * c /\ q = PerCall * d
    BY Share
  <2>3. p <= q
    BY <2>1, <2>2, Whole
  <2> QED
    BY <2>2, <2>3
<1>6. Budget <= Budget'
  BY <1>4, <1>5, Zenon
<1>7. PICK s \in Nat : s = sent
  BY DEF Numbers
<1>8. s + 0 <= s + 0
  OBVIOUS
<1>9. sent' + Ahead' <= sent + Ahead
  BY <1>1, <1>2, <1>7, <1>8, Zenon
<1> QED
  BY <1>6, <1>9, SpendLess

\* An HTTP request uses a try, or the last of them.
LEMMA HttpCost ==
  ASSUME TypeInv, TypeInv', Numbers, Numbers', CostInv,
         HttpRetry \/ HttpError \/ HttpAnswer \/ HttpCancelled
  PROVE  sent' + Ahead' <= httpTries * Budget'
<1> USE DEF clientFrame
<1>1. pc = "http" /\ InCall /\ Ahead = httpTries - tries /\ tries < httpTries
  BY DEF HttpRetry, HttpError, HttpAnswer, HttpCancelled, InCall, Ahead, TypeInv, Locals
<1>2. sent \in Nat /\ tries \in 0..httpTries /\ backoffs <= maxRateLimitRetries
  BY DEF TypeInv, TypeOK, TypeCounters
<1>3. CASE HttpAnswer
  <2>1. pc' \in {"tools", "done"} /\ round' = round /\ sent' = sent + 1
    BY <1>3 DEF HttpAnswer
  <2>2. Used' = Used
    BY <1>3 DEF HttpAnswer, loopState, Used
  <2>3. sent' <= sent + Ahead
    BY <1>1, <1>2, <2>1 DEF Ahead
  <2>4. Used <= Used'
    <3>1. PICK u \in Nat : u = Used
      BY DEF Numbers
    <3>2. u <= u
      OBVIOUS
    <3> QED
      BY <2>2, <3>1, <3>2, Zenon
  <2> QED
    BY <1>1, <1>2, <2>1, <2>3, <2>4, EndCost
<1>4. CASE HttpRetry \/ HttpError \/ HttpCancelled
  <2>1. UNCHANGED <<round, loopState, backoffs>> /\ pc' \in {"http", "recover"}
    BY <1>4 DEF HttpRetry, HttpError, HttpCancelled
  <2>2. Budget' = Budget
    BY <1>1, <2>1 DEF Budget, Calls, InCall, Used, loopState
  <2>3. sent' + Ahead' <= sent + Ahead
    BY <1>1, <1>2, <1>4 DEF HttpRetry, HttpError, HttpCancelled, Ahead
  <2>4. Budget <= Budget'
    <3>1. PICK a \in Nat : a = Budget
      BY DEF Numbers
    <3>2. a <= a
      OBVIOUS
    <3> QED
      BY <2>2, <3>1, <3>2, Zenon
  <2> QED
    BY <2>3, <2>4, SpendLess
<1> QED
  BY <1>3, <1>4

\* Steps that touch neither the requests nor the retries.
LEMMA IdleCost ==
  ASSUME Numbers, Numbers', CostInv,
         UNCHANGED <<pc, round, loopState, tries, sent, backoffs>>
  PROVE  sent' + Ahead' <= httpTries * Budget'
<1>1. sent' = sent /\ Ahead' = Ahead /\ Budget' = Budget
  BY DEF Ahead, Budget, Calls, InCall, Used, loopState
<1>2. PICK s \in Nat, h \in Nat, a \in Nat : s = sent /\ h = Ahead /\ a = Budget
  BY DEF Numbers
<1>3. s + h <= s + h /\ a <= a
  OBVIOUS
<1>4. sent' + Ahead' <= sent + Ahead /\ Budget <= Budget'
  BY <1>1, <1>2, <1>3, Zenon
<1> QED
  BY <1>4, SpendLess

\* A new turn has sent nothing.
LEMMA BeginCost ==
  ASSUME Numbers', BeginTurn
  PROVE  sent' + Ahead' <= httpTries * Budget'
<1>1. sent' = 0 /\ Ahead' = 0
  BY DEF BeginTurn, Ahead
<1>2. PICK b \in Nat : b = Budget'
  BY DEF Numbers
<1>3. 0 + 0 <= httpTries * b
  BY Less
<1> QED
  BY <1>1, <1>2, <1>3, Zenon

\* No step spends what it may not.
LEMMA CostStep == TypeInv /\ TypeInv' /\ CostInv /\ [Next]_vars => CostInv'
<1> SUFFICES ASSUME TypeInv, TypeInv', CostInv, [Next]_vars
             PROVE  sent' + Ahead' <= httpTries * Budget'
  BY DEF CostInv, TypeInv
<1>1. Numbers /\ Numbers'
  BY BudgetType, BudgetTypeNext
<1>2. CASE Prepare \/ PrepareSummary
  BY <1>1, <1>2, CallCost
<1>3. CASE HttpRetry \/ HttpError \/ HttpAnswer \/ HttpCancelled
  BY <1>1, <1>3, HttpCost
<1>4. CASE Recover
  <2>1. pc = "recover"
    BY <1>4 DEF Recover, RecoverContext, RecoverLength, RecoverEmpty, RecoverNetwork,
                RecoverRate, RecoverServer, RecoverOther
  <2> QED
    BY <1>1, <1>4, <2>1, CountedCost DEF Recover
<1>5. CASE PrepareFail \/ Tools
  <2>1. ~InCall /\ ~InCall'
    BY <1>5 DEF PrepareFail, Tools, InCall
  <2>2. UNCHANGED <<loopState, sent>>
    BY <1>5 DEF PrepareFail, Tools
  <2>3. Calls <= Calls'
    <3>1. PICK r \in Nat : r = round
      BY <1>1 DEF Numbers
    <3>2. \/ Calls = round /\ Calls' = round + 1
          \/ Calls = round + 1 /\ Calls' = round + 1
      BY <1>5 DEF PrepareFail, Tools, Calls, InCall
    <3>3. r <= r + 1 /\ r + 1 <= r + 1
      OBVIOUS
    <3> QED
      BY <3>1, <3>2, <3>3, Zenon
  <2> QED
    BY <1>1, <2>1, <2>2, <2>3, OutsideCost
<1>6. CASE Cancel
  BY <1>1, <1>6, IdleCost DEF Cancel, locals
<1>7. CASE BeginTurn
  BY <1>1, <1>7, BeginCost
<1>8. CASE UNCHANGED vars
  BY <1>1, <1>8, IdleCost DEF vars
<1> QED
  BY <1>2, <1>3, <1>4, <1>5, <1>6, <1>7, <1>8 DEF Next, Step

\* Within the bounds of the types, no budget exceeds the one of the whole turn.
LEMMA CostBound == TypeInv /\ CostInv => TurnCost
<1> SUFFICES ASSUME TypeInv, CostInv
             PROVE  TurnCost
  OBVIOUS
<1>1. Numbers
  BY BudgetType
<1>2. PICK s \in Nat, h \in Nat, c \in Nat, u \in Nat, k \in Nat, a \in Nat :
        s = sent /\ h = Ahead /\ c = Calls /\ u = Used /\ k = backoffs /\ a = Budget
  BY <1>1 DEF Numbers
<1>3. PICK w \in Nat : w = PerCall * (MaxRounds + 1) + PerTurn
  BY Share DEF PerTurn
<1>4. s + h <= httpTries * a
  BY <1>2, Zenon DEF CostInv
<1>5. u <= PerTurn
  BY <1>1, <1>2, Zenon DEF Numbers
<1>6. a <= w
  <2>1. CASE InCall
    <3>1. a = PerCall * c + u + (1 + k)
      BY <1>2, <2>1, Zenon DEF Budget
    <3>2. c <= MaxRounds /\ 1 + k <= PerCall
      BY <1>2, <2>1 DEF Calls, PerCall, TypeInv, TypeOK, TypeCounters
    <3>3. PICK p \in Nat, q \in Nat : p = PerCall * c /\ q = PerCall * MaxRounds
      BY Share
    <3>4. p <= q
      BY <3>2, <3>3, Whole
    <3>5. w = q + PerCall + PerTurn
      BY <1>3, <3>3, Share
    <3> QED
      BY <1>5, <3>1, <3>2, <3>3, <3>4, <3>5 DEF PerCall, PerTurn
  <2>2. CASE ~InCall
    <3>1. a = PerCall * c + u + 0
      BY <1>2, <2>2, Zenon DEF Budget
    <3>2. c <= MaxRounds + 1
      BY <1>2, <2>2 DEF Calls, TypeInv, TypeOK, TypeCounters
    <3>3. PICK p \in Nat, q \in Nat : p = PerCall * c /\ q = PerCall * (MaxRounds + 1)
      BY Share
    <3>4. p <= q
      BY <3>2, <3>3, Whole
    <3> QED
      BY <1>3, <1>5, <3>1, <3>3, <3>4 DEF PerTurn
  <2> QED
    BY <2>1, <2>2
<1>7. s <= s + h
  OBVIOUS
<1>8. PICK x \in Nat : x = s + h
  OBVIOUS
<1>9. s <= httpTries * w
  BY <1>4, <1>6, <1>7, <1>8, Less
<1> QED
  BY <1>2, <1>3, <1>9, Zenon DEF TurnCost

\* The initial state has spent nothing.
LEMMA CostInit == Init => CostInv
<1> SUFFICES ASSUME Init
             PROVE  CostInv
  OBVIOUS
<1>1. Locals /\ Numbers
  BY TypeInit, BudgetType DEF TypeInv
<1>2. sent = 0 /\ Ahead = 0
  BY DEF Init, Ahead
<1>3. PICK b \in Nat : b = Budget
  BY <1>1 DEF Numbers
<1>4. 0 + 0 <= httpTries * b
  BY Less
<1> QED
  BY <1>1, <1>2, <1>3, <1>4, Zenon DEF CostInv

\* A turn costs a bounded number of requests, for all values of the budgets.
THEOREM CostBounded == Spec => []TurnCost
<1>1. Init => TypeInv /\ CostInv
  BY TypeInit, CostInit
<1>2. TypeInv /\ CostInv /\ [Next]_vars => TypeInv' /\ CostInv'
  BY FlagsStep, NamesStep, CountersStep, CostStep DEF TypeInv, TypeOK
<1>3. TypeInv /\ CostInv => TurnCost
  BY CostBound
<1> QED
  BY <1>1, <1>2, <1>3, PTL DEF Spec

\* What a turn has spent and may still spend is within its budget in every state: the
\* inductive form of CostBounded, with the types of the counters it is made of.
THEOREM RecoveryHolds == Spec => []RecoveryInv
<1>1. Init => TypeInv /\ CostInv
  BY TypeInit, CostInit
<1>2. TypeInv /\ CostInv /\ [Next]_vars => TypeInv' /\ CostInv'
  BY FlagsStep, NamesStep, CountersStep, CostStep DEF TypeInv, TypeOK
<1>3. TypeInv /\ CostInv => RecoveryInv
  BY DEF TypeInv, RecoveryInv
<1> QED
  BY <1>1, <1>2, <1>3, PTL DEF Spec

(***************************************************************************)
(* The summary prompt.                                                     *)
(***************************************************************************)

\* The tail of the LoopState, which a rebuilt request takes its prompt from, is set
\* for the summary and only then.
TailInv ==
  /\ SummaryPromptKept
  /\ InCall => (ephemeralTail <=> round = MaxRounds)
  /\ pc \in {"prepare", "tools"} => ~ephemeralTail

\* No step loses the prompt, or adds it to another request.
LEMMA TailStep == TypeFlags /\ TailInv /\ [Next]_vars => TailInv'
<1> SUFFICES ASSUME TypeFlags, TailInv, [Next]_vars
             PROVE  TailInv'
  OBVIOUS
<1> USE DEF TypeFlags, TailInv, SummaryPromptKept, InCall, locals, request, loopState
<1>1. CASE Prepare
  BY <1>1 DEF Prepare, Call, NoLocals
<1>2. CASE PrepareSummary
  BY <1>2 DEF PrepareSummary, Call, NoLocals
<1>3. CASE PrepareFail
  BY <1>3 DEF PrepareFail
<1>4. CASE HttpRetry
  BY <1>4 DEF HttpRetry, clientFrame
<1>5. CASE HttpError
  BY <1>5 DEF HttpError, clientFrame
<1>6. CASE HttpAnswer
  BY <1>6 DEF HttpAnswer, NoLocals
<1>7. CASE HttpCancelled
  BY <1>7 DEF HttpCancelled, clientFrame
<1>8. CASE RecoverContext
  BY <1>8 DEF RecoverContext, recoverFrame, Rebuild, Retry, GiveUp, NoLocals
<1>9. CASE RecoverLength
  BY <1>9 DEF RecoverLength, recoverFrame, OutputRecovery, Retry, GiveUp, NoLocals
<1>10. CASE RecoverEmpty
  BY <1>10 DEF RecoverEmpty, recoverFrame, OutputRecovery, Retry, GiveUp, NoLocals
<1>11. CASE RecoverNetwork
  BY <1>11 DEF RecoverNetwork, recoverFrame, Retry, GiveUp, NoLocals
<1>12. CASE RecoverRate
  BY <1>12 DEF RecoverRate, recoverFrame, Backoff, Retry, GiveUp, NoLocals
<1>13. CASE RecoverServer
  BY <1>13 DEF RecoverServer, recoverFrame, Backoff, Retry, GiveUp, NoLocals
<1>14. CASE RecoverOther
  BY <1>14 DEF RecoverOther, recoverFrame, GiveUp, NoLocals
<1>15. CASE Tools
  BY <1>15 DEF Tools
<1>16. CASE Cancel
  BY <1>16 DEF Cancel
<1>17. CASE BeginTurn
  BY <1>17 DEF BeginTurn, NewLoopState
<1>18. CASE UNCHANGED vars
  BY <1>18 DEF vars
<1> QED
  BY <1>1, <1>2, <1>3, <1>4, <1>5, <1>6, <1>7, <1>8, <1>9, <1>10, <1>11, <1>12,
     <1>13, <1>14, <1>15, <1>16, <1>17, <1>18 DEF Next, Step, Recover

\* The request for a summary asks for it, after every recovery.
THEOREM SummaryPrompt == Spec => []SummaryPromptKept
<1>1. Init => TailInv
  BY DEF Init, TailInv, SummaryPromptKept, InCall
<1>2. TailInv => SummaryPromptKept
  BY DEF TailInv
<1> QED
  BY <1>1, <1>2, TailStep, FlagsStep, TypeInit, PTL DEF Spec, TypeInv, TypeOK

=============================================================================
