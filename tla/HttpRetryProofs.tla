---------------------------- MODULE HttpRetryProofs ----------------------------
(***************************************************************************)
(* Proofs about HttpRetry for every policy and every suggestion of the     *)
(* server: types, the bounds on waiting, and that the loop implements the  *)
(* at-most-once call of ServiceCall.                                       *)
(***************************************************************************)
EXTENDS HttpRetry, TLAPS

IInv == TypeOK /\ CleanInv /\ BudgetKept /\ WaitsFit

\* What the loop may wait: numbers, long enough for the server and not too long.
LEMMA BackoffsType ==
  ASSUME NEW n, NEW hint \in Nat, NEW w \in Backoffs(n, hint)
  PROVE  /\ w \in Nat
         /\ hint > 0 /\ Budget > 0 => w >= Lesser(hint, Budget)
         /\ hint = 0 => w <= Longest
<1>1. CASE hint > 0
  <2>1. PICK jitter \in {0} \cup 0..(Base - 1) :
          w = Lesser(hint + jitter, IF Budget = 0 THEN Longest ELSE Budget)
    BY <1>1 DEF Backoffs
  <2>2. jitter \in Nat /\ hint + jitter \in Nat /\ hint + jitter >= hint
    BY <2>1
  <2>3. CASE Budget = 0
    BY <1>1, <2>1, <2>2, <2>3, PolicyAssumption DEF Lesser
  <2>4. CASE Budget # 0
    <3>1. w = IF hint + jitter < Budget THEN hint + jitter ELSE Budget
      BY <2>1, <2>4 DEF Lesser
    <3>2. Budget \in Nat
      BY PolicyAssumption
    <3> QED BY <1>1, <2>2, <3>1, <3>2 DEF Lesser
  <2> QED BY <2>3, <2>4
<1>2. CASE hint = 0 /\ Base = 0
  BY <1>2, PolicyAssumption DEF Backoffs
<1>3. CASE hint = 0 /\ Base # 0
  <2>1. w \in 0..Longest
    BY <1>3 DEF Backoffs, Jittered
  <2> QED BY <1>3, <2>1, PolicyAssumption
<1> QED BY <1>1, <1>2, <1>3

LEMMA InitIInv == Init => IInv
<1> SUFFICES ASSUME Init PROVE IInv
  OBVIOUS
<1>0. 0 \in Attempts
  BY PolicyAssumption DEF Attempts
<1>1. TypeOK
  BY <1>0 DEF Init, TypeOK
<1>2. CleanInv
  BY DEF Init, CleanInv, Call!Answered
<1>3. BudgetKept /\ WaitsFit
  BY PolicyAssumption DEF Init, BudgetKept, WaitsFit
<1> QED BY <1>1, <1>2, <1>3 DEF IInv

\* The end of a call that leaves the server as it is.
LEMMA ReturnIInv ==
  ASSUME IInv, NEW result, pc # "done", Return(result),
         result \in {"ok", "unread", "refused", "canceled", "local", "failed", "lost"},
         UNCHANGED canceled,
         open' \subseteq open, effects' = effects,
         result \in {"ok", "unread"} => effects # {},
         method \in Mutating /\ result \in Call!Untouched => open' \cup effects = {}
  PROVE  IInv'
<1>1. TypeOK'
  BY DEF IInv, TypeOK, Return
<1>2. CleanInv'
  BY DEF IInv, CleanInv, Return, Call!Answered, Call!Untouched
<1>3. BudgetKept' /\ WaitsFit'
  BY DEF IInv, BudgetKept, WaitsFit, Return
<1> QED BY <1>1, <1>2, <1>3 DEF IInv

\* Whatever the loop does with an answer, once the answer is known to say enough.
LEMMA AnswerIInv ==
  ASSUME IInv, pc \in {"try", "sent"}, NEW answer, NEW hint \in Nat,
         NEW result \in {"refused", "failed", "lost"}, Answer(answer, hint, result),
         UNCHANGED canceled,
         open' \subseteq open, effects' = effects,
         method \in Mutating /\ (Retryable(method, answer) \/ result = "refused") => open' \cup effects = {}
  PROVE  IInv'
<1>1. ASSUME NEW w \in Backoffs(attempt + 1, hint), Retryable(method, answer), Left(attempt),
             Fits(w), wait' = w, spent' = spent + w, pc' = "wait",
             attempt' = Following(attempt), hinted' = hint, UNCHANGED <<method, paced, outcome>>
      PROVE  IInv'
  <2>1. /\ w \in Nat /\ (hint > 0 /\ Budget > 0 => w >= Lesser(hint, Budget))
        /\ hint = 0 => w <= Longest
    BY <1>1, BackoffsType
  <2>2. attempt' = attempt + 1 /\ attempt \in Nat /\ attempt' \in Attempts
    BY <1>1, PolicyAssumption DEF IInv, TypeOK, Attempts, Left, Following
  <2>3. spent \in Nat /\ spent' \in Nat /\ (Budget > 0 => spent' <= Budget)
    BY <1>1, <2>1, PolicyAssumption DEF IInv, TypeOK, Fits
  <2>4. TypeOK'
    BY <1>1, <2>1, <2>2, <2>3 DEF IInv, TypeOK
  <2>5. \A a \in open \cup effects : a \in Nat /\ a <= attempt /\ a < attempt'
    BY <2>2 DEF IInv, TypeOK, CleanInv, Attempts
  <2>6. CleanInv'
    BY <1>1, <2>5 DEF IInv, CleanInv, Call!Answered, Call!Untouched
  <2>7. BudgetKept' /\ WaitsFit'
    BY <1>1, <2>1, <2>3, PolicyAssumption DEF BudgetKept, WaitsFit
  <2> QED BY <2>4, <2>6, <2>7 DEF IInv
<1>2. CASE Return(result)
  BY <1>2, ReturnIInv DEF Call!Untouched
<1> QED BY <1>1, <1>2 DEF Answer

LEMMA NextIInv ==
  ASSUME IInv, [Next]_vars
  PROVE  IInv'
<1> USE DEF client, server
<1>1. CASE LocalError
  BY <1>1, ReturnIInv DEF LocalError, IInv, CleanInv
<1>2. CASE PaceFails
  BY <1>2, ReturnIInv DEF PaceFails, IInv, CleanInv
<1>3. CASE Send
  <2>1. TypeOK'
    BY <1>3 DEF Send, IInv, TypeOK
  <2>2. CleanInv'
    BY <1>3 DEF Send, IInv, TypeOK, CleanInv, Attempts, Call!Answered, Call!Untouched
  <2>3. BudgetKept' /\ WaitsFit'
    BY <1>3 DEF Send, IInv, BudgetKept, WaitsFit
  <2> QED BY <2>1, <2>2, <2>3 DEF IInv
<1>4. CASE SendCanceled
  BY <1>4, AnswerIInv DEF SendCanceled, IInv, CleanInv
<1>5. CASE ConnectionLost
  BY <1>5, AnswerIInv DEF ConnectionLost, Retryable, Mutating, Idempotent
<1>6. CASE Success
  BY <1>6, ReturnIInv DEF Success, Call!Untouched
<1>7. CASE Rejected
  <2>1. method \in Mutating => open' \cup effects = {}
    BY <1>7 DEF Rejected, IInv, CleanInv
  <2>2. PICK answer \in {"quota", "bad"}, hint \in Nat : Answer(answer, hint, "refused")
    BY <1>7, PolicyAssumption DEF Rejected
  <2> QED BY <1>7, <2>1, <2>2, AnswerIInv DEF Rejected
<1>8. CASE ServerError
  <2>1. PICK answer \in {"flaky", "fault"} : Answer(answer, 0, "failed")
    BY <1>8 DEF ServerError
  <2>2. method \in Mutating => ~Retryable(method, answer)
    BY <2>1 DEF Retryable, Mutating, Idempotent
  <2> QED BY <1>8, <2>1, <2>2, AnswerIInv DEF ServerError
<1>9. CASE Wake
  BY <1>9 DEF Wake, IInv, TypeOK, CleanInv, BudgetKept, WaitsFit, Call!Answered, Call!Untouched
<1>10. CASE WakeCanceled
  BY <1>10, ReturnIInv DEF WakeCanceled, IInv, CleanInv
<1>11. CASE Cancel
  BY <1>11 DEF Cancel, IInv, TypeOK, CleanInv, BudgetKept, WaitsFit, Call!Answered, Call!Untouched
<1>12. ASSUME NEW a \in Attempts, Serve(a) PROVE IInv'
  <2>1. TypeOK' /\ BudgetKept' /\ WaitsFit'
    BY <1>12 DEF Serve, IInv, TypeOK, BudgetKept, WaitsFit
  <2>2. CleanInv'
    BY <1>12 DEF Serve, IInv, TypeOK, CleanInv, Call!Answered, Call!Untouched
  <2> QED BY <2>1, <2>2 DEF IInv
<1>13. CASE UNCHANGED vars
  BY <1>13 DEF vars, IInv, TypeOK, CleanInv, BudgetKept, WaitsFit, Call!Answered, Call!Untouched
<1> QED BY <1>1, <1>2, <1>3, <1>4, <1>5, <1>6, <1>7, <1>8, <1>9, <1>10, <1>11, <1>12, <1>13
        DEF Next, ClientStep

LEMMA InvariantHolds == Spec => []IInv
<1>1. IInv /\ [Next]_vars => IInv'
  BY NextIInv
<1> QED BY InitIInv, <1>1, PTL DEF Spec

-----------------------------------------------------------------------------
(* The theorems *)

\* The variables have their types, and no call is sent more than MaxAttempts times.
THEOREM RetryTypeCorrect == Spec => []TypeOK
<1>1. IInv => TypeOK
  BY DEF IInv
<1> QED BY <1>1, InvariantHolds, PTL

\* The waits of a call together stay within the budget under every sequence of
\* suggestions (nextWait).
THEOREM BudgetHolds == Spec => []BudgetKept
<1>1. IInv => BudgetKept
  BY DEF IInv
<1> QED BY <1>1, InvariantHolds, PTL

\* A suggested wait is honored up to the budget, and no other is longer than
\* Longest (Backoff).
THEOREM HintHonored == Spec => []WaitsFit
<1>1. IInv => WaitsFit
  BY DEF IInv
<1> QED BY <1>1, InvariantHolds, PTL

\* A step that ends the call ends it as ServiceCall may.
LEMMA ReturnRefines ==
  ASSUME NEW result, outcome = "none", Return(result), UNCHANGED effects,
         result \in {"ok", "unread", "refused", "canceled", "local", "failed", "lost"},
         result \in {"ok", "unread"} => effects # {},
         method \in Mutating /\ result \in {"refused", "canceled", "local"} => effects = {}
  PROVE  Call!Next
BY DEF Return, Call!Next, Call!Return, Call!Answered, Call!Untouched, Call!Unknown,
       Mutating, Call!Mutating

LEMMA AnswerRefines ==
  ASSUME NEW answer, NEW hint, NEW result \in {"refused", "failed", "lost"},
         outcome = "none", Answer(answer, hint, result), UNCHANGED effects,
         method \in Mutating /\ result = "refused" => effects = {}
  PROVE  [Call!Next]_(Call!vars)
<1>1. CASE Return(result)
  BY <1>1, ReturnRefines
<1>2. CASE UNCHANGED <<method, paced, outcome>>
  BY <1>2 DEF Call!vars
<1> QED BY <1>1, <1>2 DEF Answer

LEMMA NextRefines ==
  ASSUME IInv, [Next]_vars
  PROVE  [Call!Next]_(Call!vars)
<1> USE DEF client, server
<1>0. pc # "done" => outcome = "none"
  BY DEF IInv, CleanInv
<1>1. CASE LocalError
  BY <1>0, <1>1, ReturnRefines DEF LocalError, IInv, CleanInv
<1>2. CASE PaceFails
  BY <1>0, <1>2, ReturnRefines DEF PaceFails, IInv, CleanInv
<1>3. CASE Send \/ Wake \/ Cancel \/ UNCHANGED vars
  BY <1>3 DEF Send, Wake, Cancel, vars, Call!vars
<1>4. CASE SendCanceled
  BY <1>0, <1>4, AnswerRefines DEF SendCanceled
<1>5. CASE ConnectionLost
  BY <1>0, <1>5, AnswerRefines DEF ConnectionLost
<1>6. CASE Success
  BY <1>0, <1>6, ReturnRefines DEF Success
<1>7. CASE Rejected
  <2>1. method \in Mutating => effects = {}
    BY <1>7 DEF Rejected, IInv, CleanInv
  <2> QED BY <1>0, <1>7, <2>1, AnswerRefines DEF Rejected
<1>8. CASE ServerError
  BY <1>0, <1>8, AnswerRefines DEF ServerError
<1>9. CASE WakeCanceled
  BY <1>0, <1>9, ReturnRefines DEF WakeCanceled, IInv, CleanInv
<1>10. ASSUME NEW a \in Attempts, Serve(a) PROVE [Call!Next]_(Call!vars)
  <2>1. CASE effects' = effects
    BY <1>10, <2>1 DEF Serve, Call!vars
  <2>2. CASE effects' = effects \cup {a}
    <3>1. method \in Mutating => effects = {} /\ outcome \notin Call!Untouched
      BY <1>10 DEF Serve, IInv, CleanInv
    <3> QED BY <1>10, <2>2, <3>1 DEF Serve, Call!Next, Call!TakeEffect, Mutating, Call!Mutating
  <2> QED BY <1>10, <2>1, <2>2 DEF Serve
<1> QED BY <1>1, <1>2, <1>3, <1>4, <1>5, <1>6, <1>7, <1>8, <1>9, <1>10 DEF Next, ClientStep

\* However often the loop sends a request and whatever the server answers or leaves
\* unanswered, a POST or PATCH takes effect at most once, and not at all once the
\* call reports it refused, canceled or never sent (IdempotentMethod, Retryable).
THEOREM AtMostOnce == Spec => KeepsPromise
<1>1. Init => Call!Init
  BY DEF Init, Call!Init, Idempotent, Mutating, Call!Idempotent, Call!Mutating
<1>2. IInv /\ [Next]_vars => [Call!Next]_(Call!vars)
  BY NextRefines
<1> QED BY <1>1, <1>2, InvariantHolds, PTL DEF Spec, KeepsPromise, Call!Spec
=============================================================================
