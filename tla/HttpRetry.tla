------------------------------- MODULE HttpRetry -------------------------------
(***************************************************************************)
(* One API call: the retry loop both transports share (do in soar          *)
(* transport.go, doRequest in chronicle client.go) with the policy of      *)
(* internal/httpretry, against a server that may answer late, lose answers *)
(* and go on working on a request the client has given up.                 *)
(* Durations are numbers; a jitter is any number in its range.             *)
(***************************************************************************)
EXTENDS Naturals

CONSTANTS
  MaxAttempts,  \* Policy.MaxAttempts
  Base,         \* Policy.Base
  Longest,      \* Policy.Max
  Budget,       \* Policy.Budget, 0 for none
  Hints         \* waits a server suggests, 0 for none

ASSUME PolicyAssumption ==
  /\ MaxAttempts \in Nat \ {0}
  /\ {Base, Longest, Budget} \subseteq Nat
  /\ Hints \subseteq Nat

Idempotent == {"GET", "PUT", "DELETE"}
Mutating   == {"POST", "PATCH"}
Attempts == 0 .. MaxAttempts - 1

VARIABLES
  method,
  paced,     \* whether the client has a limiter
  pc,        \* "try", "sent", "wait" or "done"
  attempt,   \* the attempt under way, from 0
  wait,      \* the wait before it
  spent,     \* waits so far
  canceled,  \* the context is done
  outcome,   \* what the call returned
  open,      \* attempts the server has not finished with
  effects,   \* attempts that took effect
  (* History, read by properties only. *)
  hinted     \* the wait suggested by the answer before this attempt, 0 for none

client == <<method, paced, pc, attempt, wait, spent, outcome, hinted>>
server == <<open, effects>>
vars == <<client, canceled, server>>

Lesser(a, b) == IF a < b THEN a ELSE b

-----------------------------------------------------------------------------
(* The policy *)

\* Mutant: PATCH counts as idempotent.
RetryableToo(verb, answer) ==
  answer = "quota" \/ (answer \in {"flaky", "transport"} /\ verb \in Idempotent \cup {"PATCH"})

\* A 429 is retried for any method, a 500, 502, 503 or 504 and a transport error
\* for idempotent ones.
Retryable(verb, answer) ==
  answer = "quota" \/ (answer \in {"flaky", "transport"} /\ verb \in Idempotent)

\* Base doubled for each retry, cut at Longest.
Exponential(n) == Lesser(Base * 2^(n - 1), Longest)

\* The jittered waits between half of the exponential wait and the whole.
Jittered(n) ==
  LET half == Exponential(n) \div 2
  IN  {w \in 0..Longest : half <= w /\ (w < 2 * half \/ w = half)}

\* The waits before retry n: a suggested one, some jitter added, cut at the budget,
\* or else an exponential one.
Backoffs(n, hint) ==
  LET limit == IF Budget = 0 THEN Longest ELSE Budget
  IN  IF hint > 0 THEN {Lesser(hint + jitter, limit) : jitter \in {0} \cup 0..(Base - 1)}
      ELSE IF Base = 0 THEN {0} ELSE Jittered(n)

\* Another attempt is left after attempt n.
Left(n) == n < MaxAttempts - 1

\* Mutant: each wait is held against the budget alone.
FitsAlone(w) == Budget = 0 \/ w <= Budget

\* A wait that stays within the total budget.
Fits(w) == Budget = 0 \/ spent + w <= Budget

\* Mutant: retries are not counted.
Uncounted(n) == n

Following(n) == n + 1

-----------------------------------------------------------------------------

Init ==
  /\ method \in Idempotent \cup Mutating
  /\ paced \in BOOLEAN
  /\ pc = "try"
  /\ attempt = 0
  /\ wait = 0 /\ spent = 0
  /\ canceled = FALSE
  /\ outcome = "none"
  /\ open = {} /\ effects = {}
  /\ hinted = 0

Return(result) ==
  /\ pc' = "done"
  /\ outcome' = result
  /\ UNCHANGED <<method, paced, attempt, wait, spent, hinted>>

\* The body cannot be encoded or the request cannot be built.
LocalError ==
  /\ pc = "try" /\ attempt = 0
  /\ Return("local")
  /\ UNCHANGED <<canceled, server>>

\* limiter.Wait fails: the context is done, or its deadline is too near.
PaceFails ==
  /\ paced
  /\ pc = "try"
  /\ Return(IF canceled THEN "canceled" ELSE "local")
  /\ UNCHANGED <<canceled, server>>

Send ==
  /\ pc = "try"
  /\ ~canceled
  /\ pc' = "sent"
  /\ open' = open \cup {attempt}
  /\ UNCHANGED <<method, paced, attempt, wait, spent, outcome, hinted, canceled, effects>>

\* What the loop does with an answer that is not a 2xx: wait and try again, or
\* return because the answer, the attempts or the budget do not allow it.
Answer(answer, hint, result) ==
  \/ /\ Retryable(method, answer)
     /\ Left(attempt)
     /\ \E w \in Backoffs(attempt + 1, hint) :
          /\ Fits(w)
          /\ wait' = w
          /\ spent' = spent + w
     /\ pc' = "wait"
     /\ attempt' = Following(attempt)
     /\ hinted' = hint
     /\ UNCHANGED <<method, paced, outcome>>
  \/ /\ \/ ~Retryable(method, answer)
        \/ ~Left(attempt)
        \/ \E w \in Backoffs(attempt + 1, hint) : ~Fits(w)
     /\ Return(result)

\* The client does not send under a context that is done: a transport error.
SendCanceled ==
  /\ pc = "try"
  /\ canceled /\ ~paced
  /\ Answer("transport", 0, "lost")
  /\ UNCHANGED <<canceled, server>>

\* A timeout, a broken connection: the server may not have seen the request, may
\* be done with it or be at it still.
ConnectionLost ==
  /\ pc = "sent"
  /\ Answer("transport", 0, "lost")
  /\ UNCHANGED <<canceled, server>>

\* A 2xx; its body may not be readable or not be what was expected.
Success ==
  /\ pc = "sent"
  /\ attempt \in effects
  /\ \E result \in {"ok", "unread"} : Return(result)
  /\ UNCHANGED <<canceled, server>>

\* A 429, or another 4xx: rejected before any effect.
Rejected ==
  /\ pc = "sent"
  /\ attempt \in open
  /\ open' = open \ {attempt}
  /\ \/ \E hint \in Hints : Answer("quota", hint, "refused")
     \/ Answer("bad", 0, "refused")
  /\ UNCHANGED <<canceled, effects>>

\* A 5xx, from the server or a gateway before it, that is worth a retry or is not.
ServerError ==
  /\ pc = "sent"
  /\ \E answer \in {"flaky", "fault"} : Answer(answer, 0, "failed")
  /\ UNCHANGED <<canceled, server>>

\* The timer of the wait fires.
Wake ==
  /\ pc = "wait"
  /\ pc' = "try"
  /\ UNCHANGED <<method, paced, attempt, wait, spent, outcome, hinted, canceled, server>>

\* The context ends before the timer.
WakeCanceled ==
  /\ pc = "wait"
  /\ canceled
  /\ Return("canceled")
  /\ UNCHANGED <<canceled, server>>

(* The caller and the server *)

Cancel ==
  /\ ~canceled
  /\ canceled' = TRUE
  /\ UNCHANGED <<client, server>>

\* The server works on a request, whether or not someone still waits for it.
Serve(a) ==
  /\ a \in open
  /\ open' = open \ {a}
  /\ effects' \in {effects, effects \cup {a}}
  /\ UNCHANGED <<client, canceled>>

-----------------------------------------------------------------------------

ClientStep == \/ LocalError \/ PaceFails \/ Send \/ SendCanceled
              \/ ConnectionLost \/ Success \/ Rejected \/ ServerError
              \/ Wake \/ WakeCanceled

Next == ClientStep \/ Cancel \/ \E a \in Attempts : Serve(a)

Spec == Init /\ [][Next]_vars

\* http.Client.Timeout ends every request, so the loop never stands still.
FairSpec == Spec /\ WF_vars(ClientStep)

-----------------------------------------------------------------------------
(* Properties *)

\* Every variable has its type; attempts stay below the maximum.
TypeOK ==
  /\ method \in Idempotent \cup Mutating
  /\ paced \in BOOLEAN
  /\ pc \in {"try", "sent", "wait", "done"}
  /\ attempt \in Attempts
  /\ wait \in Nat /\ spent \in Nat
  /\ canceled \in BOOLEAN
  /\ outcome \in {"none", "ok", "unread", "refused", "canceled", "local", "failed", "lost"}
  /\ open \subseteq Attempts /\ effects \subseteq Attempts
  /\ hinted \in Nat

Call == INSTANCE ServiceCall

\* "A 5xx on a mutation may have already applied server-side, so retrying it
\* duplicates the side effect" (IdempotentMethod); "429: rejected before
\* processing" (retryStatuses5xx): the call keeps the promise of ServiceCall,
\* with requests that take effect late and answers that are lost.
KeepsPromise == Call!Spec

\* "An honored 429 hint can't hang a command for minutes" (nextWait): all waits of a
\* call together stay within the budget, however many hints it gets.
BudgetKept == Budget > 0 => spent <= Budget

\* A suggested wait is honored up to the budget, and without one no single wait
\* is longer than Longest (Backoff).
WaitsFit ==
  pc = "wait" => IF hinted > 0 THEN Budget > 0 => wait >= Lesser(hinted, Budget)
                 ELSE wait <= Longest

\* Every call returns.
CallReturns == <>(pc = "done")

-----------------------------------------------------------------------------
(* The inductive invariant of the proofs (HttpRetryProofs). *)

\* A mutation's earlier attempts are over without effect, and so is one that was
\* refused, given up between attempts or never sent.
CleanInv ==
  /\ open \cap effects = {}
  /\ \A a \in open \cup effects : a < attempt \/ (a = attempt /\ pc \notin {"try", "wait"})
  /\ pc = "done" <=> outcome # "none"
  /\ outcome \in Call!Answered => effects # {}
  /\ method \in Mutating =>
       /\ \A a \in open \cup effects : a = attempt
       /\ pc \in {"try", "wait"} \/ outcome \in Call!Untouched => open \cup effects = {}
=============================================================================
