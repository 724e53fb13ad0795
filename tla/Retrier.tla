------------------------------- MODULE Retrier -------------------------------
(***************************************************************************)
(* pkg/retrier: Run executes a task until it succeeds, must not be         *)
(* retried, has used its attempts, or the context ends.  Delays are those  *)
(* of module Backoff; here a timer is armed, or it is not.                 *)
(***************************************************************************)
EXTENDS Integers

CONSTANTS
  Attempts,  \* r.attempts
  OnRetry    \* whether an onRetry callback is set

AttemptsAssumption == Attempts \in Nat \ {0} /\ OnRetry \in BOOLEAN

VARIABLES
  pc,         \* "before", "select", "task" or "returned"
  armed,      \* the timer is running or has fired
  remaining,  \* st.remainingAttempts
  ended,      \* the caller's context ended
  result,     \* what Run returned: "ctx", or the task's outcome
  done,       \* history: attempts completed
  last,       \* history: the outcome of the last attempt
  announced   \* history: the attempts onRetry was told had failed

vars == <<pc, armed, remaining, ended, result, done, last, announced>>

\* What a task may return, as retryIfFn sees it: success, an error to retry, an error
\* (or a success, under a custom predicate) not to retry.
Outcomes == {"ok", "retry", "fatal"}

Run ==
  /\ pc = "before"
  /\ IF ended
     THEN /\ pc' = "returned"
          /\ result' = "ctx"
          /\ UNCHANGED armed
     ELSE /\ pc' = "select"
          /\ armed' = TRUE
          /\ UNCHANGED result
  /\ UNCHANGED <<remaining, ended, done, last, announced>>

\* Both cases of the select may be ready, and either is taken.
contextEnds ==
  /\ pc = "select"
  /\ ended
  /\ pc' = "returned"
  /\ result' = "ctx"
  /\ UNCHANGED <<armed, remaining, ended, done, last, announced>>

timerFires ==
  /\ pc = "select"
  /\ armed
  /\ pc' = "task"
  /\ armed' = FALSE
  /\ UNCHANGED <<remaining, ended, result, done, last, announced>>

\* s.remainingAttempts is zero after the decrement.
exhausted == remaining = 1

retryIfFn(outcome) == outcome = "retry"

\* Mutant: the timer is not armed again.
schedule_NoReset ==
  /\ announced' = IF OnRetry THEN announced \union {Attempts - (remaining - 1)} ELSE announced
  /\ UNCHANGED armed

\* onRetry hears of the failed attempt and the timer is armed.
schedule ==
  /\ armed' = TRUE
  /\ announced' = IF OnRetry THEN announced \union {Attempts - (remaining - 1)} ELSE announced

\* Mutant: whether the context ended while the task ran is not asked.
exec_Late(outcome) ==
  /\ pc = "task"
  /\ done' = done + 1
  /\ last' = outcome
  /\ remaining' = remaining - 1
  /\ IF exhausted \/ ~retryIfFn(outcome)
     THEN pc' = "returned" /\ result' = outcome /\ UNCHANGED <<armed, announced>>
     ELSE pc' = "select" /\ schedule /\ UNCHANGED result
  /\ UNCHANGED ended

\* exec, once the task returned.
exec(outcome) ==
  /\ pc = "task"
  /\ done' = done + 1
  /\ last' = outcome
  /\ remaining' = remaining - 1
  /\ IF exhausted \/ ~retryIfFn(outcome)
     THEN /\ pc' = "returned"
          /\ result' = outcome
          /\ UNCHANGED <<armed, announced>>
     ELSE /\ pc' = "select"
          /\ IF ended THEN UNCHANGED <<armed, announced>> ELSE schedule
          /\ UNCHANGED result
  /\ UNCHANGED ended

cancel ==
  /\ ~ended
  /\ ended' = TRUE
  /\ UNCHANGED <<pc, armed, remaining, result, done, last, announced>>

Returned == pc = "returned" /\ UNCHANGED vars

Init ==
  /\ pc = "before"
  /\ armed = FALSE
  /\ remaining = Attempts
  /\ ended \in BOOLEAN
  /\ result = "none"
  /\ done = 0
  /\ last = "none"
  /\ announced = {}

Step == Run \/ contextEnds \/ timerFires \/ \E o \in Outcomes : exec(o)

Next == Step \/ cancel \/ Returned

\* The timer fires, a ready case of the select is taken, and the task returns: its
\* context carries a timeout that it is expected to respect.
Spec == Init /\ [][Next]_vars /\ WF_vars(Step)

-----------------------------------------------------------------------------
(* Properties *)

\* The call's state is well formed, and the attempts left are those not made.
TypeOK ==
  /\ pc \in {"before", "select", "task", "returned"}
  /\ armed \in BOOLEAN
  /\ remaining \in 0..Attempts
  /\ remaining + done = Attempts
  /\ ended \in BOOLEAN
  /\ result \in Outcomes \union {"none", "ctx"}
  /\ last \in Outcomes \union {"none"}
  /\ announced \subseteq 1..Attempts

\* onRetry hears of each failed attempt that another follows, and of no other except the one
\* whose retry is still pending or was cut short.
EachRetryIsAnnounced ==
  OnRetry => /\ pc = "task" => announced = 1..done
             /\ announced \subseteq 1..(Attempts - 1)
             /\ ~armed => announced \in {1..done, 1..(done - 1)}

\* A call of onRetry names the attempt that just failed, one that may be retried and is not the
\* last; the retry it reports is armed; and the context had not ended when that attempt returned:
\* otherwise it "would report (via onRetry) and arm a retry that never executes".
AnnouncementStep ==
  announced' # announced =>
    /\ pc = "task" /\ last' = "retry" /\ done' < Attempts
    /\ announced' = announced \union {done'}
    /\ armed'
    /\ ~ended

\* Where the call is in terms of RetrySpec, which it implements (module Outbound).
Phase == IF pc = "select" THEN "between" ELSE IF pc = "task" THEN "attempt" ELSE pc

=============================================================================
