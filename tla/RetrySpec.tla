------------------------------ MODULE RetrySpec ------------------------------
(***************************************************************************)
(* What retrier.Run and httpretrier.Do promise, without timers, schedules  *)
(* or bodies: at most Attempts attempts, one at a time; another one only   *)
(* after an attempt that may be retried; and a result that is the last     *)
(* attempt's, or, once the context ended, the context's error.             *)
(***************************************************************************)
EXTENDS Integers

CONSTANT Attempts

VARIABLES
  phase,   \* "before", "between", "attempt" or "returned"
  done,    \* attempts completed
  last,    \* how the last attempt ended: "none", "ok", "retry" or "fatal"
  ended,   \* the context ended
  result   \* "none", "ctx", "aborted", or the outcome of the last attempt

specVars == <<phase, done, last, ended, result>>

SpecInit ==
  /\ phase = "before"
  /\ done = 0
  /\ last = "none"
  /\ ended \in BOOLEAN
  /\ result = "none"

\* A context that has already ended starts nothing.
Refuse ==
  /\ phase = "before"
  /\ ended
  /\ phase' = "returned"
  /\ result' = "ctx"
  /\ UNCHANGED <<done, last, ended>>

Begin ==
  /\ phase = "before"
  /\ ~ended
  /\ phase' = "between"
  /\ UNCHANGED <<done, last, ended, result>>

Attempt ==
  /\ phase = "between"
  /\ done < Attempts
  /\ last \in {"none", "retry"}
  /\ phase' = "attempt"
  /\ UNCHANGED <<done, last, ended, result>>

\* The attempt ends with an outcome that may be retried, and attempts are left.
Fail ==
  /\ phase = "attempt"
  /\ done' = done + 1
  /\ done' < Attempts
  /\ last' = "retry"
  /\ phase' = "between"
  /\ UNCHANGED <<ended, result>>

\* The attempt decides the call.
Decide ==
  /\ phase = "attempt"
  /\ done' = done + 1
  /\ last' \in IF done' = Attempts THEN {"ok", "retry", "fatal"} ELSE {"ok", "fatal"}
  /\ result' = last'
  /\ phase' = "returned"
  /\ UNCHANGED ended

GiveUp ==
  /\ phase = "between"
  /\ ended
  /\ result' = "ctx"
  /\ phase' = "returned"
  /\ UNCHANGED <<done, last, ended>>

\* A retry that cannot be made (a request body that cannot be replayed).
Abort ==
  /\ phase \in {"between", "attempt"}
  /\ result' = "aborted"
  /\ phase' = "returned"
  /\ last' = "retry"
  /\ done' \in {done, done + 1} \intersect 1..Attempts
  /\ UNCHANGED ended

End == ~ended /\ ended' = TRUE /\ UNCHANGED <<phase, done, last, result>>

SpecNext == Refuse \/ Begin \/ Attempt \/ Fail \/ Decide \/ GiveUp \/ Abort \/ End

RetryLoop == SpecInit /\ [][SpecNext]_specVars

=============================================================================
