------------------------------ MODULE Background ------------------------------
(***************************************************************************)
(* The goroutines that the library itself launches on a caller's behalf:   *)
(* the schedule of pkg/periodic and the checks of pkg/healthcheck.  They   *)
(* share no state, so a behaviour is one of either, chosen at the start,   *)
(* and the other stays in its initial state.                               *)
(***************************************************************************)
EXTENDS Periodic

CONSTANTS N, ID, NoChecker  \* HealthCheck

VARIABLES
  subject,  \* the package whose behaviour this is
  handler,  \* pc of HealthCheck
  remaining, results, resCh, timed, done, check, outcome, status, data, inTime

Health == INSTANCE HealthCheck WITH pc <- handler

ASSUME HealthAssumption == Health!ChecksAssumption

health ==
  <<handler, remaining, results, resCh, timed, done, check, outcome, status, data, inTime>>
bgVars == <<subject, vars, health>>

BgInit == subject \in {"periodic", "healthcheck"} /\ Init /\ Health!Init

Scheduling(step) == subject = "periodic" /\ step /\ UNCHANGED <<subject, health>>

Checking(step) == subject = "healthcheck" /\ step /\ UNCHANGED <<subject, vars>>

BgNext == Scheduling(Next) \/ Checking(Health!Next)

\* The fairness of each package (see Spec of each module).
BgSpec ==
  /\ BgInit
  /\ [][BgNext]_bgVars
  /\ \A s \in Starters :
       WF_bgVars(Scheduling(looping(s))) /\ SF_bgVars(Scheduling(loopEnds(s)))
  /\ \A t \in Stoppers : WF_bgVars(Scheduling(stopping(t)))
  /\ WF_bgVars(Checking(Health!Collecting)) /\ WF_bgVars(Checking(Health!deadline))
  /\ \A i \in Health!Checks :
       WF_bgVars(Checking(Health!send(i))) /\ WF_bgVars(Checking(Health!untimedCheck(i)))

-----------------------------------------------------------------------------
(* Properties, besides StoppedForGood and RunsUntilDone of Periodic *)

\* What the health check handler answers is what the checks reported (HealthCheck).
AnswerIsTrue == Health!AnswerIsTrue

\* The request is answered: with a timeout whatever the checks do, without one because
\* the checks return.  "a check can always deliver its result without blocking, even
\* after collection has stopped": no goroutine whose check returned is leaked.
Answered ==
  /\ <>(subject = "healthcheck" => handler = "written")
  /\ \A i \in Health!Checks : check[i] = "sending" ~> check[i] = "exited"

\* Every goroutine the library launches comes to its end: the schedule's, once it is stopped
\* or its context ends (RunsUntilDone of Periodic), and those of the checks (Answered).
GoroutinesEnd == RunsUntilDone /\ Answered

=============================================================================
