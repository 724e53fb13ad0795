----------------------------- MODULE HealthCheck -----------------------------
(***************************************************************************)
(* pkg/healthcheck: one request to the handler.  Every check runs in a     *)
(* goroutine of its own and reports through a buffered channel; the        *)
(* request goroutine collects until all have reported or the context is    *)
(* done, and answers with what it has.  Requests share nothing.            *)
(***************************************************************************)
EXTENDS Naturals, FiniteSets, FiniteSetsExt

CONSTANTS
  N,          \* the number of checks registered, in this order
  ID,         \* ID[i]: the ID check i is registered under; IDs may repeat
  NoChecker   \* the checks whose Checker is nil

Checks == 1..N

ChecksAssumption == N \in Nat /\ DOMAIN ID = Checks /\ NoChecker \subseteq Checks

VARIABLES
  pc,         \* the request goroutine: "collect", "drain", "write" or "written"
  remaining,  \* results still to come
  results,    \* results[i].err, where "timeout" is the seeded ErrCheckTimeout
  resCh,      \* the results in the channel
  timed,      \* h.timeout > 0
  done,       \* the context is done
  check,      \* each check's goroutine: "running", "sending" or "exited"
  outcome,    \* what each check's goroutine reports: "ok", "error", "panic" or "nil"
  status,     \* the status written: 0, 200 or 503
  data,       \* the map written: the entry of each ID
  inTime      \* history: the checks that reported before the context was done

request == <<pc, remaining, results, status, data, timed>>
checkers == <<check, outcome, inTime>>
vars == <<request, resCh, done, checkers>>

IDs == {ID[i] : i \in Checks}

Outcomes == {"ok", "error", "panic"}

-----------------------------------------------------------------------------
(* The goroutine of a check *)

\* The checker returns or panics; a nil checker is not called.
runCheck(i, o) ==
  /\ check[i] = "running"
  /\ outcome' = [outcome EXCEPT ![i] = IF i \in NoChecker THEN "nil" ELSE o]
  /\ check' = [check EXCEPT ![i] = "sending"]
  /\ UNCHANGED <<request, resCh, done, inTime>>

\* Mutant: the channel is made with room for one result.
capacity_One == 1

\* make(chan indexedResult, n)
capacity == N

send(i) ==
  /\ check[i] = "sending"
  /\ Cardinality(resCh) < capacity
  /\ resCh' = resCh \union {[index |-> i, err |-> outcome[i]]}
  /\ check' = [check EXCEPT ![i] = "exited"]
  /\ inTime' = IF done THEN inTime ELSE inTime \union {i}
  /\ UNCHANGED <<request, done, outcome>>

\* The deadline passes, or the client goes away.
contextEnds ==
  /\ ~done
  /\ done' = TRUE
  /\ UNCHANGED <<request, resCh, checkers>>

-----------------------------------------------------------------------------
(* The request goroutine *)

record(r) ==
  /\ resCh' = resCh \ {r}
  /\ results' = [results EXCEPT ![r.index] = r.err]

\* The loop ends with this result.
collected == remaining = 1

collect(r) ==
  /\ pc = "collect"
  /\ record(r)
  /\ remaining' = remaining - 1
  /\ pc' = IF collected THEN "write" ELSE "collect"
  /\ UNCHANGED <<status, data, timed, done, checkers>>

\* Mutant: what has arrived is not looked at.
onDone_NoDrain == "write"

\* Where the request goroutine goes when the context is done.
onDone == "drain"

stopCollecting ==
  /\ pc = "collect"
  /\ done
  /\ pc' = onDone
  /\ UNCHANGED <<remaining, results, status, data, timed, resCh, done, checkers>>

drainResults(r) ==
  /\ pc = "drain"
  /\ record(r)
  /\ UNCHANGED <<pc, remaining, status, data, timed, done, checkers>>

drained ==
  /\ pc = "drain"
  /\ resCh = {}
  /\ pc' = "write"
  /\ UNCHANGED <<remaining, results, status, data, timed, resCh, done, checkers>>

\* The checks registered under the ID whose result is a failure.
failing(id) == {i \in Checks : ID[i] = id /\ results[i] # "ok"}

\* A later failure overwrites an earlier one; "OK" overwrites nothing.
entry(id) == IF failing(id) = {} THEN "ok" ELSE results[Max(failing(id))]

ServeHTTP ==
  /\ pc = "write"
  /\ status' = IF \E i \in Checks : results[i] # "ok" THEN 503 ELSE 200
  /\ data' = [id \in IDs |-> entry(id)]
  /\ pc' = "written"
  /\ UNCHANGED <<remaining, results, timed, resCh, done, checkers>>

-----------------------------------------------------------------------------

\* What a result is until the check reports: ErrCheckTimeout.
seeded == "timeout"

\* The request after runChecks has launched the goroutines.
Init ==
  /\ pc = IF N = 0 THEN "write" ELSE "collect"
  /\ remaining = N
  /\ results = [i \in Checks |-> seeded]
  /\ resCh = {}
  /\ timed \in BOOLEAN
  /\ done \in BOOLEAN
  /\ check = [i \in Checks |-> "running"]
  /\ outcome = [i \in Checks |-> "none"]
  /\ status = 0
  /\ data = [id \in IDs |-> "none"]
  /\ inTime = {}

Collecting == \/ \E r \in resCh : collect(r) \/ drainResults(r)
              \/ stopCollecting \/ drained \/ ServeHTTP

Next ==
  \/ Collecting
  \/ \E i \in Checks : send(i) \/ \E o \in Outcomes : runCheck(i, o)
  \/ contextEnds

\* The checker of a handler without a timeout returns; with one, a check may hang for ever.
untimedCheck(i) == ~timed /\ \E o \in Outcomes : runCheck(i, o)

\* A handler's own deadline passes; a client need not go away.
deadline == timed /\ contextEnds

\* Besides, the request goroutine and the senders run.
Spec ==
  /\ Init /\ [][Next]_vars
  /\ WF_vars(Collecting) /\ WF_vars(deadline)
  /\ \A i \in Checks : WF_vars(send(i)) /\ WF_vars(untimedCheck(i))

-----------------------------------------------------------------------------
(* Properties *)

\* The state is well formed, and the results still to come are those not collected.
TypeOK ==
  /\ pc \in {"collect", "drain", "write", "written"}
  /\ remaining \in 0..N
  /\ pc = "collect" => remaining > 0
  /\ results \in [Checks -> {"timeout", "ok", "error", "panic", "nil"}]
  /\ resCh \subseteq [index : Checks, err : Outcomes \union {"nil"}]
  /\ Cardinality(resCh) <= N
  /\ {timed, done} \subseteq BOOLEAN
  /\ check \in [Checks -> {"running", "sending", "exited"}]
  /\ outcome \in [Checks -> Outcomes \union {"none", "nil"}]
  /\ status \in {0, 200, 503}
  /\ data \in [IDs -> {"none", "timeout", "ok", "error", "panic", "nil"}]
  /\ inTime \subseteq Checks

\* A check that reported before the context was done is answered with what it reported
\* ("checks that completed in time are not misreported as timed out"), any other may be
\* answered for as timed out, and then the context is done.  The answer is 200 only if
\* every check really passed, and the map agrees with it on whether there is a failure
\* and under which ID, though two checks share one.
AnswerIsTrue ==
  pc = "written" =>
    /\ \A i \in inTime : results[i] = outcome[i]
    /\ \A i \in Checks : results[i] = outcome[i] \/ (results[i] = "timeout" /\ done)
    /\ (status = 200) = (\A i \in Checks : results[i] = "ok")
    /\ (status = 200) = (\A id \in IDs : data[id] = "ok")
    /\ \A i \in Checks : results[i] # "ok" => data[ID[i]] # "ok"

=============================================================================
