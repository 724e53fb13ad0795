----------------------------- MODULE HTTPRetrier -----------------------------
(***************************************************************************)
(* pkg/httpretrier: Do sends a request until a response is acceptable, the *)
(* attempts are used up, the request cannot be sent again, or its context  *)
(* ends.  What differs from module Retrier is what an attempt leaves       *)
(* behind: a request body that was consumed and a response body to close.  *)
(* The server may also ask for a longer wait with Retry-After.             *)
(***************************************************************************)
EXTENDS Integers

CONSTANTS
  Attempts,           \* c.attempts
  MaxInt,             \* math.MaxInt64
  Second,             \* time.Second
  MaxRetryAfter,      \* c.maxRetryAfter
  RespectRetryAfter,  \* c.respectRetryAfter
  Jitter,             \* c.jitter
  Delays,             \* what the backoff schedule may return
  Headers             \* the Retry-After headers a server may send

AttemptsAssumption == Attempts \in Nat \ {0}

DurationsAssumption ==
  /\ MaxInt \in Nat /\ Second \in 1..MaxInt /\ MaxRetryAfter \in 1..MaxInt
  /\ Jitter \in 0..MaxInt /\ Delays \subseteq 0..MaxInt

HeadersAssumption ==
  RespectRetryAfter \in BOOLEAN /\ Headers \subseteq [kind : {"secs", "date", "none"}, n : Int]

VARIABLES
  pc,         \* "before", "select", "client" or "returned"
  armed,      \* the timer is running or has fired
  remaining,  \* s.remainingAttempts
  ended,      \* the request's context ended
  getBody,    \* r.GetBody is set
  body,       \* r.Body: "none", "fresh" or "used"
  resp,       \* s.doResponse: "none", "open" or "closed"
  err,        \* s.doError is set
  open,       \* response bodies nobody closed
  delay,      \* what the timer was armed with, 0 once it fired
  asked,      \* history: the wait the response asked for, 0 once the timer fired
  result,     \* what Do returned: "ctx", "aborted", or the outcome of the last attempt
  done,       \* history: attempts completed
  last        \* history: the outcome of the last attempt

timing == <<armed, delay, asked>>
vars == <<pc, remaining, ended, getBody, body, resp, err, open, timing, result, done, last>>

\* What the client may return: a response, an error, or, against its contract, both.
Replies == [resp : BOOLEAN, err : BOOLEAN] \ {[resp |-> FALSE, err |-> FALSE]}

Do ==
  /\ pc = "before"
  /\ IF ended
     THEN /\ pc' = "returned"
          /\ result' = "ctx"
          /\ err' = TRUE
          /\ UNCHANGED armed
     ELSE /\ pc' = "select"
          /\ armed' = TRUE
          /\ UNCHANGED <<result, err>>
  /\ UNCHANGED <<remaining, ended, getBody, body, resp, open, delay, asked, done, last>>

\* Do returns nil and the context's error.
contextEnds ==
  /\ pc = "select"
  /\ ended
  /\ pc' = "returned"
  /\ result' = "ctx"
  /\ resp' = "none"
  /\ err' = TRUE
  /\ UNCHANGED <<remaining, ended, getBody, body, open, timing, done, last>>

\* Mutant: the body is only recreated for the second attempt.
needsBody_Once == getBody /\ remaining = Attempts - 1

\* reopenBodyForRetry has to recreate the body.
needsBody == getBody /\ remaining # Attempts

\* The timer fires: the body is recreated if need be, and the request is sent ...
timerFires ==
  /\ pc = "select"
  /\ armed
  /\ pc' = "client"
  /\ armed' = FALSE
  /\ delay' = 0
  /\ asked' = 0
  /\ body' = IF needsBody THEN "fresh" ELSE body
  /\ UNCHANGED <<remaining, ended, getBody, resp, err, open, result, done, last>>

\* ... or GetBody fails.
reopenFails ==
  /\ pc = "select"
  /\ armed
  /\ needsBody
  /\ armed' = FALSE
  /\ resp' = "none"
  /\ err' = TRUE
  /\ result' = "aborted"
  /\ pc' = "returned"
  /\ UNCHANGED <<remaining, ended, getBody, body, open, delay, asked, done, last>>

-----------------------------------------------------------------------------
(* Retry-After *)

Wrap(x) == ((x + MaxInt + 1) % (2 * (MaxInt + 1))) - (MaxInt + 1)

Saturated(base, j) == LET sum == Wrap(base + j) IN IF sum < base THEN MaxInt ELSE sum

AddJitter(base) == IF Jitter = 0 THEN {base} ELSE {Saturated(base, j) : j \in 0..(Jitter - 1)}

\* Mutant: the seconds are multiplied before they are capped.
retryAfterDelay_Overflows(h) ==
  LET d == IF h.kind = "secs" THEN Wrap(h.n * Second) ELSE h.n
  IN IF h.kind = "none" \/ h.n <= 0 THEN 0
     ELSE IF d > MaxRetryAfter THEN MaxRetryAfter ELSE d

\* A response may carry any of the headers; without a response there is none.
headersOf(reply) == IF reply.resp THEN Headers ELSE {[kind |-> "none", n |-> 0]}

\* The wait the header asks for, or 0 when there is none to honour.  A date is n from now.
retryAfterDelay(h) ==
  IF h.kind = "none" \/ h.n <= 0 THEN 0
  ELSE IF h.kind = "secs"
       THEN IF h.n > MaxRetryAfter \div Second THEN MaxRetryAfter ELSE h.n * Second
       ELSE IF h.n > MaxRetryAfter THEN MaxRetryAfter ELSE h.n

\* The delays scheduleRetry may arm the timer with.
waits(h) ==
  UNION {IF RespectRetryAfter /\ retryAfterDelay(h) > d
         THEN AddJitter(retryAfterDelay(h)) ELSE {d} : d \in Delays}

\* What the header says, in full.
Requested(h) ==
  IF h.kind = "none" \/ h.n <= 0 THEN 0 ELSE IF h.kind = "secs" THEN h.n * Second ELSE h.n

scheduleRetry(h) ==
  IF ended
  THEN UNCHANGED timing
  ELSE /\ armed' = TRUE
       /\ delay' \in waits(h)
       /\ asked' = Requested(h)

-----------------------------------------------------------------------------
(* The end of an attempt *)

\* Mutant: a response that came with an error is returned with it.
dropResponse_Kept(reply) ==
  /\ resp' = IF reply.resp THEN "open" ELSE "none"
  /\ open' = IF reply.resp THEN open + 1 ELSE open

\* On the final attempt a response is handed over, or closed and cleared if it came with
\* an error.
dropResponse(reply) ==
  /\ resp' = IF reply.resp /\ ~reply.err THEN "open" ELSE "none"
  /\ open' = IF reply.resp /\ ~reply.err THEN open + 1 ELSE open

\* closeAndCheckReplay closes what the client opened.
closeResponse(reply) == open' = open

replayable == getBody \/ body = "none"

\* The client's reply decides the call.
accept(reply, outcome) ==
  /\ dropResponse(reply)
  /\ err' = reply.err
  /\ result' = outcome
  /\ pc' = "returned"
  /\ UNCHANGED timing

\* Closing the response fails, or the request cannot be sent again.
abort(reply) ==
  /\ closeResponse(reply)
  /\ resp' = "none"
  /\ err' = TRUE
  /\ result' = "aborted"
  /\ pc' = "returned"
  /\ UNCHANGED timing

retry(reply, h) ==
  /\ closeResponse(reply)
  /\ resp' = IF reply.resp THEN "closed" ELSE "none"
  /\ err' = reply.err
  /\ scheduleRetry(h)
  /\ pc' = "select"
  /\ UNCHANGED result

\* Mutant: the policy is not asked while attempts are left.
final_LastOnly(again) == remaining = 1

final(again) == remaining = 1 \/ ~again

\* run, once the client returned: retryIfFn may say either of any reply.
run(reply, again) ==
  LET outcome == IF again THEN "retry" ELSE IF reply.err THEN "fatal" ELSE "ok"
  IN /\ pc = "client"
     /\ done' = done + 1
     /\ last' = outcome
     /\ remaining' = remaining - 1
     /\ body' = IF body = "none" THEN "none" ELSE "used"
     /\ \/ final(again) /\ accept(reply, outcome)
        \/ ~final(again) /\ (reply.resp \/ ~replayable) /\ abort(reply)
        \/ ~final(again) /\ replayable /\ \E h \in headersOf(reply) : retry(reply, h)
     /\ UNCHANGED <<ended, getBody>>

cancel ==
  /\ ~ended
  /\ ended' = TRUE
  /\ UNCHANGED <<pc, remaining, getBody, body, resp, err, open, timing, result, done, last>>

Returned == pc = "returned" /\ UNCHANGED vars

Init ==
  /\ pc = "before"
  /\ armed = FALSE
  /\ remaining = Attempts
  /\ ended \in BOOLEAN
  /\ getBody \in BOOLEAN
  /\ body \in {"none", "fresh"}
  /\ getBody => body = "fresh"
  /\ resp = "none"
  /\ err = FALSE
  /\ open = 0
  /\ delay = 0
  /\ asked = 0
  /\ result = "none"
  /\ done = 0
  /\ last = "none"

Step ==
  \/ Do \/ contextEnds \/ timerFires \/ reopenFails
  \/ \E reply \in Replies, again \in BOOLEAN : run(reply, again)

Next == Step \/ cancel \/ Returned

\* The timer fires, a ready case of the select is taken, and the client returns.
Spec == Init /\ [][Next]_vars /\ WF_vars(Step)

-----------------------------------------------------------------------------
(* Properties *)

\* The call's state is well formed, and the timer is armed with a duration.
TypeOK ==
  /\ pc \in {"before", "select", "client", "returned"}
  /\ remaining \in 0..Attempts
  /\ remaining + done = Attempts
  /\ ended \in BOOLEAN /\ getBody \in BOOLEAN /\ armed \in BOOLEAN /\ err \in BOOLEAN
  /\ body \in {"none", "fresh", "used"}
  /\ resp \in {"none", "open", "closed"}
  /\ open \in Nat
  /\ delay \in 0..MaxInt
  /\ asked \in Nat
  /\ result \in {"none", "ctx", "aborted", "ok", "retry", "fatal"}
  /\ last \in {"none", "ok", "retry", "fatal"}

\* A request is never sent with a body that was already consumed.
BodyIsFresh == pc = "client" => body # "used"

\* Whatever path Do returns by, the caller gets a response or an error and never both; a
\* body is open only if it is the caller's to close, and none is between attempts.
ResponseXorError ==
  /\ pc = "returned" => /\ (resp = "none") = err
                        /\ resp # "closed"
                        /\ open = IF resp = "open" THEN 1 ELSE 0
  /\ pc = "select" => open = 0

\* "wait at least Retry-After", up to the configured cap.
HonoursRetryAfter ==
  (armed /\ RespectRetryAfter) => delay >= IF asked > MaxRetryAfter THEN MaxRetryAfter ELSE asked

\* Where the call is in terms of RetrySpec, which it implements (module Outbound).
Phase == IF pc = "select" THEN "between" ELSE IF pc = "client" THEN "attempt" ELSE pc

=============================================================================
