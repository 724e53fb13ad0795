------------------------------- MODULE Outbound -------------------------------
(***************************************************************************)
(* What an outbound call goes through: the retry loops of pkg/retrier and  *)
(* pkg/httpretrier, the delays of pkg/backoff between their attempts, and  *)
(* the dials of pkg/dnscache beneath them.  They share no state, so a      *)
(* behaviour is one of either, chosen at the start; names they have in     *)
(* common (pc, ended, result...) stand for the chosen one's variable.      *)
(***************************************************************************)
EXTENDS Backoff

CONSTANTS
  Attempts, OnRetry,                                           \* Retrier
  Second, MaxRetryAfter, RespectRetryAfter, Jitter, Delays, Headers,  \* HTTPRetrier
  Dialers, Raws, Addr, Answers, Networks, Rotate, MaxDials     \* DNSDial

VARIABLES
  subject,  \* the package whose behaviour this is
  pc, ended, result, open,
  armed, remaining, done, last, announced,
  getBody, body, resp, err, asked,
  dialSeq, network, ips, cands, tried, previous

Retry == INSTANCE Retrier
HTTP == INSTANCE HTTPRetrier
Dial == INSTANCE DNSDial

ASSUME RetryAssumption == Retry!AttemptsAssumption

ASSUME HTTPAssumption == HTTP!AttemptsAssumption /\ HTTP!DurationsAssumption /\ HTTP!HeadersAssumption

ASSUME DialAssumption == Dial!AddrAssumption /\ Dial!SettingsAssumption

\* The variables by who uses them.
calls == <<pc, ended, result>>
loops == <<armed, remaining, done, last>>
replies == <<getBody, body, resp, err, asked>>
dials == <<dialSeq, network, ips, cands, tried, previous>>
schedule == <<cfg, next, pre>>
outVars == <<subject, calls, open, loops, announced, replies, dials, schedule, delay>>

NoCalls == pc = 0 /\ ended = 0 /\ result = 0
NoLoops == armed = 0 /\ remaining = 0 /\ done = 0 /\ last = 0
NoReplies == getBody = 0 /\ body = 0 /\ resp = 0 /\ err = 0 /\ asked = 0
NoDials == dialSeq = 0 /\ network = 0 /\ ips = 0 /\ cands = 0 /\ tried = 0 /\ previous = 0
NoSchedule == cfg = 0 /\ next = 0 /\ pre = 0

OutInit ==
  \/ /\ subject = "backoff" /\ Init
     /\ NoCalls /\ open = 0 /\ NoLoops /\ announced = 0 /\ NoReplies /\ NoDials
  \/ /\ subject = "retrier" /\ Retry!Init
     /\ open = 0 /\ NoReplies /\ NoDials /\ NoSchedule /\ delay = 0
  \/ /\ subject = "httpretrier" /\ HTTP!Init
     /\ announced = 0 /\ NoDials /\ NoSchedule
  \/ /\ subject = "dnscache" /\ Dial!Init
     /\ NoLoops /\ announced = 0 /\ NoReplies /\ NoSchedule /\ delay = 0

backoffStep ==
  /\ subject = "backoff"
  /\ Next
  /\ UNCHANGED <<subject, calls, open, loops, announced, replies, dials>>

Retrying(step) ==
  /\ subject = "retrier"
  /\ step
  /\ UNCHANGED <<subject, open, replies, dials, schedule, delay>>

Sending(step) ==
  /\ subject = "httpretrier"
  /\ step
  /\ UNCHANGED <<subject, announced, dials, schedule>>

Dialling(step) ==
  /\ subject = "dnscache"
  /\ step
  /\ UNCHANGED <<subject, loops, announced, replies, schedule, delay>>

OutNext ==
  \/ backoffStep
  \/ Retrying(Retry!Next)
  \/ Sending(HTTP!Next)
  \/ Dialling(Dial!Next)

\* The fairness of each package (see Spec of each module).
OutSpec ==
  /\ OutInit
  /\ [][OutNext]_outVars
  /\ WF_outVars(Retrying(Retry!Step))
  /\ WF_outVars(Sending(HTTP!Step))
  /\ \A d \in Dialers : WF_outVars(Dialling(Dial!Step(d)))

-----------------------------------------------------------------------------
(* Properties *)

\* The state of each package is well formed.  In particular no delay overflows into a
\* negative duration (backoff), and the attempts left are those not made (retrier,
\* httpretrier).
WellFormed ==
  /\ subject = "backoff" => TypeOK
  /\ subject = "retrier" => Retry!TypeOK
  /\ subject = "httpretrier" => HTTP!TypeOK

InLoop == subject \in {"retrier", "httpretrier"}

Promise == INSTANCE RetrySpec WITH
  phase  <- IF subject = "retrier" THEN Retry!Phase
            ELSE IF subject = "httpretrier" THEN HTTP!Phase ELSE "before",
  done   <- IF InLoop THEN done ELSE 0,
  last   <- IF InLoop THEN last ELSE "none",
  ended  <- IF InLoop THEN ended ELSE FALSE,
  result <- IF InLoop THEN result ELSE "none"

\* retrier.Run and httpretrier.Do keep the promises of RetrySpec: no attempt beyond the
\* last or after a final outcome, and the context's error only if the context ended.
ImplementsRetry == Promise!RetryLoop

\* onRetry hears of each failed attempt that another follows, never of the final one, and never
\* once the context has ended (Retrier).
RetriesAreAnnounced ==
  /\ [](subject = "retrier" => Retry!EachRetryIsAnnounced)
  /\ [][subject = "retrier" => Retry!AnnouncementStep]_outVars

\* A request is never sent with a body that was already consumed; Do returns a response or an
\* error, never both, and leaks no body (HTTPRetrier).
BodiesAreSound == subject = "httpretrier" => HTTP!BodyIsFresh /\ HTTP!ResponseXorError

\* "wait at least Retry-After", up to the configured cap (HTTPRetrier).
HonoursRetryAfter == subject = "httpretrier" => HTTP!HonoursRetryAfter


\* Dialers that share the counter do not get stuck on one head (DNSDial).
RotationAdvances == [][subject = "dnscache" => Dial!RotationStep]_outVars

\* Run, Do and DialContext return, whenever their contexts end.
CallsReturn ==
  /\ <>(InLoop => pc = "returned")
  /\ \A d \in Dialers :
       LET at(where) == subject = "dnscache" /\ pc[d] = where IN at("lookup") ~> at("returned")

=============================================================================
