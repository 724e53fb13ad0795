-------------------------------- MODULE RestClients --------------------------------
(***************************************************************************)
(* The REST clients devlake, sleuth, slack, jirasrv, ipify and             *)
(* passwordpwned: one call of one client, from its construction to its     *)
(* return. HTTPRetrier models the retries in full; here they are attempts  *)
(* under the retry policy of the client, and a cancelled context ends them. *)
(* A secret is a token that a URL carries verbatim. An error is a record   *)
(* of what failed and whether its text holds the secret; a nil error is    *)
(* the empty set, and errors.Join the union.                               *)
(***************************************************************************)
EXTENDS Integers, SequencesExt

CONSTANTS
  Attempts,   \* numbers of attempts
  Statuses,   \* status codes of responses
  SuffixLen,  \* suffixLen: 35 hexadecimal digits
  Suffix,     \* the rest of the password's hash
  Limits,     \* limits on the size of a range
  MaxInt,     \* the largest int of strconv.Atoi
  Ranges      \* range bodies: [lines : Seq([suffix, count : Seq of digits]), form, cut]

VARIABLE st  \* the client, its call and the bodies opened

Err(what, secret) == {[what |-> what, secret |-> secret]}
Plain(what) == Err(what, FALSE)

-----------------------------------------------------------------------------
(* New: what is wrong with the parameters, "" if nothing is *)

BadAddress == {"unparsable", "no host"}

DevLakeNew(p) ==
  IF p.addr \in BadAddress THEN "ErrInvalidAddress" ELSE IF p.secret = "" THEN "ErrEmptyAPIKey"
  ELSE IF p.attempts = 0 THEN "ErrInvalidRetryConfig" ELSE ""

SleuthNew(p) ==
  IF p.addr \in BadAddress THEN "ErrInvalidAddress" ELSE IF p.name = "" THEN "ErrEmptyOrg"
  ELSE IF p.secret = "" THEN "ErrEmptyAPIKey" ELSE IF p.attempts = 0 THEN "ErrInvalidRetryConfig" ELSE ""

\* The address is the secret: errors give the reason without it.
parseWebhookAddr(p) == IF p.addr \in BadAddress THEN "ErrInvalidAddress" ELSE ""
SlackNew(p) ==
  IF parseWebhookAddr(p) # "" THEN parseWebhookAddr(p) ELSE IF p.attempts = 0 THEN "ErrInvalidRetryConfig" ELSE ""

JiraNew(p) ==
  IF p.addr \in BadAddress THEN "ErrInvalidAddress" ELSE IF p.secret = "" THEN "ErrEmptyToken"
  ELSE IF p.attempts = 0 THEN "ErrInvalidRetryConfig" ELSE ""

\* No retries: any number of attempts will do.
IPifyNew(p) == IF p.addr \in BadAddress \cup {"other scheme"} THEN "ErrInvalidOptions" ELSE ""

validateUserAgent(agent) == agent \notin {"", "control"}
PwnedNew(p) ==
  IF ~validateUserAgent(p.name) THEN "ErrInvalidUserAgent" ELSE IF p.addr \in BadAddress \cup {"query"} THEN "ErrInvalidURL"
  ELSE IF p.attempts = 0 THEN "ErrInvalidRetryConfig" ELSE ""

New(kind, p) ==
  CASE kind = "devlake" -> DevLakeNew(p) [] kind = "sleuth" -> SleuthNew(p) [] kind = "slack" -> SlackNew(p)
    [] kind = "jirasrv" -> JiraNew(p) [] kind = "ipify" -> IPifyNew(p) [] OTHER -> PwnedNew(p)

Params == [addr : BadAddress \cup {"ok", "other scheme", "query"}, secret : {"", "key"}, name : {"", "control", "name"},
           attempts : Attempts]

-----------------------------------------------------------------------------
(* Requests: the errors that keep one from being sent *)

httpPostRequest(req, urlSecret) ==
  CASE req = "unencodable" -> Plain("json encoding") [] req = "unbuildable" -> Err("create request", urlSecret) [] OTHER -> {}

\* The generated text no longer holds the secret.
redactAPIKey(errs) == {[what |-> e.what, secret |-> FALSE] : e \in errs}
redactWebhookURL(errs) == {[what |-> e.what, secret |-> FALSE] : e \in errs}

DevLakeRequest(req) == IF req = "invalid" THEN Plain("invalid request") ELSE httpPostRequest(req, FALSE)
SleuthRequest(req, urlSecret) ==
  IF req = "invalid" THEN Plain("invalid request") ELSE redactAPIKey(httpPostRequest(req, urlSecret))

NotNil(req, errs) == IF req = "nil" THEN Plain("ErrNilRequest") ELSE errs
SendDeployment(req) == NotNil(req, DevLakeRequest(req))
SendIncident(req) == NotNil(req, DevLakeRequest(req))
\* Closing has no body: the key goes into the path, escaped.
SendIncidentClose(req) ==
  NotNil(req, IF req = "invalid" THEN Plain("invalid request")
              ELSE IF req = "unbuildable" THEN Plain("create request") ELSE {})
SendDeployRegistration(req) == NotNil(req, SleuthRequest(req, FALSE))
SendManualChange(req) == NotNil(req, SleuthRequest(req, FALSE))
\* This endpoint has the key in its path.
SendCustomIncidentImpactRegistration(req) == NotNil(req, SleuthRequest(req, TRUE))
SendCustomMetricImpactRegistration(req) == NotNil(req, SleuthRequest(req, FALSE))

\* jirasrv takes any value: a struct behind any number of pointers is validated.
isValidatable(req) == req \in {"struct", "invalid"}
requestBuffer(req) ==
  IF isValidatable(req) /\ req = "invalid" THEN Plain("invalid request")
  ELSE IF req = "unencodable" THEN Plain("json encoding") ELSE {}
httpRequest(req) == IF req = "unbuildable" THEN Plain("create http request") ELSE {}
SendRequest(req) ==
  LET buffer == IF req = "none" THEN {} ELSE requestBuffer(req) IN IF buffer # {} THEN buffer ELSE httpRequest(req)

\* A message is always encodable; its URL is the secret.
Send(req) == IF req = "unbuildable" THEN redactWebhookURL(Err("create request", TRUE)) ELSE {}

Structs == {"nil", "invalid", "unencodable", "unbuildable", "struct"}
Bare == {"struct", "unbuildable"}

-----------------------------------------------------------------------------
(* Retry policies *)

\* Mutant: a write is retried after what a read is retried after.
RetryIfForWriteRequests_AsRead(a) == a.err \/ a.status \in {404, 408, 409, 423, 425, 429, 500, 502, 503, 504, 507}

RetryIfForWriteRequests(a) == a.err \/ a.status \in {429, 502, 503}
RetryIfForReadRequests(a) == a.err \/ a.status \in {404, 408, 409, 423, 425, 429, 500, 502, 503, 504, 507}
RetryIfFnByHTTPMethod(get, a) == IF get THEN RetryIfForReadRequests(a) ELSE RetryIfForWriteRequests(a)

-----------------------------------------------------------------------------
(* Range bodies *)

\* A body as it is sent, in upper or lower case or as another document, and without its last
\* cut bytes: one that ends early and whose reading reports nothing.
Digits == <<"0", "1", "2", "3", "4", "5", "6", "7", "8", "9">>
RangeBytes(r) ==
  LET line(l) == l.suffix \o <<":">> \o l.count \o <<"\n">>
      text    == FlattenSeq([i \in DOMAIN r.lines |-> line(r.lines[i])])
      sent    == SubSeq(text, 1, Len(text) - r.cut)
  IN  CASE r.form = "lower" -> [i \in DOMAIN sent |-> IF sent[i] = "A" THEN "a" ELSE sent[i]]
        [] r.form = "html" -> <<"<">> \o sent
        [] OTHER -> sent

IsDigit(b) == b \in ToSet(Digits)
validRangeStart(data) ==
  /\ Len(data) >= SuffixLen + 2
  /\ \A i \in 1..SuffixLen : IsDigit(data[i]) \/ data[i] = "A"
  /\ data[SuffixLen + 1] = ":" /\ IsDigit(data[SuffixLen + 2])

\* Mutant: one byte less is read, so a body over the limit passes for its beginning.
readRangeBody_Truncates(bytes, limit, reads) ==
  LET data == [i \in 1..(IF Len(bytes) > limit THEN limit ELSE Len(bytes)) |-> IF bytes[i] = "a" THEN "A" ELSE bytes[i]]
  IN  CASE ~reads -> [data |-> <<>>, err |-> Plain("decoding")]
        [] ~validRangeStart(data) -> [data |-> <<>>, err |-> Plain("ErrMalformedResponse")]
        [] OTHER -> [data |-> data, err |-> {}]

\* One byte beyond the limit is read, to tell a full body from one that is too long.
readRangeBody(bytes, limit, reads) ==
  LET data == [i \in DOMAIN bytes |-> IF bytes[i] = "a" THEN "A" ELSE bytes[i]]
  IN  CASE ~reads -> [data |-> <<>>, err |-> Plain("decoding")]
        [] Len(bytes) > limit -> [data |-> <<>>, err |-> Plain("ErrResponseTooLarge")]
        [] ~validRangeStart(data) -> [data |-> <<>>, err |-> Plain("ErrMalformedResponse")]
        [] OTHER -> [data |-> data, err |-> {}]

decodeBody(encoding) ==
  CASE encoding = "bad gzip" -> Plain("gzip reader") [] encoding = "other" -> Plain("ErrUnsupportedEncoding") [] OTHER -> {}

Value(digits) == FoldLeft(LAMBDA n, d : 10 * n + (CHOOSE i \in 0..9 : Digits[i + 1] = d), 0, digits)

\* The digits from start on, as far as they are there.
parseCount(data, start) ==
  LET rest   == SubSeq(data, start, Len(data))
      digits == SelectSeq([i \in DOMAIN rest |-> IF \A j \in 1..i : IsDigit(rest[j]) THEN rest[i] ELSE ""], IsDigit)
  IN  IF digits = <<>> \/ Value(digits) > MaxInt THEN [count |-> 0, err |-> Plain("ErrMalformedResponse")]
      ELSE [count |-> Value(digits), err |-> {}]

Found(data) == {i \in 1..(Len(data) - SuffixLen + 1) : SubSeq(data, i, i + SuffixLen - 1) = Suffix}
matchCount(data) ==
  IF Found(data) = {} THEN [count |-> 0, err |-> {}]
  ELSE LET sep == (CHOOSE i \in Found(data) : \A j \in Found(data) : i <= j) + SuffixLen
       IN  IF sep + 1 > Len(data) \/ data[sep] # ":" THEN [count |-> 0, err |-> Plain("ErrMalformedResponse")]
           ELSE parseCount(data, sep + 1)

-----------------------------------------------------------------------------
(* Responses: what the call makes of the one it ends with *)

CloseError(r) == IF r.closes THEN {} ELSE Plain("close")
Unless(good, r, what) == IF r.status = good THEN {} ELSE Plain(what)
None == [ip |-> "", count |-> 0]
Outcome(errs) == [errs |-> errs, value |-> None]

DevLakeHealthCheck(r) == Outcome(Unless(200, r, "status") \cup CloseError(r))
JiraHealthCheck(r) == Outcome(Unless(200, r, "status") \cup CloseError(r))
doRequest(r) == Outcome(Unless(200, r, "status") \cup CloseError(r))

\* A valid key for an unknown project: not found is the answer of a healthy service.
SleuthHealthCheck(r) ==
  Outcome((IF r.status # 404 THEN Plain("status") ELSE IF ~r.reads THEN Plain("reading") ELSE {}) \cup CloseError(r))
\* The excerpt of the body may echo the key.
sendRequest(r) == Outcome(redactAPIKey(IF r.status = 200 THEN {} ELSE Err("status", TRUE)) \cup CloseError(r))

\* The first incident that is not resolved and affects the API.
apiServiceIncident(incidents) == \E i \in DOMAIN incidents : ~incidents[i].resolved /\ incidents[i].api
SlackHealthCheck(r) ==
  Outcome((IF r.status # 200 THEN Plain("status") ELSE IF ~r.reads THEN Plain("decoding")
           ELSE IF r.report.ok THEN {} ELSE IF apiServiceIncident(r.report.incidents) THEN Plain("incident") ELSE {})
          \cup CloseError(r))
sendData(r) == Outcome(Unless(200, r, "status") \cup CloseError(r))

\* Any error, that of the close too, takes the address away.
GetPublicIP(r) ==
  LET errs == (IF r.status # 200 THEN Plain("status") ELSE IF ~r.reads THEN Plain("reading")
               ELSE IF r.blank THEN Plain("ErrInvalidResponse") ELSE {}) \cup CloseError(r)
  IN  [errs |-> errs, value |-> [None EXCEPT !.ip = IF errs = {} THEN "address" ELSE "errorIP"]]

PwnedHealthCheck(r) == Outcome(Unless(200, r, "ErrUnexpectedStatus"))
\* The close is not reported: the body was read or refused before.
fetchRange(r, limit) ==
  IF r.status # 200 THEN [data |-> <<>>, err |-> Plain("ErrUnexpectedStatus")]
  ELSE IF decodeBody(r.encoding) # {} THEN [data |-> <<>>, err |-> decodeBody(r.encoding)]
  ELSE readRangeBody(RangeBytes(r.range), limit, r.reads)
PwnedCount(r, limit) ==
  LET got == fetchRange(r, limit)
      m   == matchCount(got.data)
  IN  IF got.err # {} THEN Outcome(got.err) ELSE [errs |-> m.err, value |-> [None EXCEPT !.count = m.count]]

-----------------------------------------------------------------------------
(* The operations: the requests they take, the retries, the secret in the URL, the outcome *)

Ops ==
  [devlake       |-> {"HealthCheck", "SendDeployment", "SendIncident", "SendIncidentClose"},
   sleuth        |-> {"HealthCheck", "SendDeployRegistration", "SendManualChange",
                      "SendCustomIncidentImpactRegistration", "SendCustomMetricImpactRegistration"},
   slack         |-> {"HealthCheck", "Send"},
   jirasrv       |-> {"HealthCheck", "SendRequest GET", "SendRequest POST"},
   ipify         |-> {"HealthCheck", "GetPublicIP"},
   passwordpwned |-> {"HealthCheck", "IsPwnedPassword"}]

Jira(op) == op \in {"SendRequest GET", "SendRequest POST"}
RequestsOf(op) ==
  CASE op \in {"HealthCheck", "Send", "GetPublicIP", "IsPwnedPassword"} -> Bare
    [] Jira(op) -> {"none", "map", "nil pointer"} \cup (Structs \ {"nil"})
    [] OTHER -> Structs

Refused(op, req) ==
  CASE op = "SendDeployment" -> SendDeployment(req) [] op = "SendIncident" -> SendIncident(req)
    [] op = "SendIncidentClose" -> SendIncidentClose(req) [] op = "SendDeployRegistration" -> SendDeployRegistration(req)
    [] op = "SendManualChange" -> SendManualChange(req)
    [] op = "SendCustomIncidentImpactRegistration" -> SendCustomIncidentImpactRegistration(req)
    [] op = "SendCustomMetricImpactRegistration" -> SendCustomMetricImpactRegistration(req)
    [] Jira(op) -> SendRequest(req) [] op = "Send" -> Send(req)
    [] OTHER -> IF req = "unbuildable" THEN Plain("create request") ELSE {}

\* Health checks and ipify call the client itself.
Direct(op) == op \in {"HealthCheck", "GetPublicIP"}
Reading(op) == op \in {"SendRequest GET", "IsPwnedPassword"}
retrierForMethod(op, a) == ~Direct(op) /\ RetryIfFnByHTTPMethod(Reading(op), a)

SecretInURL(kind, op) == (kind = "slack" /\ op = "Send") \/ op = "SendCustomIncidentImpactRegistration"
ExecuteError(kind, op) ==
  LET errs == Err("execute request", SecretInURL(kind, op))
  IN  IF kind = "slack" /\ op = "Send" THEN redactWebhookURL(errs) ELSE IF kind = "sleuth" THEN redactAPIKey(errs) ELSE errs

OutcomeOf(kind, op, r, limit) ==
  CASE kind = "sleuth" /\ Direct(op) -> SleuthHealthCheck(r) [] kind = "slack" /\ Direct(op) -> SlackHealthCheck(r)
    [] kind = "ipify" -> GetPublicIP(r) [] kind = "passwordpwned" /\ Direct(op) -> PwnedHealthCheck(r)
    [] kind = "passwordpwned" -> PwnedCount(r, limit) [] kind = "sleuth" -> sendRequest(r)
    [] kind = "slack" -> sendData(r) [] kind = "devlake" /\ ~Direct(op) -> doRequest(r)
    [] Jira(op) -> Outcome({}) [] kind = "jirasrv" -> JiraHealthCheck(r) [] OTHER -> DevLakeHealthCheck(r)

Reports == [ok : BOOLEAN, incidents : SeqOf([resolved : BOOLEAN, api : BOOLEAN], 2)]
Some == [reads |-> TRUE, closes |-> TRUE, blank |-> FALSE, encoding |-> "identity",
         report |-> [ok |-> TRUE, incidents |-> <<>>], range |-> [lines |-> <<>>, form |-> "upper", cut |-> 0]]

\* Responses differ where the call looks at them: at the content of a good one, at the close of any.
Contents(kind, op) ==
  CASE kind = "ipify" -> {[Some EXCEPT !.blank = b] : b \in BOOLEAN}
    [] kind = "slack" /\ Direct(op) -> {[Some EXCEPT !.report = r] : r \in Reports}
    [] op = "IsPwnedPassword" -> {[Some EXCEPT !.range = r] : r \in Ranges}
                                 \cup {[Some EXCEPT !.encoding = e] : e \in {"bad gzip", "other"}}
    [] OTHER -> {Some}
ResponsesOf(kind, op) ==
  LET good == {[c EXCEPT !.reads = r] : c \in Contents(kind, op), r \in BOOLEAN}
  IN  {[status |-> s, closes |-> c] @@ Some : s \in Statuses \ {200}, c \in BOOLEAN}
      \cup {[status |-> 404, reads |-> FALSE] @@ Some}
      \cup {[status |-> 200, closes |-> c] @@ r : r \in good, c \in BOOLEAN}

-----------------------------------------------------------------------------
(* A call *)

Blank == [pc |-> "new", op |-> "", req |-> "", left |-> 0, seen |-> <<>>, opened |-> 0, closed |-> 0, errs |-> {}, value |-> None]

Init == \E kind \in DOMAIN Ops, p \in Params, limit \in Limits :
  /\ New(kind, p) = ""
  /\ st = [kind |-> kind, attempts |-> p.attempts, limit |-> limit] @@ Blank

Call == \E op \in Ops[st.kind] : \E req \in RequestsOf(op) :
  LET errs == Refused(op, req)
  IN  /\ st.pc = "new"
      /\ st' = [st EXCEPT !.pc = IF errs = {} THEN "sending" ELSE "returned", !.op = op, !.req = req, !.errs = errs,
                          !.left = IF Direct(op) THEN 1 ELSE st.attempts,
                          !.value.ip = IF st.kind = "ipify" THEN "errorIP" ELSE ""]

\* The transport fails.
Fails ==
  LET a == [err |-> TRUE, status |-> 0]
      s == [st EXCEPT !.seen = Append(@, 0), !.left = @ - 1]
  IN  /\ st.pc = "sending"
      /\ st' = IF retrierForMethod(st.op, a) /\ s.left > 0 THEN s
               ELSE [s EXCEPT !.pc = "returned", !.errs = ExecuteError(st.kind, st.op)]

\* A response: the retrier closes it and goes on, jirasrv hands it over, the others use and
\* close it.
Answers == \E r \in ResponsesOf(st.kind, st.op) :
  LET a    == [err |-> FALSE, status |-> r.status]
      s    == [st EXCEPT !.seen = Append(@, r.status), !.left = @ - 1, !.opened = @ + 1]
      done == OutcomeOf(st.kind, st.op, r, st.limit)
  IN  /\ st.pc = "sending"
      /\ st' = IF retrierForMethod(st.op, a) /\ s.left > 0 THEN [s EXCEPT !.closed = @ + 1]
               ELSE [s EXCEPT !.pc = "returned", !.errs = done.errs, !.value = done.value,
                              !.closed = IF Jira(st.op) THEN @ ELSE @ + 1] @@ [last |-> r]

\* The context ends while the retrier waits.
Cancelled == /\ st.pc = "sending" /\ st.seen # <<>>
             /\ st' = [st EXCEPT !.pc = "returned", !.errs = ExecuteError(st.kind, st.op)]

Next == Call \/ Fails \/ Answers \/ Cancelled

-----------------------------------------------------------------------------
(* Properties *)

Succeeded == st.pc = "returned" /\ st.errs = {}
Writing == ~Direct(st.op) /\ ~Reading(st.op)

\* Whatever way a call returns by, every body it got is closed once (the one jirasrv hands to
\* its caller is open); a refused request was not sent; nothing is repeated after a success, and
\* a write that was answered only after 429, 502 or 503, by which a service or a gateway says
\* that it has not taken it.  A write without an answer is repeated like a read, so the service
\* may have applied it: writes are made at least once, not at most once.  Success means the last
\* answer was the one a working service gives, and no error text holds a secret the URL carries.
CallsReturnCleanly ==
  st.pc = "returned" =>
    /\ st.opened - st.closed = IF Jira(st.op) /\ Succeeded THEN 1 ELSE 0
    /\ st.req \in {"nil", "invalid", "unbuildable"} => st.seen = <<>> /\ st.errs # {}
    /\ Len(st.seen) <= IF Direct(st.op) THEN 1 ELSE st.attempts
    /\ \A i \in 1..(Len(st.seen) - 1) : IF Writing THEN st.seen[i] \in {0, 429, 502, 503} ELSE st.seen[i] # 200
    /\ Succeeded /\ ~Jira(st.op) => Last(st.seen) = IF st.kind = "sleuth" /\ Direct(st.op) THEN 404 ELSE 200
    /\ \A e \in st.errs : ~e.secret
    /\ st.kind = "ipify" => (st.value.ip = "errorIP") = (st.errs # {})

\* A password is reported with the count of the first line for it, and as unknown only if no
\* line has it; a page that is not a range, a body whose reading fails and one over the limit
\* are errors.  A body that ends early without a read error passes for a whole one, as only its
\* start is checked: the count may then be short of its last digits, never above what the
\* service gave, and is never read from another line or from a suffix without a count.
PwnedAnswersAreSupported ==
  Succeeded /\ st.op = "IsPwnedPassword" =>
    LET r     == st.last.range
        lines == SelectSeq(r.lines, LAMBDA l : l.suffix = Suffix)
    IN  /\ st.last.reads /\ r.form # "html" /\ Len(RangeBytes(r)) <= st.limit
        /\ r.cut = 0 => st.value.count = IF lines = <<>> THEN 0 ELSE Value(lines[1].count)
        /\ st.value.count > 0 => \E n \in DOMAIN lines[1].count : st.value.count = Value(SubSeq(lines[1].count, 1, n))

=============================================================================
