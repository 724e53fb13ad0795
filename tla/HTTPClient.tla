-------------------------------- MODULE HTTPClient --------------------------------
(***************************************************************************)
(* pkg/httpclient's Do and pkg/traceid: one exchange, from the request to  *)
(* the close of the body, with debug dumps that read the body first.       *)
(* The bytes of a body are its positions; failAt is where a read breaks.   *)
(***************************************************************************)
EXTENDS Integers, SequencesExt

CONSTANTS
  HTTPClients, \* their settings: see HTTPClientType
  BodyLens,    \* lengths of bodies
  FailPoints,  \* where a read of a body may break, 0 for nowhere
  TraceIDs     \* identifiers, "none" for no identifier and "bad" for an invalid one

VARIABLES
  settings,          \* the client
  expc, reqctx, parent, \* how far the exchange is, its context, and the caller's
  ids,               \* the identifiers: sent, the context's, the header's, and the one the request's context carries
  outgoing, resp,    \* the bodies of the request, once it was dumped, and of the response
  bodyRead, eof, failed, \* what the caller has read of the response, up to its end or to an error
  stated, buffered,  \* the length the request states, and how much of its body a dump had in memory
  peeked, dumped,    \* how much of the response's a dump had in memory, and wrote
  entry, exresult    \* the level of the log entry, and what Do returned

exVars == <<settings, expc, reqctx, parent, ids, outgoing, resp, bodyRead, eof, failed, stated, buffered, peeked, dumped, entry, exresult>>

HTTPClientType == [timeout : BOOLEAN, debug : BOOLEAN, maxDumpSize : Nat]

ASSUME ExchangeAssumption == HTTPClients \subseteq HTTPClientType /\ BodyLens \subseteq Nat /\ FailPoints \subseteq Nat

Unknown == -1
Lesser(a, b) == IF a < b THEN a ELSE b
Bytes(n) == [i \in 1..n |-> i]

-----------------------------------------------------------------------------
(* pkg/traceid *)

Valid(id) == id \notin {"none", "bad"}
FromContext(ctxID, default) == IF ctxID # "none" THEN ctxID ELSE default
NewContext(ctxID, id) == IF id = "none" \/ ctxID # "none" THEN ctxID ELSE id
ForceContext(ctxID, id) == IF id = "none" THEN ctxID ELSE id
FromHTTPRequestHeader(header, default) == IF Valid(header) THEN header ELSE default

\* What is set, "none" if nothing is.
SetHTTPRequestHeaderFromContext(ctxID, default) ==
  LET id == IF Valid(FromContext(ctxID, default)) THEN FromContext(ctxID, default) ELSE default
  IN  IF Valid(id) THEN id ELSE "none"

\* The context's, else the header's, else a new one; the header and the context carry it.
propagateTraceID(ctxID, header) ==
  LET fromCtx == SetHTTPRequestHeaderFromContext(ctxID, "none")
      inHeader == FromHTTPRequestHeader(header, "none")
      reqID   == IF fromCtx # "none" THEN fromCtx ELSE IF inHeader # "none" THEN inHeader ELSE "new"
  IN  [sent |-> reqID, ctxID |-> ctxID, header |-> header, reqID |-> ForceContext(ctxID, reqID)]

-----------------------------------------------------------------------------
(* Bodies: what is buffered, then the rest of the connection from pos on. *)

Streams == {[buf |-> <<>>, pos |-> 1, n |-> n, failAt |-> f] : n \in BodyLens, f \in FailPoints}
\* What is left of a body.
Rest(s, buf, pos) == [s EXCEPT !.buf = buf, !.pos = pos]
NoBody == [buf |-> <<>>, pos |-> 1, n |-> 0, failAt |-> 0]

\* How many bytes the connection delivers, and whether it then breaks.
Reach(s) == IF s.failAt = 0 THEN s.n ELSE Lesser(s.n, s.failAt - 1)
Breaks(s) == s.failAt # 0 /\ s.failAt <= s.n

\* httputil.DumpRequestOut with the body, and DumpResponse with it: all of it is read, and
\* put back unless the read broke.
Drain(s) ==
  IF Breaks(s) THEN [s |-> Rest(s, <<>>, Reach(s) + 1), dumped |-> 0, held |-> Reach(s)]
  ELSE [s |-> Rest(s, Bytes(s.n), s.n + 1), dumped |-> s.n, held |-> s.n]

NotRead(s) == [s |-> s, dumped |-> 0, held |-> 0]

\* Nothing to read, a stream, or too much: the headers only.
dumpRequest(c, s, contentLength) ==
  IF s.n = 0 \/ contentLength < 0 \/ (c.maxDumpSize > 0 /\ contentLength > c.maxDumpSize) THEN NotRead(s)
  ELSE Drain(s)

dumpResponseBody(c, contentLength) == c.maxDumpSize <= 0 \/ contentLength <= c.maxDumpSize

\* Mutant: the byte that shows the body is longer is not put back.
dumpResponse_DropsPeek(c, s, contentLength) ==
  LET read == Lesser(c.maxDumpSize + 1, Reach(s))
  IN  IF contentLength >= 0 \/ c.maxDumpSize <= 0 THEN NotRead(s)
      ELSE [dumped |-> Lesser(read, c.maxDumpSize), held |-> read,
            s |-> Rest(s, Bytes(Lesser(read, c.maxDumpSize)), read + 1)]

\* An unknown length is read to one byte beyond the cap; what was read is put back in front.
dumpResponse(c, s, contentLength) ==
  IF contentLength >= 0 \/ c.maxDumpSize <= 0
  THEN IF dumpResponseBody(c, contentLength) THEN Drain(s) ELSE NotRead(s)
  ELSE LET read  == Lesser(c.maxDumpSize + 1, Reach(s))
           broke == Breaks(s) /\ read < c.maxDumpSize + 1
       IN  [dumped |-> IF broke THEN 0 ELSE Lesser(read, c.maxDumpSize), held |-> read,
            s |-> Rest(s, Bytes(read), read + 1)]

-----------------------------------------------------------------------------
(* Do and the caller *)

NoIDs == [sent |-> "none", ctxID |-> "none", header |-> "none", reqID |-> "none"]

ExIdle(c) ==
  /\ settings = c
  /\ expc = "idle" /\ reqctx = "live" /\ parent = "live" /\ ids = NoIDs
  /\ outgoing = NoBody /\ resp = NoBody /\ bodyRead = <<>> /\ eof = FALSE /\ failed = FALSE
  /\ stated = Unknown /\ buffered = 0 /\ peeked = 0 /\ dumped = 0 /\ entry = "none" /\ exresult = "none"

ExInit == \E c \in HTTPClients : ExIdle(c)

\* What a request may state: http.NewRequest leaves 0 for a reader whose length it cannot tell.
RequestLengths(s) == {s.n, Unknown, 0}
ResponseLengths(s) == {s.n, Unknown}

\* A request without a URL is refused before anything is set up.
DoRefused ==
  /\ expc = "idle"
  /\ expc' = "returned" /\ exresult' = "nilURL" /\ reqctx' = "unset"
  /\ UNCHANGED <<settings, parent, ids, outgoing, resp, bodyRead, eof, failed, stated, buffered, peeked, dumped, entry>>
Do == \E ctxID, header \in TraceIDs, body \in Streams : \E length \in RequestLengths(body) :
  LET dump == IF settings.debug THEN dumpRequest(settings, body, length) ELSE NotRead(body)
  IN  /\ expc = "idle"
      /\ expc' = "sent" /\ ids' = propagateTraceID(ctxID, header)
      /\ outgoing' = dump.s /\ stated' = length /\ buffered' = dump.held
      /\ UNCHANGED <<settings, reqctx, parent, resp, bodyRead, eof, failed, peeked, dumped, entry, exresult>>

\* The deferred cancel runs unless the body owns it, and the entry is logged.
Returns(result) ==
  /\ expc' = "returned" /\ exresult' = result
  /\ reqctx' = IF result = "ok" \/ reqctx # "live" THEN reqctx ELSE "cancelled"
  /\ entry' = IF result # "ok" THEN "error" ELSE IF settings.debug THEN "debug" ELSE "info"

\* The transport answers: a response, an error, or both (a redirect it would not follow).
RoundTrip == \E body \in Streams, broken \in BOOLEAN : \E length \in ResponseLengths(body) :
  LET dump == IF settings.debug THEN dumpResponse(settings, body, length) ELSE NotRead(body)
  IN  /\ expc = "sent" /\ reqctx = "live"
      /\ resp' = dump.s /\ peeked' = dump.held /\ dumped' = dump.dumped
      /\ Returns(IF broken THEN "both" ELSE "ok")
      /\ UNCHANGED <<settings, parent, ids, outgoing, stated, buffered, bodyRead, eof, failed>>
RoundTripFails ==
  /\ expc = "sent"
  /\ Returns("error")
  /\ UNCHANGED <<settings, parent, ids, outgoing, resp, bodyRead, eof, failed, stated, buffered, peeked, dumped>>

\* The deadline, or the caller's own context, ends the request's.
DeadlineExpires ==
  /\ expc \in {"sent", "returned"} /\ settings.timeout /\ reqctx = "live"
  /\ reqctx' = "expired"
  /\ UNCHANGED <<settings, expc, parent, ids, outgoing, resp, bodyRead, eof, failed, stated, buffered, peeked, dumped, entry, exresult>>
CancelParent ==
  /\ expc \in {"sent", "returned"} /\ parent = "live"
  /\ parent' = "gone" /\ reqctx' = IF reqctx = "live" THEN "cancelled" ELSE reqctx
  /\ UNCHANGED <<settings, expc, ids, outgoing, resp, bodyRead, eof, failed, stated, buffered, peeked, dumped, entry, exresult>>

\* One byte at a time; what is buffered needs no connection.
ReadsFrom(from) ==
  /\ expc = "returned" /\ exresult = "ok" /\ ~eof /\ ~failed
  /\ (from = "buffer") = (resp.buf # <<>>)
  /\ UNCHANGED <<settings, expc, reqctx, parent, ids, outgoing, stated, buffered, peeked, dumped, entry, exresult>>
ReadBuffered ==
  /\ ReadsFrom("buffer")
  /\ bodyRead' = Append(bodyRead, Head(resp.buf)) /\ resp' = Rest(resp, Tail(resp.buf), resp.pos)
  /\ UNCHANGED <<eof, failed>>
ReadByte ==
  /\ ReadsFrom("connection")
  /\ resp.pos <= resp.n /\ reqctx = "live" /\ resp.pos # resp.failAt
  /\ bodyRead' = Append(bodyRead, resp.pos) /\ resp' = Rest(resp, <<>>, resp.pos + 1)
  /\ UNCHANGED <<eof, failed>>
ReadEnds ==
  /\ ReadsFrom("connection")
  /\ eof' = (resp.pos > resp.n) /\ failed' = (resp.pos <= resp.n)
  /\ resp.pos > resp.n \/ reqctx # "live" \/ resp.pos = resp.failAt
  /\ UNCHANGED <<bodyRead, resp>>

\* cancelReadCloser: closing the body ends the context.
CloseBody ==
  /\ expc = "returned" /\ exresult = "ok"
  /\ expc' = "closed" /\ reqctx' = IF reqctx = "live" THEN "cancelled" ELSE reqctx
  /\ UNCHANGED <<settings, parent, ids, outgoing, resp, bodyRead, eof, failed, stated, buffered, peeked, dumped, entry, exresult>>

ExNext ==
  \/ DoRefused \/ Do \/ RoundTrip \/ RoundTripFails \/ DeadlineExpires \/ CancelParent
  \/ ReadBuffered \/ ReadByte \/ ReadEnds \/ CloseBody

ExSpec == ExInit /\ [][ExNext]_exVars

-----------------------------------------------------------------------------
(* Properties *)

\* The body is still to be read from its first byte on.
Intact(s) == s.buf = Bytes(Len(s.buf)) /\ s.pos = Len(s.buf) + 1

\* The caller reads the bytes the server sent, in order and all of them unless a read failed,
\* whatever was dumped, and a request's body is sent whole unless reading it breaks; the
\* request's context outlives Do exactly as long as the body is open; a dump of a response never
\* holds more than its cap and the byte that shows there is more, and one of a request no more than
\* its cap unless the request states the length 0 with a body (the cap is then not looked at); and
\* the identifier sent is valid, the context's before the header's, and the one the context carries.
ExchangeIsFaithful ==
  /\ bodyRead = Bytes(Len(bodyRead)) /\ (eof => Len(bodyRead) = resp.n)
  /\ Intact(outgoing) \/ Breaks(outgoing)
  /\ failed => Breaks(resp) \/ reqctx # "live"
  /\ expc = "returned" /\ exresult = "ok" /\ reqctx # "live" => settings.timeout \/ parent = "gone"
  /\ expc = "closed" \/ (expc = "returned" /\ exresult # "ok") => reqctx # "live"
  /\ settings.maxDumpSize > 0 => peeked <= settings.maxDumpSize + 1 /\ dumped <= settings.maxDumpSize
  /\ settings.maxDumpSize > 0 /\ stated # 0 => buffered <= settings.maxDumpSize
  /\ expc # "idle" /\ exresult # "nilURL" =>
       /\ Valid(ids.sent) /\ ids.reqID = ids.sent
       /\ ids.sent = IF Valid(ids.ctxID) THEN ids.ctxID ELSE IF Valid(ids.header) THEN ids.header ELSE "new"

=============================================================================
