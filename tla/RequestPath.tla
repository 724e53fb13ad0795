-------------------------------- MODULE RequestPath --------------------------------
(***************************************************************************)
(* pkg/httpserver's routes and middleware, pkg/httputil's response writer  *)
(* and helpers, pkg/httputil/jsendx and pkg/httpreverseproxy: a server     *)
(* that loads its routes, and a request from the router to the last byte   *)
(* and the log entry. net/http and httprouter are external. Sizes are      *)
(* numbers of bytes, times are left out; a path of the proxy is a sequence *)
(* of characters.                                                          *)
(***************************************************************************)
EXTENDS Integers, SequencesExt, FiniteSets

CONSTANTS
  Servers,    \* the configurations: see ServerType
  RouteLists, \* lists of routes a binder returns: see RouteType
  RoutePaths, \* the paths in them: "none" is an empty one, "relative" one that does not start with a slash
  Bodies,     \* sizes of request bodies
  Codes,      \* status codes a handler writes
  MaxSteps,   \* bound on the steps of a handler
  Bases,      \* paths of upstream addresses, as they are configured
  PathParams  \* values of the path parameter

VARIABLES
  srv,                        \* the configuration
  phase, looked, routes, bound, \* loadRoutes: how far it is, the identifiers looked at, the routes, how many are bound
  routing, loadErr,           \* the router's table, and the error that ended the loading
  stage, running, handler, chain, \* the request: how far it is, does its handler run, which one, and what wraps it
  body, taken, steps, replied, \* its body and what was read of it; the handler's steps and the status it replied with
  out, buffer, late,          \* the response writer and the connection, the timeout's buffer, and did the timeout answer?
  cut, sentBefore, logged,    \* a panic, and the status that had gone out before it; the entries of the access log
  forward                     \* what the proxy asked for

routeVars == <<phase, looked, routes, bound, routing, loadErr>>
writeVars == <<out, buffer, late, cut, sentBefore, logged>>
pathVars == <<srv, routeVars, stage, running, handler, chain, body, taken, steps, replied, writeVars, forward>>

Defaults == {"index", "ip", "metrics", "ping", "pprof", "status"}
DefaultPath == [ip |-> "/ip", metrics |-> "/metrics", ping |-> "/ping", pprof |-> "/pprof/*", status |-> "/status"]
Handlers == Defaults \cup {"app", "jsendx", "proxy", "nil"}
Middleware == {"user", "nil"}
ServerType ==
  [maxBody : Int, disableRouteLogger : BOOLEAN, requestTimeout : Int, middleware : Seq(Middleware), tee : BOOLEAN,
   defaults : Seq(Defaults), index : {"index", "nil"}, disabled : SUBSET (Defaults \cup {"404", "405"})]
RouteType ==
  [method : {"GET", "POST", "get", "none"}, path : RoutePaths \cup {DefaultPath[id] : id \in Defaults \ {"index"}}, handler : Handlers,
   noLogger : BOOLEAN, timeout : Int, middleware : Seq(Middleware)]

ASSUME ServerAssumption ==
  Servers \subseteq ServerType /\ RouteLists \subseteq Seq(RouteType) /\ Bodies \subseteq Nat /\ Codes \subseteq Nat \ {0} /\ MaxSteps \in Nat

-----------------------------------------------------------------------------
(* Routes *)

DisableTimeout == -1

defaultRoute(id) ==
  [method |-> "GET", path |-> DefaultPath[id], handler |-> id, noLogger |-> id \in srv.disabled,
   timeout |-> IF id = "pprof" THEN DisableTimeout ELSE 0, middleware |-> <<>>]

\* An identifier at a time: the first of its kind brings its route; the index is bound after all the others.
newDefaultRoutes ==
  /\ phase = "defaults" /\ looked < Len(srv.defaults)
  /\ LET id == srv.defaults[looked + 1]
     IN  routes' = IF id = "index" \/ \E i \in 1..looked : srv.defaults[i] = id THEN routes ELSE Append(routes, defaultRoute(id))
  /\ looked' = looked + 1
  /\ UNCHANGED <<phase, bound, routing, loadErr>>

loadRoutes == \E list \in RouteLists :
  /\ phase = "defaults" /\ looked = Len(srv.defaults)
  /\ phase' = "bind" /\ routes' = routes \o list
  /\ UNCHANGED <<looked, bound, routing, loadErr>>

validateRoute(r) ==
  IF r.method \in {"none", "get"} THEN "ErrInvalidRouteMethod" ELSE IF r.path \in {"none", "relative"} THEN "ErrInvalidRoutePath"
  ELSE IF r.handler = "nil" THEN "ErrNilRouteHandler" ELSE IF "nil" \in ToSet(r.middleware) THEN "ErrNilRouteMiddleware" ELSE "none"

\* Mutant: a path is reserved for one method only.
reserveRoute_Any(method, path) == IF \E t \in routing : t.path = path /\ t.method # method THEN "ErrDuplicateRoute" ELSE "none"

reserveRoute(method, path) == IF \E t \in routing : t.method = method /\ t.path = path THEN "ErrDuplicateRoute" ELSE "none"

\* httprouter panics where a wildcard covers another path of its method.
registerRoute(method, path) == IF \E t \in routing : t.method = method /\ "/*" \in {t.path, path} THEN "ErrRouteRegistration" ELSE "none"

\* Outermost first: the cap on the body, the logger, the timeout, the configured ones.
commonMiddleware(noLogger, rTimeout) ==
  LET timeout == IF rTimeout # 0 THEN rTimeout ELSE srv.requestTimeout
  IN  (IF srv.maxBody > 0 THEN <<"maxbody">> ELSE <<>>) \o (IF ~srv.disableRouteLogger /\ ~noLogger THEN <<"logger">> ELSE <<>>)
      \o (IF timeout > 0 THEN <<"timeout">> ELSE <<>>) \o srv.middleware

\* What wraps a handler, in the order above; nil entries are skipped.
ApplyMiddleware(middleware) == ToSet(middleware) \ {"nil"}

Fails(err) == phase' = "failed" /\ loadErr' = err /\ UNCHANGED <<bound, routing>>
Binds(method, path, h, middleware) ==
  /\ routing' = routing \cup {[method |-> method, path |-> path, handler |-> h, chain |-> ApplyMiddleware(middleware)]}
  /\ UNCHANGED loadErr

\* The next route, or the error that ends the loading.
bindRoute ==
  LET r   == routes[bound + 1]
      err == IF validateRoute(r) # "none" THEN validateRoute(r) ELSE IF reserveRoute(r.method, r.path) # "none" THEN reserveRoute(r.method, r.path)
             ELSE registerRoute(r.method, r.path)
  IN  /\ phase = "bind" /\ bound < Len(routes)
      /\ \/ err # "none" /\ Fails(err)
         \/ /\ err = "none" /\ Binds(r.method, r.path, r.handler, commonMiddleware(r.noLogger, r.timeout) \o r.middleware)
            /\ bound' = bound + 1 /\ UNCHANGED phase
      /\ UNCHANGED <<looked, routes>>

bindIndexRoute ==
  LET err == IF reserveRoute("GET", "/") # "none" THEN reserveRoute("GET", "/") ELSE IF srv.index = "nil" THEN "ErrNilRouteHandler"
             ELSE registerRoute("GET", "/")
      enabled == "index" \in ToSet(srv.defaults)
  IN  /\ phase = "bind" /\ bound = Len(routes)
      /\ \/ enabled /\ err # "none" /\ Fails(err)
         \/ enabled /\ err = "none" /\ Binds("GET", "/", "index", commonMiddleware("index" \in srv.disabled, 0)) /\ phase' = "serving" /\ UNCHANGED bound
         \/ ~enabled /\ phase' = "serving" /\ UNCHANGED <<bound, routing, loadErr>>
      /\ UNCHANGED <<looked, routes>>

\* The router's handlers for what no route takes.
setRouter(name) == ApplyMiddleware(commonMiddleware(name \in srv.disabled, 0))

-----------------------------------------------------------------------------
(* The response writer: status, size and tee are the wrapper's, sent and bytes the connection's *)

\* A wrapper around a connection on which the given status and bytes are already out.
NewResponseWriterWrapper(sent, bytes) ==
  [written |-> FALSE, size |-> 0, status |-> 0, tee |-> 0, sent |-> sent, bytes |-> bytes]
NoWriter == NewResponseWriterWrapper(0, 0)
Informational(code) == code \in 100..199 /\ code # 101

\* The connection takes the first final status; 1xx go out before it.
Sends(w, code) == IF w.sent # 0 \/ Informational(code) THEN w ELSE [w EXCEPT !.sent = code]
SendsBytes(w, n) == [Sends(w, 200) EXCEPT !.bytes = @ + n, !.size = @ + n]

\* Mutant: an informational status is taken for the final one.
WriteHeader_Informational(w, code) ==
  IF w.written THEN w ELSE Sends([w EXCEPT !.status = code, !.written = TRUE], code)

WriteHeader(w, code) ==
  IF w.written THEN w ELSE IF Informational(code) THEN Sends(w, code)
  ELSE Sends([w EXCEPT !.status = code, !.written = TRUE], code)

maybeWriteHeader(w) == IF w.written THEN w ELSE WriteHeader(w, 200)

\* n of the bytes were taken; a tee gets those.
Write(w, n) == LET m == SendsBytes(maybeWriteHeader(w), n) IN IF srv.tee THEN [m EXCEPT !.tee = @ + n] ELSE m

\* The connection's own ReadFrom, unless a tee must see the bytes.
ReadFrom(w, n) == IF srv.tee THEN Write(w, n) ELSE SendsBytes(maybeWriteHeader(w), n)

Flush(w) == maybeWriteHeader(w)

-----------------------------------------------------------------------------
(* Replies: a status and a number of bytes *)

StatusString(code) == IF code >= 500 THEN "error" ELSE IF code >= 400 THEN "fail" ELSE "success"
StatusUnmarshalJSON(s) == CASE s = "success" -> 200 [] s = "fail" -> 400 [] s = "error" -> 500
logResponse(code) == IF code >= 500 THEN "error" ELSE IF code >= 400 THEN "warn" ELSE "debug"

SendStatus(code) == [code |-> code, level |-> logResponse(code), data |-> "text"]
SendText(code) == [code |-> code, level |-> logResponse(code), data |-> "text"]
\* What cannot be encoded is an internal error, and the status was not yet sent.
SendJSON(code, encodes) == IF encodes THEN [SendStatus(code) EXCEPT !.data = "object"] ELSE SendStatus(500)
SendXML(code, encodes) == IF encodes THEN [SendStatus(code) EXCEPT !.data = "object"] ELSE SendStatus(500)
jsendxSend(code, encodes) == SendJSON(code, encodes)

defaultIPHandler(found) == SendText(IF found THEN 200 ELSE 424)
jsendxIPHandler(found) == jsendxSend(IF found THEN 200 ELSE 424, TRUE)

Replies(h) ==
  CASE h = "ip" -> {defaultIPHandler(TRUE), defaultIPHandler(FALSE)} [] h \in {"ping", "status"} -> {SendStatus(200)}
    [] h = "metrics" -> {SendStatus(501)} [] h = "index" -> {SendJSON(200, TRUE)}
    [] h = "404" -> {SendStatus(404)} [] h = "405" -> {SendStatus(405)} [] h = "panic" -> {SendStatus(500)}
    [] h = "jsendx" -> {jsendxIPHandler(TRUE), jsendxIPHandler(FALSE), jsendxSend(200, FALSE)} [] OTHER -> {}

-----------------------------------------------------------------------------
(* The reverse proxy *)

\* The segments of a path, and what is left of them when the server resolves them from the root.
Segments(p) ==
  FoldLeft(LAMBDA acc, c : IF c = "/" THEN Append(acc, <<>>) ELSE [acc EXCEPT ![Len(acc)] = Append(@, c)], <<<<>>>>, p)
Resolved(p) ==
  FoldLeft(LAMBDA acc, s : IF s \in {<<>>, <<".">>} THEN acc
                           ELSE IF s = <<".", ".">> THEN (IF acc = <<>> THEN acc ELSE Front(acc)) ELSE Append(acc, s),
           <<>>, Segments(p))

\* path.Clean of a rooted path.
Clean(p) == IF Resolved(p) = <<>> THEN <<"/">> ELSE FlattenSeq([i \in DOMAIN Resolved(p) |-> <<"/">> \o Resolved(p)[i]])

TrimRight(p) == SubSeq(p, 1, Max({0} \cup {i \in DOMAIN p : p[i] # "/"}))

\* An address without a scheme or a host makes no client.
parseUpstreamURL(addr) == LET base == TrimRight(addr) IN IF base = <<>> THEN <<>> ELSE Clean(base)
defaultRewrite(base, param) == base \o <<"/">> \o param

\* Mutant: /v2 passes for a prefix of /v20.
pathWithinBase_NoSlash(base, param) == IsPrefix(base, Clean(base \o <<"/">> \o param))

pathWithinBase(base, param) ==
  LET cleaned == Clean(base \o <<"/">> \o param) IN cleaned = base \/ IsPrefix(base \o <<"/">>, cleaned)

rejectTraversal == SendText(400)
\* 499 is for the log: nothing is written to a client that is gone.
ClientClosedRequest == 499
newErrorHandler(gone) == IF gone THEN [SendText(ClientClosedRequest) EXCEPT !.level = "info"] ELSE [SendText(502) EXCEPT !.level = "error"]

\* What the upstream is asked for and what the client gets; the upstream answers or fails.
ForwardRequest(base, param, lax, upstream, gone) ==
  IF ~lax /\ base # <<>> /\ ~pathWithinBase(base, param) THEN [path |-> <<"none">>, reply |-> rejectTraversal]
  ELSE [path |-> defaultRewrite(base, param), reply |-> IF upstream THEN SendText(200) ELSE newErrorHandler(gone)]

-----------------------------------------------------------------------------
(* A request *)

PathIdle(c) ==
  /\ srv = c /\ phase = "defaults" /\ looked = 0 /\ routes = <<>> /\ bound = 0 /\ routing = {} /\ loadErr = "none"
  /\ stage = "idle" /\ running = FALSE /\ handler = "none" /\ chain = {} /\ body = 0 /\ taken = 0 /\ steps = 0 /\ replied = 0
  /\ out = NoWriter /\ buffer = [status |-> 0, size |-> 0] /\ late = FALSE /\ cut = FALSE /\ sentBefore = 0 /\ logged = <<>>
  /\ forward = [path |-> <<>>, base |-> <<>>, lax |-> FALSE]

PathInit == \E c \in Servers : PathIdle(c)

Has(m) == m \in chain
Handling == stage = "handling" /\ running

\* The router: a route, a path that has another method, or no route.
Dispatch(h, wrapped) == \E size \in Bodies :
  /\ phase = "serving" /\ stage = "idle"
  /\ stage' = "handling" /\ running' = TRUE /\ handler' = h /\ chain' = wrapped /\ body' = size
  /\ UNCHANGED <<taken, steps, replied, writeVars, forward>>
Request ==
  \/ \E t \in routing : Dispatch(t.handler, t.chain)
  \/ \E t \in routing, method \in {"GET", "POST"} :
       (\A u \in routing : u.path = t.path => u.method # method) /\ Dispatch("405", setRouter("405"))
  \/ Dispatch("404", setRouter("404"))

\* Into the timeout's buffer, which is sent when the handler returns, or to the connection.
Through(written, n, code) ==
  IF Has("timeout")
  THEN /\ buffer' = [status |-> IF buffer.status = 0 /\ ~Informational(code) THEN code ELSE buffer.status, size |-> buffer.size + n]
       /\ UNCHANGED out
  ELSE out' = written /\ UNCHANGED buffer
GoesOn == UNCHANGED <<stage, running, handler, chain, body, late, cut, sentBefore, logged>>

\* http.MaxBytesHandler: reading ends at the cap.
Lower(a, b) == IF a < b THEN a ELSE b
ReadBody ==
  /\ Handling /\ taken = 0 /\ body > 0
  /\ taken' = IF Has("maxbody") THEN Lower(body, srv.maxBody) ELSE body
  /\ GoesOn /\ UNCHANGED <<steps, replied, out, buffer, forward>>

\* A step of a handler of the application's own.
HandlerWrites ==
  /\ Handling /\ steps < MaxSteps /\ Replies(handler) = {} /\ handler # "proxy"
  /\ \/ \E code \in Codes : Through(WriteHeader(out, code), 0, code)
     \/ Through(Write(out, 1), 1, 200)
     \/ Through(Flush(out), 0, 200)
     \/ Through(ReadFrom(out, 2), 2, 200)
  /\ steps' = steps + 1
  /\ GoesOn /\ UNCHANGED <<taken, replied, forward>>

\* A default handler, or one written with the helpers: the headers, then the data.
HandlerReplies == \E r \in Replies(handler) :
  /\ Handling /\ replied = 0
  /\ Through(Write(WriteHeader(out, r.code), 1), 1, r.code)
  /\ replied' = r.code
  /\ GoesOn /\ UNCHANGED <<taken, steps, forward>>

\* The default rewrite; the base path is the one the address had when the client was made.
Forward == \E addr \in Bases, param \in PathParams, lax, upstream, gone \in BOOLEAN :
  LET f == ForwardRequest(parseUpstreamURL(addr), param, lax, upstream, gone)
  IN  /\ Handling /\ handler = "proxy" /\ replied = 0
      /\ IF f.reply.code = ClientClosedRequest THEN UNCHANGED <<out, buffer>> ELSE Through(Write(WriteHeader(out, f.reply.code), 1), 1, f.reply.code)
      /\ replied' = f.reply.code /\ forward' = [path |-> f.path, base |-> parseUpstreamURL(addr), lax |-> lax]
      /\ GoesOn /\ UNCHANGED <<taken, steps>>

\* RequestInjectHandler after the handler: what the wrapper saw, 200 if nothing.
Entries(wrapped, w) == IF "logger" \in wrapped THEN <<[code |-> IF w.status = 0 THEN 200 ELSE w.status, size |-> w.size]>> ELSE <<>>

\* The response ends: its entry is logged, and net/http ends one that was not begun with 200.
Finishes(w) == stage' = "done" /\ logged' = logged \o Entries(chain', w) /\ out' = Sends(w, 200)

\* The handler returns: the buffer of the timeout is copied out, then the entry is logged.
RequestInjectHandler ==
  /\ Handling /\ running' = FALSE
  /\ chain' = chain
  /\ Finishes(IF Has("timeout") THEN Write(WriteHeader(out, IF buffer.status = 0 THEN 200 ELSE buffer.status), buffer.size) ELSE out)
  /\ UNCHANGED <<handler, body, taken, steps, replied, buffer, late, cut, sentBefore, forward>>

\* The timeout passes first: 503 is sent, and the handler goes on writing into a dead buffer.
TimesOut ==
  /\ Handling /\ Has("timeout") /\ late' = TRUE
  /\ chain' = chain
  /\ Finishes(Write(WriteHeader(out, 503), 1))
  /\ UNCHANGED <<running, handler, body, taken, steps, replied, buffer, cut, sentBefore, forward>>
LateWrite ==
  /\ late /\ running /\ running' = FALSE
  /\ buffer' = [buffer EXCEPT !.size = @ + 1]
  /\ UNCHANGED <<stage, handler, chain, body, taken, steps, replied, out, late, cut, sentBefore, logged, forward>>

\* The panic passes the logger by; the buffer is dropped, and the panic handler runs with a
\* chain and a response writer of its own on the connection, unless the connection is to be cut.
newPanicHandler ==
  /\ Handling /\ running' = FALSE
  /\ \/ stage' = "aborted" /\ UNCHANGED <<chain, out, logged, cut, sentBefore>>
     \/ /\ cut' = TRUE /\ sentBefore' = out.sent /\ chain' = setRouter("500")
        /\ Finishes(Write(WriteHeader(NewResponseWriterWrapper(out.sent, out.bytes), 500), 1))
  /\ UNCHANGED <<handler, body, taken, steps, replied, buffer, late, forward>>

Loads == newDefaultRoutes \/ loadRoutes \/ bindRoute \/ bindIndexRoute
Serves ==
  \/ Request \/ ReadBody \/ HandlerWrites \/ HandlerReplies \/ Forward
  \/ RequestInjectHandler \/ TimesOut \/ LateWrite \/ newPanicHandler

PathNext ==
  \/ Loads /\ UNCHANGED <<srv, stage, running, handler, chain, body, taken, steps, replied, writeVars, forward>>
  \/ Serves /\ UNCHANGED <<srv, routeVars>>

PathSpec == PathInit /\ [][PathNext]_pathVars

-----------------------------------------------------------------------------
(* Properties *)

\* The router serves only what was bound without an error, each method and path by one handler,
\* and caps the body of every request if any.  The entry of a request, one if its route is logged,
\* has the status and the size that went out, timeout or not, and a panic is answered 500 (unless
\* the headers were already sent); a late handler changes nothing; a tee saw every byte; what
\* a helper replies with is what goes out; and no handler reads past the cap.
LogsTellWhatWasSent ==
  /\ phase = "serving" \/ stage # "idle" => loadErr = "none"
  /\ \A t, u \in routing : t.method = u.method /\ t.path = u.path => t = u
  /\ stage = "done" => logged = Entries(chain, [status |-> out.sent, size |-> out.bytes]) \/ sentBefore # 0
  /\ Len(logged) = IF stage = "done" /\ Has("logger") THEN 1 ELSE 0
  /\ cut /\ sentBefore = 0 => out.sent = 500
  /\ late => out.sent = 503 /\ out.bytes = 1
  /\ srv.tee /\ ~cut => out.tee = out.bytes
  /\ stage = "done" /\ ~late /\ ~cut /\ replied \notin {0, ClientClosedRequest} => out.sent = replied
  /\ srv.maxBody > 0 => taken <= srv.maxBody
  /\ \A c \in Codes : StatusString(StatusUnmarshalJSON(StatusString(c))) = StatusString(c)

\* What the proxy asks its upstream for resolves to a path under the base, unless the client is lax.
ForwardsStayInside ==
  forward.path \notin {<<>>, <<"none">>} /\ ~forward.lax => IsPrefix(Resolved(forward.base), Resolved(forward.path))

=============================================================================
