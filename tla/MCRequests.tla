----------------------------- MODULE MCRequests -----------------------------
(***************************************************************************)
(* TLC instance of the packages a request goes through on its way in and   *)
(* out: the server's routes and logs, sessions, HTTP clients and the       *)
(* services they call, queues, subscriptions, databases and the state      *)
(* goroutines share.  A behaviour is one of them, chosen at the start.     *)
(***************************************************************************)
EXTENDS JWT, SharedState, PubSub, Queues, Database, HTTPClient, RequestPath

VARIABLES
  subject,  \* the package whose behaviour this is
  st        \* its state, unless the package has variables of its own

-----------------------------------------------------------------------------
(* Sessions: a key that is rotated in, then one that replaces it and its algorithm; New refuses *)
(* the last deployment, whose previous key is too short for its algorithm                       *)

SessionConfig(key, prev, alg, e, r, m, l, iss, aud) ==
  [key |-> key, previousKeys |-> prev, keyLen |-> [k1 |-> 32, k2 |-> 64], verifyFn |-> TRUE, alg |-> alg,
   expirationTime |-> e, renewTime |-> r, maxSessionLifetime |-> m, clockSkewLeeway |-> l, issuer |-> iss, audience |-> aud,
   maxBodyBytes |-> 10, maxTokenBytes |-> 10]
SessionUsers == {<<"u", 5>>, <<"v", 11>>}
SessionConfigs == <<
  SessionConfig("k1", <<>>, "HS256", 3, 2, 5, 1, "i", {"a"}),
  SessionConfig("k2", <<"k1">>, "HS256", 2, 2, 5, 0, "", {}),
  SessionConfig("k2", <<>>, "HS384", 3, 1, 0, 1, "i", {"b"}),
  SessionConfig("k2", <<"k1">>, "HS512", 3, 1, 0, 1, "i", {"b"})>>

-----------------------------------------------------------------------------
(* Calls to other services *)

SomeHTTPClients == [timeout : BOOLEAN, debug : BOOLEAN, maxDumpSize : {0, 1, 2}]

RangeLines == [suffix : {<<"A", "A">>, <<"A", "0">>}, count : {<<"0">>, <<"1", "2">>}]
RangeForms == {[form |-> f, cut |-> 0] : f \in {"upper", "lower", "html"}} \union {[form |-> "upper", cut |-> c] : c \in {2, 3, 5}}
ManyTimes == <<[suffix |-> <<"A", "0">>, count |-> <<"1", "2", "0">>]>>  \* a count no int of the model holds
SomeRanges == {[lines |-> l, form |-> f.form, cut |-> f.cut] : l \in SeqOf(RangeLines, 2) \union {ManyTimes}, f \in RangeForms}

Services == INSTANCE RestClients WITH
  Attempts <- {0, 1, 3}, Statuses <- {200, 404, 429, 500, 503}, SuffixLen <- 2, Suffix <- <<"A", "0">>, Limits <- {6, 11}, MaxInt <- 99,
  Ranges <- SomeRanges

-----------------------------------------------------------------------------
(* Queues and subscriptions *)

QueueClient(kind, group, start, fetch, dedup) ==
  [kind |-> kind, group |-> group, startOffset |-> start, fetch |-> fetch, dedup |-> dedup]
QueueClients ==
  {QueueClient("kafka", g, "last", f, FALSE) : g, f \in BOOLEAN} \union {QueueClient("kafka", TRUE, "first", TRUE, FALSE)}
    \union {QueueClient("sqs", FALSE, "first", FALSE, d) : d \in BOOLEAN} \union {QueueClient("s3", FALSE, "first", FALSE, FALSE)}
QueueMessages == <<1, 2>>
SomeExpiries == -1..9

-----------------------------------------------------------------------------
(* The server's routes *)

BareServer == [maxBody |-> 0, disableRouteLogger |-> FALSE, requestTimeout |-> 0, middleware |-> <<>>, tee |-> FALSE,
               defaults |-> <<>>, index |-> "index", disabled |-> {}]
SomeServers ==
  [maxBody : {0, 1}, disableRouteLogger : {FALSE}, requestTimeout : {0, 1}, middleware : {<<"user", "nil">>}, tee : BOOLEAN,
   defaults : {<<"ping", "index", "ping", "ip", "metrics", "pprof">>}, index : {"index"}, disabled : {{"ping", "405"}}]
  \union {BareServer, [BareServer EXCEPT !.defaults = <<"status", "index">>, !.index = "nil"]}
NoTimeout == -1
RouteOf(m, p, h, t, mw) == [method |-> m, path |-> p, handler |-> h, noLogger |-> FALSE, timeout |-> t, middleware |-> mw]
SomeRoutes == {
  <<RouteOf("GET", "/a", "app", 0, <<>>), RouteOf("POST", "/a", "jsendx", NoTimeout, <<>>), RouteOf("GET", "/p", "proxy", 0, <<>>)>>,
  <<RouteOf("GET", "/", "app", 0, <<>>)>>, <<RouteOf("get", "/a", "app", 0, <<>>)>>, <<RouteOf("GET", "/ping", "app", 0, <<>>)>>,
  <<RouteOf("GET", "/a", "app", 0, <<"nil">>)>>, <<RouteOf("GET", "/*", "app", 0, <<>>)>>}
ProxyPaths == {
  <<".", ".", "/", "v", "v">>, <<".", ".">>, <<"v", "/", ".", "/", ".", ".">>, <<".", ".", "/", "v", "/", "v">>, <<>>,
  <<"v", "/", ".", ".", "/", ".", ".">>, <<".", "/", "v">>, <<"/", ".", ".", "/", "/", "v", "v">>}
SomeBases == {<<>>, <<"/">>, <<"/", "v">>, <<"/", "v", "/">>, <<"/", ".">>}

-----------------------------------------------------------------------------
(* Loggers: values that write nothing, that resolve to others, and that stand for a trace ID *)

Val(kind, members) == [kind |-> kind, members |-> members]
Leaf(kind) == Val(kind, <<>>)
At(key, value) == [key |-> key, value |-> value]
Zero == At("", Leaf("null"))
GroupOf(key, attrs) == At(key, Val("group", attrs))
Valuer(key, value) == At(key, Val("valuer", <<At("", value)>>))
Location == Val("source", <<At("file", Leaf("scalar"))>>)

LogAttrs == {
  <<At("trace_id", Leaf("scalar"))>>, <<At("trace_id", Leaf("nil error")), At("k", Leaf("error"))>>,
  <<GroupOf("", <<At("trace_id", Leaf("panics")), Zero>>)>>, <<GroupOf("g", <<At("z", Leaf("source"))>>), At("k", Leaf("scalar"))>>,
  <<Valuer("", Val("group", <<Valuer("trace_id", Leaf("null"))>>))>>, <<At("k", Leaf("far time")), Valuer("g", Val("group", <<>>))>>,
  <<GroupOf("trace_id", <<Zero, GroupOf("in", <<Zero>>)>>)>>, <<>>, <<Zero, At("", Location)>>,
  <<GroupOf("k", <<GroupOf("in", <<Zero>>), At("n", Location)>>), Valuer("trace_id", Leaf("nil error"))>>}

LogConfig(common, trace, hook, none, level) == [common |-> common, traceID |-> trace, hook |-> hook, none |-> none, level |-> level]
CommonAttrs == {<<>>, <<Zero, GroupOf("", <<Valuer("trace_id", Leaf("scalar"))>>)>>, <<GroupOf("trace_id", <<Zero>>), At("k", Leaf("far time"))>>}
LogConfigs == {LogConfig(c, TRUE, FALSE, FALSE, "info") : c \in CommonAttrs}
  \union {LogConfig(<<>>, FALSE, TRUE, FALSE, "warning"), LogConfig(<<>>, TRUE, TRUE, TRUE, "trace"), LogConfig(<<>>, TRUE, FALSE, TRUE, "info")}

Loggers == INSTANCE Logging WITH
  Configs <- LogConfigs, AttrLists <- LogAttrs, Groups <- {"", "g", "trace_id"}, MaxOps <- 2, MaxCalls <- 2,
  Records <- {[level |-> 1 + Len(a), time |-> IF Len(a) = 1 THEN "now" ELSE IF a = <<>> THEN "zero" ELSE "far", attrs |-> a] : a \in LogAttrs}

-----------------------------------------------------------------------------
(* Databases and shared state *)

Row(id, name) == [id |-> id, name |-> name]

SomeTables == {<< <<Row(1, 1), Row(2, 2)>>, <<Row(1, 1)>> >>, << <<Row(1, 1), Row(2, 1), Row(1, 2)>> >>, <<>>}

SomeSlices == {<<>>, <<3, 4>>}
SomeMaps == {nilMap, [x \in {1} |-> 2]}

-----------------------------------------------------------------------------

InitOf(name, init) == subject = name /\ init

\* A package with variables of its own leaves st alone.
Apart(names) == subject \in names /\ st = Nil

ReqInit ==
  /\ Init
  /\ \/ Apart({"jwt", "httpclient", "queues", "pubsub", "database", "httpserver", "threadsafe"})
     \/ InitOf("services", Services!Init)
     \/ InitOf("logging", Loggers!Init)
  /\ IF subject = "threadsafe" THEN SharedInit ELSE Untouched /\ NoValue /\ shared = "none"
  /\ IF subject = "queues" THEN QueueInit ELSE QueueIdle(QueueClient("s3", FALSE, "first", FALSE, FALSE))
  /\ IF subject = "pubsub" THEN SubInit ELSE Start("redis", FALSE)
  /\ IF subject = "httpclient" THEN ExInit ELSE ExIdle([timeout |-> FALSE, debug |-> FALSE, maxDumpSize |-> 0])
  /\ IF subject = "httpserver" THEN PathInit ELSE PathIdle(BareServer)
  /\ IF subject = "database" THEN DbInit ELSE DbIdle("tx", <<>>)

reqVars == <<subject, st, session, sharedVars, queueVars, subVars, exVars, dbVars, pathVars>>

Stepping(name, step) ==
  subject = name /\ step /\ UNCHANGED <<subject, session, sharedVars, queueVars, subVars, exVars, dbVars, pathVars>>

ReqNext ==
  \/ Stepping("services", Services!Next)
  \/ Stepping("logging", Loggers!Next)
  \/ subject = "jwt" /\ Next /\ UNCHANGED <<subject, st, sharedVars, queueVars, subVars, exVars, dbVars, pathVars>>
  \/ subject = "threadsafe" /\ SharedNext /\ UNCHANGED <<subject, st, session, queueVars, subVars, exVars, dbVars, pathVars>>
  \/ subject = "queues" /\ QueueNext /\ UNCHANGED <<subject, st, session, sharedVars, subVars, exVars, dbVars, pathVars>>
  \/ subject = "pubsub" /\ SubNext /\ UNCHANGED <<subject, st, session, sharedVars, queueVars, exVars, dbVars, pathVars>>
  \/ subject = "httpclient" /\ ExNext /\ UNCHANGED <<subject, st, session, sharedVars, queueVars, subVars, dbVars, pathVars>>
  \/ subject = "database" /\ DbNext /\ UNCHANGED <<subject, st, session, sharedVars, queueVars, subVars, exVars, pathVars>>
  \/ subject = "httpserver" /\ PathNext /\ UNCHANGED <<subject, st, session, sharedVars, queueVars, subVars, exVars, dbVars>>

ReqSpec == ReqInit /\ [][ReqNext]_reqVars

-----------------------------------------------------------------------------
(* Properties, besides SessionsHold of JWT, SharedStateHolds of SharedState, DeliveryIsAsPromised   *)
(* of Queues, SubscriptionsHold of PubSub, ExchangeIsFaithful of HTTPClient, LogsTellWhatWasSent of *)
(* RequestPath and DatabaseIsLeftClean of Database: see the module each comes from                  *)

\* What is made for others is taken as it was meant.  A call of a service leaves no body open, repeats
\* an answered write only where the answer says it was not taken, reports no secret, and gives for a
\* password the count of a whole range and no larger one of a range that ends early (RestClients); a
\* database server reads back the names and values a clause was quoted from (Database); a forwarded path
\* stays under its base (RequestPath); both backends of a logger write what it was given, under one
\* trace ID, and report a failed write (Logging).
CallsHold ==
  /\ subject = "services" => Services!CallsReturnCleanly /\ Services!PwnedAnswersAreSupported
  /\ subject = "database" => ClausesReadBack
  /\ subject = "httpserver" => ForwardsStayInside
  /\ subject = "logging" => Loggers!LogsAreTrue

=============================================================================
