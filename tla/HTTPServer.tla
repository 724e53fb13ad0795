------------------------------ MODULE HTTPServer ------------------------------
(***************************************************************************)
(* The life of the servers of pkg/httpserver: bound by New, started once,  *)
(* and shut down by whoever comes first: the monitor goroutine (shutdown   *)
(* signal or cancelled context), the serving goroutine (Serve failed) or a *)
(* direct call.  The signal channel, the context and the wait group are    *)
(* shared with the rest of the service (module ServiceLifecycle).          *)
(*                                                                         *)
(* net/http is modelled from how the package uses it: Shutdown stops       *)
(* accepting, closes the listeners Serve registered, and waits until no    *)
(* request is left or its context ends.                                    *)
(***************************************************************************)
EXTENDS Integers

CONSTANTS
  Servers,
  Callers,     \* goroutines that call Shutdown directly
  MaxRequests  \* bound on the requests in progress

CallersAssumption == Callers \intersect {"monitor", "serve"} = {}

RequestsAssumption == MaxRequests \in Nat

VARIABLES
  listener,      \* "none" before New, then "open" and finally "closed"
  started,       \* h.started
  stopped,       \* h.stopped
  once,          \* h.shutdownOnce: "new", "busy" or "done"
  shutdownDone,  \* h.shutdownDone is closed
  serveErr,      \* h.serveErr holds a failure
  inShutdown,    \* http.Server.Shutdown has begun
  requests,      \* requests in progress
  proc,          \* where each goroutine of each server is
  wg,            \* the shared wait group
  signal,        \* the shutdown signal channel is closed
  ctxDone        \* the application context ended

serverVars == <<listener, started, stopped, once, shutdownDone, serveErr, inShutdown,
                requests, proc>>
sharedVars == <<wg, signal, ctxDone>>
vars == <<serverVars, sharedVars>>

Procs == {"monitor", "serve"} \union Callers

Step(h, p, to) == proc' = [proc EXCEPT ![h][p] = to]

-----------------------------------------------------------------------------

\* New binds the listener.
New(h) ==
  /\ listener[h] = "none"
  /\ listener' = [listener EXCEPT ![h] = "open"]
  /\ UNCHANGED <<started, stopped, once, shutdownDone, serveErr, inShutdown, requests,
                 proc, sharedVars>>

startable(h) == ~started[h] /\ ~stopped[h]

\* StartServerCtx; a start that is not allowed does nothing.
StartServerCtx(h) ==
  /\ listener[h] # "none"
  /\ startable(h)
  /\ started' = [started EXCEPT ![h] = TRUE]
  /\ wg' = wg + 1
  /\ proc' = [proc EXCEPT ![h]["monitor"] = "select", ![h]["serve"] = "listen"]
  /\ UNCHANGED <<listener, stopped, once, shutdownDone, serveErr, inShutdown, requests,
                 signal, ctxDone>>

\* The monitor goroutine hears of a shutdown ...
monitorFires(h) ==
  /\ proc[h]["monitor"] = "select"
  /\ signal \/ ctxDone
  /\ Step(h, "monitor", "shutdown")
  /\ UNCHANGED <<listener, started, stopped, once, shutdownDone, serveErr, inShutdown,
                 requests, sharedVars>>

\* ... or of a Shutdown that somebody else called.
monitorReleased(h) ==
  /\ proc[h]["monitor"] = "select"
  /\ shutdownDone[h]
  /\ Step(h, "monitor", "done")
  /\ UNCHANGED <<listener, started, stopped, once, shutdownDone, serveErr, inShutdown,
                 requests, sharedVars>>

-----------------------------------------------------------------------------
(* Shutdown *)

\* Where a goroutine is once Shutdown returns: those of the server end.
After(p) == IF p \in Callers THEN "none" ELSE "done"

callShutdown(h, c) ==
  /\ listener[h] # "none"
  /\ proc[h][c] = "none"
  /\ Step(h, c, "shutdown")
  /\ UNCHANGED <<listener, started, stopped, once, shutdownDone, serveErr, inShutdown,
                 requests, sharedVars>>

\* http.Server.Shutdown begins: only a listener that Serve registered is closed.
beginShutdown(h, p) ==
  /\ proc[h][p] = "shutdown"
  /\ inShutdown' = [inShutdown EXCEPT ![h] = TRUE]
  /\ listener' = IF proc[h]["serve"] = "serving"
                 THEN [listener EXCEPT ![h] = "closed"] ELSE listener
  /\ Step(h, p, "drain")
  /\ UNCHANGED <<started, stopped, once, shutdownDone, serveErr, requests, sharedVars>>

\* It returns when no request is left, or with an error when its context ends first.
drained(h, p) ==
  /\ proc[h][p] = "drain"
  /\ requests[h] = 0
  /\ Step(h, p, "once")
  /\ UNCHANGED <<listener, started, stopped, once, shutdownDone, serveErr, inShutdown,
                 requests, sharedVars>>

drainTimesOut(h, p) ==
  /\ proc[h][p] = "drain"
  /\ requests[h] > 0
  /\ Step(h, p, "once")
  /\ UNCHANGED <<listener, started, stopped, once, shutdownDone, serveErr, inShutdown,
                 requests, sharedVars>>

\* Mutant: the monitor goroutine is not told.
notifyMonitor_Missing(h) == UNCHANGED shutdownDone

\* close(h.shutdownDone)
notifyMonitor(h) == shutdownDone' = [shutdownDone EXCEPT ![h] = TRUE]

\* Mutant: a flag that the body sets stands in for the sync.Once.
firstCaller_Flag(h) == ~stopped[h]

firstCaller(h) == once[h] = "new"

enterOnce(h, p) ==
  /\ proc[h][p] = "once"
  /\ firstCaller(h)
  /\ once' = [once EXCEPT ![h] = "busy"]
  /\ notifyMonitor(h)
  /\ Step(h, p, "stop")
  /\ UNCHANGED <<listener, started, stopped, serveErr, inShutdown, requests, sharedVars>>

\* A server that never started releases its listener itself.
releaseListener(h) == listener' = [listener EXCEPT ![h] = "closed"]

\* The rest of the body of shutdownOnce, under the mutex.
stop(h, p) ==
  /\ proc[h][p] = "stop"
  /\ stopped' = [stopped EXCEPT ![h] = TRUE]
  /\ IF started[h]
     THEN wg' = wg - 1 /\ UNCHANGED listener
     ELSE releaseListener(h) /\ UNCHANGED wg
  /\ once' = [once EXCEPT ![h] = "done"]
  /\ Step(h, p, After(p))
  /\ UNCHANGED <<started, shutdownDone, serveErr, inShutdown, requests, signal, ctxDone>>

\* A later caller waits for the first to finish.
joinOnce(h, p) ==
  /\ proc[h][p] = "once"
  /\ once[h] = "done"
  /\ Step(h, p, After(p))
  /\ UNCHANGED <<listener, started, stopped, once, shutdownDone, serveErr, inShutdown,
                 requests, sharedVars>>

-----------------------------------------------------------------------------
(* serve *)

\* Serve registers the listener, or closes it when a Shutdown came first.
serveListens(h) ==
  /\ proc[h]["serve"] = "listen"
  /\ ~inShutdown[h]
  /\ Step(h, "serve", "serving")
  /\ UNCHANGED <<listener, started, stopped, once, shutdownDone, serveErr, inShutdown,
                 requests, sharedVars>>

serveClosed(h) ==
  /\ proc[h]["serve"] \in {"listen", "serving"}
  /\ inShutdown[h]
  /\ listener' = [listener EXCEPT ![h] = "closed"]
  /\ Step(h, "serve", "done")
  /\ UNCHANGED <<started, stopped, once, shutdownDone, serveErr, inShutdown, requests,
                 sharedVars>>

\* Serve fails by itself, and the serving goroutine goes on to Shutdown.
serveFails(h) ==
  /\ proc[h]["serve"] = "serving"
  /\ ~inShutdown[h]
  /\ listener' = [listener EXCEPT ![h] = "closed"]
  /\ serveErr' = [serveErr EXCEPT ![h] = TRUE]
  /\ Step(h, "serve", "shutdown")
  /\ UNCHANGED <<started, stopped, once, shutdownDone, inShutdown, requests, sharedVars>>

request(h) ==
  /\ proc[h]["serve"] = "serving"
  /\ ~inShutdown[h]
  /\ requests[h] < MaxRequests
  /\ requests' = [requests EXCEPT ![h] = @ + 1]
  /\ UNCHANGED <<listener, started, stopped, once, shutdownDone, serveErr, inShutdown,
                 proc, sharedVars>>

requestDone(h) ==
  /\ requests[h] > 0
  /\ requests' = [requests EXCEPT ![h] = @ - 1]
  /\ UNCHANGED <<listener, started, stopped, once, shutdownDone, serveErr, inShutdown,
                 proc, sharedVars>>

-----------------------------------------------------------------------------
(* The specification *)

ServerInit ==
  /\ listener = [h \in Servers |-> "none"]
  /\ started = [h \in Servers |-> FALSE]
  /\ stopped = [h \in Servers |-> FALSE]
  /\ once = [h \in Servers |-> "new"]
  /\ shutdownDone = [h \in Servers |-> FALSE]
  /\ serveErr = [h \in Servers |-> FALSE]
  /\ inShutdown = [h \in Servers |-> FALSE]
  /\ requests = [h \in Servers |-> 0]
  /\ proc = [h \in Servers |-> [p \in Procs |-> "none"]]

Init == ServerInit /\ wg = 0 /\ signal = FALSE /\ ctxDone = FALSE

ShutdownStep(h, p) ==
  beginShutdown(h, p) \/ drained(h, p) \/ drainTimesOut(h, p) \/ enterOnce(h, p)
    \/ stop(h, p) \/ joinOnce(h, p)

MonitorStep(h) == monitorFires(h) \/ monitorReleased(h)

ServeStep(h) == serveListens(h) \/ serveClosed(h)

ServerStep(h) ==
  \/ \E p \in Procs : ShutdownStep(h, p)
  \/ MonitorStep(h) \/ ServeStep(h)
  \/ serveFails(h) \/ request(h) \/ requestDone(h)

\* The rest of the service, as far as a server can tell.
closeSignal == ~signal /\ signal' = TRUE /\ UNCHANGED <<serverVars, wg, ctxDone>>

cancel == ~ctxDone /\ ctxDone' = TRUE /\ UNCHANGED <<serverVars, wg, signal>>

\* Every goroutine has returned.
Terminated == (\A h \in Servers, p \in Procs : proc[h][p] \in {"none", "done"}) /\ UNCHANGED vars

Next ==
  \/ \E h \in Servers : \/ New(h) \/ StartServerCtx(h) \/ ServerStep(h)
                        \/ \E c \in Callers : callShutdown(h, c)
  \/ closeSignal
  \/ cancel
  \/ Terminated

Spec == Init /\ [][Next]_vars

\* Every goroutine that can move eventually does.  Nothing makes a request end: it
\* is the deadline of the shutdown context that frees the drain.
ServerFairness ==
  \A h \in Servers :
    /\ WF_vars(MonitorStep(h))
    /\ WF_vars(ServeStep(h))
    /\ \A p \in Procs : WF_vars(ShutdownStep(h, p))

FairSpec == Spec /\ ServerFairness

-----------------------------------------------------------------------------
(* Properties *)

\* The fields of each server and the positions of its goroutines are well formed, and the
\* body of shutdownOnce is run by one goroutine at a time.
TypeOK ==
  /\ listener \in [Servers -> {"none", "open", "closed"}]
  /\ started \in [Servers -> BOOLEAN]
  /\ stopped \in [Servers -> BOOLEAN]
  /\ once \in [Servers -> {"new", "busy", "done"}]
  /\ shutdownDone \in [Servers -> BOOLEAN]
  /\ serveErr \in [Servers -> BOOLEAN]
  /\ inShutdown \in [Servers -> BOOLEAN]
  /\ requests \in [Servers -> 0..MaxRequests]
  /\ proc \in [Servers -> [Procs -> {"none", "select", "listen", "serving", "shutdown",
                                     "drain", "once", "stop", "done"}]]
  /\ \A h \in Servers : \A p, q \in Procs :
       (proc[h][p] = "stop" /\ proc[h][q] = "stop") => p = q /\ once[h] = "busy"
  /\ wg \in Int
  /\ signal \in BOOLEAN
  /\ ctxDone \in BOOLEAN

Running == {h \in Servers : started[h] /\ once[h] # "done"}

\* A server that failed, or was shut down by anyone, ends completely: it leaves the wait
\* group, gives its address back, whether it served, never started, or was started while
\* it was being shut down, and its monitor goroutine returns.
ShutdownIsComplete ==
  \A h \in Servers :
    (serveErr[h] \/ once[h] = "done") ~>
      (once[h] = "done" /\ listener[h] = "closed" /\ (started[h] => proc[h]["monitor"] = "done"))

=============================================================================
