--------------------------- MODULE ServiceLifecycle ---------------------------
(***************************************************************************)
(* A service built with pkg/bootstrap: Bootstrap runs bindFn, which opens  *)
(* the connection pools (SQLConn) and starts the servers (HTTPServer),     *)
(* waits for a signal or the end of its context, tells every dependant to  *)
(* stop through the shutdown channel and the context, and waits for their  *)
(* wait group, but no longer than its timeout.                             *)
(*                                                                         *)
(* The three parts share the channel, the context and the wait group, as   *)
(* the example service wires them (examples/service/internal/cli).         *)
(***************************************************************************)
EXTENDS Integers, FiniteSets

CONSTANTS
  Servers, MaxRequests, Pools,
  Users  \* goroutines of the application, each in one call of a server or a pool at a time

VARIABLES
  listener, started, stopped, once, shutdownDone, serveErr, inShutdown, requests, proc,
  db, open, tied, done, at,
  wg, signal, ctxDone,
  boot,       \* where Bootstrap is
  quit,       \* the quit channel holds a signal
  completed,  \* syncWaitGroupTimeout returned true
  failed      \* bindFn returned an error

serverVars == <<listener, started, stopped, once, shutdownDone, serveErr, inShutdown,
                requests, proc>>
poolVars == <<db, open, tied, done, at>>
sharedVars == <<wg, signal, ctxDone>>
bootVars == <<boot, quit, completed, failed>>
vars == <<serverVars, poolVars, sharedVars, bootVars>>

H == INSTANCE HTTPServer WITH Callers <- Users
S == INSTANCE SQLConn

ASSUME FiniteAssumption == IsFiniteSet(Servers) /\ IsFiniteSet(Pools)

ASSUME UsersAssumption == H!CallersAssumption /\ S!UsersAssumption

ASSUME RequestsAssumption == H!RequestsAssumption

-----------------------------------------------------------------------------
(* bindFn *)

bindServer(h) ==
  /\ boot = "bind"
  /\ H!New(h) \/ H!StartServerCtx(h)
  /\ UNCHANGED <<poolVars, bootVars>>

bindPool(c) ==
  /\ boot = "bind"
  /\ S!connect(c)
  /\ UNCHANGED <<serverVars, bootVars>>

\* A pool that cannot connect fails the binding, as may anything else.
bindPoolFails(c) ==
  /\ boot = "bind"
  /\ S!connectFails(c)
  /\ boot' = "metrics"
  /\ failed' = TRUE
  /\ UNCHANGED <<serverVars, quit, completed>>

bindFails ==
  /\ boot = "bind"
  /\ boot' = "metrics"
  /\ failed' = TRUE
  /\ UNCHANGED <<serverVars, poolVars, sharedVars, quit, completed>>

bindReturns ==
  /\ boot = "bind"
  /\ \A h \in Servers : started[h] \/ stopped[h]
  /\ \A c \in Pools : db[c] # "unset"
  /\ boot' = "wait"
  /\ UNCHANGED <<serverVars, poolVars, sharedVars, quit, completed, failed>>

-----------------------------------------------------------------------------
(* Bootstrap *)

\* Mutant: the context is not watched.
heard_SignalOnly == quit

heard == quit \/ ctxDone

\* The signal is taken; one that the end of the context made superfluous is never read.
waitForShutdown ==
  /\ boot = "wait"
  /\ heard
  /\ quit' = FALSE
  /\ boot' = "broadcast"
  /\ UNCHANGED <<serverVars, poolVars, sharedVars, completed, failed>>

\* Mutant: dependants are told through the context alone.
broadcast_ContextOnly == UNCHANGED signal

\* close(cfg.shutdownSignalChan)
broadcast == signal' = TRUE

closeSignal ==
  /\ boot = "broadcast"
  /\ broadcast
  /\ boot' = "cancel"
  /\ UNCHANGED <<serverVars, poolVars, wg, ctxDone, quit, completed, failed>>

cancel ==
  /\ boot = "cancel"
  /\ ctxDone' = TRUE
  /\ boot' = "sync"
  /\ UNCHANGED <<serverVars, poolVars, wg, signal, quit, completed, failed>>

\* Mutant: the wait group is not waited for.
waited_Assumed == TRUE

\* wg.Wait() returned
waited == wg = 0

syncWaitGroup ==
  /\ boot = "sync"
  /\ waited
  /\ completed' = TRUE
  /\ boot' = "metrics"
  /\ UNCHANGED <<serverVars, poolVars, sharedVars, quit, failed>>

syncTimesOut ==
  /\ boot = "sync"
  /\ boot' = "metrics"
  /\ UNCHANGED <<serverVars, poolVars, sharedVars, quit, completed, failed>>

\* closeMetricsClient, and the deferred cancel.
closeMetricsClient ==
  /\ boot = "metrics"
  /\ ctxDone' = TRUE
  /\ boot' = "returned"
  /\ UNCHANGED <<serverVars, poolVars, wg, signal, quit, completed, failed>>

-----------------------------------------------------------------------------
(* The application *)

Idle(u) == (\A h \in Servers : proc[h][u] = "none") /\ (\A c \in Pools : at[c][u] = "idle")

shutdownServer(h, u) ==
  /\ Idle(u)
  /\ H!callShutdown(h, u)
  /\ UNCHANGED <<poolVars, bootVars>>

usePool(c, u) ==
  /\ Idle(u)
  /\ S!UserCall(c, u)
  /\ UNCHANGED <<serverVars, bootVars>>

-----------------------------------------------------------------------------
(* The environment, and the specification *)

\* SIGINT or SIGTERM, from the moment Bootstrap asks for them; quit keeps one, and only
\* a Bootstrap that waits reads it.
osSignal ==
  /\ ~quit
  /\ boot \in {"bind", "wait"}
  /\ quit' = TRUE
  /\ UNCHANGED <<serverVars, poolVars, sharedVars, boot, completed, failed>>

\* The caller's context ends.
parentCancelled ==
  /\ ~ctxDone
  /\ ctxDone' = TRUE
  /\ UNCHANGED <<serverVars, poolVars, wg, signal, bootVars>>

Terminated == boot = "returned" /\ UNCHANGED vars

Init ==
  /\ H!ServerInit
  /\ S!PoolInit
  /\ wg = 0
  /\ signal = FALSE
  /\ ctxDone = FALSE
  /\ boot = "bind"
  /\ quit = FALSE
  /\ completed = FALSE
  /\ failed = FALSE

Bind ==
  \/ \E h \in Servers : bindServer(h)
  \/ \E c \in Pools : bindPool(c) \/ bindPoolFails(c)
  \/ bindFails
  \/ bindReturns

BootStep == waitForShutdown \/ closeSignal \/ cancel \/ syncTimesOut \/ closeMetricsClient

Next ==
  \/ Bind
  \/ BootStep
  \/ syncWaitGroup
  \/ \E h \in Servers : H!ServerStep(h) /\ UNCHANGED <<poolVars, bootVars>>
  \/ \E c \in Pools : S!PoolStep(c) /\ UNCHANGED <<serverVars, bootVars>>
  \/ \E u \in Users : \/ \E h \in Servers : shutdownServer(h, u)
                      \/ \E c \in Pools : usePool(c, u)
  \/ osSignal
  \/ parentCancelled
  \/ Terminated

Spec == Init /\ [][Next]_vars

\* bindFn returns, the timeout of the wait is bounded, and every goroutine runs.
FairSpec ==
  /\ Spec
  /\ WF_vars(Bind)
  /\ WF_vars(BootStep)
  /\ H!ServerFairness
  /\ S!PoolFairness

-----------------------------------------------------------------------------
(* Properties *)

\* Every component variable has its component's type, and Bootstrap only closes the
\* channel of a service it bound.
TypeOK ==
  /\ H!TypeOK
  /\ S!TypeOK
  /\ boot \in {"bind", "wait", "broadcast", "cancel", "sync", "metrics", "returned"}
  /\ quit \in BOOLEAN
  /\ completed \in BOOLEAN
  /\ failed \in BOOLEAN
  /\ ~(failed /\ signal)

RunningPools == {c \in Pools : db[c] = "set"}
AllStopped == H!Running = {} /\ RunningPools = {}

\* One wait group for servers and pools, "decremented exactly once, and only when the server
\* was actually started" (httpserver.go) and never driven "negative" by a second Shutdown
\* (sqlconn.go): it counts those that are running, however starts, failures and shutdowns
\* race, and so Bootstrap never waits for one that is gone.
WaitGroupBalanced == wg = Cardinality(H!Running) + Cardinality(RunningPools)

\* A Bootstrap that reports no timeout closed the metrics client, and returns, with every
\* dependant stopped, for good.
GracefulMeansStopped == completed => AllStopped

\* A signal, also one that arrives while bindFn runs, or the end of the context makes
\* Bootstrap return, although a dependant may never stop.
BootstrapReturns == (quit \/ ctxDone) ~> (boot = "returned")

\* Once Bootstrap is over every dependant stops, even after a timeout and although health
\* checks keep coming.  After a failed binding this takes the context, which a pool only
\* hears if it was given one.
DependantsStop ==
  (boot = "returned") ~>
    (H!Running = {} /\ \A c \in RunningPools : failed /\ ~tied[c])

\* "the underlying handle cannot be closed by a concurrent Shutdown mid-check" (sqlconn.go),
\* whoever shuts the pool down.
CheckedHandleIsOpen == S!CheckedHandleIsOpen

\* A dependant that was shut down leaves nothing behind: the address, the monitor and the
\* watcher goroutines, and, if it failed by itself, its share of the wait group.
NothingIsLeftBehind == H!ShutdownIsComplete /\ S!WatcherExits

\* Dependants stop (DependantsStop), and completely (NothingIsLeftBehind).
DependantsEnd == DependantsStop /\ NothingIsLeftBehind

=============================================================================
