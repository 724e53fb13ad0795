------------------------------- MODULE SQLConn -------------------------------
(***************************************************************************)
(* The life of a connection pool of pkg/sqlconn: connect opens it, joins   *)
(* the wait group and starts a watcher goroutine; Shutdown, called by the  *)
(* watcher or directly, closes it once.  HealthCheck holds the read lock   *)
(* for its whole round trip.  The signal channel, the context and the wait *)
(* group are shared with the rest of the service (ServiceLifecycle).       *)
(*                                                                         *)
(* sync.RWMutex is modelled from its documented behaviour: a writer that   *)
(* waits keeps new readers out.  DB returns the handle without using it    *)
(* and is a read.                                                          *)
(***************************************************************************)
EXTENDS Integers

CONSTANTS
  Pools,
  Users  \* goroutines that call HealthCheck and Shutdown

UsersAssumption == "watcher" \notin Users

VARIABLES
  db,      \* c.db: "unset" before connect, then "set" or "failed", "nil" after Shutdown
  open,    \* the handle is open
  tied,    \* WithLifetimeContext ties the pool to the context
  done,    \* c.done is closed
  at,      \* where each goroutine of each pool is
  wg,      \* the shared wait group
  signal,  \* the shutdown signal channel is closed
  ctxDone  \* the application context ended

poolVars == <<db, open, tied, done, at>>
sharedVars == <<wg, signal, ctxDone>>
vars == <<poolVars, sharedVars>>

Procs == {"watcher"} \union Users

Step(c, p, to) == at' = [at EXCEPT ![c][p] = to]

-----------------------------------------------------------------------------

\* connect: the pool is checked before it is handed out ...
connect(c) ==
  /\ db[c] = "unset"
  /\ db' = [db EXCEPT ![c] = "set"]
  /\ open' = [open EXCEPT ![c] = TRUE]
  /\ \E option \in BOOLEAN : tied' = [tied EXCEPT ![c] = option]
  /\ wg' = wg + 1
  /\ Step(c, "watcher", "select")
  /\ UNCHANGED <<done, signal, ctxDone>>

\* ... and closed if the check fails: no watcher, and nothing joins the wait group.
connectFails(c) ==
  /\ db[c] = "unset"
  /\ db' = [db EXCEPT ![c] = "failed"]
  /\ UNCHANGED <<open, tied, done, at, sharedVars>>

watcherFires(c) ==
  /\ at[c]["watcher"] = "select"
  /\ \/ signal
     \/ tied[c] /\ ctxDone
     \/ done[c]
  /\ Step(c, "watcher", "lock")
  /\ UNCHANGED <<db, open, tied, done, sharedVars>>

-----------------------------------------------------------------------------
(* The read-write lock *)

Writing(c) == \E p \in Procs : at[c][p] = "close"
Reading(c) == \E p \in Procs : at[c][p] = "check"
WriterWaits(c) == \E p \in Procs : at[c][p] = "lock"

\* Mutant: HealthCheck gives the read lock back before the round trip.
canLock_NoReaders(c) == ~Writing(c)

canLock(c) == ~Writing(c) /\ ~Reading(c)

canRLock(c) == ~Writing(c) /\ ~WriterWaits(c)

-----------------------------------------------------------------------------
(* Shutdown *)

callShutdown(c, u) ==
  /\ db[c] \in {"set", "nil"}
  /\ at[c][u] = "idle"
  /\ Step(c, u, "lock")
  /\ UNCHANGED <<db, open, tied, done, sharedVars>>

\* Where a goroutine is once its call returns: the watcher is gone.
After(p) == IF p = "watcher" THEN "gone" ELSE "idle"

\* Mutant: a second Shutdown runs the whole body again.
alreadyDown_Never(c) == FALSE

alreadyDown(c) == db[c] = "nil"

shutdownAgain(c, p) ==
  /\ at[c][p] = "lock"
  /\ canLock(c)
  /\ alreadyDown(c)
  /\ Step(c, p, After(p))
  /\ UNCHANGED <<db, open, tied, done, sharedVars>>

closeDB(c, p) ==
  /\ at[c][p] = "lock"
  /\ canLock(c)
  /\ ~alreadyDown(c)
  /\ open' = [open EXCEPT ![c] = FALSE]
  /\ Step(c, p, "close")
  /\ UNCHANGED <<db, tied, done, sharedVars>>

closed(c, p) ==
  /\ at[c][p] = "close"
  /\ db' = [db EXCEPT ![c] = "nil"]
  /\ done' = [done EXCEPT ![c] = TRUE]
  /\ wg' = wg - 1
  /\ Step(c, p, After(p))
  /\ UNCHANGED <<open, tied, signal, ctxDone>>

-----------------------------------------------------------------------------
(* HealthCheck *)

callHealthCheck(c, u) ==
  /\ db[c] \in {"set", "nil"}
  /\ at[c][u] = "idle"
  /\ Step(c, u, "rlock")
  /\ UNCHANGED <<db, open, tied, done, sharedVars>>

\* ErrUnavailable without touching the handle, or the round trip.
healthCheck(c, u) ==
  /\ at[c][u] = "rlock"
  /\ canRLock(c)
  /\ Step(c, u, IF db[c] = "nil" THEN "idle" ELSE "check")
  /\ UNCHANGED <<db, open, tied, done, sharedVars>>

\* The round trip ends, at the latest when its timeout does.
checked(c, u) ==
  /\ at[c][u] = "check"
  /\ Step(c, u, "idle")
  /\ UNCHANGED <<db, open, tied, done, sharedVars>>

-----------------------------------------------------------------------------
(* The specification *)

PoolInit ==
  /\ db = [c \in Pools |-> "unset"]
  /\ open = [c \in Pools |-> FALSE]
  /\ tied = [c \in Pools |-> FALSE]
  /\ done = [c \in Pools |-> FALSE]
  /\ at = [c \in Pools |-> [p \in Procs |-> IF p = "watcher" THEN "none" ELSE "idle"]]

Init == PoolInit /\ wg = 0 /\ signal = FALSE /\ ctxDone = FALSE

ShutdownStep(c, p) == shutdownAgain(c, p) \/ closeDB(c, p) \/ closed(c, p)

CheckStep(c, u) == healthCheck(c, u) \/ checked(c, u)

PoolStep(c) ==
  \/ watcherFires(c)
  \/ \E p \in Procs : ShutdownStep(c, p)
  \/ \E u \in Users : CheckStep(c, u)

UserCall(c, u) == callShutdown(c, u) \/ callHealthCheck(c, u)

\* The rest of the service, as far as a pool can tell.
closeSignal == ~signal /\ signal' = TRUE /\ UNCHANGED <<poolVars, wg, ctxDone>>

cancel == ~ctxDone /\ ctxDone' = TRUE /\ UNCHANGED <<poolVars, wg, signal>>

\* Every pool is shut down or was never opened, and its goroutines are idle.
Terminated ==
  /\ \A c \in Pools : db[c] \in {"failed", "nil"} /\ \A u \in Users : at[c][u] = "idle"
  /\ UNCHANGED vars

Next ==
  \/ \E c \in Pools : \/ connect(c) \/ connectFails(c) \/ PoolStep(c)
                      \/ \E u \in Users : UserCall(c, u)
  \/ closeSignal
  \/ cancel
  \/ Terminated

Spec == Init /\ [][Next]_vars

\* Goroutines run, the lock goes to a waiting writer, and the round trip of a health
\* check is bounded by its timeout.  Nothing makes a user call anything.
PoolFairness ==
  \A c \in Pools :
    /\ WF_vars(watcherFires(c))
    /\ \A p \in Procs : WF_vars(ShutdownStep(c, p))
    /\ \A u \in Users : WF_vars(CheckStep(c, u))

FairSpec == Spec /\ PoolFairness

-----------------------------------------------------------------------------
(* Properties *)

\* The fields of each pool and the positions of its goroutines are well formed, and one
\* goroutine at a time holds the write lock.
TypeOK ==
  /\ db \in [Pools -> {"unset", "failed", "set", "nil"}]
  /\ open \in [Pools -> BOOLEAN]
  /\ tied \in [Pools -> BOOLEAN]
  /\ done \in [Pools -> BOOLEAN]
  /\ at \in [Pools -> [Procs -> {"none", "select", "lock", "close", "gone", "idle", "rlock",
                                 "check"}]]
  /\ \A c \in Pools : \A p, q \in Procs :
       (at[c][p] = "close" /\ at[c][q] = "close") => p = q /\ db[c] = "set"
  /\ wg \in Int
  /\ signal \in BOOLEAN
  /\ ctxDone \in BOOLEAN

\* "so the underlying handle cannot be closed by a concurrent Shutdown mid-check".
CheckedHandleIsOpen == \A c \in Pools : Reading(c) => open[c]

\* The watcher goroutine ends once the pool is shut down, whoever did it.
WatcherExits == \A c \in Pools : (db[c] = "nil") ~> (at[c]["watcher"] = "gone")

=============================================================================
