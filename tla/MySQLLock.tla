------------------------------ MODULE MySQLLock ------------------------------
(***************************************************************************)
(* pkg/mysqllock: a named lock of a MySQL server, held through a dedicated *)
(* connection of a database/sql pool and kept alive by a goroutine.        *)
(*                                                                         *)
(* Each client runs one acquisition at a time: Acquire, the goroutine it   *)
(* starts (keepConnectionAlive), and the release function, which both the  *)
(* client and the lost-lock handler may call.  The server and the pool are *)
(* modelled from how the package uses them: GET_LOCK is re-entrant within  *)
(* a session, RELEASE_LOCK undoes one GET_LOCK, a session that ends drops  *)
(* its locks, and closing a *sql.Conn returns a live session to the pool.  *)
(* Arguments that Acquire rejects (no database, key, timeout) change       *)
(* nothing and are left out.                                               *)
(***************************************************************************)
EXTENDS Integers, FiniteSets

CONSTANTS
  Clients,      \* the callers of Acquire
  Conns,        \* the connections of the pool
  NoConn,
  MaxAcquires,  \* bound on the acquisitions of each client
  MaxDrops      \* bound on the sessions the server or the network ends

ASSUME ConnsAssumption == NoConn \notin Conns

ASSUME LockBoundsAssumption == MaxAcquires \in Nat /\ MaxDrops \in Nat

VARIABLES
  owner,      \* the session that holds the named lock, or NoConn
  count,      \* how many GET_LOCKs of that session are outstanding
  alive,      \* whether the session of each connection is up
  pc,         \* where each client is
  conn,       \* the connection each client checked out
  ans,        \* the answer of GET_LOCK on its way to the client
  ka,         \* where each keep-alive goroutine is
  kerr,       \* waitForKeepAliveFailure returned an error
  lost,       \* the verdict of keepConnectionAlive
  cancelled,  \* the release context was cancelled
  done,       \* the done channel is closed
  rel,        \* how far the body of once.Do is
  result,     \* the result of the release function
  acquires,   \* acquisitions made (bound)
  drops,      \* sessions ended (bound)
  notified,   \* history: the lost-lock handlers ran
  late,       \* history: the ping failed after the release had begun
  died,       \* history: the session ended while the client held the lock
  leaky       \* history: RELEASE_LOCK failed on a session that stayed up

serverVars == <<owner, count, alive, leaky>>
kaVars == <<ka, kerr, lost, done, notified, late>>
vars == <<serverVars, pc, conn, ans, kaVars, cancelled, rel, result, acquires,
          drops, died>>

-----------------------------------------------------------------------------
(* The server and the driver (external) *)

\* The session of a connection ends and the server frees its locks.
EndSession(s) ==
  /\ alive' = [alive EXCEPT ![s] = FALSE]
  /\ owner' = IF owner = s THEN NoConn ELSE owner
  /\ count' = IF owner = s THEN 0 ELSE count

KeepSession == UNCHANGED <<owner, count, alive>>

\* A query that is cancelled or times out may break its connection or not.
Interrupted(s) == EndSession(s) \/ KeepSession

\* RELEASE_LOCK of a session that holds the lock.
ServerRelease(s) ==
  /\ alive[s] /\ owner = s
  /\ count' = count - 1
  /\ owner' = IF count = 1 THEN NoConn ELSE owner
  /\ UNCHANGED alive

\* Closing a *sql.Conn: a live session goes back to the pool with whatever locks
\* it holds, a broken one is replaced by a fresh session.
PoolClose(s) ==
  /\ alive' = [alive EXCEPT ![s] = TRUE]
  /\ leaky' = IF alive[s] THEN leaky ELSE leaky \ {s}
  /\ UNCHANGED <<owner, count>>

InUse == {conn[c] : c \in Clients} \ {NoConn}

-----------------------------------------------------------------------------
(* Acquire *)

Acquire(c) ==
  /\ pc[c] = "idle"
  /\ ka[c] = "none"
  /\ acquires[c] < MaxAcquires
  /\ acquires' = [acquires EXCEPT ![c] = @ + 1]
  /\ pc' = [pc EXCEPT ![c] = "conn"]
  /\ result' = [result EXCEPT ![c] = "none"]
  /\ notified' = [notified EXCEPT ![c] = FALSE]
  /\ late' = [late EXCEPT ![c] = FALSE]
  /\ died' = [died EXCEPT ![c] = FALSE]
  /\ UNCHANGED <<serverVars, conn, ans, ka, kerr, lost, done, cancelled, rel, drops>>

\* db.Conn checks out a connection nobody uses ...
getConn(c) ==
  /\ pc[c] = "conn"
  /\ \E s \in Conns \ InUse : conn' = [conn EXCEPT ![c] = s]
  /\ pc' = [pc EXCEPT ![c] = "ask"]
  /\ UNCHANGED <<serverVars, ans, kaVars, cancelled, rel, result, acquires, drops, died>>

\* ... or fails, for instance because the caller's context ended.
getConnFails(c) ==
  /\ pc[c] = "conn"
  /\ pc' = [pc EXCEPT ![c] = "idle"]
  /\ result' = [result EXCEPT ![c] = "failed"]
  /\ UNCHANGED <<serverVars, conn, ans, kaVars, cancelled, rel, acquires, drops, died>>

\* The server answers GET_LOCK: granted, timed out behind another session, an
\* error, or no answer at all from a session that has ended.
serverGetLock(c) ==
  LET s == conn[c]
  IN /\ pc[c] = "ask"
     /\ \/ /\ alive[s] /\ owner \in {NoConn, s}
           /\ owner' = s
           /\ count' = count + 1
           /\ ans' = [ans EXCEPT ![c] = "acquired"]
        \/ /\ alive[s] /\ owner \notin {NoConn, s}
           /\ ans' = [ans EXCEPT ![c] = "timeout"]
           /\ UNCHANGED <<owner, count>>
        \/ /\ ans' = [ans EXCEPT ![c] = "error"]
           /\ UNCHANGED <<owner, count>>
     /\ pc' = [pc EXCEPT ![c] = "scan"]
     /\ UNCHANGED <<alive, leaky, conn, kaVars, cancelled, rel, result, acquires, drops, died>>

\* Scan returns a context error: the lock may have been granted already.
scanCancelled(c) ==
  /\ pc[c] \in {"ask", "scan"}
  /\ Interrupted(conn[c])
  /\ ans' = [ans EXCEPT ![c] = "none"]
  /\ pc' = [pc EXCEPT ![c] = "undo"]
  /\ UNCHANGED <<leaky, conn, kaVars, cancelled, rel, result, acquires, drops, died>>

\* Mutant: a cancelled acquisition closes the connection at once.
bestEffortRelease_Skipped(c) ==
  /\ pc[c] = "undo"
  /\ pc' = [pc EXCEPT ![c] = "close"]
  /\ UNCHANGED <<serverVars, conn, ans, kaVars, cancelled, rel, result, acquires, drops, died>>

\* bestEffortRelease, bounded by its timeout; its outcome is ignored.
bestEffortRelease(c) ==
  /\ pc[c] = "undo"
  /\ \/ ServerRelease(conn[c]) /\ UNCHANGED leaky
     \/ /\ Interrupted(conn[c])
        /\ leaky' = IF owner' = conn[c] THEN leaky \union {conn[c]} ELSE leaky
  /\ pc' = [pc EXCEPT ![c] = "close"]
  /\ UNCHANGED <<conn, ans, kaVars, cancelled, rel, result, acquires, drops, died>>

\* Mutant: any answer of the server is taken for success.
granted_Any(c) == ans[c] # "error"

granted(c) == ans[c] = "acquired"

\* The answer arrives, or is lost with its session: keep the connection and start
\* the goroutine, or close.
scan(c) ==
  /\ pc[c] = "scan"
  /\ \E won \in IF alive[conn[c]] THEN {granted(c)} ELSE {granted(c), FALSE} :
       /\ pc' = [pc EXCEPT ![c] = IF won THEN "holding" ELSE "close"]
       /\ ka' = [ka EXCEPT ![c] = IF won THEN "select" ELSE "none"]
       /\ ans' = [ans EXCEPT ![c] = "none"]
       /\ cancelled' = [cancelled EXCEPT ![c] = FALSE]
       /\ done' = [done EXCEPT ![c] = FALSE]
       /\ rel' = [rel EXCEPT ![c] = "no"]
       /\ died' = [died EXCEPT ![c] = won /\ ~alive[conn[c]]]
  /\ UNCHANGED <<serverVars, conn, kerr, lost, notified, late, result, acquires, drops>>

\* closeConnection on the failure paths of getLockedConn.
closeFailed(c) ==
  /\ pc[c] = "close"
  /\ PoolClose(conn[c])
  /\ conn' = [conn EXCEPT ![c] = NoConn]
  /\ result' = [result EXCEPT ![c] = "failed"]
  /\ pc' = [pc EXCEPT ![c] = "idle"]
  /\ UNCHANGED <<ans, kaVars, cancelled, rel, acquires, drops, died>>

-----------------------------------------------------------------------------
(* The release function *)

\* Entering once.Do: the first caller cancels the keep-alive, later ones wait.
enterRelease(c) ==
  /\ rel' = [rel EXCEPT ![c] = IF @ = "no" THEN "wait" ELSE @]
  /\ cancelled' = [cancelled EXCEPT ![c] = TRUE]

callRelease(c) ==
  /\ pc[c] = "holding"
  /\ enterRelease(c)
  /\ pc' = [pc EXCEPT ![c] = "releasing"]
  /\ UNCHANGED <<serverVars, conn, ans, kaVars, result, acquires, drops, died>>

\* Mutant: the release does not wait for the goroutine.
stopped_Assumed(c) == TRUE

\* <-done
stopped(c) == done[c]

awaitStopped(c) ==
  /\ rel[c] = "wait"
  /\ stopped(c)
  /\ rel' = [rel EXCEPT ![c] = "query"]
  /\ UNCHANGED <<serverVars, pc, conn, ans, kaVars, cancelled, result, acquires, drops, died>>

\* RELEASE_LOCK: released, no longer ours, or a query that failed or timed out
\* (before or after the server acted on it).
releaseLock(c) ==
  LET s == conn[c]
  IN /\ rel[c] = "query"
     /\ \/ /\ ServerRelease(s)
           /\ result' = [result EXCEPT ![c] = "released"]
           /\ UNCHANGED leaky
        \/ /\ alive[s] /\ owner # s
           /\ KeepSession
           /\ result' = [result EXCEPT ![c] = "lost"]
           /\ UNCHANGED leaky
        \/ /\ Interrupted(s) \/ ServerRelease(s)
           /\ result' = [result EXCEPT ![c] = "error"]
           /\ leaky' = IF owner' = s THEN leaky \union {s} ELSE leaky
     /\ rel' = [rel EXCEPT ![c] = "close"]
     /\ UNCHANGED <<pc, conn, ans, kaVars, cancelled, acquires, drops, died>>

\* The deferred closeConnection, after which once.Do lets every caller go.
closeReleased(c) ==
  /\ rel[c] = "close"
  /\ PoolClose(conn[c])
  /\ conn' = [conn EXCEPT ![c] = NoConn]
  /\ rel' = [rel EXCEPT ![c] = "done"]
  /\ UNCHANGED <<pc, ans, kaVars, cancelled, result, acquires, drops, died>>

releaseReturns(c) ==
  /\ pc[c] = "releasing"
  /\ rel[c] = "done"
  /\ pc' = [pc EXCEPT ![c] = "idle"]
  /\ UNCHANGED <<serverVars, conn, ans, kaVars, cancelled, rel, result, acquires, drops, died>>

-----------------------------------------------------------------------------
(* The keep-alive goroutine *)

\* The ticker fires, or the context is done; select takes any ready case.
kaTick(c) ==
  /\ ka[c] = "select"
  /\ ka' = [ka EXCEPT ![c] = "ping"]
  /\ UNCHANGED <<serverVars, pc, conn, ans, kerr, lost, done, notified, late,
                 cancelled, rel, result, acquires, drops, died>>

kaCancelled(c) ==
  /\ ka[c] = "select"
  /\ cancelled[c]
  /\ ka' = [ka EXCEPT ![c] = "verdict"]
  /\ kerr' = [kerr EXCEPT ![c] = FALSE]
  /\ UNCHANGED <<serverVars, pc, conn, ans, lost, done, notified, late, cancelled,
                 rel, result, acquires, drops, died>>

pingOk(c) ==
  /\ ka[c] = "ping"
  /\ alive[conn[c]]
  /\ ka' = [ka EXCEPT ![c] = "select"]
  /\ UNCHANGED <<serverVars, pc, conn, ans, kerr, lost, done, notified, late,
                 cancelled, rel, result, acquires, drops, died>>

\* The ping fails: the session ended, or the ping timed out or was cancelled.
pingFails(c) ==
  /\ ka[c] = "ping"
  /\ Interrupted(conn[c])
  /\ ka' = [ka EXCEPT ![c] = "verdict"]
  /\ kerr' = [kerr EXCEPT ![c] = TRUE]
  /\ late' = [late EXCEPT ![c] = cancelled[c]]
  /\ died' = [died EXCEPT ![c] = @ \/ (pc[c] = "holding" /\ ~alive'[conn[c]])]
  /\ UNCHANGED <<leaky, pc, conn, ans, lost, done, notified, cancelled, rel,
                 result, acquires, drops>>

\* Mutant: a failure is a loss even if the release caused it.
isLost_Always(c) == kerr[c]

isLost(c) == kerr[c] /\ ~cancelled[c]

\* Decide the verdict before closing done.
kaVerdict(c) ==
  /\ ka[c] = "verdict"
  /\ lost' = [lost EXCEPT ![c] = isLost(c)]
  /\ ka' = [ka EXCEPT ![c] = "stop"]
  /\ UNCHANGED <<serverVars, pc, conn, ans, kerr, done, notified, late, cancelled,
                 rel, result, acquires, drops, died>>

\* Mutant: done is closed by a defer, after the handlers.
kaStop_Deferred(c) ==
  /\ ka[c] = "stop"
  /\ done' = [done EXCEPT ![c] = ~lost[c]]
  /\ ka' = [ka EXCEPT ![c] = IF lost[c] THEN "notify" ELSE "none"]
  /\ UNCHANGED <<serverVars, pc, conn, ans, kerr, lost, notified, late, cancelled,
                 rel, result, acquires, drops, died>>

\* Close done before notifying.
kaStop(c) ==
  /\ ka[c] = "stop"
  /\ done' = [done EXCEPT ![c] = TRUE]
  /\ ka' = [ka EXCEPT ![c] = IF lost[c] THEN "notify" ELSE "none"]
  /\ UNCHANGED <<serverVars, pc, conn, ans, kerr, lost, notified, late, cancelled,
                 rel, result, acquires, drops, died>>

\* The handlers run; a panic is recovered.  One of them may call release.
notify(c) ==
  /\ ka[c] = "notify"
  /\ notified' = [notified EXCEPT ![c] = TRUE]
  /\ \/ /\ ka' = [ka EXCEPT ![c] = "none"]
        /\ UNCHANGED <<rel, cancelled>>
     \/ /\ ka' = [ka EXCEPT ![c] = "handler"]
        /\ enterRelease(c)
  /\ UNCHANGED <<serverVars, pc, conn, ans, kerr, lost, done, late, result,
                 acquires, drops, died>>

handlerReturns(c) ==
  /\ ka[c] = "handler"
  /\ rel[c] = "done"
  /\ ka' = [ka EXCEPT ![c] = "none"]
  /\ UNCHANGED <<serverVars, pc, conn, ans, kerr, lost, done, notified, late,
                 cancelled, rel, result, acquires, drops, died>>

-----------------------------------------------------------------------------
(* The environment, and the specification *)

\* The server, a proxy or the network ends a session.
dropSession(s) ==
  /\ alive[s]
  /\ drops < MaxDrops
  /\ drops' = drops + 1
  /\ EndSession(s)
  /\ died' = [c \in Clients |-> died[c] \/ (pc[c] = "holding" /\ conn[c] = s)]
  /\ UNCHANGED <<leaky, pc, conn, ans, kaVars, cancelled, rel, result, acquires>>

Quiescent == (\A c \in Clients : pc[c] = "idle" /\ ka[c] = "none") /\ UNCHANGED vars

Init ==
  /\ owner = NoConn
  /\ count = 0
  /\ alive = [s \in Conns |-> TRUE]
  /\ leaky = {}
  /\ pc = [c \in Clients |-> "idle"]
  /\ conn = [c \in Clients |-> NoConn]
  /\ ans = [c \in Clients |-> "none"]
  /\ ka = [c \in Clients |-> "none"]
  /\ kerr = [c \in Clients |-> FALSE]
  /\ lost = [c \in Clients |-> FALSE]
  /\ cancelled = [c \in Clients |-> FALSE]
  /\ done = [c \in Clients |-> FALSE]
  /\ rel = [c \in Clients |-> "no"]
  /\ result = [c \in Clients |-> "none"]
  /\ acquires = [c \in Clients |-> 0]
  /\ drops = 0
  /\ notified = [c \in Clients |-> FALSE]
  /\ late = [c \in Clients |-> FALSE]
  /\ died = [c \in Clients |-> FALSE]

ClientStep(c) ==
  \/ getConn(c) \/ getConnFails(c) \/ serverGetLock(c) \/ scanCancelled(c)
  \/ bestEffortRelease(c) \/ scan(c) \/ closeFailed(c) \/ releaseReturns(c)

ReleaseStep(c) == awaitStopped(c) \/ releaseLock(c) \/ closeReleased(c)

KeepAliveStep(c) ==
  \/ kaTick(c) \/ kaCancelled(c) \/ pingOk(c) \/ pingFails(c) \/ kaVerdict(c)
  \/ kaStop(c) \/ notify(c) \/ handlerReturns(c)

Next ==
  \/ \E c \in Clients : \/ Acquire(c) \/ callRelease(c)
                        \/ ClientStep(c) \/ ReleaseStep(c) \/ KeepAliveStep(c)
  \/ \E s \in Conns : dropSession(s)
  \/ Quiescent

Spec == Init /\ [][Next]_vars

\* Every query is bounded by a timeout and the ticker keeps firing, so each
\* goroutine keeps moving.  When the context is cancelled, select eventually
\* takes that case rather than the ticker forever: both are ready together only
\* once per interval.
Fairness ==
  \A c \in Clients :
    /\ WF_vars(ClientStep(c))
    /\ WF_vars(ReleaseStep(c))
    /\ WF_vars(KeepAliveStep(c))
    /\ SF_vars(kaCancelled(c))

FairSpec == Spec /\ Fairness

-----------------------------------------------------------------------------
(* Properties *)

\* The state of the server, the pool and each acquisition is well formed; the
\* server counts the lock of its owner, and an acquisition that is over has given
\* its connection back.
TypeOK ==
  /\ owner \in Conns \union {NoConn}
  /\ count \in Nat
  /\ owner = NoConn <=> count = 0
  /\ alive \in [Conns -> BOOLEAN]
  /\ leaky \subseteq Conns
  /\ pc \in [Clients -> {"idle", "conn", "ask", "scan", "undo", "close", "holding",
                         "releasing"}]
  /\ conn \in [Clients -> Conns \union {NoConn}]
  /\ \A c \in Clients : pc[c] = "idle" => conn[c] = NoConn
  /\ ans \in [Clients -> {"none", "acquired", "timeout", "error"}]
  /\ ka \in [Clients -> {"none", "select", "ping", "verdict", "stop", "notify", "handler"}]
  /\ kerr \in [Clients -> BOOLEAN]
  /\ lost \in [Clients -> BOOLEAN]
  /\ cancelled \in [Clients -> BOOLEAN]
  /\ done \in [Clients -> BOOLEAN]
  /\ rel \in [Clients -> {"no", "wait", "query", "close", "done"}]
  /\ result \in [Clients -> {"none", "failed", "released", "lost", "error"}]
  /\ acquires \in [Clients -> Nat]
  /\ drops \in Nat
  /\ notified \in [Clients -> BOOLEAN]
  /\ late \in [Clients -> BOOLEAN]
  /\ died \in [Clients -> BOOLEAN]

\* A client that holds the lock on a session that is up owns the named lock: no
\* release, best-effort release or pooled session of another acquisition takes it
\* away.  Two clients on live sessions are therefore never both in the critical
\* section.
HolderOwnsLock ==
  \A c \in Clients :
    (pc[c] = "holding" /\ rel[c] = "no" /\ alive[conn[c]]) => owner = conn[c]

\* "the keep-alive query and RELEASE_LOCK could run on the same *sql.Conn
\* concurrently": they never do, and no two acquisitions use one connection.
ConnectionIsNotShared ==
  /\ \A c \in Clients : ka[c] = "ping" => rel[c] \in {"no", "wait"} /\ conn[c] # NoConn
  /\ \A c, d \in Clients : (c # d /\ conn[c] # NoConn) => conn[c] # conn[d]

\* A session in the pool holds the named lock only if a RELEASE_LOCK on it failed
\* while the session stayed up: no ordinary path leaks the lock.
LeaksOnlyAfterFailedRelease ==
  \A s \in Conns : (s \notin InUse /\ owner = s) => s \in leaky

\* The verdict on a loss is right, both ways.  "a failure not caused by ctx cancellation
\* (the release path) is a lost lock": a release that makes the keep-alive query fail is
\* never reported as a loss; and a lock whose session ended while it was held is never
\* given back silently, the handlers were told or the release function returns an error.
LossReportIsTrue ==
  \A c \in Clients :
    /\ notified[c] => ~late[c]
    /\ (pc[c] = "idle" /\ ka[c] = "none" /\ died[c]) =>
         notified[c] \/ result[c] \in {"lost", "error"}

\* The release function returns, even when a handler calls it too, and so do the handlers:
\* one that calls release does not wait for itself.
ReleaseReturns ==
  \A c \in Clients :
    /\ (pc[c] = "releasing") ~> (pc[c] = "idle")
    /\ (ka[c] = "notify") ~> (ka[c] = "none")

=============================================================================
