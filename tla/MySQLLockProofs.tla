--------------------------- MODULE MySQLLockProofs ---------------------------
(***************************************************************************)
(* Proofs about MySQLLock, for any number of clients, connections,         *)
(* acquisitions and lost sessions.                                         *)
(***************************************************************************)
EXTENDS MySQLLock, TLAPS

-----------------------------------------------------------------------------
(* The inductive invariant *)

\* Acquire is under way, and no goroutine of an earlier acquisition is left.
Acquiring(c) == pc[c] \in {"conn", "ask", "scan", "undo", "close"}

\* Acquire returned a release function that has not returned yet.
Acquired(c) == pc[c] \in {"holding", "releasing"}

\* The goroutine may still use the connection.
Watching(c) == ka[c] \in {"select", "ping", "verdict", "stop"}

\* The server granted the lock to the client, and no RELEASE_LOCK was sent for it since.
Granted(c) ==
  \/ pc[c] = "scan" /\ ans[c] = "acquired"
  \/ Acquired(c) /\ rel[c] \in {"no", "wait", "query"}

\* Who may use a connection when: the acquisition, then the goroutine, and once.Do only after
\* the goroutine closed done.
PhaseInv ==
  \A c \in Clients :
    /\ pc[c] \in {"idle", "conn"} => conn[c] = NoConn
    /\ pc[c] \in {"ask", "scan", "undo", "close"} => conn[c] \in Conns
    /\ Acquiring(c) => ka[c] = "none"
    /\ Acquired(c) => (conn[c] \in Conns <=> rel[c] # "done")
    /\ rel[c] \in {"wait", "query", "close"} => Acquired(c)
    /\ pc[c] = "releasing" => rel[c] # "no"
    /\ Watching(c) => Acquired(c) /\ rel[c] \in {"no", "wait"} /\ ~done[c]
    /\ (pc[c] = "idle" /\ ka[c] # "none") => rel[c] = "done"

Unshared == \A c, d \in Clients : (c # d /\ conn[c] # NoConn) => conn[c] # conn[d]

\* A lock lives in a session that is up; it belongs to the client it was granted to.
OwnerInv ==
  /\ owner # NoConn => alive[owner]
  /\ \A c \in Clients : (Granted(c) /\ alive[conn[c]]) => owner = conn[c]

\* On a session that is in use and did not leak, the lock was taken once, by the acquisition
\* that has yet to release it.
CountInv ==
  \A c \in Clients :
    (conn[c] # NoConn /\ owner = conn[c] /\ conn[c] \notin leaky) =>
      count = 1 /\ (Granted(c) \/ pc[c] = "undo")

\* When a verdict can be late, and who has been told what of a session that ended.
LossInv ==
  \A c \in Clients :
    /\ Acquiring(c) => ~notified[c] /\ ~late[c] /\ ~died[c]
    /\ ka[c] \in {"select", "ping"} => ~late[c]
    /\ Watching(c) \/ ka[c] = "notify" => ~notified[c]
    /\ (ka[c] = "verdict" /\ late[c]) => cancelled[c]
    /\ (ka[c] = "stop" /\ lost[c]) => ~late[c]
    /\ ka[c] \in {"notify", "handler"} => ~late[c]
    /\ notified[c] => ~late[c]
    /\ (pc[c] = "holding" /\ rel[c] # "no") => notified[c]
    /\ (Acquired(c) /\ died[c] /\ rel[c] \in {"no", "wait", "query"}) => ~alive[conn[c]]
    /\ (Acquired(c) /\ died[c] /\ rel[c] \in {"close", "done"}) =>
         notified[c] \/ result[c] \in {"lost", "error"}
    /\ (pc[c] = "idle" /\ died[c]) => notified[c] \/ result[c] \in {"lost", "error"}

LockInv ==
  TypeOK /\ PhaseInv /\ Unshared /\ OwnerInv /\ CountInv /\ LeaksOnlyAfterFailedRelease /\ LossInv

-----------------------------------------------------------------------------
(* Every step keeps it *)

USE ConnsAssumption DEF serverVars, kaVars

\* A query that is interrupted leaves the server's state well formed, and no lock in a
\* session that ended.
LEMMA InterruptedKeepsServer ==
  ASSUME TypeOK, OwnerInv, NEW s \in Conns, Interrupted(s) \/ ServerRelease(s)
  PROVE  /\ owner' \in Conns \union {NoConn} /\ count' \in Nat /\ (owner' = NoConn <=> count' = 0)
         /\ alive' \in [Conns -> BOOLEAN]
         /\ owner' # NoConn => alive'[owner']
         /\ owner' # owner => owner = s /\ owner' = NoConn
         /\ owner # s => count' = count
         /\ \A t \in Conns \ {s} : alive'[t] = alive[t]
<1>1. CASE ServerRelease(s)
  BY <1>1 DEF TypeOK, OwnerInv, ServerRelease
<1>2. CASE EndSession(s)
  <2>1. alive' \in [Conns -> BOOLEAN] /\ ~alive'[s] /\ \A t \in Conns \ {s} : alive'[t] = alive[t]
    BY <1>2 DEF TypeOK, EndSession
  <2> QED BY <1>2, <2>1 DEF TypeOK, OwnerInv, EndSession
<1>3. CASE KeepSession
  BY <1>3 DEF TypeOK, OwnerInv, KeepSession
<1> QED BY <1>1, <1>2, <1>3 DEF Interrupted

LEMMA InitKeeps == Init => LockInv
  BY DEF Init, LockInv, TypeOK, PhaseInv, Unshared, OwnerInv, CountInv, LossInv,
         LeaksOnlyAfterFailedRelease, Granted, Acquired, Acquiring, Watching, InUse

\* The way in: the connection is checked out, the lock asked for, and given up or kept.
LEMMA AcquireKeeps ==
  ASSUME LockInv, NEW c \in Clients, Acquire(c) \/ ClientStep(c)
  PROVE  LockInv'
<1> USE DEF LockInv
<1>1. CASE Acquire(c) \/ getConnFails(c) \/ releaseReturns(c)
  <2>0. TypeOK'
    <3>1. CASE Acquire(c)
      BY <1>1, <3>1 DEF Acquire, TypeOK
    <3>2. CASE getConnFails(c) \/ releaseReturns(c)
      BY <1>1, <3>2 DEF getConnFails, releaseReturns, TypeOK, PhaseInv, Acquired
    <3> QED BY <1>1, <3>1, <3>2
  <2>1. Unshared' /\ OwnerInv' /\ CountInv' /\ LeaksOnlyAfterFailedRelease'
    BY <1>1 DEF Acquire, getConnFails, releaseReturns, TypeOK, PhaseInv, Unshared, OwnerInv, CountInv,
                LeaksOnlyAfterFailedRelease, Granted, Acquired, InUse
  <2>2. PhaseInv' /\ LossInv'
    BY <1>1 DEF Acquire, getConnFails, releaseReturns, TypeOK, PhaseInv, LossInv, Acquired, Acquiring, Watching
  <2> QED BY <2>0, <2>1, <2>2
<1>2. CASE getConn(c)
  BY <1>2 DEF getConn, TypeOK, PhaseInv, Unshared, OwnerInv, CountInv, LeaksOnlyAfterFailedRelease, LossInv,
              Granted, Acquired, Acquiring, Watching, InUse
<1>3. CASE serverGetLock(c)
  <2>1. TypeOK' /\ PhaseInv' /\ Unshared' /\ LossInv'
    BY <1>3 DEF serverGetLock, TypeOK, PhaseInv, Unshared, LossInv, Acquired, Acquiring, Watching
  <2>2. OwnerInv' /\ CountInv'
    BY <1>3 DEF serverGetLock, TypeOK, PhaseInv, Unshared, OwnerInv, CountInv, Granted, Acquired
  <2>3. LeaksOnlyAfterFailedRelease'
    BY <1>3 DEF serverGetLock, TypeOK, PhaseInv, LeaksOnlyAfterFailedRelease, InUse
  <2> QED BY <2>1, <2>2, <2>3
<1>4. CASE scanCancelled(c)
  <2>0. conn[c] \in Conns /\ Interrupted(conn[c])
    BY <1>4 DEF scanCancelled, PhaseInv
  <2>1. TypeOK'
    BY <1>4, <2>0, InterruptedKeepsServer DEF scanCancelled, TypeOK
  <2>2. PhaseInv' /\ Unshared'
    BY <1>4 DEF scanCancelled, TypeOK, PhaseInv, Unshared, Acquired, Acquiring, Watching
  <2>3. OwnerInv' /\ CountInv'
    BY <1>4, <2>0 DEF scanCancelled, TypeOK, PhaseInv, Unshared, OwnerInv, CountInv, Granted, Acquired,
                Interrupted, EndSession, KeepSession
  <2>4. LeaksOnlyAfterFailedRelease'
    BY <1>4, <2>0, InterruptedKeepsServer DEF scanCancelled, LeaksOnlyAfterFailedRelease, InUse
  <2>5. LossInv'
    BY <1>4, <2>0, InterruptedKeepsServer
    DEF scanCancelled, TypeOK, PhaseInv, Unshared, LossInv, Acquired, Acquiring, Watching
  <2> QED BY <2>1, <2>2, <2>3, <2>4, <2>5
<1>5. CASE bestEffortRelease(c)
  <2>0. conn[c] \in Conns /\ (Interrupted(conn[c]) \/ ServerRelease(conn[c]))
    BY <1>5 DEF bestEffortRelease, PhaseInv
  <2>1. TypeOK'
    BY <1>5, <2>0, InterruptedKeepsServer DEF bestEffortRelease, TypeOK
  <2>2. PhaseInv' /\ Unshared'
    BY <1>5 DEF bestEffortRelease, TypeOK, PhaseInv, Unshared, Acquired, Acquiring, Watching
  <2>3. OwnerInv' /\ CountInv'
    BY <1>5, <2>0 DEF bestEffortRelease, TypeOK, PhaseInv, Unshared, OwnerInv, CountInv, Granted, Acquired,
                Interrupted, EndSession, KeepSession, ServerRelease
  <2>4. LeaksOnlyAfterFailedRelease'
    BY <1>5, <2>0, InterruptedKeepsServer DEF bestEffortRelease, TypeOK, LeaksOnlyAfterFailedRelease, InUse
  <2>5. LossInv'
    BY <1>5, <2>0, InterruptedKeepsServer
    DEF bestEffortRelease, TypeOK, PhaseInv, Unshared, LossInv, Acquired, Acquiring, Watching
  <2> QED BY <2>1, <2>2, <2>3, <2>4, <2>5
<1>6. CASE scan(c)
  <2>1. PICK won \in BOOLEAN :
          /\ won => ans[c] = "acquired"
          /\ (ans[c] = "acquired" /\ ~won) => ~alive[conn[c]]
          /\ pc' = [pc EXCEPT ![c] = IF won THEN "holding" ELSE "close"]
          /\ ka' = [ka EXCEPT ![c] = IF won THEN "select" ELSE "none"]
          /\ died' = [died EXCEPT ![c] = won /\ ~alive[conn[c]]]
    BY <1>6 DEF scan, granted
  <2>2. /\ pc[c] = "scan" /\ conn[c] \in Conns
        /\ ans' = [ans EXCEPT ![c] = "none"]
        /\ cancelled' = [cancelled EXCEPT ![c] = FALSE]
        /\ done' = [done EXCEPT ![c] = FALSE]
        /\ rel' = [rel EXCEPT ![c] = "no"]
        /\ UNCHANGED <<serverVars, conn, kerr, lost, notified, late, result, acquires, drops>>
    BY <1>6 DEF scan, PhaseInv
  <2>3. TypeOK' /\ PhaseInv' /\ Unshared'
    BY <2>1, <2>2 DEF TypeOK, PhaseInv, Unshared, Acquired, Acquiring, Watching
  <2>4. OwnerInv' /\ CountInv'
    BY <2>1, <2>2 DEF TypeOK, PhaseInv, OwnerInv, CountInv, Granted, Acquired
  <2>5. LeaksOnlyAfterFailedRelease'
    BY <2>2 DEF LeaksOnlyAfterFailedRelease, InUse
  <2>6. LossInv'
    BY <2>1, <2>2 DEF TypeOK, PhaseInv, LossInv, Acquired, Acquiring, Watching
  <2> QED BY <2>3, <2>4, <2>5, <2>6
<1>7. CASE closeFailed(c)
  BY <1>7 DEF closeFailed, PoolClose, TypeOK, PhaseInv, Unshared, OwnerInv, CountInv,
              LeaksOnlyAfterFailedRelease, LossInv, Granted, Acquired, Acquiring, Watching, InUse
<1> QED BY <1>1, <1>2, <1>3, <1>4, <1>5, <1>6, <1>7 DEF ClientStep

\* The body of once.Do: the goroutine has stopped by the time it queries and closes.
LEMMA ReleaseKeeps ==
  ASSUME LockInv, NEW c \in Clients, callRelease(c) \/ ReleaseStep(c)
  PROVE  LockInv'
<1> USE DEF LockInv
<1>1. CASE callRelease(c) \/ awaitStopped(c)
  <2>0. TypeOK'
    <3>1. CASE callRelease(c)
      BY <3>1 DEF callRelease, enterRelease, TypeOK
    <3>2. CASE awaitStopped(c)
      BY <3>2 DEF awaitStopped, TypeOK
    <3> QED BY <1>1, <3>1, <3>2
  <2>1. PhaseInv'
    BY <1>1 DEF callRelease, enterRelease, awaitStopped, stopped, TypeOK, PhaseInv, Acquired, Acquiring, Watching
  <2>2. Unshared' /\ OwnerInv' /\ CountInv' /\ LeaksOnlyAfterFailedRelease'
    BY <1>1 DEF callRelease, enterRelease, awaitStopped, TypeOK, PhaseInv, Unshared, OwnerInv, CountInv,
                LeaksOnlyAfterFailedRelease, Granted, Acquired, InUse
  <2>3. LossInv'
    BY <1>1 DEF callRelease, enterRelease, awaitStopped, TypeOK, PhaseInv, LossInv, Acquired, Acquiring, Watching
  <2> QED BY <2>0, <2>1, <2>2, <2>3
<1>2. CASE closeReleased(c)
  BY <1>2 DEF closeReleased, PoolClose, TypeOK, PhaseInv, Unshared, OwnerInv, CountInv,
              LeaksOnlyAfterFailedRelease, LossInv, Granted, Acquired, Acquiring, Watching, InUse
<1>3. CASE releaseLock(c)
  <2>0. /\ conn[c] \in Conns /\ Acquired(c) /\ ~Watching(c)
        /\ Interrupted(conn[c]) \/ ServerRelease(conn[c])
    BY <1>3 DEF releaseLock, PhaseInv, Interrupted
  <2>1. TypeOK'
    BY <1>3, <2>0, InterruptedKeepsServer DEF releaseLock, TypeOK
  <2>2. PhaseInv' /\ Unshared'
    BY <1>3, <2>0 DEF releaseLock, TypeOK, PhaseInv, Unshared, Acquired, Acquiring, Watching
  <2>3. OwnerInv' /\ CountInv'
    BY <1>3, <2>0 DEF releaseLock, TypeOK, PhaseInv, Unshared, OwnerInv, CountInv, Granted, Acquired,
                Interrupted, EndSession, KeepSession, ServerRelease
  <2>4. LeaksOnlyAfterFailedRelease'
    BY <1>3, <2>0, InterruptedKeepsServer DEF releaseLock, TypeOK, LeaksOnlyAfterFailedRelease, InUse
  <2>5. died[c] => result'[c] = "error"
    BY <1>3, <2>0 DEF releaseLock, LossInv, TypeOK, ServerRelease
  <2>6. LossInv'
    BY <1>3, <2>0, <2>5, InterruptedKeepsServer
    DEF releaseLock, TypeOK, PhaseInv, Unshared, LossInv, Acquired, Acquiring, Watching
  <2> QED BY <2>1, <2>2, <2>3, <2>4, <2>6
<1> QED BY <1>1, <1>2, <1>3 DEF ReleaseStep

\* The goroutine pings only before it closes done, and decides before it notifies.
LEMMA KeepAliveKeeps ==
  ASSUME LockInv, NEW c \in Clients, KeepAliveStep(c)
  PROVE  LockInv'
<1> USE DEF LockInv
<1>1. CASE kaTick(c) \/ kaCancelled(c) \/ pingOk(c) \/ kaVerdict(c) \/ kaStop(c) \/ handlerReturns(c)
  <2>0. TypeOK'
    <3>1. CASE kaTick(c) \/ pingOk(c) \/ handlerReturns(c)
      BY <3>1 DEF kaTick, pingOk, handlerReturns, TypeOK
    <3>2. CASE kaCancelled(c)
      BY <3>2 DEF kaCancelled, TypeOK
    <3>3. CASE kaVerdict(c)
      BY <3>3 DEF kaVerdict, isLost, TypeOK
    <3>4. CASE kaStop(c)
      BY <3>4 DEF kaStop, TypeOK
    <3> QED BY <1>1, <3>1, <3>2, <3>3, <3>4
  <2>1. PhaseInv'
    BY <1>1 DEF kaTick, kaCancelled, pingOk, kaVerdict, kaStop, handlerReturns,
                TypeOK, PhaseInv, Acquired, Acquiring, Watching
  <2>2. Unshared' /\ OwnerInv' /\ CountInv' /\ LeaksOnlyAfterFailedRelease'
    BY <1>1 DEF kaTick, kaCancelled, pingOk, kaVerdict, kaStop, handlerReturns,
                Unshared, OwnerInv, CountInv, LeaksOnlyAfterFailedRelease, Granted, Acquired, InUse
  <2>3. LossInv'
    BY <1>1 DEF kaTick, kaCancelled, pingOk, kaVerdict, isLost, kaStop, handlerReturns,
                TypeOK, PhaseInv, LossInv, Acquired, Acquiring, Watching
  <2> QED BY <2>0, <2>1, <2>2, <2>3
<1>2. CASE pingFails(c)
  <2>0. /\ conn[c] \in Conns /\ Interrupted(conn[c])
        /\ Acquired(c) /\ rel[c] \in {"no", "wait"}
    BY <1>2 DEF pingFails, PhaseInv, Watching
  <2>1. TypeOK'
    BY <1>2, <2>0, InterruptedKeepsServer DEF pingFails, TypeOK
  <2>2. PhaseInv' /\ Unshared'
    BY <1>2, <2>0 DEF pingFails, TypeOK, PhaseInv, Unshared, Acquired, Acquiring, Watching
  <2>3. OwnerInv' /\ CountInv'
    BY <1>2, <2>0 DEF pingFails, TypeOK, PhaseInv, Unshared, OwnerInv, CountInv, Granted, Acquired,
                Interrupted, EndSession, KeepSession
  <2>4. LeaksOnlyAfterFailedRelease'
    BY <1>2, <2>0, InterruptedKeepsServer DEF pingFails, LeaksOnlyAfterFailedRelease, InUse
  <2>5. LossInv'
    BY <1>2, <2>0 DEF pingFails, TypeOK, PhaseInv, Unshared, LossInv, Acquired, Acquiring, Watching,
                Interrupted, EndSession, KeepSession
  <2> QED BY <2>1, <2>2, <2>3, <2>4, <2>5
<1>3. CASE notify(c)
  <2>0. TypeOK'
    BY <1>3 DEF notify, enterRelease, TypeOK
  <2>1. PhaseInv'
    BY <1>3 DEF notify, enterRelease, TypeOK, PhaseInv, Acquired, Acquiring, Watching
  <2>2. Unshared' /\ LeaksOnlyAfterFailedRelease'
    BY <1>3 DEF notify, Unshared, LeaksOnlyAfterFailedRelease, InUse
  <2>3. OwnerInv' /\ CountInv'
    BY <1>3 DEF notify, enterRelease, TypeOK, PhaseInv, OwnerInv, CountInv, Granted, Acquired, Acquiring
  <2>4. LossInv'
    BY <1>3 DEF notify, enterRelease, TypeOK, PhaseInv, LossInv, Acquired, Acquiring, Watching
  <2> QED BY <2>0, <2>1, <2>2, <2>3, <2>4
<1> QED BY <1>1, <1>2, <1>3 DEF KeepAliveStep

\* A session that ends takes its lock with it, and the client that held it counts as bereft.
LEMMA DropKeeps ==
  ASSUME LockInv, NEW s \in Conns, dropSession(s)
  PROVE  LockInv'
<1> USE DEF LockInv, dropSession, EndSession
<1>1. TypeOK' /\ PhaseInv' /\ Unshared'
  BY DEF TypeOK, PhaseInv, Unshared, Acquired, Acquiring, Watching
<1>2. OwnerInv' /\ CountInv' /\ LeaksOnlyAfterFailedRelease'
  BY DEF TypeOK, PhaseInv, OwnerInv, CountInv, LeaksOnlyAfterFailedRelease, Granted, Acquired, InUse
<1>3. LossInv'
  BY DEF TypeOK, PhaseInv, LossInv, Acquired, Acquiring, Watching
<1> QED BY <1>1, <1>2, <1>3

LEMMA NextKeeps == LockInv /\ [Next]_vars => LockInv'
<1> SUFFICES ASSUME LockInv, [Next]_vars PROVE LockInv'
  OBVIOUS
<1>1. ASSUME NEW c \in Clients, Acquire(c) \/ ClientStep(c) PROVE LockInv'
  BY <1>1, AcquireKeeps
<1>2. ASSUME NEW c \in Clients, callRelease(c) \/ ReleaseStep(c) PROVE LockInv'
  BY <1>2, ReleaseKeeps
<1>3. ASSUME NEW c \in Clients, KeepAliveStep(c) PROVE LockInv'
  BY <1>3, KeepAliveKeeps
<1>4. ASSUME NEW s \in Conns, dropSession(s) PROVE LockInv'
  BY <1>4, DropKeeps
<1>5. CASE UNCHANGED vars
  BY <1>5 DEF vars, LockInv, TypeOK, PhaseInv, Unshared, OwnerInv, CountInv, LeaksOnlyAfterFailedRelease, LossInv,
              Granted, Acquired, Acquiring, Watching, InUse
<1> QED BY <1>1, <1>2, <1>3, <1>4, <1>5 DEF Next, Quiescent

LEMMA AlwaysLockInv == Spec => []LockInv
  BY InitKeeps, NextKeeps, PTL DEF Spec

-----------------------------------------------------------------------------
(* The theorems *)

\* The server's and the clients' state stays well formed, and an acquisition that is over has
\* given its connection back.
THEOREM TypeCorrect == Spec => []TypeOK
<1>1. LockInv => TypeOK
  BY DEF LockInv
<1> QED BY <1>1, AlwaysLockInv, PTL

\* A client that holds the lock on a session that is up owns it on the server, whatever other
\* acquisitions, releases and pooled sessions do.
THEOREM HoldersOwn == Spec => []HolderOwnsLock
<1>1. LockInv => HolderOwnsLock
  BY DEF LockInv, OwnerInv, HolderOwnsLock, Granted, Acquired
<1> QED BY <1>1, AlwaysLockInv, PTL

\* The keep-alive query and RELEASE_LOCK never run on one connection at the same time, and no
\* two acquisitions use one connection.
THEOREM ConnectionsAreExclusive == Spec => []ConnectionIsNotShared
<1>1. LockInv => ConnectionIsNotShared
  BY DEF LockInv, PhaseInv, Unshared, ConnectionIsNotShared, Watching, Acquired
<1> QED BY <1>1, AlwaysLockInv, PTL

\* The lock reaches the pool only in a session whose RELEASE_LOCK failed.
THEOREM OnlyFailuresLeak == Spec => []LeaksOnlyAfterFailedRelease
<1>1. LockInv => LeaksOnlyAfterFailedRelease
  BY DEF LockInv
<1> QED BY <1>1, AlwaysLockInv, PTL

\* The verdict of the keep-alive goroutine is right both ways: a release is never reported as a
\* loss, and a loss is never silent.
THEOREM LossReportsAreTrue == Spec => []LossReportIsTrue
<1>1. LockInv => LossReportIsTrue
  BY DEF LockInv, LossInv, LossReportIsTrue
<1> QED BY <1>1, AlwaysLockInv, PTL

=============================================================================
