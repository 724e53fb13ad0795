----------------------- MODULE ServiceLifecycleProofs -----------------------
(***************************************************************************)
(* Proofs about ServiceLifecycle, for any finite sets of servers and pools *)
(* and any number of goroutines of the application that call them.         *)
(***************************************************************************)
EXTENDS ServiceLifecycle, FiniteSetTheorems, TLAPS

-----------------------------------------------------------------------------
(* The inductive invariant *)

\* The once of a server is over when its stopped flag is set, so that a server whose share of
\* the wait group was given back is not started again.
StoppedOnce == \A h \in Servers : once[h] = "done" <=> stopped[h]

\* A goroutine waits for, or has, the lock of a pool that was opened; the handle is open until
\* the writer closes it, and a reader keeps the writer out.
LockInv ==
  \A c \in Pools : \A p \in S!Procs :
    /\ at[c][p] \in {"select", "lock", "rlock"} => db[c] \in {"set", "nil"}
    /\ at[c][p] = "check" => db[c] = "set" /\ open[c] /\ ~S!Writing(c)
    /\ (db[c] = "set" /\ ~S!Writing(c)) => open[c]

\* How far Bootstrap is when the channel is closed, the binding failed or the wait ended.
BootInv ==
  /\ signal => boot \notin {"bind", "wait", "broadcast"}
  /\ failed => boot \in {"metrics", "returned"} /\ ~signal
  /\ completed => boot \in {"metrics", "returned"}

ServiceInv ==
  /\ TypeOK /\ StoppedOnce /\ LockInv /\ BootInv
  /\ WaitGroupBalanced /\ GracefulMeansStopped

\* Where a goroutine of a server can be.
ServerStates == {"none", "select", "listen", "serving", "shutdown", "drain", "once", "stop", "done"}

-----------------------------------------------------------------------------
(* Counting *)

\* The sets the wait group counts are finite, before and after a step.
LEMMA Finite ==
  /\ IsFiniteSet(H!Running) /\ IsFiniteSet(RunningPools)
  /\ IsFiniteSet(H!Running') /\ IsFiniteSet(RunningPools')
<1>1. H!Running \subseteq Servers /\ H!Running' \subseteq Servers
  BY DEF H!Running
<1>2. RunningPools \subseteq Pools /\ RunningPools' \subseteq Pools
  BY DEF RunningPools
<1> QED BY <1>1, <1>2, FiniteAssumption, FS_Subset

\* The group stays balanced when what it counts and the count change alike.
LEMMA SameBalance ==
  ASSUME WaitGroupBalanced, wg' = wg, H!Running' = H!Running, RunningPools' = RunningPools
  PROVE  WaitGroupBalanced'
  BY DEF WaitGroupBalanced

LEMMA Joined ==
  ASSUME WaitGroupBalanced, wg' = wg + 1,
         \/ /\ \E h : h \notin H!Running /\ H!Running' = H!Running \union {h}
            /\ RunningPools' = RunningPools
         \/ /\ \E c : c \notin RunningPools /\ RunningPools' = RunningPools \union {c}
            /\ H!Running' = H!Running
  PROVE  WaitGroupBalanced'
<1>1. Cardinality(H!Running) \in Nat /\ Cardinality(RunningPools) \in Nat
  BY Finite, FS_CardinalityType
<1>2. ASSUME NEW h, h \notin H!Running, H!Running' = H!Running \union {h}
      PROVE  Cardinality(H!Running') = Cardinality(H!Running) + 1
  BY <1>2, Finite, FS_AddElement
<1>3. ASSUME NEW c, c \notin RunningPools, RunningPools' = RunningPools \union {c}
      PROVE  Cardinality(RunningPools') = Cardinality(RunningPools) + 1
  BY <1>3, Finite, FS_AddElement
<1> QED BY <1>1, <1>2, <1>3 DEF WaitGroupBalanced

LEMMA Left ==
  ASSUME WaitGroupBalanced, wg' = wg - 1,
         \/ /\ \E h \in H!Running : H!Running' = H!Running \ {h}
            /\ RunningPools' = RunningPools
         \/ /\ \E c \in RunningPools : RunningPools' = RunningPools \ {c}
            /\ H!Running' = H!Running
  PROVE  WaitGroupBalanced'
<1>1. Cardinality(H!Running) \in Nat /\ Cardinality(RunningPools) \in Nat
  BY Finite, FS_CardinalityType
<1>2. ASSUME NEW h \in H!Running, H!Running' = H!Running \ {h}
      PROVE  Cardinality(H!Running') = Cardinality(H!Running) - 1
  BY <1>2, Finite, FS_RemoveElement
<1>3. ASSUME NEW c \in RunningPools, RunningPools' = RunningPools \ {c}
      PROVE  Cardinality(RunningPools') = Cardinality(RunningPools) - 1
  BY <1>3, Finite, FS_RemoveElement
<1> QED BY <1>1, <1>2, <1>3 DEF WaitGroupBalanced

\* A group that is at zero has nobody in it.
LEMMA NobodyLeft == ASSUME WaitGroupBalanced, wg = 0 PROVE AllStopped
<1>1. Cardinality(H!Running) \in Nat /\ Cardinality(RunningPools) \in Nat
  BY Finite, FS_CardinalityType
<1>2. Cardinality(H!Running) = 0 /\ Cardinality(RunningPools) = 0
  BY <1>1 DEF WaitGroupBalanced
<1> QED BY <1>2, Finite, FS_EmptySet DEF AllStopped

-----------------------------------------------------------------------------
(* Servers *)

\* The two halves of H!TypeOK: the types, and that one goroutine runs the body of shutdownOnce.
ServerTypes ==
  /\ listener \in [Servers -> {"none", "open", "closed"}]
  /\ started \in [Servers -> BOOLEAN] /\ stopped \in [Servers -> BOOLEAN]
  /\ once \in [Servers -> {"new", "busy", "done"}]
  /\ shutdownDone \in [Servers -> BOOLEAN] /\ serveErr \in [Servers -> BOOLEAN]
  /\ inShutdown \in [Servers -> BOOLEAN]
  /\ requests \in [Servers -> 0..MaxRequests]
  /\ proc \in [Servers -> [H!Procs -> ServerStates]]
  /\ wg \in Int /\ signal \in BOOLEAN /\ ctxDone \in BOOLEAN

OneStops ==
  \A h \in Servers : \A p, q \in H!Procs :
    (proc[h][p] = "stop" /\ proc[h][q] = "stop") => p = q /\ once[h] = "busy"

LEMMA ServerTypeOK == (H!TypeOK <=> ServerTypes /\ OneStops) /\ (H!TypeOK' <=> ServerTypes' /\ OneStops')
  BY DEF H!TypeOK, ServerTypes, OneStops, ServerStates

\* A step of one goroutine of one server moves that goroutine alone.
LEMMA ServerMoves ==
  ASSUME ServerTypes, NEW h \in Servers, NEW p \in H!Procs, NEW to \in ServerStates, H!Step(h, p, to)
  PROVE  /\ proc' \in [Servers -> [H!Procs -> ServerStates]]
         /\ \A g \in Servers : \A q \in H!Procs :
              proc'[g][q] = IF g = h /\ q = p THEN to ELSE proc[g][q]
  BY DEF ServerTypes, H!Step

\* What a step of server h leaves behind: well-formed fields, its once and its flag in step, and
\* a wait group that changed only if the server left it.
ServerKept(h) ==
  /\ H!TypeOK' /\ StoppedOnce'
  /\ UNCHANGED <<signal, ctxDone>>
  /\ \/ wg' = wg /\ H!Running' = H!Running
     \/ wg' = wg - 1 /\ h \in H!Running /\ H!Running' = H!Running \ {h}

\* What a server's goroutines do keeps its fields well formed, its once and its flag in step,
\* and changes the wait group only where the server leaves it.
LEMMA ServerFields ==
  ASSUME ServiceInv, NEW h \in Servers,
         H!ServerStep(h) \/ \E u \in Users : H!callShutdown(h, u)
  PROVE  ServerKept(h)
<1> USE DEF H!sharedVars
<1> DEFINE Moved(p, to) ==
      /\ proc' \in [Servers -> [H!Procs -> ServerStates]]
      /\ \A g \in Servers : \A q \in H!Procs :
           proc'[g][q] = IF g = h /\ q = p THEN to ELSE proc[g][q]
<1>0. {"monitor", "serve"} \union Users = H!Procs
  BY DEF H!Procs
<1>1. ServerTypes /\ OneStops /\ StoppedOnce
  BY ServerTypeOK DEF ServiceInv, TypeOK
<1>2. ServerTypes' /\ OneStops' => H!TypeOK'
  BY ServerTypeOK
<1>3. ASSUME NEW p \in H!Procs, NEW to \in ServerStates, H!Step(h, p, to) PROVE Moved(p, to)
  BY <1>1, <1>3, ServerMoves
<1>4. ASSUME NEW p \in H!Procs, NEW to, to # "stop", Moved(p, to), OneStops, once' = once
      PROVE  OneStops'
  <2> SUFFICES ASSUME NEW g \in Servers, NEW a \in H!Procs, NEW b \in H!Procs,
                      proc'[g][a] = "stop", proc'[g][b] = "stop"
               PROVE  a = b /\ once[g] = "busy"
    BY <1>4 DEF OneStops
  <2>1. proc[g][a] = "stop" /\ proc[g][b] = "stop"
    BY <1>4
  <2> QED BY <1>4, <2>1 DEF OneStops
<1> HIDE DEF Moved
<1>5. ASSUME NEW u \in Users, H!callShutdown(h, u) PROVE ServerKept(h)
  <2>1. Moved(u, "shutdown")
    BY <1>3, <1>5 DEF H!callShutdown, H!Procs, ServerStates
  <2>2. ServerTypes'
    BY <1>1, <1>5, <2>1 DEF H!callShutdown, Moved, ServerTypes
  <2>3. OneStops'
    BY <1>1, <1>4, <1>0, <1>5, <2>1 DEF H!callShutdown
  <2> QED BY <1>1, <1>2, <1>5, <2>2, <2>3 DEF H!callShutdown, ServerKept, StoppedOnce, ServerTypes, OneStops, H!Running
<1>6. ASSUME NEW p \in H!Procs, H!beginShutdown(h, p) PROVE ServerKept(h)
  <2>1. Moved(p, "drain")
    BY <1>3, <1>6 DEF H!beginShutdown, H!Procs, ServerStates
  <2>2. ServerTypes'
    BY <1>1, <1>6, <2>1 DEF H!beginShutdown, Moved, ServerTypes
  <2>3. OneStops'
    BY <1>1, <1>4, <1>0, <1>6, <2>1 DEF H!beginShutdown
  <2> QED BY <1>1, <1>2, <1>6, <2>2, <2>3 DEF H!beginShutdown, ServerKept, StoppedOnce, ServerTypes, OneStops, H!Running
<1>7. ASSUME NEW p \in H!Procs, H!drained(h, p) \/ H!drainTimesOut(h, p) PROVE ServerKept(h)
  <2>1. Moved(p, "once")
    BY <1>3, <1>7 DEF H!drained, H!drainTimesOut, H!Procs, ServerStates
  <2>2. ServerTypes'
    BY <1>1, <1>7, <2>1 DEF H!drained, H!drainTimesOut, Moved, ServerTypes
  <2>3. OneStops'
    BY <1>1, <1>4, <1>0, <1>7, <2>1 DEF H!drained, H!drainTimesOut
  <2> QED BY <1>1, <1>2, <1>7, <2>2, <2>3 DEF H!drained, H!drainTimesOut, ServerKept, StoppedOnce, ServerTypes, OneStops, H!Running
<1>8. ASSUME NEW p \in H!Procs, H!enterOnce(h, p) PROVE ServerKept(h)
  <2>1. Moved(p, "stop")
    BY <1>3, <1>8 DEF H!enterOnce, H!Procs, ServerStates
  <2>2. ServerTypes'
    BY <1>1, <1>8, <2>1 DEF H!enterOnce, H!firstCaller, H!notifyMonitor, Moved, ServerTypes
  <2>3. OneStops'
    BY <1>1, <1>8, <2>1 DEF H!enterOnce, H!firstCaller, H!notifyMonitor, Moved, OneStops, ServerTypes
  <2> QED BY <1>1, <1>2, <1>8, <2>2, <2>3 DEF H!enterOnce, H!firstCaller, H!notifyMonitor, ServerKept, StoppedOnce, ServerTypes, OneStops, H!Running
<1>9. ASSUME NEW p \in H!Procs, H!joinOnce(h, p) PROVE ServerKept(h)
  <2>1. Moved(p, H!After(p))
    BY <1>3, <1>9 DEF H!joinOnce, H!Procs, ServerStates, H!After
  <2>2. ServerTypes'
    BY <1>1, <1>9, <2>1 DEF H!joinOnce, H!After, Moved, ServerTypes
  <2>3. OneStops'
    BY <1>1, <1>4, <1>0, <1>9, <2>1 DEF H!joinOnce, H!After
  <2> QED BY <1>1, <1>2, <1>9, <2>2, <2>3 DEF H!joinOnce, H!After, ServerKept, StoppedOnce, ServerTypes, OneStops, H!Running
<1>10. ASSUME NEW p \in H!Procs, H!stop(h, p) PROVE ServerKept(h)
  <2>1. Moved(p, H!After(p))
    BY <1>3, <1>10 DEF H!stop, H!Procs, ServerStates, H!After
  <2>2. ServerTypes'
    <3>1. listener' \in [Servers -> {"none", "open", "closed"}] /\ wg' \in Int
      BY <1>1, <1>10, SMTT(40) DEF H!stop, H!releaseListener, ServerTypes
    <3> QED BY <1>1, <1>10, <2>1, <3>1 DEF H!stop, Moved, ServerTypes
  <2>3. OneStops'
    BY <1>1, <1>10, <2>1 DEF H!stop, H!After, H!releaseListener, Moved, OneStops, ServerTypes
  <2> QED BY <1>1, <1>2, <1>10, <2>2, <2>3 DEF H!stop, H!After, H!releaseListener, ServerKept, StoppedOnce, ServerTypes, OneStops, H!Running
<1>11. CASE H!monitorFires(h)
  <2>1. Moved("monitor", "shutdown")
    BY <1>3, <1>11 DEF H!monitorFires, H!Procs, ServerStates
  <2>2. ServerTypes'
    BY <1>1, <1>11, <2>1 DEF H!monitorFires, Moved, ServerTypes
  <2>3. OneStops'
    BY <1>1, <1>4, <1>0, <1>11, <2>1 DEF H!monitorFires
  <2> QED BY <1>1, <1>2, <1>11, <2>2, <2>3 DEF H!monitorFires, ServerKept, StoppedOnce, ServerTypes, OneStops, H!Running
<1>12. CASE H!monitorReleased(h)
  <2>1. Moved("monitor", "done")
    BY <1>3, <1>12 DEF H!monitorReleased, H!Procs, ServerStates
  <2>2. ServerTypes'
    BY <1>1, <1>12, <2>1 DEF H!monitorReleased, Moved, ServerTypes
  <2>3. OneStops'
    BY <1>1, <1>4, <1>0, <1>12, <2>1 DEF H!monitorReleased
  <2> QED BY <1>1, <1>2, <1>12, <2>2, <2>3 DEF H!monitorReleased, ServerKept, StoppedOnce, ServerTypes, OneStops, H!Running
<1>13. CASE H!serveListens(h)
  <2>1. Moved("serve", "serving")
    BY <1>3, <1>13 DEF H!serveListens, H!Procs, ServerStates
  <2>2. ServerTypes'
    BY <1>1, <1>13, <2>1 DEF H!serveListens, Moved, ServerTypes
  <2>3. OneStops'
    BY <1>1, <1>4, <1>0, <1>13, <2>1 DEF H!serveListens
  <2> QED BY <1>1, <1>2, <1>13, <2>2, <2>3 DEF H!serveListens, ServerKept, StoppedOnce, ServerTypes, OneStops, H!Running
<1>14. CASE H!serveClosed(h)
  <2>1. Moved("serve", "done")
    BY <1>3, <1>14 DEF H!serveClosed, H!Procs, ServerStates
  <2>2. ServerTypes'
    BY <1>1, <1>14, <2>1 DEF H!serveClosed, Moved, ServerTypes
  <2>3. OneStops'
    BY <1>1, <1>4, <1>0, <1>14, <2>1 DEF H!serveClosed
  <2> QED BY <1>1, <1>2, <1>14, <2>2, <2>3 DEF H!serveClosed, ServerKept, StoppedOnce, ServerTypes, OneStops, H!Running
<1>15. CASE H!serveFails(h)
  <2>1. Moved("serve", "shutdown")
    BY <1>3, <1>15 DEF H!serveFails, H!Procs, ServerStates
  <2>2. ServerTypes'
    BY <1>1, <1>15, <2>1 DEF H!serveFails, Moved, ServerTypes
  <2>3. OneStops'
    BY <1>1, <1>4, <1>0, <1>15, <2>1 DEF H!serveFails
  <2> QED BY <1>1, <1>2, <1>15, <2>2, <2>3 DEF H!serveFails, ServerKept, StoppedOnce, ServerTypes, OneStops, H!Running
<1>16. CASE H!request(h) \/ H!requestDone(h)
  <2>1. requests' \in [Servers -> 0..MaxRequests]
    BY <1>1, <1>16, RequestsAssumption DEF H!request, H!requestDone, H!RequestsAssumption, ServerTypes
  <2>2. ServerTypes' /\ OneStops'
    BY <1>1, <1>16, <2>1 DEF H!request, H!requestDone, ServerTypes, OneStops
  <2> QED BY <1>1, <1>2, <1>16, <2>2 DEF H!request, H!requestDone, ServerKept, StoppedOnce, H!Running
<1> QED BY <1>5, <1>6, <1>7, <1>8, <1>9, <1>10, <1>11, <1>12, <1>13, <1>14, <1>15, <1>16
        DEF H!ServerStep, H!ShutdownStep, H!MonitorStep, H!ServeStep

-----------------------------------------------------------------------------
(* Pools *)

PoolStates == {"none", "select", "lock", "close", "gone", "idle", "rlock", "check"}

\* The two halves of S!TypeOK: the types, and that one goroutine has the write lock.
PoolTypes ==
  /\ db \in [Pools -> {"unset", "failed", "set", "nil"}]
  /\ open \in [Pools -> BOOLEAN] /\ tied \in [Pools -> BOOLEAN] /\ done \in [Pools -> BOOLEAN]
  /\ at \in [Pools -> [S!Procs -> PoolStates]]
  /\ wg \in Int /\ signal \in BOOLEAN /\ ctxDone \in BOOLEAN

OneCloses ==
  \A c \in Pools : \A p, q \in S!Procs :
    (at[c][p] = "close" /\ at[c][q] = "close") => p = q /\ db[c] = "set"

LEMMA PoolTypeOK == (S!TypeOK <=> PoolTypes /\ OneCloses) /\ (S!TypeOK' <=> PoolTypes' /\ OneCloses')
  BY DEF S!TypeOK, PoolTypes, OneCloses, PoolStates

\* A step of one goroutine of one pool moves that goroutine alone.
LEMMA PoolMoves ==
  ASSUME PoolTypes, NEW c \in Pools, NEW p \in S!Procs, NEW to \in PoolStates, S!Step(c, p, to)
  PROVE  /\ at' \in [Pools -> [S!Procs -> PoolStates]]
         /\ \A d \in Pools : \A q \in S!Procs :
              at'[d][q] = IF d = c /\ q = p THEN to ELSE at[d][q]
  BY DEF PoolTypes, S!Step

\* What a step of pool c leaves behind: well-formed fields, the lock held as the code means it
\* to be, and a wait group that changed only if the pool left it.
PoolKept(c) ==
  /\ S!TypeOK' /\ LockInv'
  /\ UNCHANGED <<signal, ctxDone>>
  /\ \/ wg' = wg /\ RunningPools' = RunningPools
     \/ wg' = wg - 1 /\ c \in RunningPools /\ RunningPools' = RunningPools \ {c}

\* What a pool's goroutines do keeps its fields and its lock in order, and changes the wait
\* group only where the pool leaves it.
LEMMA PoolFields ==
  ASSUME ServiceInv, NEW c \in Pools,
         S!PoolStep(c) \/ \E u \in Users : S!UserCall(c, u)
  PROVE  PoolKept(c)
<1> USE DEF S!sharedVars
<1> DEFINE Moved(p, to) ==
      /\ at' \in [Pools -> [S!Procs -> PoolStates]]
      /\ \A d \in Pools : \A q \in S!Procs :
           at'[d][q] = IF d = c /\ q = p THEN to ELSE at[d][q]
<1>1. PoolTypes /\ OneCloses /\ LockInv
  BY PoolTypeOK DEF ServiceInv, TypeOK
<1>2. PoolTypes' /\ OneCloses' => S!TypeOK'
  BY PoolTypeOK
<1>3. ASSUME NEW p \in S!Procs, NEW to \in PoolStates, S!Step(c, p, to) PROVE Moved(p, to)
  BY <1>1, <1>3, PoolMoves
<1>4. "watcher" \in S!Procs /\ Users \subseteq S!Procs
  BY DEF S!Procs
<1> HIDE DEF Moved
<1>5. ASSUME NEW p \in S!Procs, NEW to \in PoolStates \ {"close", "check"},
             at[c][p] # "close", Moved(p, to),
             to \in {"select", "lock", "rlock"} => db[c] \in {"set", "nil"},
             UNCHANGED <<db, open, tied, done, wg, signal, ctxDone>>
      PROVE  PoolKept(c)
  <2>1. PoolTypes'
    BY <1>1, <1>5 DEF Moved, PoolTypes
  <2>2. OneCloses'
    BY <1>1, <1>5 DEF Moved, OneCloses
  <2>3. \A d \in Pools : S!Writing(d)' <=> S!Writing(d)
    BY <1>5 DEF Moved, S!Writing
  <2>4. LockInv'
    BY <1>1, <1>5, <2>3 DEF Moved, LockInv
  <2> QED BY <1>2, <1>5, <2>1, <2>2, <2>4 DEF PoolKept, RunningPools
<1>6. ASSUME NEW u \in Users, S!callShutdown(c, u) PROVE PoolKept(c)
  <2>1. Moved(u, "lock")
    BY <1>3, <1>4, <1>6 DEF S!callShutdown, PoolStates
  <2> QED BY <1>4, <1>5, <1>6, <2>1 DEF S!callShutdown, PoolStates
<1>7. ASSUME NEW u \in Users, S!callHealthCheck(c, u) PROVE PoolKept(c)
  <2>1. Moved(u, "rlock")
    BY <1>3, <1>4, <1>7 DEF S!callHealthCheck, PoolStates
  <2> QED BY <1>4, <1>5, <1>7, <2>1 DEF S!callHealthCheck, PoolStates
<1>8. CASE S!watcherFires(c)
  <2>1. Moved("watcher", "lock")
    BY <1>3, <1>4, <1>8 DEF S!watcherFires, PoolStates
  <2>2. db[c] \in {"set", "nil"}
    BY <1>1, <1>4, <1>8 DEF S!watcherFires, LockInv
  <2> QED BY <1>4, <1>5, <1>8, <2>1, <2>2 DEF S!watcherFires, PoolStates
<1>9. ASSUME NEW p \in S!Procs, S!shutdownAgain(c, p) PROVE PoolKept(c)
  <2>1. S!After(p) \in {"gone", "idle"}
    BY DEF S!After
  <2>2. Moved(p, S!After(p))
    BY <1>3, <1>9, <2>1 DEF S!shutdownAgain, PoolStates
  <2> QED BY <1>5, <1>9, <2>1, <2>2 DEF S!shutdownAgain, PoolStates
<1>10. ASSUME NEW p \in S!Procs, S!closeDB(c, p) PROVE PoolKept(c)
  <2>1. Moved(p, "close")
    BY <1>3, <1>10 DEF S!closeDB, PoolStates
  <2>2. db[c] = "set" /\ ~S!Writing(c) /\ ~S!Reading(c)
    BY <1>1, <1>10 DEF S!closeDB, S!canLock, S!alreadyDown, LockInv
  <2>3. PoolTypes'
    BY <1>1, <1>10, <2>1 DEF S!closeDB, Moved, PoolTypes
  <2>4. OneCloses'
    BY <1>1, <1>10, <2>1, <2>2 DEF S!closeDB, S!Writing, Moved, OneCloses
  <2>5. S!Writing(c)' /\ \A d \in Pools \ {c} : S!Writing(d)' <=> S!Writing(d)
    BY <2>1 DEF Moved, S!Writing
  <2>6. /\ \A d \in Pools \ {c} : open'[d] = open[d]
        /\ UNCHANGED <<db, wg, signal, ctxDone>>
    BY <1>1, <1>10 DEF S!closeDB, PoolTypes
  <2>7. LockInv'
    <3> SUFFICES ASSUME NEW d \in Pools, NEW q \in S!Procs
                 PROVE  /\ at'[d][q] \in {"select", "lock", "rlock"} => db[d] \in {"set", "nil"}
                        /\ at'[d][q] = "check" => db[d] = "set" /\ open'[d] /\ ~S!Writing(d)'
                        /\ (db[d] = "set" /\ ~S!Writing(d)') => open'[d]
      BY <2>6 DEF LockInv
    <3>1. CASE d = c
      BY <1>1, <2>1, <2>2, <2>5, <3>1 DEF Moved, LockInv, S!Reading
    <3>2. CASE d # c
      BY <1>1, <2>1, <2>5, <2>6, <3>2 DEF Moved, LockInv
    <3> QED BY <3>1, <3>2
  <2> QED BY <1>2, <2>3, <2>4, <2>6, <2>7 DEF PoolKept, RunningPools
<1>11. ASSUME NEW p \in S!Procs, S!closed(c, p) PROVE PoolKept(c)
  <2>1. S!After(p) \in {"gone", "idle"}
    BY DEF S!After
  <2>2. Moved(p, S!After(p))
    BY <1>3, <1>11, <2>1 DEF S!closed, PoolStates
  <2>3. db[c] = "set" /\ S!Writing(c)
    BY <1>1, <1>11 DEF S!closed, OneCloses, S!Writing
  <2>4. /\ db' = [db EXCEPT ![c] = "nil"] /\ wg' = wg - 1
        /\ UNCHANGED <<open, signal, ctxDone>>
    BY <1>11 DEF S!closed
  <2>5. PoolTypes'
    <3>1. db' \in [Pools -> {"unset", "failed", "set", "nil"}] /\ wg' \in Int
      BY <1>1, <2>4 DEF PoolTypes
    <3> QED BY <1>1, <1>11, <2>2, <3>1 DEF S!closed, Moved, PoolTypes
  <2>6. OneCloses'
    <3>1. \A q \in S!Procs : at'[c][q] # "close"
      BY <1>1, <1>11, <2>1, <2>2 DEF S!closed, Moved, OneCloses
    <3> QED BY <1>1, <2>2, <2>4, <3>1 DEF Moved, OneCloses, PoolTypes
  <2>7. \A d \in Pools \ {c} : S!Writing(d)' <=> S!Writing(d)
    BY <2>2 DEF Moved, S!Writing
  <2>8. LockInv'
    <3> SUFFICES ASSUME NEW d \in Pools, NEW q \in S!Procs
                 PROVE  /\ at'[d][q] \in {"select", "lock", "rlock"} => db'[d] \in {"set", "nil"}
                        /\ at'[d][q] = "check" => db'[d] = "set" /\ open[d] /\ ~S!Writing(d)'
                        /\ (db'[d] = "set" /\ ~S!Writing(d)') => open[d]
      BY <2>4 DEF LockInv
    <3>1. CASE d = c
      BY <1>1, <2>1, <2>2, <2>3, <2>4, <3>1 DEF Moved, LockInv, PoolTypes
    <3>2. CASE d # c
      BY <1>1, <2>2, <2>4, <2>7, <3>2 DEF Moved, LockInv, PoolTypes
    <3> QED BY <3>1, <3>2
  <2>9. c \in RunningPools /\ RunningPools' = RunningPools \ {c}
    BY <1>1, <2>3, <2>4 DEF RunningPools, PoolTypes
  <2> QED BY <1>2, <2>4, <2>5, <2>6, <2>8, <2>9 DEF PoolKept
<1>12. ASSUME NEW u \in Users, S!healthCheck(c, u) PROVE PoolKept(c)
  <2>1. CASE db[c] = "nil"
    <3>1. Moved(u, "idle")
      BY <1>3, <1>4, <1>12, <2>1 DEF S!healthCheck, PoolStates
    <3> QED BY <1>4, <1>5, <1>12, <3>1 DEF S!healthCheck, PoolStates
  <2>2. CASE db[c] # "nil"
    <3>1. Moved(u, "check")
      BY <1>3, <1>4, <1>12, <2>2 DEF S!healthCheck, PoolStates
    <3>2. db[c] = "set" /\ ~S!Writing(c) /\ open[c]
      BY <1>1, <1>4, <1>12, <2>2 DEF S!healthCheck, S!canRLock, LockInv
    <3>3. PoolTypes'
      BY <1>1, <1>12, <3>1 DEF S!healthCheck, Moved, PoolTypes
    <3>4. OneCloses'
      BY <1>1, <1>12, <3>1 DEF S!healthCheck, Moved, OneCloses
    <3>5. \A d \in Pools : S!Writing(d)' <=> S!Writing(d)
      BY <1>12, <3>1 DEF S!healthCheck, Moved, S!Writing
    <3>6. LockInv'
      BY <1>1, <1>12, <3>1, <3>2, <3>5 DEF S!healthCheck, Moved, LockInv
    <3> QED BY <1>2, <1>12, <3>3, <3>4, <3>6 DEF S!healthCheck, PoolKept, RunningPools
  <2> QED BY <2>1, <2>2
<1>13. ASSUME NEW u \in Users, S!checked(c, u) PROVE PoolKept(c)
  <2>1. Moved(u, "idle")
    BY <1>3, <1>4, <1>13 DEF S!checked, PoolStates
  <2> QED BY <1>4, <1>5, <1>13, <2>1 DEF S!checked, PoolStates
<1> QED BY <1>6, <1>7, <1>8, <1>9, <1>10, <1>11, <1>12, <1>13
        DEF S!PoolStep, S!ShutdownStep, S!CheckStep, S!UserCall

-----------------------------------------------------------------------------
(* Every step keeps the invariant *)

LEMMA InitKeeps == Init => ServiceInv
<1> SUFFICES ASSUME Init PROVE ServiceInv
  OBVIOUS
<1>1. /\ \A h \in Servers : proc[h] = [p \in H!Procs |-> "none"]
      /\ \A c \in Pools : at[c] = [p \in S!Procs |-> IF p = "watcher" THEN "none" ELSE "idle"]
  BY DEF Init, H!ServerInit, S!PoolInit
<1>2. /\ \A h \in Servers : \A p \in H!Procs : proc[h][p] = "none"
      /\ \A c \in Pools : \A p \in S!Procs : at[c][p] \in {"none", "idle"}
  <2>1. ASSUME NEW c \in Pools, NEW p \in S!Procs PROVE at[c][p] \in {"none", "idle"}
    <3>1. at[c][p] = IF p = "watcher" THEN "none" ELSE "idle"
      BY <1>1
    <3> QED BY <3>1
  <2> QED BY <1>1, <2>1
<1>3. /\ proc \in [Servers -> [H!Procs -> ServerStates]]
      /\ at \in [Pools -> [S!Procs -> PoolStates]]
  <2>1. [p \in H!Procs |-> "none"] \in [H!Procs -> ServerStates]
    BY DEF ServerStates
  <2>2. [p \in S!Procs |-> IF p = "watcher" THEN "none" ELSE "idle"] \in [S!Procs -> PoolStates]
    BY DEF PoolStates
  <2> QED BY <2>1, <2>2 DEF Init, H!ServerInit, S!PoolInit
<1>4. H!TypeOK /\ StoppedOnce
  <2>1. ServerTypes
    <3>1. /\ started \in [Servers -> BOOLEAN] /\ stopped \in [Servers -> BOOLEAN]
          /\ shutdownDone \in [Servers -> BOOLEAN] /\ serveErr \in [Servers -> BOOLEAN]
          /\ inShutdown \in [Servers -> BOOLEAN]
          /\ signal \in BOOLEAN /\ ctxDone \in BOOLEAN
      BY DEF Init, H!ServerInit
    <3>2. /\ listener \in [Servers -> {"none", "open", "closed"}]
          /\ once \in [Servers -> {"new", "busy", "done"}]
          /\ requests \in [Servers -> 0..MaxRequests]
          /\ wg \in Int
      BY RequestsAssumption DEF Init, H!ServerInit, H!RequestsAssumption
    <3> QED BY <1>3, <3>1, <3>2 DEF ServerTypes
  <2>2. OneStops /\ StoppedOnce
    BY <1>2 DEF Init, H!ServerInit, OneStops, StoppedOnce
  <2> QED BY <2>1, <2>2, ServerTypeOK
<1>5. S!TypeOK /\ LockInv
  <2>1. PoolTypes
    <3>1. /\ open \in [Pools -> BOOLEAN] /\ tied \in [Pools -> BOOLEAN]
          /\ done \in [Pools -> BOOLEAN] /\ signal \in BOOLEAN /\ ctxDone \in BOOLEAN
      BY DEF Init, S!PoolInit
    <3>2. db \in [Pools -> {"unset", "failed", "set", "nil"}] /\ wg \in Int
      <4>1. db = [c \in Pools |-> "unset"] /\ wg = 0
        BY DEF Init, S!PoolInit
      <4> QED BY <4>1
    <3> QED BY <1>3, <3>1, <3>2 DEF PoolTypes
  <2>2. OneCloses /\ LockInv
    BY <1>2 DEF Init, S!PoolInit, OneCloses, LockInv
  <2> QED BY <2>1, <2>2, PoolTypeOK
<1>6. TypeOK /\ BootInv
  BY <1>4, <1>5 DEF Init, TypeOK, BootInv
<1>7. H!Running = {} /\ RunningPools = {}
  BY DEF Init, H!ServerInit, S!PoolInit, H!Running, RunningPools
<1>8. WaitGroupBalanced /\ GracefulMeansStopped
  BY <1>7, FS_EmptySet DEF Init, WaitGroupBalanced, GracefulMeansStopped
<1> QED BY <1>4, <1>5, <1>6, <1>8 DEF ServiceInv

\* What the rest of the service leaves alone, seen from the servers and from the pools.
LEMMA ServersAlone ==
  ASSUME ServiceInv, UNCHANGED serverVars, wg' \in Int, signal' \in BOOLEAN, ctxDone' \in BOOLEAN
  PROVE  H!TypeOK' /\ StoppedOnce' /\ H!Running' = H!Running
<1>1. ServerTypes /\ OneStops
  BY ServerTypeOK DEF ServiceInv, TypeOK
<1>2. ServerTypes' /\ OneStops'
  BY <1>1 DEF ServerTypes, OneStops, serverVars
<1> QED BY <1>2, ServerTypeOK DEF ServiceInv, StoppedOnce, serverVars, H!Running

LEMMA PoolsAlone ==
  ASSUME ServiceInv, UNCHANGED poolVars, wg' \in Int, signal' \in BOOLEAN, ctxDone' \in BOOLEAN
  PROVE  S!TypeOK' /\ LockInv' /\ RunningPools' = RunningPools
<1>1. PoolTypes /\ OneCloses
  BY PoolTypeOK DEF ServiceInv, TypeOK
<1>2. PoolTypes' /\ OneCloses'
  BY <1>1 DEF PoolTypes, OneCloses, poolVars
<1> QED BY <1>2, PoolTypeOK DEF ServiceInv, LockInv, S!Writing, poolVars, RunningPools

\* A step that changes neither servers nor pools, nor the group they share.
LEMMA DependantsAlone ==
  ASSUME ServiceInv, UNCHANGED <<serverVars, poolVars, wg>>,
         signal' \in BOOLEAN, ctxDone' \in BOOLEAN
  PROVE  /\ H!TypeOK' /\ StoppedOnce' /\ S!TypeOK' /\ LockInv' /\ WaitGroupBalanced'
         /\ AllStopped' <=> AllStopped
<1>1. wg' \in Int
  BY DEF ServiceInv, TypeOK, H!TypeOK
<1>2. H!TypeOK' /\ StoppedOnce' /\ H!Running' = H!Running
  BY <1>1, ServersAlone
<1>3. S!TypeOK' /\ LockInv' /\ RunningPools' = RunningPools
  BY <1>1, PoolsAlone
<1>4. WaitGroupBalanced'
  BY <1>2, <1>3, SameBalance DEF ServiceInv
<1> QED BY <1>2, <1>3, <1>4 DEF AllStopped

\* bindFn opens pools and starts servers: each joins the wait group once.
LEMMA BindServerKeeps ==
  ASSUME ServiceInv, NEW h \in Servers, bindServer(h)
  PROVE  ServiceInv'
<1> USE DEF H!sharedVars
<1>1. ServerTypes /\ OneStops /\ StoppedOnce
  BY ServerTypeOK DEF ServiceInv, TypeOK
<1>2. UNCHANGED <<poolVars, bootVars, signal, ctxDone>>
  BY DEF bindServer, H!New, H!StartServerCtx
<1>3. boot = "bind" /\ ~completed /\ ~failed
  BY DEF bindServer, ServiceInv, BootInv
<1>4. /\ H!TypeOK' /\ StoppedOnce'
      /\ \/ wg' = wg /\ H!Running' = H!Running
         \/ wg' = wg + 1 /\ h \notin H!Running /\ H!Running' = H!Running \union {h}
  <2>1. CASE H!New(h)
    <3>1. ServerTypes' /\ OneStops'
      BY <1>1, <2>1 DEF H!New, ServerTypes, OneStops
    <3> QED BY <1>1, <2>1, <3>1, ServerTypeOK DEF H!New, StoppedOnce, H!Running
  <2>2. CASE H!StartServerCtx(h)
    <3>1. /\ proc' \in [Servers -> [H!Procs -> ServerStates]]
          /\ \A g \in Servers : \A q \in H!Procs : proc'[g][q] = "stop" => proc[g][q] = "stop"
      BY <1>1, <2>2 DEF H!StartServerCtx, ServerTypes, ServerStates, H!Procs
    <3>2. started' = [started EXCEPT ![h] = TRUE] /\ wg' = wg + 1
      BY <2>2 DEF H!StartServerCtx
    <3>3. started' \in [Servers -> BOOLEAN] /\ wg' \in Int
      BY <1>1, <3>2 DEF ServerTypes
    <3>4. ServerTypes'
      BY <1>1, <2>2, <3>1, <3>3 DEF H!StartServerCtx, ServerTypes
    <3>5. OneStops' /\ StoppedOnce'
      BY <1>1, <2>2, <3>1 DEF H!StartServerCtx, OneStops, StoppedOnce
    <3>6. ~started[h] /\ once[h] # "done" /\ once' = once
      BY <1>1, <2>2 DEF H!StartServerCtx, H!startable, StoppedOnce
    <3>7. h \notin H!Running /\ H!Running' = H!Running \union {h}
      BY <1>1, <3>2, <3>6 DEF H!Running, ServerTypes
    <3> QED BY <3>2, <3>4, <3>5, <3>7, ServerTypeOK
  <2> QED BY <2>1, <2>2 DEF bindServer
<1>5. wg' \in Int /\ signal' \in BOOLEAN /\ ctxDone' \in BOOLEAN
  BY <1>4 DEF H!TypeOK
<1>6. S!TypeOK' /\ LockInv' /\ RunningPools' = RunningPools
  BY <1>2, <1>5, PoolsAlone
<1>7. WaitGroupBalanced'
  BY <1>4, <1>6, SameBalance, Joined DEF ServiceInv
<1>8. TypeOK' /\ BootInv' /\ GracefulMeansStopped'
  BY <1>2, <1>3, <1>4, <1>6 DEF ServiceInv, TypeOK, BootInv, GracefulMeansStopped, bootVars
<1> QED BY <1>4, <1>6, <1>7, <1>8 DEF ServiceInv

LEMMA BindPoolKeeps ==
  ASSUME ServiceInv, NEW c \in Pools, bindPool(c)
  PROVE  ServiceInv'
<1> USE DEF S!sharedVars
<1>1. PoolTypes /\ OneCloses /\ LockInv
  BY PoolTypeOK DEF ServiceInv, TypeOK
<1>2. UNCHANGED <<serverVars, bootVars, signal, ctxDone>> /\ wg' = wg + 1
  BY DEF bindPool, S!connect
<1>3. boot = "bind" /\ ~completed /\ ~failed
  BY DEF bindPool, ServiceInv, BootInv
<1>4. /\ at' \in [Pools -> [S!Procs -> PoolStates]]
      /\ \A d \in Pools : \A q \in S!Procs :
           at'[d][q] = IF d = c /\ q = "watcher" THEN "select" ELSE at[d][q]
  <2>1. "watcher" \in S!Procs /\ "select" \in PoolStates
    BY DEF S!Procs, PoolStates
  <2>2. S!Step(c, "watcher", "select")
    BY DEF bindPool, S!connect
  <2> QED BY <1>1, <2>1, <2>2, PoolMoves
<1>5. /\ db[c] = "unset" /\ db' = [db EXCEPT ![c] = "set"]
      /\ open' = [open EXCEPT ![c] = TRUE]
      /\ tied' \in [Pools -> BOOLEAN] /\ done' = done
  BY <1>1 DEF bindPool, S!connect, PoolTypes
<1>6. PoolTypes'
  <2>1. db' \in [Pools -> {"unset", "failed", "set", "nil"}] /\ wg' \in Int
    BY <1>1, <1>2, <1>5 DEF PoolTypes
  <2> QED BY <1>1, <1>2, <1>4, <1>5, <2>1 DEF PoolTypes
<1>7. OneCloses'
  BY <1>1, <1>4, <1>5 DEF OneCloses, PoolTypes
<1>8. \A d \in Pools : S!Writing(d)' => S!Writing(d)
  BY <1>4 DEF S!Writing
<1>9. LockInv'
  <2> SUFFICES ASSUME NEW d \in Pools, NEW q \in S!Procs
               PROVE  /\ at'[d][q] \in {"select", "lock", "rlock"} => db'[d] \in {"set", "nil"}
                      /\ at'[d][q] = "check" => db'[d] = "set" /\ open'[d] /\ ~S!Writing(d)'
                      /\ (db'[d] = "set" /\ ~S!Writing(d)') => open'[d]
    BY DEF LockInv
  <2>1. CASE d = c
    BY <1>1, <1>4, <1>5, <1>8, <2>1 DEF LockInv, PoolTypes
  <2>2. CASE d # c
    <3>1. S!Writing(d)' <=> S!Writing(d)
      BY <1>4, <2>2 DEF S!Writing
    <3> QED BY <1>1, <1>4, <1>5, <2>2, <3>1 DEF LockInv, PoolTypes
  <2> QED BY <2>1, <2>2
<1>10. c \notin RunningPools /\ RunningPools' = RunningPools \union {c}
  BY <1>1, <1>5 DEF RunningPools, PoolTypes
<1>11. H!TypeOK' /\ StoppedOnce' /\ H!Running' = H!Running
  BY <1>2, <1>6, ServersAlone DEF PoolTypes
<1>12. WaitGroupBalanced'
  BY <1>2, <1>10, <1>11, Joined DEF ServiceInv
<1>13. TypeOK' /\ BootInv' /\ GracefulMeansStopped'
  BY <1>2, <1>3, <1>6, <1>7, <1>11, PoolTypeOK
     DEF ServiceInv, TypeOK, BootInv, GracefulMeansStopped, bootVars
<1> QED BY <1>9, <1>11, <1>12, <1>13 DEF ServiceInv

LEMMA BindPoolFailsKeeps ==
  ASSUME ServiceInv, NEW c \in Pools, bindPoolFails(c)
  PROVE  ServiceInv'
<1> USE DEF S!sharedVars
<1>1. PoolTypes /\ OneCloses /\ LockInv
  BY PoolTypeOK DEF ServiceInv, TypeOK
<1>2. /\ UNCHANGED <<serverVars, open, tied, done, at, wg, signal, ctxDone, quit, completed>>
      /\ db[c] = "unset" /\ db' = [db EXCEPT ![c] = "failed"]
      /\ boot = "bind" /\ boot' = "metrics" /\ failed' = TRUE
  BY DEF bindPoolFails, S!connectFails
<1>3. PoolTypes'
  <2>1. db' \in [Pools -> {"unset", "failed", "set", "nil"}]
    BY <1>1, <1>2 DEF PoolTypes
  <2> QED BY <1>1, <1>2, <2>1 DEF PoolTypes
<1>4. OneCloses' /\ LockInv'
  BY <1>1, <1>2 DEF OneCloses, LockInv, S!Writing, PoolTypes
<1>5. RunningPools' = RunningPools
  BY <1>1, <1>2 DEF RunningPools, PoolTypes
<1>6. H!TypeOK' /\ StoppedOnce' /\ H!Running' = H!Running
  BY <1>2, <1>3, ServersAlone DEF PoolTypes
<1>7. WaitGroupBalanced'
  BY <1>2, <1>5, <1>6, SameBalance DEF ServiceInv
<1>8. ~signal /\ ~completed
  BY <1>2 DEF ServiceInv, BootInv
<1>9. TypeOK' /\ BootInv' /\ GracefulMeansStopped'
  BY <1>2, <1>3, <1>4, <1>6, <1>8, PoolTypeOK
     DEF ServiceInv, TypeOK, BootInv, GracefulMeansStopped
<1> QED BY <1>4, <1>6, <1>7, <1>9 DEF ServiceInv

\* Bootstrap itself, the operating system and the caller's context touch no dependant: what
\* is reported as complete was waited for.
LEMMA BootKeeps ==
  ASSUME ServiceInv,
         bindFails \/ bindReturns \/ BootStep \/ syncWaitGroup \/ osSignal \/ parentCancelled
  PROVE  ServiceInv'
<1> USE DEF sharedVars, bootVars
<1>1. UNCHANGED <<serverVars, poolVars, wg>>
  BY DEF bindFails, bindReturns, BootStep, waitForShutdown, closeSignal, cancel, syncTimesOut,
         closeMetricsClient, syncWaitGroup, osSignal, parentCancelled
<1>2. signal \in BOOLEAN /\ ctxDone \in BOOLEAN
  BY DEF ServiceInv, TypeOK, H!TypeOK
<1>3. signal' \in BOOLEAN /\ ctxDone' \in BOOLEAN
  BY <1>2 DEF bindFails, bindReturns, BootStep, waitForShutdown, closeSignal, broadcast, cancel,
         syncTimesOut, closeMetricsClient, syncWaitGroup, osSignal, parentCancelled
<1>4. /\ H!TypeOK' /\ StoppedOnce' /\ S!TypeOK' /\ LockInv' /\ WaitGroupBalanced'
      /\ AllStopped' <=> AllStopped
  BY <1>1, <1>3, DependantsAlone
<1>5. /\ boot' \in {"bind", "wait", "broadcast", "cancel", "sync", "metrics", "returned"}
      /\ quit' \in BOOLEAN /\ completed' \in BOOLEAN /\ failed' \in BOOLEAN
      /\ BootInv'
      /\ completed' => completed \/ wg = 0
  <2>1. CASE bindFails
    BY <1>2, <2>1 DEF ServiceInv, TypeOK, BootInv, bindFails
  <2>2. CASE bindReturns
    BY <1>2, <2>2 DEF ServiceInv, TypeOK, BootInv, bindReturns
  <2>3. CASE waitForShutdown
    BY <1>2, <2>3 DEF ServiceInv, TypeOK, BootInv, waitForShutdown
  <2>4. CASE closeSignal
    BY <1>2, <2>4 DEF ServiceInv, TypeOK, BootInv, closeSignal, broadcast
  <2>5. CASE cancel \/ syncTimesOut \/ closeMetricsClient
    BY <1>2, <2>5 DEF ServiceInv, TypeOK, BootInv, cancel, syncTimesOut, closeMetricsClient
  <2>6. CASE syncWaitGroup
    BY <1>2, <2>6 DEF ServiceInv, TypeOK, BootInv, syncWaitGroup, waited
  <2>7. CASE osSignal
    BY <1>2, <2>7 DEF ServiceInv, TypeOK, BootInv, osSignal
  <2>8. CASE parentCancelled
    BY <1>2, <2>8 DEF ServiceInv, TypeOK, BootInv, parentCancelled
  <2> QED BY <2>1, <2>2, <2>3, <2>4, <2>5, <2>6, <2>7, <2>8 DEF BootStep
<1>6. TypeOK'
  BY <1>4, <1>5 DEF TypeOK, BootInv
<1>7. GracefulMeansStopped'
  BY <1>4, <1>5, NobodyLeft DEF ServiceInv, GracefulMeansStopped
<1> QED BY <1>4, <1>5, <1>6, <1>7 DEF ServiceInv

\* A server, or who calls it, moves.
LEMMA ServerKeeps ==
  ASSUME ServiceInv, NEW h \in Servers, UNCHANGED <<poolVars, bootVars>>,
         H!ServerStep(h) \/ \E u \in Users : H!callShutdown(h, u)
  PROVE  ServiceInv'
<1>1. ServerKept(h)
  BY ServerFields
<1>2. wg' \in Int /\ signal' \in BOOLEAN /\ ctxDone' \in BOOLEAN
  BY <1>1 DEF ServerKept, H!TypeOK
<1>3. S!TypeOK' /\ LockInv' /\ RunningPools' = RunningPools
  BY <1>2, PoolsAlone
<1>4. WaitGroupBalanced'
  BY <1>1, <1>3, SameBalance, Left DEF ServerKept, ServiceInv
<1>5. AllStopped => AllStopped'
  BY <1>1, <1>3 DEF ServerKept, AllStopped
<1>6. TypeOK' /\ BootInv' /\ GracefulMeansStopped'
  BY <1>1, <1>3, <1>5
     DEF ServerKept, ServiceInv, TypeOK, BootInv, GracefulMeansStopped, bootVars
<1> QED BY <1>1, <1>3, <1>4, <1>6 DEF ServerKept, ServiceInv

\* A pool, or who calls it, moves.
LEMMA PoolKeeps ==
  ASSUME ServiceInv, NEW c \in Pools, UNCHANGED <<serverVars, bootVars>>,
         S!PoolStep(c) \/ \E u \in Users : S!UserCall(c, u)
  PROVE  ServiceInv'
<1>1. PoolKept(c)
  BY PoolFields
<1>2. wg' \in Int /\ signal' \in BOOLEAN /\ ctxDone' \in BOOLEAN
  BY <1>1 DEF PoolKept, S!TypeOK
<1>3. H!TypeOK' /\ StoppedOnce' /\ H!Running' = H!Running
  BY <1>2, ServersAlone
<1>4. WaitGroupBalanced'
  BY <1>1, <1>3, SameBalance, Left DEF PoolKept, ServiceInv
<1>5. AllStopped => AllStopped'
  BY <1>1, <1>3 DEF PoolKept, AllStopped
<1>6. TypeOK' /\ BootInv' /\ GracefulMeansStopped'
  BY <1>1, <1>3, <1>5
     DEF PoolKept, ServiceInv, TypeOK, BootInv, GracefulMeansStopped, bootVars
<1> QED BY <1>1, <1>3, <1>4, <1>6 DEF PoolKept, ServiceInv

LEMMA NextKeeps == ServiceInv /\ [Next]_vars => ServiceInv'
<1> SUFFICES ASSUME ServiceInv, [Next]_vars PROVE ServiceInv'
  OBVIOUS
<1>1. CASE UNCHANGED vars
  <2>1. UNCHANGED <<serverVars, poolVars, wg, signal, ctxDone, bootVars>>
    BY <1>1 DEF vars, sharedVars
  <2>2. signal' \in BOOLEAN /\ ctxDone' \in BOOLEAN
    BY <2>1 DEF ServiceInv, TypeOK, H!TypeOK
  <2>3. /\ H!TypeOK' /\ StoppedOnce' /\ S!TypeOK' /\ LockInv' /\ WaitGroupBalanced'
        /\ AllStopped' <=> AllStopped
    BY <2>1, <2>2, DependantsAlone
  <2> QED BY <2>1, <2>3 DEF ServiceInv, TypeOK, BootInv, GracefulMeansStopped, bootVars
<1>2. ASSUME NEW h \in Servers, bindServer(h) PROVE ServiceInv'
  BY <1>2, BindServerKeeps
<1>3. ASSUME NEW c \in Pools, bindPool(c) \/ bindPoolFails(c) PROVE ServiceInv'
  BY <1>3, BindPoolKeeps, BindPoolFailsKeeps
<1>4. ASSUME NEW h \in Servers, H!ServerStep(h), UNCHANGED <<poolVars, bootVars>> PROVE ServiceInv'
  BY <1>4, ServerKeeps
<1>5. ASSUME NEW c \in Pools, S!PoolStep(c), UNCHANGED <<serverVars, bootVars>> PROVE ServiceInv'
  BY <1>5, PoolKeeps
<1>6. ASSUME NEW u \in Users, NEW h \in Servers, shutdownServer(h, u) PROVE ServiceInv'
  BY <1>6, ServerKeeps DEF shutdownServer
<1>7. ASSUME NEW u \in Users, NEW c \in Pools, usePool(c, u) PROVE ServiceInv'
  BY <1>7, PoolKeeps DEF usePool
<1> QED BY <1>1, <1>2, <1>3, <1>4, <1>5, <1>6, <1>7, BootKeeps DEF Next, Bind, Terminated

LEMMA Invariant == Spec => []ServiceInv
  BY InitKeeps, NextKeeps, PTL DEF Spec

-----------------------------------------------------------------------------
(* The theorems *)

\* Every variable keeps its type, and one goroutine at a time is in the body of shutdownOnce of
\* a server or has the write lock of a pool (httpserver.go Shutdown, sqlconn.go Shutdown).
THEOREM TypeCorrect == Spec => []TypeOK
<1>1. ServiceInv => TypeOK
  BY DEF ServiceInv
<1> QED BY <1>1, Invariant, PTL

\* The wait group counts the servers and the pools that run: each one that joined leaves it
\* once, whoever shuts it down (httpserver.go Shutdown, sqlconn.go Shutdown).
THEOREM GroupIsBalanced == Spec => []WaitGroupBalanced
<1>1. ServiceInv => WaitGroupBalanced
  BY DEF ServiceInv
<1> QED BY <1>1, Invariant, PTL

\* A Bootstrap whose wait ended without a timeout has every dependant stopped, and they stay
\* stopped (bootstrap.go syncWaitGroupTimeout).
THEOREM GracefulShutdown == Spec => []GracefulMeansStopped
<1>1. ServiceInv => GracefulMeansStopped
  BY DEF ServiceInv
<1> QED BY <1>1, Invariant, PTL

\* A health check that has the read lock has an open handle until it ends (sqlconn.go
\* HealthCheck).
THEOREM ChecksUseAnOpenHandle == Spec => []CheckedHandleIsOpen
<1>1. ServiceInv => CheckedHandleIsOpen
  BY DEF ServiceInv, LockInv, CheckedHandleIsOpen, S!CheckedHandleIsOpen, S!Reading
<1> QED BY <1>1, Invariant, PTL

=============================================================================
