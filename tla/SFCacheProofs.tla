---------------------------- MODULE SFCacheProofs ----------------------------
(***************************************************************************)
(* Proofs about SFCache, for every set of callers and keys, every size,    *)
(* TTL and stale window, and every bound.                                  *)
(***************************************************************************)
EXTENDS SFCache, TLAPS, FiniteSetTheorems, WellFoundedInduction

-----------------------------------------------------------------------------
(* Type correctness *)

USE DEF Times

\* The initial state is well typed.
LEMMA TypeInit == Init => TypeOK
  BY ConfigAssumption, BoundsAssumption
  DEF Init, TypeOK, Entries, Captures, Results, Answers, Histories, NoEntry, NoStale, NoRes, NoRet, NoHist, PCs, FlightIds

\* drop keeps the map and the queues well typed.
LEMMA DropType ==
  ASSUME TypeOK, NEW k \in Keys, drop(k)
  PROVE  /\ keymap' \in [Keys -> Entries]
         /\ values' \subseteq Keys /\ stale' \subseteq Keys /\ residue' \subseteq Keys
  BY DEF TypeOK, drop, NoEntry, Entries

\* store keeps the map and the queues well typed.
LEMMA StoreType ==
  ASSUME TypeOK, NEW k \in Keys, NEW e \in Entries, store(k, e)
  PROVE  /\ keymap' \in [Keys -> Entries]
         /\ values' \subseteq Keys /\ stale' \subseteq Keys /\ residue' \subseteq Keys
  BY DEF TypeOK, store

\* Returning from Lookup keeps the locals well typed.
LEMMA ReturnType ==
  ASSUME TypeOK, NEW g \in Goroutines,
         NEW r \in Answers,
         Return(g, r)
  PROVE  /\ pc' \in [Goroutines -> PCs]
         /\ ret' \in [Goroutines -> Answers]
         /\ fl' \in [Goroutines -> Nat]
         /\ res' \in [Goroutines -> Results]
         /\ cap' \in [Goroutines -> Captures]
         /\ waited' \in [Goroutines -> BOOLEAN]
         /\ ctxErr' \in [Goroutines -> BOOLEAN]
         /\ ended' \in [Goroutines -> BOOLEAN]
         /\ key' = key /\ bar' = bar /\ seen' = seen
         /\ \A h \in Goroutines : pc'[h] \notin {"idle", "release"} => key'[h] \in Keys
  BY DEF TypeOK, Return, PCs, NoRes, NoStale, Results, Captures

\* A cached entry is a well-typed answer.
LEMMA CachedType ==
  ASSUME NEW e \in Entries
  PROVE  Cached(e) \in Answers
  BY DEF Cached, Entries, Answers

\* What staleFrom captures is well typed.
LEMMA StaleFromType ==
  ASSUME NEW e \in Entries
  PROVE  staleFrom(e) \in Captures
  BY ConfigAssumption DEF staleFrom, Entries, Captures, NoStale, revived

\* Every step keeps the state well typed.
LEMMA TypeNext == TypeOK /\ [Next]_vars => TypeOK'
<1> SUFFICES ASSUME TypeOK, [Next]_vars PROVE TypeOK'
  OBVIOUS
<1> USE ConfigAssumption, BoundsAssumption, GoroutinesAssumption
<1>1. ASSUME NEW g \in Goroutines, NEW k \in Keys, Lookup(g, k) PROVE TypeOK'
  <2>1. ended' \in [Goroutines -> BOOLEAN]
    <3>1. PICK dead \in BOOLEAN : ended' = [ended EXCEPT ![g] = dead]
      BY <1>1 DEF Lookup
    <3> QED
      BY <3>1 DEF TypeOK
  <2>2. seen' \in [Goroutines -> SUBSET FlightIds]
    BY <1>1 DEF Lookup, TypeOK
  <2>3. /\ pc' \in [Goroutines -> PCs]
        /\ key' \in [Goroutines -> Keys \union {NoKey}]
        /\ \A h \in Goroutines : pc'[h] \notin {"idle", "release"} => key'[h] \in Keys
    BY <1>1 DEF Lookup, TypeOK, PCs
  <2>4. calls' \in 0 .. MaxCalls
    BY <1>1 DEF Lookup, TypeOK
  <2>5. bar' \in [Goroutines -> Nat]
    BY <1>1 DEF Lookup, TypeOK
  <2>6. ret' \in [Goroutines -> Answers]
    BY <1>1 DEF Lookup, TypeOK, NoRet, Answers
  <2> QED
    BY <1>1, <2>1, <2>2, <2>3, <2>4, <2>5, <2>6 DEF Lookup, TypeOK, cacheVars
<1>2. ASSUME NEW g \in Goroutines, NEW k \in Keys, Remove(g, k) PROVE TypeOK'
  <2>1. drop(k)
    BY <1>2 DEF Remove
  <2> QED
    BY <1>2, <2>1, DropType DEF Remove, TypeOK, PCs, callVars, deregister
<1>3. ASSUME NEW g \in Goroutines, RejectKey(g) PROVE TypeOK'
  BY <1>3 DEF RejectKey, TypeOK, Answers, cacheVars, callVars
<1>4. ASSUME NEW g \in Goroutines, Reset(g) PROVE TypeOK'
  BY <1>4 DEF Reset, TypeOK, PCs, callVars, Entries, NoEntry
<1>5. ASSUME NEW g \in Goroutines, PurgeExpired(g) PROVE TypeOK'
  BY <1>5 DEF PurgeExpired, TypeOK, callVars, Entries, NoEntry
<1>6. ASSUME NEW g \in Goroutines, fresh(g) PROVE TypeOK'
  <2>1. Cached(keymap[key[g]]) \in Answers
    BY <1>6, CachedType DEF fresh, TypeOK
  <2>2. CASE Return(g, Cached(keymap[key[g]]))
    BY <1>6, <2>1, <2>2, ReturnType DEF fresh, TypeOK, cacheVars
  <2>3. CASE pc' = [pc EXCEPT ![g] = "check"] /\ UNCHANGED <<callVars, fl, res, ret>>
    BY <1>6, <2>3 DEF fresh, TypeOK, PCs, cacheVars, callVars
  <2> QED
    BY <1>6, <2>2, <2>3 DEF fresh
<1>7. ASSUME NEW g \in Goroutines, checkContext(g) PROVE TypeOK'
  BY <1>7 DEF checkContext, TypeOK, PCs, cacheVars
<1>8. ASSUME NEW g \in Goroutines, slowServe(g) PROVE TypeOK'
  <2>1. Cached(keymap[key[g]]) \in Answers
    BY <1>8, CachedType DEF slowServe, TypeOK
  <2>2. Return(g, Cached(keymap[key[g]]))
    BY <1>8 DEF slowServe
  <2> QED
    BY <1>8, <2>1, <2>2, ReturnType DEF slowServe, TypeOK, cacheVars
<1>9. ASSUME NEW g \in Goroutines, slowJoin(g) PROVE TypeOK'
  BY <1>9 DEF slowJoin, TypeOK, PCs, cacheVars, callVars
<1>10. ASSUME NEW g \in Goroutines, startAborted(g) PROVE TypeOK'
  <2>1. Return(g, [kind |-> "aborted", val |-> 0, fl |-> 0])
    BY <1>10 DEF startAborted
  <2> QED
    BY <1>10, <2>1, ReturnType DEF startAborted, TypeOK, Answers, cacheVars
<1>11. ASSUME NEW g \in Goroutines, startFlight(g) PROVE TypeOK'
  <2>1. key[g] \in Keys /\ drop(key[g])
    BY <1>11 DEF startFlight, TypeOK
  <2>2. staleFrom(keymap[key[g]]) \in Captures
    BY <2>1, StaleFromType DEF TypeOK
  <2>3. /\ pc' \in [Goroutines -> PCs]
        /\ \A h \in Goroutines : pc'[h] \notin {"idle", "release"} => key'[h] \in Keys
    BY <1>11, <2>1 DEF startFlight, TypeOK, PCs
  <2>4. hist' \in [FlightIds -> Histories]
    <3>1. hist' = [hist EXCEPT ![nflights + 1] =
                     [key |-> key[g], kind |-> "run", expireAt |-> 0, failedAt |-> 0]]
      BY <1>11 DEF startFlight
    <3> QED
      BY <2>1, <3>1 DEF TypeOK, Histories
  <2>5. cap' \in [Goroutines -> Captures]
    BY <1>11, <2>2 DEF startFlight, TypeOK
  <2>6. nflights' \in Nat /\ flights' \in [Keys -> Nat] /\ fl' \in [Goroutines -> Nat]
    <3>1. nflights \in Nat /\ flights \in [Keys -> Nat] /\ fl \in [Goroutines -> Nat]
      BY DEF TypeOK
    <3>2. /\ nflights' = nflights + 1
          /\ flights' = [flights EXCEPT ![key[g]] = nflights + 1]
          /\ fl' = [fl EXCEPT ![g] = nflights + 1]
      BY <1>11 DEF startFlight
    <3>3. nflights' \in Nat
      BY <3>1, <3>2
    <3>4. flights' \in [Keys -> Nat]
      BY <2>1, <3>1, <3>2
    <3>5. fl' \in [Goroutines -> Nat]
      BY <3>1, <3>2
    <3> QED
      BY <3>3, <3>4, <3>5
  <2> QED
    BY <1>11, <2>1, <2>3, <2>4, <2>5, <2>6, DropType DEF startFlight, TypeOK
<1>12. ASSUME NEW g \in Goroutines, awaitDone(g) PROVE TypeOK'
  BY <1>12 DEF awaitDone, TypeOK, PCs, cacheVars
<1>13. ASSUME NEW g \in Goroutines, awaitAborted(g) PROVE TypeOK'
  <2>1. Return(g, [kind |-> "aborted", val |-> 0, fl |-> 0])
    BY <1>13 DEF awaitAborted
  <2> QED
    BY <1>13, <2>1, ReturnType DEF awaitAborted, TypeOK, Answers, cacheVars
<1>14. ASSUME NEW g \in Goroutines, abortFlight(g) PROVE TypeOK'
  <2>1. flights' \in [Keys -> Nat]
    <3>1. flights \in [Keys -> Nat]
      BY DEF TypeOK
    <3> QED
      BY <1>14, <3>1 DEF abortFlight, deregister
  <2>2. /\ pc' \in [Goroutines -> PCs]
        /\ \A h \in Goroutines : pc'[h] \notin {"idle", "release"} => key'[h] \in Keys
    BY <1>14 DEF abortFlight, TypeOK, PCs, callVars
  <2> QED
    BY <1>14, <2>1, <2>2 DEF abortFlight, TypeOK, cacheVars, callVars
<1>15. ASSUME NEW g \in Goroutines, publishSuperseded(g) PROVE TypeOK'
  BY <1>15 DEF publishSuperseded, TypeOK, PCs, cacheVars, callVars
<1>16. ASSUME NEW g \in Goroutines, publish(g) PROVE TypeOK'
  <2>1. hist' \in [FlightIds -> Histories]
    <3>1. now \in Nat /\ hist \in [FlightIds -> Histories]
      BY DEF TypeOK
    <3>2. \A f \in FlightIds : failed(hist[f]) \in Histories
      BY <3>1 DEF failed, Histories
    <3> QED
      BY <1>16, <3>1, <3>2 DEF publish
  <2>2. staleUntilOf(cap[g]) \in Nat
    BY DEF staleUntilOf, TypeOK, Captures
  <2>3. res' \in [Goroutines -> Results]
    BY <1>16, <2>2 DEF publish, TypeOK, Results
  <2>4. /\ pc' \in [Goroutines -> PCs]
        /\ \A h \in Goroutines : pc'[h] \notin {"idle", "release"} => key'[h] \in Keys
    BY <1>16 DEF publish, TypeOK, PCs, callVars
  <2>5. flights' \in [Keys -> Nat] /\ mux' \in Goroutines \union {NoGoroutine}
    BY <1>16 DEF publish, deregister, TypeOK
  <2> QED
    BY <1>16, <2>1, <2>3, <2>4, <2>5 DEF publish, TypeOK, cacheVars, callVars
<1>17. ASSUME NEW g \in Goroutines, evict(g) PROVE TypeOK'
  <2>1. PICK v \in Keys : drop(v)
    BY <1>17 DEF evict, HeldKeys
  <2> QED
    BY <1>17, <2>1, DropType DEF evict, TypeOK, callVars
<1>18. ASSUME NEW g \in Goroutines, set(g) PROVE TypeOK'
  <2>1. key[g] \in Keys
    BY <1>18 DEF set, TypeOK
  <2>2. Outcome(g) \in Entries
    BY DEF Outcome, Entries, TypeOK, Results, Captures
  <2>3. store(key[g], Outcome(g))
    BY <1>18 DEF set
  <2>4. hist' \in [FlightIds -> Histories]
    <3>1. now \in Nat /\ hist \in [FlightIds -> Histories] /\ res[g].ttl \in Nat
      BY DEF TypeOK, Results
    <3>2. \A f \in FlightIds : stored(hist[f], res[g].ttl) \in Histories
      BY <3>1 DEF stored, Histories
    <3> QED
      BY <1>18, <3>1, <3>2 DEF set
  <2>5. /\ pc' \in [Goroutines -> PCs]
        /\ \A h \in Goroutines : pc'[h] \notin {"idle", "release"} => key'[h] \in Keys
    BY <1>18, <2>1 DEF set, TypeOK, PCs, callVars
  <2> QED
    BY <1>18, <2>1, <2>2, <2>3, <2>4, <2>5, StoreType DEF set, TypeOK, callVars
<1>19. ASSUME NEW g \in Goroutines, finish(g) PROVE TypeOK'
  <2>1. Produced(g) \in Answers
    BY DEF Produced, TypeOK, Answers, Captures
  <2>2. Return(g, Produced(g))
    BY <1>19 DEF finish
  <2>3. done' \subseteq Nat
    BY <1>19 DEF finish, finishes, TypeOK
  <2> QED
    BY <1>19, <2>1, <2>2, <2>3, ReturnType DEF finish, TypeOK, cacheVars
<1>20. ASSUME NEW g \in Goroutines, release(g) PROVE TypeOK'
  BY <1>20 DEF release, TypeOK, PCs, cacheVars, callVars
<1>21. ASSUME NEW g \in Goroutines, lookupFn(g) PROVE TypeOK'
  <2>1. PICK o \in Outcomes(g) :
          /\ res' = [res EXCEPT ![g] = o]
          /\ pc' = [pc EXCEPT ![g] = IF o.kind = "panic" THEN "abort" ELSE "publish"]
          /\ hist' = [hist EXCEPT ![fl[g]] = over(@, o.kind)]
    BY <1>21 DEF lookupFn
  <2>2. o \in Results
    <3>1. o \in [kind : {"ok", "fail", "ctx", "panic"}, ttl : TTLs \union {0}, until : {0}]
      BY <2>1, Zenon DEF Outcomes
    <3>2. TTLs \union {0} \subseteq Nat
      OBVIOUS
    <3>3. /\ o = [kind |-> o.kind, ttl |-> o.ttl, until |-> o.until]
          /\ o.kind \in {"ok", "fail", "ctx", "panic"}
          /\ o.ttl \in TTLs \union {0} /\ o.until \in {0}
      BY <3>1
    <3> QED
      BY <3>2, <3>3 DEF Results
  <2>3. hist' \in [FlightIds -> Histories]
    BY <2>1, <2>2 DEF over, TypeOK, Histories, Results
  <2>4. res' \in [Goroutines -> Results]
    BY <2>1, <2>2 DEF TypeOK
  <2>5. /\ pc' \in [Goroutines -> PCs]
        /\ \A h \in Goroutines : pc'[h] \notin {"idle", "release"} => key'[h] \in Keys
    BY <1>21, <2>1 DEF lookupFn, TypeOK, PCs, callVars
  <2> QED
    BY <1>21, <2>3, <2>4, <2>5 DEF lookupFn, TypeOK, cacheVars, callVars
<1>22. ASSUME NEW g \in Goroutines, endContext(g) PROVE TypeOK'
  BY <1>22 DEF endContext, TypeOK, cacheVars
<1>23. CASE Tick
  BY <1>23 DEF Tick, TypeOK, cacheVars, callVars
<1>24. CASE UNCHANGED vars
  BY <1>24 DEF vars, TypeOK, cacheVars, callVars
<1> QED
  BY <1>1, <1>2, <1>3, <1>4, <1>5, <1>6, <1>7, <1>8, <1>9, <1>10, <1>11, <1>12,
     <1>13, <1>14, <1>15, <1>16, <1>17, <1>18, <1>19, <1>20, <1>21, <1>22, <1>23,
     <1>24
  DEF Next, Call, Internal, Quiescent

\* Every variable keeps the type of the Go field or local it stands for, in every
\* reachable state of a cache of any size, with any callers, keys and windows.
THEOREM TypeCorrect == Spec => []TypeOK
<1>1. Init => TypeOK
  BY TypeInit
<1>2. TypeOK /\ [Next]_vars => TypeOK'
  BY TypeNext
<1> QED
  BY <1>1, <1>2, PTL DEF Spec

-----------------------------------------------------------------------------
(* The queues partition the stored entries *)

\* drop takes a key out of the map and out of the one queue that named it.
LEMMA DropPartition ==
  ASSUME TypeOK, QueuesPartitionEntries, NEW k \in Keys, drop(k)
  PROVE  QueuesPartitionEntries'
  BY DEF TypeOK, QueuesPartitionEntries, drop, Held, revived, NoEntry, Entries

\* store files the new entry in the one queue of its kind.
LEMMA StorePartition ==
  ASSUME TypeOK, QueuesPartitionEntries, NEW k \in Keys, NEW e \in Entries,
         e # NoEntry, store(k, e)
  PROVE  QueuesPartitionEntries'
  BY DEF TypeOK, QueuesPartitionEntries, store, Held, revived, NoEntry, Entries

\* What a producer stores is an entry of the map.
LEMMA OutcomeIsEntry ==
  ASSUME TypeOK, NEW g \in Goroutines
  PROVE  Outcome(g) \in Entries /\ Outcome(g) # NoEntry
<1>1. Outcome(g) \in Entries
  BY DEF Outcome, Entries, TypeOK, Results, Captures
<1>2. \/ Outcome(g).err
      \/ Outcome(g).expireAt # 0
      \/ Outcome(g).staleUntil # 0
  <2>1. now \in Nat \ {0} /\ res[g].ttl \in Nat
    BY DEF TypeOK, Results
  <2>2. CASE res[g].kind = "ok"
    BY <2>1, <2>2 DEF Outcome
  <2>3. CASE res[g].kind # "ok" /\ res[g].until = 0
    BY <2>3 DEF Outcome
  <2>4. CASE res[g].until # 0
    BY <2>4 DEF Outcome
  <2> QED
    BY <2>2, <2>3, <2>4
<1> QED
  BY <1>1, <1>2 DEF NoEntry

\* Every step keeps the queues in step with the map.
LEMMA PartitionNext ==
  TypeOK /\ QueuesPartitionEntries /\ [Next]_vars => QueuesPartitionEntries'
<1> SUFFICES ASSUME TypeOK, QueuesPartitionEntries, [Next]_vars
             PROVE  QueuesPartitionEntries'
  OBVIOUS
<1>1. ASSUME UNCHANGED cacheVars PROVE QueuesPartitionEntries'
  BY <1>1 DEF QueuesPartitionEntries, cacheVars, Held
<1>2. ASSUME NEW k \in Keys, drop(k) PROVE QueuesPartitionEntries'
  BY <1>2, DropPartition
<1>3. ASSUME NEW g \in Goroutines, startFlight(g) PROVE QueuesPartitionEntries'
  <2>1. key[g] \in Keys /\ drop(key[g])
    BY <1>3 DEF startFlight, TypeOK
  <2> QED
    BY <1>2, <2>1
<1>4. ASSUME NEW g \in Goroutines, evict(g) PROVE QueuesPartitionEntries'
  <2>1. PICK v \in Keys : drop(v)
    BY <1>4 DEF evict, HeldKeys
  <2> QED
    BY <1>2, <2>1
<1>5. ASSUME NEW g \in Goroutines, NEW k \in Keys, Remove(g, k)
      PROVE  QueuesPartitionEntries'
  BY <1>2, <1>5 DEF Remove
<1>6. ASSUME NEW g \in Goroutines, set(g) PROVE QueuesPartitionEntries'
  <2>1. key[g] \in Keys /\ store(key[g], Outcome(g))
    BY <1>6 DEF set, TypeOK
  <2> QED
    BY <2>1, OutcomeIsEntry, StorePartition
<1>7. ASSUME NEW g \in Goroutines, Reset(g) PROVE QueuesPartitionEntries'
  BY <1>7 DEF Reset, QueuesPartitionEntries, Held
<1>8. ASSUME NEW g \in Goroutines, PurgeExpired(g) PROVE QueuesPartitionEntries'
  BY <1>8 DEF PurgeExpired, QueuesPartitionEntries, Held, revived, TypeOK
<1>9. ASSUME NEW g \in Goroutines, NEW k \in Keys, Lookup(g, k) PROVE UNCHANGED cacheVars
  BY <1>9 DEF Lookup
<1>10. ASSUME NEW g \in Goroutines,
              \/ RejectKey(g) \/ fresh(g) \/ checkContext(g) \/ slowServe(g)
              \/ slowJoin(g) \/ startAborted(g) \/ awaitDone(g) \/ awaitAborted(g)
              \/ abortFlight(g) \/ publishSuperseded(g) \/ publish(g) \/ finish(g)
              \/ release(g) \/ lookupFn(g) \/ endContext(g)
       PROVE  UNCHANGED cacheVars
  BY <1>10 DEF RejectKey, fresh, checkContext, slowServe, slowJoin, startAborted,
               awaitDone, awaitAborted, abortFlight, publishSuperseded, publish,
               finish, release, lookupFn, endContext
<1>11. ASSUME Tick \/ UNCHANGED vars PROVE UNCHANGED cacheVars
  BY <1>11 DEF Tick, vars
<1> QED
  BY <1>1, <1>3, <1>4, <1>5, <1>6, <1>7, <1>8, <1>9, <1>10, <1>11
  DEF Next, Call, Internal, Quiescent

\* sfcache.go: every entry of keymap is filed in exactly one of the three queues,
\* the one its kind selects, and no queue names a key the map does not hold.
THEOREM QueuesArePartition == Spec => []QueuesPartitionEntries
<1>1. Init => QueuesPartitionEntries
  BY DEF Init, QueuesPartitionEntries, Held
<1>2. TypeOK /\ QueuesPartitionEntries /\ [Next]_vars => QueuesPartitionEntries'
  BY PartitionNext
<1> QED
  BY <1>1, <1>2, TypeCorrect, PTL DEF Spec

-----------------------------------------------------------------------------
(* Flights: who runs them, who waits for them, who closes them *)

\* Where a goroutine still owns the flight it started.
Producers == {"fetch", "publish", "abort", "room", "finish"}

\* The strengthening: flights are numbered as they start, each has one producer,
\* what an invalidator has to finish is no longer registered, and the mutex is
\* held across steps exactly by the producer that is making room.
FlightInv ==
  /\ done \subseteq 1 .. nflights
  /\ \A k \in Keys : flights[k] \in 0 .. nflights
  /\ \A g \in Goroutines :
       /\ pc[g] \in Producers => fl[g] \in 1 .. nflights
       /\ pc[g] = "await" => fl[g] # 0
       /\ pc[g] = "room" <=> mux = g
       /\ pc[g] = "room" => flights[key[g]] = 0
       /\ pend[g] \subseteq 1 .. nflights
       /\ \A k \in Keys : flights[k] \notin pend[g]
  /\ \A g, h \in Goroutines :
       (pc[g] \in Producers /\ pc[h] \in Producers /\ fl[g] = fl[h]) => g = h
  /\ RegisteredFlightsAreLive
  /\ NoOrphanedWaiter

\* A step of one goroutine that neither starts, deregisters nor closes a flight,
\* and leaves the caches, the mutex and the other goroutines alone.
LEMMA QuietStep ==
  ASSUME TypeOK, FlightInv, NEW g \in Goroutines,
         UNCHANGED <<keymap, flights, done, nflights, pend, mux>>,
         \A h \in Goroutines : h # g => pc'[h] = pc[h] /\ fl'[h] = fl[h] /\ key'[h] = key[h],
         pc[g] \notin {"room", "finish", "release"},
         pc'[g] \notin {"room", "release"},
         pc'[g] \in Producers =>
           pc[g] \in Producers /\ fl'[g] = fl[g] /\ key'[g] = key[g],
         pc[g] \in {"fetch", "publish", "abort"} =>
           \/ pc'[g] \in {"fetch", "publish", "abort"}
           \/ flights[key[g]] # fl[g],
         pc'[g] = "await" => fl'[g] # 0 /\ flights[key'[g]] = fl'[g]
  PROVE  FlightInv'
<1>1. /\ (done \subseteq 1 .. nflights)'
      /\ (\A k \in Keys : flights[k] \in 0 .. nflights)'
  BY DEF FlightInv
<1>2. (\A h \in Goroutines :
         /\ pc[h] \in Producers => fl[h] \in 1 .. nflights
         /\ pc[h] = "await" => fl[h] # 0
         /\ pc[h] = "room" <=> mux = h
         /\ pc[h] = "room" => flights[key[h]] = 0
         /\ pend[h] \subseteq 1 .. nflights
         /\ \A k \in Keys : flights[k] \notin pend[h])'
  BY DEF FlightInv
<1>3. (\A h, j \in Goroutines :
         (pc[h] \in Producers /\ pc[j] \in Producers /\ fl[h] = fl[j]) => h = j)'
  BY DEF FlightInv
<1>4. RegisteredFlightsAreLive'
  BY DEF FlightInv, RegisteredFlightsAreLive, Producing, Held, Producers
<1>5. NoOrphanedWaiter'
  BY DEF FlightInv, NoOrphanedWaiter
<1> QED
  BY <1>1, <1>2, <1>3, <1>4, <1>5 DEF FlightInv

\* Every step keeps the strengthened invariant.
LEMMA FlightNext == TypeOK /\ FlightInv /\ [Next]_vars => FlightInv'
<1> SUFFICES ASSUME TypeOK, FlightInv, [Next]_vars PROVE FlightInv'
  OBVIOUS
<1> USE GoroutinesAssumption
<1>1. ASSUME NEW g \in Goroutines, NEW k \in Keys, Lookup(g, k) PROVE FlightInv'
  BY <1>1, QuietStep DEF Lookup, TypeOK, Producers, cacheVars
<1>2. ASSUME NEW g \in Goroutines, RejectKey(g) PROVE FlightInv'
  BY <1>2, QuietStep DEF RejectKey, TypeOK, Producers, cacheVars, callVars
<1>3. ASSUME NEW g \in Goroutines, fresh(g) PROVE FlightInv'
  <2>1. /\ pc[g] = "fast" /\ UNCHANGED <<keymap, flights, done, nflights, pend, mux, key>>
        /\ pc' = [pc EXCEPT ![g] = "idle"] \/ pc' = [pc EXCEPT ![g] = "check"]
        /\ \A h \in Goroutines : h # g => fl'[h] = fl[h]
    BY <1>3 DEF fresh, Return, TypeOK, cacheVars, callVars
  <2> QED
    BY <2>1, QuietStep DEF TypeOK, Producers
<1>4. ASSUME NEW g \in Goroutines, checkContext(g) PROVE FlightInv'
  BY <1>4, QuietStep DEF checkContext, TypeOK, Producers, cacheVars
<1>5. ASSUME NEW g \in Goroutines, slowServe(g) PROVE FlightInv'
  BY <1>5, QuietStep DEF slowServe, TypeOK, Producers, Return, cacheVars
<1>6. ASSUME NEW g \in Goroutines, slowJoin(g) PROVE FlightInv'
  BY <1>6, QuietStep DEF slowJoin, TypeOK, Producers, cacheVars, callVars
<1>7. ASSUME NEW g \in Goroutines, startAborted(g) PROVE FlightInv'
  BY <1>7, QuietStep DEF startAborted, TypeOK, Producers, Return, cacheVars
<1>8. ASSUME NEW g \in Goroutines, awaitDone(g) PROVE FlightInv'
  BY <1>8, QuietStep DEF awaitDone, TypeOK, Producers, cacheVars
<1>9. ASSUME NEW g \in Goroutines, awaitAborted(g) PROVE FlightInv'
  BY <1>9, QuietStep DEF awaitAborted, TypeOK, Producers, Return, cacheVars
<1>10. ASSUME NEW g \in Goroutines, publishSuperseded(g) PROVE FlightInv'
  BY <1>10, QuietStep DEF publishSuperseded, TypeOK, Producers, ownFlight, cacheVars, callVars
<1>11. ASSUME NEW g \in Goroutines, lookupFn(g) PROVE FlightInv'
  BY <1>11, QuietStep DEF lookupFn, TypeOK, Producers, cacheVars, callVars
<1>12. ASSUME NEW g \in Goroutines, endContext(g) PROVE FlightInv'
  BY <1>12 DEF endContext, cacheVars, FlightInv, RegisteredFlightsAreLive,
               NoOrphanedWaiter, Producing, Held
<1>13. ASSUME NEW g \in Goroutines, PurgeExpired(g) PROVE FlightInv'
  <2>1. \A k \in Keys : ~Held(k) => ~Held(k)'
    BY <1>13 DEF PurgeExpired, Held
  <2> QED
    BY <1>13, <2>1 DEF PurgeExpired, callVars, FlightInv, RegisteredFlightsAreLive,
                       NoOrphanedWaiter, Producing
<1>14. CASE Tick
  BY <1>14 DEF Tick, cacheVars, callVars, FlightInv, RegisteredFlightsAreLive,
               NoOrphanedWaiter, Producing, Held
<1>15. CASE UNCHANGED vars
  BY <1>15 DEF vars, cacheVars, callVars, FlightInv, RegisteredFlightsAreLive,
               NoOrphanedWaiter, Producing, Held
<1>16. ASSUME NEW g \in Goroutines, evict(g) PROVE FlightInv'
  <2>1. \A k \in Keys : ~Held(k) => ~Held(k)'
    BY <1>16 DEF evict, drop, Held, TypeOK
  <2> QED
    BY <1>16, <2>1 DEF evict, callVars, FlightInv, RegisteredFlightsAreLive,
                       NoOrphanedWaiter, Producing
<1>17. ASSUME NEW g \in Goroutines, set(g) PROVE FlightInv'
  <2>1. mux = g /\ pc[g] = "room" /\ flights[key[g]] = 0
    BY <1>17 DEF set, FlightInv
  <2>2. \A k \in Keys : (~Held(k) /\ k # key[g]) => ~Held(k)'
    BY <1>17 DEF set, store, Held, TypeOK
  <2>3. RegisteredFlightsAreLive'
    BY <1>17, <2>1, <2>2 DEF set, callVars, FlightInv, RegisteredFlightsAreLive,
                             Producing, TypeOK
  <2>4. NoOrphanedWaiter'
    BY <1>17, <2>1 DEF set, callVars, FlightInv, NoOrphanedWaiter, TypeOK
  <2> QED
    BY <1>17, <2>1, <2>3, <2>4 DEF set, callVars, FlightInv, TypeOK, Producers
<1>18. ASSUME NEW g \in Goroutines, startFlight(g) PROVE FlightInv'
  <2>1. /\ key[g] \in Keys /\ flights[key[g]] = 0 /\ mux = NoGoroutine /\ pc[g] = "slow"
        /\ flights' = [flights EXCEPT ![key[g]] = nflights + 1]
        /\ nflights' = nflights + 1
        /\ fl' = [fl EXCEPT ![g] = nflights + 1]
        /\ pc' = [pc EXCEPT ![g] = "fetch"]
        /\ UNCHANGED <<mux, done, key, pend>>
    BY <1>18 DEF startFlight, TypeOK, Free
  <2>2. \A k \in Keys : ~Held(k) \/ k = key[g] => ~Held(k)'
    BY <1>18, <2>1 DEF startFlight, drop, Held, TypeOK
  <2>3. RegisteredFlightsAreLive'
    BY <2>1, <2>2 DEF FlightInv, RegisteredFlightsAreLive, Producing, TypeOK
  <2>4. NoOrphanedWaiter'
    BY <2>1 DEF FlightInv, NoOrphanedWaiter, TypeOK
  <2>5. nflights \in Nat
    BY DEF TypeOK
  <2> QED
    BY <2>1, <2>3, <2>4, <2>5 DEF FlightInv, TypeOK, Producers
<1>19. ASSUME NEW g \in Goroutines, abortFlight(g) PROVE FlightInv'
  <2>1. CASE ~ownFlight(g)
    BY <1>19, <2>1, QuietStep DEF abortFlight, ownFlight, TypeOK, Producers, cacheVars, callVars
  <2>2. CASE ownFlight(g)
    <3>1. /\ key[g] \in Keys /\ flights[key[g]] = fl[g] /\ pc[g] = "abort"
          /\ mux = NoGoroutine
          /\ flights' = [flights EXCEPT ![key[g]] = 0]
          /\ pc' = [pc EXCEPT ![g] = "finish"]
          /\ UNCHANGED <<keymap, mux, nflights, fl, done, key, pend>>
      BY <1>19, <2>2 DEF abortFlight, ownFlight, deregister, TypeOK, Free, cacheVars, callVars
    <3>2. RegisteredFlightsAreLive'
      BY <3>1 DEF FlightInv, RegisteredFlightsAreLive, Producing, TypeOK, Held, Producers
    <3>3. NoOrphanedWaiter'
      BY <3>1 DEF FlightInv, NoOrphanedWaiter, TypeOK
    <3> QED
      BY <3>1, <3>2, <3>3 DEF FlightInv, TypeOK, Producers
  <2> QED
    BY <2>1, <2>2
<1>20. ASSUME NEW g \in Goroutines, publish(g) PROVE FlightInv'
  <2>1. /\ key[g] \in Keys /\ flights[key[g]] = fl[g] /\ pc[g] = "publish"
        /\ mux = NoGoroutine
        /\ flights' = [flights EXCEPT ![key[g]] = 0]
        /\ UNCHANGED <<keymap, nflights, fl, done, key, pend>>
        /\ \/ pc' = [pc EXCEPT ![g] = "finish"] /\ mux' = mux
           \/ pc' = [pc EXCEPT ![g] = "room"] /\ mux' = g
    BY <1>20 DEF publish, ownFlight, deregister, TypeOK, Free, cacheVars, callVars
  <2>2. RegisteredFlightsAreLive'
    BY <2>1 DEF FlightInv, RegisteredFlightsAreLive, Producing, TypeOK, Held, Producers
  <2>3. NoOrphanedWaiter'
    BY <2>1 DEF FlightInv, NoOrphanedWaiter, TypeOK
  <2> QED
    BY <2>1, <2>2, <2>3 DEF FlightInv, TypeOK, Producers
<1>21. ASSUME NEW g \in Goroutines, finish(g) PROVE FlightInv'
  <2>1. /\ pc[g] = "finish"
        /\ done' = done \union {fl[g]}
        /\ pc' = [pc EXCEPT ![g] = "idle"]
        /\ fl' = [fl EXCEPT ![g] = 0]
        /\ UNCHANGED <<keymap, flights, nflights, key, pend, mux>>
    BY <1>21 DEF finish, finishes, Return, cacheVars
  <2>2. \A k \in Keys : flights[k] # fl[g]
    BY <2>1 DEF FlightInv, RegisteredFlightsAreLive, Producing, Producers
  <2>3. RegisteredFlightsAreLive'
    BY <2>1, <2>2 DEF FlightInv, RegisteredFlightsAreLive, Producing, TypeOK, Held
  <2>4. NoOrphanedWaiter'
    BY <2>1 DEF FlightInv, NoOrphanedWaiter, TypeOK
  <2> QED
    BY <2>1, <2>3, <2>4 DEF FlightInv, TypeOK, Producers
<1>22. ASSUME NEW g \in Goroutines, release(g) PROVE FlightInv'
  <2>1. PICK f \in pend[g] :
          /\ done' = done \union {f}
          /\ pend' = [pend EXCEPT ![g] = @ \ {f}]
          /\ pc' = [pc EXCEPT ![g] = IF pend[g] = {f} THEN "idle" ELSE "release"]
    BY <1>22 DEF release
  <2>2. pc[g] = "release" /\ UNCHANGED <<keymap, flights, nflights, key, fl, mux>>
    BY <1>22 DEF release, cacheVars, callVars
  <2>3. RegisteredFlightsAreLive'
    BY <2>1, <2>2 DEF FlightInv, RegisteredFlightsAreLive, Producing, TypeOK, Held
  <2>4. NoOrphanedWaiter'
    BY <2>1, <2>2 DEF FlightInv, NoOrphanedWaiter, TypeOK
  <2> QED
    BY <2>1, <2>2, <2>3, <2>4 DEF FlightInv, TypeOK, Producers
<1>23. ASSUME NEW g \in Goroutines, NEW k \in Keys, Remove(g, k) PROVE FlightInv'
  <2>1. /\ pc[g] = "idle" /\ mux = NoGoroutine
        /\ flights' = [flights EXCEPT ![k] = 0]
        /\ pend' = [pend EXCEPT ![g] = {flights[k]} \ {0}]
        /\ pc' = [pc EXCEPT ![g] = IF flights[k] = 0 THEN "idle" ELSE "release"]
        /\ UNCHANGED <<mux, done, nflights, key, fl>>
    BY <1>23 DEF Remove, deregister, callVars, Free
  <2>2. \A j \in Keys : ~Held(j) => ~Held(j)'
    BY <1>23 DEF Remove, drop, Held, TypeOK
  <2>3. \A j \in Keys : (flights[j] = flights[k] /\ flights[k] # 0) => j = k
    BY DEF FlightInv, RegisteredFlightsAreLive, Producing, Producers
  <2>4. RegisteredFlightsAreLive'
    BY <2>1, <2>2 DEF FlightInv, RegisteredFlightsAreLive, Producing, TypeOK
  <2>5. NoOrphanedWaiter'
    BY <2>1 DEF FlightInv, NoOrphanedWaiter, TypeOK
  <2> QED
    BY <2>1, <2>3, <2>4, <2>5 DEF FlightInv, TypeOK, Producers
<1>24. ASSUME NEW g \in Goroutines, Reset(g) PROVE FlightInv'
  <2>1. /\ pc[g] = "idle" /\ mux = NoGoroutine
        /\ flights' = [k \in Keys |-> 0]
        /\ pend' = [pend EXCEPT ![g] = {flights[k] : k \in Keys} \ {0}]
        /\ pc' = [pc EXCEPT ![g] = IF {flights[k] : k \in Keys} \ {0} = {}
                                   THEN "idle" ELSE "release"]
        /\ UNCHANGED <<mux, done, nflights, key, fl>>
    BY <1>24 DEF Reset, callVars, Free
  <2>2. RegisteredFlightsAreLive'
    BY <2>1 DEF RegisteredFlightsAreLive
  <2>3. NoOrphanedWaiter'
    <3>1. SUFFICES ASSUME NEW h \in Goroutines, pc'[h] = "await"
                   PROVE  \/ fl'[h] \in done'
                          \/ \E j \in Goroutines :
                               \/ pc'[j] = "release" /\ fl'[h] \in pend'[j]
                               \/ pc'[j] \in {"room", "finish"} /\ fl'[j] = fl'[h]
      BY DEF NoOrphanedWaiter
    <3>2. h # g /\ pc[h] = "await" /\ key[h] \in Keys /\ fl[h] # 0
      BY <2>1, <3>1 DEF TypeOK, FlightInv
    <3>3. CASE flights[key[h]] = fl[h]
      <4>1. fl[h] \in {flights[k] : k \in Keys} \ {0}
        BY <3>2, <3>3
      <4>2. pend'[g] = {flights[k] : k \in Keys} \ {0} /\ pc'[g] = "release"
        BY <2>1, <4>1 DEF TypeOK
      <4> QED
        BY <2>1, <4>1, <4>2
    <3>4. CASE flights[key[h]] # fl[h]
      BY <2>1, <3>2, <3>4 DEF FlightInv, NoOrphanedWaiter, TypeOK
    <3> QED
      BY <3>3, <3>4
  <2> QED
    BY <2>1, <2>2, <2>3 DEF FlightInv, TypeOK, Producers
<1> QED
  BY <1>1, <1>2, <1>3, <1>4, <1>5, <1>6, <1>7, <1>8, <1>9, <1>10, <1>11, <1>12,
     <1>13, <1>14, <1>15, <1>16, <1>17, <1>18, <1>19, <1>20, <1>21, <1>22, <1>23,
     <1>24
  DEF Next, Call, Internal, Quiescent

\* The strengthened invariant holds in every reachable state.
LEMMA FlightInvariant == Spec => []FlightInv
<1>1. Init => FlightInv
  BY GoroutinesAssumption
  DEF Init, FlightInv, RegisteredFlightsAreLive, NoOrphanedWaiter, Producers
<1>2. TypeOK /\ FlightInv /\ [Next]_vars => FlightInv'
  BY FlightNext
<1> QED
  BY <1>1, <1>2, TypeCorrect, PTL DEF Spec

\* sfcache.go: a key is never in both maps, and a registered flight is never
\* finished; moreover a goroutine is running it.
THEOREM FlightsAreLive == Spec => []RegisteredFlightsAreLive
<1>1. FlightInv => RegisteredFlightsAreLive
  BY DEF FlightInv
<1> QED
  BY <1>1, FlightInvariant, PTL

\* flight.go: no caller is ever parked on a channel that nobody will close.
THEOREM WaitersAreNotOrphaned == Spec => []NoOrphanedWaiter
<1>1. FlightInv => NoOrphanedWaiter
  BY DEF FlightInv
<1> QED
  BY <1>1, FlightInvariant, PTL

-----------------------------------------------------------------------------
(* Entries: how many there can be, which lookup each one came from, and   *)
(* until when it may be served.                                           *)

(* The inductive invariant, on top of FlightInv *)

\* A producer that makes room stores under a key that is not held, and only a failure revives.
RoomInv ==
  \A g \in Goroutines :
    /\ pc[g] = "room" => ~Held(key[g])
    /\ pc[g] \notin {"room", "finish"} => res[g].until = 0
    /\ res[g].until # 0 => res[g].kind # "ok" /\ cap[g].ok
    /\ pc[g] = "publish" => res[g].kind \in {"ok", "fail", "ctx"}
    /\ pc[g] = "room" => res[g].kind \in {"ok", "fail"} \/ res[g].until # 0

\* The calls that may still start a flight: there are never more flights than calls.
Asking == {g \in Goroutines : pc[g] \in {"fast", "check", "slow", "await"}}

NumberInv ==
  /\ IsFiniteSet(Asking)
  /\ nflights + Cardinality(Asking) <= calls
  /\ \A f \in FlightIds : f > nflights => hist[f].kind = "none"

\* A producer whose flight was not superseded.
Registered(g) == pc[g] \in {"fetch", "publish"} /\ flights[key[g]] = fl[g]

\* Whatever is stored, captured or in flight for a key started after its last removal.
BarrierInv ==
  /\ \A k \in Keys :
       /\ barrier[k] <= nflights
       /\ flights[k] # 0 => flights[k] > barrier[k]
       /\ Held(k) => keymap[k].val > barrier[k]
  /\ \A g \in Goroutines :
       /\ pc[g] \notin {"idle", "release"} => bar[g] <= barrier[key[g]]
       /\ pc[g] \in Producers => fl[g] > bar[g] /\ (cap[g].ok => cap[g].val > bar[g])
       /\ pc[g] = "room" => fl[g] > barrier[key[g]]
       /\ (Registered(g) \/ pc[g] = "room") => (cap[g].ok => cap[g].val > barrier[key[g]])
       /\ ret[g].kind \in {"value", "error"} => ret[g].val > bar[g]

\* A waiter: what is stored for its key from now on comes from the flight it joined or a later one.
Coalesced(g) == pc[g] = "await" \/ waited[g]

\* Whatever is stored, captured or returned for a key is the outcome of a lookup of that key.
OriginStored ==
  \A k \in Keys : Held(k) =>
    /\ keymap[k].val \in 1 .. nflights
    /\ hist[keymap[k].val].key = k
    /\ hist[keymap[k].val].kind = IF keymap[k].err THEN "fail" ELSE "ok"
    /\ keymap[k].err => keymap[k].expireAt = 0

OriginCaptured ==
  \A g \in Goroutines : pc[g] \in Producers =>
    /\ hist[fl[g]].key = key[g]
    /\ hist[fl[g]].kind = IF pc[g] = "fetch" THEN "run" ELSE res[g].kind
    /\ cap[g].ok => /\ cap[g].val \in 1 .. nflights
                    /\ hist[cap[g].val].key = key[g]
                    /\ hist[cap[g].val].kind = "ok"

OriginAnswered ==
  \A g \in Goroutines :
    /\ ret[g].kind = "value" => /\ ret[g].val \in 1 .. nflights
                                /\ hist[ret[g].val].kind = "ok"
                                /\ hist[ret[g].val].key = key[g]
    /\ ret[g].kind = "error" => /\ ret[g].val \in 1 .. nflights
                                /\ hist[ret[g].val].key = key[g]
                                /\ hist[ret[g].val].kind # "run"
                                /\ ret[g].val \notin seen[g]
                                /\ \/ hist[ret[g].val].kind = "fail"
                                   \/ ret[g].fl = ret[g].val

OriginInv == OriginStored /\ OriginCaptured /\ OriginAnswered

\* What was over when a call began is not in flight again, and is not its own.
SeenFlights ==
  \A g \in Goroutines :
    /\ seen[g] \subseteq 1 .. nflights
    /\ \A k \in Keys : flights[k] \notin seen[g]
    /\ pc[g] \in Producers => fl[g] \notin seen[g]

\* A caller that waited is handed no error that was published before its call.
SeenErrors ==
  \A g \in Goroutines : Coalesced(g) =>
    /\ pc[g] \notin {"idle", "release"}
    /\ (Held(key[g]) /\ keymap[key[g]].err) => keymap[key[g]].val \notin seen[g]
    /\ \A h \in Goroutines : (pc[h] = "room" /\ key[h] = key[g]) => fl[h] \notin seen[g]

SeenInv == SeenFlights /\ SeenErrors

\* The window of a value, by what its flight's history says.
Window(t, f) ==
  \/ t <= hist[f].expireAt + MaxStale
  \/ hist[f].failedAt # 0 /\ t <= hist[f].failedAt + MaxStaleOnFailure

\* A revived value is in the window of its first failure, and a value that was not revived has
\* not failed yet, wherever it is: stored, captured, or about to be stored.
WindowStored ==
  \A k \in Keys : Held(k) =>
    /\ revived(keymap[k]) => Window(keymap[k].staleUntil, keymap[k].val)
    /\ (~keymap[k].err /\ ~revived(keymap[k])) =>
         /\ hist[keymap[k].val].expireAt = keymap[k].expireAt
         /\ hist[keymap[k].val].failedAt = 0

WindowCaptured ==
  \A g \in Goroutines : Registered(g) =>
    /\ hist[fl[g]].failedAt = 0
    /\ (cap[g].ok /\ cap[g].anchored) => Window(cap[g].until, cap[g].val)
    /\ (cap[g].ok /\ ~cap[g].anchored) =>
         /\ hist[cap[g].val].failedAt = 0
         /\ cap[g].until <= hist[cap[g].val].expireAt + MaxStale

WindowPending ==
  \A g \in Goroutines : pc[g] = "room" =>
    /\ hist[fl[g]].failedAt = 0
    /\ res[g].until # 0 => Window(res[g].until, cap[g].val)

WindowInv == WindowStored /\ WindowCaptured /\ WindowPending

\* Values are captured and revived only where Config enables it, and a revived value is never fresh.
StaleEnabled == MaxStale # 0 \/ MaxStaleOnFailure # 0

ReviveInv ==
  /\ \A k \in Keys : (Held(k) /\ revived(keymap[k])) => keymap[k].expireAt = 0 /\ StaleEnabled
  /\ \A g \in Goroutines : (pc[g] \in Producers /\ cap[g].ok) => StaleEnabled

EntryInv == RoomInv /\ NumberInv /\ BarrierInv /\ OriginInv /\ SeenInv /\ ReviveInv /\ WindowInv

-----------------------------------------------------------------------------
(* What the steps of the cache do to the locals of a call *)

\* Returning from Lookup clears the locals of the caller, and of nobody else.
Cleared(g, r) ==
  /\ pc'[g] = "idle" /\ fl'[g] = 0 /\ ret'[g] = r /\ waited'[g] = FALSE
  /\ res'[g].until = 0 /\ res'[g].kind = "none" /\ cap'[g].ok = FALSE
  /\ \A h \in Goroutines \ {g} :
       /\ pc'[h] = pc[h] /\ fl'[h] = fl[h] /\ ret'[h] = ret[h] /\ waited'[h] = waited[h]
       /\ res'[h] = res[h] /\ cap'[h] = cap[h]
  /\ key' = key /\ bar' = bar /\ seen' = seen

LEMMA Returned ==
  ASSUME TypeOK, NEW g \in Goroutines, NEW r, Return(g, r)
  PROVE  Cleared(g, r)
  BY DEF TypeOK, Return, NoRes, NoStale, Cleared

\* What the lookup function returned is not a revival yet.
LEMMA LookedUp ==
  ASSUME TypeOK, NEW g \in Goroutines, lookupFn(g)
  PROVE  /\ pc[g] = "fetch" /\ pc'[g] \in {"abort", "publish"}
         /\ res'[g].until = 0 /\ res'[g].kind \in {"ok", "fail", "ctx", "panic"}
         /\ pc'[g] = "publish" => res'[g].kind # "panic"
         /\ hist' = [hist EXCEPT ![fl[g]] = over(@, res'[g].kind)]
         /\ \A h \in Goroutines \ {g} : pc'[h] = pc[h] /\ res'[h] = res[h]
<1>1. PICK o \in Outcomes(g) :
        /\ res' = [res EXCEPT ![g] = o]
        /\ pc' = [pc EXCEPT ![g] = IF o.kind = "panic" THEN "abort" ELSE "publish"]
        /\ hist' = [hist EXCEPT ![fl[g]] = over(@, o.kind)]
  BY DEF lookupFn
<1>2. o \in [kind : {"ok", "fail", "ctx", "panic"}, ttl : TTLs \union {0}, until : {0}]
  BY <1>1, Zenon DEF Outcomes
<1>3. o.kind \in {"ok", "fail", "ctx", "panic"} /\ o.until = 0
  BY <1>2
<1>4. res'[g] = o /\ pc'[g] = IF o.kind = "panic" THEN "abort" ELSE "publish"
  BY <1>1 DEF TypeOK
<1> QED BY <1>1, <1>3, <1>4 DEF TypeOK, lookupFn

\* What publish decides: to store nothing, to revive the captured value, or to store the outcome.
LEMMA Published ==
  ASSUME TypeOK, NEW g \in Goroutines, publish(g)
  PROVE  /\ pc[g] = "publish" /\ Free /\ Registered(g) /\ key[g] \in Keys
         /\ flights' = [flights EXCEPT ![key[g]] = 0]
         /\ \A h \in Goroutines \ {g} : pc'[h] = pc[h] /\ res'[h] = res[h]
         /\ res'[g].kind = res[g].kind
         /\ \/ /\ res' = res /\ hist' = hist
               /\ pc'[g] = "room" => res[g].kind # "ctx"
            \/ /\ res[g].kind # "ok" /\ canRevive(cap[g])
               /\ pc'[g] = "room" /\ res'[g].until = staleUntilOf(cap[g])
               /\ hist' = IF hist[cap[g].val].failedAt = 0
                          THEN [hist EXCEPT ![cap[g].val] = failed(@)] ELSE hist
         /\ pc'[g] \in {"room", "finish"}
<1>1. pc[g] = "publish" /\ Free /\ Registered(g) /\ key[g] \in Keys
  BY DEF publish, Registered, ownFlight, TypeOK
<1>2. flights' = [flights EXCEPT ![key[g]] = 0]
  BY DEF publish, deregister
<1>3. CASE res[g].kind # "ok" /\ canRevive(cap[g])
  BY <1>1, <1>2, <1>3 DEF publish, TypeOK
<1>4. CASE ~(res[g].kind # "ok" /\ canRevive(cap[g]))
  BY <1>1, <1>2, <1>4 DEF publish, TypeOK, contextInduced
<1> QED BY <1>3, <1>4

-----------------------------------------------------------------------------
(* Where entries come from *)

\* Who changes the map and its queues: a producer making room or storing, or, while the mutex is
\* free, the start of a flight and the invalidating calls.
LEMMA CacheSteps ==
  ASSUME TypeOK, [Next]_vars
  PROVE  \/ UNCHANGED cacheVars
         \/ \E g \in Goroutines : evict(g) \/ set(g)
         \/ /\ Free
            /\ \E g \in Goroutines : \/ startFlight(g) \/ Reset(g) \/ PurgeExpired(g)
                                    \/ \E k \in Keys : Remove(g, k)
<1>1. ASSUME NEW g \in Goroutines, startFlight(g) \/ Reset(g) \/ PurgeExpired(g) PROVE Free
  BY <1>1 DEF startFlight, Reset, PurgeExpired
<1>2. ASSUME NEW g \in Goroutines, NEW k \in Keys, Remove(g, k) PROVE Free
  BY <1>2 DEF Remove
<1>3. ASSUME NEW g \in Goroutines, NEW k \in Keys, Lookup(g, k) PROVE UNCHANGED cacheVars
  BY <1>3 DEF Lookup
<1>4. ASSUME NEW g \in Goroutines,
             \/ RejectKey(g) \/ fresh(g) \/ checkContext(g) \/ slowServe(g)
             \/ slowJoin(g) \/ startAborted(g) \/ awaitDone(g) \/ awaitAborted(g)
             \/ abortFlight(g) \/ publishSuperseded(g) \/ publish(g) \/ finish(g)
             \/ release(g) \/ lookupFn(g) \/ endContext(g)
      PROVE  UNCHANGED cacheVars
  BY <1>4 DEF RejectKey, fresh, checkContext, slowServe, slowJoin, startAborted,
              awaitDone, awaitAborted, abortFlight, publishSuperseded, publish,
              finish, release, lookupFn, endContext
<1>5. ASSUME Tick \/ UNCHANGED vars PROVE UNCHANGED cacheVars
  BY <1>5 DEF Tick, vars
<1> QED
  BY <1>1, <1>2, <1>3, <1>4, <1>5 DEF Next, Call, Internal, Quiescent

\* Starting a flight, evicting and removing take one key out of the map.
LEMMA Drops ==
  ASSUME TypeOK, NEW g \in Goroutines,
         startFlight(g) \/ evict(g) \/ \E k \in Keys : Remove(g, k)
  PROVE  \E k \in Keys : drop(k)
<1>1. CASE startFlight(g)
  BY <1>1 DEF startFlight, TypeOK
<1>2. CASE evict(g)
  BY <1>2 DEF evict, HeldKeys
<1>3. CASE \E k \in Keys : Remove(g, k)
  BY <1>3 DEF Remove
<1> QED BY <1>1, <1>2, <1>3

\* An entry of the map was there before, or a producer has just stored it.
LEMMA EntrySteps ==
  ASSUME TypeOK, [Next]_vars, NEW k \in Keys, Held(k)'
  PROVE  \/ keymap'[k] = keymap[k] /\ Held(k)
         \/ \E g \in Goroutines : set(g) /\ key[g] = k /\ keymap'[k] = Outcome(g)
<1>1. ASSUME NEW j \in Keys, drop(j) PROVE keymap'[k] = keymap[k] /\ Held(k)
  BY <1>1 DEF drop, Held, TypeOK
<1>2. ASSUME NEW g \in Goroutines, set(g), ~(key[g] = k /\ keymap'[k] = Outcome(g))
      PROVE  keymap'[k] = keymap[k] /\ Held(k)
  BY <1>2 DEF set, store, Held, TypeOK
<1>3. ASSUME NEW g \in Goroutines, Reset(g) \/ PurgeExpired(g)
      PROVE  keymap'[k] = keymap[k] /\ Held(k)
  BY <1>3 DEF Reset, PurgeExpired, Held
<1>4. ASSUME UNCHANGED cacheVars PROVE keymap'[k] = keymap[k] /\ Held(k)
  BY <1>4 DEF cacheVars, Held
<1> QED BY <1>1, <1>2, <1>3, <1>4, CacheSteps, Drops

-----------------------------------------------------------------------------
(* Making room *)

\* Every step keeps RoomInv: a key becomes held only by the store of the producer that made room.
LEMMA RoomNext == TypeOK /\ FlightInv /\ RoomInv /\ [Next]_vars => RoomInv'
<1> SUFFICES ASSUME TypeOK, FlightInv, RoomInv, [Next]_vars PROVE RoomInv'
  OBVIOUS
<1> USE GoroutinesAssumption
<1>0. ASSUME NEW g \in Goroutines, NEW r, Return(g, r), UNCHANGED cacheVars PROVE RoomInv'
  <2>1. Cleared(g, r)
    BY <1>0, Returned
  <2> QED BY <1>0, <2>1 DEF Cleared, cacheVars, RoomInv, Held
<1>1. ASSUME NEW g \in Goroutines, NEW k \in Keys, Lookup(g, k) PROVE RoomInv'
  BY <1>1 DEF Lookup, cacheVars, RoomInv, TypeOK, Held
<1>2. ASSUME NEW g \in Goroutines, NEW k \in Keys, Remove(g, k) PROVE RoomInv'
  BY <1>2 DEF Remove, drop, deregister, callVars, RoomInv, TypeOK, Held
<1>3. ASSUME NEW g \in Goroutines, RejectKey(g) PROVE RoomInv'
  BY <1>3 DEF RejectKey, cacheVars, callVars, RoomInv, TypeOK, Held
<1>4. ASSUME NEW g \in Goroutines, Reset(g) PROVE RoomInv'
  BY <1>4 DEF Reset, callVars, RoomInv, TypeOK, Held
<1>5. ASSUME NEW g \in Goroutines, PurgeExpired(g) PROVE RoomInv'
  BY <1>5 DEF PurgeExpired, callVars, RoomInv, TypeOK, Held
<1>6. ASSUME NEW g \in Goroutines, fresh(g) PROVE RoomInv'
  <2>1. CASE Return(g, Cached(keymap[key[g]]))
    BY <1>0, <1>6, <2>1 DEF fresh
  <2>2. CASE pc' = [pc EXCEPT ![g] = "check"] /\ UNCHANGED <<callVars, fl, res, ret>>
    BY <1>6, <2>2 DEF fresh, cacheVars, callVars, RoomInv, TypeOK, Held
  <2> QED BY <1>6, <2>1, <2>2 DEF fresh
<1>7. ASSUME NEW g \in Goroutines, checkContext(g) PROVE RoomInv'
  BY <1>7 DEF checkContext, cacheVars, RoomInv, TypeOK, Held
<1>8. ASSUME NEW g \in Goroutines, slowServe(g) PROVE RoomInv'
  BY <1>0, <1>8 DEF slowServe
<1>9. ASSUME NEW g \in Goroutines, slowJoin(g) PROVE RoomInv'
  BY <1>9 DEF slowJoin, cacheVars, callVars, RoomInv, TypeOK, Held
<1>10. ASSUME NEW g \in Goroutines, startAborted(g) PROVE RoomInv'
  BY <1>0, <1>10 DEF startAborted
<1>11. ASSUME NEW g \in Goroutines, startFlight(g) PROVE RoomInv'
  BY <1>11 DEF startFlight, drop, RoomInv, TypeOK, Held
<1>12. ASSUME NEW g \in Goroutines, awaitDone(g) PROVE RoomInv'
  BY <1>12 DEF awaitDone, cacheVars, RoomInv, TypeOK, Held
<1>13. ASSUME NEW g \in Goroutines, awaitAborted(g) PROVE RoomInv'
  BY <1>0, <1>13 DEF awaitAborted
<1>14. ASSUME NEW g \in Goroutines, abortFlight(g) PROVE RoomInv'
  BY <1>14 DEF abortFlight, deregister, cacheVars, callVars, RoomInv, TypeOK, Held
<1>15. ASSUME NEW g \in Goroutines, publishSuperseded(g) PROVE RoomInv'
  BY <1>15 DEF publishSuperseded, cacheVars, callVars, RoomInv, TypeOK, Held
<1>16. ASSUME NEW g \in Goroutines, publish(g) PROVE RoomInv'
  <2>1. /\ pc[g] = "publish" /\ Registered(g) /\ key[g] \in Keys
        /\ \A h \in Goroutines \ {g} : pc'[h] = pc[h] /\ res'[h] = res[h]
        /\ pc'[g] \in {"room", "finish"} /\ res'[g].kind = res[g].kind
        /\ \/ res'[g].until = res[g].until /\ (pc'[g] = "room" => res[g].kind # "ctx")
           \/ res[g].kind # "ok" /\ canRevive(cap[g]) /\ res'[g].until = staleUntilOf(cap[g])
    BY <1>16, Published
  <2>2. UNCHANGED <<keymap, key, cap>>
    BY <1>16 DEF publish, cacheVars, callVars
  <2>3. ~Held(key[g])
    BY <2>1 DEF FlightInv, RegisteredFlightsAreLive, Registered, Producers
  <2>4. canRevive(cap[g]) => cap[g].ok /\ staleUntilOf(cap[g]) # 0
    <3>1. now \in Nat
      BY DEF TypeOK
    <3>2. ~(now < 0)
      BY <3>1
    <3> QED BY <3>2 DEF canRevive
  <2> QED BY <2>1, <2>2, <2>3, <2>4 DEF RoomInv, Held
<1>17. ASSUME NEW g \in Goroutines, evict(g) PROVE RoomInv'
  BY <1>17 DEF evict, drop, callVars, RoomInv, TypeOK, Held
<1>18. ASSUME NEW g \in Goroutines, set(g) PROVE RoomInv'
  <2>1. \A h \in Goroutines : pc'[h] # "room"
    BY <1>18 DEF set, FlightInv, TypeOK
  <2> QED BY <1>18, <2>1 DEF set, callVars, RoomInv, TypeOK
<1>19. ASSUME NEW g \in Goroutines, finish(g) PROVE RoomInv'
  BY <1>0, <1>19 DEF finish
<1>20. ASSUME NEW g \in Goroutines, release(g) PROVE RoomInv'
  BY <1>20 DEF release, cacheVars, callVars, RoomInv, TypeOK, Held
<1>21. ASSUME NEW g \in Goroutines, lookupFn(g) PROVE RoomInv'
  <2>1. /\ pc'[g] \in {"abort", "publish"} /\ res'[g].until = 0
        /\ pc'[g] = "publish" => res'[g].kind \in {"ok", "fail", "ctx"}
        /\ \A h \in Goroutines \ {g} : pc'[h] = pc[h] /\ res'[h] = res[h]
    BY <1>21, LookedUp
  <2> QED BY <1>21, <2>1 DEF lookupFn, cacheVars, callVars, RoomInv, Held
<1>22. ASSUME NEW g \in Goroutines, endContext(g) PROVE RoomInv'
  BY <1>22 DEF endContext, cacheVars, RoomInv, TypeOK, Held
<1>23. CASE Tick
  BY <1>23 DEF Tick, cacheVars, callVars, RoomInv, TypeOK, Held
<1>24. CASE UNCHANGED vars
  BY <1>24 DEF vars, cacheVars, callVars, RoomInv, TypeOK, Held
<1> QED
  BY <1>1, <1>2, <1>3, <1>4, <1>5, <1>6, <1>7, <1>8, <1>9, <1>10, <1>11, <1>12, <1>13, <1>14, <1>15, <1>16, <1>17, <1>18, <1>19, <1>20, <1>21, <1>22, <1>23, <1>24
  DEF Next, Call, Internal, Quiescent


-----------------------------------------------------------------------------
(* Capacity *)

\* A set of numbers that is not empty has a least one.
LEMMA Least == ASSUME NEW T \in SUBSET Nat, T # {} PROVE \E x \in T : \A y \in T : x <= y
<1>1. PICK x \in T : \A y \in T : ~(<<y, x>> \in OpToRel(<, Nat))
  BY NatLessThanWellFounded, WFMin
<1>2. \A y \in T : ~(y < x)
  BY <1>1 DEF OpToRel
<1>3. \A y \in T : x <= y
  BY <1>2
<1> QED BY <1>3

\* A queue that is not empty has a head.
LEMMA HeadsExist == ASSUME TypeOK, NEW Q \in SUBSET Keys, Q # {} PROVE Heads(Q) # {}
<1> DEFINE T == {deadline(keymap[k]) : k \in Q}
<1>1. \A k \in Q : deadline(keymap[k]) \in Nat
  BY DEF TypeOK, deadline, Entries
<1>2. T \in SUBSET Nat /\ T # {}
  BY <1>1
<1>3. PICK x \in T : \A y \in T : x <= y
  BY <1>2, Least
<1>4. PICK k \in Q : x = deadline(keymap[k])
  BY <1>3
<1> QED BY <1>3, <1>4 DEF Heads

\* Only set adds an entry.
LEMMA OnlySetAdds ==
  ASSUME TypeOK, [Next]_vars, \A g \in Goroutines : ~set(g)
  PROVE  HeldKeys' \subseteq HeldKeys /\ values' \subseteq values /\ stale' \subseteq stale
<1>1. ASSUME NEW k \in Keys, drop(k)
      PROVE  HeldKeys' \subseteq HeldKeys /\ values' \subseteq values /\ stale' \subseteq stale
  BY <1>1 DEF drop, HeldKeys, Held, TypeOK
<1>2. ASSUME UNCHANGED cacheVars
      PROVE  HeldKeys' \subseteq HeldKeys /\ values' \subseteq values /\ stale' \subseteq stale
  BY <1>2 DEF cacheVars, HeldKeys, Held
<1>3. ASSUME NEW g \in Goroutines, Reset(g) \/ PurgeExpired(g)
      PROVE  HeldKeys' \subseteq HeldKeys /\ values' \subseteq values /\ stale' \subseteq stale
  BY <1>3 DEF Reset, PurgeExpired, HeldKeys, Held
<1> QED BY <1>1, <1>2, <1>3, CacheSteps, Drops

\* What pick finds nothing to evict for: a store of a level leaves only worthier entries.
LEMMA NothingToEvict ==
  ASSUME TypeOK, QueuesPartitionEntries, NEW l \in {evictWorthless, evictStale, evictValue},
         pick(l) \intersect HeldKeys = {}
  PROVE  /\ residue = {}
         /\ l # evictWorthless => stale = {}
         /\ l = evictValue => values = {}
<1>1. residue \subseteq HeldKeys /\ stale \subseteq HeldKeys /\ values \subseteq HeldKeys
  BY DEF QueuesPartitionEntries, HeldKeys
<1>2. residue \subseteq Keys /\ stale \subseteq Keys /\ values \subseteq Keys
  BY DEF TypeOK
<1>3. pick(l) \subseteq residue \union stale \union values
  BY DEF pick, worthlessVictim, staleVictim, Heads
<1>4. pick(l) = {}
  BY <1>1, <1>3
<1>5. worthlessVictim = {}
  BY <1>4 DEF pick
<1>6. residue = {}
  BY <1>2, <1>5, HeadsExist DEF worthlessVictim
<1>7. l # evictWorthless => Heads(stale) = {}
  BY <1>4, <1>5 DEF pick, staleVictim, evictWorthless, evictStale, evictValue
<1>8. l = evictValue => Heads(values) = {}
  BY <1>4, <1>5 DEF pick, evictStale, evictValue
<1> QED BY <1>2, <1>6, <1>7, <1>8, HeadsExist

\* A store keeps the cache within its bounds.
LEMMA SetCapacity ==
  ASSUME TypeOK, QueuesPartitionEntries, RoomInv, CapacityBound, NEW g \in Goroutines, set(g)
  PROVE  CapacityBound'
<1> DEFINE k == key[g]
           e == Outcome(g)
<1>1. k \in Keys /\ k \notin HeldKeys
  BY DEF set, TypeOK, RoomInv, HeldKeys
<1>2. HeldKeys = values \union stale \union residue
  BY DEF QueuesPartitionEntries, HeldKeys
<1>3. e \in Entries /\ e # NoEntry
  BY OutcomeIsEntry
<1>4. /\ keymap' = [keymap EXCEPT ![k] = e]
      /\ stale' = IF ~e.err /\ revived(e) THEN stale \union {k} ELSE stale
      /\ values' = IF ~e.err /\ ~revived(e) THEN values \union {k} ELSE values
  <2>1. store(k, e) /\ keymap[k] = NoEntry
    BY <1>1 DEF set, HeldKeys, Held
  <2> QED BY <2>1 DEF store
<1>5. HeldKeys' = HeldKeys \union {k}
  <2>1. \A j \in Keys : keymap'[j] = IF j = k THEN e ELSE keymap[j]
    BY <1>1, <1>4 DEF TypeOK
  <2> QED BY <1>1, <1>3, <2>1 DEF HeldKeys, Held
<1>6. \/ level(g) = evictValue /\ values' = values \union {k} /\ stale' = stale
      \/ level(g) = evictStale /\ values' = values /\ stale' = stale \union {k}
      \/ level(g) = evictWorthless /\ values' = values /\ stale' = stale
  <2>1. e.err = (res[g].kind # "ok" /\ res[g].until = 0) /\ revived(e) = (res[g].until # 0)
    BY DEF Outcome, revived
  <2>2. res[g].until # 0 => res[g].kind # "ok"
    BY DEF RoomInv
  <2> QED BY <1>4, <2>1, <2>2 DEF level
<1>7. /\ IsFiniteSet(HeldKeys) /\ IsFiniteSet(values) /\ IsFiniteSet(values \union stale)
      /\ Cardinality(HeldKeys) \in Nat /\ Cardinality(values) \in Nat
      /\ Cardinality(values \union stale) \in Nat
  <2>1. HeldKeys \subseteq Keys
    BY DEF HeldKeys
  <2> QED BY <1>2, <2>1, KeysAssumption, FS_Subset, FS_CardinalityType
<1>8. /\ Cardinality(HeldKeys \union {k}) = Cardinality(HeldKeys) + 1
      /\ Cardinality(values \union {k}) = Cardinality(values) + 1
      /\ Cardinality((values \union stale) \union {k}) = Cardinality(values \union stale) + 1
  BY <1>1, <1>2, <1>7, FS_AddElement
<1>9. CASE Fits(k)
  <2>1. Cardinality(HeldKeys) <= Size - 1
    BY <1>1, <1>9 DEF Fits, HeldKeys
  <2>2. /\ values \subseteq HeldKeys /\ values \union stale \subseteq HeldKeys
        /\ Cardinality(values) <= Cardinality(HeldKeys)
        /\ Cardinality(values \union stale) <= Cardinality(HeldKeys)
    BY <1>2, <1>7, FS_Subset
  <2>3. Cardinality(values') \in Nat /\ Cardinality(values') <= Size
    <3>1. values' = values \/ values' = values \union {k}
      BY <1>6
    <3> QED BY <1>7, <1>8, <2>1, <2>2, <3>1, ConfigAssumption
  <2>4. Cardinality(values' \union stale') \in Nat /\ Cardinality(values' \union stale') <= Size
    <3>1. \/ values' \union stale' = values \union stale
          \/ values' \union stale' = (values \union stale) \union {k}
      BY <1>6
    <3>2. /\ Cardinality(values \union stale) <= Size
          /\ Cardinality((values \union stale) \union {k}) \in Nat
          /\ Cardinality((values \union stale) \union {k}) <= Size
      BY <1>7, <1>8, <2>1, <2>2, ConfigAssumption
    <3> QED BY <1>7, <3>1, <3>2
  <2>5. Cardinality(HeldKeys') \in Nat /\ Cardinality(HeldKeys') <= Size
    BY <1>5, <1>7, <1>8, <2>1, ConfigAssumption
  <2> QED BY <2>3, <2>4, <2>5, ConfigAssumption DEF CapacityBound
<1>10. CASE pick(level(g)) \intersect HeldKeys = {}
  <2>1. /\ residue = {}
        /\ level(g) # evictWorthless => stale = {}
        /\ level(g) = evictValue => values = {}
    BY <1>10, NothingToEvict DEF level
  <2>2. CASE level(g) = evictValue
    <3>1. values = {} /\ stale = {} /\ HeldKeys = {}
      BY <1>2, <2>1, <2>2 DEF evictValue, evictWorthless
    <3>2. values' = {k} /\ stale' = {} /\ HeldKeys' = {k}
      BY <1>5, <1>6, <2>2, <3>1 DEF evictValue, evictStale, evictWorthless
    <3>3. values' \union stale' = {k} /\ Cardinality({k}) = 1
      BY <3>2, FS_Singleton
    <3> QED BY <3>2, <3>3, ConfigAssumption DEF CapacityBound
  <2>3. CASE level(g) = evictStale
    <3>1. stale = {} /\ HeldKeys = values
      BY <1>2, <2>1, <2>3 DEF evictStale, evictWorthless
    <3>2. values' = values /\ values' \union stale' = values \union {k} /\ HeldKeys' = values \union {k}
      BY <1>5, <1>6, <2>3, <3>1 DEF evictValue, evictStale, evictWorthless
    <3>3. Cardinality(values \union {k}) <= Size + 1
      BY <1>7, <1>8, ConfigAssumption DEF CapacityBound
    <3>4. Cardinality(values') <= Size /\ Cardinality(values \union {k}) \in Nat
      BY <1>7, <1>8, <3>2 DEF CapacityBound
    <3>5. /\ Cardinality(values' \union stale') <= Size + 1
          /\ Cardinality(HeldKeys') <= Size + 2
      BY <3>2, <3>3, <3>4, ConfigAssumption
    <3> QED BY <3>4, <3>5 DEF CapacityBound
  <2>4. CASE level(g) = evictWorthless
    <3>1. HeldKeys = values \union stale
      BY <1>2, <2>1
    <3>2. values' = values /\ stale' = stale
      BY <1>6, <2>4 DEF evictValue, evictStale, evictWorthless
    <3> QED BY <1>5, <1>7, <1>8, <3>1, <3>2, ConfigAssumption DEF CapacityBound
  <2> QED BY <1>6, <2>2, <2>3, <2>4
<1> QED BY <1>9, <1>10 DEF set

\* Every step keeps the cache within its bounds.
LEMMA CapacityNext ==
  TypeOK /\ QueuesPartitionEntries /\ RoomInv /\ CapacityBound /\ [Next]_vars => CapacityBound'
<1> SUFFICES ASSUME TypeOK, QueuesPartitionEntries, RoomInv, CapacityBound, [Next]_vars
             PROVE  CapacityBound'
  OBVIOUS
<1>1. CASE \E g \in Goroutines : set(g)
  BY <1>1, SetCapacity
<1>2. CASE \A g \in Goroutines : ~set(g)
  <2>1. HeldKeys' \subseteq HeldKeys /\ values' \subseteq values /\ stale' \subseteq stale
    BY <1>2, OnlySetAdds
  <2>2. HeldKeys \subseteq Keys /\ values \subseteq Keys /\ stale \subseteq Keys
    BY DEF TypeOK, HeldKeys
  <2>3. IsFiniteSet(HeldKeys) /\ IsFiniteSet(values) /\ IsFiniteSet(values \union stale)
    BY <2>2, KeysAssumption, FS_Subset
  <2>4. values' \union stale' \subseteq values \union stale
    BY <2>1
  <2>5. /\ Cardinality(HeldKeys') <= Cardinality(HeldKeys)
        /\ Cardinality(values') <= Cardinality(values)
        /\ Cardinality(values' \union stale') <= Cardinality(values \union stale)
    BY <2>1, <2>3, <2>4, FS_Subset
  <2>6. /\ Cardinality(HeldKeys) \in Nat /\ Cardinality(values) \in Nat
        /\ Cardinality(values \union stale) \in Nat
        /\ Cardinality(HeldKeys') \in Nat /\ Cardinality(values') \in Nat
        /\ Cardinality(values' \union stale') \in Nat
    BY <2>1, <2>3, <2>4, FS_Subset, FS_CardinalityType
  <2> QED BY <2>5, <2>6, ConfigAssumption DEF CapacityBound
<1> QED BY <1>1, <1>2

\* The bounds of the package documentation hold for every size: values never exceed Size, one
\* revived value and one error may come on top (capacity.go makeRoom, evict.go pick).
THEOREM CapacityIsBounded == Spec => []CapacityBound
<1>1. Init => RoomInv
  BY DEF Init, RoomInv, NoRes
<1>2. Init => CapacityBound
  <2>1. Init => values = {} /\ values \union stale = {} /\ HeldKeys = {}
    BY DEF Init, HeldKeys, Held
  <2> QED BY <2>1, FS_EmptySet, ConfigAssumption DEF CapacityBound
<1> QED
  BY <1>1, <1>2, RoomNext, CapacityNext, TypeCorrect, QueuesArePartition, FlightInvariant, PTL
  DEF Spec

-----------------------------------------------------------------------------
(* Flights are numbered within the calls, and the history of a flight that is over stays *)

\* What a step does to the history, but for the flight it starts.
LEMMA HistoryStays ==
  ASSUME TypeOK, FlightInv, [Next]_vars, NEW f \in FlightIds,
         \A g \in Goroutines : startFlight(g) => f # nflights + 1
  PROVE  /\ hist'[f].key = hist[f].key
         /\ hist'[f].kind = hist[f].kind \/ \E g \in Goroutines : lookupFn(g) /\ f = fl[g]
<1>1. ASSUME NEW g \in Goroutines, lookupFn(g)
      PROVE  /\ hist'[f].key = hist[f].key
             /\ hist'[f].kind = hist[f].kind \/ f = fl[g]
  <2>1. pc[g] = "fetch" /\ hist' = [hist EXCEPT ![fl[g]] = over(@, res'[g].kind)]
    BY <1>1, LookedUp
  <2> QED BY <2>1 DEF TypeOK, over
<1>2. ASSUME NEW g \in Goroutines, startFlight(g) PROVE hist'[f] = hist[f]
  BY <1>2 DEF startFlight, TypeOK
<1>3. ASSUME NEW g \in Goroutines, publish(g)
      PROVE  hist'[f].key = hist[f].key /\ hist'[f].kind = hist[f].kind
  BY <1>3 DEF publish, TypeOK, failed
<1>4. ASSUME NEW g \in Goroutines, set(g)
      PROVE  hist'[f].key = hist[f].key /\ hist'[f].kind = hist[f].kind
  BY <1>4 DEF set, TypeOK, stored
<1>5. ASSUME NEW g \in Goroutines,
             \/ Call(g) \/ fresh(g) \/ checkContext(g) \/ slowServe(g) \/ slowJoin(g)
             \/ startAborted(g) \/ awaitDone(g) \/ awaitAborted(g) \/ abortFlight(g)
             \/ publishSuperseded(g) \/ evict(g) \/ finish(g) \/ release(g) \/ endContext(g)
      PROVE  hist' = hist
  BY <1>5 DEF Call, Lookup, Remove, RejectKey, Reset, PurgeExpired, fresh, checkContext, slowServe,
              slowJoin, startAborted, awaitDone, awaitAborted, abortFlight, publishSuperseded, evict,
              finish, release, endContext
<1>6. ASSUME Tick \/ UNCHANGED vars PROVE hist' = hist
  BY <1>6 DEF Tick, vars
<1> QED BY <1>1, <1>2, <1>3, <1>4, <1>5, <1>6 DEF Next, Internal, Quiescent

\* Who may still start a flight: a call joins them, and nobody else does.
LEMMA AskingNext ==
  ASSUME TypeOK, IsFiniteSet(Asking), [Next]_vars,
         nflights + Cardinality(Asking) <= calls
  PROVE  IsFiniteSet(Asking') /\ nflights' + Cardinality(Asking') <= calls'
<1>1. Cardinality(Asking) \in Nat /\ nflights \in Nat /\ calls \in Nat
  BY FS_CardinalityType DEF TypeOK
<1>2. ASSUME Asking' \subseteq Asking, nflights' = nflights, calls' = calls \/ calls' = calls + 1
      PROVE  IsFiniteSet(Asking') /\ nflights' + Cardinality(Asking') <= calls'
  <2>1. IsFiniteSet(Asking') /\ Cardinality(Asking') <= Cardinality(Asking)
    BY <1>2, FS_Subset
  <2>2. Cardinality(Asking') \in Nat
    BY <2>1, FS_CardinalityType
  <2> QED BY <1>1, <1>2, <2>1, <2>2
<1>3. ASSUME NEW g \in Goroutines, NEW k \in Keys, Lookup(g, k)
      PROVE  IsFiniteSet(Asking') /\ nflights' + Cardinality(Asking') <= calls'
  <2>1. Asking' = Asking \union {g} /\ g \notin Asking
    BY <1>3 DEF Lookup, Asking, TypeOK
  <2>2. IsFiniteSet(Asking') /\ Cardinality(Asking') = Cardinality(Asking) + 1
    BY <2>1, FS_AddElement
  <2>3. nflights' = nflights /\ calls' = calls + 1
    BY <1>3 DEF Lookup
  <2> QED BY <1>1, <2>2, <2>3
<1>4. ASSUME NEW g \in Goroutines, startFlight(g)
      PROVE  IsFiniteSet(Asking') /\ nflights' + Cardinality(Asking') <= calls'
  <2>1. Asking' = Asking \ {g} /\ g \in Asking
    BY <1>4 DEF startFlight, Asking, TypeOK
  <2>2. IsFiniteSet(Asking') /\ Cardinality(Asking') = Cardinality(Asking) - 1
    BY <2>1, FS_RemoveElement
  <2>3. nflights' = nflights + 1 /\ calls' = calls
    BY <1>4 DEF startFlight
  <2> QED BY <1>1, <2>2, <2>3
<1>5. ASSUME NEW g \in Goroutines, NEW to, to # "fast", pc' = [pc EXCEPT ![g] = to],
             to \in {"check", "slow", "await"} => g \in Asking
      PROVE  Asking' \subseteq Asking
  BY <1>5 DEF Asking, TypeOK
<1>6. ASSUME NEW g \in Goroutines, NEW r, Return(g, r) PROVE Asking' \subseteq Asking
  BY <1>5, <1>6 DEF Return
<1>7. ASSUME NEW g \in Goroutines,
             \/ fresh(g) \/ checkContext(g) \/ slowServe(g) \/ slowJoin(g) \/ startAborted(g)
             \/ awaitDone(g) \/ awaitAborted(g)
      PROVE  Asking' \subseteq Asking /\ nflights' = nflights /\ calls' = calls
  <2>1. g \in Asking
    BY <1>7 DEF Asking, fresh, checkContext, slowServe, slowJoin, startAborted, awaitDone, awaitAborted
  <2>2. Asking' \subseteq Asking
    BY <1>5, <1>6, <1>7, <2>1 DEF fresh, checkContext, slowServe, slowJoin, startAborted, awaitDone,
                                  awaitAborted
  <2> QED BY <1>7, <2>2 DEF fresh, checkContext, slowServe, slowJoin, startAborted, awaitDone,
                            awaitAborted
<1>8. ASSUME NEW g \in Goroutines,
             \/ abortFlight(g) \/ publishSuperseded(g) \/ publish(g) \/ set(g) \/ finish(g)
             \/ release(g) \/ lookupFn(g) \/ Reset(g) \/ \E k \in Keys : Remove(g, k)
      PROVE  Asking' \subseteq Asking /\ nflights' = nflights /\ calls' = calls
  <2>1. CASE abortFlight(g) \/ publishSuperseded(g) \/ publish(g) \/ set(g) \/ finish(g)
    BY <1>5, <1>6, <2>1 DEF abortFlight, publishSuperseded, publish, set, finish
  <2>2. CASE release(g) \/ lookupFn(g) \/ Reset(g) \/ \E k \in Keys : Remove(g, k)
    BY <1>5, <2>2 DEF release, lookupFn, Reset, Remove
  <2> QED BY <1>8, <2>1, <2>2
<1>9. ASSUME \/ \E g \in Goroutines : RejectKey(g) \/ PurgeExpired(g) \/ evict(g) \/ endContext(g)
             \/ Tick \/ UNCHANGED vars
      PROVE  /\ Asking' \subseteq Asking /\ nflights' = nflights
             /\ calls' = calls \/ calls' = calls + 1
  BY <1>9 DEF RejectKey, PurgeExpired, evict, endContext, Tick, vars, Asking
<1> QED BY <1>2, <1>3, <1>4, <1>7, <1>8, <1>9 DEF Next, Call, Internal, Quiescent

\* A flight that starts has a number the history knows, and none after it has started.
LEMMA StartsInRange ==
  ASSUME TypeOK, NumberInv, NEW g \in Goroutines, startFlight(g)
  PROVE  nflights + 1 \in FlightIds
<1>1. g \in Asking
  BY DEF startFlight, Asking
<1>2. Cardinality(Asking) \in Nat /\ Cardinality(Asking) # 0
  BY <1>1, FS_CardinalityType, FS_EmptySet DEF NumberInv
<1> QED BY <1>2, BoundsAssumption DEF NumberInv, TypeOK, FlightIds

\* Only startFlight counts.
LEMMA FlightsCounted ==
  ASSUME [Next]_vars
  PROVE  nflights' = nflights \/ \E g \in Goroutines : startFlight(g) /\ nflights' = nflights + 1
<1>1. ASSUME NEW g \in Goroutines, Call(g) PROVE nflights' = nflights
  BY <1>1 DEF Call, Lookup, Remove, RejectKey, Reset, PurgeExpired
<1>2. ASSUME NEW g \in Goroutines, startFlight(g) PROVE nflights' = nflights + 1
  BY <1>2 DEF startFlight
<1>3. ASSUME NEW g \in Goroutines, Internal(g), ~startFlight(g) PROVE nflights' = nflights
  BY <1>3 DEF Internal, fresh, checkContext, slowServe, slowJoin, startAborted, awaitDone, awaitAborted,
              abortFlight, publishSuperseded, publish, evict, set, finish, release
<1>4. ASSUME NEW g \in Goroutines, lookupFn(g) \/ endContext(g) PROVE nflights' = nflights
  BY <1>4 DEF lookupFn, endContext
<1>5. ASSUME Tick \/ UNCHANGED vars PROVE nflights' = nflights
  BY <1>5 DEF Tick, vars
<1> QED BY <1>1, <1>2, <1>3, <1>4, <1>5 DEF Next, Quiescent

\* Every step keeps NumberInv: starting a flight uses up one asking call.
LEMMA NumberNext == TypeOK /\ FlightInv /\ NumberInv /\ [Next]_vars => NumberInv'
<1> SUFFICES ASSUME TypeOK, FlightInv, NumberInv, [Next]_vars PROVE NumberInv'
  OBVIOUS
<1>1. IsFiniteSet(Asking') /\ nflights' + Cardinality(Asking') <= calls'
  BY AskingNext DEF NumberInv
<1>2. nflights \in Nat /\ nflights' \in Nat
  BY TypeNext DEF TypeOK
<1>3. nflights' = nflights \/ \E g \in Goroutines : startFlight(g) /\ nflights' = nflights + 1
  BY FlightsCounted
<1>4. ASSUME NEW f \in FlightIds, f > nflights' PROVE hist'[f].kind = "none"
  <2>1. f > nflights /\ hist[f].kind = "none"
    BY <1>2, <1>3, <1>4 DEF NumberInv, FlightIds
  <2>2. \A g \in Goroutines : startFlight(g) => f # nflights + 1
    BY <1>2, <1>4 DEF startFlight, FlightIds
  <2>3. \A g \in Goroutines : pc[g] = "fetch" => f # fl[g]
    BY <1>2, <2>1, BoundsAssumption DEF FlightInv, Producers, FlightIds
  <2> QED BY <2>1, <2>2, <2>3, HistoryStays DEF lookupFn
<1> QED BY <1>1, <1>4 DEF NumberInv


-----------------------------------------------------------------------------
(* Removal is a barrier *)

\* Every step keeps BarrierInv: a removal drops the entry and the flight it outdates.
LEMMA BarrierNext == TypeOK /\ FlightInv /\ RoomInv /\ BarrierInv /\ [Next]_vars => BarrierInv'
<1> SUFFICES ASSUME TypeOK, FlightInv, RoomInv, BarrierInv, [Next]_vars PROVE BarrierInv'
  OBVIOUS
<1> USE GoroutinesAssumption
<1>returns. ASSUME NEW g \in Goroutines, NEW r, Return(g, r),
             UNCHANGED <<keymap, flights, nflights, barrier>>,
             r.kind \in {"value", "error"} => r.val > bar[g]
      PROVE  BarrierInv'
  <2>1. Cleared(g, r)
    BY <1>returns, Returned
  <2> QED BY <1>returns, <2>1 DEF Cleared, BarrierInv, Registered, Producers, Held
<1>later. ASSUME NEW g \in Goroutines, key[g] \in Keys, Held(key[g]), pc[g] \notin {"idle", "release"}
       PROVE  keymap[key[g]].val > bar[g]
  <2>1. keymap[key[g]].val \in Nat /\ barrier[key[g]] \in Nat /\ bar[g] \in Nat
    BY <1>later DEF TypeOK, Entries
  <2>2. keymap[key[g]].val > barrier[key[g]] /\ bar[g] <= barrier[key[g]]
    BY <1>later DEF BarrierInv
  <2> QED BY <2>1, <2>2
<1>range. \A h \in Goroutines : pc[h] \in Producers => fl[h] \in 1 .. nflights
  BY DEF FlightInv
<1>noRoom. Free => \A h \in Goroutines : pc[h] # "room"
  BY DEF FlightInv, Free
<1>nat. nflights \in Nat
  BY DEF TypeOK
<1>1. ASSUME NEW g \in Goroutines, NEW k \in Keys, Lookup(g, k) PROVE BarrierInv'
  <2>1. /\ pc'[g] = "fast" /\ key'[g] = k /\ bar'[g] = barrier[k] /\ ret'[g].kind = "none"
        /\ \A h \in Goroutines \ {g} : /\ pc'[h] = pc[h] /\ key'[h] = key[h]
                                       /\ bar'[h] = bar[h] /\ ret'[h] = ret[h]
        /\ UNCHANGED <<keymap, flights, nflights, barrier, fl, cap>>
    BY <1>1 DEF Lookup, cacheVars, TypeOK, NoRet
  <2>2. barrier[k] \in Nat
    BY DEF TypeOK
  <2> QED BY <2>1, <2>2 DEF BarrierInv, Registered, Producers, Held
<1>2. ASSUME NEW g \in Goroutines, NEW k \in Keys, Remove(g, k) PROVE BarrierInv'
  <2>1. /\ pc'[g] \in {"idle", "release"} /\ Free
        /\ \A h \in Goroutines \ {g} : pc'[h] = pc[h]
        /\ barrier' = [barrier EXCEPT ![k] = nflights]
        /\ flights' = [flights EXCEPT ![k] = 0]
        /\ UNCHANGED <<nflights, fl, cap, key, bar, ret>>
    BY <1>2 DEF Remove, deregister, callVars, TypeOK
  <2>2. \A j \in Keys : keymap'[j] = IF j = k THEN NoEntry ELSE keymap[j]
    BY <1>2 DEF Remove, drop, TypeOK
  <2>3. \A j \in Keys : barrier'[j] = IF j = k THEN nflights ELSE barrier[j]
    BY <2>1 DEF TypeOK
  <2>4. \A j \in Keys : flights'[j] = IF j = k THEN 0 ELSE flights[j]
    BY <2>1 DEF TypeOK
  <2>5. \A j \in Keys : /\ barrier'[j] <= nflights'
                        /\ flights'[j] # 0 => flights'[j] > barrier'[j]
                        /\ Held(j)' => keymap'[j].val > barrier'[j]
    BY <1>nat, <2>1, <2>2, <2>3, <2>4 DEF BarrierInv, Held
  <2>6. ASSUME NEW h \in Goroutines
        PROVE  /\ pc'[h] \notin {"idle", "release"} => bar'[h] <= barrier'[key'[h]]
               /\ pc'[h] \in Producers => fl'[h] > bar'[h] /\ (cap'[h].ok => cap'[h].val > bar'[h])
               /\ pc'[h] # "room"
               /\ Registered(h)' => (cap'[h].ok => cap'[h].val > barrier'[key'[h]])
               /\ ret'[h].kind \in {"value", "error"} => ret'[h].val > bar'[h]
    <3>1. CASE pc'[h] \in {"idle", "release"}
      BY <2>1, <3>1 DEF BarrierInv, Producers, Registered
    <3>2. CASE pc'[h] \notin {"idle", "release"}
      <4>1. h # g /\ pc'[h] = pc[h] /\ key[h] \in Keys
        BY <2>1, <3>2 DEF TypeOK
      <4>2. bar[h] \in Nat /\ barrier[key[h]] \in Nat
        BY <4>1 DEF TypeOK
      <4>3. bar[h] <= barrier[key[h]] /\ barrier[key[h]] <= nflights
        BY <3>2, <4>1 DEF BarrierInv
      <4>4. bar[h] <= barrier'[key[h]]
        BY <1>nat, <2>3, <4>1, <4>2, <4>3
      <4>5. Registered(h)' => Registered(h) /\ key[h] # k
        BY <1>range, <2>1, <2>4, <4>1 DEF Registered, Producers
      <4> QED BY <1>noRoom, <2>1, <2>3, <4>1, <4>4, <4>5 DEF BarrierInv
    <3> QED BY <3>1, <3>2
  <2> QED BY <2>5, <2>6 DEF BarrierInv
<1>3. ASSUME NEW g \in Goroutines, RejectKey(g) PROVE BarrierInv'
  BY <1>3 DEF RejectKey, cacheVars, callVars, BarrierInv, Registered, Producers, TypeOK, Held
<1>4. ASSUME NEW g \in Goroutines, Reset(g) PROVE BarrierInv'
  <2>1. /\ pc'[g] \in {"idle", "release"} /\ Free
        /\ \A h \in Goroutines \ {g} : pc'[h] = pc[h]
        /\ barrier' = [k \in Keys |-> nflights]
        /\ flights' = [k \in Keys |-> 0]
        /\ keymap' = [k \in Keys |-> NoEntry]
        /\ UNCHANGED <<nflights, fl, cap, key, bar, ret>>
    BY <1>4 DEF Reset, callVars, TypeOK
  <2>2. \A j \in Keys : /\ barrier'[j] <= nflights'
                        /\ flights'[j] # 0 => flights'[j] > barrier'[j]
                        /\ Held(j)' => keymap'[j].val > barrier'[j]
    BY <1>nat, <2>1 DEF Held
  <2>3. ASSUME NEW h \in Goroutines
        PROVE  /\ pc'[h] \notin {"idle", "release"} => bar'[h] <= barrier'[key'[h]]
               /\ pc'[h] \in Producers => fl'[h] > bar'[h] /\ (cap'[h].ok => cap'[h].val > bar'[h])
               /\ pc'[h] # "room"
               /\ ~Registered(h)'
               /\ ret'[h].kind \in {"value", "error"} => ret'[h].val > bar'[h]
    <3>1. CASE pc'[h] \in {"idle", "release"}
      BY <2>1, <3>1 DEF BarrierInv, Producers, Registered
    <3>2. CASE pc'[h] \notin {"idle", "release"}
      <4>1. h # g /\ pc'[h] = pc[h] /\ key[h] \in Keys
        BY <2>1, <3>2 DEF TypeOK
      <4>2. bar[h] \in Nat /\ barrier[key[h]] \in Nat
        BY <4>1 DEF TypeOK
      <4>3. bar[h] <= barrier[key[h]] /\ barrier[key[h]] <= nflights
        BY <3>2, <4>1 DEF BarrierInv
      <4>4. bar[h] <= barrier'[key[h]]
        BY <1>nat, <2>1, <4>1, <4>2, <4>3
      <4>5. ~Registered(h)'
        BY <1>range, <2>1, <4>1 DEF Registered, Producers
      <4> QED BY <1>noRoom, <2>1, <4>1, <4>4, <4>5 DEF BarrierInv
    <3> QED BY <3>1, <3>2
  <2> QED BY <2>2, <2>3 DEF BarrierInv
<1>5. ASSUME NEW g \in Goroutines, PurgeExpired(g) PROVE BarrierInv'
  BY <1>5 DEF PurgeExpired, callVars, BarrierInv, Registered, Producers, TypeOK, Held
<1>6. ASSUME NEW g \in Goroutines, fresh(g) PROVE BarrierInv'
  <2>1. key[g] \in Keys /\ pc[g] = "fast"
    BY <1>6 DEF fresh, TypeOK
  <2>2. CASE usable(keymap[key[g]], FALSE)
    <3>1. keymap[key[g]].val > bar[g]
      BY <1>later, <2>1, <2>2 DEF usable, Held
    <3> QED BY <1>returns, <1>6, <2>2, <3>1 DEF fresh, Cached, cacheVars
  <2>3. CASE ~usable(keymap[key[g]], FALSE)
    BY <1>6, <2>3 DEF fresh, cacheVars, callVars, BarrierInv, Registered, Producers, TypeOK, Held
  <2> QED BY <2>2, <2>3
<1>7. ASSUME NEW g \in Goroutines, checkContext(g) PROVE BarrierInv'
  BY <1>7 DEF checkContext, cacheVars, BarrierInv, Registered, Producers, TypeOK, Held
<1>8. ASSUME NEW g \in Goroutines, slowServe(g) PROVE BarrierInv'
  <2>1. key[g] \in Keys /\ pc[g] = "slow" /\ Held(key[g])
    BY <1>8 DEF slowServe, TypeOK, usable, Held
  <2>2. keymap[key[g]].val > bar[g]
    BY <1>later, <2>1
  <2> QED BY <1>returns, <1>8, <2>2 DEF slowServe, Cached, cacheVars
<1>9. ASSUME NEW g \in Goroutines, slowJoin(g) PROVE BarrierInv'
  BY <1>9 DEF slowJoin, cacheVars, callVars, BarrierInv, Registered, Producers, TypeOK, Held
<1>10. ASSUME NEW g \in Goroutines, startAborted(g) PROVE BarrierInv'
  BY <1>10 DEF startAborted, Return, cacheVars, BarrierInv, Registered, Producers, TypeOK, Held
<1>11. ASSUME NEW g \in Goroutines, startFlight(g) PROVE BarrierInv'
  <2>1. /\ key[g] \in Keys /\ pc'[g] = "fetch" /\ fl'[g] = nflights + 1 /\ pc[g] = "slow"
        /\ \A h \in Goroutines \ {g} : pc'[h] = pc[h] /\ fl'[h] = fl[h] /\ cap'[h] = cap[h]
        /\ cap'[g] = staleFrom(keymap[key[g]])
        /\ \A j \in Keys : flights'[j] = IF j = key[g] THEN nflights + 1 ELSE flights[j]
        /\ nflights' = nflights + 1
        /\ UNCHANGED <<key, bar, barrier, ret>>
    BY <1>11 DEF startFlight, TypeOK
  <2>2. \A j \in Keys : keymap'[j] = IF j = key[g] THEN NoEntry ELSE keymap[j]
    BY <1>11, <2>1 DEF startFlight, drop, TypeOK
  <2>3. \A j \in Keys : barrier[j] \in Nat /\ barrier[j] <= nflights
    BY DEF TypeOK, BarrierInv
  <2>4. \A j \in Keys : /\ barrier'[j] <= nflights'
                        /\ flights'[j] # 0 => flights'[j] > barrier'[j]
                        /\ Held(j)' => keymap'[j].val > barrier'[j]
    BY <1>nat, <2>1, <2>2, <2>3 DEF BarrierInv, Held
  <2>5. bar[g] \in Nat /\ bar[g] <= barrier[key[g]] /\ bar[g] <= nflights
    BY <1>nat, <2>1, <2>3 DEF BarrierInv, TypeOK
  <2>6. cap'[g].ok => cap'[g].val > barrier[key[g]] /\ cap'[g].val > bar[g]
    <3>1. cap'[g].ok => Held(key[g]) /\ cap'[g].val = keymap[key[g]].val
      BY <2>1 DEF staleFrom, NoStale, Held
    <3> QED BY <1>later, <2>1, <3>1 DEF BarrierInv
  <2>7. ASSUME NEW h \in Goroutines \ {g}, Registered(h)' PROVE Registered(h)
    <3>1. key[h] \in Keys /\ fl[h] \in 1 .. nflights
      BY <1>range, <2>1, <2>7 DEF Registered, Producers, TypeOK
    <3> QED BY <1>nat, <2>1, <2>7, <3>1 DEF Registered
  <2>8. ASSUME NEW h \in Goroutines
        PROVE  /\ pc'[h] \notin {"idle", "release"} => bar'[h] <= barrier'[key'[h]]
               /\ pc'[h] \in Producers => fl'[h] > bar'[h] /\ (cap'[h].ok => cap'[h].val > bar'[h])
               /\ pc'[h] = "room" => fl'[h] > barrier'[key'[h]]
               /\ (Registered(h)' \/ pc'[h] = "room") => (cap'[h].ok => cap'[h].val > barrier'[key'[h]])
               /\ ret'[h].kind \in {"value", "error"} => ret'[h].val > bar'[h]
    <3>1. CASE h = g
      BY <1>nat, <2>1, <2>5, <2>6, <3>1 DEF BarrierInv
    <3>2. CASE h # g
      BY <2>1, <2>7, <3>2 DEF BarrierInv
    <3> QED BY <3>1, <3>2
  <2> QED BY <2>4, <2>8 DEF BarrierInv
<1>12. ASSUME NEW g \in Goroutines, awaitDone(g) PROVE BarrierInv'
  BY <1>12 DEF awaitDone, cacheVars, BarrierInv, Registered, Producers, TypeOK, Held
<1>13. ASSUME NEW g \in Goroutines, awaitAborted(g) PROVE BarrierInv'
  BY <1>13 DEF awaitAborted, Return, cacheVars, BarrierInv, Registered, Producers, TypeOK, Held
<1>14. ASSUME NEW g \in Goroutines, abortFlight(g) PROVE BarrierInv'
  BY <1>14 DEF abortFlight, deregister, cacheVars, callVars, BarrierInv, Registered, Producers, TypeOK, Held
<1>15. ASSUME NEW g \in Goroutines, publishSuperseded(g) PROVE BarrierInv'
  BY <1>15 DEF publishSuperseded, cacheVars, callVars, BarrierInv, Registered, Producers, TypeOK, Held
<1>16. ASSUME NEW g \in Goroutines, publish(g) PROVE BarrierInv'
  <2>1. /\ pc[g] = "publish" /\ Registered(g) /\ key[g] \in Keys /\ pc'[g] \in {"room", "finish"}
        /\ \A h \in Goroutines \ {g} : pc'[h] = pc[h]
        /\ flights' = [flights EXCEPT ![key[g]] = 0]
    BY <1>16, Published
  <2>2. UNCHANGED <<keymap, nflights, fl, cap, key, bar, barrier, ret>>
    BY <1>16 DEF publish, cacheVars, callVars
  <2>3. \A j \in Keys : flights'[j] = IF j = key[g] THEN 0 ELSE flights[j]
    BY <2>1 DEF TypeOK
  <2>4. fl[g] > barrier[key[g]]
    BY <1>range, <2>1 DEF BarrierInv, Registered, Producers
  <2>5. ASSUME NEW h \in Goroutines \ {g}, Registered(h)' PROVE Registered(h)
    <3>1. key[h] \in Keys /\ fl[h] \in 1 .. nflights
      BY <1>range, <2>1, <2>2, <2>5 DEF Registered, Producers, TypeOK
    <3> QED BY <2>1, <2>2, <2>3, <2>5, <3>1 DEF Registered
  <2> QED BY <2>1, <2>2, <2>3, <2>4, <2>5 DEF BarrierInv, Held, Producers, Registered
<1>17. ASSUME NEW g \in Goroutines, evict(g) PROVE BarrierInv'
  BY <1>17 DEF evict, drop, callVars, BarrierInv, Registered, Producers, TypeOK, Held
<1>18. ASSUME NEW g \in Goroutines, set(g) PROVE BarrierInv'
  <2>1. /\ pc[g] = "room" /\ pc'[g] = "finish" /\ key[g] \in Keys
        /\ \A h \in Goroutines \ {g} : pc'[h] = pc[h]
        /\ UNCHANGED <<flights, nflights, fl, cap, key, bar, barrier, ret>>
    BY <1>18 DEF set, callVars, TypeOK
  <2>2. \A j \in Keys : keymap'[j] = IF j = key[g] THEN Outcome(g) ELSE keymap[j]
    BY <1>18, <2>1 DEF set, store, TypeOK
  <2>3. Outcome(g).val > barrier[key[g]]
    BY <2>1 DEF BarrierInv, RoomInv, Outcome
  <2>4. \A h \in Goroutines : Registered(h)' => Registered(h) /\ h # g
    BY <2>1 DEF Registered
  <2> QED BY <2>1, <2>2, <2>3, <2>4 DEF BarrierInv, Held, Producers
<1>19. ASSUME NEW g \in Goroutines, finish(g) PROVE BarrierInv'
  <2>1. pc[g] = "finish"
    BY <1>19 DEF finish
  <2>2. Produced(g).kind \in {"value", "error"} => Produced(g).val > bar[g]
    BY <2>1 DEF BarrierInv, RoomInv, Produced, Producers
  <2> QED BY <1>returns, <1>19, <2>2 DEF finish, cacheVars
<1>20. ASSUME NEW g \in Goroutines, release(g) PROVE BarrierInv'
  BY <1>20 DEF release, cacheVars, callVars, BarrierInv, Registered, Producers, TypeOK, Held
<1>21. ASSUME NEW g \in Goroutines, lookupFn(g) PROVE BarrierInv'
  BY <1>21 DEF lookupFn, cacheVars, callVars, BarrierInv, Registered, Producers, TypeOK, Held
<1>22. ASSUME NEW g \in Goroutines, endContext(g) PROVE BarrierInv'
  BY <1>22 DEF endContext, cacheVars, BarrierInv, Registered, Producers, TypeOK, Held
<1>23. CASE Tick
  BY <1>23 DEF Tick, cacheVars, callVars, BarrierInv, Registered, Producers, TypeOK, Held
<1>24. CASE UNCHANGED vars
  BY <1>24 DEF vars, cacheVars, callVars, BarrierInv, Registered, Producers, TypeOK, Held
<1> QED
  BY <1>1, <1>2, <1>3, <1>4, <1>5, <1>6, <1>7, <1>8, <1>9, <1>10, <1>11, <1>12, <1>13, <1>14, <1>15, <1>16, <1>17, <1>18, <1>19, <1>20, <1>21, <1>22, <1>23, <1>24
  DEF Next, Call, Internal, Quiescent



-----------------------------------------------------------------------------
(* What was over before a call is not handed to it as an error *)

\* Every step keeps SeenInv: a flight that is over does not come back into flight.
LEMMA SeenNext == TypeOK /\ FlightInv /\ RoomInv /\ NumberInv /\ SeenInv /\ [Next]_vars => SeenInv'
<1> SUFFICES ASSUME TypeOK, FlightInv, RoomInv, NumberInv, SeenInv, [Next]_vars PROVE SeenInv'
  OBVIOUS
<1> USE GoroutinesAssumption
<1>0. nflights \in Nat
  BY DEF TypeOK
<1>1. ASSUME NEW g \in Goroutines, NEW k \in Keys, Lookup(g, k) PROVE SeenInv'
  <2>1. /\ pc'[g] = "fast" /\ pc[g] = "idle" /\ key'[g] = k /\ waited' = waited
        /\ \A h \in Goroutines \ {g} : /\ pc'[h] = pc[h] /\ key'[h] = key[h]
                                       /\ seen'[h] = seen[h]
        /\ UNCHANGED <<keymap, flights, nflights, fl>>
    BY <1>1 DEF Lookup, cacheVars, TypeOK
  <2>2. seen'[g] = {f \in FlightIds : hist[f].kind \notin {"none", "run"}} \ {flights[j] : j \in Keys}
    BY <1>1 DEF Lookup, TypeOK
  <2>3. seen'[g] \subseteq 1 .. nflights /\ \A j \in Keys : flights[j] \notin seen'[g]
    BY <1>0, <2>2, BoundsAssumption DEF NumberInv, FlightIds
  <2>4. ~Coalesced(g)'
    BY <2>1 DEF Coalesced, SeenInv, SeenFlights, SeenErrors
  <2>5. \A h \in Goroutines : Coalesced(h)' => h # g /\ Coalesced(h)
    BY <2>1, <2>4 DEF Coalesced
  <2> QED BY <2>1, <2>3, <2>5 DEF SeenInv, SeenFlights, SeenErrors, Producers, Held
<1>2. ASSUME NEW g \in Goroutines, NEW k \in Keys, Remove(g, k) PROVE SeenInv'
  BY <1>2 DEF Remove, drop, deregister, callVars, SeenInv, SeenFlights, SeenErrors, Coalesced, Producers, TypeOK, Held
<1>3. ASSUME NEW g \in Goroutines, RejectKey(g) PROVE SeenInv'
  BY <1>3 DEF RejectKey, cacheVars, callVars, SeenInv, SeenFlights, SeenErrors, Coalesced, Producers, TypeOK, Held
<1>4. ASSUME NEW g \in Goroutines, Reset(g) PROVE SeenInv'
  BY <1>4 DEF Reset, callVars, SeenInv, SeenFlights, SeenErrors, Coalesced, Producers, TypeOK, Held
<1>5. ASSUME NEW g \in Goroutines, PurgeExpired(g) PROVE SeenInv'
  BY <1>5 DEF PurgeExpired, callVars, SeenInv, SeenFlights, SeenErrors, Coalesced, Producers, TypeOK, Held
<1>6. ASSUME NEW g \in Goroutines, fresh(g) PROVE SeenInv'
  <2>1. pc[g] = "fast" /\ UNCHANGED <<keymap, flights, nflights, key, seen>>
    BY <1>6 DEF fresh, Return, cacheVars, callVars
  <2>2. /\ pc'[g] \in {"idle", "check"} /\ waited'[g] \in {waited[g], FALSE}
        /\ pc'[g] = "idle" => ~waited'[g]
        /\ \A h \in Goroutines \ {g} : pc'[h] = pc[h] /\ fl'[h] = fl[h] /\ waited'[h] = waited[h]
    BY <1>6, ZenonT(40) DEF fresh, Return, callVars, TypeOK
  <2>3. \A h \in Goroutines : Coalesced(h)' => Coalesced(h) /\ pc'[h] \notin {"idle", "release"}
    BY <2>1, <2>2 DEF Coalesced, SeenInv, SeenFlights, SeenErrors
  <2> QED BY <2>1, <2>2, <2>3 DEF SeenInv, SeenFlights, SeenErrors, Producers, Held
<1>7. ASSUME NEW g \in Goroutines, checkContext(g) PROVE SeenInv'
  BY <1>7 DEF checkContext, cacheVars, SeenInv, SeenFlights, SeenErrors, Coalesced, Producers, TypeOK, Held
<1>8. ASSUME NEW g \in Goroutines, slowServe(g) PROVE SeenInv'
  BY <1>8 DEF slowServe, Return, cacheVars, SeenInv, SeenFlights, SeenErrors, Coalesced, Producers, TypeOK, Held
<1>9. ASSUME NEW g \in Goroutines, slowJoin(g) PROVE SeenInv'
  <2>1. /\ pc'[g] = "await" /\ key[g] \in Keys /\ flights[key[g]] # 0 /\ Free
        /\ \A h \in Goroutines \ {g} : pc'[h] = pc[h] /\ fl'[h] = fl[h]
        /\ UNCHANGED <<keymap, flights, nflights, key, seen, waited>>
    BY <1>9 DEF slowJoin, cacheVars, callVars, TypeOK
  <2>2. ~Held(key[g]) /\ \A h \in Goroutines : pc[h] # "room"
    BY <2>1 DEF FlightInv, RegisteredFlightsAreLive, Free
  <2> QED BY <2>1, <2>2 DEF SeenInv, SeenFlights, SeenErrors, Coalesced, Producers, Held
<1>10. ASSUME NEW g \in Goroutines, startAborted(g) PROVE SeenInv'
  BY <1>10 DEF startAborted, Return, cacheVars, SeenInv, SeenFlights, SeenErrors, Coalesced, Producers, TypeOK, Held
<1>11. ASSUME NEW g \in Goroutines, startFlight(g) PROVE SeenInv'
  BY <1>11 DEF startFlight, drop, SeenInv, SeenFlights, SeenErrors, Coalesced, Producers, TypeOK, Held
<1>12. ASSUME NEW g \in Goroutines, awaitDone(g) PROVE SeenInv'
  BY <1>12 DEF awaitDone, cacheVars, SeenInv, SeenFlights, SeenErrors, Coalesced, Producers, TypeOK, Held
<1>13. ASSUME NEW g \in Goroutines, awaitAborted(g) PROVE SeenInv'
  BY <1>13 DEF awaitAborted, Return, cacheVars, SeenInv, SeenFlights, SeenErrors, Coalesced, Producers, TypeOK, Held
<1>14. ASSUME NEW g \in Goroutines, abortFlight(g) PROVE SeenInv'
  <2>1. /\ pc'[g] = "finish" /\ pc[g] = "abort"
        /\ \A h \in Goroutines \ {g} : pc'[h] = pc[h]
        /\ UNCHANGED <<keymap, nflights, fl, key, waited, seen>>
    BY <1>14 DEF abortFlight, cacheVars, callVars, TypeOK
  <2>2. \A j \in Keys : flights'[j] \in {flights[j], 0}
    BY <1>14 DEF abortFlight, deregister, TypeOK
  <2>3. SeenFlights'
    BY <2>1, <2>2 DEF SeenInv, SeenFlights, Producers
  <2>4. SeenErrors'
    BY <2>1 DEF SeenInv, SeenErrors, Coalesced, Held
  <2> QED BY <2>3, <2>4 DEF SeenInv
<1>15. ASSUME NEW g \in Goroutines, publishSuperseded(g) PROVE SeenInv'
  BY <1>15 DEF publishSuperseded, cacheVars, callVars, SeenInv, SeenFlights, SeenErrors, Coalesced, Producers, TypeOK, Held
<1>16. ASSUME NEW g \in Goroutines, publish(g) PROVE SeenInv'
  <2>1. /\ pc[g] = "publish" /\ Registered(g) /\ key[g] \in Keys /\ pc'[g] \in {"room", "finish"}
        /\ \A h \in Goroutines \ {g} : pc'[h] = pc[h]
        /\ flights' = [flights EXCEPT ![key[g]] = 0]
    BY <1>16, Published
  <2>2. UNCHANGED <<keymap, nflights, fl, key, waited, seen>>
    BY <1>16 DEF publish, cacheVars, callVars
  <2>3. \A j \in Keys : flights'[j] = IF j = key[g] THEN 0 ELSE flights[j]
    BY <2>1 DEF TypeOK
  <2>4. \A h \in Goroutines : fl[g] \notin seen[h] /\ 0 \notin seen[h]
    BY <1>0, <2>1 DEF SeenInv, SeenFlights, SeenErrors, Registered
  <2>5. \A h \in Goroutines : Coalesced(h)' => Coalesced(h) /\ pc'[h] \notin {"idle", "release"}
    BY <2>1, <2>2 DEF Coalesced, SeenInv, SeenFlights, SeenErrors
  <2> QED BY <2>1, <2>2, <2>3, <2>4, <2>5 DEF SeenInv, SeenFlights, SeenErrors, Producers, Held
<1>17. ASSUME NEW g \in Goroutines, evict(g) PROVE SeenInv'
  BY <1>17 DEF evict, drop, callVars, SeenInv, SeenFlights, SeenErrors, Coalesced, Producers, TypeOK, Held
<1>18. ASSUME NEW g \in Goroutines, set(g) PROVE SeenInv'
  <2>1. /\ pc[g] = "room" /\ pc'[g] = "finish" /\ key[g] \in Keys
        /\ \A h \in Goroutines \ {g} : pc'[h] = pc[h]
        /\ UNCHANGED <<flights, nflights, fl, key, waited, seen>>
    BY <1>18 DEF set, callVars, TypeOK
  <2>2. \A j \in Keys : keymap'[j] = IF j = key[g] THEN Outcome(g) ELSE keymap[j]
    BY <1>18, <2>1 DEF set, store, TypeOK
  <2>3. Outcome(g).err => Outcome(g).val = fl[g]
    BY DEF Outcome
  <2>4. \A h \in Goroutines : Coalesced(h)' => Coalesced(h) /\ pc'[h] \notin {"idle", "release"}
    BY <2>1 DEF Coalesced, SeenInv, SeenFlights, SeenErrors
  <2>5. ASSUME NEW h \in Goroutines, Coalesced(h)', Held(key[h])', keymap'[key'[h]].err
        PROVE  keymap'[key'[h]].val \notin seen'[h]
    <3>1. Coalesced(h) /\ key[h] \in Keys
      BY <2>1, <2>4, <2>5 DEF SeenInv, SeenFlights, SeenErrors, TypeOK
    <3>2. CASE key[h] = key[g]
      BY <2>1, <2>2, <2>3, <2>5, <3>1, <3>2 DEF SeenInv, SeenFlights, SeenErrors
    <3>3. CASE key[h] # key[g]
      <4>1. keymap'[key'[h]] = keymap[key[h]] /\ seen'[h] = seen[h]
        BY <2>1, <2>2, <3>1, <3>3
      <4>2. Held(key[h]) /\ keymap[key[h]].err
        BY <2>5, <4>1 DEF Held
      <4> QED BY <3>1, <4>1, <4>2 DEF SeenInv, SeenFlights, SeenErrors
    <3> QED BY <3>2, <3>3
  <2>6. \A h \in Goroutines : pc'[h] = "room" => pc[h] = "room"
    BY <2>1
  <2>7. SeenFlights'
    BY <2>1 DEF SeenInv, SeenFlights, Producers
  <2>8. \A h, j \in Goroutines :
          (Coalesced(h)' /\ pc'[j] = "room" /\ key'[j] = key'[h]) => fl'[j] \notin seen'[h]
    BY <2>1, <2>4, <2>6 DEF SeenInv, SeenErrors
  <2>9. SeenErrors'
    BY <2>4, <2>5, <2>8 DEF SeenErrors
  <2> QED BY <2>7, <2>9 DEF SeenInv
<1>19. ASSUME NEW g \in Goroutines, finish(g) PROVE SeenInv'
  BY <1>19 DEF finish, Return, cacheVars, SeenInv, SeenFlights, SeenErrors, Coalesced, Producers, TypeOK, Held
<1>20. ASSUME NEW g \in Goroutines, release(g) PROVE SeenInv'
  BY <1>20 DEF release, cacheVars, callVars, SeenInv, SeenFlights, SeenErrors, Coalesced, Producers, TypeOK, Held
<1>21. ASSUME NEW g \in Goroutines, lookupFn(g) PROVE SeenInv'
  BY <1>21 DEF lookupFn, cacheVars, callVars, SeenInv, SeenFlights, SeenErrors, Coalesced, Producers, TypeOK, Held
<1>22. ASSUME NEW g \in Goroutines, endContext(g) PROVE SeenInv'
  BY <1>22 DEF endContext, cacheVars, SeenInv, SeenFlights, SeenErrors, Coalesced, Producers, TypeOK, Held
<1>23. CASE Tick
  BY <1>23 DEF Tick, cacheVars, callVars, SeenInv, SeenFlights, SeenErrors, Coalesced, Producers, TypeOK, Held
<1>24. CASE UNCHANGED vars
  BY <1>24 DEF vars, cacheVars, callVars, SeenInv, SeenFlights, SeenErrors, Coalesced, Producers, TypeOK, Held
<1> QED
  BY <1>1, <1>2, <1>3, <1>4, <1>5, <1>6, <1>7, <1>8, <1>9, <1>10, <1>11, <1>12, <1>13, <1>14, <1>15, <1>16, <1>17, <1>18, <1>19, <1>20, <1>21, <1>22, <1>23, <1>24
  DEF Next, Call, Internal, Quiescent


-----------------------------------------------------------------------------
(* Where producers and answers come from *)

\* A producer keeps its flight, its key and what it captured, and its result once it has published.
SameFlight(g) ==
  /\ pc[g] \in Producers
  /\ fl'[g] = fl[g] /\ key'[g] = key[g] /\ cap'[g] = cap[g]
  /\ \/ lookupFn(g)
     \/ publish(g)
     \/ /\ res'[g] = res[g]
        /\ pc'[g] = pc[g] \/ (pc'[g] = "finish" /\ pc[g] # "fetch")

\* A producer has just started, or goes on with its flight.
LEMMA ProducerSteps ==
  ASSUME TypeOK, [Next]_vars, NEW g \in Goroutines, pc'[g] \in Producers
  PROVE  startFlight(g) \/ SameFlight(g)
<1>1. ASSUME NEW h \in Goroutines, NEW k \in Keys, Lookup(h, k) PROVE startFlight(g) \/ SameFlight(g)
  BY <1>1 DEF Lookup, cacheVars, SameFlight, Producers, TypeOK
<1>2. ASSUME NEW h \in Goroutines, NEW k \in Keys, Remove(h, k) PROVE startFlight(g) \/ SameFlight(g)
  BY <1>2 DEF Remove, callVars, SameFlight, Producers, TypeOK
<1>3. ASSUME NEW h \in Goroutines, RejectKey(h) PROVE startFlight(g) \/ SameFlight(g)
  BY <1>3 DEF RejectKey, cacheVars, callVars, SameFlight, Producers, TypeOK
<1>4. ASSUME NEW h \in Goroutines, Reset(h) PROVE startFlight(g) \/ SameFlight(g)
  BY <1>4 DEF Reset, callVars, SameFlight, Producers, TypeOK
<1>5. ASSUME NEW h \in Goroutines, PurgeExpired(h) PROVE startFlight(g) \/ SameFlight(g)
  BY <1>5 DEF PurgeExpired, callVars, SameFlight, Producers, TypeOK
<1>6. ASSUME NEW h \in Goroutines, fresh(h) PROVE startFlight(g) \/ SameFlight(g)
  <2>1. CASE usable(keymap[key[h]], FALSE)
    BY <1>6, <2>1 DEF fresh, Return, SameFlight, Producers, TypeOK
  <2>2. CASE ~usable(keymap[key[h]], FALSE)
    BY <1>6, <2>2 DEF fresh, callVars, SameFlight, Producers, TypeOK
  <2> QED BY <2>1, <2>2
<1>7. ASSUME NEW h \in Goroutines, checkContext(h) PROVE startFlight(g) \/ SameFlight(g)
  BY <1>7 DEF checkContext, SameFlight, Producers, TypeOK
<1>8. ASSUME NEW h \in Goroutines, slowServe(h) PROVE startFlight(g) \/ SameFlight(g)
  BY <1>8 DEF slowServe, Return, SameFlight, Producers, TypeOK
<1>9. ASSUME NEW h \in Goroutines, slowJoin(h) PROVE startFlight(g) \/ SameFlight(g)
  BY <1>9 DEF slowJoin, callVars, SameFlight, Producers, TypeOK
<1>10. ASSUME NEW h \in Goroutines, startAborted(h) PROVE startFlight(g) \/ SameFlight(g)
  BY <1>10 DEF startAborted, Return, SameFlight, Producers, TypeOK
<1>11. ASSUME NEW h \in Goroutines, startFlight(h) PROVE startFlight(g) \/ SameFlight(g)
  <2>1. CASE g = h
    BY <1>11, <2>1
  <2>2. CASE g # h
    BY <1>11, <2>2 DEF startFlight, SameFlight, Producers, TypeOK
  <2> QED BY <2>1, <2>2
<1>12. ASSUME NEW h \in Goroutines, awaitDone(h) PROVE startFlight(g) \/ SameFlight(g)
  BY <1>12 DEF awaitDone, SameFlight, Producers, TypeOK
<1>13. ASSUME NEW h \in Goroutines, awaitAborted(h) PROVE startFlight(g) \/ SameFlight(g)
  BY <1>13 DEF awaitAborted, Return, SameFlight, Producers, TypeOK
<1>14. ASSUME NEW h \in Goroutines, abortFlight(h) PROVE startFlight(g) \/ SameFlight(g)
  BY <1>14 DEF abortFlight, callVars, SameFlight, Producers, TypeOK
<1>15. ASSUME NEW h \in Goroutines, publishSuperseded(h) PROVE startFlight(g) \/ SameFlight(g)
  BY <1>15 DEF publishSuperseded, callVars, SameFlight, Producers, TypeOK
<1>16. ASSUME NEW h \in Goroutines, publish(h) PROVE startFlight(g) \/ SameFlight(g)
  <2>1. pc[h] = "publish" /\ \A j \in Goroutines \ {h} : pc'[j] = pc[j] /\ res'[j] = res[j]
    BY <1>16, Published
  <2>2. UNCHANGED <<fl, key, cap>>
    BY <1>16 DEF publish, callVars
  <2>3. CASE g = h
    BY <1>16, <2>1, <2>2, <2>3 DEF SameFlight, Producers
  <2>4. CASE g # h
    BY <2>1, <2>2, <2>4 DEF SameFlight
  <2> QED BY <2>3, <2>4
<1>17. ASSUME NEW h \in Goroutines, evict(h) PROVE startFlight(g) \/ SameFlight(g)
  BY <1>17 DEF evict, callVars, SameFlight, Producers, TypeOK
<1>18. ASSUME NEW h \in Goroutines, set(h) PROVE startFlight(g) \/ SameFlight(g)
  BY <1>18 DEF set, callVars, SameFlight, Producers, TypeOK
<1>19. ASSUME NEW h \in Goroutines, finish(h) PROVE startFlight(g) \/ SameFlight(g)
  BY <1>19 DEF finish, Return, SameFlight, Producers, TypeOK
<1>20. ASSUME NEW h \in Goroutines, release(h) PROVE startFlight(g) \/ SameFlight(g)
  BY <1>20 DEF release, callVars, SameFlight, Producers, TypeOK
<1>21. ASSUME NEW h \in Goroutines, lookupFn(h) PROVE startFlight(g) \/ SameFlight(g)
  <2>1. /\ pc[h] = "fetch" /\ \A j \in Goroutines \ {h} : pc'[j] = pc[j] /\ res'[j] = res[j]
    BY <1>21, LookedUp
  <2>2. UNCHANGED <<key, fl, cap>>
    BY <1>21 DEF lookupFn, callVars
  <2>3. pc[g] \in Producers
    BY <2>1 DEF Producers
  <2>4. CASE g = h
    BY <1>21, <2>2, <2>3, <2>4 DEF SameFlight
  <2>5. CASE g # h
    BY <2>1, <2>2, <2>3, <2>5 DEF SameFlight
  <2> QED BY <2>4, <2>5
<1>22. ASSUME NEW h \in Goroutines, endContext(h) PROVE startFlight(g) \/ SameFlight(g)
  BY <1>22 DEF endContext, SameFlight, Producers, TypeOK
<1>23. CASE Tick
  BY <1>23 DEF Tick, callVars, SameFlight, Producers, TypeOK
<1>24. CASE UNCHANGED vars
  BY <1>24 DEF vars, callVars, SameFlight, Producers, TypeOK
<1> QED
  BY <1>1, <1>2, <1>3, <1>4, <1>5, <1>6, <1>7, <1>8, <1>9, <1>10, <1>11, <1>12, <1>13, <1>14, <1>15, <1>16, <1>17, <1>18, <1>19, <1>20, <1>21, <1>22, <1>23, <1>24
  DEF Next, Call, Internal, Quiescent

\* What a call was answered stays, or is what a cached entry or the producer's own flight gave.
SameAnswer(g) == ret'[g] = ret[g] /\ key'[g] = key[g] /\ seen'[g] = seen[g]

NewAnswer(g) ==
  /\ key'[g] = key[g] /\ seen'[g] = seen[g] /\ key[g] \in Keys
  /\ \/ /\ usable(keymap[key[g]], waited[g])
        /\ ret'[g] = Cached(keymap[key[g]])
     \/ finish(g) /\ ret'[g] = Produced(g)

\* An answer stays until the next call, and a new one has one of the two sources.
LEMMA AnswerSteps ==
  ASSUME TypeOK, [Next]_vars, NEW g \in Goroutines, ret'[g].kind \in {"value", "error"}
  PROVE  SameAnswer(g) \/ NewAnswer(g)
<1>1. ASSUME NEW h \in Goroutines, NEW k \in Keys, Lookup(h, k) PROVE SameAnswer(g) \/ NewAnswer(g)
  <2>1. /\ ret'[h] = NoRet
        /\ \A j \in Goroutines \ {h} : ret'[j] = ret[j] /\ key'[j] = key[j] /\ seen'[j] = seen[j]
    BY <1>1 DEF Lookup, TypeOK
  <2>2. g # h
    BY <2>1 DEF NoRet
  <2> QED BY <2>1, <2>2 DEF SameAnswer
<1>2. ASSUME NEW h \in Goroutines, NEW k \in Keys, Remove(h, k) PROVE SameAnswer(g) \/ NewAnswer(g)
  BY <1>2 DEF Remove, callVars, SameAnswer, NewAnswer, TypeOK
<1>3. ASSUME NEW h \in Goroutines, RejectKey(h) PROVE SameAnswer(g) \/ NewAnswer(g)
  BY <1>3 DEF RejectKey, cacheVars, callVars, SameAnswer, NewAnswer, TypeOK
<1>4. ASSUME NEW h \in Goroutines, Reset(h) PROVE SameAnswer(g) \/ NewAnswer(g)
  BY <1>4 DEF Reset, callVars, SameAnswer, NewAnswer, TypeOK
<1>5. ASSUME NEW h \in Goroutines, PurgeExpired(h) PROVE SameAnswer(g) \/ NewAnswer(g)
  BY <1>5 DEF PurgeExpired, callVars, SameAnswer, NewAnswer, TypeOK
<1>6. ASSUME NEW h \in Goroutines, fresh(h) PROVE SameAnswer(g) \/ NewAnswer(g)
  <2>1. key' = key /\ seen' = seen /\ pc[h] = "fast" /\ key[h] \in Keys
    BY <1>6 DEF fresh, Return, callVars, TypeOK
  <2>2. CASE usable(keymap[key[h]], FALSE)
    <3>1. usable(keymap[key[h]], waited[h])
      BY <2>2 DEF usable
    <3>2. /\ ret'[h] = Cached(keymap[key[h]])
          /\ \A j \in Goroutines \ {h} : ret'[j] = ret[j]
      BY <1>6, <2>2 DEF fresh, Return, TypeOK
    <3> QED BY <2>1, <3>1, <3>2 DEF SameAnswer, NewAnswer
  <2>3. CASE ~usable(keymap[key[h]], FALSE)
    BY <1>6, <2>1, <2>3 DEF fresh, SameAnswer
  <2> QED BY <2>2, <2>3
<1>7. ASSUME NEW h \in Goroutines, checkContext(h) PROVE SameAnswer(g) \/ NewAnswer(g)
  BY <1>7 DEF checkContext, SameAnswer, NewAnswer, TypeOK
<1>8. ASSUME NEW h \in Goroutines, slowServe(h) PROVE SameAnswer(g) \/ NewAnswer(g)
  BY <1>8 DEF slowServe, Return, SameAnswer, NewAnswer, TypeOK
<1>9. ASSUME NEW h \in Goroutines, slowJoin(h) PROVE SameAnswer(g) \/ NewAnswer(g)
  BY <1>9 DEF slowJoin, callVars, SameAnswer, NewAnswer, TypeOK
<1>10. ASSUME NEW h \in Goroutines, startAborted(h) PROVE SameAnswer(g) \/ NewAnswer(g)
  BY <1>10 DEF startAborted, Return, SameAnswer, NewAnswer, TypeOK
<1>11. ASSUME NEW h \in Goroutines, startFlight(h) PROVE SameAnswer(g) \/ NewAnswer(g)
  BY <1>11 DEF startFlight, SameAnswer, NewAnswer, TypeOK
<1>12. ASSUME NEW h \in Goroutines, awaitDone(h) PROVE SameAnswer(g) \/ NewAnswer(g)
  BY <1>12 DEF awaitDone, SameAnswer, NewAnswer, TypeOK
<1>13. ASSUME NEW h \in Goroutines, awaitAborted(h) PROVE SameAnswer(g) \/ NewAnswer(g)
  BY <1>13 DEF awaitAborted, Return, SameAnswer, NewAnswer, TypeOK
<1>14. ASSUME NEW h \in Goroutines, abortFlight(h) PROVE SameAnswer(g) \/ NewAnswer(g)
  BY <1>14 DEF abortFlight, callVars, SameAnswer, NewAnswer, TypeOK
<1>15. ASSUME NEW h \in Goroutines, publishSuperseded(h) PROVE SameAnswer(g) \/ NewAnswer(g)
  BY <1>15 DEF publishSuperseded, callVars, SameAnswer, NewAnswer, TypeOK
<1>16. ASSUME NEW h \in Goroutines, publish(h) PROVE SameAnswer(g) \/ NewAnswer(g)
  BY <1>16 DEF publish, callVars, SameAnswer, NewAnswer, TypeOK
<1>17. ASSUME NEW h \in Goroutines, evict(h) PROVE SameAnswer(g) \/ NewAnswer(g)
  BY <1>17 DEF evict, callVars, SameAnswer, NewAnswer, TypeOK
<1>18. ASSUME NEW h \in Goroutines, set(h) PROVE SameAnswer(g) \/ NewAnswer(g)
  BY <1>18 DEF set, callVars, SameAnswer, NewAnswer, TypeOK
<1>19. ASSUME NEW h \in Goroutines, finish(h) PROVE SameAnswer(g) \/ NewAnswer(g)
  BY <1>19 DEF finish, Return, SameAnswer, NewAnswer, TypeOK
<1>20. ASSUME NEW h \in Goroutines, release(h) PROVE SameAnswer(g) \/ NewAnswer(g)
  BY <1>20 DEF release, callVars, SameAnswer, NewAnswer, TypeOK
<1>21. ASSUME NEW h \in Goroutines, lookupFn(h) PROVE SameAnswer(g) \/ NewAnswer(g)
  BY <1>21 DEF lookupFn, callVars, SameAnswer, NewAnswer, TypeOK
<1>22. ASSUME NEW h \in Goroutines, endContext(h) PROVE SameAnswer(g) \/ NewAnswer(g)
  BY <1>22 DEF endContext, SameAnswer, NewAnswer, TypeOK
<1>23. CASE Tick
  BY <1>23 DEF Tick, callVars, SameAnswer, NewAnswer, TypeOK
<1>24. CASE UNCHANGED vars
  BY <1>24 DEF vars, callVars, SameAnswer, NewAnswer, TypeOK
<1> QED
  BY <1>1, <1>2, <1>3, <1>4, <1>5, <1>6, <1>7, <1>8, <1>9, <1>10, <1>11, <1>12, <1>13, <1>14, <1>15, <1>16, <1>17, <1>18, <1>19, <1>20, <1>21, <1>22, <1>23, <1>24
  DEF Next, Call, Internal, Quiescent


\* The key and the outcome of a flight that is over never change again.
LEMMA OldFlights ==
  ASSUME TypeOK, FlightInv, NumberInv, OriginInv, [Next]_vars, NEW f \in 1 .. nflights
  PROVE  /\ f \in FlightIds /\ f \in 1 .. nflights'
         /\ hist'[f].key = hist[f].key
         /\ hist[f].kind # "run" => hist'[f].kind = hist[f].kind
<1>1. nflights \in Nat /\ calls \in Nat /\ calls <= MaxCalls /\ MaxCalls \in Nat
  BY BoundsAssumption DEF TypeOK
<1>2. Cardinality(Asking) \in Nat
  BY FS_CardinalityType DEF NumberInv
<1>3. f \in FlightIds
  BY <1>1, <1>2 DEF NumberInv, FlightIds
<1>4. f \in 1 .. nflights'
  BY <1>1, FlightsCounted
<1>5. \A g \in Goroutines : startFlight(g) => f # nflights + 1
  BY <1>1
<1>6. \A g \in Goroutines : lookupFn(g) => hist[fl[g]].kind = "run"
  BY DEF lookupFn, OriginInv, OriginCaptured, Producers
<1> QED BY <1>3, <1>4, <1>5, <1>6, HistoryStays

\* What set stores is the outcome of its own flight, or the value that flight captured.
LEMMA OriginStoredNext ==
  TypeOK /\ FlightInv /\ RoomInv /\ NumberInv /\ OriginInv /\ [Next]_vars => OriginStored'
<1> SUFFICES ASSUME TypeOK, FlightInv, RoomInv, NumberInv, OriginInv, [Next]_vars,
                    NEW k \in Keys, Held(k)'
             PROVE  /\ keymap'[k].val \in 1 .. nflights'
                    /\ hist'[keymap'[k].val].key = k
                    /\ hist'[keymap'[k].val].kind = IF keymap'[k].err THEN "fail" ELSE "ok"
                    /\ keymap'[k].err => keymap'[k].expireAt = 0
  BY DEF OriginStored
<1>1. CASE keymap'[k] = keymap[k] /\ Held(k)
  <2>1. /\ keymap[k].val \in 1 .. nflights
        /\ hist[keymap[k].val].key = k
        /\ hist[keymap[k].val].kind = IF keymap[k].err THEN "fail" ELSE "ok"
        /\ keymap[k].err => keymap[k].expireAt = 0
    BY <1>1 DEF OriginInv, OriginStored
  <2>2. hist[keymap[k].val].kind # "run"
    BY <2>1
  <2> QED BY <1>1, <2>1, <2>2, OldFlights
<1>2. ASSUME NEW g \in Goroutines, set(g), key[g] = k, keymap'[k] = Outcome(g)
      PROVE  /\ keymap'[k].val \in 1 .. nflights'
             /\ hist'[keymap'[k].val].key = k
             /\ hist'[keymap'[k].val].kind = IF keymap'[k].err THEN "fail" ELSE "ok"
             /\ keymap'[k].err => keymap'[k].expireAt = 0
  <2>1. pc[g] = "room" /\ pc[g] \in Producers /\ pc[g] # "fetch"
    BY <1>2 DEF set, Producers
  <2>2. /\ fl[g] \in 1 .. nflights /\ hist[fl[g]].key = k /\ hist[fl[g]].kind = res[g].kind
        /\ cap[g].ok => /\ cap[g].val \in 1 .. nflights
                        /\ hist[cap[g].val].key = k
                        /\ hist[cap[g].val].kind = "ok"
    BY <1>2, <2>1 DEF OriginInv, OriginCaptured, FlightInv
  <2>3. /\ res[g].until # 0 => res[g].kind # "ok" /\ cap[g].ok
        /\ res[g].kind \in {"ok", "fail"} \/ res[g].until # 0
    BY <2>1 DEF RoomInv
  <2>4. CASE res[g].until # 0
    <3>0. Outcome(g).val = cap[g].val /\ ~Outcome(g).err
      BY <2>4 DEF Outcome
    <3>1. keymap'[k].val = cap[g].val /\ ~keymap'[k].err
      BY <1>2, <3>0
    <3>2. hist[cap[g].val].kind # "run" /\ cap[g].val \in 1 .. nflights
      BY <2>2, <2>3, <2>4
    <3> QED BY <2>2, <2>3, <2>4, <3>1, <3>2, OldFlights
  <2>5. CASE res[g].until = 0
    <3>0. /\ Outcome(g).val = fl[g] /\ (Outcome(g).err <=> res[g].kind # "ok")
          /\ Outcome(g).err => Outcome(g).expireAt = 0
      BY <2>5 DEF Outcome
    <3>1. /\ keymap'[k].val = fl[g] /\ (keymap'[k].err <=> res[g].kind # "ok")
          /\ keymap'[k].err => keymap'[k].expireAt = 0
      BY <1>2, <3>0
    <3>2. hist[fl[g]].kind # "run"
      BY <2>2, <2>3, <2>5
    <3>3. /\ fl[g] \in 1 .. nflights' /\ hist'[fl[g]].key = k
          /\ hist'[fl[g]].kind = res[g].kind
      BY <2>2, <3>2, OldFlights
    <3> QED BY <2>3, <2>5, <3>1, <3>3
  <2> QED BY <2>4, <2>5
<1> QED BY <1>1, <1>2, EntrySteps

\* A producer captures the entry of its own key, and keeps it.
LEMMA OriginCapturedNext ==
  TypeOK /\ FlightInv /\ RoomInv /\ NumberInv /\ OriginInv /\ [Next]_vars => OriginCaptured'
<1> SUFFICES ASSUME TypeOK, FlightInv, RoomInv, NumberInv, OriginInv, [Next]_vars,
                    NEW g \in Goroutines, pc'[g] \in Producers
             PROVE  /\ hist'[fl'[g]].key = key'[g]
                    /\ hist'[fl'[g]].kind = IF pc'[g] = "fetch" THEN "run" ELSE res'[g].kind
                    /\ cap'[g].ok => /\ cap'[g].val \in 1 .. nflights'
                                     /\ hist'[cap'[g].val].key = key'[g]
                                     /\ hist'[cap'[g].val].kind = "ok"
  BY DEF OriginCaptured, Producers
<1>1. CASE startFlight(g)
  <2>1. nflights + 1 \in FlightIds
    BY <1>1, StartsInRange
  <2>2. /\ key[g] \in Keys /\ key'[g] = key[g] /\ pc'[g] = "fetch" /\ fl'[g] = nflights + 1
        /\ cap'[g] = staleFrom(keymap[key[g]])
    BY <1>1 DEF startFlight, TypeOK
  <2>3. hist'[nflights + 1] = [key |-> key[g], kind |-> "run", expireAt |-> 0, failedAt |-> 0]
    BY <1>1, <2>1 DEF startFlight, TypeOK
  <2>4. ASSUME cap'[g].ok
        PROVE  Held(key[g]) /\ ~keymap[key[g]].err /\ cap'[g].val = keymap[key[g]].val
    BY <2>2, <2>4 DEF staleFrom, NoStale, Held
  <2>5. ASSUME cap'[g].ok
        PROVE  /\ cap'[g].val \in 1 .. nflights
               /\ hist[cap'[g].val].key = key[g] /\ hist[cap'[g].val].kind = "ok"
    BY <2>2, <2>4, <2>5 DEF OriginInv, OriginStored
  <2>6. ASSUME cap'[g].ok
        PROVE  /\ cap'[g].val \in 1 .. nflights'
               /\ hist'[cap'[g].val].key = key[g] /\ hist'[cap'[g].val].kind = "ok"
    BY <2>5, <2>6, OldFlights
  <2> QED BY <2>2, <2>3, <2>6
<1>2. CASE SameFlight(g)
  <2>1. pc[g] \in Producers /\ fl'[g] = fl[g] /\ key'[g] = key[g] /\ cap'[g] = cap[g]
    BY <1>2 DEF SameFlight
  <2>2. /\ hist[fl[g]].key = key[g] /\ fl[g] \in 1 .. nflights
        /\ hist[fl[g]].kind = IF pc[g] = "fetch" THEN "run" ELSE res[g].kind
    BY <2>1 DEF OriginInv, OriginCaptured, FlightInv
  <2>3. cap[g].ok => /\ cap[g].val \in 1 .. nflights'
                     /\ hist'[cap[g].val].key = key[g] /\ hist'[cap[g].val].kind = "ok"
    BY <2>1, OldFlights DEF OriginInv, OriginCaptured
  <2>4. hist'[fl[g]].key = key[g] /\ fl[g] \in FlightIds
    BY <2>2, OldFlights
  <2>5. CASE lookupFn(g)
    <3>1. /\ pc'[g] # "fetch"
          /\ hist' = [hist EXCEPT ![fl[g]] = over(@, res'[g].kind)]
      BY <2>5, LookedUp
    <3>2. hist'[fl[g]].kind = res'[g].kind
      BY <2>4, <3>1 DEF TypeOK, over
    <3> QED BY <2>1, <2>3, <2>4, <3>1, <3>2
  <2>6. CASE ~lookupFn(g)
    <3>1. \A h \in Goroutines : lookupFn(h) => fl[h] # fl[g]
      BY <2>1, <2>6 DEF FlightInv, lookupFn, Producers
    <3>2. \A h \in Goroutines : startFlight(h) => fl[g] # nflights + 1
      BY <2>2 DEF TypeOK
    <3>3. hist'[fl[g]].kind = hist[fl[g]].kind
      BY <2>4, <3>1, <3>2, HistoryStays
    <3>4. res'[g].kind = res[g].kind /\ (pc'[g] = "fetch" <=> pc[g] = "fetch")
      BY <1>2, <2>6, Published DEF SameFlight
    <3> QED BY <2>1, <2>2, <2>3, <2>4, <3>3, <3>4
  <2> QED BY <2>5, <2>6
<1> QED BY <1>1, <1>2, ProducerSteps

\* An answer is a cached outcome or the producer's own.
LEMMA OriginAnsweredNext ==
  TypeOK /\ FlightInv /\ RoomInv /\ NumberInv /\ SeenInv /\ OriginInv /\ [Next]_vars => OriginAnswered'
<1> SUFFICES ASSUME TypeOK, FlightInv, RoomInv, NumberInv, SeenInv, OriginInv, [Next]_vars,
                    NEW g \in Goroutines, ret'[g].kind \in {"value", "error"}
             PROVE  /\ ret'[g].val \in 1 .. nflights' /\ hist'[ret'[g].val].key = key'[g]
                    /\ ret'[g].kind = "value" => hist'[ret'[g].val].kind = "ok"
                    /\ ret'[g].kind = "error" =>
                         /\ hist'[ret'[g].val].kind # "run" /\ ret'[g].val \notin seen'[g]
                         /\ hist'[ret'[g].val].kind = "fail" \/ ret'[g].fl = ret'[g].val
  BY DEF OriginAnswered
<1>1. ASSUME ret'[g].val \in 1 .. nflights, hist[ret'[g].val].key = key'[g],
             ret'[g].kind = "value" => hist[ret'[g].val].kind = "ok",
             ret'[g].kind = "error" =>
               /\ hist[ret'[g].val].kind # "run" /\ ret'[g].val \notin seen'[g]
               /\ hist[ret'[g].val].kind = "fail" \/ ret'[g].fl = ret'[g].val
      PROVE  /\ ret'[g].val \in 1 .. nflights' /\ hist'[ret'[g].val].key = key'[g]
             /\ ret'[g].kind = "value" => hist'[ret'[g].val].kind = "ok"
             /\ ret'[g].kind = "error" =>
                  /\ hist'[ret'[g].val].kind # "run" /\ ret'[g].val \notin seen'[g]
                  /\ hist'[ret'[g].val].kind = "fail" \/ ret'[g].fl = ret'[g].val
  <2>1. /\ ret'[g].val \in 1 .. nflights' /\ hist'[ret'[g].val].key = hist[ret'[g].val].key
        /\ hist[ret'[g].val].kind # "run" => hist'[ret'[g].val].kind = hist[ret'[g].val].kind
    BY <1>1, OldFlights
  <2> QED BY <1>1, <2>1
<1>2. CASE SameAnswer(g)
  BY <1>1, <1>2 DEF SameAnswer, OriginInv, OriginAnswered
<1>3. ASSUME key'[g] = key[g], seen'[g] = seen[g], key[g] \in Keys,
             usable(keymap[key[g]], waited[g]), ret'[g] = Cached(keymap[key[g]])
      PROVE  /\ ret'[g].val \in 1 .. nflights /\ hist[ret'[g].val].key = key'[g]
             /\ ret'[g].kind = "value" => hist[ret'[g].val].kind = "ok"
             /\ ret'[g].kind = "error" =>
                  /\ hist[ret'[g].val].kind # "run" /\ ret'[g].val \notin seen'[g]
                  /\ hist[ret'[g].val].kind = "fail" \/ ret'[g].fl = ret'[g].val
  <2>1. /\ ret'[g].val = keymap[key[g]].val
        /\ ret'[g].kind = IF keymap[key[g]].err THEN "error" ELSE "value"
    BY <1>3 DEF Cached
  <2>2. Held(key[g]) /\ (waited[g] \/ ~expired(keymap[key[g]]))
    BY <1>3 DEF usable, Held
  <2>3. /\ keymap[key[g]].val \in 1 .. nflights
        /\ hist[keymap[key[g]].val].key = key[g]
        /\ hist[keymap[key[g]].val].kind = IF keymap[key[g]].err THEN "fail" ELSE "ok"
        /\ keymap[key[g]].err => keymap[key[g]].expireAt = 0
    BY <1>3, <2>2 DEF OriginInv, OriginStored
  <2>4. ASSUME keymap[key[g]].err PROVE keymap[key[g]].val \notin seen[g]
    <3>1. expired(keymap[key[g]])
      BY <2>3, <2>4 DEF expired, TypeOK
    <3>2. Coalesced(g)
      BY <2>2, <3>1 DEF Coalesced
    <3> QED BY <2>2, <2>4, <3>2 DEF SeenInv, SeenErrors
  <2> QED BY <1>3, <2>1, <2>3, <2>4
<1>4. ASSUME key'[g] = key[g], seen'[g] = seen[g], finish(g), ret'[g] = Produced(g)
      PROVE  /\ ret'[g].val \in 1 .. nflights /\ hist[ret'[g].val].key = key'[g]
             /\ ret'[g].kind = "value" => hist[ret'[g].val].kind = "ok"
             /\ ret'[g].kind = "error" =>
                  /\ hist[ret'[g].val].kind # "run" /\ ret'[g].val \notin seen'[g]
                  /\ hist[ret'[g].val].kind = "fail" \/ ret'[g].fl = ret'[g].val
  <2>1. pc[g] = "finish" /\ pc[g] \in Producers /\ pc[g] # "fetch"
    BY <1>4 DEF finish, Producers
  <2>2. /\ fl[g] \in 1 .. nflights /\ hist[fl[g]].key = key[g] /\ hist[fl[g]].kind = res[g].kind
        /\ cap[g].ok => /\ cap[g].val \in 1 .. nflights
                        /\ hist[cap[g].val].key = key[g] /\ hist[cap[g].val].kind = "ok"
    BY <2>1 DEF OriginInv, OriginCaptured, FlightInv
  <2>3. fl[g] \notin seen[g] /\ (res[g].until # 0 => cap[g].ok)
    BY <2>1 DEF SeenInv, SeenFlights, RoomInv
  <2>4. res[g].kind # "run"
    BY DEF TypeOK, Results
  <2>5. CASE res[g].kind = "panic"
    BY <1>4, <2>5 DEF Produced
  <2>6. CASE res[g].kind # "panic" /\ res[g].until # 0
    BY <1>4, <2>2, <2>3, <2>6 DEF Produced
  <2>7. CASE res[g].kind # "panic" /\ res[g].until = 0
    <3>1. /\ ret'[g].val = fl[g] /\ ret'[g].fl = fl[g]
          /\ ret'[g].kind = IF res[g].kind = "ok" THEN "value" ELSE "error"
      BY <1>4, <2>7 DEF Produced
    <3> QED BY <1>4, <2>2, <2>3, <2>4, <3>1
  <2> QED BY <2>5, <2>6, <2>7
<1>5. CASE NewAnswer(g)
  BY <1>1, <1>3, <1>4, <1>5 DEF NewAnswer
<1> QED BY <1>2, <1>5, AnswerSteps

\* Every step keeps OriginInv.
LEMMA OriginNext ==
  TypeOK /\ FlightInv /\ RoomInv /\ NumberInv /\ SeenInv /\ OriginInv /\ [Next]_vars => OriginInv'
  BY OriginStoredNext, OriginCapturedNext, OriginAnsweredNext DEF OriginInv


-----------------------------------------------------------------------------
(* The stale window of a value is anchored once *)

\* Only the producer of a key touches the times recorded for a flight of that key.
LEMMA TimesStay ==
  ASSUME TypeOK, FlightInv, NumberInv, OriginInv, [Next]_vars, NEW f \in 1 .. nflights,
         \A g \in Goroutines : set(g) \/ publish(g) => hist[f].key # key[g]
  PROVE  hist'[f].expireAt = hist[f].expireAt /\ hist'[f].failedAt = hist[f].failedAt
<1> DEFINE Same == hist'[f].expireAt = hist[f].expireAt /\ hist'[f].failedAt = hist[f].failedAt
<1>0. f \in FlightIds /\ f # nflights + 1
  BY OldFlights DEF TypeOK
<1>1. ASSUME NEW g \in Goroutines, lookupFn(g) PROVE Same
  <2>1. hist' = [hist EXCEPT ![fl[g]] = over(@, res'[g].kind)]
    BY <1>1, LookedUp
  <2> QED BY <1>0, <2>1 DEF TypeOK, over
<1>2. ASSUME NEW g \in Goroutines, startFlight(g) PROVE Same
  BY <1>0, <1>2 DEF startFlight, TypeOK
<1>3. ASSUME NEW g \in Goroutines, publish(g) PROVE Same
  <2>1. hist[f].key # key[g]
    BY <1>3
  <2>2. pc[g] = "publish" /\ (canRevive(cap[g]) => cap[g].ok)
    BY <1>3 DEF publish, canRevive
  <2>3. cap[g].ok => hist[cap[g].val].key = key[g]
    BY <2>2 DEF OriginInv, OriginCaptured, Producers
  <2>4. hist'[f] = hist[f] \/ (f = cap[g].val /\ canRevive(cap[g]))
    BY <1>0, <1>3 DEF publish, TypeOK
  <2> QED BY <2>1, <2>2, <2>3, <2>4
<1>4. ASSUME NEW g \in Goroutines, set(g) PROVE Same
  <2>1. hist[f].key # key[g] /\ pc[g] = "room"
    BY <1>4 DEF set
  <2>2. hist[fl[g]].key = key[g]
    BY <2>1 DEF OriginInv, OriginCaptured, Producers
  <2> QED BY <1>0, <1>4, <2>1, <2>2 DEF set, TypeOK
<1>5. ASSUME NEW g \in Goroutines,
             \/ Call(g) \/ fresh(g) \/ checkContext(g) \/ slowServe(g) \/ slowJoin(g)
             \/ startAborted(g) \/ awaitDone(g) \/ awaitAborted(g) \/ abortFlight(g)
             \/ publishSuperseded(g) \/ evict(g) \/ finish(g) \/ release(g) \/ endContext(g)
      PROVE  hist' = hist
  BY <1>5 DEF Call, Lookup, Remove, RejectKey, Reset, PurgeExpired, fresh, checkContext, slowServe,
              slowJoin, startAborted, awaitDone, awaitAborted, abortFlight, publishSuperseded, evict,
              finish, release, endContext
<1>6. ASSUME Tick \/ UNCHANGED vars PROVE hist' = hist
  BY <1>6 DEF Tick, vars
<1> QED BY <1>1, <1>2, <1>3, <1>4, <1>5, <1>6 DEF Next, Internal, Quiescent

\* A flight that is registered after a step was registered before it, or has just been started.
LEMMA FlightSteps ==
  ASSUME TypeOK, [Next]_vars, NEW k \in Keys, flights'[k] # 0
  PROVE  flights'[k] = flights[k] \/ flights'[k] = nflights + 1
<1>1. ASSUME NEW g \in Goroutines, Call(g) PROVE flights'[k] = flights[k]
  BY <1>1 DEF Call, Lookup, Remove, RejectKey, Reset, PurgeExpired, deregister, TypeOK
<1>2. ASSUME NEW g \in Goroutines, startFlight(g)
      PROVE  flights'[k] = flights[k] \/ flights'[k] = nflights + 1
  BY <1>2 DEF startFlight, TypeOK
<1>3. ASSUME NEW g \in Goroutines, publish(g) \/ abortFlight(g) PROVE flights'[k] = flights[k]
  BY <1>3 DEF publish, abortFlight, deregister, TypeOK
<1>4. ASSUME NEW g \in Goroutines,
             \/ fresh(g) \/ checkContext(g) \/ slowServe(g) \/ slowJoin(g) \/ startAborted(g)
             \/ awaitDone(g) \/ awaitAborted(g) \/ publishSuperseded(g) \/ evict(g) \/ set(g)
             \/ finish(g) \/ release(g) \/ endContext(g) \/ lookupFn(g)
      PROVE  flights' = flights
  BY <1>4 DEF fresh, checkContext, slowServe, slowJoin, startAborted, awaitDone, awaitAborted,
              publishSuperseded, evict, set, finish, release, endContext, lookupFn
<1>5. ASSUME Tick \/ UNCHANGED vars PROVE flights' = flights
  BY <1>5 DEF Tick, vars
<1> QED BY <1>1, <1>2, <1>3, <1>4, <1>5 DEF Next, Internal, Quiescent

\* A window that is open for a flight stays open while its times stay.
LEMMA WindowStays ==
  ASSUME NEW t, NEW f, Window(t, f),
         hist'[f].expireAt = hist[f].expireAt, hist'[f].failedAt = hist[f].failedAt
  PROVE  \/ t <= hist'[f].expireAt + MaxStale
         \/ hist'[f].failedAt # 0 /\ t <= hist'[f].failedAt + MaxStaleOnFailure
  BY DEF Window


\* A stored value keeps its window while it is stored, and enters with the one it was given.
LEMMA WindowStoredNext ==
  TypeOK /\ FlightInv /\ RoomInv /\ NumberInv /\ OriginInv /\ WindowInv /\ [Next]_vars => WindowStored'
<1> SUFFICES ASSUME TypeOK, FlightInv, RoomInv, NumberInv, OriginInv, WindowInv, [Next]_vars,
                    NEW k \in Keys, Held(k)'
             PROVE  /\ revived(keymap[k])' => Window(keymap[k].staleUntil, keymap[k].val)'
                    /\ (~keymap'[k].err /\ ~revived(keymap[k])') =>
                         /\ hist'[keymap'[k].val].expireAt = keymap'[k].expireAt
                         /\ hist'[keymap'[k].val].failedAt = 0
  BY DEF WindowStored
<1>1. CASE keymap'[k] = keymap[k] /\ Held(k)
  <2>1. keymap[k].val \in 1 .. nflights /\ hist[keymap[k].val].key = k
    BY <1>1 DEF OriginInv, OriginStored
  <2>2. ASSUME NEW g \in Goroutines, set(g) \/ publish(g) PROVE key[g] # k
    <3>1. CASE set(g)
      BY <1>1, <3>1 DEF set, RoomInv
    <3>2. CASE publish(g)
      BY <1>1, <3>2, Published DEF Registered, FlightInv, RegisteredFlightsAreLive, Producers
    <3> QED BY <2>2, <3>1, <3>2
  <2>3. /\ hist'[keymap[k].val].expireAt = hist[keymap[k].val].expireAt
        /\ hist'[keymap[k].val].failedAt = hist[keymap[k].val].failedAt
    BY <2>1, <2>2, TimesStay
  <2> QED BY <1>1, <2>3 DEF WindowInv, WindowStored, Window, revived
<1>2. ASSUME NEW g \in Goroutines, set(g), key[g] = k, keymap'[k] = Outcome(g)
      PROVE  /\ revived(keymap[k])' => Window(keymap[k].staleUntil, keymap[k].val)'
             /\ (~keymap'[k].err /\ ~revived(keymap[k])') =>
                  /\ hist'[keymap'[k].val].expireAt = keymap'[k].expireAt
                  /\ hist'[keymap'[k].val].failedAt = 0
  <2>1. pc[g] = "room" /\ hist[fl[g]].failedAt = 0
    BY <1>2 DEF set, WindowInv, WindowPending
  <2>2. fl[g] \in 1 .. nflights
    BY <2>1 DEF FlightInv, Producers
  <2>3. fl[g] \in FlightIds
    BY <2>2, OldFlights
  <2>4. CASE res[g].until # 0
    <3>1. /\ Outcome(g).val = cap[g].val /\ Outcome(g).staleUntil = res[g].until
      BY <2>4 DEF Outcome
    <3>2. hist' = hist /\ Window(res[g].until, cap[g].val)
      BY <1>2, <2>1, <2>4 DEF set, RoomInv, WindowInv, WindowPending
    <3> QED BY <1>2, <2>4, <3>1, <3>2 DEF Window, revived
  <2>5. CASE res[g].until = 0
    <3>1. /\ Outcome(g).val = fl[g] /\ Outcome(g).staleUntil = 0
          /\ Outcome(g).err <=> res[g].kind # "ok"
          /\ Outcome(g).expireAt = IF res[g].kind = "ok" THEN now + res[g].ttl ELSE 0
      BY <2>5 DEF Outcome
    <3>2. res[g].kind = "ok" => /\ hist'[fl[g]].expireAt = now + res[g].ttl
                                /\ hist'[fl[g]].failedAt = 0
      BY <1>2, <2>1, <2>3 DEF set, stored, TypeOK
    <3> QED BY <1>2, <3>1, <3>2 DEF revived
  <2> QED BY <2>4, <2>5
<1> QED BY <1>1, <1>2, EntrySteps

\* A captured value keeps its window until its producer publishes.
LEMMA WindowCapturedNext ==
  TypeOK /\ FlightInv /\ RoomInv /\ NumberInv /\ OriginInv /\ WindowInv /\ [Next]_vars => WindowCaptured'
<1> SUFFICES ASSUME TypeOK, FlightInv, RoomInv, NumberInv, OriginInv, WindowInv, [Next]_vars,
                    NEW g \in Goroutines, Registered(g)'
             PROVE  /\ hist'[fl'[g]].failedAt = 0
                    /\ (cap'[g].ok /\ cap'[g].anchored) => Window(cap[g].until, cap[g].val)'
                    /\ (cap'[g].ok /\ ~cap'[g].anchored) =>
                         /\ hist'[cap'[g].val].failedAt = 0
                         /\ cap'[g].until <= hist'[cap'[g].val].expireAt + MaxStale
  BY DEF WindowCaptured
<1>0. pc'[g] \in {"fetch", "publish"} /\ pc'[g] \in Producers /\ flights'[key'[g]] = fl'[g]
  BY DEF Registered, Producers
<1>1. CASE startFlight(g)
  <2>1. nflights + 1 \in FlightIds
    BY <1>1, StartsInRange
  <2>2. /\ key[g] \in Keys /\ fl'[g] = nflights + 1 /\ cap'[g] = staleFrom(keymap[key[g]])
    BY <1>1 DEF startFlight, TypeOK
  <2>3. hist'[nflights + 1].failedAt = 0
    BY <1>1, <2>1 DEF startFlight, TypeOK
  <2>4. ASSUME cap'[g].ok
        PROVE  /\ Held(key[g]) /\ ~keymap[key[g]].err /\ cap'[g].val = keymap[key[g]].val
               /\ cap'[g].anchored <=> revived(keymap[key[g]])
               /\ cap'[g].anchored => cap'[g].until = keymap[key[g]].staleUntil
               /\ ~cap'[g].anchored =>
                    cap'[g].until = IF MaxStale > 0 THEN keymap[key[g]].expireAt + MaxStale ELSE 0
    BY <2>2, <2>4 DEF staleFrom, NoStale, Held
  <2>5. ASSUME cap'[g].ok
        PROVE  hist'[cap'[g].val] = hist[cap'[g].val]
    <3>1. cap'[g].val \in 1 .. nflights
      BY <2>2, <2>4, <2>5 DEF OriginInv, OriginStored
    <3>2. cap'[g].val \in FlightIds /\ cap'[g].val # nflights + 1
      BY <3>1, OldFlights DEF TypeOK
    <3> QED BY <1>1, <3>2 DEF startFlight, TypeOK
  <2>6. ASSUME cap'[g].ok, cap'[g].anchored PROVE Window(cap[g].until, cap[g].val)'
    BY <2>2, <2>4, <2>5, <2>6 DEF WindowInv, WindowStored, Window
  <2>7. ASSUME cap'[g].ok, ~cap'[g].anchored
        PROVE  /\ hist'[cap'[g].val].failedAt = 0
               /\ cap'[g].until <= hist'[cap'[g].val].expireAt + MaxStale
    <3>1. hist[cap'[g].val].failedAt = 0 /\ hist[cap'[g].val].expireAt = keymap[key[g]].expireAt
      BY <2>2, <2>4, <2>7 DEF WindowInv, WindowStored
    <3>2. keymap[key[g]].expireAt \in Nat
      BY <2>2 DEF TypeOK, Entries
    <3> QED BY <2>4, <2>5, <2>7, <3>1, <3>2, ConfigAssumption
  <2> QED BY <2>2, <2>3, <2>6, <2>7
<1>2. CASE SameFlight(g)
  <2>1. pc[g] \in Producers /\ fl'[g] = fl[g] /\ key'[g] = key[g] /\ cap'[g] = cap[g]
    BY <1>2 DEF SameFlight
  <2>2. /\ fl[g] \in 1 .. nflights /\ hist[fl[g]].key = key[g] /\ key[g] \in Keys
        /\ cap[g].ok => cap[g].val \in 1 .. nflights /\ hist[cap[g].val].key = key[g]
    BY <2>1 DEF FlightInv, OriginInv, OriginCaptured, Producers, TypeOK
  <2>3. flights[key[g]] = fl[g] /\ flights[key[g]] # 0
    BY <1>0, <2>1, <2>2, FlightSteps DEF TypeOK
  <2>4. ~publish(g)
    <3>1. publish(g) => flights'[key[g]] = 0
      BY <2>2, Published DEF TypeOK
    <3> QED BY <1>0, <2>1, <2>2, <3>1
  <2>5. Registered(g)
    BY <1>0, <1>2, <2>3, <2>4 DEF SameFlight, Registered, lookupFn
  <2>6. ASSUME NEW h \in Goroutines, set(h) \/ publish(h) PROVE key[h] # key[g]
    <3>1. CASE set(h)
      BY <2>3, <3>1 DEF set, FlightInv
    <3>2. CASE publish(h)
      <4>1. pc[h] \in Producers /\ Registered(h)
        BY <3>2, Published DEF Producers
      <4>2. key[h] = key[g] => fl[h] = fl[g]
        BY <2>3, <4>1 DEF Registered
      <4>3. h # g
        BY <2>4, <3>2
      <4> QED BY <2>1, <4>1, <4>2, <4>3 DEF FlightInv
    <3> QED BY <2>6, <3>1, <3>2
  <2>7. ASSUME NEW f \in 1 .. nflights, hist[f].key = key[g]
        PROVE  hist'[f].expireAt = hist[f].expireAt /\ hist'[f].failedAt = hist[f].failedAt
    BY <2>6, <2>7, TimesStay
  <2>8. hist'[fl'[g]].failedAt = 0
    BY <2>1, <2>2, <2>5, <2>7 DEF WindowInv, WindowCaptured
  <2>9. ASSUME cap'[g].ok, cap'[g].anchored PROVE Window(cap[g].until, cap[g].val)'
    BY <2>1, <2>2, <2>5, <2>7, <2>9 DEF WindowInv, WindowCaptured, Window
  <2>10. ASSUME cap'[g].ok, ~cap'[g].anchored
         PROVE  /\ hist'[cap'[g].val].failedAt = 0
                /\ cap'[g].until <= hist'[cap'[g].val].expireAt + MaxStale
    BY <2>1, <2>2, <2>5, <2>7, <2>10 DEF WindowInv, WindowCaptured
  <2> QED BY <2>8, <2>9, <2>10
<1> QED BY <1>0, <1>1, <1>2, ProducerSteps

\* publish gives a revived value the window of its first failure.
LEMMA WindowPendingNext ==
  TypeOK /\ FlightInv /\ RoomInv /\ NumberInv /\ OriginInv /\ WindowInv /\ [Next]_vars => WindowPending'
<1> SUFFICES ASSUME TypeOK, FlightInv, RoomInv, NumberInv, OriginInv, WindowInv, [Next]_vars,
                    NEW g \in Goroutines, pc'[g] = "room"
             PROVE  /\ hist'[fl'[g]].failedAt = 0
                    /\ res'[g].until # 0 => Window(res[g].until, cap[g].val)'
  BY DEF WindowPending
<1>1. SameFlight(g)
  BY ProducerSteps DEF Producers, startFlight, TypeOK
<1>2. pc[g] \in Producers /\ fl'[g] = fl[g] /\ key'[g] = key[g] /\ cap'[g] = cap[g]
  BY <1>1 DEF SameFlight
<1>3. /\ fl[g] \in 1 .. nflights /\ hist[fl[g]].key = key[g]
      /\ cap[g].ok => cap[g].val \in 1 .. nflights /\ hist[cap[g].val].key = key[g]
  BY <1>2 DEF FlightInv, OriginInv, OriginCaptured
<1>4. CASE publish(g)
  <2>1. pc[g] = "publish" /\ Registered(g) /\ hist[fl[g]].failedAt = 0
    BY <1>4, Published DEF WindowInv, WindowCaptured
  <2>2. CASE res' = res /\ hist' = hist
    BY <1>2, <2>1, <2>2 DEF RoomInv
  <2>3. CASE /\ res[g].kind # "ok" /\ canRevive(cap[g])
             /\ res'[g].until = staleUntilOf(cap[g])
             /\ hist' = IF hist[cap[g].val].failedAt = 0
                        THEN [hist EXCEPT ![cap[g].val] = failed(@)] ELSE hist
    <3>1. cap[g].ok /\ cap[g].val \in FlightIds /\ fl[g] \in FlightIds
      BY <1>3, <2>3, OldFlights DEF canRevive
    <3>2. hist[fl[g]].kind = res[g].kind /\ hist[cap[g].val].kind = "ok"
      BY <1>2, <2>1, <3>1 DEF OriginInv, OriginCaptured
    <3>3. hist'[fl[g]].failedAt = 0
      BY <2>1, <2>3, <3>1, <3>2 DEF TypeOK
    <3>4. /\ hist'[cap[g].val].expireAt = hist[cap[g].val].expireAt
          /\ hist'[cap[g].val].failedAt =
               IF hist[cap[g].val].failedAt = 0 THEN now ELSE hist[cap[g].val].failedAt
      BY <2>3, <3>1 DEF failed, TypeOK
    <3>5. now \in Nat \ {0} /\ cap[g].until \in Nat /\ MaxStale \in Nat /\ MaxStaleOnFailure \in Nat
      BY ConfigAssumption DEF TypeOK, Captures
    <3>6. hist[cap[g].val].expireAt \in Nat /\ hist[cap[g].val].failedAt \in Nat
      BY <3>1 DEF TypeOK, Histories
    <3>7. CASE cap[g].anchored
      <4>1. res'[g].until = cap[g].until /\ Window(cap[g].until, cap[g].val)
        BY <2>1, <2>3, <3>1, <3>7 DEF staleUntilOf, WindowInv, WindowCaptured
      <4> QED BY <1>2, <3>3, <3>4, <4>1 DEF Window
    <3>8. CASE ~cap[g].anchored
      <4>1. hist[cap[g].val].failedAt = 0 /\ cap[g].until <= hist[cap[g].val].expireAt + MaxStale
        BY <2>1, <3>1, <3>8 DEF WindowInv, WindowCaptured
      <4>2. res'[g].until = now + MaxStaleOnFailure \/ res'[g].until = cap[g].until
        BY <2>3 DEF staleUntilOf
      <4>3. hist'[cap[g].val].failedAt = now
        BY <3>4, <4>1
      <4> QED BY <1>2, <3>3, <3>4, <3>5, <3>6, <4>1, <4>2, <4>3 DEF Window
    <3> QED BY <3>7, <3>8
  <2> QED BY <1>4, <2>2, <2>3, Published
<1>5. CASE ~publish(g)
  <2>1. pc[g] = "room" /\ res'[g] = res[g]
    BY <1>1, <1>5, LookedUp DEF SameFlight
  <2>2. mux = g
    BY <2>1 DEF FlightInv
  <2>3. \A h \in Goroutines : ~publish(h) /\ ~set(h)
    <3>1. \A h \in Goroutines : ~publish(h)
      BY <2>2, GoroutinesAssumption DEF publish, Free
    <3>2. \A h \in Goroutines : set(h) => h = g
      BY <2>2 DEF set, FlightInv
    <3>3. ~set(g)
      BY DEF set, TypeOK
    <3> QED BY <3>1, <3>2, <3>3
  <2>4. \A f \in 1 .. nflights : /\ hist'[f].expireAt = hist[f].expireAt
                                 /\ hist'[f].failedAt = hist[f].failedAt
    BY <2>3, TimesStay
  <2>5. res[g].until # 0 => cap[g].ok
    BY DEF RoomInv
  <2> QED BY <1>2, <1>3, <2>1, <2>4, <2>5 DEF WindowInv, WindowPending, Window
<1> QED BY <1>4, <1>5

\* Every step keeps WindowInv.
LEMMA WindowNext ==
  TypeOK /\ FlightInv /\ RoomInv /\ NumberInv /\ OriginInv /\ WindowInv /\ [Next]_vars => WindowInv'
  BY WindowStoredNext, WindowCapturedNext, WindowPendingNext DEF WindowInv

\* Every step keeps ReviveInv.
LEMMA ReviveNext == TypeOK /\ RoomInv /\ ReviveInv /\ [Next]_vars => ReviveInv'
<1> SUFFICES ASSUME TypeOK, RoomInv, ReviveInv, [Next]_vars PROVE ReviveInv'
  OBVIOUS
<1>1. ASSUME NEW k \in Keys, Held(k)', revived(keymap[k])'
      PROVE  keymap'[k].expireAt = 0 /\ StaleEnabled
  <2>1. CASE keymap'[k] = keymap[k] /\ Held(k)
    BY <1>1, <2>1 DEF ReviveInv, revived
  <2>2. ASSUME NEW g \in Goroutines, set(g), keymap'[k] = Outcome(g)
        PROVE  keymap'[k].expireAt = 0 /\ StaleEnabled
    <3>1. /\ Outcome(g).staleUntil = res[g].until
          /\ Outcome(g).expireAt = IF res[g].kind = "ok" THEN now + res[g].ttl ELSE 0
      BY DEF Outcome
    <3>2. res[g].until # 0
      BY <1>1, <2>2, <3>1 DEF revived
    <3>3. pc[g] \in Producers /\ res[g].kind # "ok" /\ cap[g].ok
      BY <2>2, <3>2 DEF set, RoomInv, Producers
    <3> QED BY <2>2, <3>1, <3>3 DEF ReviveInv
  <2> QED BY <1>1, <2>1, <2>2, EntrySteps
<1>2. ASSUME NEW g \in Goroutines, pc'[g] \in Producers, cap'[g].ok PROVE StaleEnabled
  <2>1. CASE startFlight(g)
    <3>1. cap'[g] = staleFrom(keymap[key[g]])
      BY <2>1 DEF startFlight, TypeOK
    <3> QED BY <1>2, <3>1 DEF staleFrom, NoStale, StaleEnabled
  <2>2. CASE SameFlight(g)
    BY <1>2, <2>2 DEF SameFlight, ReviveInv
  <2> QED BY <1>2, <2>1, <2>2, ProducerSteps
<1> QED BY <1>1, <1>2 DEF ReviveInv, Producers

-----------------------------------------------------------------------------
(* The inductive invariant holds *)

\* The empty cache satisfies the invariant.
LEMMA EntryInit == Init => EntryInv
<1> SUFFICES ASSUME Init PROVE EntryInv
  OBVIOUS
<1>1. RoomInv /\ BarrierInv /\ OriginInv /\ SeenInv /\ ReviveInv /\ WindowInv
  BY ConfigAssumption DEF Init, NoEntry, NoRes, NoRet, NoStale, Held, Producers, Registered, Coalesced,
     RoomInv, BarrierInv, OriginInv, OriginStored, OriginCaptured, OriginAnswered,
     SeenInv, SeenFlights, SeenErrors, ReviveInv, WindowInv, WindowStored, WindowCaptured, WindowPending
<1>2. Asking = {}
  BY DEF Init, Asking
<1>3. NumberInv
  BY <1>2, FS_EmptySet DEF Init, NumberInv, NoHist
<1> QED BY <1>1, <1>3 DEF EntryInv

\* Every step of the cache keeps the invariant, given the flights' own.
LEMMA EntryNext == TypeOK /\ FlightInv /\ EntryInv /\ [Next]_vars => EntryInv'
  BY RoomNext, NumberNext, BarrierNext, OriginNext, SeenNext, ReviveNext, WindowNext DEF EntryInv

\* The invariant of the entries holds in every reachable state.
LEMMA EntryInvariant == Spec => []EntryInv
  BY EntryInit, EntryNext, TypeCorrect, FlightInvariant, PTL DEF Spec


\* A call that began after Remove or Reset took its key is answered by a lookup that started later,
\* however the two interleave with flights, waiters and revivals (sfcache.go Remove, Reset).
THEOREM RemovalsAreBarriers == Spec => []RemoveIsABarrier
<1>1. EntryInv => RemoveIsABarrier
  BY DEF EntryInv, BarrierInv, RemoveIsABarrier
<1> QED BY <1>1, EntryInvariant, PTL

\* Whatever Lookup returns is the outcome of a lookup of that key, and another's failure reaches
\* only those who were waiting for it (lookup.go, flight.go).
THEOREM OutcomesAreHonest == Spec => []SharedOutcomesAreHonest
<1>1. EntryInv => SharedOutcomesAreHonest
  BY DEF EntryInv, OriginInv, OriginAnswered, SharedOutcomesAreHonest
<1> QED BY <1>1, EntryInvariant, PTL

\* However often refreshes fail, a revived value keeps the window of its first failure (stale.go).
THEOREM WindowsAreAnchored == Spec => []StaleWindowIsAnchoredOnce
<1>1. EntryInv => StaleWindowIsAnchoredOnce
  BY DEF EntryInv, WindowInv, WindowStored, Window, StaleWindowIsAnchoredOnce
<1> QED BY <1>1, EntryInvariant, PTL


-----------------------------------------------------------------------------
(* Eviction *)

\* What evict.go's classes say of an entry is what serving it would say.
LEMMA ResidueIsWorthless ==
  ASSUME TypeOK, QueuesPartitionEntries, OriginInv, NEW k \in residue
  PROVE  Worth(keymap[k]) = 0
<1>1. Held(k) /\ k \in Keys /\ keymap[k].err
  BY DEF QueuesPartitionEntries
<1>2. keymap[k].expireAt = 0
  BY <1>1 DEF OriginInv, OriginStored
<1>3. expired(keymap[k])
  BY <1>2 DEF expired, TypeOK
<1>4. ~canRevive(staleFrom(keymap[k]))
  BY <1>1 DEF staleFrom, canRevive, NoStale
<1> QED BY <1>3, <1>4 DEF Worth

\* A revived value is worth a second stale answer until its window closes.
LEMMA StaleWorth ==
  ASSUME TypeOK, QueuesPartitionEntries, ReviveInv, NEW k \in stale
  PROVE  /\ k \in Keys /\ deadline(keymap[k]) = keymap[k].staleUntil
         /\ Worth(keymap[k]) = IF now >= keymap[k].staleUntil THEN 0 ELSE 2
         /\ worthless(keymap[k]) <=> now >= keymap[k].staleUntil
<1>1. Held(k) /\ k \in Keys /\ ~keymap[k].err /\ revived(keymap[k])
  BY DEF QueuesPartitionEntries
<1>2. keymap[k].expireAt = 0 /\ StaleEnabled
  BY <1>1 DEF ReviveInv
<1>3. expired(keymap[k])
  BY <1>2 DEF expired, TypeOK
<1>4. staleFrom(keymap[k]) =
        [val |-> keymap[k].val, until |-> keymap[k].staleUntil, ok |-> TRUE, anchored |-> TRUE]
  BY <1>1, <1>2 DEF staleFrom, StaleEnabled, Held
<1>5. canRevive(staleFrom(keymap[k])) <=> now < keymap[k].staleUntil
  BY <1>4 DEF canRevive, staleUntilOf
<1>6. now \in Nat /\ keymap[k].staleUntil \in Nat
  BY <1>1 DEF TypeOK, Entries
<1> QED BY <1>1, <1>3, <1>5, <1>6 DEF Worth, worthless, deadline

\* A value that was not revived is fresh, or can still be revived, or is worthless.
LEMMA ValueWorth ==
  ASSUME TypeOK, QueuesPartitionEntries, NEW k \in values
  PROVE  /\ k \in Keys /\ deadline(keymap[k]) = keymap[k].expireAt
         /\ Worth(keymap[k]) = IF now < keymap[k].expireAt THEN 3
                               ELSE IF MaxStaleOnFailure = 0 /\ now >= keymap[k].expireAt + MaxStale
                                 THEN 0 ELSE 1
         /\ worthless(keymap[k]) <=>
              MaxStaleOnFailure = 0 /\ now >= keymap[k].expireAt + MaxStale
         /\ expired(keymap[k]) <=> now >= keymap[k].expireAt
<1>1. Held(k) /\ k \in Keys /\ ~keymap[k].err /\ ~revived(keymap[k])
  BY DEF QueuesPartitionEntries
<1>2. now \in Nat /\ keymap[k].expireAt \in Nat /\ MaxStale \in Nat /\ MaxStaleOnFailure \in Nat
  BY <1>1, ConfigAssumption DEF TypeOK, Entries
<1>3. worthless(keymap[k]) <=> MaxStaleOnFailure = 0 /\ now >= keymap[k].expireAt + MaxStale
  BY <1>1, <1>2 DEF worthless
<1>4. ASSUME now >= keymap[k].expireAt
      PROVE  canRevive(staleFrom(keymap[k])) <=>
               ~(MaxStaleOnFailure = 0 /\ now >= keymap[k].expireAt + MaxStale)
  <2>1. CASE MaxStale = 0 /\ MaxStaleOnFailure = 0
    BY <1>2, <1>4, <2>1 DEF staleFrom, canRevive, NoStale
  <2>2. CASE MaxStale # 0 \/ MaxStaleOnFailure # 0
    <3>1. staleFrom(keymap[k]) =
            [val |-> keymap[k].val, ok |-> TRUE, anchored |-> FALSE,
             until |-> IF MaxStale > 0 THEN keymap[k].expireAt + MaxStale ELSE 0]
      BY <1>1, <2>2 DEF staleFrom, Held
    <3>2. CASE MaxStale > 0
      BY <1>2, <1>4, <2>2, <3>1, <3>2 DEF canRevive, staleUntilOf
    <3>3. CASE MaxStale = 0
      BY <1>2, <1>4, <2>2, <3>1, <3>3 DEF canRevive, staleUntilOf
    <3> QED BY <1>2, <3>2, <3>3
  <2> QED BY <2>1, <2>2
<1> QED BY <1>1, <1>2, <1>3, <1>4 DEF Worth, expired, deadline

\* The queues hold every entry, so a worthless one is never hidden behind a head that is not.
LEMMA HeadsShowTheWorthless ==
  ASSUME TypeOK, QueuesPartitionEntries, OriginInv, ReviveInv, worthlessVictim = {}, NEW k \in HeldKeys
  PROVE  /\ k \in stale => Worth(keymap[k]) = 2
         /\ k \in values => Worth(keymap[k]) = IF expired(keymap[k]) THEN 1 ELSE 3
         /\ k \in stale \/ k \in values
<1>1. residue \subseteq Keys /\ stale \subseteq Keys /\ values \subseteq Keys
  BY DEF TypeOK
<1>2. residue = {}
  BY <1>1, HeadsExist DEF worthlessVictim
<1>3. k \in stale \/ k \in values
  BY <1>2 DEF QueuesPartitionEntries, HeldKeys
<1>4. ASSUME k \in stale PROVE Worth(keymap[k]) = 2
  <2>1. PICK h \in stale : h \in Heads(stale)
    BY <1>1, <1>4, HeadsExist DEF Heads
  <2>2. ~worthless(keymap[h])
    BY <1>2, <2>1 DEF worthlessVictim
  <2>3. deadline(keymap[h]) <= deadline(keymap[k])
    BY <1>4, <2>1 DEF Heads
  <2>4. /\ deadline(keymap[h]) = keymap[h].staleUntil /\ h \in Keys
        /\ worthless(keymap[h]) <=> now >= keymap[h].staleUntil
    BY <2>1, StaleWorth
  <2>5. /\ deadline(keymap[k]) = keymap[k].staleUntil /\ k \in Keys
        /\ Worth(keymap[k]) = IF now >= keymap[k].staleUntil THEN 0 ELSE 2
    BY <1>4, StaleWorth
  <2>6. now \in Nat /\ keymap[k].staleUntil \in Nat /\ keymap[h].staleUntil \in Nat
    BY <2>4, <2>5 DEF TypeOK, Entries
  <2> QED BY <2>2, <2>3, <2>4, <2>5, <2>6
<1>5. ASSUME k \in values PROVE Worth(keymap[k]) = IF expired(keymap[k]) THEN 1 ELSE 3
  <2>1. PICK h \in values : h \in Heads(values)
    BY <1>1, <1>5, HeadsExist DEF Heads
  <2>2. ~worthless(keymap[h])
    <3>1. {j \in Heads(values) : worthless(keymap[j])} = {}
      BY <1>2 DEF worthlessVictim
    <3> QED BY <2>1, <3>1
  <2>3. deadline(keymap[h]) <= deadline(keymap[k])
    BY <1>5, <2>1 DEF Heads
  <2>4. /\ deadline(keymap[h]) = keymap[h].expireAt /\ h \in Keys
        /\ worthless(keymap[h]) <=> MaxStaleOnFailure = 0 /\ now >= keymap[h].expireAt + MaxStale
    BY <2>1, ValueWorth
  <2>5. /\ deadline(keymap[k]) = keymap[k].expireAt /\ k \in Keys
        /\ Worth(keymap[k]) = IF now < keymap[k].expireAt THEN 3
                              ELSE IF MaxStaleOnFailure = 0 /\ now >= keymap[k].expireAt + MaxStale
                                THEN 0 ELSE 1
        /\ expired(keymap[k]) <=> now >= keymap[k].expireAt
    BY <1>5, ValueWorth
  <2>6. /\ now \in Nat /\ keymap[k].expireAt \in Nat /\ keymap[h].expireAt \in Nat
        /\ MaxStale \in Nat
    BY <2>4, <2>5, ConfigAssumption DEF TypeOK, Entries
  <2> QED BY <2>2, <2>3, <2>4, <2>5, <2>6
<1> QED BY <1>3, <1>4, <1>5

\* No expired value hides behind a head that is fresh.
LEMMA HeadsShowTheExpired ==
  ASSUME TypeOK, QueuesPartitionEntries, NEW k \in values,
         {h \in Heads(values) : expired(keymap[h])} = {}
  PROVE  ~expired(keymap[k])
<1>1. values \in SUBSET Keys
  BY DEF TypeOK
<1>2. PICK h \in values : h \in Heads(values)
  BY <1>1, HeadsExist DEF Heads
<1>3. ~expired(keymap[h]) /\ deadline(keymap[h]) <= deadline(keymap[k])
  BY <1>2 DEF Heads
<1>4. /\ deadline(keymap[h]) = keymap[h].expireAt
      /\ expired(keymap[h]) <=> now >= keymap[h].expireAt
  BY <1>2, ValueWorth
<1>5. /\ deadline(keymap[k]) = keymap[k].expireAt
      /\ expired(keymap[k]) <=> now >= keymap[k].expireAt
  BY ValueWorth
<1>6. now \in Nat /\ keymap[k].expireAt \in Nat /\ keymap[h].expireAt \in Nat
  BY <1>1, <1>2 DEF TypeOK, Entries
<1> QED BY <1>3, <1>4, <1>5, <1>6


\* The victim pick names is the least worthy entry, the nearest its deadline within its class.
LEMMA VictimIsRight ==
  ASSUME TypeOK, QueuesPartitionEntries, OriginInv, ReviveInv,
         NEW l \in {evictWorthless, evictStale, evictValue}, NEW v \in pick(l), NEW k \in HeldKeys
  PROVE  /\ Worth(keymap[v]) <= MayDisplace(l)
         /\ Worth(keymap[v]) <= Worth(keymap[k])
         /\ (Worth(keymap[v]) = Worth(keymap[k]) /\ Worth(keymap[v]) # 0) =>
              deadline(keymap[v]) <= deadline(keymap[k])
<1>1. MayDisplace(l) \in {0, 2, 3} /\ (l # evictWorthless => MayDisplace(l) >= 2)
  BY DEF MayDisplace
<1>2. Worth(keymap[k]) \in {0, 1, 2, 3}
  BY DEF Worth
<1>3. CASE worthlessVictim # {}
  <2>1. v \in worthlessVictim
    BY <1>3 DEF pick
  <2>2. \/ v \in residue
        \/ v \in stale /\ worthless(keymap[v])
        \/ v \in values /\ worthless(keymap[v])
    BY <2>1 DEF worthlessVictim, Heads
  <2>3. ASSUME v \in values, worthless(keymap[v]) PROVE Worth(keymap[v]) = 0
    <3>1. /\ v \in Keys
          /\ Worth(keymap[v]) = IF now < keymap[v].expireAt THEN 3
                                ELSE IF MaxStaleOnFailure = 0 /\ now >= keymap[v].expireAt + MaxStale
                                  THEN 0 ELSE 1
          /\ MaxStaleOnFailure = 0 /\ now >= keymap[v].expireAt + MaxStale
      BY <2>3, ValueWorth
    <3>2. now \in Nat /\ keymap[v].expireAt \in Nat /\ MaxStale \in Nat
      BY <3>1, ConfigAssumption DEF TypeOK, Entries
    <3> QED BY <3>1, <3>2
  <2>4. Worth(keymap[v]) = 0
    BY <2>2, <2>3, ResidueIsWorthless, StaleWorth
  <2> QED BY <1>1, <1>2, <2>4
<1>4. CASE worthlessVictim = {}
  <2>1. /\ k \in stale => Worth(keymap[k]) = 2
        /\ k \in values => Worth(keymap[k]) = IF expired(keymap[k]) THEN 1 ELSE 3
        /\ k \in stale \/ k \in values
    BY <1>4, HeadsShowTheWorthless
  <2>2. v \in HeldKeys =>
          /\ v \in stale => Worth(keymap[v]) = 2
          /\ v \in values => Worth(keymap[v]) = IF expired(keymap[v]) THEN 1 ELSE 3
    BY <1>4, HeadsShowTheWorthless
  <2>3. stale \subseteq HeldKeys /\ values \subseteq HeldKeys
    BY DEF QueuesPartitionEntries, HeldKeys
  <2>4. l \in {evictStale, evictValue} /\ l # evictWorthless
    BY <1>4 DEF pick, evictWorthless, evictStale, evictValue
  <2>5. CASE {h \in Heads(values) : expired(keymap[h])} # {}
    <3>1. v \in values /\ v \in Heads(values) /\ expired(keymap[v])
      BY <1>4, <2>4, <2>5 DEF pick, staleVictim, Heads, evictStale, evictValue
    <3>2. Worth(keymap[v]) = 1
      BY <2>2, <2>3, <3>1
    <3>3. k \in values => deadline(keymap[v]) <= deadline(keymap[k])
      BY <3>1 DEF Heads
    <3> QED BY <1>1, <2>1, <2>4, <3>2, <3>3
  <2>6. CASE {h \in Heads(values) : expired(keymap[h])} = {}
    <3>1. k \in values => Worth(keymap[k]) = 3
      BY <2>1, <2>6, HeadsShowTheExpired
    <3>2. CASE Heads(stale) # {}
      <4>1. v \in stale /\ v \in Heads(stale)
        BY <1>4, <2>4, <2>6, <3>2 DEF pick, staleVictim, Heads, evictStale, evictValue
      <4>2. Worth(keymap[v]) = 2
        BY <2>2, <2>3, <4>1
      <4>3. k \in stale => deadline(keymap[v]) <= deadline(keymap[k])
        BY <4>1 DEF Heads
      <4> QED BY <1>1, <2>1, <2>4, <3>1, <4>2, <4>3
    <3>3. CASE Heads(stale) = {}
      <4>1. stale = {}
        BY <3>3, HeadsExist DEF TypeOK
      <4>2. v \in values /\ v \in Heads(values) /\ l = evictValue
        BY <1>4, <2>4, <2>6, <3>3 DEF pick, staleVictim, Heads, evictStale, evictValue
      <4>3. Worth(keymap[v]) = 3
        BY <2>2, <2>3, <2>6, <4>2, HeadsShowTheExpired
      <4>4. MayDisplace(l) = 3
        BY <4>2 DEF MayDisplace, evictWorthless, evictStale, evictValue
      <4>5. deadline(keymap[v]) <= deadline(keymap[k])
        BY <2>1, <4>1, <4>2 DEF Heads
      <4> QED BY <2>1, <3>1, <4>1, <4>3, <4>4, <4>5
    <3> QED BY <3>2, <3>3
  <2> QED BY <2>5, <2>6
<1> QED BY <1>3, <1>4

\* When pick finds nothing, every entry is worth more than the store may displace.
LEMMA RestIsWorthier ==
  ASSUME TypeOK, QueuesPartitionEntries, OriginInv, ReviveInv,
         NEW l \in {evictWorthless, evictStale, evictValue}, pick(l) \intersect HeldKeys = {},
         NEW k \in HeldKeys
  PROVE  Worth(keymap[k]) > MayDisplace(l)
<1>1. stale \subseteq HeldKeys /\ values \subseteq HeldKeys /\ residue \subseteq HeldKeys
  BY DEF QueuesPartitionEntries, HeldKeys
<1>2. pick(l) = {}
  <2>1. pick(l) \subseteq residue \union stale \union values
    BY DEF pick, worthlessVictim, staleVictim, Heads
  <2> QED BY <1>1, <2>1
<1>3. worthlessVictim = {}
  BY <1>2 DEF pick
<1>4. /\ k \in stale => Worth(keymap[k]) = 2
      /\ k \in values => Worth(keymap[k]) = IF expired(keymap[k]) THEN 1 ELSE 3
      /\ k \in stale \/ k \in values
  BY <1>3, HeadsShowTheWorthless
<1>5. l # evictWorthless => stale = {}
  BY NothingToEvict
<1>6. l = evictValue => values = {}
  BY NothingToEvict
<1>7. l # evictWorthless => {h \in Heads(values) : expired(keymap[h])} = {}
  BY <1>2, <1>3 DEF pick, staleVictim, evictWorthless, evictStale, evictValue
<1>8. l # evictWorthless => (k \in values => ~expired(keymap[k]))
  BY <1>7, HeadsShowTheExpired
<1>9. MayDisplace(l) = IF l = evictWorthless THEN 0 ELSE IF l = evictStale THEN 2 ELSE 3
  BY DEF MayDisplace
<1> QED BY <1>4, <1>5, <1>6, <1>8, <1>9 DEF evictWorthless, evictStale, evictValue

\* While a producer makes room nobody but its own eviction takes an entry out ...
LEMMA EvictionStep ==
  ASSUME TypeOK, FlightInv, [Next]_vars, NEW g \in Goroutines, pc[g] = "room", pc'[g] = "room",
         NEW v \in Keys, Held(v), keymap'[v] = NoEntry
  PROVE  evict(g) /\ v \in pick(level(g))
<1>1. mux = g /\ ~Free
  BY GoroutinesAssumption DEF FlightInv, Free
<1>2. ~UNCHANGED cacheVars
  BY DEF cacheVars, Held
<1>3. PICK h \in Goroutines : evict(h) \/ set(h)
  BY <1>1, <1>2, CacheSteps
<1>4. h = g
  BY <1>1, <1>3 DEF evict, set, FlightInv
<1>5. ~set(g)
  BY DEF set, TypeOK
<1>6. PICK u \in pick(level(g)) \intersect HeldKeys : drop(u)
  BY <1>3, <1>4, <1>5 DEF evict
<1>7. u = v
  BY <1>6 DEF drop, HeldKeys, Held, TypeOK
<1> QED BY <1>3, <1>4, <1>5, <1>6, <1>7


\* ... and it leaves the room only by storing.
LEMMA StoreStep ==
  ASSUME TypeOK, FlightInv, [Next]_vars, NEW g \in Goroutines, pc[g] = "room", pc'[g] = "finish"
  PROVE  set(g)
<1>1. ~lookupFn(g) /\ ~publish(g) /\ ~finish(g) /\ ~abortFlight(g) /\ ~publishSuperseded(g)
  BY DEF lookupFn, publish, finish, abortFlight, publishSuperseded
<1>2. ASSUME NEW h \in Goroutines, h # g, Call(h) \/ Internal(h) \/ lookupFn(h) \/ endContext(h)
      PROVE  FALSE
  BY <1>2 DEF Call, Lookup, Remove, RejectKey, Reset, PurgeExpired, Internal, fresh, Return,
     checkContext, slowServe, slowJoin, startAborted, startFlight, awaitDone, awaitAborted,
     abortFlight, publishSuperseded, publish, evict, set, finish, release, lookupFn, endContext, TypeOK
<1>3. ASSUME Call(g) \/ Internal(g) \/ lookupFn(g) \/ endContext(g) PROVE set(g)
  BY <1>1, <1>3 DEF Call, Lookup, Remove, RejectKey, Reset, PurgeExpired, Internal, fresh,
     checkContext, slowServe, slowJoin, startAborted, startFlight, awaitDone, awaitAborted,
     evict, release, endContext
<1>4. ~Tick /\ ~UNCHANGED vars
  BY DEF Tick, vars
<1> QED BY <1>2, <1>3, <1>4 DEF Next, Quiescent

\* Making room evicts the least worthy entry it may, the nearest its deadline within its class, and
\* stops short only when nothing it may displace is left: the queue heads of evict.go decide what
\* stale.go's serving rules would (capacity.go makeRoom).
THEOREM EvictionsAreRight == Spec => EvictionIsRight
<1> DEFINE Inv == TypeOK /\ FlightInv /\ QueuesPartitionEntries /\ EntryInv
           Evicts == \A g \in Goroutines, v \in Keys :
             (pc[g] = "room" /\ pc'[g] = "room" /\ Held(v) /\ keymap'[v] = NoEntry) =>
               /\ Worth(keymap[v]) <= MayDisplace(level(g))
               /\ \A k \in HeldKeys :
                    /\ Worth(keymap[v]) <= Worth(keymap[k])
                    /\ (Worth(keymap[v]) = Worth(keymap[k]) /\ Worth(keymap[v]) # 0) =>
                         deadline(keymap[v]) <= deadline(keymap[k])
           Stores == \A g \in Goroutines :
             (pc[g] = "room" /\ pc'[g] = "finish" /\ ~Fits(key[g])) =>
               \A k \in HeldKeys : Worth(keymap[k]) > MayDisplace(level(g))
<1>1. \A g \in Goroutines : level(g) \in {evictWorthless, evictStale, evictValue}
  BY DEF level
<1>2. Inv /\ [Next]_vars => [Evicts]_vars
  <2> SUFFICES ASSUME Inv, [Next]_vars, NEW g \in Goroutines, NEW v \in Keys,
                      pc[g] = "room", pc'[g] = "room", Held(v), keymap'[v] = NoEntry
               PROVE  /\ Worth(keymap[v]) <= MayDisplace(level(g))
                      /\ \A k \in HeldKeys :
                           /\ Worth(keymap[v]) <= Worth(keymap[k])
                           /\ (Worth(keymap[v]) = Worth(keymap[k]) /\ Worth(keymap[v]) # 0) =>
                                deadline(keymap[v]) <= deadline(keymap[k])
    OBVIOUS
  <2>1. v \in pick(level(g)) /\ v \in HeldKeys
    BY EvictionStep DEF HeldKeys
  <2>2. OriginInv /\ ReviveInv
    BY DEF EntryInv
  <2> QED BY <1>1, <2>1, <2>2, VictimIsRight
<1>3. Inv /\ [Next]_vars => [Stores]_vars
  <2> SUFFICES ASSUME Inv, [Next]_vars, NEW g \in Goroutines, NEW k \in HeldKeys,
                      pc[g] = "room", pc'[g] = "finish", ~Fits(key[g])
               PROVE  Worth(keymap[k]) > MayDisplace(level(g))
    OBVIOUS
  <2>1. pick(level(g)) \intersect HeldKeys = {}
    BY StoreStep DEF set
  <2>2. OriginInv /\ ReviveInv
    BY DEF EntryInv
  <2> QED BY <1>1, <2>1, <2>2, RestIsWorthier
<1>4. Spec => []Inv
  BY TypeCorrect, FlightInvariant, QueuesArePartition, EntryInvariant, PTL
<1>5. Spec => [][Evicts]_vars /\ [][Stores]_vars
  BY <1>2, <1>3, <1>4, PTL DEF Spec
<1> QED
  BY <1>5 DEF EvictionIsRight, EvictsLeastWorthy, OverCapacityOnlyIfNothingToTake

=============================================================================
