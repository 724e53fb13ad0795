------------------------------- MODULE SFCache -------------------------------
(***************************************************************************)
(* The single-flight cache of pkg/sfcache: a size-bounded map with TTL     *)
(* expiration, three eviction queues and stale-if-error, shared by         *)
(* goroutines that coalesce onto one external lookup per key.              *)
(*                                                                         *)
(* Granularity: one action per critical section of Cache.mux, or per step  *)
(* that runs without it.  makeRoom reads the clock at every iteration, so  *)
(* each eviction is a step of its own, taken while mux is held.            *)
(*                                                                         *)
(* A flight is named by the order in which it started, and the value (or   *)
(* the error) a lookup function returned by the flight that ran it.        *)
(***************************************************************************)
EXTENDS Integers, FiniteSets

CONSTANTS
  Goroutines,         \* the callers
  NoGoroutine,        \* holder of a free mutex
  Cancellable,        \* the callers whose context can end
  Keys,               \* keys that are equal to themselves
  NoKey,              \* the key of a caller that has made no call yet
  Size,               \* Config.Size, after New clamped it to at least 1
  TTLs,               \* the durations entryTTL can return
  MaxStale,           \* Config.MaxStale, 0 when disabled
  MaxStaleOnFailure,  \* Config.MaxStaleOnFailure, 0 when disabled
  MaxCalls,           \* bound on the calls of Lookup
  MaxInvals,          \* bound on the calls of Remove, Reset and PurgeExpired
  MaxTime             \* bound on the clock

ASSUME GoroutinesAssumption == NoGoroutine \notin Goroutines /\ Cancellable \subseteq Goroutines

ASSUME KeysAssumption == IsFiniteSet(Keys) /\ NoKey \notin Keys

\* New clamps a Size <= 0 to 1, and entryTTL clamps a negative TTL to 0.
ASSUME ConfigAssumption ==
  /\ Size \in Nat \ {0}
  /\ TTLs \subseteq Nat
  /\ MaxStale \in Nat
  /\ MaxStaleOnFailure \in Nat

ASSUME BoundsAssumption ==
  /\ MaxCalls \in Nat
  /\ MaxInvals \in Nat
  /\ MaxTime \in Nat \ {0}

VARIABLES
  now,       \* the monotonic clock; it starts at 1, and 0 is the zero time.Time
  mux,       \* who holds Cache.mux across steps
  keymap,    \* Cache.keymap: the completed entry of each key, or NoEntry
  values,    \* victims.values: the keys filed as unrevived values
  stale,     \* victims.stale: the keys filed as revived values
  residue,   \* victims.residue: the keys filed as error residue
  flights,   \* Cache.flights: the registered flight of each key, 0 for none
  done,      \* the flights whose channel is closed
  nflights,  \* how many flights have been started
  pc,        \* where each goroutine is
  key,       \* the key each goroutine asked for
  ended,     \* whether each caller's context has ended
  ctxErr,    \* lookupSlow's copy of ctx.Err(): TRUE for a non-nil error
  waited,    \* lookupSlow's waited
  fl,        \* the flight a goroutine runs or waits for
  cap,       \* the staleState a producer captured
  res,       \* what a producer has to publish
  pend,      \* the flights an invalidator has still to finish
  ret,       \* what the last Lookup of each goroutine returned
  calls,     \* how many calls of Lookup were made (bound)
  invals,    \* how many invalidating calls were made (bound)
  barrier,   \* history: nflights when the key was last removed
  bar,       \* history: barrier of the key when the call began
  seen,      \* history: the flights that were over when the call began
  hist       \* history: what became of each flight

cacheVars == <<keymap, values, stale, residue>>
callVars == <<key, ended, ctxErr, waited, cap, bar, seen>>
vars == <<now, mux, cacheVars, flights, done, nflights, pc, callVars, fl, res,
          pend, ret, calls, invals, barrier, hist>>

-----------------------------------------------------------------------------
(* Entries (entry.go) *)

FlightIds == 1 .. MaxCalls

NoEntry == [val |-> 0, err |-> FALSE, expireAt |-> 0, staleUntil |-> 0]

Held(k) == keymap[k] # NoEntry

HeldKeys == {k \in Keys : Held(k)}

\* now.Before(e.expireAt), negated
expired(e) == now >= e.expireAt

usable(e, w) == e # NoEntry /\ (w \/ ~expired(e))

revived(e) == e.staleUntil # 0

deadline(e) == IF revived(e) THEN e.staleUntil ELSE e.expireAt

-----------------------------------------------------------------------------
(* Stale-if-error (stale.go) *)

NoStale == [val |-> 0, until |-> 0, ok |-> FALSE, anchored |-> FALSE]

\* Mutant: every failure anchors a window of its own.
staleFrom_Reanchored(old) ==
  IF (MaxStale = 0 /\ MaxStaleOnFailure = 0) \/ old = NoEntry \/ old.err
    THEN NoStale
    ELSE [val |-> old.val, ok |-> TRUE, anchored |-> FALSE, until |-> deadline(old)]

staleFrom(old) ==
  IF (MaxStale = 0 /\ MaxStaleOnFailure = 0) \/ old = NoEntry \/ old.err
    THEN NoStale
    ELSE IF revived(old)
      THEN [val |-> old.val, until |-> old.staleUntil, ok |-> TRUE, anchored |-> TRUE]
      ELSE [val |-> old.val, ok |-> TRUE, anchored |-> FALSE,
            until |-> IF MaxStale > 0 THEN old.expireAt + MaxStale ELSE 0]

\* The deadline staleDeadline resolves ...
staleUntilOf(s) ==
  IF ~s.anchored /\ MaxStaleOnFailure > 0 /\ now + MaxStaleOnFailure > s.until
    THEN now + MaxStaleOnFailure
    ELSE s.until

\* ... and whether it lets the value be served now.
canRevive(s) == s.ok /\ now < staleUntilOf(s)

-----------------------------------------------------------------------------
(* Eviction (evict.go, capacity.go) *)

evictWorthless == 0
evictStale == 1
evictValue == 2

\* The heads a queue can have: its order is by deadline, ties are arbitrary.
Heads(Q) == {k \in Q : \A j \in Q : deadline(keymap[k]) <= deadline(keymap[j])}

\* Mutant: the MaxStale case is tested before the MaxStaleOnFailure one.
worthless_Swapped(e) ==
  CASE e.err                -> TRUE
    [] ~e.err /\ revived(e) -> now >= e.staleUntil
    [] OTHER                -> now >= e.expireAt + MaxStale

worthless(e) ==
  CASE e.err                                  -> TRUE
    [] ~e.err /\ revived(e)                   -> now >= e.staleUntil
    [] ~e.err /\ ~revived(e) /\ MaxStaleOnFailure > 0 -> FALSE
    [] OTHER                                  -> now >= e.expireAt + MaxStale

\* Mutant: only error residue is recognised as worthless.
worthlessVictim_ResidueOnly == Heads(residue)

worthlessVictim ==
  LET shut == {k \in Heads(stale) : worthless(keymap[k])}
      dead == {k \in Heads(values) : worthless(keymap[k])}
  IN IF residue # {} THEN Heads(residue) ELSE IF shut # {} THEN shut ELSE dead

staleVictim ==
  LET unasked == {k \in Heads(values) : expired(keymap[k])}
  IN IF unasked # {} THEN unasked ELSE Heads(stale)

\* The victims pick can name for a store of the given level; {} when none.
pick(level) ==
  IF worthlessVictim # {} THEN worthlessVictim
  ELSE IF level < evictStale THEN {}
  ELSE IF staleVictim # {} THEN staleVictim
  ELSE IF level < evictValue THEN {}
  ELSE Heads(values)

\* Mutant: the target is not lowered for a key that is not held yet.
Fits_OffByOne(k) == Cardinality(HeldKeys) <= Size

\* makeRoom's loop condition, negated, for a store under key k.
Fits(k) == Cardinality(HeldKeys) <= IF Held(k) THEN Size ELSE Size - 1

\* drop: out of the map and out of the queue unfile derives from the entry.
drop(k) ==
  LET e == keymap[k]
  IN /\ keymap' = [keymap EXCEPT ![k] = NoEntry]
     /\ residue' = IF e # NoEntry /\ e.err THEN residue \ {k} ELSE residue
     /\ stale' = IF e # NoEntry /\ ~e.err /\ revived(e) THEN stale \ {k} ELSE stale
     /\ values' = IF e # NoEntry /\ ~e.err /\ ~revived(e) THEN values \ {k} ELSE values

\* store: drop the entry being replaced, write the new one and file it.
store(k, e) ==
  LET old == keymap[k]
      without(Q, mine) == IF old # NoEntry /\ mine THEN Q \ {k} ELSE Q
      with(Q, mine) == IF mine THEN Q \union {k} ELSE Q
  IN /\ keymap' = [keymap EXCEPT ![k] = e]
     /\ residue' = with(without(residue, old.err), e.err)
     /\ stale' = with(without(stale, ~old.err /\ revived(old)), ~e.err /\ revived(e))
     /\ values' = with(without(values, ~old.err /\ ~revived(old)), ~e.err /\ ~revived(e))

-----------------------------------------------------------------------------
(* Calls *)

NoRes == [kind |-> "none", ttl |-> 0, until |-> 0]
NoRet == [kind |-> "none", val |-> 0, fl |-> 0]
NoHist == [key |-> NoKey, kind |-> "none", expireAt |-> 0, failedAt |-> 0]

\* What the history records of a flight: how its lookup ended, until when the
\* value it stored was fresh, and when a refresh of that value first failed.
over(h, kind) ==
  [key |-> h.key, kind |-> kind, expireAt |-> h.expireAt, failedAt |-> h.failedAt]
stored(h, ttl) ==
  [key |-> h.key, kind |-> h.kind, expireAt |-> now + ttl, failedAt |-> h.failedAt]
failed(h) ==
  [key |-> h.key, kind |-> h.kind, expireAt |-> h.expireAt, failedAt |-> now]

Free == mux = NoGoroutine

deregister(k) == flights' = [flights EXCEPT ![k] = 0]

\* Mutant: a producer does not notice that its flight was superseded.
ownFlight_Assumed(g) == TRUE

\* The flight a producer runs is still the registered one.
ownFlight(g) == flights[key[g]] = fl[g]

\* Lookup returns to its caller: the locals die with the call.
Return(g, r) ==
  /\ pc' = [pc EXCEPT ![g] = "idle"]
  /\ ret' = [ret EXCEPT ![g] = r]
  /\ fl' = [fl EXCEPT ![g] = 0]
  /\ res' = [res EXCEPT ![g] = NoRes]
  /\ cap' = [cap EXCEPT ![g] = NoStale]
  /\ waited' = [waited EXCEPT ![g] = FALSE]
  /\ ctxErr' = [ctxErr EXCEPT ![g] = FALSE]
  /\ ended' = [ended EXCEPT ![g] = FALSE]
  /\ UNCHANGED <<key, bar, seen>>

\* A cached outcome, handed to a caller that ran no flight of its own.
Cached(e) == [kind |-> IF e.err THEN "error" ELSE "value", val |-> e.val, fl |-> 0]

\* A caller enters Lookup, with a context that may have ended already.
Lookup(g, k) ==
  /\ pc[g] = "idle"
  /\ calls < MaxCalls
  /\ calls' = calls + 1
  /\ pc' = [pc EXCEPT ![g] = "fast"]
  /\ key' = [key EXCEPT ![g] = k]
  /\ \E dead \in BOOLEAN : /\ dead => g \in Cancellable
                           /\ ended' = [ended EXCEPT ![g] = dead]
  /\ ret' = [ret EXCEPT ![g] = NoRet]
  /\ bar' = [bar EXCEPT ![g] = barrier[k]]
  /\ seen' = [seen EXCEPT ![g] = {f \in FlightIds : hist[f].kind \notin {"none", "run"}}
                                  \ {flights[j] : j \in Keys}]
  /\ UNCHANGED <<now, mux, cacheVars, flights, done, nflights, ctxErr, waited,
                 cap, fl, res, pend, invals, barrier, hist>>

\* A key that is not equal to itself is rejected before it touches a map.
RejectKey(g) ==
  /\ pc[g] = "idle"
  /\ calls < MaxCalls
  /\ calls' = calls + 1
  /\ ret' = [ret EXCEPT ![g] = [kind |-> "invalid", val |-> 0, fl |-> 0]]
  /\ UNCHANGED <<now, mux, cacheVars, flights, done, nflights, pc, callVars, fl,
                 res, pend, invals, barrier, hist>>

\* The fast path under the read lock: a fresh value, or on to lookupSlow.
fresh(g) ==
  /\ pc[g] = "fast"
  /\ Free
  /\ LET item == keymap[key[g]]
     IN IF usable(item, FALSE)
          THEN Return(g, Cached(item))
          ELSE /\ pc' = [pc EXCEPT ![g] = "check"]
               /\ UNCHANGED <<callVars, fl, res, ret>>
  /\ UNCHANGED <<now, mux, cacheVars, flights, done, nflights, pend, calls,
                 invals, barrier, hist>>

\* lookupSlow asks ctx.Err() outside the lock.
checkContext(g) ==
  /\ pc[g] = "check"
  /\ pc' = [pc EXCEPT ![g] = "slow"]
  /\ ctxErr' = [ctxErr EXCEPT ![g] = ended[g]]
  /\ UNCHANGED <<now, mux, cacheVars, flights, done, nflights, key, ended,
                 waited, cap, bar, seen, fl, res, pend, ret, calls, invals,
                 barrier, hist>>

\* One turn of lookupSlow's loop, under the write lock: serve the entry ...
slowServe(g) ==
  /\ pc[g] = "slow"
  /\ Free
  /\ usable(keymap[key[g]], waited[g])
  /\ Return(g, Cached(keymap[key[g]]))
  /\ UNCHANGED <<now, mux, cacheVars, flights, done, nflights, pend, calls,
                 invals, barrier, hist>>

\* ... or coalesce onto the flight in progress ...
slowJoin(g) ==
  /\ pc[g] = "slow"
  /\ Free
  /\ ~usable(keymap[key[g]], waited[g])
  /\ flights[key[g]] # 0
  /\ pc' = [pc EXCEPT ![g] = "await"]
  /\ fl' = [fl EXCEPT ![g] = flights[key[g]]]
  /\ UNCHANGED <<now, mux, cacheVars, flights, done, nflights, callVars, res,
                 pend, ret, calls, invals, barrier, hist>>

\* ... or give up, because the context ended before a lookup would start ...
startAborted(g) ==
  /\ pc[g] = "slow"
  /\ Free
  /\ ~usable(keymap[key[g]], waited[g])
  /\ flights[key[g]] = 0
  /\ ctxErr[g]
  /\ Return(g, [kind |-> "aborted", val |-> 0, fl |-> 0])
  /\ UNCHANGED <<now, mux, cacheVars, flights, done, nflights, pend, calls,
                 invals, barrier, hist>>

\* ... or become the producer: startFlight captures the value it supersedes.
startFlight(g) ==
  LET k == key[g]
      f == nflights + 1
  IN /\ pc[g] = "slow"
     /\ Free
     /\ ~usable(keymap[k], waited[g])
     /\ flights[k] = 0
     /\ ~ctxErr[g]
     /\ cap' = [cap EXCEPT ![g] = staleFrom(keymap[k])]
     /\ drop(k)
     /\ flights' = [flights EXCEPT ![k] = f]
     /\ nflights' = f
     /\ fl' = [fl EXCEPT ![g] = f]
     /\ pc' = [pc EXCEPT ![g] = "fetch"]
     /\ hist' = [hist EXCEPT ![f] = [key |-> k, kind |-> "run", expireAt |-> 0, failedAt |-> 0]]
     /\ UNCHANGED <<now, mux, done, key, ended, ctxErr, waited, bar, seen, res,
                    pend, ret, calls, invals, barrier>>

\* await: the flight completed; both channels may be ready, so either wins.
awaitDone(g) ==
  /\ pc[g] = "await"
  /\ fl[g] \in done
  /\ pc' = [pc EXCEPT ![g] = "check"]
  /\ waited' = [waited EXCEPT ![g] = TRUE]
  /\ fl' = [fl EXCEPT ![g] = 0]
  /\ UNCHANGED <<now, mux, cacheVars, flights, done, nflights, key, ended,
                 ctxErr, cap, bar, seen, res, pend, ret, calls, invals, barrier,
                 hist>>

\* Mutant: a parked caller does not watch its context.
awaitAborted_Deaf(g) == FALSE /\ UNCHANGED vars

\* await: the caller's own context ended.
awaitAborted(g) ==
  /\ pc[g] = "await"
  /\ ended[g]
  /\ Return(g, [kind |-> "aborted", val |-> 0, fl |-> 0])
  /\ UNCHANGED <<now, mux, cacheVars, flights, done, nflights, pend, calls,
                 invals, barrier, hist>>

-----------------------------------------------------------------------------
(* The producer (fetch, publish) *)

\* What lookupFn and then entryTTL can do.  "ctx" is an error that matches the
\* error of the producer's context, which therefore has ended.
Outcomes(g) ==
  {o \in [kind : {"ok", "fail", "ctx", "panic"}, ttl : TTLs \union {0}, until : {0}] :
     /\ o.ttl \in IF o.kind = "ok" THEN TTLs ELSE {0}
     /\ o.kind = "ctx" => ended[g]}

lookupFn(g) ==
  /\ pc[g] = "fetch"
  /\ \E o \in Outcomes(g) :
       /\ res' = [res EXCEPT ![g] = o]
       /\ pc' = [pc EXCEPT ![g] = IF o.kind = "panic" THEN "abort" ELSE "publish"]
       /\ hist' = [hist EXCEPT ![fl[g]] = over(@, o.kind)]
  /\ UNCHANGED <<now, mux, cacheVars, flights, done, nflights, callVars, fl,
                 pend, ret, calls, invals, barrier>>

\* A panic unwinds: abortFlight drops the flight only if it is still its own.
abortFlight(g) ==
  /\ pc[g] = "abort"
  /\ Free
  /\ IF ownFlight(g) THEN deregister(key[g]) ELSE UNCHANGED flights
  /\ pc' = [pc EXCEPT ![g] = "finish"]
  /\ UNCHANGED <<now, mux, cacheVars, done, nflights, callVars, fl, res, pend,
                 ret, calls, invals, barrier, hist>>

\* publish of a flight that Remove or Reset invalidated stores nothing.
publishSuperseded(g) ==
  /\ pc[g] = "publish"
  /\ Free
  /\ ~ownFlight(g)
  /\ pc' = [pc EXCEPT ![g] = "finish"]
  /\ UNCHANGED <<now, mux, cacheVars, flights, done, nflights, callVars, fl,
                 res, pend, ret, calls, invals, barrier, hist>>

\* Mutant: the producer's context error is published like any failure.
contextInduced_Never(g) == FALSE

contextInduced(g) == res[g].kind = "ctx"

\* publish of the registered flight: deregister it and choose what to store.
\* A failure resolves the stale deadline now, before any room is made.
publish(g) ==
  LET revive == res[g].kind # "ok" /\ canRevive(cap[g])
      until == staleUntilOf(cap[g])
      nothing == contextInduced(g) /\ ~revive
      first == hist[cap[g].val].failedAt = 0
  IN /\ pc[g] = "publish"
     /\ Free
     /\ ownFlight(g)
     /\ deregister(key[g])
     /\ res' = IF revive THEN [res EXCEPT ![g] = [kind |-> @.kind, ttl |-> 0, until |-> until]] ELSE res
     /\ hist' = IF revive /\ first THEN [hist EXCEPT ![cap[g].val] = failed(@)] ELSE hist
     /\ pc' = [pc EXCEPT ![g] = IF nothing THEN "finish" ELSE "room"]
     /\ mux' = IF nothing THEN mux ELSE g
     /\ UNCHANGED <<now, cacheVars, done, nflights, callVars, fl, pend, ret,
                    calls, invals, barrier>>

\* How much the pending store may evict.
level(g) == IF res[g].kind = "ok" THEN evictValue
            ELSE IF res[g].until # 0 THEN evictStale
            ELSE evictWorthless

\* One iteration of makeRoom's loop; it returns early when drop finds nothing.
evict(g) ==
  /\ pc[g] = "room"
  /\ ~Fits(key[g])
  /\ \E v \in pick(level(g)) \intersect HeldKeys : drop(v)
  /\ UNCHANGED <<now, mux, flights, done, nflights, pc, callVars, fl, res, pend,
                 ret, calls, invals, barrier, hist>>

\* The entry a producer stores: its deadline is anchored after making room.
Outcome(g) ==
  [val |-> IF res[g].until # 0 THEN cap[g].val ELSE fl[g],
   err |-> res[g].kind # "ok" /\ res[g].until = 0,
   expireAt |-> IF res[g].kind = "ok" THEN now + res[g].ttl ELSE 0,
   staleUntil |-> res[g].until]

\* makeRoom ends and the outcome is stored; publish releases the lock.
set(g) ==
  /\ pc[g] = "room"
  /\ Fits(key[g]) \/ pick(level(g)) \intersect HeldKeys = {}
  /\ store(key[g], Outcome(g))
  /\ hist' = IF res[g].kind = "ok" THEN [hist EXCEPT ![fl[g]] = stored(@, res[g].ttl)]
                                   ELSE hist
  /\ mux' = NoGoroutine
  /\ pc' = [pc EXCEPT ![g] = "finish"]
  /\ UNCHANGED <<now, flights, done, nflights, callVars, fl, res, pend, ret,
                 calls, invals, barrier>>

\* What publish (or the panic) hands to the caller that ran the flight.
Produced(g) ==
  IF res[g].kind = "panic" THEN [kind |-> "panic", val |-> 0, fl |-> fl[g]]
  ELSE IF res[g].until # 0 THEN [kind |-> "value", val |-> cap[g].val, fl |-> fl[g]]
  ELSE [kind |-> IF res[g].kind = "ok" THEN "value" ELSE "error",
        val |-> fl[g], fl |-> fl[g]]

\* Mutant: a producer that panics does not close its channel.
finishes_NotOnPanic(g) == IF res[g].kind = "panic" THEN {} ELSE {fl[g]}

\* The channels a producer closes when it returns or unwinds.
finishes(g) == {fl[g]}

\* fetch's defer closes the flight's channel, then the producer returns.
finish(g) ==
  /\ pc[g] = "finish"
  /\ done' = done \union finishes(g)
  /\ Return(g, Produced(g))
  /\ UNCHANGED <<now, mux, cacheVars, flights, nflights, pend, calls, invals,
                 barrier, hist>>

-----------------------------------------------------------------------------
(* Invalidation (sfcache.go) *)

Remove(g, k) ==
  /\ pc[g] = "idle"
  /\ Free
  /\ invals < MaxInvals
  /\ invals' = invals + 1
  /\ drop(k)
  /\ deregister(k)
  /\ pend' = [pend EXCEPT ![g] = {flights[k]} \ {0}]
  /\ pc' = [pc EXCEPT ![g] = IF flights[k] = 0 THEN "idle" ELSE "release"]
  /\ barrier' = [barrier EXCEPT ![k] = nflights]
  /\ UNCHANGED <<now, mux, done, nflights, callVars, fl, res, ret, calls, hist>>

Reset(g) ==
  /\ pc[g] = "idle"
  /\ Free
  /\ invals < MaxInvals
  /\ invals' = invals + 1
  /\ keymap' = [k \in Keys |-> NoEntry]
  /\ values' = {} /\ stale' = {} /\ residue' = {}
  /\ flights' = [k \in Keys |-> 0]
  /\ LET invalidated == {flights[k] : k \in Keys} \ {0}
     IN /\ pend' = [pend EXCEPT ![g] = invalidated]
        /\ pc' = [pc EXCEPT ![g] = IF invalidated = {} THEN "idle" ELSE "release"]
  /\ barrier' = [k \in Keys |-> nflights]
  /\ UNCHANGED <<now, mux, done, nflights, callVars, fl, res, ret, calls, hist>>

\* Remove and Reset finish what they invalidated after releasing the lock, in
\* the order of a map range.
release(g) ==
  /\ pc[g] = "release"
  /\ \E f \in pend[g] :
       /\ done' = done \union {f}
       /\ pend' = [pend EXCEPT ![g] = @ \ {f}]
       /\ pc' = [pc EXCEPT ![g] = IF pend[g] = {f} THEN "idle" ELSE "release"]
  /\ UNCHANGED <<now, mux, cacheVars, flights, nflights, callVars, fl, res, ret,
                 calls, invals, barrier, hist>>

\* PurgeExpired drains residue and stale, and the expired head of values.
PurgeExpired(g) ==
  LET gone == residue \union stale \union {k \in values : expired(keymap[k])}
  IN /\ pc[g] = "idle"
     /\ Free
     /\ invals < MaxInvals
     /\ invals' = invals + 1
     /\ keymap' = [k \in Keys |-> IF k \in gone THEN NoEntry ELSE keymap[k]]
     /\ residue' = {}
     /\ stale' = {}
     /\ values' = values \ gone
     /\ UNCHANGED <<now, mux, flights, done, nflights, pc, callVars, fl, res,
                    pend, ret, calls, barrier, hist>>

-----------------------------------------------------------------------------
(* The environment, and the specification *)

\* The context of a caller inside Lookup ends.
endContext(g) ==
  /\ g \in Cancellable
  /\ pc[g] \notin {"idle", "release"}
  /\ ~ended[g]
  /\ ended' = [ended EXCEPT ![g] = TRUE]
  /\ UNCHANGED <<now, mux, cacheVars, flights, done, nflights, pc, key, ctxErr,
                 waited, cap, bar, seen, fl, res, pend, ret, calls, invals,
                 barrier, hist>>

Tick ==
  /\ now < MaxTime
  /\ now' = now + 1
  /\ UNCHANGED <<mux, cacheVars, flights, done, nflights, pc, callVars, fl, res,
                 pend, ret, calls, invals, barrier, hist>>

\* Nobody is inside the cache: the only state in which nothing has to happen.
Quiescent == (\A g \in Goroutines : pc[g] = "idle") /\ UNCHANGED vars

Init ==
  /\ now = 1
  /\ mux = NoGoroutine
  /\ keymap = [k \in Keys |-> NoEntry]
  /\ values = {} /\ stale = {} /\ residue = {}
  /\ flights = [k \in Keys |-> 0]
  /\ done = {}
  /\ nflights = 0
  /\ pc = [g \in Goroutines |-> "idle"]
  /\ key = [g \in Goroutines |-> NoKey]
  /\ ended = [g \in Goroutines |-> FALSE]
  /\ ctxErr = [g \in Goroutines |-> FALSE]
  /\ waited = [g \in Goroutines |-> FALSE]
  /\ fl = [g \in Goroutines |-> 0]
  /\ cap = [g \in Goroutines |-> NoStale]
  /\ res = [g \in Goroutines |-> NoRes]
  /\ pend = [g \in Goroutines |-> {}]
  /\ ret = [g \in Goroutines |-> NoRet]
  /\ calls = 0
  /\ invals = 0
  /\ barrier = [k \in Keys |-> 0]
  /\ bar = [g \in Goroutines |-> 0]
  /\ seen = [g \in Goroutines |-> {}]
  /\ hist = [f \in FlightIds |-> NoHist]

\* The steps a goroutine inside the cache takes by itself.
Internal(g) ==
  \/ fresh(g) \/ checkContext(g) \/ slowServe(g) \/ slowJoin(g)
  \/ startAborted(g) \/ startFlight(g) \/ awaitDone(g) \/ awaitAborted(g)
  \/ abortFlight(g) \/ publishSuperseded(g) \/ publish(g) \/ evict(g) \/ set(g)
  \/ finish(g) \/ release(g)

Call(g) ==
  \/ \E k \in Keys : Lookup(g, k) \/ Remove(g, k)
  \/ RejectKey(g) \/ Reset(g) \/ PurgeExpired(g)

Next ==
  \/ \E g \in Goroutines : Call(g) \/ Internal(g) \/ lookupFn(g) \/ endContext(g)
  \/ Tick
  \/ Quiescent

Spec == Init /\ [][Next]_vars

-----------------------------------------------------------------------------
(* Fairness *)

\* A goroutine inside the cache keeps running: the scheduler is fair, and
\* sync.RWMutex serves its waiters in turn.
SchedulerFairness == \A g \in Goroutines : WF_vars(Internal(g))

\* "The lookup function must honor context cancellation and eventually return."
LookupFairness == \A g \in Goroutines : WF_vars(lookupFn(g))

\* The lookup function may hang forever.
FairSpec == Spec /\ SchedulerFairness

-----------------------------------------------------------------------------
(* Properties *)

Times == Nat
PCs == {"idle", "fast", "check", "slow", "await", "fetch", "abort", "publish",
        "room", "finish", "release"}
Entries == [val : Nat, err : BOOLEAN, expireAt : Times, staleUntil : Times]
Captures == [val : Nat, until : Times, ok : BOOLEAN, anchored : BOOLEAN]
Results == [kind : {"none", "ok", "fail", "ctx", "panic"}, ttl : Nat, until : Times]
Answers == [kind : {"none", "value", "error", "aborted", "panic", "invalid"},
            val : Nat, fl : Nat]
Histories == [key : Keys \union {NoKey},
              kind : {"none", "run", "ok", "fail", "ctx", "panic"},
              expireAt : Times, failedAt : Times]

\* Every variable keeps the type of the Go field or local it stands for.
TypeOK ==
  /\ now \in Times \ {0}
  /\ mux \in Goroutines \union {NoGoroutine}
  /\ keymap \in [Keys -> Entries]
  /\ values \subseteq Keys /\ stale \subseteq Keys /\ residue \subseteq Keys
  /\ flights \in [Keys -> Nat]
  /\ done \subseteq Nat
  /\ nflights \in Nat
  /\ pc \in [Goroutines -> PCs]
  /\ key \in [Goroutines -> Keys \union {NoKey}]
  /\ \A g \in Goroutines : pc[g] \notin {"idle", "release"} => key[g] \in Keys
  /\ ended \in [Goroutines -> BOOLEAN]
  /\ ctxErr \in [Goroutines -> BOOLEAN]
  /\ waited \in [Goroutines -> BOOLEAN]
  /\ fl \in [Goroutines -> Nat]
  /\ cap \in [Goroutines -> Captures]
  /\ res \in [Goroutines -> Results]
  /\ pend \in [Goroutines -> SUBSET Nat]
  /\ ret \in [Goroutines -> Answers]
  /\ calls \in 0 .. MaxCalls
  /\ invals \in 0 .. MaxInvals
  /\ barrier \in [Keys -> Nat]
  /\ bar \in [Goroutines -> Nat]
  /\ seen \in [Goroutines -> SUBSET FlightIds]
  /\ hist \in [FlightIds -> Histories]

\* sfcache.go: "every entry in here is filed in exactly one of vic's three
\* queues".  file and unfile agree through evictions, revivals, purges and
\* resets, and no queue names a key the map does not hold.
QueuesPartitionEntries ==
  /\ residue = {k \in Keys : Held(k) /\ keymap[k].err}
  /\ stale = {k \in Keys : Held(k) /\ ~keymap[k].err /\ revived(keymap[k])}
  /\ values = {k \in Keys : Held(k) /\ ~keymap[k].err /\ ~revived(keymap[k])}

\* A goroutine that is bound to deregister, or to have deregistered, its flight.
Producing(g, f, k) == pc[g] \in {"fetch", "publish", "abort"} /\ fl[g] = f /\ key[g] = k

\* sfcache.go: "a key is never in both maps, and a registered flight is never
\* finished".  Moreover each registered flight has a goroutine running it.
RegisteredFlightsAreLive ==
  \A k \in Keys : flights[k] # 0 =>
    /\ ~Held(k)
    /\ flights[k] \notin done
    /\ \E g \in Goroutines : Producing(g, flights[k], k)

\* A caller parked in await is never left on a channel nobody will close: its
\* flight is over, or still registered, or about to be finished by its producer
\* or by the Remove or Reset that deregistered it (flight.go).
NoOrphanedWaiter ==
  \A g \in Goroutines : pc[g] = "await" =>
    \/ fl[g] \in done
    \/ flights[key[g]] = fl[g]
    \/ \E h \in Goroutines : \/ pc[h] = "release" /\ fl[g] \in pend[h]
                             \/ pc[h] \in {"room", "finish"} /\ fl[h] = fl[g]

\* The capacity section of the package documentation: valid values never exceed
\* Size, a stale revive that can evict nothing exceeds it by one value, and the
\* residue of a failed lookup by one entry more.
CapacityBound ==
  /\ Cardinality(values) <= Size
  /\ Cardinality(values \union stale) <= Size + 1
  /\ Cardinality(HeldKeys) <= Size + 2

\* What an entry is still good for, by what lookupSlow and publish would do with
\* it: nothing, a stale answer nobody asked for, a stale answer already served,
\* or a fresh answer.
Worth(e) ==
  IF ~expired(e) THEN 3
  ELSE IF ~canRevive(staleFrom(e)) THEN 0
  ELSE IF revived(e) THEN 2 ELSE 1

\* The worth a store of each level may displace.
MayDisplace(l) == IF l = evictWorthless THEN 0 ELSE IF l = evictStale THEN 2 ELSE 3

\* An eviction takes the least worthy entry the store may displace, and within a
\* class the one whose deadline is nearest: evict.go decides by queue heads what
\* stale.go decides by serving.
EvictsLeastWorthy ==
  [][\A g \in Goroutines, v \in Keys :
       (pc[g] = "room" /\ pc'[g] = "room" /\ Held(v) /\ keymap'[v] = NoEntry) =>
         /\ Worth(keymap[v]) <= MayDisplace(level(g))
         /\ \A k \in HeldKeys :
              /\ Worth(keymap[v]) <= Worth(keymap[k])
              /\ (Worth(keymap[v]) = Worth(keymap[k]) /\ Worth(keymap[v]) # 0) =>
                   deadline(keymap[v]) <= deadline(keymap[k])]_vars

\* A store leaves the cache over capacity only when every entry is worth more
\* than what it may displace: a head that hides a worthless entry would let the
\* residue of failing lookups accumulate.
OverCapacityOnlyIfNothingToTake ==
  [][\A g \in Goroutines :
       (pc[g] = "room" /\ pc'[g] = "finish" /\ ~Fits(key[g])) =>
         \A k \in HeldKeys : Worth(keymap[k]) > MayDisplace(level(g))]_vars

\* Making room takes what it should (EvictsLeastWorthy), and as much as it should
\* (OverCapacityOnlyIfNothingToTake).
EvictionIsRight == EvictsLeastWorthy /\ OverCapacityOnlyIfNothingToTake

\* A call begun after Remove or Reset deleted the key is never answered by a
\* lookup started before it, whether from the map, by coalescing, or by reviving.
RemoveIsABarrier ==
  \A g \in Goroutines :
    (pc[g] = "idle" /\ ret[g].kind \in {"value", "error"}) => ret[g].val > bar[g]

\* Only honest outcomes are shared: a returned value was produced by a lookup
\* that succeeded for that key; the failure of a context reaches nobody but the
\* caller whose context it was; and errors are not cached, so that a caller who is
\* handed another's failure was already waiting when it was published.
SharedOutcomesAreHonest ==
  \A g \in Goroutines : pc[g] = "idle" =>
    /\ ret[g].kind = "value" => /\ hist[ret[g].val].kind = "ok"
                                /\ hist[ret[g].val].key = key[g]
    /\ ret[g].kind = "error" => /\ hist[ret[g].val].key = key[g]
                                /\ ret[g].val \notin seen[g]
                                /\ \/ hist[ret[g].val].kind = "fail"
                                   \/ ret[g].fl = ret[g].val

\* A revived value keeps the window its first failure anchored: however often
\* the upstream fails afterwards, the value is not served past the later of its
\* expiration plus MaxStale and that first failure plus MaxStaleOnFailure.
StaleWindowIsAnchoredOnce ==
  \A k \in Keys : (Held(k) /\ revived(keymap[k])) =>
    LET h == hist[keymap[k].val]
    IN \/ keymap[k].staleUntil <= h.expireAt + MaxStale
       \/ h.failedAt # 0 /\ keymap[k].staleUntil <= h.failedAt + MaxStaleOnFailure

\* Every Lookup returns, provided the lookup function does.
LookupReturns ==
  LookupFairness => \A g \in Goroutines : (pc[g] = "fast") ~> (pc[g] = "idle")

\* Even if the lookup function hangs, a waiter whose context ended returns, and Remove
\* and Reset release the callers coalesced onto the flight they deregister.
WaitersAreFreed ==
  \A g \in Goroutines :
    /\ (pc[g] = "await" /\ ended[g]) ~> (pc[g] = "idle")
    /\ (pc[g] = "await" /\ flights[key[g]] # fl[g]) ~> (pc[g] # "await")

\* No caller is parked for ever: it returns when the lookup function does (LookupReturns), and
\* even when that hangs once its context ends or its flight is deregistered (WaitersAreFreed).
CallersReturn == LookupReturns /\ WaitersAreFreed

\* lookup.go: "no lookup is ever started with a dead context".
LookupStartsWithLiveContext ==
  [][\A g \in Goroutines : (pc[g] # "fetch" /\ pc'[g] = "fetch") => ~ended[g]]_vars

=============================================================================
