------------------------------ MODULE SharedState ------------------------------
(***************************************************************************)
(* State that goroutines share behind one small lock or counter.           *)
(* pkg/threadsafe/tsslice and tsmap: a slice or a map and a RWMutex, each  *)
(* operation under the lock, the slice over a backing array that an alias  *)
(* would share; their Guarded types hold the two together and make a nil   *)
(* map on the first write.  pkg/redact's sensitiveKeyMemo, which a write   *)
(* at its limit empties in part, and pkg/filter's fieldCache, which looks  *)
(* at its counter before it stores.                                        *)
(***************************************************************************)
EXTENDS Integers, SequencesExt, FiniteSetsExt, TLC

CONSTANTS
  Threads,    \* the goroutines; a goroutine writes its own number
  Slices,     \* initial slices
  Maps,       \* initial maps, nilMap for nil
  SharedKeys, \* the keys of maps and caches
  MaxOps,     \* bound on the operations of a goroutine
  MaxLen,     \* bound on the length of the slice
  Ceiling,    \* entries a cache may hold
  Batch       \* entries an eviction removes

VARIABLES
  shared,   \* what is shared: a "slice", a "map", the "memo" of keys, the cache of "fields", or "none"
  guarded,  \* a map: is it in a Guarded?
  heap,     \* backing arrays, or maps, in the order they were allocated
  header,   \* the slice's, or the map's reference: where it is, and how long
  made,     \* the map is not nil
  shots,    \* the snapshots that were taken
  writer, readers,   \* the RWMutex
  data, count,       \* the cache, and its counter
  answers,  \* what lookups found in it
  pc, doing, arg, at, got, hold, left  \* of each goroutine: its operation, argument, what it found
                                       \* under the lock, its result, its header, the operations left

valueVars == <<heap, header, made, shots>>
lockVars == <<writer, readers>>
cacheVars == <<data, count, answers>>
opVars == <<doing, arg, at, left>>
resultVars == <<got, hold>>
sharedVars == <<shared, guarded, valueVars, lockVars, cacheVars, pc, opVars, resultVars>>

zero == 0
nilMap == [x \in {} |-> zero]
Nobody == 0
NoHeader == [arr |-> 0, len |-> 0]

\* The goroutines are known by a number, and a cache has room for an entry.
ASSUME SharedAssumption ==
  /\ IsFiniteSet(Threads) /\ Threads \subseteq Nat \ {Nobody}
  /\ Slices \subseteq Seq(Int)
  /\ MaxOps \in Nat /\ MaxLen \in Nat
  /\ Ceiling \in Nat \ {0} /\ Batch \in Nat \ {0}

-----------------------------------------------------------------------------
(* The lock *)

\* What a header stands for: the elements up to its length, or the map.
Contents(h) == IF shared = "slice" THEN [i \in 1..h.len |-> heap[h.arr][i]] ELSE heap[h.arr]

Readers == {"Get", "GetOK", "Len", "Snapshot", "Filter", "Map", "Reduce", "RDo"}
Writers == {"Set", "SetOK", "Append", "Delete", "Do"}
MapWrites == {"Set", "Delete", "Do"}
Operations == IF shared = "slice" THEN Readers \cup Writers ELSE Readers \cup {"Invert"} \cup MapWrites
Arguments(o) ==
  IF o \notin {"Get", "GetOK", "Set", "SetOK", "Delete"} THEN {0} ELSE IF shared = "slice" THEN -1..MaxLen ELSE SharedKeys

\* Mutant: Delete, which shifts the elements in place, is content with the read lock.
TakesWriteLock_NotDelete(o) == o \in Writers \ {"Delete"}

\* RLock and Lock of sync.RWMutex.
TakesWriteLock(o) == o \in Writers

Lock == \E t \in Threads : \E o \in Operations : \E k \in Arguments(o) :
  /\ shared \in {"slice", "map"} /\ pc[t] = "idle" /\ left[t] > 0
  /\ o = "Append" => header.len < MaxLen
  /\ writer = Nobody
  /\ TakesWriteLock(o) => readers = {}
  /\ writer' = IF TakesWriteLock(o) THEN t ELSE writer
  /\ readers' = IF TakesWriteLock(o) THEN readers ELSE readers \cup {t}
  /\ pc' = [pc EXCEPT ![t] = "first"]
  /\ doing' = [doing EXCEPT ![t] = o] /\ arg' = [arg EXCEPT ![t] = k]
  /\ at' = [at EXCEPT ![t] = Contents(header)]
  /\ left' = [left EXCEPT ![t] = @ - 1]
  /\ UNCHANGED <<shared, guarded, valueVars, cacheVars, resultVars>>

\* The deferred unlock, which a panic meets as well.
Unlock == \E t \in Threads :
  /\ pc[t] = "unlock"
  /\ writer' = IF writer = t THEN Nobody ELSE writer
  /\ readers' = readers \ {t}
  /\ pc' = [pc EXCEPT ![t] = "idle"]
  /\ doing' = [doing EXCEPT ![t] = "none"] /\ arg' = [arg EXCEPT ![t] = 0] /\ at' = [at EXCEPT ![t] = <<>>]
  /\ got' = [got EXCEPT ![t] = <<>>] /\ hold' = [hold EXCEPT ![t] = NoHeader]
  /\ UNCHANGED <<shared, guarded, valueVars, cacheVars, left>>

\* A goroutine that has the lock is at a step of an operation.
Holds(t, where, ops) == pc[t] = where /\ doing[t] \in ops

\* Its last step under the lock.
Ends(t, result) ==
  /\ pc' = [pc EXCEPT ![t] = "unlock"] /\ got' = [got EXCEPT ![t] = result]
  /\ UNCHANGED <<shared, guarded, lockVars, cacheVars, opVars, hold>>

\* The first of its two steps, after which it has a header.
Goes(t, h) ==
  /\ pc' = [pc EXCEPT ![t] = "second"] /\ hold' = [hold EXCEPT ![t] = h]
  /\ UNCHANGED <<shared, guarded, lockVars, cacheVars, opVars, got>>

-----------------------------------------------------------------------------
(* Slices: an array's length is its capacity *)

InRange(k) == 0 <= k /\ k < header.len

\* The callbacks: those that keep the odd elements, negate, add up; Do's reverses the slice.
Keep(v) == v % 2 = 1

\* An index out of range: a panic of Get and Set.
Refuse(t) ==
  /\ Holds(t, "first", {"Get", "GetOK", "Set", "SetOK", "Delete"}) /\ ~InRange(arg[t])
  /\ Ends(t, IF doing[t] \in {"Get", "Set"} THEN <<"panic">> ELSE <<FALSE>>)
  /\ UNCHANGED valueVars

Assign(t) ==
  /\ Holds(t, "first", {"Set", "SetOK"}) /\ InRange(arg[t])
  /\ heap' = [heap EXCEPT ![header.arr] = [@ EXCEPT ![arg[t] + 1] = t]]
  /\ Ends(t, <<TRUE>>)
  /\ UNCHANGED <<header, made, shots>>

\* slices.Delete moves the elements, clears the last, and then the header is written.
Shifted(s, k, n) == [i \in DOMAIN s |-> IF i > k /\ i < n THEN s[i + 1] ELSE s[i]]
Shift(t) ==
  /\ Holds(t, "first", {"Delete"}) /\ InRange(arg[t])
  /\ heap' = [heap EXCEPT ![header.arr] = Shifted(@, arg[t], header.len)]
  /\ Goes(t, header)
  /\ UNCHANGED <<header, made, shots>>
Shorten(t) ==
  /\ Holds(t, "second", {"Delete"})
  /\ heap' = [heap EXCEPT ![header.arr] = [@ EXCEPT ![header.len] = zero]]
  /\ header' = [header EXCEPT !.len = @ - 1]
  /\ Ends(t, <<TRUE>>)
  /\ UNCHANGED <<made, shots>>

\* append: in the array if it has room, or in a larger one; the header is written afterwards.
Fits == header.arr # 0 /\ header.len < Len(heap[header.arr])
Grown(t) == Contents(header) \o <<t>> \o [i \in 1..header.len |-> zero]
Extend(t) ==
  /\ Holds(t, "first", {"Append"})
  /\ heap' = IF Fits THEN [heap EXCEPT ![header.arr] = [@ EXCEPT ![header.len + 1] = t]] ELSE Append(heap, Grown(t))
  /\ Goes(t, [arr |-> IF Fits THEN header.arr ELSE Len(heap) + 1, len |-> header.len + 1])
  /\ UNCHANGED <<header, made, shots>>
Replace(t) ==
  /\ Holds(t, "second", {"Append"})
  /\ header' = hold[t]
  /\ Ends(t, <<>>)
  /\ UNCHANGED <<heap, made, shots>>

Reversed(s, n) == [i \in DOMAIN s |-> IF i <= n THEN s[n + 1 - i] ELSE s[i]]
Rearrange(t) ==
  /\ Holds(t, "first", {"Do"})
  /\ heap' = IF header.arr = 0 THEN heap ELSE [heap EXCEPT ![header.arr] = Reversed(@, header.len)]
  /\ Ends(t, <<TRUE>>)
  /\ UNCHANGED <<header, made, shots>>

\* A reader takes the header, and then looks at the elements.
TakeHeader(t) ==
  /\ Holds(t, "first", Readers) /\ (doing[t] \in {"Get", "GetOK"} => InRange(arg[t]))
  /\ Goes(t, header)
  /\ UNCHANGED valueVars

\* What a reader makes of the elements it finds.
Read(o, k, s) ==
  CASE o = "Get" -> <<s[k + 1]>>
    [] o = "GetOK" -> <<TRUE, s[k + 1]>>
    [] o = "Len" -> <<Len(s)>>
    [] o = "Filter" -> SelectSeq(s, Keep)
    [] o = "Map" -> [i \in DOMAIN s |-> -s[i]]
    [] o = "Reduce" -> <<FoldLeft(+, 0, s)>>
    [] OTHER -> s

Look(t) ==
  /\ Holds(t, "second", Readers \ {"Snapshot"})
  /\ Ends(t, Read(doing[t], arg[t], Contents(hold[t])))
  /\ UNCHANGED valueVars

\* Mutant: the slice itself is returned.
Clone_Aliases(h) == heap' = heap /\ shots' = shots \cup {[ref |-> h, val |-> Contents(h)]}

\* slices.Clone and maps.Clone: an array, a map of its own.
Clone(h) ==
  /\ heap' = Append(heap, Contents(h))
  /\ shots' = shots \cup {[ref |-> [arr |-> Len(heap) + 1, len |-> h.len], val |-> Contents(h)]}

Snapshot(t) ==
  /\ Holds(t, "second", {"Snapshot"})
  /\ Clone(hold[t])
  /\ Ends(t, Contents(hold[t]))
  /\ UNCHANGED <<header, made>>

SliceStep == \E t \in Threads :
  /\ shared = "slice"
  /\ \/ Refuse(t) \/ Assign(t) \/ Shift(t) \/ Shorten(t) \/ Extend(t) \/ Replace(t)
     \/ Rearrange(t) \/ TakeHeader(t) \/ Look(t) \/ Snapshot(t)

-----------------------------------------------------------------------------
(* Maps: the value is one reference, so that each body is one step under the lock *)

Written(m, o, k, v) == CASE o = "Set" -> (k :> v) @@ m
                         [] o = "Delete" -> [x \in DOMAIN m \ {k} |-> m[x]]
                         [] OTHER -> [x \in DOMAIN m |-> -m[x]]

ReadOne(m, o, k) ==
  CASE o = "Get" -> IF k \in DOMAIN m THEN k :> m[k] ELSE k :> zero
    [] o = "GetOK" -> IF k \in DOMAIN m THEN k :> m[k] ELSE nilMap
    [] o = "Len" -> 0 :> Cardinality(DOMAIN m)
    [] o = "Filter" -> [x \in {y \in DOMAIN m : Keep(m[y])} |-> m[x]]
    [] o = "Map" -> [x \in {m[y] : y \in DOMAIN m} |-> zero]
    [] o = "Reduce" -> 0 :> MapThenSumSet(LAMBDA y : m[y], DOMAIN m)
    [] OTHER -> m

\* maputil.Invert: of the keys with one value the last in the range stays, whose order is open.
Inverses(m) == {f \in [{m[y] : y \in DOMAIN m} -> DOMAIN m] : \A x \in DOMAIN f : m[f[x]] = x}
ReadMap(m, o, k) == IF o = "Invert" THEN Inverses(m) ELSE {ReadOne(m, o, k)}

\* A bare nil map panics on Set; Guarded makes it on a write.
Panics(o) == o = "Set" /\ ~made /\ ~guarded

WriteMap(t) ==
  /\ Holds(t, "first", MapWrites)
  /\ heap' = IF Panics(doing[t]) THEN heap ELSE [heap EXCEPT ![header.arr] = Written(@, doing[t], arg[t], t)]
  /\ made' = (made \/ (guarded /\ doing[t] # "Delete"))
  /\ Ends(t, IF Panics(doing[t]) THEN <<"panic">> ELSE <<>>)
  /\ UNCHANGED <<header, shots>>

LookUp(t) ==
  /\ Holds(t, "first", (Readers \ {"Snapshot"}) \cup {"Invert"})
  /\ \E r \in ReadMap(heap[header.arr], doing[t], arg[t]) : Ends(t, r)
  /\ UNCHANGED valueVars

CloneMap(t) ==
  /\ Holds(t, "first", {"Snapshot"})
  /\ Clone(header)
  /\ Ends(t, heap[header.arr])
  /\ UNCHANGED <<header, made>>

MapStep == \E t \in Threads : shared = "map" /\ (WriteMap(t) \/ LookUp(t) \/ CloneMap(t))

-----------------------------------------------------------------------------
(* Caches: a key's value is computed without the lock and stored afterwards *)

\* The value of a key, which every goroutine computes alike.
Truth(k) == Keep(k)
Stored(d, k) == [x \in DOMAIN d \cup {k} |-> IF x = k THEN Truth(k) ELSE d[x]]

Moves(t, where) ==
  /\ pc' = [pc EXCEPT ![t] = where]
  /\ UNCHANGED <<shared, guarded, valueVars, lockVars, doing, at, resultVars>>

\* get: a miss sends the goroutine to compute the value.
Ask(t) == \E k \in SharedKeys :
  /\ pc[t] = "idle" /\ left[t] > 0
  /\ left' = [left EXCEPT ![t] = @ - 1]
  /\ Moves(t, IF k \in DOMAIN data THEN "idle" ELSE "miss")
  /\ arg' = [arg EXCEPT ![t] = IF k \in DOMAIN data THEN 0 ELSE k]
  /\ answers' = IF k \in DOMAIN data THEN answers \cup {<<k, data[k]>>} ELSE answers
  /\ UNCHANGED <<data, count>>

\* Mutant: one entry more fits before any goes.
Full_OneMore(d) == Cardinality(DOMAIN d) > Ceiling

\* sensitiveKeyMemo.set: at the limit some entries go, whichever the map gives first.
Full(d) == Cardinality(DOMAIN d) >= Ceiling
Evicted(d) ==
  IF ~Full(d) THEN {{}}
  ELSE {gone \in SUBSET DOMAIN d : Cardinality(gone) = Batch \/ (gone = DOMAIN d /\ Cardinality(gone) < Batch)}

SetMemo(t) == \E gone \in Evicted(data) :
  /\ shared = "memo" /\ pc[t] = "miss"
  /\ data' = Stored([x \in DOMAIN data \ gone |-> data[x]], arg[t])
  /\ Moves(t, "idle")
  /\ UNCHANGED <<count, answers, arg, left>>

\* fieldCache.Set: the counter is read, then the entry stored, then the counter raised.
CheckCount(t) ==
  /\ shared = "fields" /\ pc[t] = "miss"
  /\ Moves(t, IF count >= Ceiling THEN "idle" ELSE "store")
  /\ UNCHANGED <<cacheVars, arg, left>>

\* Mutant: every one counts.
AfterStore_CountsAll(k) == "count"

\* LoadOrStore: the first one counts.
AfterStore(k) == IF k \in DOMAIN data THEN "idle" ELSE "count"

LoadOrStore(t) ==
  /\ shared = "fields" /\ pc[t] = "store"
  /\ data' = IF arg[t] \in DOMAIN data THEN data ELSE Stored(data, arg[t])
  /\ Moves(t, AfterStore(arg[t]))
  /\ UNCHANGED <<count, answers, arg, left>>

Count(t) ==
  /\ shared = "fields" /\ pc[t] = "count"
  /\ count' = count + 1
  /\ Moves(t, "idle")
  /\ UNCHANGED <<data, answers, arg, left>>

CacheStep == \E t \in Threads :
  shared \in {"memo", "fields"} /\ (Ask(t) \/ SetMemo(t) \/ CheckCount(t) \/ LoadOrStore(t) \/ Count(t))

-----------------------------------------------------------------------------

\* Nobody has begun.
Untouched ==
  /\ shots = {} /\ writer = Nobody /\ readers = {}
  /\ data = nilMap /\ count = 0 /\ answers = {}
  /\ pc = [t \in Threads |-> "idle"] /\ doing = [t \in Threads |-> "none"] /\ arg = [t \in Threads |-> 0]
  /\ at = [t \in Threads |-> <<>>] /\ got = [t \in Threads |-> <<>>] /\ hold = [t \in Threads |-> NoHeader]
  /\ left = [t \in Threads |-> MaxOps]

NoValue == heap = <<>> /\ header = NoHeader /\ made = FALSE /\ guarded = FALSE

SharedInit ==
  /\ Untouched
  /\ \/ \E s \in Slices : /\ shared = "slice" /\ made = FALSE /\ guarded = FALSE
                          /\ heap = IF s = <<>> THEN <<>> ELSE <<s>>
                          /\ header = IF s = <<>> THEN NoHeader ELSE [arr |-> 1, len |-> Len(s)]
     \/ \E m \in Maps : /\ shared = "map" /\ heap = <<m>> /\ header = [arr |-> 1, len |-> 0]
                        /\ made = (m # nilMap) /\ guarded \in BOOLEAN
     \/ shared \in {"memo", "fields"} /\ NoValue

SharedNext == Lock \/ Unlock \/ SliceStep \/ MapStep \/ CacheStep

SharedSpec == SharedInit /\ [][SharedNext]_sharedVars

-----------------------------------------------------------------------------
(* Properties *)

\* What a sequential program would have had.
SliceEffect(o, k, s, t) ==
  LET in == 0 <= k /\ k < Len(s)
  IN  CASE o \in {"Set", "SetOK"} /\ in -> ReplaceAt(s, k + 1, t)
        [] o = "Delete" /\ in -> RemoveAt(s, k + 1)
        [] o = "Append" -> Append(s, t)
        [] o = "Do" -> Reverse(s)
        [] OTHER -> s
SliceResults(o, k, s) ==
  LET in == 0 <= k /\ k < Len(s)
  IN  CASE o \in {"Get", "Set"} /\ ~in -> {<<"panic">>}
        [] o \in {"GetOK", "SetOK", "Delete"} /\ ~in -> {<<FALSE>>}
        [] o \in Readers /\ (o \in {"Get", "GetOK"} => in) -> {Read(o, k, s)}
        [] OTHER -> {<<>>, <<TRUE>>}

MapEffect(o, k, m, t) == IF o \in MapWrites /\ ~Panics(o) THEN Written(m, o, k, t) ELSE m
MapResults(o, k, m) == IF Panics(o) THEN {<<"panic">>} ELSE IF o \in MapWrites THEN {<<>>} ELSE ReadMap(m, o, k)

\* An operation sees and leaves the slice or the map as if it ran alone, whatever the others do,
\* one that panics included, which gives its lock back like any other; a snapshot stays what it
\* was through every later write, append and delete; and a map is nil only while nothing is in it.
OperationsLookAtomic ==
  /\ shared = "slice" => \A t \in Threads : pc[t] = "unlock" =>
       /\ Contents(header) = SliceEffect(doing[t], arg[t], at[t], t)
       /\ got[t] \in SliceResults(doing[t], arg[t], at[t])
  /\ shared = "map" => \A t \in Threads : pc[t] = "unlock" =>
       /\ Contents(header) = MapEffect(doing[t], arg[t], at[t], t)
       /\ got[t] \in MapResults(doing[t], arg[t], at[t])
  /\ shared = "map" /\ ~made => Contents(header) = nilMap
  /\ shared \in {"slice", "map"} =>
       /\ \A s \in shots : Contents(s.ref) = s.val
       /\ {t \in Threads : pc[t] # "idle"} = readers \cup ({writer} \ {Nobody})

\* No cache ever gives a wrong answer; the memo never passes its limit, and the fields pass
\* theirs by no more than the goroutines that looked at the counter in time.  Once they are
\* done, the counter is the number of entries.
CachesStayBounded ==
  /\ \A a \in answers : a[2] = Truth(a[1])
  /\ shared = "memo" => Cardinality(DOMAIN data) <= Ceiling
  /\ shared = "fields" =>
       /\ Cardinality(DOMAIN data) <= Ceiling + Cardinality(Threads) - 1
       /\ count = Cardinality(DOMAIN data) - Cardinality({t \in Threads : pc[t] = "count"})

SharedStateHolds == OperationsLookAtomic /\ CachesStayBounded

=============================================================================
