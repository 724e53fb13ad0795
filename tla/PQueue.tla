-------------------------------- MODULE PQueue --------------------------------
(***************************************************************************)
(* The victim queue of pkg/sfcache (pqueue.go): a binary min-heap of       *)
(* entries ordered by deadline, in which each entry records its position,  *)
(* and the purge that PurgeExpired runs over the queue of values.          *)
(*                                                                         *)
(* Every iteration of a loop is a step, so that what the loops maintain    *)
(* can be stated.  The cache's mutex makes each operation exclusive: no    *)
(* operation starts before the one under way is over.  Positions count     *)
(* from 0 as in the code: At(i) is q.nodes[i].                             *)
(***************************************************************************)
EXTENDS Integers, Sequences, SequencesExt, FiniteSets

CONSTANTS
  Entries,        \* the entries a queue may hold
  Deadlines,      \* their deadlines, and the instants of a purge
  NoEntry,
  BulkPurgeRatio  \* the share of the queue a purge sifts out one by one

ASSUME DeadlinesAssumption == Deadlines \subseteq Nat /\ Deadlines # {}

ASSUME RatioAssumption == BulkPurgeRatio \in Nat \ {0}

VARIABLES
  nodes,     \* the heap
  idx,       \* the position each entry records
  deadline,  \* the deadline of each entry, fixed while it is queued
  pc,        \* the loop under way
  at,        \* its position
  start,     \* where down started
  heapifying,  \* down was called by heapify, not by remove
  now,       \* the instant of the purge under way, or -1
  budget     \* the removals left before the purge rebuilds the heap

vars == <<nodes, idx, deadline, pc, at, start, heapifying, now, budget>>

Len0 == Len(nodes)
At(i) == nodes[i + 1]
Due(i) == deadline[At(i)]
Queued == ToSet(nodes)

NoDeadline == CHOOSE d \in Deadlines : TRUE

expired(e) == deadline[e] <= now

\* A loop is left, for the purge that called it or for good: its locals are gone.
Return ==
  /\ pc' = IF now = -1 THEN "idle" ELSE "purge"
  /\ at' = 0
  /\ start' = 0
  /\ UNCHANGED <<now, budget>>

\* The purge returns.
PurgeReturns ==
  /\ pc' = "idle"
  /\ at' = 0
  /\ start' = 0
  /\ now' = -1
  /\ budget' = 0

Enter(loop, i) ==
  /\ pc' = loop
  /\ at' = i
  /\ start' = i
  /\ UNCHANGED <<now, budget>>

\* What an entry that left the queue recorded no longer matters.
Forgotten(gone) == deadline' = [e \in Entries |-> IF e \in gone THEN NoDeadline ELSE deadline[e]]

\* Mutant: the exchanged entries keep their old records.
swap_Unrecorded(i, j) ==
  /\ nodes' = [nodes EXCEPT ![i + 1] = At(j), ![j + 1] = At(i)]
  /\ UNCHANGED idx

swap(i, j) ==
  /\ nodes' = [nodes EXCEPT ![i + 1] = At(j), ![j + 1] = At(i)]
  /\ idx' = [idx EXCEPT ![At(j)] = i, ![At(i)] = j]

-----------------------------------------------------------------------------
(* The sifting loops *)

parent(i) == (i - 1) \div 2

rises(i) == i > 0 /\ Due(i) < Due(parent(i))

upSwap ==
  /\ pc = "up"
  /\ rises(at)
  /\ swap(at, parent(at))
  /\ at' = parent(at)
  /\ UNCHANGED <<deadline, pc, start, heapifying, now, budget>>

upReturns ==
  /\ pc = "up"
  /\ ~rises(at)
  /\ Return
  /\ UNCHANGED <<nodes, idx, deadline, heapifying>>

\* The child of i that is due first.
first(i) ==
  LET left  == 2 * i + 1
      right == 2 * i + 2
  IN IF right < Len0 /\ Due(right) < Due(left) THEN right ELSE left

sinks(i) == 2 * i + 1 < Len0 /\ Due(first(i)) < Due(i)

downSwap ==
  /\ pc = "down"
  /\ sinks(at)
  /\ swap(at, first(at))
  /\ at' = first(at)
  /\ UNCHANGED <<deadline, pc, start, heapifying, now, budget>>

\* Mutant: the node that filled the hole is only ever sifted down.
filled_Done == Return

\* remove sifts the node that filled the hole up if it did not move down.
filled == IF at > start THEN Return ELSE Enter("up", at)

downReturns ==
  /\ pc = "down"
  /\ ~sinks(at)
  /\ \/ ~heapifying /\ filled /\ UNCHANGED heapifying
     \/ heapifying /\ start > 0 /\ Enter("down", start - 1) /\ UNCHANGED heapifying
     \/ heapifying /\ start = 0 /\ PurgeReturns /\ heapifying' = FALSE
  /\ UNCHANGED <<nodes, idx, deadline>>

-----------------------------------------------------------------------------
(* The operations *)

push(e, d) ==
  /\ pc = "idle"
  /\ e \notin Queued
  /\ nodes' = Append(nodes, e)
  /\ deadline' = [deadline EXCEPT ![e] = d]
  /\ idx' = [idx EXCEPT ![e] = Len0]
  /\ Enter("up", Len0)
  /\ UNCHANGED heapifying

\* The last node takes the place of e.
fill(e) == [idx EXCEPT ![At(Len0 - 1)] = idx[e], ![e] = 0]

\* The last node fills the hole and is sifted into place.
take(e) ==
  LET i    == idx[e]
      last == Len0 - 1
  IN /\ nodes' = SubSeq([nodes EXCEPT ![i + 1] = At(last)], 1, last)
     /\ idx' = fill(e)
     /\ Forgotten({e})
     /\ UNCHANGED heapifying

remove(e) ==
  /\ pc = "idle"
  /\ e \in Queued
  /\ take(e)
  /\ IF idx[e] = Len0 - 1 THEN Return ELSE Enter("down", idx[e])

\* drain empties the queue, as does reset.
drain ==
  /\ pc = "idle"
  /\ nodes # <<>>
  /\ nodes' = <<>>
  /\ idx' = [e \in Entries |-> 0]
  /\ Forgotten(Queued)
  /\ UNCHANGED <<pc, at, start, heapifying, now, budget>>

-----------------------------------------------------------------------------
(* PurgeExpired over the queue of values *)

PurgeExpired(t) ==
  /\ pc = "idle"
  /\ now' = t
  /\ budget' = Len0 \div BulkPurgeRatio + 1
  /\ pc' = "purge"
  /\ UNCHANGED <<nodes, idx, deadline, at, start, heapifying>>

headExpired == nodes # <<>> /\ expired(At(0))

purgeHead ==
  /\ pc = "purge"
  /\ budget > 0
  /\ headExpired
  /\ take(At(0))
  /\ pc' = IF Len0 = 1 THEN "purge" ELSE "down"
  /\ budget' = budget - 1
  /\ UNCHANGED <<at, start, now>>

purgeDone ==
  /\ pc = "purge"
  /\ ~headExpired
  /\ PurgeReturns
  /\ UNCHANGED <<nodes, idx, deadline, heapifying>>

\* The budget ran out with more to remove.
partition ==
  /\ pc = "purge"
  /\ budget = 0
  /\ headExpired
  /\ pc' = "partition"
  /\ UNCHANGED <<nodes, idx, deadline, at, start, heapifying, now, budget>>

\* The node is kept, behind those kept before it.
partitionKeeps ==
  /\ pc = "partition"
  /\ at < Len0
  /\ ~expired(At(at))
  /\ at' = at + 1
  /\ UNCHANGED <<nodes, idx, deadline, pc, start, heapifying, now, budget>>

\* The node is handed to remove.  The slots between the kept nodes and those not yet looked
\* at hold nothing of the queue any more and are left out of nodes.
partitionRemoves ==
  /\ pc = "partition"
  /\ at < Len0
  /\ expired(At(at))
  /\ nodes' = RemoveAt(nodes, at + 1)
  /\ idx' = [idx EXCEPT ![At(at)] = 0]
  /\ Forgotten({At(at)})
  /\ UNCHANGED <<pc, at, start, heapifying, now, budget>>

lastParent == Len0 \div 2 - 1

Position(e) == CHOOSE i \in 0..(Len0 - 1) : At(i) = e

\* heapify records where the kept nodes now are, and starts from the last parent.
heapify ==
  /\ pc = "partition"
  /\ at = Len0
  /\ idx' = [e \in Entries |-> IF e \in Queued THEN Position(e) ELSE 0]
  /\ IF lastParent < 0 THEN PurgeReturns ELSE Enter("down", lastParent)
  /\ heapifying' = (lastParent >= 0)
  /\ UNCHANGED <<nodes, deadline>>

-----------------------------------------------------------------------------

Init ==
  /\ nodes = <<>>
  /\ idx = [e \in Entries |-> 0]
  /\ deadline = [e \in Entries |-> NoDeadline]
  /\ pc = "idle"
  /\ at = 0
  /\ start = 0
  /\ heapifying = FALSE
  /\ now = -1
  /\ budget = 0

Loop ==
  \/ upSwap \/ upReturns \/ downSwap \/ downReturns
  \/ purgeHead \/ purgeDone \/ partition \/ partitionKeeps \/ partitionRemoves \/ heapify

Next ==
  \/ \E e \in Entries : remove(e) \/ \E d \in Deadlines : push(e, d)
  \/ drain
  \/ \E t \in Deadlines : PurgeExpired(t)
  \/ Loop

Spec == Init /\ [][Next]_vars

-----------------------------------------------------------------------------
(* Properties *)

\* The heap is a sequence of entries, the records are positions, and the loops stay
\* within the bounds of the slice they index.
TypeOK ==
  /\ nodes \in Seq(Entries)
  /\ idx \in [Entries -> Nat]
  /\ deadline \in [Entries -> Deadlines]
  /\ pc \in {"idle", "up", "down", "purge", "partition"}
  /\ at \in Nat /\ start \in Nat
  /\ pc \in {"up", "down"} => at < Len0
  /\ heapifying \in BOOLEAN
  /\ now \in Deadlines \union {-1}
  /\ budget \in Nat

\* "Every queued entry records its own position": in every state of every loop, so
\* that remove takes out the entry it was asked for and no entry is queued twice.  While
\* partition moves the nodes heapify has yet to record them.
IndexIsPosition == pc # "partition" => \A i \in 0..(Len0 - 1) : idx[At(i)] = i

\* "the entry a store may take is always the one at the head": between operations, and
\* each time the purge looks at the head, no entry is due before its parent.
HeapOrdered ==
  pc \in {"idle", "purge"} => \A i \in 1..(Len0 - 1) : Due(parent(i)) <= Due(i)

Abs == INSTANCE PQueueSpec WITH
  due  <- [e \in Queued |-> deadline[e]],
  head <- IF pc = "idle" /\ nodes # <<>> THEN At(0) ELSE NoEntry

\* The heap implements the queue the cache relies on: an exact set of entries whose head
\* is due first, and a purge that removes the expired entries and no other.
ImplementsQueue == Abs!QueueSpec

=============================================================================
