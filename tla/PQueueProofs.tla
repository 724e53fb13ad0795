----------------------------- MODULE PQueueProofs -----------------------------
(***************************************************************************)
(* Proofs about the victim queue of pkg/sfcache, for any entries and any   *)
(* deadlines: every loop of pqueue.go keeps every entry's record of its    *)
(* position, up, down and heapify establish the order of the heap, and the *)
(* queue with its purge implements PQueueSpec.                             *)
(***************************************************************************)
EXTENDS PQueue, SequenceTheorems, WellFoundedInduction, TLAPS

-----------------------------------------------------------------------------
(* The invariant *)

Slots == 0..(Len0 - 1)
Dues == [k \in Slots |-> Due(k)]

\* No node is due before its parent.
HeapOrder(n, d) == \A i \in 1..(n - 1) : d[parent(i)] <= d[i]

\* up: the node at a may be due before its parent, and no child of a is.
UpOrder(n, d, a) ==
  \A i \in 1..(n - 1) :
    /\ i # a => d[parent(i)] <= d[i]
    /\ parent(i) = a /\ a > 0 => d[parent(a)] <= d[i]

\* down, which began at s, has come to a: the children of a may be due before it, and no
\* earlier than a's parent; a itself is in order once it moved.  Of a heap under construction
\* only the subtrees from b on are in order.
DownOrder(n, d, a, s, b) ==
  \A i \in 1..(n - 1) :
    /\ parent(i) # a /\ (i = a => a > s) /\ parent(i) >= b => d[parent(i)] <= d[i]
    /\ parent(i) = a /\ a > 0 /\ a > b => d[parent(a)] <= d[i]

Built == IF heapifying THEN start ELSE -1

OrderInv ==
  /\ pc \in {"idle", "purge"} => HeapOrder(Len0, Dues)
  /\ pc = "up" => UpOrder(Len0, Dues, at)
  /\ pc = "down" => DownOrder(Len0, Dues, at, start, Built)

NoDuplicates == \A i, j \in Slots : At(i) = At(j) => i = j

\* Which loops a purge runs, and what it has already removed.
ControlInv ==
  /\ pc = "idle" => now = -1
  /\ pc \in {"purge", "partition"} => now # -1
  /\ pc \in {"idle", "purge"} => at = 0 /\ start = 0
  /\ pc = "down" => start <= at
  /\ pc = "partition" => at <= Len0 /\ \A k \in Slots : k < at => ~expired(At(k))
  /\ heapifying => pc = "down" /\ now # -1 /\ \A k \in Slots : ~expired(At(k))

QueueInv == TypeOK /\ NoDuplicates /\ IndexIsPosition /\ ControlInv /\ OrderInv

-----------------------------------------------------------------------------
(* The order of a heap, as facts about functions on positions *)

\* The children of j are 2 * j + 1 and 2 * j + 2.
LEMMA ParentProps ==
  ASSUME NEW i \in Nat \ {0}
  PROVE  /\ parent(i) \in Nat /\ parent(i) < i
         /\ i = 2 * parent(i) + 1 \/ i = 2 * parent(i) + 2
BY DEF parent

\* No two loops of up or down can miss a child: j is the parent of exactly these two.
LEMMA ChildProps ==
  ASSUME NEW j \in Nat
  PROVE  parent(2 * j + 1) = j /\ parent(2 * j + 2) = j
BY DEF parent

\* The head of a heap is due first.
LEMMA HeadIsLeast ==
  ASSUME NEW n \in Nat, NEW d, \A k \in 0..(n - 1) : d[k] \in Nat,
         HeapOrder(n, d), NEW k \in 0..(n - 1)
  PROVE  d[0] <= d[k]
<1> DEFINE Bad == {i \in Nat : i <= n - 1 /\ ~(d[0] <= d[i])}
<1> SUFFICES ASSUME Bad # {}
             PROVE  FALSE
  OBVIOUS
<1>1. PICK i \in Bad : \A j \in Bad : <<j, i>> \notin OpToRel(<, Nat)
  BY NatLessThanWellFounded, WFMin, Bad \subseteq Nat
<1>2. i \in Nat /\ i <= n - 1 /\ ~(d[0] <= d[i]) /\ d[i] \in Nat /\ d[0] \in Nat
  OBVIOUS
<1>3. i # 0
  BY <1>2
<1>4. /\ parent(i) \in Nat /\ parent(i) < i /\ d[parent(i)] <= d[i] /\ d[parent(i)] \in Nat
  BY <1>2, <1>3, ParentProps DEF HeapOrder
<1>5. parent(i) \in Bad
  BY <1>2, <1>4
<1> QED
  BY <1>1, <1>2, <1>4, <1>5 DEF OpToRel

\* One iteration of up.
LEMMA UpStep ==
  ASSUME NEW n \in Nat, NEW d, NEW e, NEW a \in 1..(n - 1),
         \A k \in 0..(n - 1) : d[k] \in Nat,
         UpOrder(n, d, a),
         d[a] < d[parent(a)],
         e[a] = d[parent(a)], e[parent(a)] = d[a],
         \A k \in 0..(n - 1) : k # a /\ k # parent(a) => e[k] = d[k]
  PROVE  UpOrder(n, e, parent(a))
<1> DEFINE p == parent(a)
<1>p. p \in Nat /\ p < a /\ p # a
  BY ParentProps
<1> HIDE DEF p
<1>d. /\ d[a] < d[p] /\ e[a] = d[p] /\ e[p] = d[a] /\ parent(a) = p
      /\ \A k \in 0..(n - 1) : k # a /\ k # p => e[k] = d[k]
  BY DEF p
<1> SUFFICES ASSUME NEW i \in 1..(n - 1)
             PROVE  /\ i # p => e[parent(i)] <= e[i]
                    /\ parent(i) = p /\ p > 0 => e[parent(p)] <= e[i]
  BY <1>d DEF UpOrder
<1>i. parent(i) \in Nat /\ parent(i) < i
  BY ParentProps
<1>o. /\ i # a => d[parent(i)] <= d[i]
      /\ parent(i) = a => d[p] <= d[i]
  BY <1>d, a > 0 DEF UpOrder
<1>t. d[i] \in Nat /\ d[parent(i)] \in Nat /\ d[a] \in Nat /\ d[p] \in Nat
  BY <1>i, <1>p
<1>1. ASSUME i # p
      PROVE  e[parent(i)] <= e[i]
  BY <1>1, <1>p, <1>d, <1>i, <1>o, <1>t
<1>2. ASSUME parent(i) = p, p > 0
      PROVE  e[parent(p)] <= e[i]
  <2>1. parent(p) \in Nat /\ parent(p) < p
    BY <1>2, <1>p, ParentProps
  <2>2. e[parent(p)] = d[parent(p)] /\ d[parent(p)] \in Nat
    BY <2>1, <1>p, <1>d
  <2>3. d[parent(p)] <= d[p]
    BY <1>2, <1>p DEF UpOrder
  <2>4. CASE i = a
    BY <2>2, <2>3, <2>4, <1>d
  <2>5. CASE i # a
    BY <2>2, <2>3, <2>5, <1>d, <1>2, <1>o, <1>t, <1>i
  <2> QED  BY <2>4, <2>5
<1> QED  BY <1>1, <1>2

\* up ends: the node is at the head, or no later than its parent.
LEMMA UpEnd ==
  ASSUME NEW n \in Nat, NEW d, NEW a \in 0..(n - 1), \A k \in 0..(n - 1) : d[k] \in Nat,
         UpOrder(n, d, a), a = 0 \/ ~(d[a] < d[parent(a)])
  PROVE  HeapOrder(n, d)
<1> SUFFICES ASSUME NEW i \in 1..(n - 1)
             PROVE  d[parent(i)] <= d[i]
  BY DEF HeapOrder
<1>1. CASE i # a
  BY <1>1 DEF UpOrder
<1>2. CASE i = a
  BY <1>2, ParentProps
<1> QED  BY <1>1, <1>2

\* One iteration of down, which exchanges a with its earlier child f.
LEMMA DownStep ==
  ASSUME NEW n \in Nat, NEW d, NEW e, NEW a \in 0..(n - 1), NEW s \in Nat, NEW b \in Int, b <= s, s <= a,
         NEW f \in 1..(n - 1), parent(f) = a,
         \A k \in 0..(n - 1) : d[k] \in Nat,
         \A k \in 1..(n - 1) : parent(k) = a => d[f] <= d[k],
         DownOrder(n, d, a, s, b),
         d[f] < d[a],
         e[a] = d[f], e[f] = d[a],
         \A k \in 0..(n - 1) : k # a /\ k # f => e[k] = d[k]
  PROVE  DownOrder(n, e, f, s, b)
<1>f. f \in Nat /\ a < f /\ a # f /\ f > s
  BY ParentProps
<1> SUFFICES ASSUME NEW i \in 1..(n - 1)
             PROVE  /\ parent(i) # f /\ (i = f => f > s) /\ parent(i) >= b => e[parent(i)] <= e[i]
                    /\ parent(i) = f /\ f > 0 /\ f > b => e[parent(f)] <= e[i]
  BY DEF DownOrder
<1>i. parent(i) \in Nat /\ parent(i) < i
  BY ParentProps
<1>t. d[i] \in Nat /\ d[parent(i)] \in Nat /\ d[a] \in Nat /\ d[f] \in Nat
  BY <1>i, <1>f
<1>1. ASSUME parent(i) # f, parent(i) >= b
      PROVE  e[parent(i)] <= e[i]
  <2>1. CASE parent(i) = a
    <3>1. CASE i = f
      BY <3>1, <2>1, <1>f, <1>t
    <3>2. CASE i # f
      <4>1. e[i] = d[i]
        BY <3>2, <2>1, <1>i
      <4>2. d[f] <= d[i]
        BY <2>1
      <4> QED  BY <4>1, <4>2, <2>1
    <3> QED  BY <3>1, <3>2
  <2>2. CASE parent(i) # a /\ i = a
    <3>1. e[parent(i)] = d[parent(i)]
      BY <2>2, <1>1, <1>i
    <3>2. a > 0 /\ a > b
      BY <2>2, <1>1, <1>i
    <3>3. d[parent(a)] <= d[f]
      BY <3>2 DEF DownOrder
    <3> QED  BY <3>1, <3>3, <2>2
  <2>3. CASE parent(i) # a /\ i # a
    <3>1. i # f
      BY <2>3
    <3>2. e[i] = d[i] /\ e[parent(i)] = d[parent(i)]
      BY <2>3, <3>1, <1>1, <1>i
    <3>3. d[parent(i)] <= d[i]
      BY <2>3, <1>1 DEF DownOrder
    <3> QED  BY <3>2, <3>3
  <2> QED  BY <2>1, <2>2, <2>3
<1>2. ASSUME parent(i) = f
      PROVE  e[parent(f)] <= e[i]
  <2>1. i # a /\ i # f
    BY <1>2, <1>i, <1>f
  <2>2. d[parent(i)] <= d[i]
    BY <2>1, <1>2, <1>f DEF DownOrder
  <2> QED  BY <2>1, <2>2, <1>2
<1> QED  BY <1>1, <1>2

\* down, called by remove, ends: if the node moved the heap is in order, and otherwise it may
\* have to rise.
LEMMA DownEnd ==
  ASSUME NEW n \in Nat, NEW d, NEW a \in 0..(n - 1), NEW s \in Nat, s <= a,
         \A k \in 0..(n - 1) : d[k] \in Nat,
         DownOrder(n, d, a, s, -1),
         \A k \in 1..(n - 1) : parent(k) = a => d[a] <= d[k]
  PROVE  /\ UpOrder(n, d, a)
         /\ a > s => HeapOrder(n, d)
<1>1. UpOrder(n, d, a)
  <2> SUFFICES ASSUME NEW i \in 1..(n - 1)
               PROVE  /\ i # a => d[parent(i)] <= d[i]
                      /\ parent(i) = a /\ a > 0 => d[parent(a)] <= d[i]
    BY DEF UpOrder
  <2>1. parent(i) \in Nat
    BY ParentProps
  <2> QED  BY <2>1 DEF DownOrder
<1>2. ASSUME a > s PROVE HeapOrder(n, d)
  <2> SUFFICES ASSUME NEW i \in 1..(n - 1)
               PROVE  d[parent(i)] <= d[i]
    BY DEF HeapOrder
  <2>1. parent(i) \in Nat
    BY ParentProps
  <2> QED  BY <2>1, <1>2 DEF DownOrder
<1> QED  BY <1>1, <1>2

\* down, called by heapify, ends: the subtrees from s on are in order, so that the next
\* iteration may start at s - 1, and after the last one the heap is.
LEMMA HeapifyEnd ==
  ASSUME NEW n \in Nat, NEW d, NEW a \in 0..(n - 1), NEW s \in Nat, s <= a,
         \A k \in 0..(n - 1) : d[k] \in Nat,
         DownOrder(n, d, a, s, s),
         \A k \in 1..(n - 1) : parent(k) = a => d[a] <= d[k]
  PROVE  /\ s = 0 => HeapOrder(n, d)
         /\ s > 0 => DownOrder(n, d, s - 1, s - 1, s - 1)
<1>1. \A i \in 1..(n - 1) : parent(i) >= s => d[parent(i)] <= d[i]
  <2> SUFFICES ASSUME NEW i \in 1..(n - 1), parent(i) >= s
               PROVE  d[parent(i)] <= d[i]
    OBVIOUS
  <2>1. parent(i) < i /\ parent(i) \in Nat
    BY ParentProps
  <2> QED  BY <2>1 DEF DownOrder
<1>2. ASSUME s = 0 PROVE HeapOrder(n, d)
  BY <1>1, <1>2, ParentProps DEF HeapOrder
<1>3. ASSUME s > 0 PROVE DownOrder(n, d, s - 1, s - 1, s - 1)
  <2> SUFFICES ASSUME NEW i \in 1..(n - 1)
               PROVE  parent(i) # s - 1 /\ parent(i) >= s - 1 => d[parent(i)] <= d[i]
    BY DEF DownOrder
  <2>1. parent(i) < i /\ parent(i) \in Nat
    BY ParentProps
  <2> QED  BY <2>1, <1>1, <1>3
<1> QED  BY <1>2, <1>3

-----------------------------------------------------------------------------
(* What the operations do to the slice and to the records *)

LEMMA DeadlinesAreNat == Deadlines \subseteq Nat /\ NoDeadline \in Deadlines
BY DeadlinesAssumption DEF NoDeadline

LEMMA SlotProps ==
  ASSUME TypeOK
  PROVE  /\ Len0 \in Nat
         /\ \A k \in Slots : At(k) \in Entries /\ At(k) \in Queued /\ Due(k) \in Nat /\ Dues[k] = Due(k) /\ Dues[k] \in Nat
         /\ \A e \in Queued : e \in Entries /\ \E k \in Slots : At(k) = e
<1>1. Len0 \in Nat /\ nodes \in Seq(Entries) /\ DOMAIN nodes = 1..Len0
  BY LenProperties DEF TypeOK, Len0
<1>2. \A k \in Slots : k + 1 \in 1..Len0 /\ At(k) = nodes[k + 1] /\ At(k) \in Entries
  BY <1>1, ElementOfSeq DEF Slots, At, Len0
<1>3. \A k \in Slots : At(k) \in Queued
  BY <1>1, <1>2 DEF Queued, ToSet
<1>4. \A k \in Slots : Due(k) \in Nat
  BY <1>2, DeadlinesAreNat DEF Due, TypeOK
<1>5. \A k \in Slots : Dues[k] = Due(k) /\ Dues[k] \in Nat
  BY <1>4 DEF Dues
<1>6. ASSUME NEW e \in Queued
      PROVE  e \in Entries /\ \E k \in Slots : At(k) = e
  <2>1. PICK m \in 1..Len0 : nodes[m] = e
    BY <1>1 DEF Queued, ToSet
  <2>2. m - 1 \in Slots /\ At(m - 1) = e
    BY <2>1, <1>1 DEF Slots, At
  <2> QED  BY <2>2, <1>2
<1> QED  BY <1>1, <1>2, <1>3, <1>4, <1>5, <1>6

\* swap exchanges the nodes and keeps their records.
LEMMA SwapEffect ==
  ASSUME TypeOK, \A k \in Slots : idx[At(k)] = k, NEW i \in Slots, NEW j \in Slots, i # j, swap(i, j)
  PROVE  /\ nodes' \in Seq(Entries) /\ Len(nodes') = Len0 /\ idx' \in [Entries -> Nat]
         /\ nodes'[i + 1] = At(j) /\ nodes'[j + 1] = At(i)
         /\ \A k \in Slots : k # i /\ k # j => nodes'[k + 1] = At(k)
         /\ \A k \in Slots : idx'[nodes'[k + 1]] = k
         /\ ToSet(nodes') = Queued
<1>1. nodes \in Seq(Entries) /\ DOMAIN nodes = 1..Len0 /\ Len0 \in Nat /\ i + 1 \in 1..Len0 /\ j + 1 \in 1..Len0 /\ i + 1 # j + 1
  BY LenProperties DEF TypeOK, Len0, Slots
<1>2. At(i) \in Entries /\ At(j) \in Entries
  BY SlotProps
<1> DEFINE one == [nodes EXCEPT ![i + 1] = At(j)]
           two == [one EXCEPT ![j + 1] = At(i)]
<1>3. one \in Seq(Entries) /\ Len(one) = Len0
  BY <1>1, <1>2, ExceptSeq DEF Len0
<1>4. \A m \in 1..Len0 : one[m] = IF m = i + 1 THEN At(j) ELSE nodes[m]
  BY <1>1
<1> HIDE DEF one
<1>5. two \in Seq(Entries) /\ Len(two) = Len0
  BY <1>1, <1>2, <1>3, ExceptSeq
<1>6. \A m \in 1..Len0 : two[m] = IF m = j + 1 THEN At(i) ELSE one[m]
  BY <1>1, <1>3
<1>7. nodes' = two
  BY DEF swap, one
<1> HIDE DEF two
<1>8. /\ nodes'[i + 1] = At(j) /\ nodes'[j + 1] = At(i)
      /\ \A k \in Slots : k # i /\ k # j => nodes'[k + 1] = At(k)
  <2>1. \A k \in Slots : k + 1 \in 1..Len0 /\ k \in Int
    BY <1>1 DEF Slots
  <2> QED  BY <2>1, <1>1, <1>4, <1>6, <1>7 DEF At
<1>9. /\ idx' \in [Entries -> Nat]
      /\ idx'[At(j)] = i /\ idx'[At(i)] = j
      /\ \A e \in Entries : e # At(i) /\ e # At(j) => idx'[e] = idx[e]
  <2>1. At(i) # At(j)
    OBVIOUS
  <2>2. idx \in [Entries -> Nat] /\ i \in Nat /\ j \in Nat
    BY <1>1 DEF TypeOK, Slots
  <2>3. idx' = [idx EXCEPT ![At(j)] = i, ![At(i)] = j]
    BY DEF swap
  <2> HIDE DEF At
  <2> QED  BY <2>1, <2>2, <2>3, <1>2
<1>10. \A k \in Slots : idx'[nodes'[k + 1]] = k
  <2> SUFFICES ASSUME NEW k \in Slots
               PROVE  idx'[nodes'[k + 1]] = k
    OBVIOUS
  <2>1. CASE k = i \/ k = j
    BY <2>1, <1>8, <1>9
  <2>2. CASE k # i /\ k # j
    <3>1. At(k) \in Entries /\ At(k) # At(i) /\ At(k) # At(j)
      BY <2>2, SlotProps
    <3> QED  BY <3>1, <2>2, <1>8, <1>9
  <2> QED  BY <2>1, <2>2
<1>11. ToSet(nodes') = Queued
  <2>1. DOMAIN nodes' = 1..Len0
    BY <1>1, <1>3, <1>5, <1>7, LenProperties
  <2>2. ToSet(nodes') = {nodes'[m] : m \in 1..Len0} /\ Queued = {nodes[m] : m \in 1..Len0}
    BY <2>1, <1>1 DEF ToSet, Queued
  <2>3. \A m \in 1..Len0 : nodes'[m] = IF m = j + 1 THEN nodes[i + 1] ELSE IF m = i + 1 THEN nodes[j + 1] ELSE nodes[m]
    BY <1>4, <1>6, <1>7 DEF At
  <2> QED  BY <2>2, <2>3, <1>1
<1> QED  BY <1>5, <1>7, <1>8, <1>9, <1>10, <1>11

\* The deadlines by position after an exchange.
LEMMA SwapDues ==
  ASSUME TypeOK, \A k \in Slots : idx[At(k)] = k, NEW i \in Slots, NEW j \in Slots, i # j, swap(i, j), deadline' = deadline
  PROVE  /\ Len0' = Len0 /\ Slots' = Slots /\ Queued' = Queued
         /\ Dues'[i] = Dues[j] /\ Dues'[j] = Dues[i]
         /\ \A k \in Slots : k # i /\ k # j => Dues'[k] = Dues[k]
         /\ \A k \in Slots : \E m \in Slots : At(k)' = At(m)
         /\ NoDuplicates' /\ (\A k \in Slots : idx'[At(k)'] = k)
<1>1. /\ nodes' \in Seq(Entries) /\ Len(nodes') = Len0 /\ idx' \in [Entries -> Nat]
      /\ nodes'[i + 1] = At(j) /\ nodes'[j + 1] = At(i)
      /\ \A k \in Slots : k # i /\ k # j => nodes'[k + 1] = At(k)
      /\ \A k \in Slots : idx'[nodes'[k + 1]] = k
      /\ ToSet(nodes') = Queued
  BY SwapEffect
<1>2. Len0' = Len0 /\ Queued' = Queued
  BY <1>1 DEF Len0, Queued
<1>3. Slots' = Slots
  BY <1>2 DEF Slots
<1>4. \A k \in Slots : Dues'[k] = deadline[nodes'[k + 1]]
  BY <1>3 DEF Dues, Due, At
<1>5. \A k \in Slots : Dues[k] = deadline[At(k)]
  BY DEF Dues, Due
<1>6. /\ Dues'[i] = Dues[j] /\ Dues'[j] = Dues[i]
      /\ \A k \in Slots : k # i /\ k # j => Dues'[k] = Dues[k]
  BY <1>1, <1>4, <1>5, SMTT(40)
<1>7. \A k \in Slots : At(k)' = nodes'[k + 1]
  BY DEF At
<1>8. \A k \in Slots : \E m \in Slots : At(k)' = At(m)
  BY <1>1, <1>7
<1>9. \A k \in Slots : idx'[At(k)'] = k
  BY <1>1, <1>7
<1>10. NoDuplicates'
  BY <1>9, <1>3 DEF NoDuplicates
<1> QED  BY <1>2, <1>3, <1>6, <1>8, <1>9, <1>10

-----------------------------------------------------------------------------
(* Every step keeps the invariant *)

\* Steps that leave the slice, the records and the deadlines alone.
LEMMA SameNodes ==
  ASSUME nodes' = nodes, deadline' = deadline
  PROVE  /\ Len0' = Len0 /\ Slots' = Slots /\ Dues' = Dues /\ Queued' = Queued
         /\ \A k : At(k)' = At(k)
         /\ NoDuplicates' = NoDuplicates
<1>1. Len0' = Len0 /\ Queued' = Queued
  BY DEF Len0, Queued
<1>2. Slots' = Slots
  BY <1>1 DEF Slots
<1>3. \A k : At(k)' = At(k)
  BY DEF At
<1>4. Dues' = Dues
  BY <1>2 DEF Dues, Due, At
<1>5. NoDuplicates' = NoDuplicates
  BY <1>2 DEF NoDuplicates, At
<1> QED  BY <1>1, <1>2, <1>3, <1>4, <1>5

LEMMA UpSwapInv == QueueInv /\ upSwap => QueueInv'
<1> SUFFICES ASSUME QueueInv, upSwap PROVE QueueInv'
  OBVIOUS
<1> DEFINE p == parent(at)
<1>1. /\ TypeOK /\ pc = "up" /\ rises(at) /\ swap(at, p) /\ at' = p /\ pc' = "up"
      /\ deadline' = deadline /\ start' = start /\ heapifying' = heapifying /\ now' = now /\ budget' = budget
      /\ \A k \in Slots : idx[At(k)] = k
  BY DEF QueueInv, upSwap, IndexIsPosition, Slots
<1>2. Len0 \in Nat /\ at \in 1..(Len0 - 1) /\ at \in Slots
  BY <1>1, SlotProps DEF TypeOK, rises, Slots
<1>3. p \in Nat /\ p < at /\ p \in Slots /\ p # at
  BY <1>2, ParentProps DEF Slots
<1> HIDE DEF p
<1>4. /\ nodes' \in Seq(Entries) /\ idx' \in [Entries -> Nat]
  BY <1>1, <1>2, <1>3, SwapEffect
<1>5. /\ Len0' = Len0 /\ Slots' = Slots /\ Queued' = Queued
      /\ Dues'[at] = Dues[p] /\ Dues'[p] = Dues[at]
      /\ \A k \in Slots : k # at /\ k # p => Dues'[k] = Dues[k]
      /\ NoDuplicates' /\ (\A k \in Slots : idx'[At(k)'] = k)
  BY <1>1, <1>2, <1>3, SwapDues
<1>6. TypeOK'
  BY <1>1, <1>2, <1>3, <1>4, <1>5 DEF TypeOK
<1>7. IndexIsPosition'
  BY <1>5 DEF IndexIsPosition, Slots
<1>8. ControlInv'
  <2>1. heapifying' = FALSE
    BY <1>1 DEF QueueInv, ControlInv, TypeOK
  <2> QED  BY <2>1, <1>1 DEF ControlInv
<1>9. UpOrder(Len0, Dues', p)
  <2>1. Dues[at] < Dues[parent(at)]
    BY <1>1, <1>2, <1>3, SlotProps DEF rises, p
  <2>2. UpOrder(Len0, Dues, at)
    BY <1>1 DEF QueueInv, OrderInv
  <2>3. \A k \in 0..(Len0 - 1) : Dues[k] \in Nat
    BY <1>1, SlotProps DEF Slots
  <2>4. /\ Dues'[at] = Dues[parent(at)] /\ Dues'[parent(at)] = Dues[at]
        /\ \A k \in 0..(Len0 - 1) : k # at /\ k # parent(at) => Dues'[k] = Dues[k]
    BY <1>5 DEF p, Slots
  <2> DEFINE d == Dues
             e == Dues'
             n == Len0
             a == at
  <2>5. /\ n \in Nat /\ a \in 1..(n - 1) /\ (\A k \in 0..(n - 1) : d[k] \in Nat)
        /\ UpOrder(n, d, a) /\ d[a] < d[parent(a)] /\ e[a] = d[parent(a)] /\ e[parent(a)] = d[a]
        /\ \A k \in 0..(n - 1) : k # a /\ k # parent(a) => e[k] = d[k]
    BY <1>2, <2>1, <2>2, <2>3, <2>4
  <2> HIDE DEF d, e, n, a
  <2>6. UpOrder(n, e, parent(a))
    BY <2>5, UpStep
  <2> QED  BY <2>6 DEF d, e, n, a, p
<1>10. OrderInv'
  BY <1>1, <1>5, <1>9 DEF OrderInv, UpOrder
<1> QED  BY <1>5, <1>6, <1>7, <1>8, <1>10 DEF QueueInv

LEMMA UpReturnsInv == QueueInv /\ upReturns => QueueInv'
<1> SUFFICES ASSUME QueueInv, upReturns PROVE QueueInv'
  OBVIOUS
<1>1. /\ TypeOK /\ pc = "up" /\ ~rises(at) /\ Return
      /\ nodes' = nodes /\ deadline' = deadline /\ idx' = idx /\ heapifying' = heapifying
  BY DEF QueueInv, upReturns
<1>2. /\ Len0' = Len0 /\ Slots' = Slots /\ Dues' = Dues /\ Queued' = Queued
      /\ (\A k : At(k)' = At(k)) /\ NoDuplicates' = NoDuplicates
  BY <1>1, SameNodes
<1>3. heapifying = FALSE /\ (pc' = "idle" => now = -1) /\ (pc' = "purge" => now # -1) /\ pc' \in {"idle", "purge"}
  BY <1>1 DEF QueueInv, ControlInv, TypeOK, Return
<1>4. TypeOK'
  BY <1>1, <1>2, <1>3 DEF TypeOK, Return
<1>5. IndexIsPosition'
  BY <1>1, <1>2 DEF QueueInv, IndexIsPosition
<1>6. ControlInv'
  BY <1>1, <1>3 DEF ControlInv, Return
<1>7. HeapOrder(Len0, Dues)
  <2> DEFINE d == Dues
             n == Len0
             a == at
  <2>1. n \in Nat /\ a \in 0..(n - 1) /\ \A k \in 0..(n - 1) : d[k] \in Nat
    BY <1>1, SlotProps DEF TypeOK, Slots
  <2>2. UpOrder(n, d, a)
    BY <1>1 DEF QueueInv, OrderInv
  <2>3. a = 0 \/ ~(d[a] < d[parent(a)])
    <3> SUFFICES ASSUME a > 0 PROVE ~(d[a] < d[parent(a)])
      BY <2>1
    <3>1. parent(at) \in Nat /\ parent(at) < at /\ at \in Slots /\ parent(at) \in Slots
      BY <2>1, ParentProps DEF Slots
    <3> QED  BY <3>1, <1>1, SlotProps DEF rises
  <2> HIDE DEF d, n, a
  <2>4. HeapOrder(n, d)
    BY <2>1, <2>2, <2>3, UpEnd
  <2> QED  BY <2>4 DEF n, d
<1>8. OrderInv'
  BY <1>2, <1>3, <1>7 DEF OrderInv, HeapOrder
<1> QED  BY <1>2, <1>4, <1>5, <1>6, <1>8 DEF QueueInv

\* first is the child that is due first.
LEMMA FirstProps ==
  ASSUME TypeOK, NEW a \in Slots
  PROVE  /\ 2 * a + 1 < Len0 =>
              /\ first(a) \in 1..(Len0 - 1) /\ parent(first(a)) = a
              /\ \A k \in 1..(Len0 - 1) : parent(k) = a => Dues[first(a)] <= Dues[k]
         /\ sinks(a) => 2 * a + 1 < Len0 /\ Dues[first(a)] < Dues[a]
         /\ ~sinks(a) => \A k \in 1..(Len0 - 1) : parent(k) = a => Dues[a] <= Dues[k]
<1>1. Len0 \in Nat /\ a \in Nat
  BY SlotProps DEF Slots
<1>2. \A k \in Slots : Dues[k] = Due(k) /\ Due(k) \in Nat
  BY SlotProps
<1>3. \A k \in 1..(Len0 - 1) : k \in Slots /\ (parent(k) = a => k = 2 * a + 1 \/ k = 2 * a + 2)
  BY <1>1, ParentProps DEF Slots
<1>4. parent(2 * a + 1) = a /\ parent(2 * a + 2) = a
  BY <1>1, ChildProps
<1>5. ASSUME 2 * a + 1 < Len0
      PROVE  /\ first(a) \in 1..(Len0 - 1) /\ first(a) \in Slots /\ parent(first(a)) = a
             /\ \A k \in 1..(Len0 - 1) : parent(k) = a => Dues[first(a)] <= Dues[k]
  <2>0. 2 * a + 1 \in 1..(Len0 - 1)
    BY <1>5, <1>1
  <2>1. CASE 2 * a + 2 < Len0 /\ Due(2 * a + 2) < Due(2 * a + 1)
    <3>1. first(a) = 2 * a + 2 /\ 2 * a + 2 \in 1..(Len0 - 1)
      BY <2>1, <1>1 DEF first
    <3> QED  BY <3>1, <2>0, <2>1, <1>2, <1>3, <1>4
  <2>2. CASE ~(2 * a + 2 < Len0 /\ Due(2 * a + 2) < Due(2 * a + 1))
    <3>1. first(a) = 2 * a + 1
      BY <2>2 DEF first
    <3>2. ASSUME NEW k \in 1..(Len0 - 1), parent(k) = a
          PROVE  Dues[first(a)] <= Dues[k]
      <4>1. CASE k = 2 * a + 1
        BY <4>1, <3>1, <2>0, <1>2, <1>3
      <4>2. CASE k = 2 * a + 2
        BY <4>2, <3>1, <2>0, <2>2, <1>1, <1>2, <1>3
      <4> QED  BY <4>1, <4>2, <3>2, <1>3
    <3> QED  BY <3>1, <3>2, <2>0, <1>3, <1>4
  <2> QED  BY <2>1, <2>2
<1>6. sinks(a) => 2 * a + 1 < Len0 /\ Dues[first(a)] < Dues[a]
  BY <1>2, <1>5 DEF sinks
<1>7. ASSUME ~sinks(a), NEW k \in 1..(Len0 - 1), parent(k) = a
      PROVE  Dues[a] <= Dues[k]
  <2>1. 2 * a + 1 < Len0
    BY <1>7, <1>3, <1>1
  <2>2. ~(Due(first(a)) < Due(a))
    BY <2>1, <1>7 DEF sinks
  <2>3. Dues[first(a)] <= Dues[k] /\ Dues[a] <= Dues[first(a)]
    BY <2>1, <2>2, <1>2, <1>5, <1>7
  <2>4. first(a) \in Slots /\ k \in Slots
    BY <2>1, <1>3, <1>5
  <2>5. Dues[a] \in Nat /\ Dues[first(a)] \in Nat /\ Dues[k] \in Nat
    BY <2>4, <1>2
  <2> QED  BY <2>3, <2>5
<1> QED  BY <1>5, <1>6, <1>7

LEMMA DownSwapInv == QueueInv /\ downSwap => QueueInv'
<1> SUFFICES ASSUME QueueInv, downSwap PROVE QueueInv'
  OBVIOUS
<1> DEFINE f == first(at)
<1>1. /\ TypeOK /\ pc = "down" /\ sinks(at) /\ swap(at, f) /\ at' = f /\ pc' = "down"
      /\ deadline' = deadline /\ start' = start /\ heapifying' = heapifying /\ now' = now /\ budget' = budget
      /\ \A k \in Slots : idx[At(k)] = k
  BY DEF QueueInv, downSwap, IndexIsPosition, Slots
<1>2. Len0 \in Nat /\ at \in Slots /\ at \in Nat /\ start \in Nat /\ start <= at
  BY <1>1, SlotProps DEF TypeOK, Slots, QueueInv, ControlInv
<1>3. /\ f \in 1..(Len0 - 1) /\ parent(f) = at /\ Dues[f] < Dues[at]
      /\ \A k \in 1..(Len0 - 1) : parent(k) = at => Dues[f] <= Dues[k]
  BY <1>1, <1>2, FirstProps
<1> HIDE DEF f
<1>4. f \in Nat /\ f \in Slots /\ f # at /\ at < f
  BY <1>2, <1>3, ParentProps DEF Slots
<1>5. /\ nodes' \in Seq(Entries) /\ idx' \in [Entries -> Nat]
  BY <1>1, <1>2, <1>4, SwapEffect
<1>6. /\ Len0' = Len0 /\ Slots' = Slots /\ Queued' = Queued
      /\ Dues'[at] = Dues[f] /\ Dues'[f] = Dues[at]
      /\ \A k \in Slots : k # at /\ k # f => Dues'[k] = Dues[k]
      /\ NoDuplicates' /\ (\A k \in Slots : idx'[At(k)'] = k)
      /\ \A k \in Slots : \E m \in Slots : At(k)' = At(m)
  BY <1>1, <1>2, <1>4, SwapDues
<1>7. TypeOK'
  BY <1>1, <1>2, <1>3, <1>4, <1>5, <1>6, SMTT(40) DEF TypeOK
<1>8. IndexIsPosition'
  BY <1>6 DEF IndexIsPosition, Slots
<1>9. ControlInv'
  <2>1. ASSUME heapifying PROVE \A k \in Slots' : ~(deadline'[At(k)'] <= now')
    <3>1. \A k \in Slots : ~(deadline[At(k)] <= now)
      BY <2>1 DEF QueueInv, ControlInv, expired
    <3> QED  BY <3>1, <1>1, <1>6
  <2>2. heapifying => now # -1
    BY DEF QueueInv, ControlInv
  <2>3. start' <= at'
    BY <1>1, <1>2, <1>4
  <2> QED  BY <2>1, <2>2, <2>3, <1>1 DEF ControlInv, expired
<1>10. DownOrder(Len0, Dues', f, start, Built)
  <2> DEFINE d == Dues
             e == Dues'
             n == Len0
             a == at
             s == start
             b == Built
  <2>1. n \in Nat /\ a \in 0..(n - 1) /\ s \in Nat /\ s <= a /\ b \in Int /\ b <= s
    BY <1>1, <1>2 DEF Slots, Built
  <2>2. \A k \in 0..(n - 1) : d[k] \in Nat
    BY <1>1, SlotProps DEF Slots
  <2>3. DownOrder(n, d, a, s, b)
    BY <1>1 DEF QueueInv, OrderInv
  <2>4. /\ f \in 1..(n - 1) /\ parent(f) = a /\ d[f] < d[a]
        /\ \A k \in 1..(n - 1) : parent(k) = a => d[f] <= d[k]
    BY <1>3
  <2>5. /\ e[a] = d[f] /\ e[f] = d[a]
        /\ \A k \in 0..(n - 1) : k # a /\ k # f => e[k] = d[k]
    BY <1>6 DEF Slots
  <2> HIDE DEF d, e, n, a, s, b
  <2>6. DownOrder(n, e, f, s, b)
    BY <2>1, <2>2, <2>3, <2>4, <2>5, DownStep
  <2> QED  BY <2>6 DEF d, e, n, a, s, b
<1>11. Built' = Built
  BY <1>1 DEF Built
<1>12. OrderInv'
  BY <1>1, <1>6, <1>10, <1>11 DEF OrderInv, DownOrder
<1> QED  BY <1>6, <1>7, <1>8, <1>9, <1>12 DEF QueueInv

LEMMA DownReturnsInv == QueueInv /\ downReturns => QueueInv'
<1> SUFFICES ASSUME QueueInv, downReturns PROVE QueueInv'
  OBVIOUS
<1>1. /\ TypeOK /\ pc = "down" /\ ~sinks(at)
      /\ nodes' = nodes /\ deadline' = deadline /\ idx' = idx
  BY DEF QueueInv, downReturns
<1>2. /\ Len0' = Len0 /\ Slots' = Slots /\ Dues' = Dues /\ Queued' = Queued
      /\ (\A k : At(k)' = At(k)) /\ NoDuplicates' = NoDuplicates
  BY <1>1, SameNodes
<1>3. Len0 \in Nat /\ at \in Slots /\ at \in Nat /\ at < Len0 /\ start \in Nat /\ start <= at /\ heapifying \in BOOLEAN
  BY <1>1, SlotProps DEF TypeOK, Slots, QueueInv, ControlInv
<1>4. IndexIsPosition'
  BY <1>1, <1>2 DEF QueueInv, IndexIsPosition
<1>5. \A k \in 1..(Len0 - 1) : parent(k) = at => Dues[at] <= Dues[k]
  BY <1>1, <1>3, FirstProps
<1>6. \A k \in 0..(Len0 - 1) : Dues[k] \in Nat
  BY <1>1, SlotProps DEF Slots
<1>7. DownOrder(Len0, Dues, at, start, Built)
  BY <1>1 DEF QueueInv, OrderInv
<1> DEFINE d == Dues
           n == Len0
           a == at
           s == start
<1>8. /\ n \in Nat /\ a \in 0..(n - 1) /\ s \in Nat /\ s <= a /\ (\A k \in 0..(n - 1) : d[k] \in Nat)
      /\ \A k \in 1..(n - 1) : parent(k) = a => d[a] <= d[k]
  BY <1>3, <1>5, <1>6 DEF Slots
<1>9. now \in Deadlines \union {-1} /\ budget \in Nat
  BY <1>1 DEF TypeOK
<1>a. ASSUME ~heapifying, filled, heapifying' = heapifying
      PROVE  TypeOK' /\ ControlInv' /\ OrderInv'
  <2>1. DownOrder(n, d, a, s, -1)
    BY <1>7, <1>a DEF Built
  <2> HIDE DEF d, n, a, s
  <2>2. UpOrder(n, d, a) /\ (a > s => HeapOrder(n, d))
    BY <2>1, <1>8, DownEnd
  <2> USE DEF d, n, a, s
  <2>3. CASE at > start
    <3>1. Return
      BY <2>3, <1>a DEF filled
    <3>2. HeapOrder(Len0, Dues)
      BY <2>2, <2>3
    <3>3. (pc' = "idle" => now = -1) /\ (pc' = "purge" => now # -1) /\ pc' \in {"idle", "purge"}
      BY <3>1 DEF Return
    <3>4. TypeOK'
      BY <3>1, <3>3, <1>1, <1>2, <1>3, <1>9, <1>a DEF TypeOK, Return
    <3>5. ControlInv'
      BY <3>1, <3>3, <1>a, <1>3 DEF ControlInv, Return
    <3> QED  BY <3>2, <3>3, <3>4, <3>5, <1>2 DEF OrderInv, HeapOrder
  <2>4. CASE ~(at > start)
    <3>1. Enter("up", at)
      BY <2>4, <1>a DEF filled
    <3>2. UpOrder(Len0, Dues, at)
      BY <2>2
    <3>3. pc' = "up" /\ at' = at /\ now' = now /\ budget' = budget /\ start' = at
      BY <3>1 DEF Enter
    <3>4. TypeOK'
      BY <3>3, <1>1, <1>2, <1>3, <1>9, <1>a DEF TypeOK
    <3>5. ControlInv'
      BY <3>3, <1>a, <1>3 DEF ControlInv
    <3> QED  BY <3>2, <3>3, <3>4, <3>5, <1>2 DEF OrderInv, UpOrder
  <2> QED  BY <2>3, <2>4
<1>b. ASSUME heapifying
      PROVE  /\ start = 0 => HeapOrder(Len0, Dues)
             /\ start > 0 => DownOrder(Len0, Dues, start - 1, start - 1, start - 1)
             /\ now # -1 /\ \A k \in Slots : ~expired(At(k))
  <2>1. DownOrder(n, d, a, s, s)
    BY <1>7, <1>b DEF Built
  <2> HIDE DEF d, n, a, s
  <2>2. (s = 0 => HeapOrder(n, d)) /\ (s > 0 => DownOrder(n, d, s - 1, s - 1, s - 1))
    BY <2>1, <1>8, HeapifyEnd
  <2>3. now # -1 /\ \A k \in Slots : ~expired(At(k))
    BY <1>b DEF QueueInv, ControlInv
  <2> QED  BY <2>2, <2>3 DEF d, n, a, s
<1>c. ASSUME heapifying, start > 0, Enter("down", start - 1), heapifying' = heapifying
      PROVE  TypeOK' /\ ControlInv' /\ OrderInv'
  <2>1. pc' = "down" /\ at' = start - 1 /\ start' = start - 1 /\ now' = now /\ budget' = budget /\ heapifying' = TRUE
    BY <1>c, <1>3 DEF Enter
  <2>2. TypeOK'
    BY <2>1, <1>1, <1>2, <1>3, <1>9, <1>c DEF TypeOK
  <2>3. \A k \in Slots' : ~(deadline'[At(k)'] <= now')
    BY <2>1, <1>1, <1>2, <1>b, <1>c DEF expired
  <2>4. ControlInv'
    BY <2>1, <2>3, <1>b, <1>3, <1>c DEF ControlInv, expired
  <2>5. Built' = start - 1
    BY <2>1 DEF Built
  <2>6. OrderInv'
    BY <2>1, <2>5, <1>b, <1>c, <1>2 DEF OrderInv, DownOrder
  <2> QED  BY <2>2, <2>4, <2>6
<1>d. ASSUME heapifying, start = 0, PurgeReturns, heapifying' = FALSE
      PROVE  TypeOK' /\ ControlInv' /\ OrderInv'
  <2>1. pc' = "idle" /\ at' = 0 /\ start' = 0 /\ now' = -1 /\ budget' = 0
    BY <1>d DEF PurgeReturns
  <2>2. TypeOK'
    BY <2>1, <1>1, <1>2, <1>d DEF TypeOK
  <2>3. ControlInv'
    BY <2>1, <1>d DEF ControlInv
  <2>4. OrderInv'
    BY <2>1, <1>b, <1>d, <1>2 DEF OrderInv, HeapOrder
  <2> QED  BY <2>2, <2>3, <2>4
<1>e. TypeOK' /\ ControlInv' /\ OrderInv'
  BY <1>a, <1>c, <1>d DEF downReturns
<1>f. NoDuplicates'
  BY <1>2 DEF QueueInv
<1> QED  BY <1>e, <1>f, <1>4 DEF QueueInv

\* A node appended to a heap may have to rise, and nothing else is out of order.
LEMMA AppendOrder ==
  ASSUME NEW n \in Nat, NEW d, NEW e, HeapOrder(n, d), \A k \in 0..(n - 1) : e[k] = d[k]
  PROVE  UpOrder(n + 1, e, n)
<1> SUFFICES ASSUME NEW i \in 1..n
             PROVE  (i # n => e[parent(i)] <= e[i]) /\ parent(i) # n
  BY DEF UpOrder
<1>1. parent(i) \in Nat /\ parent(i) < i
  BY ParentProps
<1>2. ASSUME i # n PROVE e[parent(i)] <= e[i]
  BY <1>1, <1>2 DEF HeapOrder
<1> QED  BY <1>1, <1>2

\* The last node fills the hole at a.
LEMMA FillOrder ==
  ASSUME NEW n \in Nat \ {0}, NEW d, NEW e, NEW a \in 0..(n - 1), \A k \in 0..(n - 1) : d[k] \in Nat,
         HeapOrder(n, d), \A k \in 0..(n - 2) : k # a => e[k] = d[k]
  PROVE  /\ a = n - 1 => HeapOrder(n - 1, e)
         /\ a # n - 1 => DownOrder(n - 1, e, a, a, -1)
<1>1. ASSUME NEW i \in 1..(n - 2), i # a, parent(i) # a
      PROVE  e[parent(i)] <= e[i]
  <2>1. parent(i) \in Nat /\ parent(i) < i
    BY ParentProps
  <2> QED  BY <2>1, <1>1 DEF HeapOrder
<1>2. ASSUME a = n - 1 PROVE HeapOrder(n - 1, e)
  <2> SUFFICES ASSUME NEW i \in 1..(n - 2)
               PROVE  e[parent(i)] <= e[i]
    BY DEF HeapOrder
  <2>1. parent(i) \in Nat /\ parent(i) < i
    BY ParentProps
  <2> QED  BY <2>1, <1>1, <1>2
<1>3. ASSUME NEW i \in 1..(n - 2), parent(i) = a, a > 0
      PROVE  e[parent(a)] <= e[i]
  <2>1. parent(i) \in Nat /\ parent(i) < i /\ parent(a) \in Nat /\ parent(a) < a
    BY ParentProps, <1>3
  <2>2. d[parent(a)] <= d[a] /\ d[a] <= d[i]
    BY <1>3, <2>1 DEF HeapOrder
  <2>3. e[parent(a)] = d[parent(a)] /\ e[i] = d[i]
    BY <1>3, <2>1
  <2>4. d[parent(a)] \in Nat /\ d[a] \in Nat /\ d[i] \in Nat
    BY <1>3, <2>1
  <2> QED  BY <2>2, <2>3, <2>4
<1>4. DownOrder(n - 1, e, a, a, -1)
  BY <1>1, <1>3 DEF DownOrder
<1> QED  BY <1>2, <1>4

\* No node behind the last parent has a child.
LEMMA HeapifyOrder ==
  ASSUME NEW n \in Nat, NEW d
  PROVE  /\ n \div 2 - 1 < 0 => HeapOrder(n, d)
         /\ DownOrder(n, d, n \div 2 - 1, n \div 2 - 1, n \div 2 - 1)
<1> DEFINE q == n \div 2
<1>1. q \in Nat /\ n < 2 * q + 2
  OBVIOUS
<1>2. \A i \in 1..(n - 1) : parent(i) \in Nat /\ i >= 2 * parent(i) + 1
  BY ParentProps
<1> HIDE DEF q
<1>3. \A i \in 1..(n - 1) : parent(i) <= q - 1
  BY <1>1, <1>2
<1>4. q - 1 < 0 => HeapOrder(n, d)
  BY <1>1, <1>2, <1>3 DEF HeapOrder
<1>5. DownOrder(n, d, q - 1, q - 1, q - 1)
  BY <1>1, <1>2, <1>3 DEF DownOrder
<1> QED  BY <1>4, <1>5 DEF q

LEMMA PushEffect ==
  ASSUME TypeOK, \A k \in Slots : idx[At(k)] = k, NEW e \in Entries, NEW t \in Deadlines, e \notin Queued, push(e, t)
  PROVE  /\ nodes' \in Seq(Entries) /\ Len0' = Len0 + 1 /\ Slots' = 0..Len0
         /\ deadline' \in [Entries -> Deadlines] /\ idx' \in [Entries -> Nat]
         /\ \A k \in Slots : Dues'[k] = Dues[k]
         /\ Queued' = Queued \union {e}
         /\ deadline'[e] = t /\ \A x \in Queued : deadline'[x] = deadline[x]
         /\ \A k \in 0..Len0 : idx'[nodes'[k + 1]] = k
<1>1. /\ nodes' = Append(nodes, e) /\ deadline' = [deadline EXCEPT ![e] = t]
      /\ idx' = [idx EXCEPT ![e] = Len0] /\ nodes \in Seq(Entries) /\ Len0 \in Nat
      /\ deadline \in [Entries -> Deadlines] /\ idx \in [Entries -> Nat]
      /\ DOMAIN nodes = 1..Len0
  BY SlotProps, LenProperties DEF push, TypeOK, Len0
<1>2. /\ nodes' \in Seq(Entries) /\ Len(nodes') = Len0 + 1
      /\ \A m \in 1..Len0 : nodes'[m] = nodes[m]
      /\ nodes'[Len0 + 1] = e
  BY <1>1, AppendProperties DEF Len0
<1>3. Len0' = Len0 + 1 /\ Slots' = 0..Len0
  BY <1>1, <1>2 DEF Len0, Slots
<1>4. \A k \in Slots : nodes'[k + 1] = At(k) /\ k \in 0..Len0
  BY <1>1, <1>2 DEF Slots, At
<1>5. deadline'[e] = t /\ \A x \in Queued : deadline'[x] = deadline[x]
  BY <1>1, SlotProps
<1>6. \A k \in Slots : Dues'[k] = Dues[k]
  <2>1. \A k \in Slots' : Dues'[k] = deadline'[nodes'[k + 1]]
    BY DEF Dues, Due, At
  <2>2. \A k \in Slots : Dues[k] = deadline[At(k)] /\ At(k) \in Queued
    BY SlotProps DEF Due
  <2> QED  BY <2>1, <2>2, <1>3, <1>4, <1>5
<1>7. Queued' = Queued \union {e}
  <2>1. DOMAIN nodes' = 1..(Len0 + 1)
    BY <1>2, LenProperties
  <2>2. Queued' = {nodes'[m] : m \in 1..(Len0 + 1)} /\ Queued = {nodes[m] : m \in 1..Len0}
    BY <1>1, <2>1 DEF Queued, ToSet
  <2> QED  BY <2>2, <1>1, <1>2
<1>8. ASSUME NEW k \in 0..Len0
      PROVE  idx'[nodes'[k + 1]] = k
  <2>1. CASE k = Len0
    BY <2>1, <1>1, <1>2
  <2>2. CASE k # Len0
    <3>1. k \in Slots
      BY <2>2, <1>1 DEF Slots
    <3>2. At(k) # e /\ At(k) \in Entries /\ idx[At(k)] = k
      BY <3>1, SlotProps
    <3> QED  BY <3>1, <3>2, <1>1, <1>4
  <2> QED  BY <2>1, <2>2
<1>9. deadline' \in [Entries -> Deadlines] /\ idx' \in [Entries -> Nat]
  BY <1>1
<1> QED  BY <1>2, <1>3, <1>5, <1>6, <1>7, <1>8, <1>9

\* The entry is taken from the position it recorded, where the last node takes its place.
LEMMA TakeEffect ==
  ASSUME TypeOK, \A k \in Slots : idx[At(k)] = k, NEW e \in Queued, take(e)
  PROVE  /\ idx[e] \in Slots /\ At(idx[e]) = e
         /\ nodes' \in Seq(Entries) /\ Len0' = Len0 - 1 /\ Slots' = 0..(Len0 - 2)
         /\ deadline' \in [Entries -> Deadlines] /\ idx' \in [Entries -> Nat]
         /\ \A k \in 0..(Len0 - 2) : k # idx[e] => Dues'[k] = Dues[k]
         /\ Queued' = Queued \ {e}
         /\ \A x \in Queued' : deadline'[x] = deadline[x]
         /\ \A k \in 0..(Len0 - 2) : idx'[nodes'[k + 1]] = k
<1>1. e \in Entries /\ idx[e] \in Slots /\ At(idx[e]) = e
  BY SlotProps
<1> DEFINE i == idx[e]
           last == Len0 - 1
           z == At(last)
           one == [nodes EXCEPT ![i + 1] = z]
<1>2. /\ nodes \in Seq(Entries) /\ Len0 \in Nat /\ DOMAIN nodes = 1..Len0 /\ last \in Slots
      /\ i \in Nat /\ last \in Nat /\ i + 1 \in 1..Len0 /\ z \in Entries /\ At(i) = e /\ i \in Slots
  BY <1>1, SlotProps, LenProperties DEF TypeOK, Len0, Slots
<1>3. nodes' = SubSeq(one, 1, last) /\ idx' = [idx EXCEPT ![z] = i, ![e] = 0] /\ Forgotten({e})
  BY DEF take, fill
<1> HIDE DEF i, z, last
<1>4. one \in Seq(Entries) /\ Len(one) = Len0
  BY <1>2, ExceptSeq DEF Len0
<1>5. \A m \in 1..Len0 : one[m] = IF m = i + 1 THEN z ELSE nodes[m]
  BY <1>2
<1> HIDE DEF one
<1>6. /\ nodes' \in Seq(Entries) /\ Len(nodes') = last
      /\ \A m \in 1..last : nodes'[m] = one[m]
  BY <1>2, <1>3, <1>4, SubSeqProperties DEF last
<1>7. Len0' = last /\ Slots' = 0..(Len0 - 2)
  BY <1>2, <1>6 DEF Len0, Slots, last
<1>8. \A k \in 0..(Len0 - 2) : k \in Slots /\ k # last /\ nodes'[k + 1] = IF k = i THEN z ELSE At(k)
  BY <1>2, <1>5, <1>6 DEF last, Slots, At
<1>9. deadline' \in [Entries -> Deadlines] /\ \A x \in Entries : x # e => deadline'[x] = deadline[x]
  BY <1>3, DeadlinesAreNat DEF Forgotten, TypeOK
<1>10. \A k \in 0..(Len0 - 2) : nodes'[k + 1] # e /\ nodes'[k + 1] \in Entries
  <2> SUFFICES ASSUME NEW k \in 0..(Len0 - 2)
               PROVE  nodes'[k + 1] # e /\ nodes'[k + 1] \in Entries
    OBVIOUS
  <2>1. CASE k = i
    <3>1. i # last /\ idx[z] = last
      BY <2>1, <1>2, <1>8 DEF z
    <3> QED  BY <3>1, <2>1, <1>2, <1>8 DEF i
  <2>2. CASE k # i
    <3>1. At(k) \in Entries /\ idx[At(k)] = k
      BY <1>8, SlotProps
    <3> QED  BY <3>1, <2>2, <1>8 DEF i
  <2> QED  BY <2>1, <2>2
<1>11. \A k \in 0..(Len0 - 2) : k # i => Dues'[k] = Dues[k]
  <2>1. \A k \in Slots' : Dues'[k] = deadline'[nodes'[k + 1]]
    BY DEF Dues, Due, At
  <2>2. \A k \in Slots : Dues[k] = deadline[At(k)]
    BY SlotProps DEF Due
  <2> QED  BY <2>1, <2>2, <1>7, <1>8, <1>9, <1>10
<1>12. Queued' = Queued \ {e}
  <2>1. DOMAIN nodes' = 1..last
    BY <1>6, LenProperties
  <2>2. Queued' = {nodes'[m] : m \in 1..last}
    BY <2>1 DEF Queued, ToSet
  <2>3. ASSUME NEW x \in Queued' PROVE x \in Queued \ {e}
    <3>1. PICK m \in 1..last : x = nodes'[m]
      BY <2>2
    <3>2. m - 1 \in 0..(Len0 - 2) /\ x = nodes'[(m - 1) + 1]
      BY <3>1, <1>2 DEF last
    <3>3. x # e /\ (x = z \/ x = At(m - 1)) /\ m - 1 \in Slots
      BY <3>2, <1>8, <1>10
    <3> QED  BY <3>3, <1>2, SlotProps DEF z
  <2>4. ASSUME NEW x \in Queued, x # e PROVE x \in Queued'
    <3>1. PICK k \in Slots : At(k) = x
      BY SlotProps
    <3>2. k # i /\ k \in Int
      BY <3>1, <2>4, <1>2 DEF Slots
    <3>3. CASE k # last
      <4>1. k \in 0..(Len0 - 2) /\ k + 1 \in 1..last
        BY <3>3, <1>2, <3>2 DEF last, Slots
      <4>2. nodes'[k + 1] = x
        BY <4>1, <3>1, <3>2, <1>8
      <4> QED  BY <4>1, <4>2, <2>2
    <3>4. CASE k = last
      <4>1. i \in 0..(Len0 - 2) /\ i + 1 \in 1..last /\ x = z
        BY <3>1, <3>2, <3>4, <1>2 DEF last, Slots, z
      <4>2. nodes'[i + 1] = x
        BY <4>1, <1>8
      <4> QED  BY <4>1, <4>2, <2>2
    <3> QED  BY <3>3, <3>4
  <2> QED  BY <2>3, <2>4
<1>13. \A x \in Queued' : deadline'[x] = deadline[x]
  BY <1>9, <1>12, SlotProps
<1>14. idx' \in [Entries -> Nat] /\ idx'[e] = 0 /\ (z # e => idx'[z] = i) /\ \A x \in Entries : x # e /\ x # z => idx'[x] = idx[x]
  BY <1>1, <1>2, <1>3 DEF TypeOK
<1>15. ASSUME NEW k \in 0..(Len0 - 2) PROVE idx'[nodes'[k + 1]] = k
  <2>1. CASE k = i
    BY <2>1, <1>8, <1>10, <1>14
  <2>2. CASE k # i
    <3>1. At(k) \in Entries /\ idx[At(k)] = k /\ At(k) # e
      BY <2>2, <1>8, <1>10, SlotProps
    <3>2. At(k) # z
      BY <3>1, <1>2, <1>8 DEF z
    <3> QED  BY <3>1, <3>2, <2>2, <1>8, <1>14
  <2> QED  BY <2>1, <2>2
<1> QED  BY <1>1, <1>6, <1>7, <1>9, <1>11, <1>12, <1>13, <1>14, <1>15 DEF i, last

LEMMA PushInv ==
  ASSUME QueueInv, NEW e \in Entries, NEW t \in Deadlines, push(e, t)
  PROVE  QueueInv'
<1>1. /\ TypeOK /\ pc = "idle" /\ e \notin Queued /\ heapifying' = heapifying /\ now = -1
      /\ pc' = "up" /\ at' = Len0 /\ start' = Len0 /\ now' = now /\ budget' = budget /\ Len0 \in Nat
      /\ \A k \in Slots : idx[At(k)] = k
  BY SlotProps DEF QueueInv, push, Enter, IndexIsPosition, Slots, ControlInv
<1>2. /\ nodes' \in Seq(Entries) /\ Len0' = Len0 + 1 /\ Slots' = 0..Len0
      /\ deadline' \in [Entries -> Deadlines] /\ idx' \in [Entries -> Nat]
      /\ \A k \in Slots : Dues'[k] = Dues[k]
      /\ \A k \in 0..Len0 : idx'[nodes'[k + 1]] = k
  BY <1>1, PushEffect
<1>3. TypeOK'
  BY <1>1, <1>2 DEF TypeOK
<1>4. \A k \in Slots' : idx'[At(k)'] = k
  BY <1>2 DEF At
<1>5. heapifying' = FALSE
  BY <1>1 DEF QueueInv, ControlInv, TypeOK
<1>6. ControlInv'
  BY <1>1, <1>5 DEF ControlInv
<1>7. UpOrder(Len0 + 1, Dues', Len0)
  <2> DEFINE d == Dues
             f == Dues'
             n == Len0
  <2>1. n \in Nat /\ HeapOrder(n, d) /\ \A k \in 0..(n - 1) : f[k] = d[k]
    BY <1>1, <1>2 DEF QueueInv, OrderInv, Slots
  <2> HIDE DEF d, f, n
  <2>2. UpOrder(n + 1, f, n)
    BY <2>1, AppendOrder
  <2> QED  BY <2>2 DEF d, f, n
<1>8. OrderInv'
  BY <1>1, <1>2, <1>7 DEF OrderInv, UpOrder
<1> QED  BY <1>3, <1>4, <1>6, <1>8 DEF QueueInv, NoDuplicates, IndexIsPosition, Slots

\* The order of the queue when an entry has been taken.
LEMMA TakeOrder ==
  ASSUME QueueInv, pc \in {"idle", "purge"}, NEW e \in Queued, take(e)
  PROVE  /\ idx[e] = Len0 - 1 => HeapOrder(Len0', Dues')
         /\ idx[e] # Len0 - 1 => DownOrder(Len0', Dues', idx[e], idx[e], -1)
<1>1. TypeOK /\ (\A k \in Slots : idx[At(k)] = k) /\ HeapOrder(Len0, Dues)
  BY DEF QueueInv, IndexIsPosition, Slots, OrderInv
<1>2. /\ idx[e] \in Slots /\ Len0' = Len0 - 1
      /\ \A k \in 0..(Len0 - 2) : k # idx[e] => Dues'[k] = Dues[k]
  BY <1>1, TakeEffect
<1> DEFINE d == Dues
           f == Dues'
           n == Len0
           a == idx[e]
<1>3. /\ n \in Nat \ {0} /\ a \in 0..(n - 1) /\ (\A k \in 0..(n - 1) : d[k] \in Nat) /\ HeapOrder(n, d)
      /\ \A k \in 0..(n - 2) : k # a => f[k] = d[k]
  BY <1>1, <1>2, SlotProps DEF Slots
<1> HIDE DEF d, f, n, a
<1>4. /\ a = n - 1 => HeapOrder(n - 1, f)
      /\ a # n - 1 => DownOrder(n - 1, f, a, a, -1)
  BY <1>3, FillOrder
<1> QED  BY <1>2, <1>4 DEF d, f, n, a

LEMMA RemoveInv ==
  ASSUME QueueInv, NEW e \in Entries, remove(e)
  PROVE  QueueInv'
<1>1. /\ TypeOK /\ pc = "idle" /\ e \in Queued /\ take(e) /\ heapifying' = heapifying /\ now = -1
      /\ heapifying = FALSE /\ Len0 \in Nat /\ at = 0 /\ start = 0
      /\ \A k \in Slots : idx[At(k)] = k
  BY SlotProps DEF QueueInv, remove, take, IndexIsPosition, Slots, ControlInv, TypeOK
<1>2. /\ idx[e] \in Slots
      /\ nodes' \in Seq(Entries) /\ Len0' = Len0 - 1 /\ Slots' = 0..(Len0 - 2)
      /\ deadline' \in [Entries -> Deadlines] /\ idx' \in [Entries -> Nat]
      /\ \A k \in 0..(Len0 - 2) : idx'[nodes'[k + 1]] = k
  BY <1>1, TakeEffect
<1>3. /\ idx[e] = Len0 - 1 => HeapOrder(Len0', Dues')
      /\ idx[e] # Len0 - 1 => DownOrder(Len0', Dues', idx[e], idx[e], -1)
  BY <1>1, TakeOrder
<1>4. \A k \in Slots' : idx'[At(k)'] = k
  BY <1>2 DEF At
<1>5. now \in Deadlines \union {-1} /\ budget \in Nat
  BY <1>1 DEF TypeOK
<1>6. CASE idx[e] = Len0 - 1
  <2>1. pc' = "idle" /\ at' = 0 /\ start' = 0 /\ now' = now /\ budget' = budget
    BY <1>1, <1>6 DEF remove, Return
  <2>2. TypeOK'
    BY <2>1, <1>1, <1>2, <1>5 DEF TypeOK
  <2>3. ControlInv'
    BY <2>1, <1>1 DEF ControlInv
  <2>4. OrderInv'
    BY <2>1, <1>3, <1>6 DEF OrderInv, HeapOrder
  <2> QED  BY <2>2, <2>3, <2>4, <1>4 DEF QueueInv, NoDuplicates, IndexIsPosition, Slots
<1>7. CASE idx[e] # Len0 - 1
  <2>1. pc' = "down" /\ at' = idx[e] /\ start' = idx[e] /\ now' = now /\ budget' = budget
    BY <1>1, <1>7 DEF remove, Enter
  <2>2. idx[e] \in Nat /\ idx[e] < Len0 - 1
    BY <1>1, <1>2, <1>7 DEF Slots
  <2>3. TypeOK'
    BY <2>1, <2>2, <1>1, <1>2, <1>5 DEF TypeOK
  <2>4. ControlInv'
    BY <2>1, <2>2, <1>1 DEF ControlInv
  <2>5. Built' = -1
    BY <1>1 DEF Built
  <2>6. OrderInv'
    BY <2>1, <2>5, <1>3, <1>7 DEF OrderInv, DownOrder
  <2> QED  BY <2>3, <2>4, <2>6, <1>4 DEF QueueInv, NoDuplicates, IndexIsPosition, Slots
<1> QED  BY <1>6, <1>7

LEMMA PurgeHeadInv == QueueInv /\ purgeHead => QueueInv'
<1> SUFFICES ASSUME QueueInv, purgeHead PROVE QueueInv'
  OBVIOUS
<1> DEFINE e == At(0)
<1>1. /\ TypeOK /\ pc = "purge" /\ take(e) /\ heapifying' = heapifying /\ now # -1 /\ now' = now
      /\ heapifying = FALSE /\ at = 0 /\ start = 0 /\ at' = at /\ start' = start
      /\ budget \in Nat /\ budget > 0 /\ budget' = budget - 1
      /\ pc' = IF Len0 = 1 THEN "purge" ELSE "down"
      /\ \A k \in Slots : idx[At(k)] = k
  BY DEF QueueInv, purgeHead, take, IndexIsPosition, Slots, ControlInv, TypeOK
<1>2. Len0 \in Nat /\ Len0 # 0 /\ 0 \in Slots /\ e \in Queued /\ idx[e] = 0
  <2>1. Len0 \in Nat /\ Len0 # 0
    BY <1>1, SlotProps, EmptySeq DEF purgeHead, headExpired, TypeOK, Len0
  <2>2. 0 \in Slots
    BY <2>1 DEF Slots
  <2> QED  BY <2>1, <2>2, <1>1, SlotProps
<1>3. /\ nodes' \in Seq(Entries) /\ Len0' = Len0 - 1 /\ Slots' = 0..(Len0 - 2)
      /\ deadline' \in [Entries -> Deadlines] /\ idx' \in [Entries -> Nat]
      /\ \A k \in 0..(Len0 - 2) : idx'[nodes'[k + 1]] = k
  BY <1>1, <1>2, TakeEffect
<1>4. /\ 0 = Len0 - 1 => HeapOrder(Len0', Dues')
      /\ 0 # Len0 - 1 => DownOrder(Len0', Dues', 0, 0, -1)
  BY <1>1, <1>2, TakeOrder
<1>5. \A k \in Slots' : idx'[At(k)'] = k
  BY <1>3 DEF At
<1>6. now \in Deadlines \union {-1}
  BY <1>1 DEF TypeOK
<1>7. TypeOK'
  BY <1>1, <1>2, <1>3, <1>6 DEF TypeOK
<1>8. ControlInv'
  BY <1>1 DEF ControlInv
<1>9. Built' = -1
  BY <1>1 DEF Built
<1>10. OrderInv'
  <2>1. CASE Len0 = 1
    BY <2>1, <1>1, <1>2, <1>4 DEF OrderInv, HeapOrder
  <2>2. CASE Len0 # 1
    BY <2>2, <1>1, <1>2, <1>4, <1>9 DEF OrderInv, DownOrder
  <2> QED  BY <2>1, <2>2
<1> QED  BY <1>5, <1>7, <1>8, <1>10 DEF QueueInv, NoDuplicates, IndexIsPosition, Slots

LEMMA DrainInv == QueueInv /\ drain => QueueInv'
<1> SUFFICES ASSUME QueueInv, drain PROVE QueueInv'
  OBVIOUS
<1>1. /\ TypeOK /\ pc = "idle" /\ nodes' = <<>> /\ idx' = [x \in Entries |-> 0] /\ Forgotten(Queued)
      /\ UNCHANGED <<pc, at, start, heapifying, now, budget>>
  BY DEF QueueInv, drain
<1>2. Len0' = 0 /\ nodes' \in Seq(Entries)
  BY <1>1, EmptySeq DEF Len0
<1>3. Slots' = {}
  BY <1>2 DEF Slots
<1>4. deadline' \in [Entries -> Deadlines]
  BY <1>1, DeadlinesAreNat DEF Forgotten, TypeOK
<1>5. heapifying = FALSE
  BY <1>1 DEF QueueInv, ControlInv, TypeOK
<1>6. TypeOK'
  BY <1>1, <1>2, <1>4 DEF TypeOK
<1>7. ControlInv'
  BY <1>1, <1>5 DEF QueueInv, ControlInv
<1>8. OrderInv'
  BY <1>1, <1>2 DEF OrderInv, HeapOrder
<1> QED  BY <1>3, <1>6, <1>7, <1>8 DEF QueueInv, NoDuplicates, IndexIsPosition, Slots

\* The steps of a purge that leave the queue as it is.
LEMMA PurgeControlInv ==
  ASSUME QueueInv,
         \/ \E t \in Deadlines : PurgeExpired(t)
         \/ purgeDone \/ partition \/ partitionKeeps
  PROVE  QueueInv'
<1>1. nodes' = nodes /\ deadline' = deadline /\ idx' = idx /\ heapifying' = heapifying /\ TypeOK
  BY DEF QueueInv, PurgeExpired, purgeDone, partition, partitionKeeps
<1>2. /\ Len0' = Len0 /\ Slots' = Slots /\ Dues' = Dues /\ Queued' = Queued
      /\ (\A k : At(k)' = At(k)) /\ NoDuplicates' = NoDuplicates
  BY <1>1, SameNodes
<1>3. Len0 \in Nat /\ NoDuplicates'
  BY <1>1, <1>2, SlotProps DEF QueueInv
<1>4. heapifying = FALSE /\ pc \in {"idle", "purge", "partition"}
  BY <1>1 DEF QueueInv, ControlInv, TypeOK, PurgeExpired, purgeDone, partition, partitionKeeps
<1>5. -1 \notin Deadlines
  BY DeadlinesAssumption
<1>6. ASSUME NEW t \in Deadlines, PurgeExpired(t) PROVE QueueInv'
  <2>1. /\ pc = "idle" /\ pc' = "purge" /\ now' = t /\ at' = at /\ start' = start /\ at = 0 /\ start = 0
        /\ budget' = Len0 \div BulkPurgeRatio + 1
    BY <1>6 DEF PurgeExpired, QueueInv, ControlInv
  <2>2. budget' \in Nat
    BY <2>1, <1>3, RatioAssumption
  <2>3. TypeOK'
    BY <2>1, <2>2, <1>1, <1>2 DEF TypeOK
  <2>4. IndexIsPosition'
    BY <2>1, <1>1, <1>2 DEF QueueInv, IndexIsPosition
  <2>5. ControlInv'
    BY <2>1, <1>1, <1>4, <1>5, t # -1 DEF ControlInv
  <2>6. OrderInv'
    BY <2>1, <1>2 DEF QueueInv, OrderInv, HeapOrder
  <2> QED  BY <2>3, <2>4, <2>5, <2>6, <1>3 DEF QueueInv
<1>7. ASSUME purgeDone PROVE QueueInv'
  <2>1. pc = "purge" /\ pc' = "idle" /\ now' = -1 /\ at' = 0 /\ start' = 0 /\ budget' = 0
    BY <1>7 DEF purgeDone, PurgeReturns
  <2>2. TypeOK'
    BY <2>1, <1>1, <1>2 DEF TypeOK
  <2>3. IndexIsPosition'
    BY <2>1, <1>1, <1>2 DEF QueueInv, IndexIsPosition
  <2>4. ControlInv'
    BY <2>1, <1>1, <1>4 DEF ControlInv
  <2>5. OrderInv'
    BY <2>1, <1>2 DEF QueueInv, OrderInv, HeapOrder
  <2> QED  BY <2>2, <2>3, <2>4, <2>5, <1>3 DEF QueueInv
<1>8. ASSUME partition PROVE QueueInv'
  <2>1. /\ pc = "purge" /\ pc' = "partition" /\ now' = now /\ at' = at /\ start' = start /\ budget' = budget
        /\ at = 0 /\ now # -1
    BY <1>8 DEF partition, QueueInv, ControlInv
  <2>2. TypeOK'
    BY <2>1, <1>1, <1>2 DEF TypeOK
  <2>3. \A k \in Slots' : ~(k < at')
    BY <2>1, <1>2, <1>3 DEF Slots
  <2>4. ControlInv'
    BY <2>1, <2>3, <1>1, <1>2, <1>3, <1>4 DEF ControlInv
  <2> QED  BY <2>1, <2>2, <2>4, <1>3 DEF QueueInv, OrderInv, IndexIsPosition
<1>9. ASSUME partitionKeeps PROVE QueueInv'
  <2>1. /\ pc = "partition" /\ pc' = "partition" /\ now' = now /\ at' = at + 1 /\ start' = start /\ budget' = budget
        /\ at \in Nat /\ at < Len0 /\ now # -1 /\ ~(deadline[At(at)] <= now)
        /\ \A k \in Slots : k < at => ~(deadline[At(k)] <= now)
    BY <1>9, <1>1 DEF partitionKeeps, QueueInv, ControlInv, TypeOK, expired
  <2>2. TypeOK'
    BY <2>1, <1>1, <1>2 DEF TypeOK
  <2>3. \A k \in Slots' : k < at' => ~(deadline'[At(k)'] <= now')
    <3> SUFFICES ASSUME NEW k \in Slots, k < at + 1
                 PROVE  ~(deadline[At(k)] <= now)
      BY <2>1, <1>1, <1>2
    <3>1. k < at \/ k = at
      BY <2>1, <1>3 DEF Slots
    <3> QED  BY <3>1, <2>1
  <2>4. ControlInv'
    BY <2>1, <2>3, <1>1, <1>2, <1>3, <1>4 DEF ControlInv, expired
  <2> QED  BY <2>1, <2>2, <2>4, <1>3 DEF QueueInv, OrderInv, IndexIsPosition
<1> QED  BY <1>6, <1>7, <1>8, <1>9

\* The slice without the node at its position.
LEMMA DropEffect ==
  ASSUME TypeOK, NoDuplicates, NEW a \in Slots, nodes' = RemoveAt(nodes, a + 1)
  PROVE  /\ nodes' \in Seq(Entries) /\ Len0' = Len0 - 1 /\ Slots' = 0..(Len0 - 2)
         /\ \A k \in 0..(Len0 - 2) : k \in Slots /\ k + 1 \in Slots /\ nodes'[k + 1] = IF k < a THEN At(k) ELSE At(k + 1)
         /\ Queued' = Queued \ {At(a)}
<1>1. nodes \in Seq(Entries) /\ Len0 \in Nat /\ DOMAIN nodes = 1..Len0 /\ a \in Nat /\ a < Len0
  BY SlotProps, LenProperties DEF TypeOK, Len0, Slots
<1> DEFINE l == SubSeq(nodes, 1, a)
           r == SubSeq(nodes, a + 2, Len0)
<1>2. l \in Seq(Entries) /\ Len(l) = a /\ \A m \in 1..a : l[m] = nodes[m]
  BY <1>1, SubSeqProperties DEF Len0
<1>3. r \in Seq(Entries) /\ Len(r) = Len0 - a - 1 /\ \A m \in 1..(Len0 - a - 1) : r[m] = nodes[a + 1 + m]
  <2>1. \A i \in (a + 2)..Len0 : nodes[i] \in Entries
    BY <1>1, ElementOfSeq DEF Len0
  <2>2. /\ r \in Seq(Entries) /\ Len(r) = IF a + 2 <= Len0 THEN Len0 - (a + 2) + 1 ELSE 0
        /\ \A m \in 1..(Len0 - (a + 2) + 1) : r[m] = nodes[(a + 2) + m - 1]
    BY <1>1, <2>1, SubSeqProperties, a + 2 \in Int, Len0 \in Int
  <2> HIDE DEF r
  <2>3. Len(r) = Len0 - a - 1
    BY <1>1, <2>2
  <2>4. ASSUME NEW m \in 1..(Len0 - a - 1)
        PROVE  r[m] = nodes[a + 1 + m]
    <3>1. m \in 1..(Len0 - (a + 2) + 1) /\ (a + 2) + m - 1 = a + 1 + m
      BY <1>1
    <3> QED  BY <3>1, <2>2
  <2> QED  BY <2>2, <2>3, <2>4
<1>4. nodes' = l \o r
  <2>1. (a + 1) - 1 = a /\ (a + 1) + 1 = a + 2
    BY <1>1
  <2>2. nodes' = SubSeq(nodes, 1, (a + 1) - 1) \o SubSeq(nodes, (a + 1) + 1, Len(nodes))
    BY DEF RemoveAt
  <2> QED  BY <2>1, <2>2 DEF Len0
<1> HIDE DEF l, r
<1>5. /\ nodes' \in Seq(Entries) /\ Len(nodes') = Len0 - 1
      /\ \A m \in 1..(Len0 - 1) : nodes'[m] = IF m <= a THEN l[m] ELSE r[m - a]
  <2>1. /\ l \o r \in Seq(Entries) /\ Len(l \o r) = Len(l) + Len(r)
        /\ \A m \in 1..(Len(l) + Len(r)) : (l \o r)[m] = IF m <= Len(l) THEN l[m] ELSE r[m - Len(l)]
    BY <1>2, <1>3, ConcatProperties
  <2>2. Len(l) = a /\ Len(l) + Len(r) = Len0 - 1
    BY <1>1, <1>2, <1>3
  <2> QED  BY <2>1, <2>2, <1>4
<1>6. Len0' = Len0 - 1 /\ Slots' = 0..(Len0 - 2)
  <2>1. Len0' = Len0 - 1
    BY <1>5 DEF Len0
  <2>2. (Len0 - 1) - 1 = Len0 - 2
    BY <1>1
  <2> QED  BY <2>1, <2>2 DEF Slots
<1>7. ASSUME NEW k \in 0..(Len0 - 2)
      PROVE  k \in Slots /\ k + 1 \in Slots /\ nodes'[k + 1] = IF k < a THEN At(k) ELSE At(k + 1)
  <2>1. k \in Slots /\ k + 1 \in Slots /\ k + 1 \in 1..(Len0 - 1)
    BY <1>1 DEF Slots
  <2>2. CASE k < a
    <3>1. k + 1 \in 1..a
      BY <2>2, <1>1
    <3> QED  BY <3>1, <2>1, <2>2, <1>2, <1>5 DEF At
  <2>3. CASE ~(k < a)
    <3>1. k + 1 - a \in 1..(Len0 - a - 1) /\ ~(k + 1 <= a) /\ a + 1 + (k + 1 - a) = k + 1 + 1
      BY <2>3, <1>1
    <3> QED  BY <3>1, <2>1, <2>3, <1>3, <1>5 DEF At
  <2> QED  BY <2>1, <2>2, <2>3
<1>8. Queued' = Queued \ {At(a)}
  <2>1. DOMAIN nodes' = 1..(Len0 - 1)
    BY <1>1, <1>5, LenProperties
  <2>2. Queued' = {nodes'[m] : m \in 1..(Len0 - 1)}
    BY <2>1 DEF Queued, ToSet
  <2>3. ASSUME NEW x \in Queued' PROVE x \in Queued \ {At(a)}
    <3>1. PICK m \in 1..(Len0 - 1) : x = nodes'[m]
      BY <2>2
    <3>2. m - 1 \in 0..(Len0 - 2) /\ x = nodes'[(m - 1) + 1]
      BY <3>1, <1>1
    <3>3. PICK k \in Slots : x = At(k) /\ k # a
      <4>1. CASE m - 1 < a
        <5>1. m - 1 \in Slots /\ x = At(m - 1) /\ m - 1 # a
          BY <4>1, <3>2, <1>1, <1>7
        <5> QED  BY <5>1
      <4>2. CASE ~(m - 1 < a)
        <5>1. m \in Slots /\ x = At(m) /\ m # a
          <6>1. (m - 1) + 1 = m /\ m # a
            BY <4>2, <3>1, <1>1
          <6> QED  BY <6>1, <4>2, <3>2, <1>7
        <5> QED  BY <5>1
      <4> QED  BY <4>1, <4>2
    <3> QED  BY <3>3, SlotProps DEF NoDuplicates
  <2>4. ASSUME NEW x \in Queued, x # At(a) PROVE x \in Queued'
    <3>1. PICK k \in Slots : At(k) = x
      BY SlotProps
    <3>2. k # a /\ k \in Nat /\ k < Len0
      BY <3>1, <2>4, <1>1 DEF Slots
    <3>3. CASE k < a
      <4>1. k \in 0..(Len0 - 2) /\ k + 1 \in 1..(Len0 - 1)
        BY <3>2, <3>3, <1>1
      <4> QED  BY <4>1, <3>1, <3>3, <1>7, <2>2
    <3>4. CASE k > a
      <4>1. k - 1 \in 0..(Len0 - 2) /\ k \in 1..(Len0 - 1) /\ (k - 1) + 1 = k /\ ~(k - 1 < a)
        BY <3>2, <3>4, <1>1
      <4>2. nodes'[k] = x
        BY <4>1, <3>1, <1>7
      <4> QED  BY <4>1, <4>2, <2>2
    <3> QED  BY <3>2, <3>3, <3>4, <1>1
  <2> QED  BY <2>3, <2>4
<1> QED  BY <1>5, <1>6, <1>7, <1>8

LEMMA PartitionRemovesInv == QueueInv /\ partitionRemoves => QueueInv'
<1> SUFFICES ASSUME QueueInv, partitionRemoves PROVE QueueInv'
  OBVIOUS
<1>1. /\ TypeOK /\ NoDuplicates /\ pc = "partition" /\ at \in Nat /\ at < Len0 /\ now # -1 /\ heapifying = FALSE
      /\ nodes' = RemoveAt(nodes, at + 1) /\ idx' = [idx EXCEPT ![At(at)] = 0] /\ Forgotten({At(at)})
      /\ UNCHANGED <<pc, at, start, heapifying, now, budget>>
      /\ \A k \in Slots : k < at => ~(deadline[At(k)] <= now)
  BY DEF QueueInv, partitionRemoves, ControlInv, TypeOK, expired
<1>2. Len0 \in Nat /\ at \in Slots
  BY <1>1, SlotProps DEF Slots
<1>3. /\ nodes' \in Seq(Entries) /\ Len0' = Len0 - 1 /\ Slots' = 0..(Len0 - 2)
      /\ \A k \in 0..(Len0 - 2) : k \in Slots /\ k + 1 \in Slots /\ nodes'[k + 1] = IF k < at THEN At(k) ELSE At(k + 1)
  BY <1>1, <1>2, DropEffect
<1>4. /\ deadline' \in [Entries -> Deadlines] /\ idx' \in [Entries -> Nat]
      /\ \A x \in Entries : x # At(at) => deadline'[x] = deadline[x]
  BY <1>1, DeadlinesAreNat DEF Forgotten, TypeOK
<1>5. TypeOK'
  BY <1>1, <1>3, <1>4 DEF TypeOK
<1>6. NoDuplicates'
  <2> SUFFICES ASSUME NEW i \in 0..(Len0 - 2), NEW j \in 0..(Len0 - 2), nodes'[i + 1] = nodes'[j + 1]
               PROVE  i = j
    BY <1>3 DEF NoDuplicates, At
  <2>1. PICK u \in Slots : nodes'[i + 1] = At(u) /\ u = IF i < at THEN i ELSE i + 1
    BY <1>3
  <2>2. PICK v \in Slots : nodes'[j + 1] = At(v) /\ v = IF j < at THEN j ELSE j + 1
    BY <1>3
  <2>3. u = v
    BY <2>1, <2>2, <1>1 DEF NoDuplicates
  <2> QED  BY <2>1, <2>2, <2>3, <1>1
<1>7. \A k \in Slots' : k < at' => ~(deadline'[nodes'[k + 1]] <= now')
  <2> SUFFICES ASSUME NEW k \in 0..(Len0 - 2), k < at
               PROVE  ~(deadline'[nodes'[k + 1]] <= now)
    BY <1>1, <1>3
  <2>1. nodes'[k + 1] = At(k) /\ k \in Slots
    BY <1>3
  <2>2. At(k) # At(at) /\ At(k) \in Entries
    BY <2>1, <1>1, <1>2, SlotProps DEF NoDuplicates
  <2> QED  BY <2>1, <2>2, <1>1, <1>4
<1>8. at' <= Len0'
  BY <1>1, <1>2, <1>3
<1>9. ControlInv'
  BY <1>1, <1>7, <1>8 DEF ControlInv, expired, At
<1> QED  BY <1>1, <1>5, <1>6, <1>9 DEF QueueInv, OrderInv, IndexIsPosition

LEMMA HeapifyInv == QueueInv /\ heapify => QueueInv'
<1> SUFFICES ASSUME QueueInv, heapify PROVE QueueInv'
  OBVIOUS
<1>1. /\ TypeOK /\ NoDuplicates /\ pc = "partition" /\ at = Len0 /\ now # -1
      /\ nodes' = nodes /\ deadline' = deadline
      /\ idx' = [e \in Entries |-> IF e \in Queued THEN Position(e) ELSE 0]
      /\ heapifying' = (lastParent >= 0)
      /\ \A k \in Slots : k < at => ~(deadline[At(k)] <= now)
  BY DEF QueueInv, heapify, ControlInv, expired
<1>2. /\ Len0' = Len0 /\ Slots' = Slots /\ Dues' = Dues /\ Queued' = Queued
      /\ (\A k : At(k)' = At(k)) /\ NoDuplicates' = NoDuplicates
  BY <1>1, SameNodes
<1>3. Len0 \in Nat /\ now \in Deadlines \union {-1} /\ budget \in Nat
  BY <1>1, SlotProps DEF TypeOK
<1>4. ASSUME NEW k \in Slots PROVE Position(At(k)) = k
  <2>1. k \in 0..(Len0 - 1) /\ \A i \in 0..(Len0 - 1) : At(i) = At(k) => i = k
    BY <1>1, <1>4 DEF NoDuplicates, Slots
  <2> QED  BY <2>1 DEF Position
<1>5. \A k \in Slots : idx'[At(k)] = k
  BY <1>1, <1>4, SlotProps
<1>6. idx' \in [Entries -> Nat]
  <2>1. \A e \in Queued : Position(e) \in Nat
    BY <1>1, <1>4, SlotProps DEF Slots
  <2> QED  BY <2>1, <1>1
<1>7. IndexIsPosition'
  BY <1>2, <1>5 DEF IndexIsPosition, Slots
<1>8. \A k \in Slots : ~(deadline[At(k)] <= now)
  BY <1>1, <1>3 DEF Slots
<1>9. /\ lastParent < 0 => HeapOrder(Len0, Dues)
      /\ DownOrder(Len0, Dues, lastParent, lastParent, lastParent)
      /\ lastParent \in Int /\ lastParent < Len0 /\ lastParent >= -1
  <2> DEFINE n == Len0
             d == Dues
  <2>1. n \in Nat
    BY <1>3
  <2> HIDE DEF n, d
  <2>2. /\ n \div 2 - 1 < 0 => HeapOrder(n, d)
        /\ DownOrder(n, d, n \div 2 - 1, n \div 2 - 1, n \div 2 - 1)
    BY <2>1, HeapifyOrder
  <2>3. n \div 2 - 1 \in Int /\ n \div 2 - 1 < n /\ n \div 2 - 1 >= -1
    BY <2>1
  <2> QED  BY <2>2, <2>3 DEF n, d, lastParent
<1>10. CASE lastParent < 0
  <2>1. pc' = "idle" /\ now' = -1 /\ at' = 0 /\ start' = 0 /\ budget' = 0
    BY <1>10 DEF heapify, PurgeReturns
  <2>2. heapifying' = FALSE
    <3>1. ~(lastParent >= 0)
      BY <1>9, <1>10
    <3>2. (lastParent >= 0) = FALSE
      BY <3>1
    <3> HIDE DEF lastParent
    <3> QED  BY <3>2, <1>1
  <2>3. TypeOK'
    BY <2>1, <2>2, <1>1, <1>2, <1>6 DEF TypeOK
  <2>4. ControlInv'
    BY <2>1, <2>2 DEF ControlInv
  <2>5. OrderInv'
    BY <2>1, <1>2, <1>9, <1>10 DEF OrderInv, HeapOrder
  <2> QED  BY <2>3, <2>4, <2>5, <1>1, <1>2, <1>7 DEF QueueInv
<1>11. CASE ~(lastParent < 0)
  <2>1. pc' = "down" /\ now' = now /\ at' = lastParent /\ start' = lastParent /\ budget' = budget
    BY <1>11 DEF heapify, Enter
  <2>2. heapifying' = TRUE /\ lastParent \in Nat
    <3>1. lastParent >= 0 /\ lastParent \in Nat
      BY <1>9, <1>11
    <3> QED  BY <3>1, <1>1
  <2>3. TypeOK'
    BY <2>1, <2>2, <1>1, <1>2, <1>3, <1>6, <1>9 DEF TypeOK
  <2>4. \A k \in Slots' : ~(deadline'[At(k)'] <= now')
    BY <2>1, <1>1, <1>2, <1>8
  <2>5. start' <= at'
    BY <2>1, <2>2
  <2>6. ControlInv'
    BY <2>1, <2>2, <2>4, <2>5, <1>1 DEF ControlInv, expired
  <2>7. Built' = lastParent
    BY <2>1, <2>2 DEF Built
  <2>8. OrderInv'
    BY <2>1, <2>7, <1>2, <1>9 DEF OrderInv, DownOrder
  <2> QED  BY <2>3, <2>6, <2>8, <1>1, <1>2, <1>7 DEF QueueInv
<1> QED  BY <1>10, <1>11

LEMMA InitInv == Init => QueueInv
<1> SUFFICES ASSUME Init PROVE QueueInv
  OBVIOUS
<1>1. nodes = <<>> /\ pc = "idle" /\ at = 0 /\ start = 0 /\ heapifying = FALSE /\ now = -1 /\ budget = 0
  BY DEF Init
<1>2. Len0 = 0 /\ nodes \in Seq(Entries)
  BY <1>1, EmptySeq DEF Len0
<1>3. Slots = {}
  BY <1>2 DEF Slots
<1>4. deadline \in [Entries -> Deadlines] /\ idx \in [Entries -> Nat]
  BY DeadlinesAreNat DEF Init
<1>5. TypeOK
  BY <1>1, <1>2, <1>4 DEF TypeOK
<1>6. ControlInv
  BY <1>1 DEF ControlInv
<1>7. OrderInv
  BY <1>1, <1>2 DEF OrderInv, HeapOrder
<1> QED  BY <1>3, <1>5, <1>6, <1>7 DEF QueueInv, NoDuplicates, IndexIsPosition, Slots

LEMMA NextInv == QueueInv /\ [Next]_vars => QueueInv'
<1> SUFFICES ASSUME QueueInv, [Next]_vars PROVE QueueInv'
  OBVIOUS
<1>1. ASSUME NEW e \in Entries, remove(e) PROVE QueueInv'
  BY <1>1, RemoveInv
<1>2. ASSUME NEW e \in Entries, NEW d \in Deadlines, push(e, d) PROVE QueueInv'
  BY <1>2, PushInv
<1>3. CASE drain
  BY <1>3, DrainInv
<1>4. CASE \E t \in Deadlines : PurgeExpired(t)
  BY <1>4, PurgeControlInv
<1>5. CASE upSwap \/ upReturns \/ downSwap \/ downReturns
  BY <1>5, UpSwapInv, UpReturnsInv, DownSwapInv, DownReturnsInv
<1>6. CASE purgeDone \/ partition \/ partitionKeeps
  BY <1>6, PurgeControlInv
<1>7. CASE purgeHead \/ partitionRemoves \/ heapify
  BY <1>7, PurgeHeadInv, PartitionRemovesInv, HeapifyInv
<1>8. CASE UNCHANGED vars
  <2>1. nodes' = nodes /\ deadline' = deadline /\ idx' = idx /\ UNCHANGED <<pc, at, start, heapifying, now, budget>>
    BY <1>8 DEF vars
  <2>2. TypeOK' /\ IndexIsPosition' /\ NoDuplicates'
    BY <2>1 DEF QueueInv, TypeOK, IndexIsPosition, NoDuplicates, Len0, At, Slots
  <2>3. Len0' = Len0 /\ Dues' = Dues /\ Built' = Built
    BY <2>1, SameNodes DEF Built
  <2>4. OrderInv'
    BY <2>1, <2>3 DEF QueueInv, OrderInv, HeapOrder, UpOrder, DownOrder
  <2>5. ControlInv'
    BY <2>1 DEF QueueInv, ControlInv, Slots, Len0, At, expired
  <2> QED  BY <2>2, <2>4, <2>5 DEF QueueInv
<1> QED  BY <1>1, <1>2, <1>3, <1>4, <1>5, <1>6, <1>7, <1>8 DEF Next, Loop

LEMMA AlwaysQueueInv == Spec => []QueueInv
BY InitInv, NextInv, PTL DEF Spec

-----------------------------------------------------------------------------
(* The theorems *)

\* Every queued entry records its own position, in every state of every loop: remove takes out
\* the entry it was asked for (pqueue.go swap, place, heapify).
THEOREM PositionsAreRecorded == Spec => []IndexIsPosition
<1>1. QueueInv => IndexIsPosition
  BY DEF QueueInv
<1> QED  BY <1>1, AlwaysQueueInv, PTL

\* Whenever an operation has returned, and each time the purge looks at the head, no entry is due
\* before its parent, whatever was pushed, removed from the middle and purged (pqueue.go up, down).
THEOREM HeapsAreOrdered == Spec => []HeapOrdered
<1>1. QueueInv => HeapOrdered
  <2> SUFFICES ASSUME QueueInv, pc \in {"idle", "purge"}, NEW i \in 1..(Len0 - 1)
               PROVE  Due(parent(i)) <= Due(i)
    BY DEF HeapOrdered
  <2>1. TypeOK /\ HeapOrder(Len0, Dues)
    BY DEF QueueInv, OrderInv
  <2>2. i \in Slots /\ parent(i) \in Slots
    BY <2>1, SlotProps, ParentProps DEF Slots
  <2> QED  BY <2>1, <2>2, SlotProps DEF HeapOrder
<1> QED  BY <1>1, AlwaysQueueInv, PTL

-----------------------------------------------------------------------------
(* The queue implements PQueueSpec *)

DueMap == [e \in Queued |-> deadline[e]]
HeadMap == IF pc = "idle" /\ nodes # <<>> THEN At(0) ELSE NoEntry

\* The queue's head is due first whenever no operation is under way.
LEMMA HeadIsAHead ==
  QueueInv /\ pc = "idle" =>
    HeadMap \in IF Queued = {} THEN {NoEntry} ELSE {e \in Queued : \A o \in Queued : deadline[e] <= deadline[o]}
<1> SUFFICES ASSUME QueueInv, pc = "idle"
             PROVE  HeadMap \in IF Queued = {} THEN {NoEntry} ELSE {e \in Queued : \A o \in Queued : deadline[e] <= deadline[o]}
  OBVIOUS
<1>1. TypeOK /\ HeapOrder(Len0, Dues)
  BY DEF QueueInv, OrderInv
<1>2. CASE nodes = <<>>
  <2>1. Len0 = 0
    BY <1>2, EmptySeq DEF Len0
  <2>2. Queued = {}
    BY <2>1, <1>1, SlotProps DEF Slots
  <2> QED  BY <2>2, <1>2 DEF HeadMap
<1>3. CASE nodes # <<>>
  <2>1. Len0 \in Nat /\ Len0 # 0
    BY <1>1, <1>3, SlotProps, EmptySeq DEF TypeOK, Len0
  <2>2. 0 \in Slots
    BY <2>1 DEF Slots
  <2>3. At(0) \in Queued /\ HeadMap = At(0)
    BY <2>2, <1>1, <1>3, SlotProps DEF HeadMap
  <2>4. ASSUME NEW o \in Queued PROVE deadline[At(0)] <= deadline[o]
    <3>1. PICK k \in Slots : At(k) = o
      BY <1>1, SlotProps
    <3> DEFINE n == Len0
               d == Dues
    <3>2. n \in Nat /\ (\A j \in 0..(n - 1) : d[j] \in Nat) /\ HeapOrder(n, d) /\ k \in 0..(n - 1)
      BY <1>1, SlotProps DEF Slots
    <3> HIDE DEF n, d
    <3>3. d[0] <= d[k]
      BY <3>2, HeadIsLeast
    <3>4. Dues[0] <= Dues[k]
      BY <3>3 DEF d
    <3> QED  BY <3>1, <3>4, <2>2, <1>1, SlotProps DEF Due
  <2> QED  BY <2>3, <2>4
<1> QED  BY <1>2, <1>3

LEMMA HeadIsAHeadNext ==
  QueueInv' /\ (pc = "idle")' =>
    (HeadMap \in IF Queued = {} THEN {NoEntry} ELSE {e \in Queued : \A o \in Queued : deadline[e] <= deadline[o]})'
BY HeadIsAHead, PTL

\* The operation under way returns.
LEMMA Settles ==
  ASSUME QueueInv', pc' = "idle"
  PROVE  Abs!Settle
<1>1. now' = -1
  BY DEF QueueInv, ControlInv
<1>2. HeadMap' \in IF Queued' = {} THEN {NoEntry} ELSE {e \in Queued' : \A o \in Queued' : deadline'[e] <= deadline'[o]}
  BY HeadIsAHeadNext
<1>3. DOMAIN DueMap' = Queued' /\ \A e \in Queued' : DueMap'[e] = deadline'[e]
  BY DEF DueMap
<1>4. HeadMap' \in IF DOMAIN DueMap' = {} THEN {NoEntry} ELSE {e \in DOMAIN DueMap' : \A o \in DOMAIN DueMap' : DueMap'[e] <= DueMap'[o]}
  BY <1>2, <1>3
<1> QED  BY <1>1, <1>4 DEF Abs!Settle, Abs!Heads, DueMap, HeadMap

\* A purge is over only if no entry in the queue has expired.
LEMMA Finishes ==
  ASSUME QueueInv', pc' = "idle", DueMap' = DueMap, now # -1 => \A e \in Queued : ~expired(e)
  PROVE  Abs!SpecNext
<1>1. Abs!Settle
  BY Settles
<1>2. now # -1 => Abs!Expired = {}
  BY DEF Abs!Expired, expired
<1> QED  BY <1>1, <1>2 DEF Abs!SpecNext, Abs!Finish, DueMap

\* A step of a loop is not seen from outside.
LEMMA Stutters ==
  ASSUME DueMap' = DueMap, now' = now, pc # "idle", pc' # "idle"
  PROVE  UNCHANGED Abs!specVars
<1>1. HeadMap' = NoEntry /\ HeadMap = NoEntry
  BY DEF HeadMap
<1> QED  BY <1>1 DEF Abs!specVars, DueMap, HeadMap

\* The deadlines of the entries that stay are those they had.
LEMMA DueMapLess ==
  ASSUME NEW e \in Queued, Queued' = Queued \ {e}, \A x \in Queued' : deadline'[x] = deadline[x]
  PROVE  DueMap' = [x \in DOMAIN DueMap \ {e} |-> DueMap[x]]
<1>1. DOMAIN DueMap = Queued /\ \A x \in Queued : DueMap[x] = deadline[x]
  BY DEF DueMap
<1>2. DueMap' = [x \in Queued \ {e} |-> deadline[x]]
  BY DEF DueMap
<1> QED  BY <1>1, <1>2

\* The loops change nothing the cache can see, until the last of them returns.
LEMMA LoopRefines ==
  ASSUME QueueInv, QueueInv', upSwap \/ upReturns \/ downSwap \/ downReturns \/ partition \/ partitionKeeps \/ heapify \/ purgeDone
  PROVE  Abs!SpecNext \/ UNCHANGED Abs!specVars
<1>0. TypeOK
  BY DEF QueueInv
<1>1. pc # "idle"
  BY DEF upSwap, upReturns, downSwap, downReturns, partition, partitionKeeps, heapify, purgeDone
<1>2. deadline' = deadline
  BY DEF upSwap, upReturns, downSwap, downReturns, partition, partitionKeeps, heapify, purgeDone
<1>3. Queued' = Queued
  <2>1. CASE upSwap \/ downSwap
    <3>1. \A k \in Slots : idx[At(k)] = k
      BY <2>1 DEF QueueInv, IndexIsPosition, Slots, upSwap, downSwap
    <3>2. CASE upSwap
      <4>1. at \in 1..(Len0 - 1) /\ Len0 \in Nat /\ swap(at, parent(at))
        BY <3>2, <1>0, SlotProps DEF TypeOK, upSwap, rises
      <4>2. at \in Slots /\ parent(at) \in Slots /\ at # parent(at)
        BY <4>1, ParentProps DEF Slots
      <4> QED  BY <4>1, <4>2, <3>1, <1>0, SwapEffect DEF Queued
    <3>3. CASE downSwap
      <4>1. at \in Slots /\ sinks(at) /\ swap(at, first(at)) /\ Len0 \in Nat
        BY <3>3, <1>0, SlotProps DEF TypeOK, downSwap, Slots
      <4>2. first(at) \in 1..(Len0 - 1) /\ parent(first(at)) = at
        BY <4>1, <1>0, FirstProps
      <4>3. first(at) \in Slots /\ at # first(at)
        BY <4>1, <4>2, ParentProps DEF Slots
      <4> QED  BY <4>1, <4>3, <3>1, <1>0, SwapEffect DEF Queued
    <3> QED  BY <2>1, <3>2, <3>3
  <2>2. CASE upReturns \/ downReturns \/ partition \/ partitionKeeps \/ heapify \/ purgeDone
    BY <2>2 DEF upReturns, downReturns, partition, partitionKeeps, heapify, purgeDone, Queued
  <2> QED  BY <2>1, <2>2
<1>4. DueMap' = DueMap
  BY <1>2, <1>3 DEF DueMap
<1>5. CASE pc' # "idle"
  <2>1. now' = now
    BY <1>5 DEF upSwap, upReturns, downSwap, downReturns, partition, partitionKeeps, heapify, purgeDone, Return, Enter, PurgeReturns, filled
  <2> QED  BY <2>1, <1>1, <1>4, <1>5, Stutters
<1>6. CASE pc' = "idle"
  <2>1. ASSUME now # -1 PROVE \A e \in Queued : ~expired(e)
    <3>1. CASE upSwap \/ downSwap \/ partition \/ partitionKeeps
      BY <3>1, <1>6 DEF upSwap, downSwap, partition, partitionKeeps
    <3>2. CASE upReturns
      BY <3>2, <2>1, <1>6 DEF upReturns, Return
    <3>3. CASE downReturns
      <4>1. CASE heapifying
        <5>1. \A k \in Slots : ~expired(At(k))
          BY <4>1 DEF QueueInv, ControlInv
        <5> QED  BY <5>1, <1>0, SlotProps
      <4>2. CASE ~heapifying
        BY <3>3, <4>2, <2>1, <1>6 DEF downReturns, filled, Return, Enter
      <4> QED  BY <4>1, <4>2
    <3>4. CASE heapify
      <4>1. \A k \in Slots : ~expired(At(k))
        BY <3>4, <1>0, SlotProps DEF heapify, QueueInv, ControlInv, Slots
      <4> QED  BY <4>1, <1>0, SlotProps
    <3>5. CASE purgeDone
      <4>1. pc = "purge" /\ ~headExpired /\ HeapOrder(Len0, Dues)
        BY <3>5 DEF purgeDone, QueueInv, OrderInv
      <4> SUFFICES ASSUME NEW e \in Queued PROVE ~expired(e)
        OBVIOUS
      <4>2. PICK k \in Slots : At(k) = e
        BY <1>0, SlotProps
      <4>3. nodes # <<>> /\ 0 \in Slots
        <5>1. Len0 \in Nat /\ Len0 # 0
          BY <4>2, <1>0, SlotProps DEF Slots
        <5> QED  BY <5>1, EmptySeq DEF Slots, Len0
      <4>4. ~(deadline[At(0)] <= now)
        BY <4>1, <4>3 DEF headExpired, expired
      <4> DEFINE n == Len0
                 d == Dues
      <4>5. n \in Nat /\ (\A j \in 0..(n - 1) : d[j] \in Nat) /\ HeapOrder(n, d) /\ k \in 0..(n - 1)
        BY <4>1, <4>2, <1>0, SlotProps DEF Slots
      <4> HIDE DEF n, d
      <4>6. d[0] <= d[k]
        BY <4>5, HeadIsLeast
      <4>7. Dues[0] <= Dues[k]
        BY <4>6 DEF d
      <4>8. deadline[At(0)] <= deadline[e] /\ deadline[At(0)] \in Nat /\ deadline[e] \in Nat
        BY <4>2, <4>3, <4>7, <1>0, SlotProps DEF Due
      <4>9. now \in Int
        BY <1>0, DeadlinesAssumption DEF TypeOK
      <4> QED  BY <4>4, <4>8, <4>9 DEF expired
    <3> QED  BY <3>1, <3>2, <3>3, <3>4, <3>5
  <2> QED  BY <2>1, <1>4, <1>6, Finishes
<1> QED  BY <1>5, <1>6

\* The operations, and the removals of a purge, are those of the abstract queue.
LEMMA PushRefines ==
  ASSUME QueueInv, NEW e \in Entries, NEW t \in Deadlines, push(e, t)
  PROVE  Abs!SpecNext
<1>1. /\ TypeOK /\ e \notin Queued /\ now = -1 /\ pc' = "up" /\ now' = now
      /\ \A k \in Slots : idx[At(k)] = k
  BY DEF QueueInv, ControlInv, IndexIsPosition, Slots, push, Enter
<1>2. Queued' = Queued \union {e} /\ deadline'[e] = t /\ \A x \in Queued : deadline'[x] = deadline[x]
  BY <1>1, PushEffect
<1>3. DOMAIN DueMap = Queued /\ \A x \in Queued : DueMap[x] = deadline[x]
  BY DEF DueMap
<1>4. DueMap' = [x \in DOMAIN DueMap \union {e} |-> IF x = e THEN t ELSE DueMap[x]]
  BY <1>1, <1>2, <1>3 DEF DueMap
<1>5. e \in Entries \ DOMAIN DueMap
  BY <1>1, <1>3
<1>6. HeadMap' = NoEntry
  BY <1>1 DEF HeadMap
<1> QED  BY <1>1, <1>4, <1>5, <1>6 DEF Abs!SpecNext, Abs!Push, Abs!Work, DueMap, HeadMap

LEMMA RemoveRefines ==
  ASSUME QueueInv, QueueInv', NEW e \in Entries, remove(e)
  PROVE  Abs!SpecNext
<1>1. TypeOK /\ e \in Queued /\ take(e) /\ now = -1 /\ \A k \in Slots : idx[At(k)] = k
  BY DEF QueueInv, ControlInv, IndexIsPosition, Slots, remove
<1>2. Queued' = Queued \ {e} /\ \A x \in Queued' : deadline'[x] = deadline[x]
  BY <1>1, TakeEffect
<1>3. DueMap' = [x \in DOMAIN DueMap \ {e} |-> DueMap[x]]
  BY <1>1, <1>2, DueMapLess
<1>4. e \in DOMAIN DueMap
  BY <1>1 DEF DueMap
<1>5. pc' = "idle" \/ (pc' = "down" /\ now' = now)
  BY <1>1 DEF remove, Return, Enter
<1>6. pc' = "down" => HeadMap' = NoEntry
  BY DEF HeadMap
<1>7. Abs!Work \/ Abs!Settle
  BY <1>5, <1>6, Settles DEF Abs!Work, HeadMap
<1> QED  BY <1>1, <1>3, <1>4, <1>7 DEF Abs!SpecNext, Abs!Remove, Abs!Without, DueMap

LEMMA DrainRefines ==
  ASSUME QueueInv, QueueInv', drain
  PROVE  Abs!SpecNext
<1>1. nodes' = <<>> /\ pc' = "idle" /\ now = -1
  BY DEF QueueInv, ControlInv, drain
<1>2. Queued' = {}
  BY <1>1 DEF Queued, ToSet
<1>3. DueMap' = [x \in DOMAIN DueMap \ DOMAIN DueMap |-> DueMap[x]]
  BY <1>2 DEF DueMap
<1>4. Abs!Settle
  BY <1>1, Settles
<1> QED  BY <1>1, <1>3, <1>4 DEF Abs!SpecNext, Abs!Drain, Abs!Without, DueMap

LEMMA PurgeExpiredRefines ==
  ASSUME QueueInv, NEW t \in Deadlines, PurgeExpired(t)
  PROVE  Abs!SpecNext
<1>1. now = -1 /\ now' = t /\ pc' = "purge" /\ nodes' = nodes /\ deadline' = deadline
  BY DEF QueueInv, ControlInv, PurgeExpired
<1>2. DueMap' = DueMap
  BY <1>1 DEF DueMap, Queued
<1>3. HeadMap' = NoEntry
  BY <1>1 DEF HeadMap
<1> QED  BY <1>1, <1>2, <1>3 DEF Abs!SpecNext, Abs!StartPurge, DueMap, HeadMap

\* What both ways of removing an expired entry have in common.
LEMMA Forgets ==
  ASSUME NEW e \in Queued, expired(e), now # -1, now' = now, pc' # "idle",
         Queued' = Queued \ {e}, \A x \in Queued' : deadline'[x] = deadline[x]
  PROVE  Abs!SpecNext
<1>1. DueMap' = [x \in DOMAIN DueMap \ {e} |-> DueMap[x]]
  BY DueMapLess
<1>2. e \in {x \in DOMAIN DueMap : DueMap[x] <= now}
  BY DEF DueMap, expired
<1>3. HeadMap' = NoEntry
  BY DEF HeadMap
<1> QED  BY <1>1, <1>2, <1>3 DEF Abs!SpecNext, Abs!Forget, Abs!Expired, Abs!Without, Abs!Work, DueMap, HeadMap

LEMMA PurgeHeadRefines ==
  ASSUME QueueInv, purgeHead
  PROVE  Abs!SpecNext
<1>1. /\ TypeOK /\ take(At(0)) /\ expired(At(0)) /\ nodes # <<>> /\ now # -1 /\ now' = now /\ pc' # "idle"
      /\ \A k \in Slots : idx[At(k)] = k
  BY DEF QueueInv, ControlInv, IndexIsPosition, Slots, purgeHead, headExpired
<1>2. 0 \in Slots
  <2>1. Len0 \in Nat /\ Len0 # 0
    BY <1>1, SlotProps, EmptySeq DEF TypeOK, Len0
  <2> QED  BY <2>1 DEF Slots
<1>3. At(0) \in Queued
  BY <1>1, <1>2, SlotProps
<1> DEFINE e == At(0)
<1>4. Queued' = Queued \ {e} /\ \A x \in Queued' : deadline'[x] = deadline[x]
  BY <1>1, <1>3, TakeEffect
<1>5. e \in Queued /\ expired(e)
  BY <1>1, <1>3
<1> HIDE DEF e
<1> QED  BY <1>1, <1>4, <1>5, Forgets

LEMMA PartitionRefines ==
  ASSUME QueueInv, partitionRemoves
  PROVE  Abs!SpecNext
<1>1. /\ TypeOK /\ NoDuplicates /\ pc = "partition" /\ at \in Nat /\ at < Len0 /\ expired(At(at)) /\ now # -1
      /\ nodes' = RemoveAt(nodes, at + 1) /\ Forgotten({At(at)}) /\ now' = now /\ pc' = pc
  BY DEF QueueInv, ControlInv, TypeOK, partitionRemoves
<1>2. at \in Slots
  BY <1>1, SlotProps DEF Slots
<1> DEFINE e == At(at)
<1>3. e \in Queued /\ expired(e)
  BY <1>1, <1>2, SlotProps
<1>4. Queued' = Queued \ {e}
  BY <1>1, <1>2, DropEffect
<1>5. \A x \in Queued' : deadline'[x] = deadline[x]
  BY <1>1, <1>4, SlotProps DEF Forgotten
<1> HIDE DEF e
<1> QED  BY <1>1, <1>3, <1>4, <1>5, Forgets

LEMMA StepRefines == QueueInv /\ QueueInv' /\ [Next]_vars => [Abs!SpecNext]_(Abs!specVars)
<1> SUFFICES ASSUME QueueInv, QueueInv', [Next]_vars
             PROVE  Abs!SpecNext \/ UNCHANGED Abs!specVars
  OBVIOUS
<1>1. ASSUME NEW e \in Entries, remove(e) PROVE Abs!SpecNext
  BY <1>1, RemoveRefines
<1>2. ASSUME NEW e \in Entries, NEW d \in Deadlines, push(e, d) PROVE Abs!SpecNext
  BY <1>2, PushRefines
<1>3. ASSUME drain PROVE Abs!SpecNext
  BY <1>3, DrainRefines
<1>4. ASSUME NEW t \in Deadlines, PurgeExpired(t) PROVE Abs!SpecNext
  BY <1>4, PurgeExpiredRefines
<1>5. ASSUME upSwap \/ upReturns \/ downSwap \/ downReturns \/ partition \/ partitionKeeps \/ heapify \/ purgeDone
      PROVE  Abs!SpecNext \/ UNCHANGED Abs!specVars
  BY <1>5, LoopRefines
<1>6. ASSUME purgeHead PROVE Abs!SpecNext
  BY <1>6, PurgeHeadRefines
<1>7. ASSUME partitionRemoves PROVE Abs!SpecNext
  BY <1>7, PartitionRefines
<1>8. ASSUME UNCHANGED vars PROVE UNCHANGED Abs!specVars
  BY <1>8 DEF vars, Abs!specVars, Queued, At
<1> QED  BY <1>1, <1>2, <1>3, <1>4, <1>5, <1>6, <1>7, <1>8 DEF Next, Loop

\* The heap implements the queue the cache relies on, for any number of entries and any deadlines:
\* an exact set of entries whose head is due first, and a purge that removes the expired entries
\* and no other.
THEOREM HeapImplementsQueue == Spec => ImplementsQueue
<1>1. Init => Abs!SpecInit
  BY DEF Init, Abs!SpecInit, Queued, ToSet
<1> QED  BY <1>1, AlwaysQueueInv, StepRefines, PTL DEF Spec, ImplementsQueue, Abs!QueueSpec

=============================================================================
