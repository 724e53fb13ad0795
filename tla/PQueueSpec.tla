------------------------------ MODULE PQueueSpec ------------------------------
(***************************************************************************)
(* What pkg/sfcache expects of one of its victim queues: a set of entries, *)
(* each with its deadline, whose head, whenever no operation is under way, *)
(* is an entry nobody else in the queue is due before.  A purge removes    *)
(* expired entries only, and ends when none is left.                       *)
(***************************************************************************)
EXTENDS Integers

CONSTANTS
  Entries,    \* the entries a queue may hold
  Deadlines,  \* their deadlines
  NoEntry

VARIABLES
  due,   \* the deadline of each entry in the queue
  head,  \* what top returns, or NoEntry while an operation is under way
  now    \* the instant of the purge under way, or -1

specVars == <<due, head, now>>

Without(gone) == [e \in DOMAIN due \ gone |-> due[e]]

Heads(d) == {e \in DOMAIN d : \A o \in DOMAIN d : d[e] <= d[o]}

SpecInit ==
  /\ DOMAIN due = {}
  /\ head = NoEntry
  /\ now = -1

\* The operation returns: an empty queue has no head.
Settle ==
  /\ now' = -1
  /\ head' \in IF DOMAIN due' = {} THEN {NoEntry} ELSE Heads(due')

Work == head' = NoEntry /\ now' = now

Push ==
  /\ now = -1
  /\ \E e \in Entries \ DOMAIN due, d \in Deadlines :
       due' = [x \in DOMAIN due \union {e} |-> IF x = e THEN d ELSE due[x]]
  /\ Work \/ Settle

Remove ==
  /\ now = -1
  /\ \E e \in DOMAIN due : due' = Without({e})
  /\ Work \/ Settle

Drain ==
  /\ now = -1
  /\ due' = Without(DOMAIN due)
  /\ Settle

StartPurge ==
  /\ now = -1
  /\ now' \in Deadlines
  /\ head' = NoEntry
  /\ UNCHANGED due

Expired == {e \in DOMAIN due : due[e] <= now}

\* A purge takes one expired entry after the other.
Forget ==
  /\ now # -1
  /\ \E e \in Expired : due' = Without({e})
  /\ Work

\* The queue has put itself in order and the operation returns.
Finish ==
  /\ now # -1 => Expired = {}
  /\ UNCHANGED due
  /\ Settle

SpecNext == Push \/ Remove \/ Drain \/ StartPurge \/ Forget \/ Finish

QueueSpec == SpecInit /\ [][SpecNext]_specVars

=============================================================================
