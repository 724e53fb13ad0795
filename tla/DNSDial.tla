------------------------------- MODULE DNSDial -------------------------------
(***************************************************************************)
(* pkg/dnscache: DialContext resolves a host through the cache, orders the *)
(* addresses, and dials them one after the other until one answers.  The   *)
(* cache is module SFCache; here a lookup returns any answer, fresh or     *)
(* stale, or fails.  What dialers share is the round-robin counter.        *)
(***************************************************************************)
EXTENDS Naturals, Sequences, SequencesExt

CONSTANTS
  Dialers,   \* goroutines that call DialContext
  Raws,      \* the strings a resolver may return
  Addr,      \* Addr[r]: what r parses to, unmapped: [fam |-> "v4", "v6" or "bad", ip |-> ...]
  Answers,   \* the sequences of strings a lookup may return
  Networks,  \* a subset of {"tcp", "tcp4", "tcp6"}
  Rotate,    \* c.rotate
  MaxDials   \* bound: calls of DialContext that reach the counter

AddrAssumption ==
  /\ DOMAIN Addr = Raws
  /\ \A r \in Raws : Addr[r].fam \in {"v4", "v6", "bad"}
  /\ \A a \in Answers : \A i \in 1..Len(a) : a[i] \in Raws

SettingsAssumption ==
  Networks \subseteq {"tcp", "tcp4", "tcp6"} /\ Rotate \in BOOLEAN /\ MaxDials \in Nat

VARIABLES
  dialSeq,  \* c.dialSeq
  pc,       \* "idle", "lookup", "loop", "attempt", "returned"
  network,  \* the network each dialer asked for
  ips,      \* the answer each dialer's lookup returned
  cands,    \* the candidates each dialer still has to try
  ended,    \* the dialers whose context ended
  tried,    \* history: the candidates each dialer dialled, in order
  open,     \* the connections each dialer's attempts opened
  result,   \* what DialContext returned: "none", "conn", "ctx" or "error"
  previous  \* history: the network, answer and order of the last dial that reached the counter

call == <<network, ips, tried, open, result>>
vars == <<dialSeq, pc, cands, ended, previous, call>>

-----------------------------------------------------------------------------
(* orderCandidates and what it is made of.  A candidate is its string. *)

valid(r) == Addr[r].fam # "bad"

\* isIPv6Addr, which is false for an invalid address.
isIPv6(r) == Addr[r].fam = "v6"

sameDestination(a, b) ==
  IF valid(a) /\ valid(b) THEN Addr[a] = Addr[b] ELSE ~valid(a) /\ ~valid(b) /\ a = b


containsCandidate(cs, r) == \E i \in 1..Len(cs) : sameDestination(cs[i], r)

newCandidates(answer) ==
  FoldLeft(LAMBDA cs, r : IF containsCandidate(cs, r) THEN cs ELSE Append(cs, r), <<>>, answer)

usable(net, r) ==
  CASE net = "tcp4" -> ~isIPv6(r)
    [] net = "tcp6" -> ~valid(r) \/ isIPv6(r)
    [] OTHER        -> TRUE

filterByNetwork(cs, net) == SelectSeq(cs, LAMBDA r : usable(net, r))

rotateCandidates(cs, offset) ==
  [i \in 1..Len(cs) |-> cs[((offset + i - 1) % Len(cs)) + 1]]

At(cs, i) == IF i <= Len(cs) THEN <<cs[i]>> ELSE <<>>

\* Mutant: the lead group is exhausted first.
interleave_Concat(first, second) == first \o second

interleave(first, second) ==
  FoldLeft(LAMBDA out, i : out \o At(first, i) \o At(second, i), <<>>,
           [i \in 1..(IF Len(first) > Len(second) THEN Len(first) ELSE Len(second)) |-> i])

\* Mutant: each family group takes an offset of its own.
advance_PerGroup(mixed) == IF mixed THEN 2 ELSE 1

\* By how much one dial advances the counter.
advance(mixed) == 1

usableOf(net, answer) == filterByNetwork(newCandidates(answer), net)
leads(cs, r) == isIPv6(r) = isIPv6(cs[1])
isMixedFamily(cs) == \E i \in 1..Len(cs) : ~leads(cs, cs[i])

\* The candidates in the order they are dialled, given the counter.
orderCandidates(cs, offset) ==
  IF Len(cs) < 2 THEN cs
  ELSE LET first   == SelectSeq(cs, LAMBDA r : leads(cs, r))
           second  == SelectSeq(cs, LAMBDA r : ~leads(cs, r))
           turn(s) == IF Rotate THEN rotateCandidates(s, offset) ELSE s
       IN IF isMixedFamily(cs) THEN interleave(turn(first), turn(second)) ELSE turn(cs)

-----------------------------------------------------------------------------
(* DialContext *)

DialContext(d, net) ==
  /\ pc[d] = "idle"
  /\ dialSeq < MaxDials
  /\ pc' = [pc EXCEPT ![d] = "lookup"]
  /\ network' = [network EXCEPT ![d] = net]
  /\ UNCHANGED <<dialSeq, ips, cands, ended, tried, open, result, previous>>

\* The address does not split, the lookup fails, or nothing usable is left.
fails(d) ==
  /\ result' = [result EXCEPT ![d] = "error"]
  /\ pc' = [pc EXCEPT ![d] = "returned"]
  /\ UNCHANGED <<dialSeq, network, cands, ended, tried, open, previous>>

lookupFails(d) == pc[d] = "lookup" /\ fails(d) /\ UNCHANGED ips

noAddresses(d, answer) ==
  /\ pc[d] = "lookup"
  /\ usableOf(network[d], answer) = <<>>
  /\ fails(d)
  /\ ips' = [ips EXCEPT ![d] = answer]

\* The lookup answers, and the counter is read and advanced in one atomic step.
order(d, answer) ==
  LET cs      == usableOf(network[d], answer)
      ordered == orderCandidates(cs, dialSeq)
  IN /\ pc[d] = "lookup"
     /\ cs # <<>>
     /\ ips' = [ips EXCEPT ![d] = answer]
     /\ cands' = [cands EXCEPT ![d] = ordered]
     /\ IF Rotate /\ Len(cs) > 1
        THEN /\ dialSeq' = dialSeq + advance(isMixedFamily(cs))
             /\ previous' = [net |-> network[d], ips |-> answer, out |-> ordered]
        ELSE UNCHANGED <<dialSeq, previous>>
     /\ pc' = [pc EXCEPT ![d] = "loop"]
     /\ UNCHANGED <<network, ended, tried, open, result>>

\* The loop of dialAddrs finds the context ended.
loopEnded(d) ==
  /\ pc[d] = "loop"
  /\ cands[d] # <<>>
  /\ d \in ended
  /\ result' = [result EXCEPT ![d] = "ctx"]
  /\ pc' = [pc EXCEPT ![d] = "returned"]
  /\ UNCHANGED <<dialSeq, network, ips, cands, ended, tried, open, previous>>

afterInvalid(d) == Tail(cands[d])

loopInvalid(d) ==
  /\ pc[d] = "loop"
  /\ cands[d] # <<>>
  /\ d \notin ended
  /\ ~valid(Head(cands[d]))
  /\ cands' = [cands EXCEPT ![d] = afterInvalid(d)]
  /\ UNCHANGED <<dialSeq, pc, call, ended, previous>>

loopDials(d) ==
  /\ pc[d] = "loop"
  /\ cands[d] # <<>>
  /\ d \notin ended
  /\ valid(Head(cands[d]))
  /\ tried' = [tried EXCEPT ![d] = Append(@, Head(cands[d]))]
  /\ cands' = [cands EXCEPT ![d] = Tail(@)]
  /\ pc' = [pc EXCEPT ![d] = "attempt"]
  /\ UNCHANGED <<dialSeq, network, ips, ended, open, result, previous>>

\* Where a successful attempt leads.
connected(d) == "returned"

attemptSucceeds(d) ==
  /\ pc[d] = "attempt"
  /\ open' = [open EXCEPT ![d] = @ + 1]
  /\ result' = [result EXCEPT ![d] = "conn"]
  /\ pc' = [pc EXCEPT ![d] = connected(d)]
  /\ UNCHANGED <<dialSeq, network, ips, cands, ended, tried, previous>>

\* The dialer fails, or the attempt's own timeout passes.
attemptFails(d) ==
  /\ pc[d] = "attempt"
  /\ pc' = [pc EXCEPT ![d] = "loop"]
  /\ UNCHANGED <<dialSeq, cands, ended, call, previous>>

\* Every candidate failed.
exhausted(d) ==
  /\ pc[d] = "loop"
  /\ cands[d] = <<>>
  /\ result' = [result EXCEPT ![d] = "error"]
  /\ pc' = [pc EXCEPT ![d] = "returned"]
  /\ UNCHANGED <<dialSeq, network, ips, cands, ended, tried, open, previous>>

\* The caller closes what it got, and may dial again.
again(d) ==
  /\ pc[d] = "returned"
  /\ pc' = [pc EXCEPT ![d] = "idle"]
  /\ network' = [network EXCEPT ![d] = "none"]
  /\ ips' = [ips EXCEPT ![d] = <<>>]
  /\ cands' = [cands EXCEPT ![d] = <<>>]
  /\ ended' = ended \ {d}
  /\ tried' = [tried EXCEPT ![d] = <<>>]
  /\ open' = [open EXCEPT ![d] = 0]
  /\ result' = [result EXCEPT ![d] = "none"]
  /\ UNCHANGED <<dialSeq, previous>>

contextEnds(d) ==
  /\ d \notin ended
  /\ pc[d] \in {"lookup", "loop", "attempt"}
  /\ ended' = ended \union {d}
  /\ UNCHANGED <<dialSeq, pc, cands, call, previous>>

-----------------------------------------------------------------------------

Init ==
  /\ dialSeq = 0
  /\ pc = [d \in Dialers |-> "idle"]
  /\ network = [d \in Dialers |-> "none"]
  /\ ips = [d \in Dialers |-> <<>>]
  /\ cands = [d \in Dialers |-> <<>>]
  /\ ended = {}
  /\ tried = [d \in Dialers |-> <<>>]
  /\ open = [d \in Dialers |-> 0]
  /\ result = [d \in Dialers |-> "none"]
  /\ previous = [net |-> "none", ips |-> <<>>, out |-> <<>>]

Step(d) ==
  \/ lookupFails(d)
  \/ \E a \in Answers : noAddresses(d, a) \/ order(d, a)
  \/ loopEnded(d) \/ loopInvalid(d) \/ loopDials(d) \/ attemptSucceeds(d) \/ attemptFails(d)
  \/ exhausted(d)

\* Nobody is dialling.
Quiescent == (\A d \in Dialers : pc[d] = "idle") /\ UNCHANGED vars

Next ==
  \/ \E d \in Dialers : \/ Step(d) \/ again(d) \/ contextEnds(d)
                        \/ \E net \in Networks : DialContext(d, net)
  \/ Quiescent

\* A lookup returns and an attempt ends: both are bounded by a context or a timeout.
Spec == Init /\ [][Next]_vars /\ \A d \in Dialers : WF_vars(Step(d))

-----------------------------------------------------------------------------
(* Properties *)

Wanted(net, r) == valid(r) /\ (net = "tcp4" => ~isIPv6(r)) /\ (net = "tcp6" => isIPv6(r))

\* The state is well formed.
TypeOK ==
  /\ dialSeq \in Nat
  /\ \A d \in Dialers :
       /\ pc[d] \in {"idle", "lookup", "loop", "attempt", "returned"}
       /\ network[d] \in Networks \union {"none"}
       /\ \A i \in 1..Len(cands[d]) : cands[d][i] \in Raws
       /\ result[d] \in {"none", "conn", "ctx", "error"}
       /\ (pc[d] = "returned") = (result[d] # "none")
       /\ open[d] \in {0, 1}
  /\ ended \subseteq Dialers

\* Every destination of the answer that the network allows is dialled once, whatever its
\* spellings, and no other: a call dials none twice, gives up only when its context ended or
\* when all were dialled, and returns the one connection it opened.
DialsEachOnce ==
  \A d \in Dialers :
    /\ \A i \in 1..Len(tried[d]) :
         /\ Wanted(network[d], tried[d][i])
         /\ \A j \in 1..Len(tried[d]) : i # j => Addr[tried[d][i]] # Addr[tried[d][j]]
    /\ pc[d] = "returned" =>
         /\ open[d] = IF result[d] = "conn" THEN 1 ELSE 0
         /\ result[d] = "ctx" => d \in ended
         /\ result[d] = "error" =>
              \A i \in 1..Len(ips[d]) : Wanted(network[d], ips[d][i]) =>
                \E j \in 1..Len(tried[d]) : Addr[tried[d][j]] = Addr[ips[d][i]]

Count(seq, v6) == Len(SelectSeq(seq, LAMBDA r : isIPv6(r) = v6))

\* "so a dead family is not exhausted before the other is tried": of the addresses dialled
\* (the answer's valid ones), neither family is two ahead while the other has one left.
FamiliesAlternate ==
  \A d \in Dialers : \A v6 \in BOOLEAN :
    (Count(cands[d], ~v6) > 0 /\ \A i \in 1..Len(ips[d]) : valid(ips[d][i]))
      => Count(tried[d], v6) <= Count(tried[d], ~v6) + 1

\* The first address dialled is of the family of the first one the answer has for the
\* network: the resolver-preferred family leads, rotated or not.  An invalid entry before it
\* counts as IPv4 and takes that lead.
PreferredFamilyLeads ==
  \A d \in Dialers : tried[d] # <<>> =>
    LET kept == SelectSeq(ips[d], LAMBDA r : ~valid(r) \/ Wanted(network[d], r))
    IN  valid(kept[1]) => isIPv6(tried[d][1]) = isIPv6(kept[1])

\* The head of a family group is not "stuck": two consecutive dials of the same addresses,
\* by whichever goroutines, do not both start with the same one, unless it is the only one
\* of its family.
RotationStep ==
  LET cs == usableOf(previous.net, previous.ips)
  IN (/\ dialSeq' # dialSeq
      /\ previous'.net = previous.net
      /\ previous'.ips = previous.ips
      /\ Count(cs, isIPv6(cs[1])) > 1)
     => previous'.out[1] # previous.out[1]

=============================================================================
