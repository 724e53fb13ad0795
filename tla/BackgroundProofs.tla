--------------------------- MODULE BackgroundProofs ---------------------------
(***************************************************************************)
(* The safety of the goroutines the library launches, for any number of    *)
(* calls of Start and Stop and any number of checks.                       *)
(*                                                                         *)
(* StoppedForGood is not inductive: that a Stop which returned finds the   *)
(* goroutine gone rests on the channel it waited for being the one that    *)
(* goroutine closes, and on no Start coming after it.  LoopInv says so.    *)
(*                                                                         *)
(* AnswerIsTrue is not either: that every check which reported in time is  *)
(* answered for rests on its report being in the channel until it is       *)
(* collected, and on the request goroutine leaving no report there.        *)
(***************************************************************************)
EXTENDS Background, FiniteSetTheorems, WellFoundedInduction, TLAPS

-----------------------------------------------------------------------------
(* periodic *)

\* A done channel is closed by the goroutine of its Start, at its end and only then.
ClosedAtExit ==
  \A s \in Starters : closed[s] = IF loop[s] = "exited" THEN 1 ELSE 0

\* p.cancel is set exactly when a goroutine was launched.
OwnerRuns == owner # None => loop[owner] # "none"

\* A Stop past its critical section stopped the scheduler, waits for the one goroutine
\* there is, and has returned only if that goroutine is gone or never was.
StopInv ==
  \A t \in Stoppers :
    /\ pc[t] # "idle" => stopped
    /\ pc[t] \in {"cancel", "wait"} => seen[t] = owner /\ owner # None
    /\ pc[t] = "returned" => owner = None \/ loop[owner] = "exited"

\* The inductive invariant.
LoopInv == TypeOK /\ OneLoop /\ ClosedAtExit /\ OwnerRuns /\ StopInv

LEMMA InitLoopInv == Init => LoopInv
<1> SUFFICES ASSUME Init PROVE LoopInv
  OBVIOUS
<1>1. TypeOK
  <2>1. stopped \in BOOLEAN /\ armed \in BOOLEAN /\ owner \in Starters \union {None}
    BY DEF Init
  <2>2. pc \in [Starters \union Stoppers -> {"idle", "cancel", "wait", "returned"}]
    BY DEF Init
  <2>3. seen \in [Stoppers -> Starters \union {None}]
    BY DEF Init
  <2>4. loop \in [Starters -> {"none", "begin", "select", "task", "exited"}]
    BY DEF Init
  <2>5. closed \in [Starters -> 0..1] /\ ended \subseteq Starters /\ cancelled \subseteq Starters
    BY DEF Init
  <2> QED BY <2>1, <2>2, <2>3, <2>4, <2>5 DEF TypeOK
<1>2. OneLoop /\ ClosedAtExit /\ OwnerRuns
  BY DEF Init, OneLoop, ClosedAtExit, OwnerRuns
<1>3. StopInv
  BY DEF Init, StopInv
<1> QED BY <1>1, <1>2, <1>3 DEF LoopInv

\* A Start that launches finds no goroutine and no Stop; any other changes only its pc.
LEMMA StartKeeps == ASSUME LoopInv, NEW s \in Starters, Start(s) PROVE LoopInv'
<1> USE CallersAssumption DEF LoopInv
<1>1. CASE mayStart
  <2> USE <1>1 DEF mayStart, Start
  <2>1. TypeOK'
    BY DEF TypeOK
  <2>2. \A x \in Starters : loop[x] = "none"
    BY DEF OneLoop, TypeOK
  <2>3. OneLoop' /\ OwnerRuns' /\ ClosedAtExit'
    BY <2>2 DEF OneLoop, OwnerRuns, ClosedAtExit, TypeOK
  <2>4. \A t \in Stoppers : pc[t] = "idle" /\ pc'[t] = "idle"
    BY DEF StopInv, TypeOK
  <2>5. StopInv'
    BY <2>4 DEF StopInv
  <2> QED BY <2>1, <2>3, <2>5
<1>2. CASE ~mayStart
  <2> USE <1>2 DEF Start
  <2>1. TypeOK'
    BY DEF TypeOK
  <2>2. OneLoop' /\ OwnerRuns' /\ ClosedAtExit'
    BY DEF OneLoop, OwnerRuns, ClosedAtExit
  <2>3. \A t \in Stoppers : pc'[t] = pc[t]
    BY DEF TypeOK
  <2>4. StopInv'
    BY <2>3 DEF StopInv
  <2> QED BY <2>1, <2>2, <2>4
<1> QED BY <1>1, <1>2

\* The three steps of Stop leave the goroutine alone.
LEMMA StopKeeps ==
  ASSUME LoopInv, NEW t \in Stoppers, Stop(t) \/ stopCancels(t) \/ stopReturns(t)
  PROVE  LoopInv'
<1> USE CallersAssumption DEF LoopInv
<1>1. CASE Stop(t)
  <2>1. TypeOK'
    BY <1>1 DEF TypeOK, Stop
  <2>2. OneLoop' /\ OwnerRuns' /\ ClosedAtExit'
    BY <1>1 DEF OneLoop, OwnerRuns, ClosedAtExit, Stop
  <2>3. StopInv'
    BY <1>1 DEF StopInv, TypeOK, Stop
  <2> QED BY <2>1, <2>2, <2>3
<1>2. CASE stopCancels(t)
  <2>0. seen[t] \in Starters
    BY <1>2 DEF StopInv, TypeOK, stopCancels
  <2>1. TypeOK'
    BY <1>2, <2>0 DEF TypeOK, stopCancels
  <2>2. OneLoop' /\ OwnerRuns' /\ ClosedAtExit'
    BY <1>2 DEF OneLoop, OwnerRuns, ClosedAtExit, stopCancels
  <2>3. StopInv'
    BY <1>2 DEF StopInv, TypeOK, stopCancels
  <2> QED BY <2>1, <2>2, <2>3
<1>3. CASE stopReturns(t)
  <2>1. TypeOK'
    BY <1>3 DEF TypeOK, stopReturns
  <2>2. OneLoop' /\ OwnerRuns' /\ ClosedAtExit'
    BY <1>3 DEF OneLoop, OwnerRuns, ClosedAtExit, stopReturns
  <2>3. loop[owner] = "exited"
    <3>1. owner \in Starters /\ closed[owner] > 0
      BY <1>3 DEF StopInv, TypeOK, stopReturns, stopDone
    <3> QED BY <3>1 DEF ClosedAtExit
  <2>4. StopInv'
    BY <1>3, <2>3 DEF StopInv, TypeOK, stopReturns
  <2> QED BY <2>1, <2>2, <2>4
<1> QED BY <1>1, <1>2, <1>3

\* The goroutine never leaves "exited", and it is its own channel that it closes.
LEMMA LoopKeeps ==
  ASSUME LoopInv, NEW s \in Starters,
         loopBegins(s) \/ loopEnds(s) \/ timerFires(s) \/ run(s)
  PROVE  LoopInv'
<1> USE CallersAssumption DEF LoopInv
<1>0. owner = s /\ loop[s] \in {"begin", "select", "task"}
  BY DEF OneLoop, loopBegins, loopEnds, timerFires, run
<1>1. TypeOK'
  <2>1. CASE loopEnds(s)
    <3>1. closed[s] = 0
      BY <1>0 DEF ClosedAtExit
    <3>2. closed' \in [Starters -> 0..1]
      BY <1>0, <2>1, <3>1 DEF TypeOK, loopEnds, closeDone
    <3>3. loop' \in [Starters -> {"none", "begin", "select", "task", "exited"}]
      BY <2>1 DEF TypeOK, loopEnds
    <3>4. cancelled' \subseteq Starters /\ armed' \in BOOLEAN
      BY <1>0, <2>1 DEF TypeOK, loopEnds
    <3> QED BY <2>1, <3>2, <3>3, <3>4 DEF TypeOK, loopEnds, callers
  <2>2. CASE loopBegins(s) \/ timerFires(s) \/ run(s)
    BY <2>2 DEF TypeOK, loopBegins, timerFires, run, reset, callers
  <2> QED BY <2>1, <2>2
<1>2. OneLoop' /\ OwnerRuns'
  BY <1>0 DEF OneLoop, OwnerRuns, TypeOK, loopBegins, loopEnds, timerFires, run
<1>3. ClosedAtExit'
  <2>1. CASE loopEnds(s)
    BY <1>0, <2>1 DEF ClosedAtExit, TypeOK, loopEnds, closeDone
  <2>2. CASE loopBegins(s) \/ timerFires(s) \/ run(s)
    BY <1>0, <2>2 DEF ClosedAtExit, TypeOK, loopBegins, timerFires, run
  <2> QED BY <2>1, <2>2
<1>4. StopInv'
  <2>1. UNCHANGED <<pc, seen, owner, stopped>>
    BY DEF loopBegins, loopEnds, timerFires, run, callers
  <2>2. \A t \in Stoppers : pc[t] # "returned"
    BY <1>0 DEF StopInv
  <2> QED BY <2>1, <2>2 DEF StopInv
<1> QED BY <1>1, <1>2, <1>3, <1>4

LEMMA NextKeeps == LoopInv /\ [Next]_vars => LoopInv'
<1> SUFFICES ASSUME LoopInv, [Next]_vars PROVE LoopInv'
  OBVIOUS
<1>1. ASSUME NEW s \in Starters, Start(s) PROVE LoopInv'
  BY <1>1, StartKeeps
<1>2. ASSUME NEW s \in Starters, loopBegins(s) \/ loopEnds(s) \/ timerFires(s) \/ run(s)
      PROVE  LoopInv'
  BY <1>2, LoopKeeps
<1>3. ASSUME NEW t \in Stoppers, Stop(t) \/ stopCancels(t) \/ stopReturns(t) PROVE LoopInv'
  BY <1>3, StopKeeps
<1>4. ASSUME NEW s \in Starters, contextEnds(s) PROVE LoopInv'
  BY <1>4 DEF LoopInv, TypeOK, OneLoop, ClosedAtExit, OwnerRuns, StopInv, contextEnds, callers
<1>5. CASE UNCHANGED vars
  BY <1>5 DEF LoopInv, TypeOK, OneLoop, ClosedAtExit, OwnerRuns, StopInv, vars, callers
<1> QED BY <1>1, <1>2, <1>3, <1>4, <1>5 DEF Next

\* After any Stop has returned no goroutine is alive, and none is ever launched.
LEMMA LoopInvStops == LoopInv => StoppedForGood
<1> SUFFICES ASSUME LoopInv, NEW t \in Stoppers, pc[t] = "returned", NEW s \in Starters
             PROVE  loop[s] \in {"none", "exited"}
  BY DEF StoppedForGood
<1>1. owner = None \/ loop[owner] = "exited"
  BY DEF LoopInv, StopInv
<1>2. loop[s] # "none" => owner = s
  BY DEF LoopInv, OneLoop
<1> QED BY <1>1, <1>2, CallersAssumption

-----------------------------------------------------------------------------
(* healthcheck *)

HealthTypes ==
  /\ handler \in {"collect", "drain", "write", "written"}
  /\ remaining \in Nat
  /\ results \in [Health!Checks -> {"timeout", "ok", "error", "panic", "nil"}]
  /\ resCh \subseteq [index : Health!Checks, err : {"ok", "error", "panic", "nil"}]
  /\ check \in [Health!Checks -> {"running", "sending", "exited"}]
  /\ outcome \in [Health!Checks -> {"none", "ok", "error", "panic", "nil"}]
  /\ inTime \subseteq Health!Checks

\* A result other than the seeded timeout is what the check reported, and a report that was not
\* collected is in the channel.
ReportInv ==
  \A i \in Health!Checks :
    /\ results[i] # "timeout" => check[i] = "exited" /\ results[i] = outcome[i]
    /\ (check[i] = "exited" /\ results[i] = "timeout")
         => outcome[i] # "none" /\ [index |-> i, err |-> outcome[i]] \in resCh
    /\ check[i] = "sending" => outcome[i] \in {"ok", "error", "panic", "nil"}
    /\ i \in inTime => check[i] = "exited"

\* The channel holds one report of each check that sent it and was not collected.
ChannelInv ==
  \A r \in resCh : /\ check[r.index] = "exited"
                   /\ results[r.index] = "timeout"
                   /\ r.err = outcome[r.index]

\* The checks no report of which was collected.
Missing == {i \in Health!Checks : results[i] = "timeout"}

\* The request goroutine counts what is missing; it stops only once nothing is or the context is
\* done, and in either case leaves no report behind that came in time.
CollectInv ==
  /\ handler = "collect" => remaining > 0 /\ remaining = Cardinality(Missing)
  /\ handler = "drain" => done
  /\ handler \in {"write", "written"} => (done \/ Missing = {})
  /\ handler \in {"write", "written"} => \A i \in inTime : results[i] # "timeout"

\* The answer was made from the results.
WrittenInv ==
  handler = "written" =>
    /\ status = IF \E i \in Health!Checks : results[i] # "ok" THEN 503 ELSE 200
    /\ \A id \in Health!IDs : data[id] = "ok" <=> Health!failing(id) = {}

HealthInv == HealthTypes /\ ReportInv /\ ChannelInv /\ CollectInv /\ WrittenInv

LEMMA ChecksAreFinite ==
  /\ IsFiniteSet(Health!Checks) /\ Cardinality(Health!Checks) = N
  /\ \A S \in SUBSET Health!Checks : IsFiniteSet(S) /\ Cardinality(S) \in Nat
<1>1. N \in Nat
  BY HealthAssumption DEF Health!ChecksAssumption
<1>2. IsFiniteSet(1..N) /\ Cardinality(1..N) = N
  BY <1>1, FS_Interval
<1>3. ASSUME NEW S \in SUBSET (1..N) PROVE IsFiniteSet(S) /\ Cardinality(S) \in Nat
  <2>1. IsFiniteSet(S)
    BY <1>2, FS_Subset
  <2> QED BY <2>1, FS_CardinalityType
<1> QED BY <1>2, <1>3 DEF Health!Checks

\* A set of checks that is not empty has a last one.
LEMMA LastCheck ==
  ASSUME NEW S \in SUBSET Health!Checks, S # {}
  PROVE  Health!Max(S) \in S
<1>0. N \in Nat /\ S \subseteq 1..N
  BY HealthAssumption DEF Health!ChecksAssumption, Health!Checks
<1> DEFINE T == {N - i : i \in S}
<1>a. \A i \in S : i \in Nat /\ i <= N /\ N - i \in Nat
  BY <1>0
<1>1. T \in SUBSET Nat /\ T # {}
  BY <1>a
<1>2. PICK x \in T : \A y \in T : ~(<<y, x>> \in OpToRel(<, Nat))
  BY <1>1, NatLessThanWellFounded, WFMin
<1>3. \A y \in T : ~(y < x)
  BY <1>1, <1>2 DEF OpToRel
<1>4. PICK m \in S : x = N - m
  BY <1>2
<1>5. \A i \in S : m >= i
  <2> SUFFICES ASSUME NEW i \in S PROVE m >= i
    OBVIOUS
  <2>1. N - i \in T /\ ~(N - i < N - m)
    BY <1>3, <1>4
  <2> QED BY <1>0, <1>a, <2>1
<1> QED BY <1>4, <1>5 DEF Health!Max

\* An ID's entry is "ok" only if no check under it failed, though a later one may have passed.
LEMMA EntryTells ==
  ASSUME NEW id PROVE Health!entry(id) = "ok" <=> Health!failing(id) = {}
<1>1. CASE Health!failing(id) = {}
  BY <1>1 DEF Health!entry
<1>2. CASE Health!failing(id) # {}
  <2>1. Health!Max(Health!failing(id)) \in Health!failing(id)
    BY <1>2, LastCheck DEF Health!failing
  <2>2. results[Health!Max(Health!failing(id))] # "ok"
    BY <2>1 DEF Health!failing
  <2> QED BY <1>2, <2>2 DEF Health!entry
<1> QED BY <1>1, <1>2

LEMMA HealthInit == Health!Init => HealthInv
<1> SUFFICES ASSUME Health!Init PROVE HealthInv
  OBVIOUS
<1> USE HealthAssumption DEF Health!ChecksAssumption, Health!Init, Health!seeded
<1>1. HealthTypes
  BY DEF HealthTypes
<1>2. ReportInv /\ ChannelInv /\ WrittenInv
  BY DEF ReportInv, ChannelInv, WrittenInv
<1>3. Missing = Health!Checks
  BY DEF Missing
<1>4. CollectInv
  <2>1. CASE N = 0
    <3>1. Health!Checks = {}
      BY <2>1 DEF Health!Checks
    <3> QED BY <1>3, <2>1, <3>1 DEF CollectInv
  <2>2. CASE N # 0
    BY <1>3, <2>2, ChecksAreFinite DEF CollectInv
  <2> QED BY <2>1, <2>2
<1> QED BY <1>1, <1>2, <1>4 DEF HealthInv

\* The steps of the checks: a report is new, and stays in the channel.
LEMMA CheckKeeps ==
  ASSUME HealthInv, NEW i \in Health!Checks,
         Health!send(i) \/ \E o \in Health!Outcomes : Health!runCheck(i, o)
  PROVE  HealthInv'
<1>0. HealthTypes /\ ReportInv /\ ChannelInv /\ CollectInv /\ WrittenInv
  BY DEF HealthInv
<1>1. UNCHANGED <<handler, remaining, results, status, data, done>>
  BY DEF Health!send, Health!runCheck, Health!request
<1>2. WrittenInv' /\ Missing' = Missing
  BY <1>0, <1>1 DEF WrittenInv, Missing, Health!failing, Health!Checks, Health!IDs
<1>3. CASE Health!send(i)
  <2>1. /\ check[i] = "sending" /\ outcome' = outcome
        /\ resCh' = resCh \union {[index |-> i, err |-> outcome[i]]}
        /\ check' = [check EXCEPT ![i] = "exited"]
    BY <1>3 DEF Health!send
  <2>2. inTime' = IF done THEN inTime ELSE inTime \union {i}
    BY <1>3 DEF Health!send
  <2>3. outcome[i] \in {"ok", "error", "panic", "nil"} /\ results[i] = "timeout"
    BY <1>0, <2>1 DEF ReportInv
  <2>4. HealthTypes'
    BY <1>0, <1>1, <2>1, <2>2, <2>3 DEF HealthTypes, Health!Checks
  <2>5. \A j \in Health!Checks : check'[j] = IF j = i THEN "exited" ELSE check[j]
    BY <1>0, <2>1 DEF HealthTypes
  <2>6. ReportInv'
    BY <1>0, <1>1, <2>1, <2>2, <2>3, <2>5 DEF ReportInv, Health!Checks
  <2>7. ChannelInv'
    <3> SUFFICES ASSUME NEW r \in resCh'
                 PROVE  check'[r.index] = "exited" /\ results'[r.index] = "timeout" /\ r.err = outcome'[r.index]
      BY DEF ChannelInv
    <3>1. CASE r \in resCh
      <4>1. r.index \in Health!Checks
        BY <1>0, <3>1 DEF HealthTypes
      <4> QED BY <1>0, <1>1, <2>1, <2>5, <3>1, <4>1 DEF ChannelInv
    <3>2. CASE r = [index |-> i, err |-> outcome[i]]
      BY <1>1, <2>1, <2>3, <2>5, <3>2
    <3> QED BY <2>1, <3>1, <3>2
  <2>8. CollectInv'
    <3>1. handler \in {"write", "written"} => done
      BY <1>0, <2>3 DEF CollectInv, Missing
    <3>2. handler \in {"write", "written"} => inTime' = inTime
      BY <2>2, <3>1
    <3> QED BY <1>0, <1>1, <1>2, <3>2 DEF CollectInv
  <2> QED BY <1>2, <2>4, <2>6, <2>7, <2>8 DEF HealthInv
<1>4. ASSUME NEW o \in Health!Outcomes, Health!runCheck(i, o) PROVE HealthInv'
  <2>1. /\ check[i] = "running" /\ UNCHANGED <<resCh, inTime>>
        /\ outcome' = [outcome EXCEPT ![i] = IF i \in NoChecker THEN "nil" ELSE o]
        /\ check' = [check EXCEPT ![i] = "sending"]
        /\ o \in {"ok", "error", "panic"}
    BY <1>4 DEF Health!runCheck, Health!Outcomes
  <2>2. HealthTypes'
    BY <1>0, <1>1, <2>1 DEF HealthTypes, Health!Checks
  <2>3. results[i] = "timeout" /\ i \notin inTime
    BY <1>0, <2>1 DEF ReportInv
  <2>4. \A j \in Health!Checks :
          /\ check'[j] = IF j = i THEN "sending" ELSE check[j]
          /\ j # i => outcome'[j] = outcome[j]
    BY <1>0, <2>1 DEF HealthTypes
  <2>5. outcome'[i] \in {"ok", "error", "panic", "nil"}
    BY <1>0, <2>1 DEF HealthTypes
  <2>6. ReportInv'
    BY <1>0, <1>1, <2>1, <2>3, <2>4, <2>5 DEF ReportInv, Health!Checks
  <2>7. ChannelInv'
    <3> SUFFICES ASSUME NEW r \in resCh
                 PROVE  check'[r.index] = "exited" /\ results'[r.index] = "timeout" /\ r.err = outcome'[r.index]
      BY <2>1 DEF ChannelInv
    <3>1. r.index \in Health!Checks /\ r.index # i
      BY <1>0, <2>1 DEF HealthTypes, ChannelInv
    <3> QED BY <1>0, <1>1, <2>4, <3>1 DEF ChannelInv
  <2>8. CollectInv'
    BY <1>0, <1>1, <1>2, <2>1 DEF CollectInv
  <2> QED BY <1>2, <2>2, <2>6, <2>7, <2>8 DEF HealthInv
<1> QED BY <1>3, <1>4


\* A report that is collected is the check's, and was missing.
LEMMA RecordKeeps ==
  ASSUME HealthInv, NEW r \in resCh, Health!record(r), UNCHANGED <<check, outcome, inTime>>
  PROVE  /\ results' \in [Health!Checks -> {"timeout", "ok", "error", "panic", "nil"}]
         /\ resCh' \subseteq [index : Health!Checks, err : {"ok", "error", "panic", "nil"}]
         /\ ReportInv' /\ ChannelInv'
         /\ r.index \in Missing /\ Missing' = Missing \ {r.index}
<1>0. HealthTypes /\ ReportInv /\ ChannelInv
  BY DEF HealthInv
<1>1. resCh' = resCh \ {r} /\ results' = [results EXCEPT ![r.index] = r.err]
  BY DEF Health!record
<1>2. /\ r.index \in Health!Checks /\ r.err \in {"ok", "error", "panic", "nil"}
      /\ r = [index |-> r.index, err |-> r.err]
  BY <1>0 DEF HealthTypes
<1>3. check[r.index] = "exited" /\ results[r.index] = "timeout" /\ r.err = outcome[r.index]
  BY <1>0 DEF ChannelInv
<1>4. \A j \in Health!Checks : results'[j] = IF j = r.index THEN r.err ELSE results[j]
  BY <1>0, <1>1 DEF HealthTypes
<1>5. /\ results' \in [Health!Checks -> {"timeout", "ok", "error", "panic", "nil"}]
      /\ resCh' \subseteq [index : Health!Checks, err : {"ok", "error", "panic", "nil"}]
  BY <1>0, <1>1, <1>2 DEF HealthTypes
<1>6. ReportInv'
  <2> SUFFICES ASSUME NEW i \in Health!Checks
      PROVE  /\ results'[i] # "timeout" => check'[i] = "exited" /\ results'[i] = outcome'[i]
             /\ (check'[i] = "exited" /\ results'[i] = "timeout")
                  => outcome'[i] # "none" /\ [index |-> i, err |-> outcome'[i]] \in resCh'
             /\ check'[i] = "sending" => outcome'[i] \in {"ok", "error", "panic", "nil"}
             /\ i \in inTime' => check'[i] = "exited"
    BY DEF ReportInv, Health!Checks
  <2>1. CASE i = r.index
    BY <1>0, <1>2, <1>3, <1>4, <2>1 DEF ReportInv
  <2>2. CASE i # r.index
    <3>1. [index |-> i, err |-> outcome[i]] # r
      BY <1>2, <2>2
    <3> QED BY <1>0, <1>1, <1>4, <2>2, <3>1 DEF ReportInv
  <2> QED BY <2>1, <2>2
<1>7. ChannelInv'
  <2> SUFFICES ASSUME NEW q \in resCh, q # r
               PROVE  check'[q.index] = "exited" /\ results'[q.index] = "timeout" /\ q.err = outcome'[q.index]
    BY <1>1 DEF ChannelInv
  <2>1. /\ q.index \in Health!Checks /\ q = [index |-> q.index, err |-> q.err]
        /\ q.err = outcome[q.index] /\ check[q.index] = "exited" /\ results[q.index] = "timeout"
    BY <1>0 DEF HealthTypes, ChannelInv
  <2>2. q.index # r.index
    BY <1>2, <1>3, <2>1
  <2> QED BY <1>4, <2>1, <2>2
<1>8. r.index \in Missing /\ Missing' = Missing \ {r.index}
  BY <1>2, <1>3, <1>4 DEF Missing, Health!Checks
<1> QED BY <1>5, <1>6, <1>7, <1>8

\* The steps of the request goroutine.
LEMMA CollectingKeeps == ASSUME HealthInv, Health!Collecting PROVE HealthInv'
<1>0. HealthTypes /\ ReportInv /\ ChannelInv /\ CollectInv /\ WrittenInv
  BY DEF HealthInv
<1>1. ASSUME NEW r \in resCh, Health!collect(r) PROVE HealthInv'
  <2>1. /\ handler = "collect" /\ Health!record(r) /\ remaining' = remaining - 1
        /\ handler' = IF remaining = 1 THEN "write" ELSE "collect"
        /\ UNCHANGED <<status, data, done, check, outcome, inTime>>
    BY <1>1 DEF Health!collect, Health!collected, Health!checkers
  <2>2. /\ results' \in [Health!Checks -> {"timeout", "ok", "error", "panic", "nil"}]
        /\ resCh' \subseteq [index : Health!Checks, err : {"ok", "error", "panic", "nil"}]
        /\ ReportInv' /\ ChannelInv'
        /\ r.index \in Missing /\ Missing' = Missing \ {r.index}
    BY <2>1, RecordKeeps
  <2>3. IsFiniteSet(Missing) /\ remaining > 0 /\ remaining = Cardinality(Missing)
    BY <1>0, <2>1, ChecksAreFinite DEF CollectInv, Missing
  <2>4. IsFiniteSet(Missing') /\ Cardinality(Missing') = remaining - 1
    BY <2>2, <2>3, FS_RemoveElement
  <2>5. remaining - 1 \in Nat /\ handler' \in {"collect", "write"}
    BY <1>0, <2>1, <2>3 DEF HealthTypes
  <2>6. HealthTypes'
    BY <1>0, <2>1, <2>2, <2>5 DEF HealthTypes, Health!Checks
  <2>7. CollectInv'
    <3>1. CASE remaining = 1
      <4>1. Missing' = {}
        BY <2>4, <3>1, FS_EmptySet
      <4>2. \A i \in inTime' : results'[i] # "timeout"
        BY <2>6, <4>1 DEF Missing, HealthTypes, Health!Checks
      <4> QED BY <2>1, <3>1, <4>1, <4>2 DEF CollectInv
    <3>2. CASE remaining # 1
      <4>1. remaining \in Nat
        BY <1>0 DEF HealthTypes
      <4>2. handler' = "collect" /\ remaining' > 0 /\ remaining' = Cardinality(Missing')
        BY <2>1, <2>3, <2>4, <3>2, <4>1
      <4> QED BY <4>2 DEF CollectInv
    <3> QED BY <3>1, <3>2
  <2>8. WrittenInv'
    BY <2>5 DEF WrittenInv
  <2> QED BY <2>2, <2>6, <2>7, <2>8 DEF HealthInv
<1>2. ASSUME NEW r \in resCh, Health!drainResults(r) PROVE HealthInv'
  <2>1. /\ handler = "drain" /\ Health!record(r)
        /\ UNCHANGED <<handler, remaining, status, data, done, check, outcome, inTime>>
    BY <1>2 DEF Health!drainResults, Health!checkers
  <2>2. /\ results' \in [Health!Checks -> {"timeout", "ok", "error", "panic", "nil"}]
        /\ resCh' \subseteq [index : Health!Checks, err : {"ok", "error", "panic", "nil"}]
        /\ ReportInv' /\ ChannelInv'
    BY <2>1, RecordKeeps
  <2>3. HealthTypes'
    BY <1>0, <2>1, <2>2 DEF HealthTypes, Health!Checks
  <2>4. CollectInv' /\ WrittenInv'
    BY <1>0, <2>1 DEF CollectInv, WrittenInv
  <2> QED BY <2>2, <2>3, <2>4 DEF HealthInv
<1>3. ASSUME Health!stopCollecting PROVE HealthInv'
  <2>1. /\ handler = "collect" /\ done /\ handler' = "drain"
        /\ UNCHANGED <<remaining, results, status, data, resCh, done, check, outcome, inTime>>
    BY <1>3 DEF Health!stopCollecting, Health!onDone, Health!checkers
  <2>2. HealthTypes'
    BY <1>0, <2>1 DEF HealthTypes, Health!Checks
  <2>3. ReportInv' /\ ChannelInv'
    BY <1>0, <2>1 DEF ReportInv, ChannelInv, Health!Checks
  <2>4. CollectInv' /\ WrittenInv'
    BY <2>1 DEF CollectInv, WrittenInv
  <2> QED BY <2>2, <2>3, <2>4 DEF HealthInv
<1>4. ASSUME Health!drained PROVE HealthInv'
  <2>1. /\ handler = "drain" /\ resCh = {} /\ handler' = "write"
        /\ UNCHANGED <<remaining, results, status, data, resCh, done, check, outcome, inTime>>
    BY <1>4 DEF Health!drained, Health!checkers
  <2>2. HealthTypes'
    BY <1>0, <2>1 DEF HealthTypes, Health!Checks
  <2>3. ReportInv' /\ ChannelInv'
    BY <1>0, <2>1 DEF ReportInv, ChannelInv, Health!Checks
  <2>4. \A i \in inTime : results[i] # "timeout"
    BY <1>0, <2>1 DEF HealthTypes, ReportInv
  <2>5. CollectInv' /\ WrittenInv'
    BY <1>0, <2>1, <2>4 DEF CollectInv, WrittenInv
  <2> QED BY <2>2, <2>3, <2>5 DEF HealthInv
<1>5. ASSUME Health!ServeHTTP PROVE HealthInv'
  <2>1. /\ handler = "write" /\ handler' = "written"
        /\ status' = IF \E i \in Health!Checks : results[i] # "ok" THEN 503 ELSE 200
        /\ data' = [id \in Health!IDs |-> Health!entry(id)]
        /\ UNCHANGED <<remaining, results, resCh, done, check, outcome, inTime>>
    BY <1>5 DEF Health!ServeHTTP, Health!checkers
  <2>2. HealthTypes'
    BY <1>0, <2>1 DEF HealthTypes, Health!Checks
  <2>3. ReportInv' /\ ChannelInv'
    BY <1>0, <2>1 DEF ReportInv, ChannelInv, Health!Checks
  <2>4. CollectInv'
    BY <1>0, <2>1 DEF CollectInv, Missing, Health!Checks
  <2>5. \A id \in Health!IDs : data'[id] = "ok" <=> Health!failing(id) = {}
    BY <2>1, EntryTells
  <2>6. \A id : Health!failing(id)' = Health!failing(id)
    BY <2>1 DEF Health!failing, Health!Checks
  <2>7. WrittenInv'
    BY <2>1, <2>5, <2>6 DEF WrittenInv, Health!Checks, Health!IDs
  <2> QED BY <2>2, <2>3, <2>4, <2>7 DEF HealthInv
<1> QED BY <1>1, <1>2, <1>3, <1>4, <1>5 DEF Health!Collecting

LEMMA HealthKeeps == ASSUME HealthInv, Health!Next PROVE HealthInv'
<1>1. ASSUME Health!contextEnds PROVE HealthInv'
  <2>0. HealthTypes /\ ReportInv /\ ChannelInv /\ CollectInv /\ WrittenInv
    BY DEF HealthInv
  <2>1. done' = TRUE /\ UNCHANGED <<handler, remaining, results, status, data, resCh, check, outcome, inTime>>
    BY <1>1 DEF Health!contextEnds, Health!request, Health!checkers
  <2>2. HealthTypes'
    BY <2>0, <2>1 DEF HealthTypes, Health!Checks
  <2>3. ReportInv' /\ ChannelInv'
    BY <2>0, <2>1 DEF ReportInv, ChannelInv, Health!Checks
  <2>4. CollectInv'
    BY <2>0, <2>1 DEF CollectInv, Missing, Health!Checks
  <2>5. WrittenInv'
    BY <2>0, <2>1 DEF WrittenInv, Health!failing, Health!Checks, Health!IDs
  <2> QED BY <2>2, <2>3, <2>4, <2>5 DEF HealthInv
<1> QED BY <1>1, CheckKeeps, CollectingKeeps DEF Health!Next


-----------------------------------------------------------------------------
(* The packages together *)

BgInv == LoopInv /\ HealthInv

LEMMA InitBgInv == BgInit => BgInv
  BY InitLoopInv, HealthInit DEF BgInit, BgInv

LEMMA NextBgInv == BgInv /\ [BgNext]_bgVars => BgInv'
<1> SUFFICES ASSUME BgInv, [BgNext]_bgVars PROVE BgInv'
  OBVIOUS
<1>1. UNCHANGED health => HealthInv'
  <2> SUFFICES ASSUME UNCHANGED health PROVE HealthInv'
    OBVIOUS
  <2>0. HealthTypes /\ ReportInv /\ ChannelInv /\ CollectInv /\ WrittenInv
    BY DEF BgInv, HealthInv
  <2>1. UNCHANGED <<handler, remaining, results, resCh, done, check, outcome, status, data, inTime>>
    BY DEF health
  <2>2. HealthTypes' /\ ReportInv' /\ ChannelInv'
    BY <2>0, <2>1 DEF HealthTypes, ReportInv, ChannelInv, Health!Checks
  <2>3. CollectInv'
    BY <2>0, <2>1 DEF CollectInv, Missing, Health!Checks
  <2>4. WrittenInv'
    BY <2>0, <2>1 DEF WrittenInv, Health!failing, Health!Checks, Health!IDs
  <2> QED BY <2>2, <2>3, <2>4 DEF HealthInv
<1>2. UNCHANGED vars => LoopInv'
  BY NextKeeps DEF BgInv
<1>3. CASE Scheduling(Next)
  BY <1>1, <1>3, NextKeeps DEF Scheduling, BgInv
<1>4. CASE Checking(Health!Next)
  BY <1>2, <1>4, HealthKeeps DEF Checking, BgInv
<1>5. CASE UNCHANGED bgVars
  BY <1>1, <1>2, <1>5 DEF bgVars, BgInv
<1> QED BY <1>3, <1>4, <1>5 DEF BgNext

LEMMA AlwaysBgInv == BgSpec => []BgInv
  BY InitBgInv, NextBgInv, PTL DEF BgSpec

\* Start, Stop and the goroutine keep the scheduler's fields well formed, and no done channel is
\* closed twice, which would panic.
THEOREM ScheduleIsWellFormed == BgSpec => []TypeOK
<1>1. BgInv => TypeOK
  BY DEF BgInv, LoopInv
<1> QED BY <1>1, AlwaysBgInv, PTL

\* However many calls of Start race, at most one launches a goroutine.
THEOREM LaunchesOnce == BgSpec => []OneLoop
<1>1. BgInv => OneLoop
  BY DEF BgInv, LoopInv
<1> QED BY <1>1, AlwaysBgInv, PTL

\* After any Stop has returned no invocation of the task is running and none will, however many
\* calls of Start and Stop race and whenever contexts end.
THEOREM StopEndsTheSchedule == BgSpec => []StoppedForGood
<1>1. BgInv => StoppedForGood
  BY LoopInvStops DEF BgInv
<1> QED BY <1>1, AlwaysBgInv, PTL

\* However many checks are registered, under whichever IDs, and whatever they do while the
\* context ends: the answer is 200 only if every check passed, its map agrees, and no check that
\* reported in time is answered for as timed out.
THEOREM AnswersAreTrue == BgSpec => []AnswerIsTrue
<1>1. BgInv => AnswerIsTrue
  <2> SUFFICES ASSUME HealthTypes, ReportInv, CollectInv, WrittenInv, handler = "written"
               PROVE  Health!AnswerIsTrue
    BY DEF BgInv, HealthInv, AnswerIsTrue, Health!AnswerIsTrue
  <2>1. \A i \in inTime : results[i] = outcome[i]
    BY DEF HealthTypes, CollectInv, ReportInv
  <2>2. \A i \in Health!Checks : results[i] = outcome[i] \/ (results[i] = "timeout" /\ done)
    BY DEF CollectInv, ReportInv, Missing
  <2>3. (status = 200) = (\A i \in Health!Checks : results[i] = "ok")
    <3>1. CASE \E i \in Health!Checks : results[i] # "ok"
      <4>1. status = 503
        BY <3>1 DEF WrittenInv
      <4>2. (status = 200) = FALSE
        BY <4>1
      <4>3. (\A i \in Health!Checks : results[i] = "ok") = FALSE
        BY <3>1
      <4> QED BY <4>2, <4>3
    <3>2. CASE ~\E i \in Health!Checks : results[i] # "ok"
      <4>1. status = 200
        BY <3>2 DEF WrittenInv
      <4> QED BY <3>2, <4>1
    <3> QED BY <3>1, <3>2
  <2>4. \A id \in Health!IDs : data[id] = "ok" <=> Health!failing(id) = {}
    BY DEF WrittenInv
  <2>5. \A i \in Health!Checks : ID[i] \in Health!IDs
    BY DEF Health!IDs
  <2>6. \A i \in Health!Checks : results[i] # "ok" => data[ID[i]] # "ok"
    BY <2>4, <2>5 DEF Health!failing
  <2>7. (\A i \in Health!Checks : results[i] = "ok") => \A id \in Health!IDs : data[id] = "ok"
    BY <2>4 DEF Health!failing
  <2>8. (status = 200) = (\A id \in Health!IDs : data[id] = "ok")
    BY <2>3, <2>5, <2>6, <2>7
  <2> QED BY <2>1, <2>2, <2>3, <2>6, <2>8 DEF Health!AnswerIsTrue
<1> QED BY <1>1, AlwaysBgInv, PTL

\* "a check can always deliver its result without blocking, even after collection has stopped":
\* a check that has something to send finds room in the channel.
THEOREM SendersNeverBlock ==
  BgSpec => [](\A i \in Health!Checks : check[i] = "sending" => Cardinality(resCh) < Health!capacity)
<1>1. BgInv => \A i \in Health!Checks : check[i] = "sending" => Cardinality(resCh) < Health!capacity
  <2> SUFFICES ASSUME HealthTypes, ChannelInv, NEW i \in Health!Checks, check[i] = "sending"
               PROVE  Cardinality(resCh) < N
    BY DEF BgInv, HealthInv, Health!capacity
  <2> DEFINE f == [r \in resCh |-> r.index]
             T == Health!Checks \ {i}
  <2>1. N \in Nat
    BY HealthAssumption DEF Health!ChecksAssumption
  <2>2. IsFiniteSet(T) /\ Cardinality(T) = N - 1
    BY ChecksAreFinite, FS_RemoveElement
  <2>3. \A r \in resCh : r.index \in T /\ r = [index |-> r.index, err |-> r.err] /\ r.err = outcome[r.index]
    BY DEF HealthTypes, ChannelInv
  <2>4. f \in [resCh -> T]
    BY <2>3
  <2>5. \A r, q \in resCh : f[r] = f[q] => r = q
    BY <2>3
  <2>6. f \in Injection(resCh, T)
    BY <2>4, <2>5 DEF Injection, IsInjective
  <2>7. IsFiniteSet(resCh) /\ Cardinality(resCh) <= Cardinality(T)
    <3> HIDE DEF f, T
    <3> QED BY <2>2, <2>6, FS_Injection
  <2>8. Cardinality(resCh) \in Nat
    BY <2>7, FS_CardinalityType
  <2> QED BY <2>1, <2>2, <2>7, <2>8
<1> QED BY <1>1, AlwaysBgInv, PTL


=============================================================================
