---------------------------- MODULE OutboundProofs ----------------------------
(***************************************************************************)
(* What an outbound call goes through, for any number of attempts, any     *)
(* width of the integers and any header: the retry loops keep the promises *)
(* of RetrySpec, announce what they should, consume no body twice and wait *)
(* as long as the server asked.  None of these is inductive by itself:     *)
(* each needs to know what the loop left behind at its last attempt, which *)
(* RetryInv and HTTPInv say for every place the loops can be in.           *)
(*                                                                         *)
(* No backoff schedule, however configured and however often it is asked,  *)
(* returns a negative or overflowing delay; every delay is in its          *)
(* strategy's band; and MaxDelay caps it before the jitter.                *)
(***************************************************************************)
EXTENDS Outbound, TLAPS

-----------------------------------------------------------------------------
(* backoff *)

\* maxSafeDelay leaves room for itself: MaxInt is odd.
LEMMA Halves == maxSafeDelay \in Nat /\ 2 * maxSafeDelay + 1 = MaxInt
  BY MaxIntAssumption DEF maxSafeDelay

\* addJitterValue saturates: the sum is a duration, and no smaller than the delay.
LEMMA JitterSaturates ==
  ASSUME NEW base \in 0..MaxInt, NEW j \in 0..MaxInt
  PROVE  /\ addJitterValue(base, j) \in base..MaxInt
         /\ base + j <= MaxInt => addJitterValue(base, j) = base + j
  BY MaxIntAssumption DEF addJitterValue, Wrap

\* AddJitter returns a duration of at least base, and below base + ceil if that can be.
LEMMA JitterBounds ==
  ASSUME NEW base \in 0..MaxInt, NEW ceil \in Durations, NEW d \in AddJitter(base, ceil)
  PROVE  /\ d \in base..MaxInt
         /\ base + ceil <= MaxInt => d < base + ceil \/ d = base
<1>1. CASE ceil <= 0
  BY <1>1, MaxIntAssumption DEF AddJitter, Durations
<1>2. CASE ceil > 0
  <2>1. PICK j \in 0..(ceil - 1) : d = addJitterValue(base, j)
    BY <1>2, MaxIntAssumption DEF AddJitter, Durations
  <2>2. j \in 0..MaxInt
    BY <1>2, MaxIntAssumption DEF Durations
  <2> QED BY <2>1, <2>2, <1>2, JitterSaturates, MaxIntAssumption DEF Durations
<1> QED BY <1>1, <1>2, MaxIntAssumption DEF Durations

\* What a configuration is.
LEMMA CfgType ==
  ASSUME TypeOK
  PROVE  /\ cfg.base \in Durations /\ cfg.jitter \in Durations /\ cfg.maxDelay \in Durations
         /\ cfg.factor \in Int \union {NaN} /\ cfg.strategy \in Strategies
  BY ConfigsAssumption DEF TypeOK, ConfigType

\* Rounding stays between the bounds that are floats themselves: 0, and maxSafeDelay's float.
LEMMA FloatBounds ==
  /\ \A x \in 0..maxSafeDelay : Float(x) \in 0..(maxSafeDelay + 1)
  /\ \A x \in 0..MaxInt : Float(x) \in Nat
  /\ \A x \in Durations : Float(x) \in Magnitudes /\ x \in Magnitudes
  /\ maxSafeDelay + 1 \in Magnitudes /\ 0 \in Magnitudes
<1> USE Halves, MaxIntAssumption
<1>1. FloatMax \in Nat /\ FloatMax > MaxInt /\ Exact \in 0..maxSafeDelay
  BY FloatAssumption
<1>2. /\ Durations \subseteq Magnitudes /\ 0..MaxInt \subseteq Magnitudes
      /\ maxSafeDelay \in Magnitudes /\ 0 \in Magnitudes /\ maxSafeDelay + 1 \in Magnitudes
  BY <1>1 DEF Durations, Magnitudes
<1>3. 0 \in -Exact..Exact /\ 0..maxSafeDelay \subseteq 0..MaxInt
  BY <1>1
<1>4. Float(0) = 0 /\ Float(maxSafeDelay) = maxSafeDelay + 1
  BY <1>3, FloatAssumption
<1>5. \A x \in Magnitudes : Float(x) \in Magnitudes
  BY FloatAssumption
<1>6. \A x \in 0..MaxInt : 0 <= Float(x)
  <2> TAKE x \in 0..MaxInt
  <2>1. Float(0) <= Float(x)
    BY <1>2, FloatAssumption
  <2> QED BY <1>4, <2>1
<1>7. \A x \in 0..maxSafeDelay : Float(x) <= maxSafeDelay + 1
  <2> TAKE x \in 0..maxSafeDelay
  <2>1. Float(x) <= Float(maxSafeDelay)
    BY <1>2, <1>3, FloatAssumption
  <2> QED BY <1>4, <2>1
<1>8. \A x \in 0..MaxInt : Float(x) \in Nat
  BY <1>1, <1>2, <1>5, <1>6 DEF Magnitudes
<1> QED BY <1>2, <1>3, <1>5, <1>7, <1>8

\* The delay before its jitter lies between 0 and the clamp, give or take float64.
LEMMA ClampedBounds ==
  ASSUME TypeOK
  PROVE  /\ clamped \in 0..(maxSafeDelay + 1)
         /\ cfg.maxDelay > 0 => /\ clamped <= Float(cfg.maxDelay)
                                /\ cfg.maxDelay <= Exact => clamped <= cfg.maxDelay
<1>1. Clamp \in 0..maxSafeDelay
  BY CfgType, Halves, MaxIntAssumption DEF Clamp, Durations
<1>2. Float(Clamp) \in 0..(maxSafeDelay + 1)
  BY <1>1, FloatBounds
<1>3. ASSUME cfg.maxDelay > 0 PROVE Clamp <= cfg.maxDelay /\ Clamp \in Magnitudes /\ cfg.maxDelay \in Magnitudes
  <2>1. cfg.maxDelay \in Durations
    BY CfgType
  <2>2. Clamp <= cfg.maxDelay
    BY <1>3, <2>1, Halves, MaxIntAssumption DEF Clamp, Durations
  <2>3. Clamp \in Durations
    BY <1>1, Halves, MaxIntAssumption DEF Durations
  <2> QED BY <2>1, <2>2, <2>3, FloatBounds
<1>4. cfg.maxDelay > 0 => Float(Clamp) <= Float(cfg.maxDelay)
  BY <1>3, FloatAssumption
<1>5. (cfg.maxDelay > 0 /\ cfg.maxDelay <= Exact) => Float(cfg.maxDelay) = cfg.maxDelay
  <2> SUFFICES ASSUME cfg.maxDelay > 0, cfg.maxDelay <= Exact PROVE Float(cfg.maxDelay) = cfg.maxDelay
    OBVIOUS
  <2>1. cfg.maxDelay \in -Exact..Exact
    BY CfgType, FloatAssumption, MaxIntAssumption, Halves DEF Durations
  <2> QED BY <2>1, FloatAssumption
<1>6. clamped \in 0..Float(Clamp)
  BY <1>2, Halves DEF clamped, TypeOK
<1>7. cfg.maxDelay \in Int /\ Float(cfg.maxDelay) \in Int
  BY CfgType, FloatBounds, FloatAssumption, MaxIntAssumption DEF Durations, Magnitudes
<1> QED BY <1>2, <1>4, <1>5, <1>6, <1>7, Halves

\* A product of the progression is a float.
LEMMA TimesType ==
  ASSUME NEW x \in Int \union {NaN}, NEW y \in Int \union {NaN}
  PROVE  Times(x, y) \in Magnitudes \union {NaN}
<1>1. CASE x = NaN \/ y = NaN
  BY <1>1 DEF Times
<1>2. CASE x # NaN /\ y # NaN
  <2>1. PICK p \in Int : p = x * y
    BY <1>2
  <2>2. Saturated(p) \in Magnitudes
    BY <2>1, FloatAssumption DEF Saturated, Magnitudes
  <2> QED BY <1>2, <2>1, <2>2, FloatAssumption DEF Times
<1> QED BY <1>1, <1>2

\* The progression stays a number or NaN.
LEMMA GrownType == ASSUME TypeOK PROVE grown \in Int \union {NaN}
<1>1. Times(next, cfg.factor) \in Int \union {NaN}
  <2>1. Times(next, cfg.factor) \in Magnitudes \union {NaN}
    BY CfgType, TimesType DEF TypeOK
  <2>2. Magnitudes \subseteq Int
    BY FloatAssumption DEF Magnitudes
  <2> QED BY <2>1, <2>2
<1>2. Float(maxSafeDelay) = maxSafeDelay + 1
  BY FloatAssumption
<1> QED BY <1>1, <1>2, Halves DEF grown

\* Every strategy keeps the delay a duration, and in its band.
LEMMA StrategyBounds ==
  ASSUME TypeOK, NEW p \in 0..(maxSafeDelay + 1), NEW d \in applyJitter(p)
  PROVE  /\ d \in 0..MaxInt
         /\ cfg.strategy = "full" => d < p \/ (d = 0 /\ p = 0)
         /\ cfg.strategy = "equal" => d >= p \div 2 /\ (d < p \/ d = p \div 2)
         /\ cfg.strategy = "additive" => d >= p
<1> USE Halves, MaxIntAssumption
<1>0. p \in 0..MaxInt /\ p \in Durations
  BY DEF Durations
<1>1. CASE cfg.strategy = "full"
  <2>1. d \in AddJitter(0, p)
    BY <1>1 DEF applyJitter
  <2> QED BY <1>0, <1>1, <2>1, JitterBounds
<1>2. CASE cfg.strategy = "equal"
  <2>1. d \in AddJitter(p \div 2, p - (p \div 2))
    BY <1>2 DEF applyJitter
  <2>2. p \div 2 \in 0..MaxInt /\ p - (p \div 2) \in Durations /\ p \div 2 <= p
    BY <1>0 DEF Durations
  <2>3. p \div 2 + (p - (p \div 2)) = p
    BY <1>0, <2>2
  <2> QED BY <1>0, <1>2, <2>1, <2>2, <2>3, JitterBounds
<1>3. CASE cfg.strategy = "additive"
  <2>1. d \in AddJitter(p, cfg.jitter)
    BY <1>3 DEF applyJitter
  <2>2. d \in p..MaxInt
    BY <1>0, <2>1, CfgType, JitterBounds
  <2> QED BY <1>0, <1>3, <2>2
<1> QED BY <1>1, <1>2, <1>3, CfgType DEF Strategies

\* The inductive invariant: the three state properties together.
DelayInv == TypeOK /\ CappedByMaxDelay /\ JitterStaysInBand

LEMMA InitDelayInv == Init => DelayInv
<1> SUFFICES ASSUME Init PROVE DelayInv
  OBVIOUS
<1>1. TypeOK
  <2>1. cfg.base \in Durations
    BY ConfigsAssumption DEF Init, ConfigType
  <2>2. next \in Int
    BY <2>1, FloatBounds, FloatAssumption DEF Init, Magnitudes
  <2> QED BY <2>2, Halves, MaxIntAssumption DEF Init, TypeOK
<1>2. CappedByMaxDelay
  <2>1. cfg.maxDelay \in Durations /\ pre = 0
    BY <1>1, CfgType DEF Init
  <2>2. cfg.maxDelay > 0 => cfg.maxDelay \in 0..MaxInt
    BY <2>1, MaxIntAssumption DEF Durations
  <2>3. cfg.maxDelay > 0 => Float(cfg.maxDelay) \in Nat /\ cfg.maxDelay \in Nat
    BY <2>2, FloatBounds, MaxIntAssumption
  <2> QED BY <2>1, <2>3 DEF CappedByMaxDelay
<1>3. JitterStaysInBand
  <2>1. pre = 0 /\ delay = 0 /\ 0 \div 2 = 0
    BY DEF Init
  <2>2. cfg.strategy \in Strategies
    BY <1>1, CfgType
  <2>3. /\ delay < pre \/ (delay = 0 /\ pre = 0)
        /\ delay >= pre \div 2 /\ (delay < pre \/ delay = pre \div 2)
        /\ delay >= pre
    BY <2>1
  <2>4. CASE cfg.strategy = "full"
    BY <2>3, <2>4 DEF JitterStaysInBand
  <2>5. CASE cfg.strategy = "equal"
    BY <2>3, <2>5 DEF JitterStaysInBand
  <2>6. CASE cfg.strategy = "additive"
    BY <2>3, <2>6 DEF JitterStaysInBand
  <2> QED BY <2>2, <2>4, <2>5, <2>6 DEF Strategies
<1> QED BY <1>1, <1>2, <1>3 DEF DelayInv

LEMMA NextKeeps == DelayInv /\ [Next]_vars => DelayInv'
<1> SUFFICES ASSUME DelayInv, [Next]_vars PROVE DelayInv'
  OBVIOUS
<1>1. CASE Next
  <2>0. TypeOK
    BY DEF DelayInv
  <2>1. cfg' = cfg /\ pre' \in 0..(maxSafeDelay + 1) /\ delay' \in applyJitter(pre')
    BY <1>1, <2>0, ClampedBounds DEF Next
  <2>2. /\ delay' \in 0..MaxInt
        /\ cfg.strategy = "full" => delay' < pre' \/ (delay' = 0 /\ pre' = 0)
        /\ cfg.strategy = "equal" => delay' >= pre' \div 2 /\ (delay' < pre' \/ delay' = pre' \div 2)
        /\ cfg.strategy = "additive" => delay' >= pre'
    BY <2>0, <2>1, StrategyBounds
  <2>3. TypeOK'
    BY <1>1, <2>0, <2>1, <2>2, GrownType DEF Next, TypeOK
  <2>4. CappedByMaxDelay'
    BY <1>1, <2>0, ClampedBounds DEF Next, CappedByMaxDelay
  <2>5. JitterStaysInBand'
    BY <2>0, <2>1, <2>2, CfgType DEF JitterStaysInBand, Strategies
  <2> QED BY <2>3, <2>4, <2>5 DEF DelayInv
<1>2. CASE UNCHANGED vars
  BY <1>2 DEF DelayInv, TypeOK, CappedByMaxDelay, JitterStaysInBand, maxSafeDelay, vars
<1> QED BY <1>1, <1>2

LEMMA AlwaysDelayInv == Spec => []DelayInv
  BY InitDelayInv, NextKeeps, PTL DEF Spec

\* Next never returns a negative or overflowing delay, whatever the configuration: "can
\* never overflow into a negative duration at high attempt counts".
THEOREM DelaysAreDurations == Spec => []TypeOK
<1>1. DelayInv => TypeOK
  BY DEF DelayInv
<1> QED BY <1>1, AlwaysDelayInv, PTL

\* MaxDelay caps every delay before its jitter: exactly where float64 is exact, and up to the
\* rounding of MaxDelay beyond.
THEOREM MaxDelayCaps == Spec => []CappedByMaxDelay
<1>1. DelayInv => CappedByMaxDelay
  BY DEF DelayInv
<1> QED BY <1>1, AlwaysDelayInv, PTL

\* applyJitter keeps every delay within the band its strategy documents.
THEOREM JitterInBand == Spec => []JitterStaysInBand
<1>1. DelayInv => JitterStaysInBand
  BY DEF DelayInv
<1> QED BY <1>1, AlwaysDelayInv, PTL

-----------------------------------------------------------------------------

\* A configuration that promises a backoff that does not decrease.
Growing == cfg.factor # NaN /\ cfg.factor >= 1 /\ cfg.base >= 0

\* The progression is a float, and ahead of the delay returned last.
Ahead ==
  Growing => /\ next \in Nat /\ next \in Magnitudes /\ Float(next) = next
             /\ pre <= clamped

\* Multiplying by at least one does not decrease a natural number.
LEMMA TimesGrows == ASSUME NEW x \in Nat, NEW y \in Int, y >= 1 PROVE x * y \in Nat /\ x * y >= x
<1>1. PICK k \in Nat : y = k + 1
  <2>1. y - 1 \in Nat /\ y = (y - 1) + 1
    OBVIOUS
  <2> QED BY <2>1
<1>2. x * y = x * k + x /\ x * k \in Nat
  BY <1>1
<1> QED BY <1>2

\* Rounding and saturating a larger number gives no less than the float it is larger than.
LEMMA RoundedGrows ==
  ASSUME NEW x \in Magnitudes, x \in Nat, Float(x) = x, NEW p \in Nat, p >= x
  PROVE  /\ Float(Saturated(p)) \in Magnitudes /\ Float(Float(Saturated(p))) = Float(Saturated(p))
         /\ Float(Saturated(p)) \in Nat /\ Float(Saturated(p)) >= x
<1>1. Saturated(p) \in Magnitudes /\ Saturated(p) >= x
  BY FloatAssumption DEF Saturated, Magnitudes
<1>2. PICK q \in Magnitudes : q = Saturated(p)
  BY <1>1
<1>3. x <= q
  BY <1>1, <1>2 DEF Magnitudes
<1>4. Float(x) <= Float(q) /\ Float(q) \in Magnitudes /\ Float(Float(q)) = Float(q)
  BY <1>3, FloatAssumption
<1>5. x \in Int /\ Float(q) \in Int
  BY <1>4, FloatAssumption DEF Magnitudes
<1> QED BY <1>2, <1>4, <1>5

LEMMA InitAhead == Init => Ahead
<1> SUFFICES ASSUME Init, Growing
             PROVE  next \in Nat /\ next \in Magnitudes /\ Float(next) = next /\ pre <= clamped
  BY DEF Ahead
<1>1. TypeOK
  BY InitDelayInv DEF DelayInv
<1>2. cfg.base \in 0..MaxInt /\ cfg.base \in Durations
  BY <1>1, CfgType, MaxIntAssumption DEF Growing, Durations
<1>3. next = Float(cfg.base) /\ next \in Nat /\ next \in Magnitudes
  BY <1>2, FloatBounds DEF Init
<1>4. Float(next) = next
  BY <1>2, <1>3, FloatBounds, FloatAssumption
<1>5. pre = 0
  BY DEF Init
<1> QED BY <1>1, <1>3, <1>4, <1>5, ClampedBounds, Halves

\* The next delay before its jitter is no smaller than this one.
LEMMA NextAhead == DelayInv /\ Ahead /\ [Next]_vars => Ahead'
<1> SUFFICES ASSUME DelayInv, Ahead, [Next]_vars, Growing'
             PROVE  /\ next' \in Nat /\ next' \in Magnitudes /\ Float(next') = next'
                    /\ pre' <= clamped'
  BY DEF Ahead
<1>0. /\ TypeOK /\ TypeOK' /\ cfg' = cfg /\ Growing
      /\ next \in Nat /\ next \in Magnitudes /\ Float(next) = next
  BY NextKeeps DEF DelayInv, Next, vars, Growing, Ahead
<1>1. CASE Next
  <2>1. PICK f \in Int : f = cfg.factor /\ f >= 1
    BY <1>0, CfgType DEF Growing
  <2>2. PICK p \in Nat : p = next * f /\ p >= next
    BY <1>0, <2>1, TimesGrows
  <2> DEFINE t == Float(Saturated(p))
  <2>3. t \in Magnitudes /\ Float(t) = t /\ t \in Nat /\ t >= next
    BY <1>0, <2>2, RoundedGrows
  <2>4. Times(next, cfg.factor) = t
    BY <1>0, <2>1, <2>2, NaNAssumption DEF Times
  <2>5. Float(maxSafeDelay) = maxSafeDelay + 1
    BY FloatAssumption
  <2> HIDE DEF t
  <2>6. next' = IF t > maxSafeDelay + 1 THEN maxSafeDelay + 1 ELSE t
    BY <1>1, <2>3, <2>4, <2>5, NaNAssumption DEF Next, grown
  <2>7. next' \in Nat /\ (next' >= next \/ next' = maxSafeDelay + 1)
    BY <1>0, <2>3, <2>6, Halves
  <2>8. Float(maxSafeDelay + 1) = maxSafeDelay + 1 /\ maxSafeDelay + 1 \in Magnitudes
    <3>1. maxSafeDelay \in Magnitudes
      BY Halves, MaxIntAssumption, FloatBounds DEF Durations
    <3> QED BY <2>5, <3>1, FloatBounds, FloatAssumption
  <2>9. next' \in Magnitudes /\ Float(next') = next'
    BY <2>3, <2>6, <2>8
  <2>10. Clamp' = Clamp /\ Float(Clamp)' = Float(Clamp) /\ Float(Clamp) \in 0..(maxSafeDelay + 1)
    <3>1. Clamp \in 0..maxSafeDelay /\ Clamp' = Clamp
      BY <1>0, CfgType, Halves, MaxIntAssumption DEF Clamp, Durations
    <3> QED BY <3>1, FloatBounds
  <2>11. pre' = IF next > Float(Clamp) THEN Float(Clamp) ELSE next
    BY <1>0, <1>1, NaNAssumption DEF Next, clamped
  <2>12. clamped' = IF next' > Float(Clamp) THEN Float(Clamp) ELSE next'
    BY <2>7, <2>10, NaNAssumption DEF clamped
  <2>13. pre' <= clamped'
    BY <1>0, <2>7, <2>10, <2>11, <2>12, Halves
  <2> QED BY <2>7, <2>9, <2>13
<1>2. CASE UNCHANGED vars
  BY <1>0, <1>2 DEF Ahead, vars, clamped, Clamp
<1> QED BY <1>1, <1>2

\* "Use >= 1 for non-decreasing backoff": before the jitter, no delay is shorter than the
\* one Next returned before it.
THEOREM GrowsSteadily == Spec => NonDecreasing
<1>1. Ahead /\ DelayInv /\ [Next]_vars
      => [(cfg.factor # NaN /\ cfg.factor >= 1 /\ cfg.base >= 0) => pre' >= pre]_vars
  <2> SUFFICES ASSUME Ahead, DelayInv, Next, Growing PROVE pre' >= pre
    BY DEF Growing
  <2>1. pre' = clamped /\ pre <= clamped
    BY DEF Next, Ahead
  <2>2. pre \in Int /\ clamped \in Int
    BY ClampedBounds, Halves DEF DelayInv, TypeOK
  <2> QED BY <2>1, <2>2
<1> QED BY <1>1, InitAhead, NextAhead, AlwaysDelayInv, PTL DEF Spec, NonDecreasing

-----------------------------------------------------------------------------
(* retrier *)

\* Where Run is says what it has done: the attempts left, the outcome that let it go on, and
\* what onRetry was told, which lags by one only when the context ended before the timer was armed.
RetryCounts ==
  /\ done \in Nat
  /\ pc = "before" => done = 0 /\ last = "none" /\ armed = FALSE /\ announced = {}
  /\ pc # "returned" => result = "none"
  /\ pc \in {"select", "task"} => remaining > 0 /\ last \in {"none", "retry"}
  /\ pc = "task" => armed = FALSE

RetryTells ==
  /\ announced \subseteq 1..(Attempts - 1)
  /\ OnRetry =>
       /\ pc = "task" => announced = 1..done
       /\ (pc = "select" /\ armed = TRUE) => announced = 1..done
       /\ (pc = "select" /\ armed # TRUE) => announced = 1..(done - 1)
       /\ pc = "returned" => announced \in {1..done, 1..(done - 1)}

RetryInv == Retry!TypeOK /\ RetryCounts /\ RetryTells

LEMMA RetryInit == Retry!Init => RetryInv
<1> SUFFICES ASSUME Retry!Init PROVE RetryInv
  OBVIOUS
<1> USE RetryAssumption DEF Retry!AttemptsAssumption, Retry!Init
<1>1. Retry!TypeOK
  <2>1. armed \in BOOLEAN /\ ended \in BOOLEAN
    OBVIOUS
  <2>2. remaining \in 0..Attempts /\ remaining + done = Attempts /\ announced \subseteq 1..Attempts
    OBVIOUS
  <2> QED BY <2>1, <2>2 DEF Retry!TypeOK, Retry!Outcomes
<1>2. RetryCounts /\ RetryTells
  BY DEF RetryCounts, RetryTells
<1> QED BY <1>1, <1>2 DEF RetryInv

\* Every step of Run keeps RetryInv.
LEMMA RetryKeeps == ASSUME RetryInv, Retry!Next PROVE RetryInv'
<1> USE RetryAssumption DEF Retry!AttemptsAssumption
<1>0. Retry!TypeOK /\ RetryCounts /\ RetryTells
  BY DEF RetryInv
<1>a. Attempts \in Nat /\ remaining \in Nat /\ done \in Nat /\ remaining + done = Attempts
  BY <1>0 DEF Retry!TypeOK, RetryCounts
<1>b. armed \in BOOLEAN /\ ended \in BOOLEAN
  BY <1>0 DEF Retry!TypeOK
<1>1. ASSUME Retry!Run PROVE RetryInv'
  <2>1. CASE ended
    <3>1. pc = "before" /\ pc' = "returned" /\ result' = "ctx" /\ UNCHANGED <<armed, remaining, ended, done, last, announced>>
      BY <1>1, <2>1 DEF Retry!Run
    <3>2. Retry!TypeOK'
      BY <1>0, <3>1 DEF Retry!TypeOK, Retry!Outcomes
    <3>3. announced = {} /\ done = 0
      BY <1>0, <3>1 DEF RetryCounts
    <3>4. RetryCounts' /\ RetryTells'
      BY <1>a, <3>1, <3>3 DEF RetryCounts, RetryTells
    <3> QED BY <3>2, <3>4 DEF RetryInv
  <2>2. CASE ~ended
    <3>1. pc = "before" /\ pc' = "select" /\ armed' = TRUE /\ UNCHANGED <<result, remaining, ended, done, last, announced>>
      BY <1>1, <2>2 DEF Retry!Run
    <3>2. Retry!TypeOK'
      BY <1>0, <3>1 DEF Retry!TypeOK
    <3>3. announced = {} /\ done = 0 /\ last = "none" /\ result = "none"
      BY <1>0, <3>1 DEF RetryCounts
    <3>4. RetryCounts'
      BY <1>a, <3>1, <3>3 DEF RetryCounts
    <3>5. RetryTells'
      BY <1>a, <3>1, <3>3 DEF RetryTells
    <3> QED BY <3>2, <3>4, <3>5 DEF RetryInv
  <2> QED BY <2>1, <2>2
<1>2. ASSUME Retry!contextEnds PROVE RetryInv'
  <2>1. /\ pc = "select" /\ pc' = "returned" /\ result' = "ctx"
        /\ UNCHANGED <<armed, remaining, ended, done, last, announced>>
    BY <1>2 DEF Retry!contextEnds
  <2>2. Retry!TypeOK'
    BY <1>0, <2>1 DEF Retry!TypeOK, Retry!Outcomes
  <2>3. RetryCounts' /\ RetryTells'
    BY <1>0, <2>1 DEF RetryCounts, RetryTells
  <2> QED BY <2>2, <2>3 DEF RetryInv
<1>3. ASSUME Retry!timerFires PROVE RetryInv'
  <2>1. /\ pc = "select" /\ armed = TRUE /\ pc' = "task" /\ armed' = FALSE
        /\ UNCHANGED <<remaining, ended, result, done, last, announced>>
    BY <1>b, <1>3 DEF Retry!timerFires
  <2>2. Retry!TypeOK'
    BY <1>0, <2>1 DEF Retry!TypeOK, Retry!Outcomes
  <2>3. RetryCounts' /\ RetryTells'
    BY <1>0, <2>1 DEF RetryCounts, RetryTells
  <2> QED BY <2>2, <2>3 DEF RetryInv
<1>4. ASSUME NEW o \in Retry!Outcomes, Retry!exec(o) PROVE RetryInv'
  <2>1. /\ pc = "task" /\ done' = done + 1 /\ last' = o /\ remaining' = remaining - 1
        /\ ended' = ended
    BY <1>4 DEF Retry!exec
  <2>2. /\ remaining > 0 /\ result = "none" /\ armed = FALSE
        /\ OnRetry => announced = 1..done
        /\ announced \subseteq 1..(Attempts - 1)
    BY <1>0, <2>1 DEF RetryCounts, RetryTells
  <2>3. /\ last' \in Retry!Outcomes \union {"none"} /\ ended' \in BOOLEAN
        /\ remaining' \in 0..Attempts /\ remaining' + done' = Attempts /\ done' \in Nat
    BY <1>a, <1>b, <2>1, <2>2
  <2>4. CASE Retry!exhausted \/ ~Retry!retryIfFn(o)
    <3>1. pc' = "returned" /\ result' = o /\ UNCHANGED <<armed, announced>>
      BY <1>4, <2>4 DEF Retry!exec
    <3>2. Retry!TypeOK'
      BY <1>0, <2>3, <3>1 DEF Retry!TypeOK
    <3>3. RetryCounts'
      BY <2>3, <3>1 DEF RetryCounts
    <3>4. done' - 1 = done
      BY <1>a, <2>1
    <3>5. RetryTells'
      BY <2>2, <3>1, <3>4 DEF RetryTells
    <3> QED BY <3>2, <3>3, <3>5 DEF RetryInv
  <2>5. CASE ~(Retry!exhausted \/ ~Retry!retryIfFn(o)) /\ ended
    <3>1. pc' = "select" /\ UNCHANGED <<armed, announced, result>> /\ remaining # 1 /\ o = "retry"
      BY <1>4, <2>5 DEF Retry!exec, Retry!exhausted, Retry!retryIfFn
    <3>2. Retry!TypeOK'
      BY <1>0, <2>3, <3>1 DEF Retry!TypeOK
    <3>3. RetryCounts'
      BY <1>a, <2>1, <2>2, <3>1 DEF RetryCounts
    <3>4. done' - 1 = done
      BY <1>a, <2>1
    <3>5. RetryTells'
      BY <2>2, <3>1, <3>4 DEF RetryTells
    <3> QED BY <3>2, <3>3, <3>5 DEF RetryInv
  <2>6. CASE ~(Retry!exhausted \/ ~Retry!retryIfFn(o)) /\ ~ended
    <3>1. /\ pc' = "select" /\ armed' = TRUE /\ result' = result /\ remaining # 1 /\ o = "retry"
          /\ announced' = IF OnRetry THEN announced \union {Attempts - (remaining - 1)} ELSE announced
      BY <1>4, <2>6 DEF Retry!exec, Retry!exhausted, Retry!retryIfFn, Retry!schedule
    <3>2. Attempts - (remaining - 1) = done + 1 /\ done + 1 \in 1..(Attempts - 1)
      BY <1>a, <2>2, <3>1
    <3>3. announced' \subseteq 1..(Attempts - 1) /\ announced' \subseteq 1..Attempts
      BY <1>a, <2>2, <3>1, <3>2
    <3>4. OnRetry => announced' = 1..(done + 1)
      BY <1>a, <2>2, <3>1, <3>2
    <3>5. Retry!TypeOK'
      BY <1>0, <2>3, <3>1, <3>3 DEF Retry!TypeOK
    <3>6. RetryCounts'
      BY <1>a, <2>1, <2>2, <3>1 DEF RetryCounts
    <3>7. RetryTells'
      BY <2>1, <3>1, <3>3, <3>4 DEF RetryTells
    <3> QED BY <3>5, <3>6, <3>7 DEF RetryInv
  <2> QED BY <2>4, <2>5, <2>6
<1>5. ASSUME Retry!cancel PROVE RetryInv'
  <2>1. ended' = TRUE /\ UNCHANGED <<pc, armed, remaining, result, done, last, announced>>
    BY <1>5 DEF Retry!cancel
  <2>2. Retry!TypeOK'
    BY <1>0, <2>1 DEF Retry!TypeOK
  <2>3. RetryCounts' /\ RetryTells'
    BY <1>0, <2>1 DEF RetryCounts, RetryTells
  <2> QED BY <2>2, <2>3 DEF RetryInv
<1>6. ASSUME Retry!Returned PROVE RetryInv'
  BY <1>0, <1>6 DEF RetryInv, Retry!Returned, Retry!vars, Retry!TypeOK, RetryCounts, RetryTells
<1> QED BY <1>1, <1>2, <1>3, <1>4, <1>5, <1>6 DEF Retry!Next, Retry!Step

-----------------------------------------------------------------------------
(* Retry-After *)

\* The bound on the seconds of a header, decided before they are multiplied.
LEMMA Division ==
  ASSUME NEW a \in Nat, NEW b \in Nat \ {0}, NEW n \in Nat
  PROVE  n * b \in Nat /\ (n > a \div b <=> n * b > a)
<1>1. a = b * (a \div b) + (a % b) /\ a % b \in 0..(b - 1) /\ a \div b \in Nat
  OBVIOUS
<1>2. n * b \in Nat
  OBVIOUS
<1>3. CASE n > a \div b
  <2>1. PICK m \in Nat : n = (a \div b) + 1 + m
    <3>1. n - ((a \div b) + 1) \in Nat /\ n = (a \div b) + 1 + (n - ((a \div b) + 1))
      BY <1>1, <1>3
    <3> QED BY <3>1
  <2>2. n * b = b * (a \div b) + b + m * b
    BY <1>1, <2>1
  <2>3. m * b \in Nat
    BY <2>1
  <2> QED BY <1>1, <1>3, <2>2, <2>3
<1>4. CASE n <= a \div b
  <2>1. PICK m \in Nat : a \div b = n + m
    <3>1. (a \div b) - n \in Nat
      BY <1>1, <1>4
    <3> QED BY <1>1, <3>1
  <2>2. b * (a \div b) = n * b + m * b
    BY <1>1, <2>1
  <2>3. m * b \in Nat
    BY <2>1
  <2> QED BY <1>1, <1>2, <1>4, <2>2, <2>3
<1> QED BY <1>1, <1>3, <1>4

\* The remainder of what is less than twice the modulus.
LEMMA Remainder ==
  ASSUME NEW m \in Nat \ {0}, NEW y \in 0..(2 * m - 1)
  PROVE  y % m = IF y < m THEN y ELSE y - m
<1>1. y = m * (y \div m) + (y % m) /\ y % m \in 0..(m - 1) /\ y \div m \in Nat
  OBVIOUS
<1>2. y \div m < 2
  <2>1. SUFFICES ASSUME y \div m >= 2 PROVE FALSE
    BY <1>1
  <2>2. PICK j \in Nat : y \div m = 2 + j
    <3>1. (y \div m) - 2 \in Nat
      BY <1>1, <2>1
    <3> QED BY <1>1, <3>1
  <2>3. m * (y \div m) = 2 * m + m * j /\ m * j \in Nat
    BY <2>2
  <2> QED BY <1>1, <2>3
<1>3. CASE y \div m = 0
  BY <1>1, <1>3
<1>4. CASE y \div m = 1
  BY <1>1, <1>4
<1> QED BY <1>1, <1>2, <1>3, <1>4

\* A header asks for what retryAfterDelay honours, up to the cap, and never for less than nothing.
LEMMA HeaderIsHonoured ==
  ASSUME NEW h \in [kind : {"secs", "date", "none"}, n : Int]
  PROVE  /\ HTTP!Requested(h) \in Nat
         /\ HTTP!retryAfterDelay(h) \in 0..MaxRetryAfter
         /\ HTTP!retryAfterDelay(h) =
              IF HTTP!Requested(h) > MaxRetryAfter THEN MaxRetryAfter ELSE HTTP!Requested(h)
<1> USE HTTPAssumption DEF HTTP!DurationsAssumption
<1>1. MaxRetryAfter \in Nat /\ Second \in Nat \ {0} /\ h.n \in Int
  BY MaxIntAssumption
<1>2. CASE h.kind = "none" \/ h.n <= 0
  BY <1>1, <1>2 DEF HTTP!Requested, HTTP!retryAfterDelay
<1>3. CASE ~(h.kind = "none" \/ h.n <= 0) /\ h.kind = "secs"
  <2>1. h.n \in Nat
    BY <1>1, <1>3
  <2>2. h.n * Second \in Nat /\ (h.n > MaxRetryAfter \div Second <=> h.n * Second > MaxRetryAfter)
    BY <1>1, <2>1, Division
  <2>3. /\ HTTP!Requested(h) = h.n * Second
        /\ HTTP!retryAfterDelay(h) =
             IF h.n > MaxRetryAfter \div Second THEN MaxRetryAfter ELSE h.n * Second
    BY <1>3 DEF HTTP!Requested, HTTP!retryAfterDelay
  <2> QED BY <1>1, <2>2, <2>3
<1>4. CASE ~(h.kind = "none" \/ h.n <= 0) /\ h.kind # "secs"
  BY <1>1, <1>4 DEF HTTP!Requested, HTTP!retryAfterDelay
<1> QED BY <1>2, <1>3, <1>4

\* The jitter is added to the wait the server asked for, and saturates.
LEMMA JitterOnTop ==
  ASSUME NEW base \in 0..MaxInt, NEW d \in HTTP!AddJitter(base)
  PROVE  d \in base..MaxInt
<1> USE HTTPAssumption, MaxIntAssumption DEF HTTP!DurationsAssumption
<1>1. CASE Jitter = 0
  BY <1>1 DEF HTTP!AddJitter
<1>2. CASE Jitter # 0
  <2>1. PICK j \in 0..(Jitter - 1) : d = HTTP!Saturated(base, j)
    BY <1>2 DEF HTTP!AddJitter
  <2>2. /\ j \in Nat /\ j <= MaxInt /\ MaxInt + 1 \in Nat
        /\ 2 * (MaxInt + 1) \in Nat \ {0}
        /\ base + j + MaxInt + 1 \in 0..(2 * (2 * (MaxInt + 1)) - 1)
    BY <2>1
  <2>3. HTTP!Wrap(base + j) = IF base + j <= MaxInt THEN base + j ELSE base + j - 2 * (MaxInt + 1)
    <3> DEFINE m == 2 * (MaxInt + 1)
               y == base + j + MaxInt + 1
    <3>1. m \in Nat \ {0} /\ y \in 0..(2 * m - 1)
      BY <2>2
    <3>2. HTTP!Wrap(base + j) = (y % m) - (MaxInt + 1)
      BY DEF HTTP!Wrap
    <3>3. y < m <=> base + j <= MaxInt
      BY <2>2
    <3>4. y - (MaxInt + 1) = base + j /\ y - m - (MaxInt + 1) = base + j - 2 * (MaxInt + 1)
      BY <2>2
    <3>5. y % m = IF y < m THEN y ELSE y - m
      <4> HIDE DEF m, y
      <4> QED BY <3>1, Remainder
    <3> HIDE DEF m, y
    <3> QED BY <3>2, <3>3, <3>4, <3>5
  <2> QED BY <2>1, <2>2, <2>3 DEF HTTP!Saturated
<1> QED BY <1>1, <1>2

\* The timer is armed with a duration that is no shorter than what the server asked for.
LEMMA WaitIsLongEnough ==
  ASSUME NEW h \in [kind : {"secs", "date", "none"}, n : Int], NEW d \in HTTP!waits(h)
  PROVE  /\ d \in 0..MaxInt
         /\ RespectRetryAfter =>
              d >= IF HTTP!Requested(h) > MaxRetryAfter THEN MaxRetryAfter ELSE HTTP!Requested(h)
<1> USE HTTPAssumption, MaxIntAssumption DEF HTTP!DurationsAssumption
<1>1. PICK b \in Delays : d \in IF RespectRetryAfter /\ HTTP!retryAfterDelay(h) > b
                                THEN HTTP!AddJitter(HTTP!retryAfterDelay(h)) ELSE {b}
  BY DEF HTTP!waits
<1>2. /\ HTTP!retryAfterDelay(h) \in 0..MaxRetryAfter /\ HTTP!retryAfterDelay(h) \in 0..MaxInt
      /\ HTTP!retryAfterDelay(h) =
           IF HTTP!Requested(h) > MaxRetryAfter THEN MaxRetryAfter ELSE HTTP!Requested(h)
  BY HeaderIsHonoured
<1>3. CASE RespectRetryAfter /\ HTTP!retryAfterDelay(h) > b
  <2>1. d \in HTTP!retryAfterDelay(h)..MaxInt
    BY <1>1, <1>2, <1>3, JitterOnTop
  <2> QED BY <1>2, <2>1
<1>4. CASE ~(RespectRetryAfter /\ HTTP!retryAfterDelay(h) > b)
  <2>1. d = b /\ b \in 0..MaxInt
    BY <1>1, <1>4
  <2> QED BY <1>2, <1>4, <2>1
<1> QED BY <1>3, <1>4

-----------------------------------------------------------------------------
(* httpretrier *)

\* Where Do is says which attempts it has made and what they left behind: a consumed body is
\* there only between attempts, and then GetBody can recreate it; no response is left open.
HTTPCounts ==
  /\ done \in Nat
  /\ pc = "before" => done = 0 /\ armed = FALSE /\ delay = 0 /\ asked = 0
  /\ pc # "returned" => result = "none" /\ open = 0
  /\ pc \in {"before", "select", "client"} =>
       remaining > 0 /\ last = IF done = 0 THEN "none" ELSE "retry"
  /\ pc = "client" => armed = FALSE

HTTPBodies ==
  /\ pc \in {"before", "client"} => body # "used"
  /\ (pc = "select" /\ body = "used") => getBody = TRUE /\ remaining # Attempts
  /\ pc = "before" => resp = "none"

HTTPInv ==
  HTTP!TypeOK /\ HTTPCounts /\ HTTPBodies /\ HTTP!ResponseXorError /\ HTTP!HonoursRetryAfter

\* What the state of a call is, for the arithmetic of its attempts.
LEMMA HTTPTypes ==
  ASSUME HTTP!TypeOK, HTTPCounts
  PROVE  /\ Attempts \in Nat /\ remaining \in Nat /\ done \in Nat /\ remaining + done = Attempts
         /\ ended \in BOOLEAN /\ getBody \in BOOLEAN /\ armed \in BOOLEAN /\ err \in BOOLEAN
<1>1. Attempts \in Nat /\ remaining \in Nat /\ done \in Nat /\ remaining + done = Attempts
  BY HTTPAssumption DEF HTTP!TypeOK, HTTPCounts, HTTP!AttemptsAssumption
<1>2. ended \in BOOLEAN /\ getBody \in BOOLEAN /\ armed \in BOOLEAN /\ err \in BOOLEAN
  BY DEF HTTP!TypeOK
<1> QED BY <1>1, <1>2

LEMMA HTTPInit == HTTP!Init => HTTPInv
<1> SUFFICES ASSUME HTTP!Init PROVE HTTPInv
  OBVIOUS
<1> USE HTTPAssumption, MaxIntAssumption DEF HTTP!AttemptsAssumption, HTTP!DurationsAssumption, HTTP!Init
<1>1. HTTP!TypeOK
  <2>1. ended \in BOOLEAN /\ getBody \in BOOLEAN /\ armed \in BOOLEAN /\ err \in BOOLEAN
    OBVIOUS
  <2>2. remaining \in 0..Attempts /\ remaining + done = Attempts /\ delay \in 0..MaxInt
    OBVIOUS
  <2> QED BY <2>1, <2>2 DEF HTTP!TypeOK
<1>2. HTTPCounts /\ HTTPBodies
  BY DEF HTTPCounts, HTTPBodies
<1>3. HTTP!ResponseXorError /\ HTTP!HonoursRetryAfter
  BY DEF HTTP!ResponseXorError, HTTP!HonoursRetryAfter
<1> QED BY <1>1, <1>2, <1>3 DEF HTTPInv


\* The reply of an attempt, and what run does with it.
LEMMA RunSteps ==
  ASSUME HTTPInv, NEW reply \in HTTP!Replies, NEW again \in BOOLEAN, HTTP!run(reply, again)
  PROVE  /\ pc = "client" /\ remaining > 0 /\ open = 0 /\ result = "none" /\ armed = FALSE
         /\ done' = done + 1 /\ remaining' = remaining - 1
         /\ last' = IF again THEN "retry" ELSE IF reply.err THEN "fatal" ELSE "ok"
         /\ body' = IF body = "none" THEN "none" ELSE "used"
         /\ ended' = ended /\ getBody' = getBody
         /\ reply.resp \in BOOLEAN /\ reply.err \in BOOLEAN /\ (reply.resp \/ reply.err)
<1>1. pc = "client"
  BY DEF HTTP!run
<1>2. remaining > 0 /\ open = 0 /\ result = "none" /\ armed = FALSE
  BY <1>1 DEF HTTPInv, HTTPCounts
<1>3. /\ done' = done + 1 /\ remaining' = remaining - 1
      /\ last' = IF again THEN "retry" ELSE IF reply.err THEN "fatal" ELSE "ok"
      /\ body' = IF body = "none" THEN "none" ELSE "used"
      /\ ended' = ended /\ getBody' = getBody
  BY DEF HTTP!run
<1>4. reply.resp \in BOOLEAN /\ reply.err \in BOOLEAN
  BY DEF HTTP!Replies
<1>5. reply.resp \/ reply.err
  <2>1. reply = [resp |-> reply.resp, err |-> reply.err]
    BY DEF HTTP!Replies
  <2> QED BY <1>4, <2>1 DEF HTTP!Replies
<1> QED BY <1>1, <1>2, <1>3, <1>4, <1>5

\* Every end of an attempt keeps HTTPInv.
LEMMA RunKeeps ==
  ASSUME HTTPInv, NEW reply \in HTTP!Replies, NEW again \in BOOLEAN, HTTP!run(reply, again)
  PROVE  HTTPInv'
<1>0. HTTP!TypeOK /\ HTTPCounts /\ HTTPBodies /\ HTTP!ResponseXorError /\ HTTP!HonoursRetryAfter
  BY DEF HTTPInv
<1>1. /\ Attempts \in Nat /\ remaining \in Nat /\ done \in Nat /\ remaining + done = Attempts
      /\ ended \in BOOLEAN /\ getBody \in BOOLEAN /\ armed \in BOOLEAN /\ err \in BOOLEAN
  BY <1>0, HTTPTypes
<1>2. /\ pc = "client" /\ remaining > 0 /\ open = 0 /\ result = "none" /\ armed = FALSE
      /\ done' = done + 1 /\ remaining' = remaining - 1
      /\ last' = IF again THEN "retry" ELSE IF reply.err THEN "fatal" ELSE "ok"
      /\ body' = IF body = "none" THEN "none" ELSE "used"
      /\ ended' = ended /\ getBody' = getBody
      /\ reply.resp \in BOOLEAN /\ reply.err \in BOOLEAN /\ (reply.resp \/ reply.err)
  BY RunSteps
<1>3. /\ remaining' \in 0..Attempts /\ remaining' + done' = Attempts /\ done' \in Nat
      /\ remaining' # Attempts /\ done' # 0
  BY <1>1, <1>2
<1>4. /\ body' \in {"none", "used"} /\ last' \in {"ok", "retry", "fatal"}
  BY <1>2
<1>5. ended' \in BOOLEAN /\ getBody' \in BOOLEAN
  BY <1>1, <1>2
<1>6. CASE HTTP!accept(reply, IF again THEN "retry" ELSE IF reply.err THEN "fatal" ELSE "ok")
  <2>1. /\ pc' = "returned" /\ UNCHANGED <<armed, delay, asked>>
        /\ resp' = IF reply.resp /\ ~reply.err THEN "open" ELSE "none"
        /\ open' = IF reply.resp /\ ~reply.err THEN open + 1 ELSE open
        /\ result' = IF again THEN "retry" ELSE IF reply.err THEN "fatal" ELSE "ok"
    BY <1>6 DEF HTTP!accept, HTTP!dropResponse, HTTP!timing
  <2>2. err' = reply.err
    BY <1>6 DEF HTTP!accept
  <2>3. result' \in {"none", "ctx", "aborted", "ok", "retry", "fatal"}
    BY <2>1
  <2>4. armed' \in BOOLEAN /\ err' \in BOOLEAN
    BY <1>1, <1>2, <2>1, <2>2
  <2>5. resp' \in {"none", "open", "closed"} /\ open' \in Nat
    BY <1>2, <2>1
  <2>6. HTTP!TypeOK'
    BY <1>0, <1>3, <1>4, <1>5, <2>1, <2>3, <2>4, <2>5 DEF HTTP!TypeOK
  <2>7. HTTPCounts' /\ HTTPBodies'
    BY <1>3, <2>1 DEF HTTPCounts, HTTPBodies
  <2>8. HTTP!ResponseXorError'
    <3>1. CASE reply.resp /\ ~reply.err
      BY <1>2, <2>1, <2>2, <3>1 DEF HTTP!ResponseXorError
    <3>2. CASE ~(reply.resp /\ ~reply.err)
      <4>1. reply.err = TRUE
        BY <1>2, <3>2
      <4> QED BY <1>2, <2>1, <2>2, <3>2, <4>1 DEF HTTP!ResponseXorError
    <3> QED BY <3>1, <3>2
  <2>9. HTTP!HonoursRetryAfter'
    BY <1>0, <2>1 DEF HTTP!HonoursRetryAfter
  <2> QED BY <2>6, <2>7, <2>8, <2>9 DEF HTTPInv
<1>7. CASE HTTP!abort(reply)
  <2>1. /\ pc' = "returned" /\ UNCHANGED <<armed, delay, asked>>
        /\ resp' = "none" /\ open' = open /\ err' = TRUE /\ result' = "aborted"
    BY <1>7 DEF HTTP!abort, HTTP!closeResponse, HTTP!timing
  <2>2. HTTP!TypeOK'
    BY <1>0, <1>3, <1>4, <1>5, <2>1 DEF HTTP!TypeOK
  <2>3. HTTPCounts' /\ HTTPBodies'
    BY <1>3, <2>1 DEF HTTPCounts, HTTPBodies
  <2>4. HTTP!ResponseXorError'
    BY <1>2, <2>1 DEF HTTP!ResponseXorError
  <2>5. HTTP!HonoursRetryAfter'
    BY <1>0, <2>1 DEF HTTP!HonoursRetryAfter
  <2> QED BY <2>2, <2>3, <2>4, <2>5 DEF HTTPInv
<1>8. ASSUME ~HTTP!final(again), HTTP!replayable, NEW h \in HTTP!headersOf(reply), HTTP!retry(reply, h)
      PROVE  HTTPInv'
  <2>1. remaining # 1 /\ again = TRUE /\ (getBody = TRUE \/ body = "none")
    BY <1>1, <1>8 DEF HTTP!final, HTTP!replayable
  <2>2. /\ pc' = "select" /\ open' = open /\ result' = result
        /\ resp' = IF reply.resp THEN "closed" ELSE "none"
    BY <1>8 DEF HTTP!retry, HTTP!closeResponse
  <2>3. err' = reply.err /\ HTTP!scheduleRetry(h)
    BY <1>8 DEF HTTP!retry
  <2>4. h \in [kind : {"secs", "date", "none"}, n : Int]
    BY HTTPAssumption DEF HTTP!headersOf, HTTP!HeadersAssumption
  <2>5. /\ armed' \in BOOLEAN /\ delay' \in 0..MaxInt /\ asked' \in Nat
        /\ HTTP!HonoursRetryAfter'
    <3>1. CASE ended
      <4>1. UNCHANGED <<armed, delay, asked>>
        BY <2>3, <3>1 DEF HTTP!scheduleRetry, HTTP!timing
      <4> QED BY <1>0, <1>1, <4>1 DEF HTTP!HonoursRetryAfter, HTTP!TypeOK
    <3>2. CASE ~ended
      <4>1. armed' = TRUE /\ delay' \in HTTP!waits(h) /\ asked' = HTTP!Requested(h)
        BY <2>3, <3>2 DEF HTTP!scheduleRetry
      <4>2. HTTP!Requested(h) \in Nat
        BY <2>4, HeaderIsHonoured
      <4>3. /\ delay' \in 0..MaxInt
            /\ RespectRetryAfter =>
                 delay' >= IF HTTP!Requested(h) > MaxRetryAfter THEN MaxRetryAfter ELSE HTTP!Requested(h)
        BY <2>4, <4>1, WaitIsLongEnough
      <4> QED BY <4>1, <4>2, <4>3 DEF HTTP!HonoursRetryAfter
    <3> QED BY <1>1, <3>1, <3>2
  <2>6. err' \in BOOLEAN /\ resp' \in {"none", "open", "closed"}
    BY <1>2, <2>2, <2>3
  <2>7. HTTP!TypeOK'
    BY <1>0, <1>3, <1>4, <1>5, <2>2, <2>5, <2>6 DEF HTTP!TypeOK
  <2>8. remaining' > 0 /\ last' = "retry"
    BY <1>1, <1>2, <2>1
  <2>9. HTTPCounts'
    BY <1>2, <1>3, <2>2, <2>8 DEF HTTPCounts
  <2>10. HTTPBodies'
    BY <1>2, <1>3, <2>1, <2>2 DEF HTTPBodies
  <2>11. HTTP!ResponseXorError'
    BY <1>2, <2>2 DEF HTTP!ResponseXorError
  <2> QED BY <2>5, <2>7, <2>9, <2>10, <2>11 DEF HTTPInv
<1> QED BY <1>6, <1>7, <1>8 DEF HTTP!run


\* Every step of Do keeps HTTPInv.
LEMMA HTTPKeeps == ASSUME HTTPInv, HTTP!Next PROVE HTTPInv'
<1> USE HTTPAssumption, MaxIntAssumption DEF HTTP!AttemptsAssumption, HTTP!DurationsAssumption
<1>0. HTTP!TypeOK /\ HTTPCounts /\ HTTPBodies /\ HTTP!ResponseXorError /\ HTTP!HonoursRetryAfter
  BY DEF HTTPInv
<1>a. /\ Attempts \in Nat /\ remaining \in Nat /\ done \in Nat /\ remaining + done = Attempts
      /\ ended \in BOOLEAN /\ getBody \in BOOLEAN /\ armed \in BOOLEAN /\ err \in BOOLEAN
  BY <1>0, HTTPTypes
<1>1. ASSUME HTTP!Do PROVE HTTPInv'
  <2>1. /\ pc = "before" /\ done = 0 /\ armed = FALSE /\ delay = 0 /\ asked = 0 /\ result = "none"
        /\ open = 0 /\ body # "used" /\ resp = "none" /\ remaining > 0 /\ last = "none"
    BY <1>0, <1>1 DEF HTTP!Do, HTTPCounts, HTTPBodies
  <2>2. UNCHANGED <<remaining, ended, getBody, body, resp, open, delay, asked, done, last>>
    BY <1>1 DEF HTTP!Do
  <2>3. CASE ended
    <3>1. pc' = "returned" /\ result' = "ctx" /\ err' = TRUE /\ armed' = armed
      BY <1>1, <2>3 DEF HTTP!Do
    <3>2. HTTP!TypeOK'
      BY <1>0, <2>2, <3>1 DEF HTTP!TypeOK
    <3>3. HTTPCounts' /\ HTTPBodies'
      BY <1>a, <2>2, <3>1 DEF HTTPCounts, HTTPBodies
    <3>4. HTTP!ResponseXorError' /\ HTTP!HonoursRetryAfter'
      BY <1>0, <2>1, <2>2, <3>1 DEF HTTP!ResponseXorError, HTTP!HonoursRetryAfter
    <3> QED BY <3>2, <3>3, <3>4 DEF HTTPInv
  <2>4. CASE ~ended
    <3>1. pc' = "select" /\ armed' = TRUE /\ UNCHANGED <<result, err>>
      BY <1>1, <2>4 DEF HTTP!Do
    <3>2. HTTP!TypeOK'
      BY <1>0, <2>2, <3>1 DEF HTTP!TypeOK
    <3>3. HTTPCounts' /\ HTTPBodies'
      BY <1>a, <2>1, <2>2, <3>1 DEF HTTPCounts, HTTPBodies
    <3>4. HTTP!ResponseXorError' /\ HTTP!HonoursRetryAfter'
      BY <2>1, <2>2, <3>1 DEF HTTP!ResponseXorError, HTTP!HonoursRetryAfter
    <3> QED BY <3>2, <3>3, <3>4 DEF HTTPInv
  <2> QED BY <2>3, <2>4
<1>2. ASSUME HTTP!contextEnds PROVE HTTPInv'
  <2>1. /\ pc = "select" /\ pc' = "returned" /\ result' = "ctx" /\ resp' = "none" /\ err' = TRUE
        /\ UNCHANGED <<remaining, ended, getBody, body, open, armed, delay, asked, done, last>>
    BY <1>2 DEF HTTP!contextEnds, HTTP!timing
  <2>2. HTTP!TypeOK'
    BY <1>0, <2>1 DEF HTTP!TypeOK
  <2>3. HTTPCounts' /\ HTTPBodies'
    BY <1>a, <2>1 DEF HTTPCounts, HTTPBodies
  <2>4. open = 0
    BY <1>0, <2>1 DEF HTTPCounts
  <2>5. HTTP!ResponseXorError' /\ HTTP!HonoursRetryAfter'
    BY <1>0, <2>1, <2>4 DEF HTTP!ResponseXorError, HTTP!HonoursRetryAfter
  <2> QED BY <2>2, <2>3, <2>5 DEF HTTPInv
<1>3. ASSUME HTTP!timerFires PROVE HTTPInv'
  <2>1. /\ pc = "select" /\ pc' = "client" /\ armed' = FALSE /\ delay' = 0 /\ asked' = 0
        /\ body' = IF HTTP!needsBody THEN "fresh" ELSE body
        /\ UNCHANGED <<remaining, ended, getBody, resp, err, open, result, done, last>>
    BY <1>3 DEF HTTP!timerFires
  <2>2. body' \in {"none", "fresh"}
    <3>1. body \in {"none", "fresh", "used"}
      BY <1>0 DEF HTTP!TypeOK
    <3>2. body = "used" => HTTP!needsBody
      BY <1>0, <2>1 DEF HTTPBodies, HTTP!needsBody
    <3> QED BY <2>1, <3>1, <3>2
  <2>3. HTTP!TypeOK'
    <3>1. ended' \in BOOLEAN /\ getBody' \in BOOLEAN /\ armed' \in BOOLEAN /\ err' \in BOOLEAN
      BY <1>a, <2>1
    <3>2. delay' \in 0..MaxInt /\ asked' \in Nat
      BY <2>1
    <3>3. remaining' \in 0..Attempts /\ remaining' + done' = Attempts /\ open' \in Nat
      BY <1>0, <2>1 DEF HTTP!TypeOK
    <3>4. /\ pc' = "client" /\ resp' \in {"none", "open", "closed"}
          /\ result' \in {"none", "ctx", "aborted", "ok", "retry", "fatal"}
          /\ last' \in {"none", "ok", "retry", "fatal"}
      BY <1>0, <2>1 DEF HTTP!TypeOK
    <3> QED BY <2>2, <3>1, <3>2, <3>3, <3>4 DEF HTTP!TypeOK
  <2>4. HTTPCounts' /\ HTTPBodies'
    BY <1>0, <2>1, <2>2 DEF HTTPCounts, HTTPBodies
  <2>5. HTTP!ResponseXorError' /\ HTTP!HonoursRetryAfter'
    BY <2>1 DEF HTTP!ResponseXorError, HTTP!HonoursRetryAfter
  <2> QED BY <2>3, <2>4, <2>5 DEF HTTPInv
<1>4. ASSUME HTTP!reopenFails PROVE HTTPInv'
  <2>1. /\ pc = "select" /\ pc' = "returned" /\ armed' = FALSE /\ resp' = "none" /\ err' = TRUE
        /\ result' = "aborted"
        /\ UNCHANGED <<remaining, ended, getBody, body, open, delay, asked, done, last>>
    BY <1>4 DEF HTTP!reopenFails
  <2>2. HTTP!TypeOK'
    BY <1>0, <2>1 DEF HTTP!TypeOK
  <2>3. HTTPCounts' /\ HTTPBodies'
    BY <1>a, <2>1 DEF HTTPCounts, HTTPBodies
  <2>4. open = 0
    BY <1>0, <2>1 DEF HTTPCounts
  <2>5. HTTP!ResponseXorError' /\ HTTP!HonoursRetryAfter'
    BY <2>1, <2>4 DEF HTTP!ResponseXorError, HTTP!HonoursRetryAfter
  <2> QED BY <2>2, <2>3, <2>5 DEF HTTPInv
<1>5. ASSUME NEW reply \in HTTP!Replies, NEW again \in BOOLEAN, HTTP!run(reply, again)
      PROVE  HTTPInv'
  BY <1>5, RunKeeps
<1>6. ASSUME HTTP!cancel PROVE HTTPInv'
  <2>1. /\ ended' = TRUE
        /\ UNCHANGED <<pc, remaining, getBody, body, resp, err, open, armed, delay, asked, result, done, last>>
    BY <1>6 DEF HTTP!cancel, HTTP!timing
  <2>2. HTTP!TypeOK'
    BY <1>0, <2>1 DEF HTTP!TypeOK
  <2>3. HTTPCounts' /\ HTTPBodies'
    BY <1>0, <2>1 DEF HTTPCounts, HTTPBodies
  <2>4. HTTP!ResponseXorError' /\ HTTP!HonoursRetryAfter'
    BY <1>0, <2>1 DEF HTTP!ResponseXorError, HTTP!HonoursRetryAfter
  <2> QED BY <2>2, <2>3, <2>4 DEF HTTPInv
<1>7. ASSUME HTTP!Returned PROVE HTTPInv'
  <2>1. UNCHANGED <<pc, remaining, ended, getBody, body, resp, err, open, armed, delay, asked, result, done, last>>
    BY <1>7 DEF HTTP!Returned, HTTP!vars, HTTP!timing
  <2>2. HTTP!TypeOK'
    BY <1>0, <2>1 DEF HTTP!TypeOK
  <2>3. HTTPCounts' /\ HTTPBodies'
    BY <1>0, <2>1 DEF HTTPCounts, HTTPBodies
  <2>4. HTTP!ResponseXorError' /\ HTTP!HonoursRetryAfter'
    BY <1>0, <2>1 DEF HTTP!ResponseXorError, HTTP!HonoursRetryAfter
  <2> QED BY <2>2, <2>3, <2>4 DEF HTTPInv
<1> QED BY <1>1, <1>2, <1>3, <1>4, <1>5, <1>6, <1>7 DEF HTTP!Next, HTTP!Step


-----------------------------------------------------------------------------
(* The packages together *)

\* The package a behaviour is about never changes, and its own invariant holds.
OutInv ==
  /\ subject \in {"backoff", "retrier", "httpretrier", "dnscache"}
  /\ subject = "backoff" => DelayInv
  /\ subject = "retrier" => RetryInv
  /\ subject = "httpretrier" => HTTPInv

LEMMA InitOutInv == OutInit => OutInv
  BY InitDelayInv, RetryInit, HTTPInit DEF OutInit, OutInv

LEMMA NextOutInv == OutInv /\ [OutNext]_outVars => OutInv'
<1> SUFFICES ASSUME OutInv, [OutNext]_outVars PROVE OutInv'
  OBVIOUS
<1>1. CASE backoffStep
  <2>1. subject = "backoff" /\ subject' = subject /\ Next
    BY <1>1 DEF backoffStep
  <2>2. DelayInv'
    BY <2>1, NextKeeps DEF OutInv
  <2> QED BY <2>1, <2>2 DEF OutInv
<1>2. CASE Retrying(Retry!Next)
  <2>1. subject = "retrier" /\ subject' = subject /\ Retry!Next
    BY <1>2 DEF Retrying
  <2>2. RetryInv'
    BY <2>1, RetryKeeps DEF OutInv
  <2> QED BY <2>1, <2>2 DEF OutInv
<1>3. CASE Sending(HTTP!Next)
  <2>1. subject = "httpretrier" /\ subject' = subject /\ HTTP!Next
    BY <1>3 DEF Sending
  <2>2. HTTPInv'
    BY <2>1, HTTPKeeps DEF OutInv
  <2> QED BY <2>1, <2>2 DEF OutInv
<1>4. CASE Dialling(Dial!Next)
  <2>1. subject = "dnscache" /\ subject' = subject
    BY <1>4 DEF Dialling
  <2> QED BY <2>1 DEF OutInv
<1>5. CASE UNCHANGED outVars
  <2>1. UNCHANGED <<subject, pc, ended, result, open, armed, remaining, done, last, announced>>
    BY <1>5 DEF outVars, calls, loops
  <2>2. UNCHANGED <<getBody, body, resp, err, asked, cfg, next, pre, delay>>
    BY <1>5 DEF outVars, replies, schedule
  <2>3. subject = "backoff" => DelayInv'
    BY <2>2, NextKeeps DEF OutInv, vars
  <2>4. RetryInv => RetryInv'
    <3>1. SUFFICES ASSUME Retry!TypeOK, RetryCounts, RetryTells PROVE RetryInv'
      BY DEF RetryInv
    <3>2. Retry!TypeOK'
      BY <2>1, <3>1 DEF Retry!TypeOK
    <3>3. RetryCounts' /\ RetryTells'
      BY <2>1, <3>1 DEF RetryCounts, RetryTells
    <3> QED BY <3>2, <3>3 DEF RetryInv
  <2>5. HTTPInv => HTTPInv'
    <3>1. SUFFICES ASSUME HTTP!TypeOK, HTTPCounts, HTTPBodies, HTTP!ResponseXorError, HTTP!HonoursRetryAfter
                   PROVE  HTTPInv'
      BY DEF HTTPInv
    <3>2. HTTP!TypeOK'
      BY <2>1, <2>2, <3>1 DEF HTTP!TypeOK
    <3>3. HTTPCounts' /\ HTTPBodies'
      BY <2>1, <2>2, <3>1 DEF HTTPCounts, HTTPBodies
    <3>4. HTTP!ResponseXorError' /\ HTTP!HonoursRetryAfter'
      BY <2>1, <2>2, <3>1 DEF HTTP!ResponseXorError, HTTP!HonoursRetryAfter
    <3> QED BY <3>2, <3>3, <3>4 DEF HTTPInv
  <2> QED BY <2>1, <2>3, <2>4, <2>5 DEF OutInv
<1> QED BY <1>1, <1>2, <1>3, <1>4, <1>5 DEF OutNext

LEMMA AlwaysOutInv == OutSpec => []OutInv
  BY InitOutInv, NextOutInv, PTL DEF OutSpec

\* Only exec announces a retry: the one of the attempt that just failed, if it may be retried, is
\* not the last and the context has not ended.
LEMMA OnlyExecAnnounces ==
  ASSUME RetryInv, Retry!Next PROVE Retry!AnnouncementStep
<1> USE RetryAssumption DEF Retry!AttemptsAssumption
<1> SUFFICES ASSUME announced' # announced
             PROVE  /\ pc = "task" /\ last' = "retry" /\ done' < Attempts
                    /\ announced' = announced \union {done'} /\ armed' /\ ~ended
  BY DEF Retry!AnnouncementStep
<1>1. PICK o \in Retry!Outcomes : Retry!exec(o)
  BY DEF Retry!Next, Retry!Step, Retry!Run, Retry!contextEnds, Retry!timerFires, Retry!cancel,
         Retry!Returned, Retry!vars
<1>2. /\ pc = "task" /\ done' = done + 1 /\ last' = o
      /\ Attempts \in Nat /\ remaining \in Nat /\ done \in Nat /\ remaining + done = Attempts
      /\ remaining > 0
  BY <1>1 DEF Retry!exec, RetryInv, Retry!TypeOK, RetryCounts
<1>3. ~Retry!exhausted /\ Retry!retryIfFn(o) /\ ~ended /\ Retry!schedule
  BY <1>1 DEF Retry!exec
<1>4. armed' = TRUE /\ announced' = announced \union {Attempts - (remaining - 1)}
  BY <1>3 DEF Retry!schedule
<1>5. o = "retry" /\ remaining # 1
  BY <1>3 DEF Retry!exhausted, Retry!retryIfFn
<1>6. Attempts - (remaining - 1) = done' /\ done' < Attempts
  BY <1>2, <1>5
<1> QED BY <1>2, <1>3, <1>4, <1>5, <1>6

\* onRetry hears of each failed attempt that another follows; what it hears is always the attempt
\* that just failed, and never the final one or one that the context had ended by: however many
\* attempts Run is allowed and whenever its context ends.
THEOREM AnnouncementsAreRight == OutSpec => RetriesAreAnnounced
<1>1. OutInv => (subject = "retrier" => Retry!EachRetryIsAnnounced)
  <2> SUFFICES ASSUME subject = "retrier", RetryInv PROVE Retry!EachRetryIsAnnounced
    BY DEF OutInv
  <2>1. /\ Retry!TypeOK /\ RetryCounts /\ RetryTells
        /\ pc \in {"before", "select", "task", "returned"} /\ armed \in BOOLEAN
    BY DEF RetryInv, Retry!TypeOK
  <2>2. ASSUME OnRetry, ~armed PROVE announced \in {1..done, 1..(done - 1)}
    <3>1. CASE pc = "before"
      BY <2>1, <3>1 DEF RetryCounts
    <3>2. CASE pc # "before"
      BY <2>1, <2>2, <3>2 DEF RetryTells
    <3> QED BY <3>1, <3>2
  <2> QED BY <2>1, <2>2 DEF Retry!EachRetryIsAnnounced, RetryTells
<1>2. OutInv /\ [OutNext]_outVars => [subject = "retrier" => Retry!AnnouncementStep]_outVars
  <2> SUFFICES ASSUME OutInv, OutNext, subject = "retrier" PROVE Retry!AnnouncementStep
    OBVIOUS
  <2>1. Retry!Next
    BY DEF OutNext, backoffStep, Retrying, Sending, Dialling
  <2>2. RetryInv
    BY DEF OutInv
  <2> QED BY <2>1, <2>2, OnlyExecAnnounces
<1> QED BY <1>1, <1>2, AlwaysOutInv, PTL DEF OutSpec, RetriesAreAnnounced

\* A request is never sent with a body that was already consumed, and Do returns a response or
\* an error, never both, and leaks no body, for any number of attempts and any replies.
THEOREM BodiesStaySound == OutSpec => []BodiesAreSound
<1>1. OutInv => BodiesAreSound
  BY DEF OutInv, BodiesAreSound, HTTPInv, HTTPBodies, HTTP!BodyIsFresh
<1> QED BY <1>1, AlwaysOutInv, PTL

\* The timer is never armed with less than Retry-After asked for, up to the cap, whatever the
\* header, the cap, the jitter and the width of the integers: the seconds are capped before
\* they are multiplied and the jitter saturates.
THEOREM WaitsAreLongEnough == OutSpec => []HonoursRetryAfter
<1>1. OutInv => HonoursRetryAfter
  BY DEF OutInv, HonoursRetryAfter, HTTPInv
<1> QED BY <1>1, AlwaysOutInv, PTL


-----------------------------------------------------------------------------
(* The retry loops implement RetrySpec *)

\* What RetrySpec sees of Run's variables.
LEMMA RetryMap ==
  ASSUME subject = "retrier", subject' = "retrier"
  PROVE  /\ InLoop /\ InLoop'
         /\ Retry!Phase = (IF pc = "select" THEN "between" ELSE IF pc = "task" THEN "attempt" ELSE pc)
         /\ Retry!Phase' = (IF pc' = "select" THEN "between" ELSE IF pc' = "task" THEN "attempt" ELSE pc')
  BY DEF InLoop, Retry!Phase

\* What RetrySpec sees of Do's variables.
LEMMA HTTPMap ==
  ASSUME subject = "httpretrier", subject' = "httpretrier"
  PROVE  /\ InLoop /\ InLoop'
         /\ HTTP!Phase = (IF pc = "select" THEN "between" ELSE IF pc = "client" THEN "attempt" ELSE pc)
         /\ HTTP!Phase' = (IF pc' = "select" THEN "between" ELSE IF pc' = "client" THEN "attempt" ELSE pc')
  BY DEF InLoop, HTTP!Phase

\* Every step of Run is one of RetrySpec, or changes nothing that RetrySpec sees.
LEMMA RunRefines ==
  ASSUME RetryInv, Retry!Next, subject = "retrier", subject' = "retrier"
  PROVE  Promise!SpecNext \/ UNCHANGED Promise!specVars
<1> USE RetryMap
<1>0. Retry!TypeOK /\ RetryCounts
  BY DEF RetryInv
<1>a. /\ Attempts \in Nat /\ remaining \in Nat /\ done \in Nat /\ remaining + done = Attempts
  BY <1>0, RetryAssumption DEF Retry!TypeOK, RetryCounts, Retry!AttemptsAssumption
<1>1. ASSUME Retry!Run PROVE Promise!Refuse \/ Promise!Begin
  <2>1. CASE ended
    BY <1>1, <2>1 DEF Retry!Run, Promise!Refuse
  <2>2. CASE ~ended
    BY <1>1, <2>2 DEF Retry!Run, Promise!Begin
  <2> QED BY <2>1, <2>2
<1>2. ASSUME Retry!contextEnds PROVE Promise!GiveUp
  BY <1>2 DEF Retry!contextEnds, Promise!GiveUp
<1>3. ASSUME Retry!timerFires PROVE Promise!Attempt
  <2>1. /\ pc = "select" /\ pc' = "task" /\ UNCHANGED <<ended, result, done, last>>
    BY <1>3 DEF Retry!timerFires
  <2>2. done < Attempts /\ last \in {"none", "retry"}
    BY <1>0, <1>a, <2>1 DEF RetryCounts
  <2> QED BY <2>1, <2>2 DEF Promise!Attempt
<1>4. ASSUME NEW o \in Retry!Outcomes, Retry!exec(o) PROVE Promise!Fail \/ Promise!Decide
  <2>1. /\ pc = "task" /\ done' = done + 1 /\ last' = o /\ ended' = ended
        /\ o \in {"ok", "retry", "fatal"}
    BY <1>4 DEF Retry!exec, Retry!Outcomes
  <2>2. CASE remaining = 1 \/ o # "retry"
    <3>1. pc' = "returned" /\ result' = o
      BY <1>4, <2>2 DEF Retry!exec, Retry!exhausted, Retry!retryIfFn
    <3>2. o \in IF done + 1 = Attempts THEN {"ok", "retry", "fatal"} ELSE {"ok", "fatal"}
      BY <1>a, <2>1, <2>2
    <3> QED BY <2>1, <3>1, <3>2 DEF Promise!Decide
  <2>3. CASE ~(remaining = 1 \/ o # "retry")
    <3>1. pc' = "select" /\ result' = result
      BY <1>4, <2>3 DEF Retry!exec, Retry!exhausted, Retry!retryIfFn
    <3>2. remaining > 0
      BY <1>0, <2>1 DEF RetryCounts
    <3>3. done + 1 < Attempts
      BY <1>a, <2>3, <3>2
    <3> QED BY <2>1, <2>3, <3>1, <3>3 DEF Promise!Fail
  <2> QED BY <2>2, <2>3
<1>5. ASSUME Retry!cancel PROVE Promise!End
  BY <1>5 DEF Retry!cancel, Promise!End
<1>6. ASSUME Retry!Returned PROVE UNCHANGED Promise!specVars
  BY <1>6 DEF Retry!Returned, Retry!vars, Promise!specVars
<1> QED BY <1>1, <1>2, <1>3, <1>4, <1>5, <1>6 DEF Retry!Next, Retry!Step, Promise!SpecNext

\* Every step of Do is one of RetrySpec, or changes nothing that RetrySpec sees.
LEMMA DoRefines ==
  ASSUME HTTPInv, HTTP!Next, subject = "httpretrier", subject' = "httpretrier"
  PROVE  Promise!SpecNext \/ UNCHANGED Promise!specVars
<1> USE HTTPMap
<1>0. HTTP!TypeOK /\ HTTPCounts
  BY DEF HTTPInv
<1>a. /\ Attempts \in Nat /\ remaining \in Nat /\ done \in Nat /\ remaining + done = Attempts
  BY <1>0, HTTPTypes
<1>1. ASSUME HTTP!Do PROVE Promise!Refuse \/ Promise!Begin
  <2>1. CASE ended
    BY <1>1, <2>1 DEF HTTP!Do, Promise!Refuse
  <2>2. CASE ~ended
    BY <1>1, <2>2 DEF HTTP!Do, Promise!Begin
  <2> QED BY <2>1, <2>2
<1>2. ASSUME HTTP!contextEnds PROVE Promise!GiveUp
  BY <1>2 DEF HTTP!contextEnds, Promise!GiveUp
<1>3. ASSUME HTTP!timerFires PROVE Promise!Attempt
  <2>1. /\ pc = "select" /\ pc' = "client" /\ UNCHANGED <<ended, result, done, last>>
    BY <1>3 DEF HTTP!timerFires
  <2>2. done < Attempts /\ last \in {"none", "retry"}
    BY <1>0, <1>a, <2>1 DEF HTTPCounts
  <2> QED BY <2>1, <2>2 DEF Promise!Attempt
<1>4. ASSUME HTTP!reopenFails PROVE Promise!Abort
  <2>1. /\ pc = "select" /\ pc' = "returned" /\ result' = "aborted" /\ UNCHANGED <<ended, done, last>>
        /\ remaining # Attempts
    BY <1>4 DEF HTTP!reopenFails, HTTP!needsBody
  <2>2. done \in 1..Attempts
    BY <1>a, <2>1
  <2>3. last = "retry"
    BY <1>0, <2>1, <2>2 DEF HTTPCounts
  <2> QED BY <2>1, <2>2, <2>3 DEF Promise!Abort
<1>5. ASSUME NEW reply \in HTTP!Replies, NEW again \in BOOLEAN, HTTP!run(reply, again)
      PROVE  Promise!Decide \/ Promise!Abort \/ Promise!Fail
  <2>1. /\ pc = "client" /\ remaining > 0 /\ done' = done + 1 /\ ended' = ended
        /\ last' = IF again THEN "retry" ELSE IF reply.err THEN "fatal" ELSE "ok"
    BY <1>5, RunSteps
  <2>2. done + 1 \in 1..Attempts
    BY <1>a, <2>1
  <2>3. ASSUME HTTP!final(again),
               HTTP!accept(reply, IF again THEN "retry" ELSE IF reply.err THEN "fatal" ELSE "ok")
        PROVE  Promise!Decide
    <3>1. pc' = "returned" /\ result' = last'
      BY <2>1, <2>3 DEF HTTP!accept
    <3>2. again => done' = Attempts
      BY <1>a, <2>1, <2>3 DEF HTTP!final
    <3>3. last' \in IF done' = Attempts THEN {"ok", "retry", "fatal"} ELSE {"ok", "fatal"}
      BY <2>1, <3>2
    <3> QED BY <2>1, <3>1, <3>3 DEF Promise!Decide
  <2>4. ASSUME ~HTTP!final(again), HTTP!abort(reply) PROVE Promise!Abort
    <3>1. pc' = "returned" /\ result' = "aborted" /\ last' = "retry"
      BY <2>1, <2>4 DEF HTTP!abort, HTTP!final
    <3> QED BY <2>1, <2>2, <3>1 DEF Promise!Abort
  <2>5. ASSUME ~HTTP!final(again), NEW h \in HTTP!headersOf(reply), HTTP!retry(reply, h)
        PROVE  Promise!Fail
    <3>1. pc' = "select" /\ result' = result /\ last' = "retry" /\ remaining # 1
      BY <2>1, <2>5 DEF HTTP!retry, HTTP!final
    <3>2. done' < Attempts
      BY <1>a, <2>1, <3>1
    <3> QED BY <2>1, <3>1, <3>2 DEF Promise!Fail
  <2> QED BY <1>5, <2>3, <2>4, <2>5 DEF HTTP!run
<1>6. ASSUME HTTP!cancel PROVE Promise!End
  BY <1>6 DEF HTTP!cancel, Promise!End
<1>7. ASSUME HTTP!Returned PROVE UNCHANGED Promise!specVars
  BY <1>7 DEF HTTP!Returned, HTTP!vars, Promise!specVars
<1> QED BY <1>1, <1>2, <1>3, <1>4, <1>5, <1>6, <1>7 DEF HTTP!Next, HTTP!Step, Promise!SpecNext

\* retrier.Run and httpretrier.Do keep the promises of RetrySpec, for any number of attempts,
\* whatever the replies and whenever the context ends: no attempt beyond the last or after a
\* final outcome, a result that is the last attempt's, and the context's error only if the
\* context ended.
THEOREM LoopsImplementRetrySpec == OutSpec => ImplementsRetry
<1>1. OutInit => Promise!SpecInit
  <2> SUFFICES ASSUME OutInit PROVE Promise!SpecInit
    OBVIOUS
  <2>1. CASE subject = "retrier"
    BY <2>1 DEF OutInit, Retry!Init, Promise!SpecInit, InLoop, Retry!Phase
  <2>2. CASE subject = "httpretrier"
    BY <2>2 DEF OutInit, HTTP!Init, Promise!SpecInit, InLoop, HTTP!Phase
  <2>3. CASE subject \in {"backoff", "dnscache"}
    BY <2>3 DEF Promise!SpecInit, InLoop
  <2> QED BY <2>1, <2>2, <2>3 DEF OutInit
<1>2. OutInv /\ [OutNext]_outVars => [Promise!SpecNext]_(Promise!specVars)
  <2> SUFFICES ASSUME OutInv, [OutNext]_outVars
               PROVE  Promise!SpecNext \/ UNCHANGED Promise!specVars
    OBVIOUS
  <2>1. CASE backoffStep
    <3>1. subject = "backoff" /\ subject' = "backoff"
      BY <2>1 DEF backoffStep
    <3> QED BY <3>1 DEF Promise!specVars, InLoop
  <2>2. CASE Retrying(Retry!Next)
    BY <2>2, RunRefines DEF Retrying, OutInv
  <2>3. CASE Sending(HTTP!Next)
    BY <2>3, DoRefines DEF Sending, OutInv
  <2>4. CASE Dialling(Dial!Next)
    <3>1. subject = "dnscache" /\ subject' = "dnscache"
      BY <2>4 DEF Dialling
    <3> QED BY <3>1 DEF Promise!specVars, InLoop
  <2>5. CASE UNCHANGED outVars
    BY <2>5 DEF outVars, calls, loops, Promise!specVars, InLoop, Retry!Phase, HTTP!Phase
  <2> QED BY <2>1, <2>2, <2>3, <2>4, <2>5 DEF OutNext
<1> QED BY <1>1, <1>2, AlwaysOutInv, PTL DEF OutSpec, ImplementsRetry, Promise!RetryLoop


\* The state of the backoff schedule and of both retry loops is well formed for any number of
\* attempts and any width of the integers: no delay is negative or overflows, and the attempts
\* left are those not made.
THEOREM LoopsAreWellFormed == OutSpec => []WellFormed
<1>1. OutInv => WellFormed
  BY DEF OutInv, WellFormed, DelayInv, RetryInv, HTTPInv
<1> QED BY <1>1, AlwaysOutInv, PTL


=============================================================================
