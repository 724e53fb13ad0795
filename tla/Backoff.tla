------------------------------- MODULE Backoff -------------------------------
(***************************************************************************)
(* pkg/backoff: the delays of an exponential backoff, clamped and          *)
(* jittered.  Durations are signed machine integers up to MaxInt; the      *)
(* progression is a float64, which is an integer here, or NaN, and every   *)
(* conversion to it and product of it is rounded: float64 holds only some  *)
(* of the integers beyond 2^53.  So a delay may exceed MaxDelay ("beyond   *)
(* that a result may differ by a few nanoseconds"), and maxSafeDelay, an   *)
(* odd number, becomes the power of two above it.                          *)
(***************************************************************************)
EXTENDS Integers

CONSTANTS
  MaxInt,   \* math.MaxInt64
  Configs,  \* the configurations New may be given
  NaN,      \* the float64 that is no number
  FloatMax, \* bound: the progression saturates at -FloatMax and FloatMax (infinite in the code)
  Exact,    \* 2^53: every integer up to it is a float64
  Float(_)  \* the float64 nearest to an integer

ASSUME MaxIntAssumption == MaxInt \in Nat /\ MaxInt % 2 = 1

Strategies == {"additive", "full", "equal"}

Durations == -(MaxInt + 1)..MaxInt

ConfigType == [base : Durations, factor : Int \union {NaN}, jitter : Durations,
               maxDelay : Durations, strategy : Strategies]

ASSUME ConfigsAssumption == Configs \subseteq ConfigType

ASSUME NaNAssumption == NaN \notin Int

maxSafeDelay == MaxInt \div 2

Magnitudes == -FloatMax..FloatMax

\* Rounding to the nearest keeps order and what is a float64 already.
ASSUME FloatAssumption ==
  /\ FloatMax \in Nat /\ FloatMax > MaxInt
  /\ Exact \in 0..maxSafeDelay
  /\ \A x \in Magnitudes : Float(x) \in Magnitudes /\ Float(Float(x)) = Float(x)
  /\ \A x \in Magnitudes : \A y \in Magnitudes : x <= y => Float(x) <= Float(y)
  /\ \A x \in -Exact..Exact : Float(x) = x
  /\ Float(maxSafeDelay) = maxSafeDelay + 1

VARIABLES
  cfg,   \* the configuration
  next,  \* s.next
  pre,   \* the delay of the last call before its jitter
  delay  \* what the last call returned

vars == <<cfg, next, pre, delay>>

\* The signed sum of two durations.
Wrap(x) == IF x > MaxInt THEN x - 2 * (MaxInt + 1) ELSE x

\* Mutant: the sum is not checked.
addJitterValue_Wraps(base, jitter) == Wrap(base + jitter)

addJitterValue(base, jitter) ==
  LET sum == Wrap(base + jitter) IN IF sum < base THEN MaxInt ELSE sum

\* The durations AddJitter may return.
AddJitter(base, ceil) ==
  IF ceil <= 0 THEN {base} ELSE {addJitterValue(base, j) : j \in 0..(ceil - 1)}

applyJitter(d) ==
  LET half == d \div 2
  IN CASE cfg.strategy = "full"     -> AddJitter(0, d)
       [] cfg.strategy = "equal"    -> AddJitter(half, d - half)
       [] cfg.strategy = "additive" -> AddJitter(d, cfg.jitter)

Clamp == IF cfg.maxDelay <= 0 \/ cfg.maxDelay > maxSafeDelay THEN maxSafeDelay ELSE cfg.maxDelay

\* The delay before its jitter.
clamped ==
  IF next = NaN \/ next < 0 THEN 0
  ELSE IF next > Float(Clamp) THEN Float(Clamp) ELSE next

Saturated(x) == IF x < -FloatMax THEN -FloatMax ELSE IF x > FloatMax THEN FloatMax ELSE x

Times(x, y) == IF x = NaN \/ y = NaN THEN NaN ELSE Float(Saturated(x * y))

grown ==
  LET n == Times(next, cfg.factor)
  IN IF n # NaN /\ n > Float(maxSafeDelay) THEN Float(maxSafeDelay) ELSE n

Next ==
  /\ pre' = clamped
  /\ delay' \in applyJitter(clamped)
  /\ next' = grown
  /\ UNCHANGED cfg

\* New
Init ==
  /\ cfg \in Configs
  /\ next = Float(cfg.base)
  /\ pre = 0
  /\ delay = 0

Spec == Init /\ [][Next]_vars

-----------------------------------------------------------------------------
(* Properties *)

\* The progression is a number or NaN, and every delay is a duration: "can never overflow
\* into a negative duration at high attempt counts", for any configuration.
TypeOK ==
  /\ cfg \in Configs
  /\ next \in Int \union {NaN}
  /\ pre \in 0..(maxSafeDelay + 1)
  /\ delay \in 0..MaxInt

\* "MaxDelay caps the pre-jitter delay": as long as float64 is exact, and beyond that up to the
\* rounding of MaxDelay itself.
CappedByMaxDelay ==
  cfg.maxDelay > 0 => /\ pre <= Float(cfg.maxDelay)
                      /\ cfg.maxDelay <= Exact => pre <= cfg.maxDelay

\* "full: rand[0, delay)", "equal: a wait in [delay/2, delay)", "additive: on top of the
\* clamped exponential delay": each strategy stays within its band.
JitterStaysInBand ==
  CASE cfg.strategy = "full"     -> delay < pre \/ (delay = 0 /\ pre = 0)
    [] cfg.strategy = "equal"    -> delay >= pre \div 2 /\ (delay < pre \/ delay = pre \div 2)
    [] cfg.strategy = "additive" -> delay >= pre

\* "Use >= 1 for non-decreasing backoff".
NonDecreasing ==
  [][(cfg.factor # NaN /\ cfg.factor >= 1 /\ cfg.base >= 0) => pre' >= pre]_vars

=============================================================================
