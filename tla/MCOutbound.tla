----------------------------- MODULE MCOutbound -----------------------------
(* TLC instance of Outbound: durations up to 63, four of them in a second, and floats with three
   bits, which hold every integer up to 8, then every second and every fourth; three IPv4 and
   two IPv6 addresses, one of them spelled in two ways, and a string that is no address. *)
EXTENDS Outbound

CONSTANTS a4, b4, c4, a4mapped, a6, b6, bad

\* The nearest integer with three significant bits, the even one of two that are as near.
Round(x) ==
  LET m == IF x < 0 THEN -x ELSE x
      unit == CHOOSE u \in {1, 2, 4, 8, 16} : m <= 8 * u /\ (u = 1 \/ m > 4 * u)
      low == m \div unit
      twice == 2 * (m % unit)
      up == twice > unit \/ (twice = unit /\ low % 2 = 1)
      rounded == (IF up THEN low + 1 ELSE low) * unit
  IN  IF x < 0 THEN -rounded ELSE rounded

SomeConfigs ==
  [base : {-3, 0, 5, 63}, factor : {-2, 0, 1, 3, NaN}, jitter : {-1, 40, 63},
   maxDelay : {0, 7, 19, 31, 63}, strategy : Strategies]

SomeDelays == {0, 3, 58}
SomeHeaders ==
  {[kind |-> "none", n |-> 0]} \union [kind : {"secs"}, n : {-1, 1, 14, 15, 16, 63}]
    \union [kind : {"date"}, n : {-5, 10, 61}]

Parsed ==
  [r \in Raws |->
     IF r = bad THEN [fam |-> "bad", ip |-> 0]
     ELSE IF r \in {a6, b6} THEN [fam |-> "v6", ip |-> IF r = a6 THEN 1 ELSE 2]
     ELSE [fam |-> "v4", ip |-> IF r = b4 THEN 2 ELSE IF r = c4 THEN 3 ELSE 1]]

SomeAnswers ==
  {<<>>, <<a4, b4, a6, b6>>, <<a6, b6, a4>>, <<bad, a6, a4mapped, a4, bad>>, <<b4, c4, a4, a6>>}

=============================================================================
