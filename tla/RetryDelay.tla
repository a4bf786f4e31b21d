------------------------------ MODULE RetryDelay ------------------------------
(***************************************************************************)
(* dhan_lean/providers/zerodha/retry.py: RetryPolicy and                   *)
(* calculate_retry_delay.  Durations are integers in one unit; the unit is *)
(* a constant fraction of a second, so that Retry-After, which counts      *)
(* seconds, and the others meet.  An optional value is a set of at most    *)
(* one element.                                                            *)
(***************************************************************************)
EXTENDS Integers

CONSTANT UnitsPerSecond

ASSUME UnitsPerSecondPositive == UnitsPerSecond \in Nat \ {0}

Least(a, b) == IF a <= b THEN a ELSE b

\* What RetryPolicy.__init__ accepts.
Policy == [maximum_attempts : Int, base : Int, cap : Int, jitterMax : Int, retryAfterMax : Int]
PolicyAccepted(p) ==
  /\ p.maximum_attempts > 0
  /\ \A d \in {p.base, p.cap, p.jitterMax, p.retryAfterMax} : d >= 0
  /\ p.base <= p.cap
  /\ p.jitterMax <= 60 * UnitsPerSecond

\* 1 << k
PowerOfTwo[k \in Nat] == IF k = 0 THEN 1 ELSE 2 * PowerOfTwo[k - 1]

\* base * 2^(n-1), compared with the cap before it is multiplied out.
Exponential(p, n) ==
  IF p.base = 0 \/ p.base >= p.cap THEN Least(p.base, p.cap)
  ELSE IF n - 1 >= 63 \/ PowerOfTwo[n - 1] * p.base >= p.cap THEN p.cap ELSE PowerOfTwo[n - 1] * p.base

\* The Retry-After a response may carry, in seconds, never beyond the policy's bound.
Honoured(p, retryAfter) == {Least(s * UnitsPerSecond, p.retryAfterMax) : s \in retryAfter}

\* calculate_retry_delay: the longer of the own backoff with its jitter and Retry-After.
Delay(p, n, retryAfter, jitter) ==
  LET waits == {Exponential(p, n) + jitter} \cup Honoured(p, retryAfter)
  IN  CHOOSE d \in waits : \A e \in waits : e <= d
===============================================================================
