----------------------- MODULE HistoricalRequest_proof -----------------------
(***************************************************************************)
(* Proofs about HistoricalRequest and the pure modules it is made of, for  *)
(* every set of dumps, contexts, work items, policies and deeds of the     *)
(* broker.                                                                 *)
(*                                                                         *)
(* First the delays: what the code computes is the documents' doubled and  *)
(* capped backoff, for every attempt number.  This is an induction; it is  *)
(* done on the smallest number for which the claim would fail.  Then the   *)
(* tables of conditions: what planning accepts the protocol accepts, and   *)
(* what a fingerprint distinguishes.  Last the run, whose invariant says   *)
(* of every attempt what its thread, its connection and its record have    *)
(* to do with each other.                                                  *)
(***************************************************************************)
EXTENDS HistoricalRequest, FiniteSetTheorems, SequenceTheorems, WellFoundedInduction, TLAPS

\* A set of natural numbers that is not empty has a smallest element.
LEMMA Smallest ==
  ASSUME NEW T, T \subseteq Nat, T # {}
  PROVE  \E m \in T : \A k \in T : m <= k
<1> DEFINE R == OpToRel(<, Nat)
<1>1. IsWellFoundedOn(R, Nat)
  BY NatLessThanWellFounded
<1>2. \A m, k \in Nat : <<k, m>> \in R <=> k < m
  BY DEF OpToRel
<1> HIDE DEF R
<1>3. PICK m \in T : \A k \in T : ~(<<k, m>> \in R)
  BY <1>1, WFMin
<1>4. ASSUME NEW k \in T PROVE m <= k
  <2>1. m \in Nat /\ k \in Nat
    OBVIOUS
  <2>2. ~(k < m)
    BY <2>1, <1>2, <1>3
  <2> QED
    BY <2>1, <2>2
<1> QED
  BY <1>4

\* What holds of zero and goes on from each number to the next holds of all.
LEMMA Inductive ==
  ASSUME NEW T, T \subseteq Nat, 0 \in T, \A k \in Nat : k \in T => k + 1 \in T
  PROVE  T = Nat
<1> SUFFICES ASSUME Nat \ T # {} PROVE FALSE
  OBVIOUS
<1>1. PICK m \in Nat \ T : \A k \in Nat \ T : m <= k
  BY Smallest
<1>2. m # 0 /\ m - 1 \in Nat /\ m - 1 \in T
  BY <1>1
<1> QED
  BY <1>1, <1>2
-----------------------------------------------------------------------------
Doubles(f, k) == f \in [0 .. k -> Nat] /\ f[0] = 1 /\ \A i \in 1 .. k : f[i] = 2 * f[i - 1]

\* The powers of two up to any k exist, and for two bounds they are the same.
LEMMA DoublingExists == \A k \in Nat : \E f : Doubles(f, k)
<1> DEFINE T == {k \in Nat : \E f : Doubles(f, k)}
<1>1. 0 \in T
  <2>1. Doubles([i \in 0 .. 0 |-> 1], 0)
    BY DEF Doubles
  <2> QED
    BY <2>1
<1>2. ASSUME NEW k \in Nat, k \in T PROVE k + 1 \in T
  <2>1. PICK f : Doubles(f, k)
    BY <1>2
  <2> DEFINE g == [i \in 0 .. (k + 1) |-> IF i = k + 1 THEN 2 * f[k] ELSE f[i]]
  <2>2. g \in [0 .. (k + 1) -> Nat]
    BY <2>1 DEF Doubles
  <2>3. g[0] = 1
    BY <2>1 DEF Doubles
  <2>4. ASSUME NEW i \in 1 .. (k + 1) PROVE g[i] = 2 * g[i - 1]
    BY <2>1 DEF Doubles
  <2>5. Doubles(g, k + 1)
    BY <2>2, <2>3, <2>4 DEF Doubles
  <2> QED
    BY <2>5
<1> HIDE DEF T
<1>3. T \subseteq Nat
  BY DEF T
<1>4. T = Nat
  BY <1>1, <1>2, <1>3, Inductive
<1> QED
  BY <1>4 DEF T

LEMMA DoublingIsUnique ==
  ASSUME NEW k \in Nat, NEW l \in Nat, NEW f, NEW g, Doubles(f, k), Doubles(g, l)
  PROVE  \A i \in Nat : i <= k /\ i <= l => f[i] = g[i]
<1> DEFINE T == {i \in Nat : i <= k /\ i <= l => f[i] = g[i]}
<1>1. 0 \in T
  BY DEF Doubles
<1>2. ASSUME NEW i \in Nat, i \in T PROVE i + 1 \in T
  <2> SUFFICES ASSUME i + 1 <= k, i + 1 <= l PROVE f[i + 1] = g[i + 1]
    OBVIOUS
  <2>1. f[i + 1] = 2 * f[i]
    BY DEF Doubles
  <2>2. g[i + 1] = 2 * g[i]
    BY DEF Doubles
  <2> QED
    BY <1>2, <2>1, <2>2
<1> HIDE DEF T
<1>3. T \subseteq Nat
  BY DEF T
<1>4. T = Nat
  BY <1>1, <1>2, <1>3, Inductive
<1> QED
  BY <1>4 DEF T

\* PowerOfTwo satisfies the equation that defines it.
LEMMA PowerOfTwoDef == PowerOfTwo = [k \in Nat |-> IF k = 0 THEN 1 ELSE 2 * PowerOfTwo[k - 1]]
<1> DEFINE upTo(k) == CHOOSE f : Doubles(f, k)
           power == [k \in Nat |-> upTo(k)[k]]
<1>1. ASSUME NEW k \in Nat PROVE Doubles(upTo(k), k)
  BY DoublingExists
<1>2. ASSUME NEW k \in Nat PROVE power[k] = IF k = 0 THEN 1 ELSE 2 * power[k - 1]
  <2>1. CASE k = 0
    BY <2>1, <1>1 DEF Doubles
  <2>2. CASE k # 0
    <3>1. k - 1 \in Nat
      BY <2>2
    <3>2. Doubles(upTo(k), k) /\ Doubles(upTo(k - 1), k - 1)
      BY <1>1, <3>1
    <3> HIDE DEF upTo
    <3>3. upTo(k)[k - 1] = upTo(k - 1)[k - 1]
      BY <3>1, <3>2, DoublingIsUnique
    <3>4. upTo(k)[k] = 2 * upTo(k)[k - 1]
      BY <2>2, <3>2 DEF Doubles
    <3> QED
      BY <2>2, <3>1, <3>3, <3>4
  <2> QED
    BY <2>1, <2>2
<1>3. power = [k \in Nat |-> IF k = 0 THEN 1 ELSE 2 * power[k - 1]]
  <2> HIDE DEF upTo
  <2>1. power = [k \in Nat |-> power[k]]
    OBVIOUS
  <2> HIDE DEF power
  <2> QED
    BY <2>1, <1>2
<1>4. \E f : f = [k \in Nat |-> IF k = 0 THEN 1 ELSE 2 * f[k - 1]]
  BY <1>3, Zenon
<1> QED
  BY <1>4, Zenon DEF PowerOfTwo

LEMMA PowersArePositive ==
  /\ PowerOfTwo[0] = 1
  /\ \A k \in Nat : PowerOfTwo[k] \in Nat \ {0} /\ PowerOfTwo[k + 1] = 2 * PowerOfTwo[k]
<1> DEFINE T == {k \in Nat : PowerOfTwo[k] \in Nat \ {0}}
<1>1. PowerOfTwo[0] = 1
  BY PowerOfTwoDef
<1>2. ASSUME NEW k \in Nat PROVE PowerOfTwo[k + 1] = 2 * PowerOfTwo[k]
  <2>1. k + 1 \in Nat /\ k + 1 # 0 /\ (k + 1) - 1 = k
    OBVIOUS
  <2> QED
    BY <2>1, PowerOfTwoDef
<1>3. 0 \in T
  BY <1>1
<1>4. \A k \in Nat : k \in T => k + 1 \in T
  BY <1>2
<1> HIDE DEF T
<1>5. T \subseteq Nat
  BY DEF T
<1>6. T = Nat
  BY <1>3, <1>4, <1>5, Inductive
<1> QED
  BY <1>1, <1>2, <1>6 DEF T

LEMMA PowersIncrease == \A k, n \in Nat : k <= n => PowerOfTwo[k] <= PowerOfTwo[n]
<1> SUFFICES ASSUME NEW k \in Nat PROVE \A n \in Nat : k <= n => PowerOfTwo[k] <= PowerOfTwo[n]
  OBVIOUS
<1> DEFINE T == {n \in Nat : k <= n => PowerOfTwo[k] <= PowerOfTwo[n]}
<1>1. 0 \in T
  BY PowersArePositive
<1>2. ASSUME NEW n \in Nat, n \in T PROVE n + 1 \in T
  <2>1. PowerOfTwo[k] \in Nat /\ PowerOfTwo[n] \in Nat /\ PowerOfTwo[n + 1] = 2 * PowerOfTwo[n]
    BY PowersArePositive
  <2> QED
    BY <1>2, <2>1
<1> HIDE DEF T
<1>3. T \subseteq Nat
  BY DEF T
<1>4. T = Nat
  BY <1>1, <1>2, <1>3, Inductive
<1> QED
  BY <1>4 DEF T

\* The delay as the code computes it before it compares: base * 2^(n-1), or the cap.
Capped(p, n) == Least(p.cap, p.base * PowerOfTwo[n - 1])

LEMMA CappedDoubles ==
  ASSUME NEW p \in Policy, PolicyAccepted(p)
  PROVE  /\ Capped(p, 1) = p.base
         /\ \A n \in Nat \ {0} : /\ Capped(p, n) \in Nat
                                 /\ Capped(p, n + 1) = Least(p.cap, 2 * Capped(p, n))
<1>1. p.base \in Nat /\ p.cap \in Nat /\ p.base <= p.cap
  BY DEF PolicyAccepted, Policy
<1>2. Capped(p, 1) = p.base
  <2>1. PowerOfTwo[1 - 1] = 1
    BY PowersArePositive
  <2> QED
    BY <1>1, <2>1 DEF Capped, Least
<1>3. ASSUME NEW n \in Nat \ {0}
      PROVE  Capped(p, n) \in Nat /\ Capped(p, n + 1) = Least(p.cap, 2 * Capped(p, n))
  <2>1. n - 1 \in Nat /\ (n - 1) + 1 = n /\ (n + 1) - 1 = n
    OBVIOUS
  <2>2. PowerOfTwo[n - 1] \in Nat /\ PowerOfTwo[n] = 2 * PowerOfTwo[n - 1]
    BY <2>1, PowersArePositive
  <2> DEFINE x == p.base * PowerOfTwo[n - 1]
  <2>3. x \in Nat
    BY <1>1, <2>2
  <2>4. p.base * PowerOfTwo[n] = 2 * x
    BY <1>1, <2>2
  <2>5. Capped(p, n) = Least(p.cap, x) /\ Capped(p, n + 1) = Least(p.cap, 2 * x)
    BY <2>1, <2>4 DEF Capped
  <2> HIDE DEF x
  <2> QED
    BY <1>1, <2>3, <2>5 DEF Least
<1> QED
  BY <1>2, <1>3

\* Backoff is what the documents' recursion says, at every n: base * 2^(n-1), capped.
LEMMA BackoffIsCapped ==
  ASSUME NEW p \in Policy, PolicyAccepted(p)
  PROVE  \A n \in Nat \ {0} : Backoff(p)[n] = Capped(p, n)
<1> DEFINE closed == [n \in Nat |-> IF n <= 1 THEN p.base ELSE Capped(p, n)]
           delay == Backoff(p)
<1>1. ASSUME NEW n \in Nat
      PROVE  closed[n] = IF n <= 1 THEN p.base ELSE Least(p.cap, 2 * closed[n - 1])
  <2>1. CASE n <= 1
    BY <2>1
  <2>2. CASE n = 2
    BY <2>2, CappedDoubles
  <2>3. CASE n > 2
    <3>1. n - 1 \in Nat \ {0} /\ (n - 1) + 1 = n
      BY <2>3
    <3>2. Capped(p, n) = Least(p.cap, 2 * Capped(p, n - 1))
      BY <3>1, CappedDoubles
    <3> QED
      BY <2>3, <3>1, <3>2
  <2> QED
    BY <2>1, <2>2, <2>3
<1>2. closed = [n \in Nat |-> IF n <= 1 THEN p.base ELSE Least(p.cap, 2 * closed[n - 1])]
  <2>1. closed = [n \in Nat |-> closed[n]]
    OBVIOUS
  <2> HIDE DEF closed
  <2> QED
    BY <1>1, <2>1
<1>3. \E f : f = [n \in Nat |-> IF n <= 1 THEN p.base ELSE Least(p.cap, 2 * f[n - 1])]
  BY <1>2, Zenon
<1>4. delay = [n \in Nat |-> IF n <= 1 THEN p.base ELSE Least(p.cap, 2 * delay[n - 1])]
  BY <1>3, Zenon DEF Backoff
<1> HIDE DEF delay
<1> DEFINE T == {n \in Nat : delay[n + 1] = Capped(p, n + 1)}
<1>5. 0 \in T
  BY <1>4, CappedDoubles
<1>6. ASSUME NEW n \in Nat, n \in T PROVE n + 1 \in T
  <2>1. delay[(n + 1) + 1] = Least(p.cap, 2 * delay[n + 1])
    BY <1>4
  <2> QED
    BY <1>6, <2>1, CappedDoubles
<1> HIDE DEF T
<1>7. T \subseteq Nat
  BY DEF T
<1>8. T = Nat
  BY <1>5, <1>6, <1>7, Inductive
<1>9. ASSUME NEW n \in Nat \ {0} PROVE delay[n] = Capped(p, n)
  <2>1. n - 1 \in T /\ (n - 1) + 1 = n
    BY <1>8
  <2> QED
    BY <2>1 DEF T
<1> QED
  BY <1>9 DEF delay

\* What calculate_retry_delay computes before the jitter, which it stops multiplying
\* out once the cap is reached, is for every retry a policy allows the backoff of the
\* documents: the base doubled with every retry, up to the cap (retry.py:174-190).
THEOREM ExponentialIsBackoff ==
  ASSUME NEW p \in Policies, NEW n \in 1 .. (p.maximum_attempts - 1)
  PROVE  Exponential(p, n) = Backoff(p)[n] /\ Exponential(p, n) \in 0 .. p.cap
<1>1. /\ p \in Policy /\ PolicyAccepted(p)
      /\ p.maximum_attempts <= 64 \/ p.base = 0 \/ PowerOfTwo[63] * p.base >= p.cap
  BY PoliciesAreAccepted, CapsAreReached
<1>2. p.base \in Nat /\ p.cap \in Nat /\ p.base <= p.cap /\ p.maximum_attempts \in Int
  BY <1>1 DEF PolicyAccepted, Policy
<1>3. n \in Nat \ {0} /\ n - 1 \in Nat
  BY <1>2
<1> DEFINE power == PowerOfTwo[n - 1]
<1>4. power \in Nat \ {0}
  BY <1>3, PowersArePositive
<1>5. Backoff(p)[n] = Least(p.cap, p.base * power)
  BY <1>1, <1>3, BackoffIsCapped DEF Capped
<1>6. n - 1 >= 63 /\ p.base # 0 => power * p.base >= p.cap
  <2> SUFFICES ASSUME n - 1 >= 63, p.base # 0 PROVE power * p.base >= p.cap
    OBVIOUS
  <2>1. PowerOfTwo[63] * p.base >= p.cap
    BY <1>1, <1>2
  <2>2. PowerOfTwo[63] \in Nat /\ PowerOfTwo[63] <= power
    BY <1>3, PowersArePositive, PowersIncrease
  <2> HIDE DEF power
  <2>3. PowerOfTwo[63] * p.base <= power * p.base
    BY <1>2, <1>4, <2>2
  <2>4. PowerOfTwo[63] * p.base \in Nat /\ power * p.base \in Nat
    BY <1>2, <1>4, <2>2
  <2> QED
    BY <1>2, <2>1, <2>3, <2>4
<1> DEFINE x == power * p.base
<1>7. x \in Nat /\ p.base * power = x /\ x >= p.base
  <2> HIDE DEF power
  <2> QED
    BY <1>2, <1>4
<1>8. Exponential(p, n) = IF p.base = 0 \/ p.base >= p.cap THEN Least(p.base, p.cap)
                          ELSE IF n - 1 >= 63 \/ x >= p.cap THEN p.cap ELSE x
  BY DEF Exponential
<1>9. p.base = 0 => x = 0
  <2> HIDE DEF power
  <2> QED
    BY <1>4
<1>10. Backoff(p)[n] = Least(p.cap, x) /\ (n - 1 >= 63 /\ p.base # 0 => x >= p.cap)
  BY <1>5, <1>6, <1>7
<1> HIDE DEF x
<1> QED
  BY <1>2, <1>3, <1>7, <1>8, <1>9, <1>10 DEF Least

\* The delay is the longer one of the documented backoff with its jitter and of the
\* Retry-After that is honoured.  It is never shorter than the jitter, and beyond the
\* cap and the jitter only ever the policy's bound on Retry-After (retry.py:141-190).
THEOREM DelayIsDocumented ==
  ASSUME NEW p \in Policies, NEW n \in 1 .. (p.maximum_attempts - 1),
         NEW retryAfter, Optional(retryAfter, Int), NEW j \in Nat
  PROVE  LET waits == {Backoff(p)[n] + j} \cup Honoured(p, retryAfter)
             delay == Delay(p, n, retryAfter, j)
         IN  /\ delay \in waits /\ \A e \in waits : e <= delay
             /\ delay \in Nat /\ j <= delay
             /\ delay <= p.cap + j \/ delay <= p.retryAfterMax
<1> DEFINE own == Backoff(p)[n] + j
           waits == {own} \cup Honoured(p, retryAfter)
           delay == Delay(p, n, retryAfter, j)
<1>1. p.retryAfterMax \in Int /\ p.cap \in Int
  BY PoliciesAreAccepted DEF Policy
<1>2. own = Exponential(p, n) + j /\ own \in Int /\ j <= own /\ own <= p.cap + j
  <2>1. Exponential(p, n) = Backoff(p)[n] /\ Exponential(p, n) \in 0 .. p.cap
    BY ExponentialIsBackoff
  <2> QED
    BY <1>1, <2>1
<1>3. Honoured(p, retryAfter) \subseteq Int
  <2>1. \A s \in retryAfter : s * UnitsPerSecond \in Int
    BY UnitsPerSecondPositive DEF Optional
  <2>2. \A s \in retryAfter : Least(s * UnitsPerSecond, p.retryAfterMax) \in Int
    BY <1>1, <2>1 DEF Least
  <2> QED
    BY <2>2 DEF Honoured
<1>4. \A e \in Honoured(p, retryAfter) : e <= p.retryAfterMax
  BY <1>1, UnitsPerSecondPositive DEF Honoured, Optional, Least
<1>5. \A x, y \in Honoured(p, retryAfter) : x = y
  BY DEF Honoured, Optional
<1>6. delay = CHOOSE d \in waits : \A e \in waits : e <= d
  BY <1>2 DEF Delay
<1>7. \E d \in waits : \A e \in waits : e <= d
  <2>1. CASE \E s \in Honoured(p, retryAfter) : own <= s
    BY <2>1, <1>2, <1>3, <1>5
  <2>2. CASE \A s \in Honoured(p, retryAfter) : ~(own <= s)
    BY <2>2, <1>2, <1>3, <1>5
  <2> QED
    BY <2>1, <2>2
<1>8. delay \in waits /\ \A e \in waits : e <= delay
  <2> HIDE DEF delay, waits
  <2> QED
    BY <1>6, <1>7
<1>9. waits \subseteq Int /\ own \in waits
  BY <1>2, <1>3
<1>10. delay \in Nat /\ j <= delay
  <2> HIDE DEF delay, waits, own
  <2> QED
    BY <1>2, <1>8, <1>9
<1>11. delay <= p.cap + j \/ delay <= p.retryAfterMax
  <2>1. delay = own \/ delay \in Honoured(p, retryAfter)
    BY <1>8
  <2> HIDE DEF delay, own
  <2> QED
    BY <2>1, <1>2, <1>4
<1> QED
  BY <1>8, <1>10, <1>11
-----------------------------------------------------------------------------
Requests == [protocol_version : Int, request_id : Int, token : Numerals, interval : {"minute"},
             from : Times, to : Times, continuous : BOOLEAN, oi : BOOLEAN]

LEMMA IstKeepsTheInstant ==
  \A t \in Times : Ist(t) \in Times /\ Ist(t).at = t.at /\ Ist(t).zone = "IST"
  BY DEF Ist, Times

\* Requests that differ in the ID and the zone only are refused alike.
LEMMA RefusalIsOfTheInstants ==
  ASSUME NEW r \in Requests, NEW s \in Requests, RequestRefusal(r) = "none",
         s.request_id # 0, s.protocol_version = r.protocol_version, s.token = r.token,
         s.continuous = r.continuous,
         s.from.at = r.from.at, s.from.zone # "naive", s.to.at = r.to.at, s.to.zone # "naive"
  PROVE  RequestRefusal(s) = "none"
<1>1. /\ r.protocol_version = 1 /\ ProviderToken(r.token) /\ ~r.continuous
      /\ WholeSecond(r.from) /\ WholeSecond(r.to) /\ ~(r.from.at >= r.to.at)
      /\ ~(r.to.at - r.from.at > TicksPerDay) /\ IstDay(r.from) = IstDay(r.to)
  BY DEF RequestRefusal
<1>2. /\ WholeSecond(s.from) /\ WholeSecond(s.to) /\ ~(s.from.at >= s.to.at)
      /\ ~(s.to.at - s.from.at > TicksPerDay) /\ IstDay(s.from) = IstDay(s.to)
  BY <1>1 DEF WholeSecond, IstDay
<1>3. s.interval = "minute"
  BY DEF Requests
<1> QED
  BY <1>1, <1>2, <1>3 DEF RequestRefusal

\* What the constructor of a plan's request accepts is not changed by a new ID, by
\* the zone it is kept in, nor by being sent: the conditions are about instants
\* (broker_protocol.py:185-206).
THEOREM AcceptedForEveryAttempt ==
  ASSUME NEW r \in Requests, RequestRefusal(r) = "none", NEW n \in Nat \ {0}
  PROVE  LET anew == CandleRequest([r EXCEPT !.request_id = n])
         IN  /\ anew \in Requests /\ RequestRefusal(anew) = "none"
             /\ Encoded(anew) \in Requests /\ RequestRefusal(Encoded(anew)) = "none"
<1> DEFINE anew == CandleRequest([r EXCEPT !.request_id = n])
<1>1. r.from \in Times /\ r.to \in Times
  BY DEF Requests
<1>2. /\ anew \in Requests
      /\ anew.request_id = n /\ anew.protocol_version = r.protocol_version
      /\ anew.token = r.token /\ anew.continuous = r.continuous
      /\ anew.from = Ist(r.from) /\ anew.to = Ist(r.to)
  <2> DEFINE one == [r EXCEPT !.request_id = n]
  <2>1. Ist(r.from) \in Times /\ Ist(r.to) \in Times
    BY <1>1, IstKeepsTheInstant
  <2>2. /\ one \in Requests
        /\ one.request_id = n /\ one.protocol_version = r.protocol_version
        /\ one.token = r.token /\ one.continuous = r.continuous
        /\ one.from = r.from /\ one.to = r.to
    BY DEF Requests
  <2> HIDE DEF one
  <2>3. /\ CandleRequest(one) \in Requests
        /\ CandleRequest(one).request_id = n
        /\ CandleRequest(one).protocol_version = one.protocol_version
        /\ CandleRequest(one).token = one.token /\ CandleRequest(one).continuous = one.continuous
        /\ CandleRequest(one).from = Ist(one.from) /\ CandleRequest(one).to = Ist(one.to)
    BY <2>1, <2>2 DEF CandleRequest, Requests
  <2> QED
    BY <2>2, <2>3 DEF one
<1> HIDE DEF anew
<1>3. /\ Encoded(anew) \in Requests
      /\ Encoded(anew).request_id = n /\ Encoded(anew).protocol_version = r.protocol_version
      /\ Encoded(anew).token = r.token /\ Encoded(anew).continuous = r.continuous
      /\ Encoded(anew).from = [anew.from EXCEPT !.zone = "+05:30"]
      /\ Encoded(anew).to = [anew.to EXCEPT !.zone = "+05:30"]
  <2>1. \A t \in Times : [t EXCEPT !.zone = "+05:30"] \in Times
    BY DEF Times
  <2>2. anew.from \in Times /\ anew.to \in Times
    BY <1>2 DEF Requests
  <2>3. /\ [anew.from EXCEPT !.zone = "+05:30"] \in Times
        /\ [anew.to EXCEPT !.zone = "+05:30"] \in Times
    BY <2>1, <2>2
  <2> QED
    BY <1>2, <2>3 DEF Encoded, Requests
<1>4. RequestRefusal(anew) = "none"
  BY <1>1, <1>2, RefusalIsOfTheInstants, IstKeepsTheInstant
<1>5. /\ Encoded(anew).from.at = r.from.at /\ Encoded(anew).from.zone # "naive"
      /\ Encoded(anew).to.at = r.to.at /\ Encoded(anew).to.zone # "naive"
  <2>1. \A t \in Times : /\ [t EXCEPT !.zone = "+05:30"].at = t.at
                         /\ [t EXCEPT !.zone = "+05:30"].zone # "naive"
    BY DEF Times
  <2> QED
    BY <1>1, <1>2, <1>3, <2>1, IstKeepsTheInstant
<1>6. RequestRefusal(Encoded(anew)) = "none"
  BY <1>3, <1>5, RefusalIsOfTheInstants
<1> QED
  BY <1>2, <1>3, <1>4, <1>6 DEF anew

\* A plan whose identity and window are in order makes a request the protocol accepts,
\* whatever it asks for: a window of whole minutes in one session of one IST day is a
\* window of whole seconds, and not longer than a day (planning.py:196-213,
\* broker_protocol.py:185-206).
THEOREM PlannedRequestsAreAccepted ==
  ASSUME NEW plan, IsItem(plan.item), plan.instrument.token \in Numerals, plan.oi \in BOOLEAN,
         NEW id \in Int,
         IdentityRefusal(plan) = "none", WindowRefusal(plan.item) = "none"
  PROVE  /\ HistoricalRequestOf(plan, id) \in Requests
         /\ id # 0 => RequestRefusal(HistoricalRequestOf(plan, id)) = "none"
<1> DEFINE from == plan.item.from
           to == plan.item.to
           token == plan.instrument.token
           r == HistoricalRequestOf(plan, id)
<1>1. from \in Times /\ to \in Times /\ from.at \in Int /\ to.at \in Int
  BY DEF IsItem, Times
<1>2. /\ CanonicalToken(token) \in Numerals
      /\ CanonicalToken(token).value = token.value /\ CanonicalToken(token).form = "plain"
  BY DEF CanonicalToken, Numerals
<1>3. /\ r.protocol_version = 1 /\ r.request_id = id /\ r.token = CanonicalToken(token)
      /\ r.interval = "minute" /\ r.from = Ist(from) /\ r.to = Ist(to) /\ r.continuous = FALSE
  BY DEF HistoricalRequestOf
<1>4. r \in Requests
  <2>1. Ist(from) \in Times /\ Ist(to) \in Times
    BY <1>1, IstKeepsTheInstant
  <2> QED
    BY <1>2, <2>1 DEF HistoricalRequestOf, Requests
<1>5. token.value > 0
  BY DEF IdentityRefusal, ProviderToken
<1>6. /\ from.at < to.at /\ IstDay(from) = IstDay(to)
      /\ from.at % TicksPerMinute = 0 /\ to.at % TicksPerMinute = 0
  BY DEF WindowRefusal, WindowAccepted
<1>7. /\ from.at % TicksPerSecond = 0 /\ to.at % TicksPerSecond = 0
      /\ to.at - from.at <= TicksPerDay
  BY <1>1, <1>6 DEF IstDay, TicksPerDay, TicksPerMinute, TicksPerSecond
<1>8. ASSUME id # 0 PROVE RequestRefusal(r) = "none"
  <2>1. ProviderToken(r.token)
    BY <1>2, <1>3, <1>5 DEF ProviderToken
  <2>2. /\ r.from.at = from.at /\ r.from.zone = "IST" /\ r.to.at = to.at /\ r.to.zone = "IST"
    BY <1>1, <1>3, IstKeepsTheInstant
  <2>3. WholeSecond(r.from) /\ WholeSecond(r.to) /\ IstDay(r.from) = IstDay(r.to)
    BY <1>6, <1>7, <2>2 DEF WholeSecond, IstDay
  <2>4. TicksPerDay \in Int
    BY DEF TicksPerDay, TicksPerMinute, TicksPerSecond
  <2> HIDE DEF r, from, to, token
  <2> QED
    BY <1>1, <1>3, <1>6, <1>7, <1>8, <2>1, <2>2, <2>3, <2>4 DEF RequestRefusal
<1> QED
  BY <1>4, <1>8
-----------------------------------------------------------------------------
Inputs == [dump : Dumps, context : Contexts, item : Items]

\* The record a query finds is one of the dump's, and has what the query asks for.
LEMMA PlansAreTyped ==
  ASSUME NEW input \in Inputs, Resolves(input.dump, Query(input))
  PROVE  LET plan == PlanOf(input)
         IN  /\ \E i \in Matching(input.dump, Query(input)) :
                  i \in DOMAIN input.dump /\ plan.instrument = input.dump[i]
             /\ IsRow(plan.instrument) /\ IsItem(plan.item) /\ plan.oi \in BOOLEAN
             /\ plan.item = input.item /\ plan.exchange = input.context.exchange
             /\ plan.continuous = input.context.continuous /\ plan.snapshot = input.dump
<1> DEFINE found == Matching(input.dump, Query(input))
           plan == PlanOf(input)
<1>1. input.dump \in Dumps /\ input.context \in Contexts /\ input.item \in Items
  BY DEF Inputs
<1>2. PICK i \in found : plan.instrument = input.dump[i]
  <2>1. found # {}
    BY FS_EmptySet DEF Resolves
  <2>2. plan.instrument = input.dump[CHOOSE i \in found : TRUE]
    BY DEF PlanOf
  <2> HIDE DEF found, plan
  <2> QED
    BY <2>1, <2>2
<1>3. i \in DOMAIN input.dump
  BY DEF Matching
<1>4. IsRow(plan.instrument)
  BY <1>1, <1>2, <1>3, DumpsHaveRows
<1>5. /\ plan.item = input.item /\ plan.exchange = input.context.exchange
      /\ plan.oi = input.context.oi /\ plan.continuous = input.context.continuous
      /\ plan.snapshot = input.dump
  BY DEF PlanOf
<1>6. IsItem(plan.item) /\ plan.oi \in BOOLEAN
  BY <1>1, <1>5, ItemsHaveWindows, ContextsAsk
<1> HIDE DEF plan
<1> QED
  BY <1>2, <1>3, <1>4, <1>5, <1>6 DEF plan

\* A work item of the ingestion planner is one whole session of its date.
LEMMA SessionsAreWindows ==
  ASSUME NEW item, item.session_date \in Int, NEW symbol,
         item \in MinuteIngestion("zerodha", symbol, {item.session_date})
  PROVE  WindowRefusal(item) = "none" /\ item.source_id = "zerodha" /\ item.bar_size = "1m"
<1> DEFINE d == item.session_date
<1>1. /\ item.from = [at |-> d * TicksPerDay + SessionOpen, zone |-> "IST"]
      /\ item.to = [at |-> d * TicksPerDay + SessionClose, zone |-> "IST"]
      /\ item.source_id = "zerodha" /\ item.bar_size = "1m"
  BY DEF MinuteIngestion
<1>2. /\ item.from.at = d * 172800 + 66600 /\ item.from.zone = "IST"
      /\ item.to.at = d * 172800 + 111600 /\ item.to.zone = "IST"
  BY <1>1 DEF SessionOpen, SessionClose, TicksPerDay, TicksPerMinute, TicksPerSecond
<1>3. WindowAccepted(item)
  BY <1>2 DEF WindowAccepted
<1>4. /\ IstDay(item.from) = d /\ IstDay(item.to) = d
      /\ OfDay(item.from) = 66600 /\ OfDay(item.to) = 111600
      /\ item.from.at % TicksPerMinute = 0 /\ item.to.at % TicksPerMinute = 0
  BY <1>2 DEF IstDay, OfDay, TicksPerDay, TicksPerMinute, TicksPerSecond
<1>5. SessionOpen = 66600 /\ SessionClose = 111600
  BY DEF SessionOpen, SessionClose, TicksPerMinute, TicksPerSecond
<1> QED
  BY <1>1, <1>3, <1>4, <1>5 DEF WindowRefusal

\* What the parser accepts and the ingestion planner asks for is planned: a record of
\* a dump that parses, found by the identity it has, for a session not after its expiry,
\* is refused by neither the resolver, nor planning, nor the request's constructor;
\* with the exceptions PlansAreServed names (instruments.py:113-243, planning.py:146-260).
THEOREM KnownRecordsArePlanned ==
  ASSUME NEW input \in Inputs, NEW id \in Int, Parses(input.dump),
         id # 0, ~input.context.continuous,
         input.item \in MinuteIngestion("zerodha", input.item.symbol, {input.item.session_date}),
         \A e \in Query(input).expiry : input.item.session_date <= e,
         Cardinality(Matching(input.dump, Query(input))) = 1,
         \A i \in Matching(input.dump, Query(input)) :
           LET record == input.dump[i]
           IN  /\ record.exchange.form = "upper" /\ record.tradingsymbol.form = "upper"
               /\ record.token.form \in {"plain", "padded"}
               /\ record.type \notin Options => record.strike = {}
  PROVE  Planned(input, id).refusal = "none"
<1> DEFINE q == Query(input)
           plan == PlanOf(input)
           found == Matching(input.dump, q)
           i == CHOOSE k \in found : TRUE
           record == input.dump[i]
<1>1. i \in found
  <2>1. found # {}
    BY FS_EmptySet
  <2> HIDE DEF found
  <2> QED
    BY <2>1
<1>2. /\ i \in DOMAIN input.dump
      /\ record.exchange = q.exchange /\ record.tradingsymbol = q.tradingsymbol
      /\ record.type = q.type /\ record.expiry = q.expiry
      /\ Values(record.strike) = Values(q.strike)
  <2> HIDE DEF i
  <2> QED
    BY <1>1 DEF Matching
<1>3. /\ q.exchange = input.context.exchange /\ q.tradingsymbol = input.item.symbol
  BY DEF Query
<1>4. ~RowRefused(record) /\ IsRow(record)
  <2>1. input.dump \in Dumps
    BY DEF Inputs
  <2> QED
    BY <1>2, <2>1, DumpsHaveRows DEF Parses
<1>5. /\ record.token \in Numerals /\ record.token.value > 0 /\ record.type \in InstrumentTypes
      /\ record.type = "EQ" => record.expiry = {}
      /\ record.type = "FUT" => record.expiry # {}
      /\ record.type \in Options => record.expiry # {} /\ \E v \in Values(record.strike) : v >= 0
  <2>1. record.token \in Numerals /\ record.token.value \in Int
    BY <1>4 DEF IsRow, Numerals
  <2> HIDE DEF record
  <2> QED
    BY <1>4, <2>1 DEF RowRefused
<1>6. /\ record.type \notin Options => record.strike = {}
      /\ record.exchange.form = "upper" /\ record.tradingsymbol.form = "upper"
      /\ record.token.form \in {"plain", "padded"}
  <2> HIDE DEF i
  <2> QED
    BY <1>1
<1>7. \A v, w \in Values(record.strike) : v = w
  <2> HIDE DEF record
  <2> QED
    BY <1>4 DEF IsRow, Optional, Values
<1>8. \A s : Values(s) = {} <=> s = {}
  BY DEF Values
<1>9. QueryAccepted(q)
  <2> HIDE DEF record, q, found
  <2>1. \A v \in Values(q.strike) : v >= 0
    BY <1>2, <1>5, <1>6, <1>7, <1>8
  <2>2. q.type = "EQ" => q.expiry = {} /\ q.strike = {}
    BY <1>2, <1>5, <1>6, <1>8 DEF Options
  <2>3. q.type = "FUT" => q.expiry # {} /\ q.strike = {}
    BY <1>2, <1>5, <1>6, <1>8 DEF Options
  <2>4. q.type \in Options => q.expiry # {} /\ q.strike # {}
    BY <1>2, <1>5, <1>8
  <2> QED
    BY <1>2, <1>5, <2>1, <2>2, <2>3, <2>4 DEF QueryAccepted
<1>10. Resolves(input.dump, q)
  BY <1>9 DEF Resolves
<1>11. /\ plan.instrument = record
       /\ plan.item = input.item /\ plan.exchange = input.context.exchange
       /\ plan.continuous = input.context.continuous
       /\ IsItem(plan.item) /\ plan.oi \in BOOLEAN
  <2>1. plan.instrument = record
    BY DEF PlanOf
  <2> QED
    BY <1>10, <2>1, PlansAreTyped
<1> HIDE DEF i, record, found
<1>12. DerivativeAccepted(record, input.item.session_date)
  <2>1. \A e \in record.expiry : input.item.session_date <= e
    BY <1>2
  <2> HIDE DEF q, plan
  <2> QED
    BY <1>5, <1>6, <2>1 DEF DerivativeAccepted, Options
<1>13. WindowRefusal(plan.item) = "none" /\ plan.item.source_id = "zerodha" /\ plan.item.bar_size = "1m"
  <2>1. plan.item.session_date \in Int
    BY <1>11 DEF IsItem
  <2> QED
    BY <1>11, <2>1, SessionsAreWindows
<1>14. IdentityRefusal(plan) = "none"
  <2>1. ProviderToken(record.token)
    BY <1>5, <1>6 DEF ProviderToken
  <2>2. {record.exchange.form, record.tradingsymbol.form} = {"upper"}
    BY <1>6
  <2>3. plan.exchange = record.exchange /\ plan.item.symbol = record.tradingsymbol
    BY <1>2, <1>3, <1>11
  <2> HIDE DEF plan, q
  <2> QED
    BY <1>5, <1>11, <1>12, <1>13, <2>1, <2>2, <2>3 DEF IdentityRefusal
<1>15. PlanRefusal(plan, id) = "none"
  <2>1. RequestRefusal(HistoricalRequestOf(plan, id)) = "none"
    <3> HIDE DEF plan
    <3> QED
      BY <1>5, <1>11, <1>13, <1>14, PlannedRequestsAreAccepted
  <2> QED
    BY <1>13, <1>14, <2>1 DEF PlanRefusal
<1> HIDE DEF q
<1> QED
  BY <1>10, <1>15 DEF Planned, q

\* Two canonical metadata are equal exactly when the plans ask for the same data: no
\* notation is left in them, and nothing that tells data apart is left out
\* (planning.py:117-137, 216-243).
THEOREM FingerprintsNameData ==
  ASSUME NEW p, IsItem(p.item), p.instrument.token \in Numerals,
         NEW q, IsItem(q.item), q.instrument.token \in Numerals
  PROVE  Metadata(p) = Metadata(q) <=> SameData(p, q)
<1>1. /\ p.item.from \in Times /\ p.item.to \in Times
      /\ q.item.from \in Times /\ q.item.to \in Times
  BY DEF IsItem
<1>2. \A t, u \in Times : Ist(t) = Ist(u) <=> t.at = u.at
  <2>1. \A t \in Times : Ist(t) = [at |-> t.at, zone |-> "IST"]
    BY DEF Ist, Times
  <2> QED
    BY <2>1
<1>3. \A t, u \in Numerals : CanonicalToken(t) = CanonicalToken(u) <=> t.value = u.value
  <2>1. \A t \in Numerals : CanonicalToken(t) = [value |-> t.value, form |-> "plain"]
    BY DEF CanonicalToken, Numerals
  <2> QED
    BY <2>1
<1>4. \A s, t : CanonicalDecimals(s) = CanonicalDecimals(t) <=> Values(s) = Values(t)
  <2> SUFFICES ASSUME NEW s, NEW t, CanonicalDecimals(s) = CanonicalDecimals(t)
               PROVE  Values(s) \subseteq Values(t) /\ Values(t) \subseteq Values(s)
    BY DEF CanonicalDecimals
  <2> DEFINE canonical(v) == [value |-> v, form |-> "plain"]
  <2>1. \A v, w : canonical(v) = canonical(w) => v = w
    OBVIOUS
  <2>2. {canonical(v) : v \in Values(s)} = {canonical(v) : v \in Values(t)}
    BY DEF CanonicalDecimals
  <2> HIDE DEF canonical
  <2> QED
    BY <2>1, <2>2
<1>5. /\ Metadata(p).provider_instrument_id = CanonicalToken(p.instrument.token)
      /\ Metadata(p).exchange = p.exchange /\ Metadata(p).tradingsymbol = p.item.symbol
      /\ Metadata(p).instrument_type = p.instrument.type /\ Metadata(p).expiry = p.instrument.expiry
      /\ Metadata(p).strike = CanonicalDecimals(p.instrument.strike)
      /\ Metadata(p).snapshot = p.snapshot /\ Metadata(p).snapshot_date = p.snapshot_date
      /\ Metadata(p).oi = p.oi
      /\ Metadata(p).from = Ist(p.item.from) /\ Metadata(p).to = Ist(p.item.to)
  BY DEF Metadata
<1>6. /\ Metadata(q).provider_instrument_id = CanonicalToken(q.instrument.token)
      /\ Metadata(q).exchange = q.exchange /\ Metadata(q).tradingsymbol = q.item.symbol
      /\ Metadata(q).instrument_type = q.instrument.type /\ Metadata(q).expiry = q.instrument.expiry
      /\ Metadata(q).strike = CanonicalDecimals(q.instrument.strike)
      /\ Metadata(q).snapshot = q.snapshot /\ Metadata(q).snapshot_date = q.snapshot_date
      /\ Metadata(q).oi = q.oi
      /\ Metadata(q).from = Ist(q.item.from) /\ Metadata(q).to = Ist(q.item.to)
  BY DEF Metadata
<1>7. ASSUME Metadata(p) = Metadata(q) PROVE SameData(p, q)
  BY <1>1, <1>2, <1>3, <1>4, <1>5, <1>6, <1>7 DEF SameData
<1>8. ASSUME SameData(p, q) PROVE Metadata(p) = Metadata(q)
  <2>1. /\ CanonicalToken(p.instrument.token) = CanonicalToken(q.instrument.token)
        /\ CanonicalDecimals(p.instrument.strike) = CanonicalDecimals(q.instrument.strike)
        /\ Ist(p.item.from) = Ist(q.item.from) /\ Ist(p.item.to) = Ist(q.item.to)
    BY <1>1, <1>2, <1>3, <1>4, <1>8 DEF SameData
  <2>2. /\ p.exchange = q.exchange /\ p.item.symbol = q.item.symbol
        /\ p.instrument.type = q.instrument.type /\ p.instrument.expiry = q.instrument.expiry
        /\ p.snapshot = q.snapshot /\ p.snapshot_date = q.snapshot_date /\ p.oi = q.oi
    BY <1>8 DEF SameData
  <2> QED
    BY <2>1, <2>2, Zenon DEF Metadata
<1> QED
  BY <1>7, <1>8
-----------------------------------------------------------------------------
\* The invariant.  The plans made are plans of some input; and a plan is run as the
\* request it made, which every attempt's request is made of.
PlansMade ==
  \A m \in made : \E input \in Inputs, id \in {0, 1} :
    Parses(input.dump) /\ m = Planned(input, id)

Outcomes == {"none", "SUCCESS", "BUDGET_EXHAUSTED", "INCONSISTENT_RESPONSE"} \cup ErrorCodes
Records == [code : {"none"} \cup ErrorCodes, http : SUBSET Int, retry : BOOLEAN,
            delay : SUBSET Int]

RunInv ==
  /\ pc \in {"planning", "next", "connect", "await", "done"}
  /\ history \in Seq(Records) /\ result \in Outcomes
  /\ pc = "planning" => history = <<>>
  /\ pc # "planning" =>
       /\ policy \in Policies /\ Len(history) <= MaxAttempts
       /\ \E r \in planned : r \in Requests /\ planned = {r} /\ RequestRefusal(r) = "none"
  /\ pc \in {"next", "connect", "await"} => Len(history) < MaxAttempts

LinkTypes ==
  /\ thread \in [Numbers -> {"none", "read", "broker", "done"}]
  /\ received \in [Numbers -> SUBSET Requests]
  /\ reply \in [Numbers -> SUBSET Responses]
  /\ deed \in [Numbers -> SUBSET [raises : {"none", "an exception"} \cup ErrorCodes,
                                  response : SUBSET Responses]]
  /\ cut \subseteq Numbers

\* What the broker did for attempt n: at most one deed, whose response is accepted.
Fits(n, d) ==
  /\ IsDeed(d)
  /\ \A r \in d.response : r.request_id = n /\ ResponseRefusal(r) = "none"

\* The server's thread reads what it does not refuse, and is done once it has called the
\* broker or its connection was cut.
ThreadInv(n) ==
  /\ \A f \in received[n] : RequestRefusal(f) = "none"
  /\ \A d \in deed[n] : deed[n] = {d} /\ Fits(n, d)
  /\ thread[n] = "done" => deed[n] # {} \/ n \in cut
  /\ thread[n] # "done" => deed[n] = {}

Unused(n) ==
  thread[n] = "none" /\ received[n] = {} /\ reply[n] = {} /\ deed[n] = {} /\ n \notin cut

\* The attempts that are over never call the broker on a connection that lasts; those to
\* come have left no trace; and the reply that is awaited is the answer to the deed.
AttemptsInv ==
  /\ \A n \in Numbers : ThreadInv(n)
  /\ \A n \in Numbers : n <= Len(history) => thread[n] \in {"none", "done"} \/ n \in cut
  /\ \A n \in Numbers : n > Len(history) /\ ~(pc = "await" /\ n = Number) => Unused(n)
  /\ pc = "await" =>
       /\ thread[Number] # "none"
       /\ Number \in cut => deed[Number] = {}
       /\ deed[Number] = {} => reply[Number] = {}
       /\ \A d \in deed[Number] : reply[Number] = Answer(Number, d)

IInv == PlansMade /\ RunInv /\ LinkTypes /\ AttemptsInv /\ RecordsAreTrue
-----------------------------------------------------------------------------
\* The deeds of attempt n that were heard.
Told(n) == IF n \in cut THEN {} ELSE deed[n]

\* What RecordsAreTrue says of one record, about what it depends on.
ConnectionCodes == {"BROKER_TIMEOUT", "BROKER_UNAVAILABLE", "MALFORMED_PROVIDER_RESPONSE"}
Asked(told, p) == UNION {Honoured(p, Direct(d).retryAfter) : d \in told}

IsTrue(n, record, told, p) ==
  /\ told = {} => record.code \in ConnectionCodes
  /\ \A d \in told :
       d.raises \in {"none"} \cup (ErrorCodes \ ProviderErrorCodes) =>
         /\ record.code = Direct(d).code
         /\ record.http = Direct(d).http
         /\ record.retry <=> Direct(d).code \in RetryableCodes /\ n < p.maximum_attempts
  /\ record.retry =>
       \E j \in 0 .. p.jitterMax :
         \/ LongestOf(record.delay, {Backoff(p)[n] + j} \cup Asked(told, p))
         \/ record.code # "PROVIDER_429" /\ record.delay = {Backoff(p)[n] + j}

LEMMA RecordByRecord ==
  RecordsAreTrue <=> \A n \in DOMAIN history : IsTrue(n, history[n], Told(n), policy)
<1>1. ASSUME NEW n \in DOMAIN history
      PROVE  /\ ~Heard(n) <=> Told(n) = {}
             /\ Told(n) = {d \in deed[n] : Heard(n)}
  BY DEF Heard, Told
<1> QED
  BY <1>1 DEF RecordsAreTrue, IsTrue, Asked, ConnectionCodes, MaxAttempts

\* What an attempt is recorded as: the deed that was heard, but for the ones excepted,
\* which are not retried; or else a failure of the connection.
Tells(a, told) ==
  \/ told = {} /\ a.code \in ConnectionCodes /\ a.retryAfter = {}
  \/ \E d : /\ told = {d}
            /\ \/ /\ a.code = Direct(d).code /\ a.http = Direct(d).http
                  /\ a.retryAfter = Direct(d).retryAfter
               \/ /\ d.raises \notin {"none"} \cup (ErrorCodes \ ProviderErrorCodes)
                  /\ a.code \notin RetryableCodes

Record(p, n, a, j) ==
  LET retry == a.code \in RetryableCodes /\ n < p.maximum_attempts
  IN  [code |-> a.code, http |-> a.http, retry |-> retry,
       delay |-> IF retry THEN {Delay(p, n, a.retryAfter, j)} ELSE {}]

\* The record that is made of such an attempt is true.
LEMMA NewRecordIsTrue ==
  ASSUME NEW p \in Policies, NEW n \in 1 .. p.maximum_attempts,
         NEW a, Optional(a.retryAfter, Int), NEW j \in Nat, j <= p.jitterMax,
         NEW told, Tells(a, told)
  PROVE  IsTrue(n, Record(p, n, a, j), told, p)
<1> DEFINE record == Record(p, n, a, j)
           retry == a.code \in RetryableCodes /\ n < p.maximum_attempts
<1>1. /\ record.code = a.code /\ record.http = a.http /\ record.retry = retry
      /\ retry => record.delay = {Delay(p, n, a.retryAfter, j)}
  BY DEF Record
<1>2. told = {} => record.code \in ConnectionCodes
  BY <1>1 DEF Tells
<1>3. ASSUME NEW d \in told, d.raises \in {"none"} \cup (ErrorCodes \ ProviderErrorCodes)
      PROVE  /\ record.code = Direct(d).code /\ record.http = Direct(d).http
             /\ record.retry <=> Direct(d).code \in RetryableCodes /\ n < p.maximum_attempts
  <2>1. a.code = Direct(d).code /\ a.http = Direct(d).http
    BY <1>3 DEF Tells
  <2> HIDE DEF record
  <2> QED
    BY <1>1, <2>1
<1>4. ASSUME record.retry
      PROVE  \E k \in 0 .. p.jitterMax :
               LongestOf(record.delay, {Backoff(p)[n] + k} \cup Asked(told, p))
  <2> HIDE DEF record
  <2>1. a.code \in RetryableCodes /\ n < p.maximum_attempts
    BY <1>1, <1>4, Zenon
  <2>2. p.maximum_attempts \in Int /\ p.jitterMax \in Int
    BY PoliciesAreAccepted DEF Policy
  <2>3. n \in 1 .. (p.maximum_attempts - 1) /\ j \in 0 .. p.jitterMax
    BY <2>1, <2>2
  <2>4. Asked(told, p) = Honoured(p, a.retryAfter)
    <3>1. CASE told = {}
      BY <3>1 DEF Tells, Asked, Honoured
    <3>2. CASE told # {}
      <4>1. PICK d : told = {d} /\ a.retryAfter = Direct(d).retryAfter
        BY <2>1, <3>2 DEF Tells
      <4> QED
        BY <4>1 DEF Asked
    <3> QED
      BY <3>1, <3>2
  <2> DEFINE waits == {Backoff(p)[n] + j} \cup Honoured(p, a.retryAfter)
             delay == Delay(p, n, a.retryAfter, j)
  <2>5. delay \in waits /\ \A e \in waits : e <= delay
    BY <2>3, DelayIsDocumented
  <2>6. record.delay = {delay}
    BY <1>1, <2>1
  <2> HIDE DEF delay
  <2> QED
    BY <2>3, <2>4, <2>5, <2>6 DEF LongestOf
<1> HIDE DEF record
<1>5. IsTrue(n, record, told, p)
  BY <1>2, <1>3, <1>4 DEF IsTrue
<1> QED
  BY <1>5 DEF record
-----------------------------------------------------------------------------
\* The number of the attempt that runs is one of Numbers.
LEMMA RunningNumber ==
  ASSUME RunInv, pc \in {"next", "connect", "await"}
  PROVE  /\ policy \in Policies /\ MaxAttempts \in Int /\ Number \in 1 .. MaxAttempts
         /\ Number \in Numbers /\ Number \in Nat \ {0} /\ Len(history) \in Nat
<1>1. /\ policy \in Policies /\ Len(history) < MaxAttempts /\ history \in Seq(Records)
  BY DEF RunInv
<1>2. Len(history) \in Nat
  BY <1>1
<1>3. MaxAttempts \in Int
  BY <1>1, PoliciesAreAccepted DEF Policy, MaxAttempts
<1>4. Number \in 1 .. MaxAttempts
  BY <1>1, <1>2, <1>3 DEF Number
<1> QED
  BY <1>1, <1>2, <1>3, <1>4 DEF Number, Numbers, MaxAttempts

\* Every request of an attempt is accepted, when it is made and when it is read.
LEMMA RequestsAreAccepted ==
  ASSUME RunInv, pc \in {"next", "connect", "await"}
  PROVE  /\ RequestRefusal(Request) = "none"
         /\ Encoded(Request) \in Requests /\ RequestRefusal(Encoded(Request)) = "none"
<1>1. PICK r \in planned : r \in Requests /\ planned = {r} /\ RequestRefusal(r) = "none"
  BY DEF RunInv
<1>2. (CHOOSE q \in planned : TRUE) = r
  BY <1>1
<1>3. Request = CandleRequest([r EXCEPT !.request_id = Number])
  BY <1>2 DEF Request
<1>4. Number \in Nat \ {0}
  BY RunningNumber
<1> QED
  BY <1>1, <1>3, <1>4, AcceptedForEveryAttempt

\* Recording an attempt keeps the records true.  What follows it is next or done.
LEMMA SettleKeepsRecords ==
  ASSUME IInv, pc \in {"connect", "await"}, NEW a,
         a.code \in {"none"} \cup ErrorCodes, a.http \in SUBSET Int, Optional(a.retryAfter, Int),
         Settle(a), deed' = deed, cut' \in {cut, cut \cup {Number}},
         Tells(a, IF Number \in cut' THEN {} ELSE deed[Number])
  PROVE  /\ RunInv' /\ RecordsAreTrue' /\ made' = made
         /\ Len(history') = Number /\ pc' # "await"
<1>1. /\ RunInv /\ RecordsAreTrue
      /\ policy \in Policies /\ MaxAttempts \in Int /\ Number \in 1 .. MaxAttempts
      /\ Number \in Numbers /\ Number \in Nat \ {0} /\ Len(history) \in Nat
  BY RunningNumber DEF IInv
<1> DEFINE retry == a.code \in RetryableCodes /\ Number < MaxAttempts
<1>2. PICK j \in Jitters : /\ j <= policy.jitterMax
                           /\ history' = Append(history, Record(policy, Number, a, j))
  BY DEF Settle, Record, MaxAttempts
<1>3. /\ IF retry THEN pc' = "next" /\ UNCHANGED result
         ELSE Return(IF Success(a) THEN "SUCCESS"
                     ELSE IF a.code = "none" THEN "INCONSISTENT_RESPONSE" ELSE a.code)
      /\ UNCHANGED <<made, policy, planned>>
  BY DEF Settle
<1>4. history \in Seq(Records) /\ j \in Nat
  BY <1>1, JittersAreNats DEF RunInv
<1> DEFINE record == Record(policy, Number, a, j)
<1>5. IsTrue(Number, record, IF Number \in cut' THEN {} ELSE deed[Number], policy)
  BY <1>1, <1>2, <1>4, NewRecordIsTrue DEF MaxAttempts
<1>6. record \in Records
  <2>1. retry => Delay(policy, Number, a.retryAfter, j) \in Int
    <3> SUFFICES ASSUME retry PROVE Delay(policy, Number, a.retryAfter, j) \in Int
      OBVIOUS
    <3>1. Number \in 1 .. (policy.maximum_attempts - 1)
      BY <1>1 DEF MaxAttempts
    <3> QED
      BY <1>1, <1>4, <3>1, DelayIsDocumented
  <2>2. (IF retry THEN {Delay(policy, Number, a.retryAfter, j)} ELSE {}) \in SUBSET Int
    BY <2>1
  <2>3. record = [code |-> a.code, http |-> a.http, retry |-> retry,
                  delay |-> IF retry THEN {Delay(policy, Number, a.retryAfter, j)} ELSE {}]
    BY DEF Record, MaxAttempts
  <2>4. retry \in BOOLEAN
    OBVIOUS
  <2> HIDE DEF retry, record
  <2> QED
    BY <2>2, <2>3, <2>4 DEF Records
<1> HIDE DEF record
<1>7. /\ history' = Append(history, record) /\ history' \in Seq(Records)
      /\ Len(history') = Number /\ DOMAIN history' = 1 .. Number
      /\ DOMAIN history = 1 .. Len(history)
      /\ \A n \in 1 .. Len(history) : history'[n] = history[n]
      /\ history'[Number] = record
  BY <1>2, <1>4, <1>6 DEF record, Number
<1>8. pc' \in {"next", "done"} /\ result' \in Outcomes /\ (pc' = "next" => Number < MaxAttempts)
  <2>1. CASE retry
    BY <1>1, <1>3, <2>1 DEF RunInv
  <2>2. CASE ~retry
    BY <1>3, <2>2 DEF Return, Outcomes
  <2> QED
    BY <2>1, <2>2
<1>9. MaxAttempts' = MaxAttempts
  BY <1>3 DEF MaxAttempts
<1>10. RunInv'
  BY <1>1, <1>3, <1>7, <1>8, <1>9 DEF RunInv
<1>11. RecordsAreTrue'
  <2>1. ASSUME NEW n \in DOMAIN history'
        PROVE  IsTrue(n, history'[n], Told(n)', policy')
    <3>1. CASE n = Number
      <4>1. Told(n)' = IF Number \in cut' THEN {} ELSE deed[Number]
        BY <3>1 DEF Told
      <4> QED
        BY <1>3, <1>5, <1>7, <3>1, <4>1
    <3>2. CASE n # Number
      <4>1. n \in DOMAIN history /\ history'[n] = history[n]
        BY <1>1, <1>7, <3>2 DEF Number
      <4>2. Told(n)' = Told(n)
        BY <3>2 DEF Told
      <4>3. IsTrue(n, history[n], Told(n), policy)
        BY <1>1, <4>1, RecordByRecord
      <4> QED
        BY <1>3, <4>1, <4>2, <4>3
    <3> QED
      BY <3>1, <3>2
  <2>2. (\A n \in DOMAIN history : IsTrue(n, history[n], Told(n), policy))'
    BY <2>1
  <2> QED
    BY <2>2, RecordByRecord, PTL
<1> QED
  BY <1>3, <1>7, <1>8, <1>10, <1>11

\* Records stay true as long as what was heard of their attempts stays.
LEMMA RecordsStay ==
  ASSUME IInv, history' = history, policy' = policy,
         \A n \in DOMAIN history : Told(n)' = Told(n)
  PROVE  RecordsAreTrue'
<1>1. (\A n \in DOMAIN history : IsTrue(n, history[n], Told(n), policy))'
  <2>1. \A n \in DOMAIN history : IsTrue(n, history[n], Told(n), policy)
    BY RecordByRecord DEF IInv
  <2> QED
    BY <2>1
<1> QED
  BY <1>1, RecordByRecord, PTL

\* The step that ends an attempt keeps the invariant: its thread is done or on a
\* connection that the client has left, or there is none.
LEMMA SettleKeepsIInv ==
  ASSUME IInv, pc \in {"connect", "await"}, NEW a,
         a.code \in {"none"} \cup ErrorCodes, a.http \in SUBSET Int, Optional(a.retryAfter, Int),
         Settle(a), UNCHANGED <<thread, received, deed>>, cut' \in {cut, cut \cup {Number}},
         reply' \in {reply, [reply EXCEPT ![Number] = {}]},
         thread[Number] \in {"none", "done"} \/ Number \in cut',
         Tells(a, IF Number \in cut' THEN {} ELSE deed[Number])
  PROVE  IInv'
<1>1. /\ RunInv' /\ RecordsAreTrue' /\ made' = made
      /\ Len(history') = Number /\ pc' # "await"
  BY SettleKeepsRecords
<1>2. Number \in Numbers /\ Number \in Nat \ {0} /\ Len(history) \in Nat
  BY RunningNumber DEF IInv
<1>3. LinkTypes'
  BY <1>2 DEF IInv, LinkTypes
<1>4. PlansMade'
  BY <1>1 DEF IInv, PlansMade
<1>5. Numbers \subseteq Int
  BY PoliciesAreAccepted DEF Numbers, Policy
<1>6. ASSUME NEW n \in Numbers PROVE ThreadInv(n)'
  BY DEF IInv, AttemptsInv, ThreadInv
<1>7. ASSUME NEW n \in Numbers, n <= Number PROVE thread[n] \in {"none", "done"} \/ n \in cut'
  BY <1>2, <1>5, <1>7 DEF IInv, AttemptsInv, Number
<1>8. ASSUME NEW n \in Numbers, n > Number PROVE Unused(n)'
  <2>1. Unused(n) /\ n # Number
    BY <1>2, <1>5, <1>8 DEF IInv, AttemptsInv, Number
  <2>2. reply'[n] = {}
    BY <1>2, <2>1 DEF Unused, IInv, LinkTypes
  <2> QED
    BY <2>1, <2>2 DEF Unused
<1>9. AttemptsInv'
  BY <1>1, <1>6, <1>7, <1>8 DEF AttemptsInv
<1> QED
  BY <1>1, <1>3, <1>4, <1>9 DEF IInv
-----------------------------------------------------------------------------
\* A local failure is a response, which BrokerResponse refuses for provider codes only.
LEMMA LocalFailures ==
  ASSUME NEW n \in Int, NEW c \in ErrorCodes
  PROVE  LET r == LocalFailure(n, c)
         IN  /\ r \in Responses /\ r.request_id = n /\ r.code = c
             /\ r.http = {} /\ r.retryAfter = {}
             /\ ResponseRefusal(r) = "none" <=> c \notin ProviderErrorCodes
<1> DEFINE r == LocalFailure(n, c)
<1>1. /\ r.request_id = n /\ r.transport = "BROKER_FAILURE" /\ r.http = {} /\ r.session = "READY"
      /\ r.body = "empty" /\ r.retryAfter = {} /\ r.code = c
  BY DEF LocalFailure
<1>2. r \in Responses
  <2>1. "BROKER_FAILURE" \in TransportStatus /\ "READY" \in SessionState /\ "empty" \in Bodies
    BY DEF TransportStatus, SessionState, Bodies
  <2> QED
    BY <2>1 DEF LocalFailure, Responses
<1> HIDE DEF r
<1>3. Coherent(r) <=> c \notin ProviderErrorCodes
  BY <1>1 DEF Coherent, ProviderErrorCodes
<1>4. ResponseRefusal(r) = "none" <=> c \notin ProviderErrorCodes
  BY <1>1, <1>3 DEF ResponseRefusal
<1> QED
  BY <1>1, <1>2, <1>4 DEF r

\* The answer tells what the broker did; there is none only where the broker raised a
\* provider's code, for then BrokerResponse refuses the local failure.
LEMMA AnswersTell ==
  ASSUME NEW n \in Int, NEW d, Fits(n, d)
  PROVE  /\ \A r \in Answer(n, d) :
              /\ r \in Responses /\ r.request_id = n /\ ResponseRefusal(r) = "none"
              /\ Optional(r.retryAfter, Int) /\ Tells(Returned(r), {d})
         /\ Answer(n, d) = {} => d.raises \notin {"none"} \cup (ErrorCodes \ ProviderErrorCodes)
<1>1. /\ d.raises \in {"none", "an exception"} \cup ErrorCodes
      /\ d.response \subseteq Responses /\ \A x, y \in d.response : x = y
      /\ \A r \in d.response : Optional(r.http, Int) /\ Optional(r.retryAfter, Int)
      /\ d.raises = "none" <=> d.response # {}
      /\ \A r \in d.response : r.request_id = n /\ ResponseRefusal(r) = "none"
  BY DEF Fits, IsDeed, Optional
<1>2. CASE d.response # {}
  <2>1. PICK r : d.response = {r}
    <3>1. PICK r \in d.response : TRUE
      BY <1>2
    <3>2. \A x \in d.response : x = r
      BY <1>1
    <3> QED
      BY <3>1, <3>2
  <2>2. Answer(n, d) = {r}
    BY <1>1, <1>2, <2>1 DEF Answer
  <2>3. Direct(d) = Returned(r)
    <3>1. (CHOOSE x \in d.response : TRUE) = r
      BY <2>1
    <3> QED
      BY <1>2, <3>1 DEF Direct
  <2>4. Tells(Returned(r), {d})
    BY <2>3 DEF Tells
  <2> QED
    BY <1>1, <2>1, <2>2, <2>4
<1>3. CASE d.response = {}
  <2> DEFINE c == IF d.raises \in ErrorCodes THEN d.raises ELSE "INTERNAL_BROKER_FAILURE"
             r == LocalFailure(n, c)
  <2>1. c \in ErrorCodes
    BY DEF ErrorCodes
  <2>2. Answer(n, d) = {x \in {r} : ResponseRefusal(x) = "none"}
    BY <1>3 DEF Answer
  <2>3. /\ Direct(d).code = d.raises /\ Direct(d).http = {} /\ Direct(d).retryAfter = {}
    BY <1>3 DEF Direct, Raised
  <2>4. /\ r \in Responses /\ r.request_id = n /\ r.code = c /\ r.http = {} /\ r.retryAfter = {}
        /\ ResponseRefusal(r) = "none" <=> c \notin ProviderErrorCodes
    <3> HIDE DEF c
    <3> QED
      BY <2>1, LocalFailures
  <2>5. Returned(r).code = c /\ Returned(r).http = {} /\ Returned(r).retryAfter = {}
    <3> HIDE DEF r, c
    <3> QED
      BY <2>4 DEF Returned
  <2>6. \/ d.raises \in ErrorCodes /\ c = d.raises
        \/ /\ d.raises \notin {"none"} \cup (ErrorCodes \ ProviderErrorCodes)
           /\ c \notin RetryableCodes \cup ProviderErrorCodes
    BY <1>1, <1>3 DEF RetryableCodes, ProviderErrorCodes
  <2> HIDE DEF c, r
  <2>7. Tells(Returned(r), {d})
    <3>1. CASE d.raises \in ErrorCodes /\ c = d.raises
      BY <2>3, <2>5, <3>1 DEF Tells
    <3>2. CASE /\ d.raises \notin {"none"} \cup (ErrorCodes \ ProviderErrorCodes)
               /\ c \notin RetryableCodes \cup ProviderErrorCodes
      BY <2>5, <3>2 DEF Tells
    <3> QED
      BY <2>6, <3>1, <3>2
  <2>8. \A x \in Answer(n, d) : x = r
    BY <2>2
  <2>9. Answer(n, d) = {} => d.raises \notin {"none"} \cup (ErrorCodes \ ProviderErrorCodes)
    <3>1. Answer(n, d) = {} => c \in ProviderErrorCodes
      BY <2>2, <2>4
    <3> QED
      BY <1>1, <1>3, <2>6, <3>1
  <2> QED
    BY <2>2, <2>4, <2>7, <2>8, <2>9 DEF Optional
<1> QED
  BY <1>2, <1>3
-----------------------------------------------------------------------------
\* The steps of the run.
LEMMA CodesOfTheConnection ==
  ASSUME NEW c \in ConnectionCodes
  PROVE  /\ Raised(c).code = c /\ Raised(c).code \in {"none"} \cup ErrorCodes
         /\ Raised(c).http \in SUBSET Int /\ Optional(Raised(c).retryAfter, Int)
         /\ Raised(c).retryAfter = {} /\ Tells(Raised(c), {})
<1>1. Raised(c).code = c /\ Raised(c).http = {} /\ Raised(c).retryAfter = {}
  BY DEF Raised
<1>2. c \in ErrorCodes
  BY DEF ConnectionCodes, ErrorCodes, RetryableCodes
<1> QED
  BY <1>1, <1>2 DEF Tells, Optional

LEMMA ConnectFailsKeeps == ASSUME IInv, ConnectFails PROVE IInv'
<1>1. PICK c \in {"BROKER_TIMEOUT", "BROKER_UNAVAILABLE"} : Settle(Raised(c))
  BY DEF ConnectFails
<1>2. pc = "connect" /\ UNCHANGED linkVars /\ UNCHANGED brokerVars
  BY DEF ConnectFails
<1>3. Number \in Numbers /\ Number \in Nat \ {0} /\ Len(history) \in Nat
  BY <1>2, RunningNumber DEF IInv
<1>4. Unused(Number)
  BY <1>2, <1>3 DEF IInv, AttemptsInv, Number
<1>5. c \in ConnectionCodes
  BY DEF ConnectionCodes
<1>6. (IF Number \in cut' THEN {} ELSE deed[Number]) = {}
  BY <1>4 DEF Unused
<1> QED
  BY <1>1, <1>2, <1>4, <1>5, <1>6, CodesOfTheConnection, SettleKeepsIInv
  DEF linkVars, brokerVars, Unused

LEMMA ReceiveKeeps == ASSUME IInv, Receive PROVE IInv'
<1> DEFINE a(r) == IF ResponseRefusal(r) = "none" /\ r.request_id = Number
                   THEN Returned(r) ELSE Raised("MALFORMED_PROVIDER_RESPONSE")
<1>1. /\ pc = "await" /\ \E r \in reply[Number] : Settle(a(r))
      /\ reply' = [reply EXCEPT ![Number] = {}]
      /\ UNCHANGED <<thread, received, cut, brokerVars>>
  BY DEF Receive
<1>2. PICK r \in reply[Number] : Settle(a(r))
  BY <1>1
<1>3. Number \in Numbers /\ Number \in Nat \ {0}
  BY <1>1, RunningNumber DEF IInv
<1>4. deed[Number] # {}
  BY <1>1 DEF IInv, AttemptsInv
<1>5. PICK d \in deed[Number] : TRUE
  BY <1>4
<1>6. /\ deed[Number] = {d} /\ Fits(Number, d) /\ reply[Number] = Answer(Number, d)
      /\ thread[Number] = "done" /\ Number \notin cut
  BY <1>1, <1>3, <1>4 DEF IInv, AttemptsInv, ThreadInv
<1>7. /\ r \in Responses /\ r.request_id = Number /\ ResponseRefusal(r) = "none"
      /\ Optional(r.retryAfter, Int) /\ Tells(Returned(r), {d})
  BY <1>3, <1>6, AnswersTell
<1>8. Settle(Returned(r))
  BY <1>2, <1>7
<1>9. /\ Returned(r).code \in {"none"} \cup ErrorCodes /\ Returned(r).http \in SUBSET Int
      /\ Optional(Returned(r).retryAfter, Int)
  BY <1>7 DEF Responses, Returned
<1>10. (IF Number \in cut' THEN {} ELSE deed[Number]) = {d}
  BY <1>1, <1>6
<1> QED
  BY <1>1, <1>6, <1>7, <1>8, <1>9, <1>10, SettleKeepsIInv DEF brokerVars

LEMMA EndedKeeps == ASSUME IInv, Ended PROVE IInv'
<1> DEFINE a == Raised("MALFORMED_PROVIDER_RESPONSE")
<1>1. /\ pc = "await" /\ reply[Number] = {} /\ (thread[Number] = "done" \/ Number \in cut)
      /\ Settle(a) /\ UNCHANGED linkVars /\ UNCHANGED brokerVars
  BY DEF Ended
<1>2. Number \in Numbers /\ Number \in Nat \ {0}
  BY <1>1, RunningNumber DEF IInv
<1>3. "MALFORMED_PROVIDER_RESPONSE" \in ConnectionCodes
  BY DEF ConnectionCodes
<1>4. /\ a.code = "MALFORMED_PROVIDER_RESPONSE" /\ a.code \in {"none"} \cup ErrorCodes
      /\ a.http \in SUBSET Int /\ Optional(a.retryAfter, Int) /\ Tells(a, {})
  BY <1>3, CodesOfTheConnection
<1>5. Tells(a, IF Number \in cut' THEN {} ELSE deed[Number])
  <2>1. CASE Number \in cut \/ deed[Number] = {}
    BY <1>1, <1>4, <2>1 DEF linkVars
  <2>2. CASE Number \notin cut /\ deed[Number] # {}
    <3>1. PICK d \in deed[Number] : TRUE
      BY <2>2
    <3>2. deed[Number] = {d} /\ Fits(Number, d) /\ reply[Number] = Answer(Number, d)
      BY <1>1, <1>2 DEF IInv, AttemptsInv, ThreadInv
    <3>3. d.raises \notin {"none"} \cup (ErrorCodes \ ProviderErrorCodes)
      <4>1. Answer(Number, d) = {} /\ Number \in Int /\ Fits(Number, d)
        BY <1>1, <1>2, <3>2
      <4> QED
        BY <4>1, AnswersTell
    <3>4. a.code \notin RetryableCodes
      BY <1>4 DEF RetryableCodes
    <3>5. Tells(a, {d})
      BY <3>3, <3>4 DEF Tells
    <3> QED
      BY <1>1, <2>2, <3>2, <3>5 DEF linkVars
  <2> QED
    BY <2>1, <2>2
<1> HIDE DEF a
<1> QED
  BY <1>1, <1>4, <1>5, SettleKeepsIInv DEF linkVars, brokerVars

LEMMA TimesOutKeeps == ASSUME IInv, TimesOut PROVE IInv'
<1>1. /\ pc = "await" /\ Settle(Raised("BROKER_TIMEOUT")) /\ cut' = cut \cup {Number}
      /\ reply' = [reply EXCEPT ![Number] = {}]
      /\ UNCHANGED <<thread, received, brokerVars>>
  BY DEF TimesOut
<1>2. "BROKER_TIMEOUT" \in ConnectionCodes
  BY DEF ConnectionCodes
<1>3. (IF Number \in cut' THEN {} ELSE deed[Number]) = {} /\ Number \in cut'
  BY <1>1
<1> QED
  BY <1>1, <1>2, <1>3, CodesOfTheConnection, SettleKeepsIInv DEF brokerVars

LEMMA AdmitKeeps == ASSUME IInv, Admit PROVE IInv' /\ result' # "InconsistentBrokerResponseError"
<1>1. pc = "next" /\ RunInv
  BY DEF Admit, IInv
<1>2. RequestRefusal(Request) = "none"
  BY <1>1, RequestsAreAccepted
<1>3. /\ \/ pc' = "done" /\ result' = "BUDGET_EXHAUSTED"
         \/ pc' = "connect" /\ result' = result
      /\ UNCHANGED <<made, policy, planned, history, linkVars, brokerVars>>
  BY <1>2 DEF Admit, Return
<1>4. RunInv'
  BY <1>1, <1>3 DEF RunInv, MaxAttempts, Outcomes
<1>5. LinkTypes' /\ PlansMade'
  BY <1>3 DEF IInv, LinkTypes, PlansMade, linkVars, brokerVars
<1>6. AttemptsInv'
  BY <1>1, <1>3 DEF IInv, AttemptsInv, ThreadInv, Unused, linkVars, brokerVars
<1>7. RecordsAreTrue'
  BY <1>3, RecordsStay DEF Told, linkVars, brokerVars
<1>8. result' # "InconsistentBrokerResponseError"
  BY <1>4 DEF RunInv, Outcomes, ErrorCodes, RetryableCodes, ReauthenticationCodes
<1> QED
  BY <1>4, <1>5, <1>6, <1>7, <1>8 DEF IInv

LEMMA SendKeeps == ASSUME IInv, Send PROVE IInv'
<1>1. /\ pc = "connect" /\ pc' = "await"
      /\ thread' = [thread EXCEPT ![Number] = "read"]
      /\ received' = [received EXCEPT ![Number] = {Encoded(Request)}]
      /\ UNCHANGED <<made, policy, planned, history, result, reply, cut, brokerVars>>
  BY DEF Send
<1>2. Number \in Numbers /\ Number \in Nat \ {0} /\ Number' = Number /\ Len(history) \in Nat
  BY <1>1, RunningNumber DEF IInv, Number
<1>3. Encoded(Request) \in Requests /\ RequestRefusal(Encoded(Request)) = "none"
  BY <1>1, RequestsAreAccepted DEF IInv
<1>4. RunInv'
  BY <1>1 DEF IInv, RunInv, MaxAttempts
<1>5. LinkTypes' /\ PlansMade'
  BY <1>1, <1>2, <1>3 DEF IInv, LinkTypes, PlansMade, brokerVars
<1>6. Unused(Number)
  BY <1>1, <1>2 DEF IInv, AttemptsInv, Number
<1>7. /\ thread'[Number] = "read" /\ received'[Number] = {Encoded(Request)}
      /\ \A n \in Numbers : n # Number => thread'[n] = thread[n] /\ received'[n] = received[n]
  BY <1>1, <1>2 DEF IInv, LinkTypes
<1>8. AttemptsInv'
  <2>1. ASSUME NEW n \in Numbers PROVE ThreadInv(n)'
    <3>1. CASE n = Number
      BY <1>1, <1>3, <1>6, <1>7, <3>1 DEF ThreadInv, Unused, brokerVars
    <3>2. CASE n # Number
      BY <1>1, <1>7, <3>2 DEF IInv, AttemptsInv, ThreadInv, brokerVars
    <3> QED
      BY <3>1, <3>2
  <2>2. ASSUME NEW n \in Numbers, n <= Len(history)
        PROVE  thread'[n] \in {"none", "done"} \/ n \in cut'
    <3>1. n # Number
      BY <1>2, <2>2 DEF Number
    <3> QED
      BY <1>1, <1>7, <2>2, <3>1 DEF IInv, AttemptsInv
  <2>3. ASSUME NEW n \in Numbers, n > Len(history), n # Number
        PROVE  Unused(n)'
    BY <1>1, <1>7, <2>3 DEF IInv, AttemptsInv, Unused, brokerVars
  <2>4. /\ thread'[Number] # "none" /\ reply'[Number] = {} /\ deed'[Number] = {}
        /\ Number \notin cut'
    BY <1>1, <1>6, <1>7 DEF Unused, brokerVars
  <2> QED
    BY <1>1, <1>2, <2>1, <2>2, <2>3, <2>4 DEF AttemptsInv
<1>9. RecordsAreTrue'
  BY <1>1, RecordsStay DEF Told, brokerVars
<1> QED
  BY <1>4, <1>5, <1>8, <1>9 DEF IInv

LEMMA PlanKeeps ==
  ASSUME IInv, NEW input \in Inputs, NEW id \in {0, 1}, Plan(input, id)
  PROVE  IInv'
<1>1. /\ pc = "planning" /\ Parses(input.dump) /\ made' = made \cup {Planned(input, id)}
      /\ UNCHANGED <<policy, planned, runVars, linkVars, brokerVars>>
  BY DEF Plan
<1>2. PlansMade'
  BY <1>1 DEF IInv, PlansMade
<1>3. RunInv'
  BY <1>1 DEF IInv, RunInv, runVars
<1>4. LinkTypes'
  BY <1>1 DEF IInv, LinkTypes, linkVars, brokerVars
<1>5. AttemptsInv'
  BY <1>1 DEF IInv, AttemptsInv, ThreadInv, Unused, Number, runVars, linkVars, brokerVars
<1>6. RecordsAreTrue'
  BY <1>1, RecordsStay DEF Told, runVars, linkVars, brokerVars
<1> QED
  BY <1>2, <1>3, <1>4, <1>5, <1>6 DEF IInv

\* A plan that was not refused made one request, which the protocol accepts.
LEMMA PlansMakeRequests ==
  ASSUME NEW input \in Inputs, NEW id \in {0, 1}
  PROVE  LET m == Planned(input, id)
             plan == PlanOf(input)
         IN  /\ m.input = input /\ m.id = id
             /\ m.refusal = "none" <=> m.request # {}
             /\ m.refusal = "none" => /\ Resolves(input.dump, Query(input))
                                      /\ m.fingerprint = {Metadata(plan)}
             /\ m.request # {} => \E r \in m.request : /\ r \in Requests /\ m.request = {r}
                                                       /\ RequestRefusal(r) = "none"
             /\ m.refusal = "INVALID_REQUEST_ID" => m.id = 0
<1> DEFINE m == Planned(input, id)
           plan == PlanOf(input)
           refusal == PlanRefusal(plan, id)
           r == HistoricalRequestOf(plan, id)
<1>1. CASE ~Resolves(input.dump, Query(input))
  <2>1. m = [input |-> input, id |-> id, refusal |-> "RESOLUTION_FAILURE", request |-> {},
             fingerprint |-> {}]
    BY <1>1 DEF Planned
  <2>2. m.input = input /\ m.id = id /\ m.refusal = "RESOLUTION_FAILURE" /\ m.request = {}
    BY <2>1
  <2> QED
    BY <2>2
<1>2. CASE Resolves(input.dump, Query(input)) /\ refusal # "none"
  <2>1. m = [input |-> input, id |-> id, refusal |-> refusal, request |-> {}, fingerprint |-> {}]
    BY <1>2 DEF Planned
  <2>2. IsRow(plan.instrument) /\ IsItem(plan.item) /\ plan.oi \in BOOLEAN
    BY <1>2, PlansAreTyped
  <2>3. refusal = "INVALID_REQUEST_ID" => id = 0
    <3> SUFFICES ASSUME refusal = "INVALID_REQUEST_ID" PROVE id = 0
      OBVIOUS
    <3>1. /\ IdentityRefusal(plan) # "INVALID_REQUEST_ID"
          /\ WindowRefusal(plan.item) # "INVALID_REQUEST_ID"
      BY DEF IdentityRefusal, WindowRefusal
    <3>2. /\ IdentityRefusal(plan) = "none" /\ WindowRefusal(plan.item) = "none"
          /\ RequestRefusal(r) # "none"
      BY <3>1 DEF PlanRefusal
    <3> HIDE DEF plan
    <3> QED
      BY <2>2, <3>2, PlannedRequestsAreAccepted DEF IsRow
  <2>4. m.input = input /\ m.id = id /\ m.refusal = refusal /\ m.request = {}
    BY <2>1
  <2> HIDE DEF refusal
  <2> QED
    BY <1>2, <2>3, <2>4
<1>3. CASE Resolves(input.dump, Query(input)) /\ refusal = "none"
  <2>1. m = [input |-> input, id |-> id, refusal |-> "none", request |-> {CandleRequest(r)},
             fingerprint |-> {Metadata(plan)}]
    BY <1>3 DEF Planned
  <2>2. IsRow(plan.instrument) /\ IsItem(plan.item) /\ plan.oi \in BOOLEAN
    BY <1>3, PlansAreTyped
  <2>3. /\ IdentityRefusal(plan) = "none" /\ WindowRefusal(plan.item) = "none"
        /\ RequestRefusal(r) = "none"
    BY <1>3 DEF PlanRefusal
  <2>4. r \in Requests /\ r.request_id = id
    <3>1. r \in Requests
      <4> HIDE DEF plan
      <4> QED
        BY <2>2, <2>3, PlannedRequestsAreAccepted DEF IsRow
    <3>2. r.request_id = id
      BY DEF HistoricalRequestOf
    <3> QED
      BY <3>1, <3>2
  <2> HIDE DEF r, refusal, plan, m
  <2>5. id \in Nat \ {0}
    BY <2>3, <2>4 DEF RequestRefusal
  <2>6. [r EXCEPT !.request_id = id] = r
    BY <2>4 DEF Requests
  <2>7. CandleRequest(r) \in Requests /\ RequestRefusal(CandleRequest(r)) = "none"
    <3>1. LET anew == CandleRequest([r EXCEPT !.request_id = id])
          IN  anew \in Requests /\ RequestRefusal(anew) = "none"
      BY <2>3, <2>4, <2>5, AcceptedForEveryAttempt
    <3> QED
      BY <2>6, <3>1
  <2>8. /\ m.input = input /\ m.id = id /\ m.refusal = "none"
        /\ m.request = {CandleRequest(r)} /\ m.fingerprint = {Metadata(plan)}
    BY <2>1
  <2> QED
    BY <1>3, <2>7, <2>8 DEF m, plan
<1> HIDE DEF m, refusal
<1> QED
  BY <1>1, <1>2, <1>3 DEF m

LEMMA RunKeeps == ASSUME IInv, Run PROVE IInv'
<1>1. /\ pc = "planning" /\ policy' \in Policies /\ pc' = "next" /\ made' = {}
      /\ UNCHANGED <<history, result, linkVars, deed, index>>
  BY DEF Run
<1>2. PICK m \in made : m.request # {} /\ planned' = m.request
  BY DEF Run
<1>3. \E r \in planned' : r \in Requests /\ planned' = {r} /\ RequestRefusal(r) = "none"
  <2>1. PICK input \in Inputs, id \in {0, 1} : m = Planned(input, id)
    BY DEF IInv, PlansMade
  <2> QED
    BY <1>2, <2>1, PlansMakeRequests
<1>4. history = <<>> /\ Len(history) = 0
  BY <1>1 DEF IInv, RunInv
<1>5. RunInv'
  <2>1. policy' \in Policy /\ PolicyAccepted(policy')
    BY <1>1, PoliciesAreAccepted
  <2>2. policy'.maximum_attempts \in Int /\ policy'.maximum_attempts > 0
    BY <2>1 DEF Policy, PolicyAccepted
  <2> QED
    BY <1>1, <1>3, <1>4, <2>2 DEF IInv, RunInv, MaxAttempts
<1>6. LinkTypes' /\ PlansMade'
  BY <1>1 DEF IInv, LinkTypes, PlansMade, linkVars
<1>7. AttemptsInv'
  BY <1>1 DEF IInv, AttemptsInv, ThreadInv, Unused, linkVars
<1>8. RecordsAreTrue'
  BY <1>1, <1>4 DEF RecordsAreTrue
<1> QED
  BY <1>5, <1>6, <1>7, <1>8 DEF IInv

LEMMA InitIsFine == ASSUME Init PROVE IInv
<1>1. PlansMade
  BY DEF Init, PlansMade
<1>2. RunInv
  BY DEF Init, RunInv, Outcomes
<1>3. LinkTypes
  BY DEF Init, LinkTypes
<1>4. AttemptsInv
  <2>1. history = <<>> /\ Len(history) = 0 /\ pc = "planning"
    BY DEF Init
  <2>2. ASSUME NEW n \in Numbers PROVE ThreadInv(n) /\ Unused(n)
    BY DEF Init, ThreadInv, Unused
  <2>3. ASSUME NEW n \in Numbers PROVE ~(n <= Len(history))
    BY <2>1, PoliciesAreAccepted DEF Numbers, Policy
  <2> QED
    BY <2>1, <2>2, <2>3 DEF AttemptsInv
<1>5. RecordsAreTrue
  BY DEF Init, RecordsAreTrue
<1> QED
  BY <1>1, <1>2, <1>3, <1>4, <1>5 DEF IInv
-----------------------------------------------------------------------------
\* The steps of the server and of the broker.
LEMMA StepsAreDeeds == ASSUME NEW d \in FakeSteps PROVE IsDeed(d)
<1>1. NoCandles \in Responses /\ Optional(NoCandles.http, Int) /\ Optional(NoCandles.retryAfter, Int)
  <2>1. "PROVIDER_RESPONSE" \in TransportStatus /\ "READY" \in SessionState /\ "some" \in Bodies
    BY DEF TransportStatus, SessionState, Bodies
  <2>2. NoCandles \in Responses
    BY <2>1 DEF NoCandles, Responses
  <2>3. NoCandles.http = {200} /\ NoCandles.retryAfter = {}
    BY DEF NoCandles
  <2> QED
    BY <2>2, <2>3 DEF Optional
<1>2. CASE d \in Deeds
  BY <1>2, DeedsAreDeeds
<1>3. CASE d = [raises |-> "INTERNAL_BROKER_FAILURE", response |-> {}]
  <2>1. d.raises = "INTERNAL_BROKER_FAILURE" /\ d.response = {}
    BY <1>3
  <2> QED
    BY <2>1 DEF IsDeed, Optional, ErrorCodes
<1>4. CASE d = [raises |-> "none", response |-> {NoCandles}]
  <2>1. d.raises = "none" /\ d.response = {NoCandles}
    BY <1>4
  <2> QED
    BY <1>1, <2>1 DEF IsDeed, Optional
<1> QED
  BY <1>2, <1>3, <1>4 DEF FakeSteps

LEMMA DoneFits ==
  ASSUME NEW n \in Int, NEW d, IsDeed(d)
  PROVE  /\ Fits(n, Done(d, n))
         /\ Done(d, n) \in [raises : {"none", "an exception"} \cup ErrorCodes,
                            response : SUBSET Responses]
<1> DEFINE own(r) == [r EXCEPT !.request_id = n]
           mine == {own(r) : r \in d.response}
           refused == {ResponseRefusal(r) : r \in mine} \ {"none"}
           does == Done(d, n)
<1>1. /\ d.raises \in {"none", "an exception"} \cup ErrorCodes
      /\ d.response \subseteq Responses /\ \A x, y \in d.response : x = y
      /\ \A r \in d.response : Optional(r.http, Int) /\ Optional(r.retryAfter, Int)
      /\ d.raises = "none" <=> d.response # {}
  BY DEF IsDeed, Optional
<1>2. \A r \in Responses : /\ own(r) \in Responses /\ own(r).request_id = n
                           /\ own(r).http = r.http /\ own(r).retryAfter = r.retryAfter
  BY DEF Responses
<1>3. /\ mine \subseteq Responses /\ \A x, y \in mine : x = y
      /\ \A r \in mine : r.request_id = n /\ Optional(r.http, Int) /\ Optional(r.retryAfter, Int)
      /\ mine # {} <=> d.response # {}
  <2> HIDE DEF own
  <2>1. mine \subseteq Responses /\ \A x, y \in mine : x = y
    BY <1>1, <1>2
  <2>2. \A r \in d.response : own(r).request_id = n /\ Optional(own(r).http, Int)
                             /\ Optional(own(r).retryAfter, Int)
    BY <1>1, <1>2
  <2> QED
    BY <2>1, <2>2
<1>4. refused \subseteq ErrorCodes /\ "none" \notin refused
  <2>1. \A r : ResponseRefusal(r) \in {"none"} \cup ErrorCodes
    BY DEF ResponseRefusal, ErrorCodes
  <2> HIDE DEF mine
  <2> QED
    BY <2>1
<1>5. does = IF refused = {} THEN [raises |-> d.raises, response |-> mine]
             ELSE [raises |-> CHOOSE c \in refused : TRUE, response |-> {}]
  BY DEF Done
<1>6. CASE refused = {}
  <2>1. does = [raises |-> d.raises, response |-> mine]
    BY <1>5, <1>6
  <2>2. does.raises = d.raises /\ does.response = mine
    BY <2>1
  <2>3. \A r \in mine : ResponseRefusal(r) = "none"
    BY <1>6
  <2> HIDE DEF mine, refused, does
  <2>4. Fits(n, does)
    BY <1>1, <1>3, <2>2, <2>3 DEF Fits, IsDeed, Optional
  <2>5. does \in [raises : {"none", "an exception"} \cup ErrorCodes, response : SUBSET Responses]
    BY <1>1, <1>3, <2>1
  <2> QED
    BY <2>4, <2>5 DEF does
<1>7. CASE refused # {}
  <2> DEFINE c == CHOOSE c \in refused : TRUE
  <2>1. does = [raises |-> c, response |-> {}]
    BY <1>5, <1>7
  <2>2. does.raises = c /\ does.response = {}
    BY <2>1
  <2>3. c \in ErrorCodes /\ c # "none"
    <3> HIDE DEF refused
    <3> QED
      BY <1>4, <1>7
  <2> HIDE DEF mine, refused, does, c
  <2>4. Fits(n, does)
    BY <2>2, <2>3 DEF Fits, IsDeed, Optional
  <2>5. does \in [raises : {"none", "an exception"} \cup ErrorCodes, response : SUBSET Responses]
    BY <2>1, <2>3
  <2> QED
    BY <2>4, <2>5 DEF does
<1> QED
  BY <1>6, <1>7

LEMMA ServerReadsKeeps == ASSUME IInv, NEW n \in Numbers, ServerReads(n) PROVE IInv'
<1>1. /\ thread[n] = "read"
      /\ \E f \in received[n] :
           thread' = [thread EXCEPT ![n] = IF RequestRefusal(f) = "none" THEN "broker" ELSE "done"]
      /\ received' = [received EXCEPT ![n] = {}]
      /\ UNCHANGED <<made, policy, planned, runVars, reply, cut, brokerVars>>
  BY DEF ServerReads
<1>2. thread' = [thread EXCEPT ![n] = "broker"]
  BY <1>1 DEF IInv, AttemptsInv, ThreadInv
<1>3. /\ thread'[n] = "broker" /\ received'[n] = {}
      /\ \A k \in Numbers : k # n => thread'[k] = thread[k] /\ received'[k] = received[k]
  BY <1>1, <1>2 DEF IInv, LinkTypes
<1>4. RunInv' /\ PlansMade'
  BY <1>1 DEF IInv, RunInv, PlansMade, MaxAttempts, runVars
<1>5. LinkTypes'
  BY <1>1, <1>2 DEF IInv, LinkTypes, brokerVars
<1>6. AttemptsInv'
  <2>1. ASSUME NEW k \in Numbers PROVE ThreadInv(k)'
    BY <1>1, <1>3 DEF IInv, AttemptsInv, ThreadInv, brokerVars
  <2>2. ASSUME NEW k \in Numbers, k <= Len(history)
        PROVE  thread'[k] \in {"none", "done"} \/ k \in cut'
    BY <1>1, <1>3, <2>2 DEF IInv, AttemptsInv
  <2>3. ASSUME NEW k \in Numbers, k > Len(history), ~(pc = "await" /\ k = Number)
        PROVE  Unused(k)'
    BY <1>1, <1>3, <2>3 DEF IInv, AttemptsInv, Unused, brokerVars
  <2>4. ASSUME pc = "await" PROVE thread'[Number] # "none"
    <3>1. Number \in Numbers
      BY <2>4, RunningNumber DEF IInv
    <3> QED
      BY <1>3, <2>4, <3>1 DEF IInv, AttemptsInv
  <2>5. Number' = Number
    BY <1>1 DEF Number, runVars
  <2> QED
    BY <1>1, <2>1, <2>2, <2>3, <2>4, <2>5 DEF AttemptsInv, IInv, runVars, brokerVars
<1>7. RecordsAreTrue'
  BY <1>1, RecordsStay DEF Told, runVars, brokerVars
<1> QED
  BY <1>4, <1>5, <1>6, <1>7 DEF IInv

\* A thread that is at work on a connection that lasts is the one whose reply is awaited.
LEMMA AtWorkIsAwaited ==
  ASSUME IInv, NEW n \in Numbers, thread[n] \in {"read", "broker"}, n \notin cut
  PROVE  /\ pc = "await" /\ n = Number /\ deed[n] = {} /\ reply[n] = {}
         /\ \A k \in DOMAIN history : k # n
<1>1. /\ n <= Len(history) => thread[n] \in {"none", "done"} \/ n \in cut
      /\ n > Len(history) /\ ~(pc = "await" /\ n = Number) => Unused(n)
      /\ history \in Seq(Records)
  BY DEF IInv, AttemptsInv, RunInv
<1>2. n \in Int /\ Len(history) \in Nat /\ DOMAIN history = 1 .. Len(history)
  BY <1>1, PoliciesAreAccepted DEF Numbers, Policy
<1>3. ~(n <= Len(history))
  BY <1>1
<1>4. n > Len(history)
  BY <1>2, <1>3
<1>5. pc = "await" /\ n = Number
  BY <1>1, <1>4 DEF Unused
<1>6. deed[n] = {} /\ reply[n] = {}
  BY <1>5 DEF IInv, AttemptsInv, ThreadInv
<1>7. \A k \in DOMAIN history : k # n
  BY <1>2, <1>4
<1> QED
  BY <1>5, <1>6, <1>7

LEMMA BrokerActsKeeps == ASSUME IInv, NEW n \in Numbers, BrokerActs(n) PROVE IInv'
<1>1. /\ thread[n] = "broker" /\ thread' = [thread EXCEPT ![n] = "done"]
      /\ UNCHANGED <<made, policy, planned, runVars, received, cut, steps>>
  BY DEF BrokerActs
<1>2. PICK d \in FakeSteps : IF n \in cut THEN UNCHANGED <<deed, reply>>
        ELSE /\ deed' = [deed EXCEPT ![n] = {Done(d, n)}]
             /\ reply' = [reply EXCEPT ![n] = Answer(n, Done(d, n))]
  BY DEF BrokerActs
<1>3. n \in Int
  BY PoliciesAreAccepted DEF Numbers, Policy
<1> DEFINE does == Done(d, n)
<1>4. /\ Fits(n, does)
      /\ does \in [raises : {"none", "an exception"} \cup ErrorCodes, response : SUBSET Responses]
  BY <1>3, StepsAreDeeds, DoneFits
<1>5. Answer(n, does) \subseteq Responses
  BY <1>3, <1>4, AnswersTell
<1> HIDE DEF does
<1>6. /\ thread'[n] = "done" /\ \A k \in Numbers : k # n => thread'[k] = thread[k]
      /\ n \notin cut => deed'[n] = {does} /\ reply'[n] = Answer(n, does)
      /\ n \in cut => deed'[n] = deed[n] /\ reply'[n] = reply[n]
      /\ \A k \in Numbers : k # n => deed'[k] = deed[k] /\ reply'[k] = reply[k]
  BY <1>1, <1>2 DEF IInv, LinkTypes, does
<1>7. n \notin cut => /\ pc = "await" /\ n = Number /\ deed[n] = {} /\ reply[n] = {}
                      /\ \A k \in DOMAIN history : k # n
  BY <1>1, AtWorkIsAwaited
<1>8. RunInv' /\ PlansMade'
  BY <1>1 DEF IInv, RunInv, PlansMade, MaxAttempts, runVars
<1>9. LinkTypes'
  <2>1. CASE n \in cut
    <3>1. deed' = deed /\ reply' = reply
      BY <1>2, <2>1
    <3> QED
      BY <1>1, <3>1 DEF IInv, LinkTypes
  <2>2. CASE n \notin cut
    <3>1. /\ deed' = [deed EXCEPT ![n] = {does}]
          /\ reply' = [reply EXCEPT ![n] = Answer(n, does)]
      BY <1>2, <2>2 DEF does
    <3>2. /\ thread' \in [Numbers -> {"none", "read", "broker", "done"}]
          /\ received' \in [Numbers -> SUBSET Requests] /\ cut' \subseteq Numbers
      BY <1>1 DEF IInv, LinkTypes
    <3>3. reply' \in [Numbers -> SUBSET Responses]
      BY <1>5, <3>1 DEF IInv, LinkTypes
    <3>4. deed' \in [Numbers -> SUBSET [raises : {"none", "an exception"} \cup ErrorCodes,
                                       response : SUBSET Responses]]
      BY <1>4, <3>1 DEF IInv, LinkTypes
    <3> QED
      BY <3>2, <3>3, <3>4 DEF LinkTypes
  <2> QED
    BY <2>1, <2>2
<1>10. AttemptsInv'
  <2>1. ASSUME NEW k \in Numbers PROVE ThreadInv(k)'
    <3>1. CASE k = n /\ n \notin cut
      BY <1>1, <1>4, <1>6, <3>1 DEF IInv, AttemptsInv, ThreadInv
    <3>2. CASE k = n /\ n \in cut
      BY <1>1, <1>6, <3>2 DEF IInv, AttemptsInv, ThreadInv
    <3>3. CASE k # n
      BY <1>1, <1>6, <3>3 DEF IInv, AttemptsInv, ThreadInv
    <3> QED
      BY <3>1, <3>2, <3>3
  <2>2. ASSUME NEW k \in Numbers, k <= Len(history)
        PROVE  thread'[k] \in {"none", "done"} \/ k \in cut'
    BY <1>1, <1>6, <2>2 DEF IInv, AttemptsInv
  <2>3. ASSUME NEW k \in Numbers, k > Len(history), ~(pc = "await" /\ k = Number)
        PROVE  Unused(k)'
    <3>1. k # n
      BY <1>1, <2>3 DEF IInv, AttemptsInv, Unused
    <3> QED
      BY <1>1, <1>6, <2>3, <3>1 DEF IInv, AttemptsInv, Unused
  <2>4. ASSUME pc = "await"
        PROVE  /\ thread'[Number] # "none"
               /\ Number \in cut => deed'[Number] = {}
               /\ deed'[Number] = {} => reply'[Number] = {}
               /\ \A e \in deed'[Number] : reply'[Number] = Answer(Number, e)
    <3>1. Number \in Numbers
      BY <2>4, RunningNumber DEF IInv
    <3>2. /\ thread[Number] # "none" /\ (Number \in cut => deed[Number] = {})
          /\ deed[Number] = {} => reply[Number] = {}
          /\ \A e \in deed[Number] : reply[Number] = Answer(Number, e)
      BY <2>4 DEF IInv, AttemptsInv
    <3>3. CASE Number = n /\ n \notin cut
      BY <1>6, <3>3
    <3>4. CASE Number # n \/ n \in cut
      BY <1>6, <3>1, <3>2, <3>4
    <3> QED
      BY <3>3, <3>4
  <2>5. Number' = Number
    BY <1>1 DEF Number, runVars
  <2> QED
    BY <1>1, <2>1, <2>2, <2>3, <2>4, <2>5 DEF AttemptsInv, runVars
<1>11. RecordsAreTrue'
  <2>1. ASSUME NEW k \in DOMAIN history PROVE Told(k)' = Told(k)
    <3>1. CASE n \in cut
      BY <1>1, <1>2, <3>1 DEF Told
    <3>2. CASE n \notin cut
      <4>1. k # n
        BY <1>7, <3>2
      <4>2. k \in Numbers
        <5>1. /\ policy \in Policies /\ MaxAttempts \in Int /\ Number \in 1 .. MaxAttempts
              /\ Len(history) \in Nat
          BY <1>7, <3>2, RunningNumber DEF IInv
        <5>2. k \in 1 .. Len(history)
          BY DEF IInv, RunInv
        <5>3. k \in 1 .. MaxAttempts
          BY <5>1, <5>2 DEF Number
        <5> QED
          BY <5>1, <5>3 DEF Numbers, MaxAttempts
      <4>3. deed'[k] = deed[k]
        BY <1>6, <4>1, <4>2
      <4> QED
        BY <1>1, <4>3 DEF Told
    <3> QED
      BY <3>1, <3>2
  <2> QED
    BY <1>1, <2>1, RecordsStay DEF runVars
<1> QED
  BY <1>8, <1>9, <1>10, <1>11 DEF IInv

LEMMA CutKeeps == ASSUME IInv, NEW n \in Numbers, Cut(n) PROVE IInv'
<1>1. /\ thread[n] \in {"read", "broker"} /\ n \notin cut /\ cut' = cut \cup {n}
      /\ received' = [received EXCEPT ![n] = {}]
      /\ UNCHANGED <<made, policy, planned, runVars, reply, brokerVars>>
  BY DEF Cut
<1>2. \/ thread' = [thread EXCEPT ![n] = "done"]
      \/ thread[n] = "broker" /\ thread' = thread
  BY DEF Cut
<1>3. /\ pc = "await" /\ n = Number /\ deed[n] = {} /\ reply[n] = {}
      /\ \A k \in DOMAIN history : k # n
  BY <1>1, AtWorkIsAwaited
<1>4. /\ thread'[n] \in {"broker", "done"} /\ received'[n] = {}
      /\ \A k \in Numbers : k # n => thread'[k] = thread[k] /\ received'[k] = received[k]
  BY <1>1, <1>2 DEF IInv, LinkTypes
<1>5. RunInv' /\ PlansMade'
  BY <1>1 DEF IInv, RunInv, PlansMade, MaxAttempts, runVars
<1>6. LinkTypes'
  BY <1>1, <1>2 DEF IInv, LinkTypes, brokerVars
<1>7. Number' = Number /\ deed' = deed /\ pc' = pc /\ history' = history
  BY <1>1 DEF Number, runVars, brokerVars
<1>8. AttemptsInv'
  <2>1. ASSUME NEW k \in Numbers PROVE ThreadInv(k)'
    <3>1. CASE k = n
      BY <1>1, <1>3, <1>4, <1>7, <3>1 DEF ThreadInv
    <3>2. CASE k # n
      BY <1>1, <1>4, <1>7, <3>2 DEF IInv, AttemptsInv, ThreadInv
    <3> QED
      BY <3>1, <3>2
  <2>2. ASSUME NEW k \in Numbers, k <= Len(history)
        PROVE  thread'[k] \in {"none", "done"} \/ k \in cut'
    BY <1>1, <1>4, <2>2 DEF IInv, AttemptsInv
  <2>3. ASSUME NEW k \in Numbers, k > Len(history), k # Number
        PROVE  Unused(k)'
    BY <1>1, <1>3, <1>4, <1>7, <2>3 DEF IInv, AttemptsInv, Unused
  <2> QED
    BY <1>1, <1>3, <1>4, <1>7, <2>1, <2>2, <2>3 DEF AttemptsInv
<1>9. RecordsAreTrue'
  <2>1. \A k \in DOMAIN history : Told(k)' = Told(k)
    BY <1>1, <1>3, <1>7 DEF Told
  <2> QED
    BY <1>1, <2>1, RecordsStay DEF runVars
<1> QED
  BY <1>5, <1>6, <1>8, <1>9 DEF IInv
-----------------------------------------------------------------------------
LEMMA NextKeepsIInv == ASSUME IInv, [Next]_vars PROVE IInv'
<1>1. CASE UNCHANGED vars
  <2>1. /\ UNCHANGED <<made, policy, planned, pc, history, result>>
        /\ UNCHANGED <<thread, received, reply, cut, deed>>
    BY <1>1 DEF vars, runVars, linkVars, brokerVars
  <2>2. PlansMade' /\ RunInv' /\ LinkTypes'
    BY <2>1 DEF IInv, PlansMade, RunInv, LinkTypes, MaxAttempts
  <2>3. AttemptsInv'
    BY <2>1 DEF IInv, AttemptsInv, ThreadInv, Unused, Number
  <2>4. RecordsAreTrue'
    BY <2>1, RecordsStay DEF Told
  <2> QED
    BY <2>2, <2>3, <2>4 DEF IInv
<1>2. ASSUME NEW d \in Dumps, NEW c \in Contexts, NEW i \in Items, NEW id \in {0, 1},
             Plan([dump |-> d, context |-> c, item |-> i], id)
      PROVE  IInv'
  <2>1. [dump |-> d, context |-> c, item |-> i] \in Inputs
    BY DEF Inputs
  <2> QED
    BY <1>2, <2>1, PlanKeeps
<1>3. CASE Run
  BY <1>3, RunKeeps
<1>4. CASE Admit
  BY <1>4, AdmitKeeps
<1>5. CASE ConnectFails
  BY <1>5, ConnectFailsKeeps
<1>6. CASE Send
  BY <1>6, SendKeeps
<1>7. CASE Receive
  BY <1>7, ReceiveKeeps
<1>8. CASE Ended
  BY <1>8, EndedKeeps
<1>9. CASE TimesOut
  BY <1>9, TimesOutKeeps
<1>10. ASSUME NEW n \in Numbers, ServerReads(n) PROVE IInv'
  BY <1>10, ServerReadsKeeps
<1>11. ASSUME NEW n \in Numbers, BrokerActs(n) PROVE IInv'
  BY <1>11, BrokerActsKeeps
<1>12. ASSUME NEW n \in Numbers, Cut(n) PROVE IInv'
  BY <1>12, CutKeeps
<1> QED
  BY <1>1, <1>2, <1>3, <1>4, <1>5, <1>6, <1>7, <1>8, <1>9, <1>10, <1>11, <1>12
  DEF Next, ClientStep

\* The strengthening that carries the results below: of every attempt, where its thread,
\* its connection and its answer are with respect to the run that made it.
THEOREM RequestInvariance == Spec => []IInv
<1>1. Init => IInv
  BY InitIsFine
<1>2. IInv /\ [Next]_vars => IInv'
  BY NextKeepsIInv
<1> QED
  BY <1>1, <1>2, PTL DEF Spec

\* In every run, with any policy, any broker and any attempts given up while their
\* threads went on, each record tells the code, status and retry of what the broker did
\* for that attempt and no other, with the documented delay (retry.py:298-349,
\* unix_transport.py:139-170, 380-411).
THEOREM RecordsTellTheDeeds == Spec => []RecordsAreTrue
<1>1. IInv => RecordsAreTrue
  BY DEF IInv
<1> QED
  BY <1>1, RequestInvariance, PTL

\* What an earlier part of the pipeline accepts no later one refuses: every plan's
\* request can be made anew for every attempt and is read by the server, and a known
\* record is planned for its sessions (planning.py, broker_protocol.py, instruments.py).
THEOREM AcceptedPlansAreServed == Spec => []PlansAreServed
<1>1. ASSUME IInv PROVE PlansAreServed
  <2>1. ASSUME NEW m \in made, m.refusal = "INVALID_REQUEST_ID" PROVE m.id = 0
    <3>1. PICK input \in Inputs, id \in {0, 1} : m = Planned(input, id)
      BY <1>1 DEF IInv, PlansMade
    <3> QED
      BY <2>1, <3>1, PlansMakeRequests
  <2>2. result # "InconsistentBrokerResponseError"
    BY <1>1 DEF IInv, RunInv, Outcomes, ErrorCodes, RetryableCodes, ReauthenticationCodes
  <2>3. \A n \in DOMAIN thread : thread[n] = "done" /\ deed[n] = {} => n \in cut
    BY <1>1 DEF IInv, LinkTypes, AttemptsInv, ThreadInv
  <2>4. ASSUME NEW m \in made, m.id # 0, ~m.input.context.continuous,
               m.input.item \in MinuteIngestion("zerodha", m.input.item.symbol,
                                                {m.input.item.session_date}),
               \A e \in Query(m.input).expiry : m.input.item.session_date <= e,
               Cardinality(Matching(m.input.dump, Query(m.input))) = 1,
               \A i \in Matching(m.input.dump, Query(m.input)) :
                 LET record == m.input.dump[i]
                 IN  /\ record.exchange.form = "upper" /\ record.tradingsymbol.form = "upper"
                     /\ record.token.form \in {"plain", "padded"}
                     /\ record.type \notin Options => record.strike = {}
        PROVE  m.refusal = "none"
    <3>1. PICK input \in Inputs, id \in {0, 1} : Parses(input.dump) /\ m = Planned(input, id)
      BY <1>1 DEF IInv, PlansMade
    <3>2. m.input = input /\ m.id = id
      BY <3>1, PlansMakeRequests
    <3>3. id \in Int /\ id # 0
      BY <2>4, <3>2
    <3>4. /\ ~input.context.continuous
          /\ input.item \in MinuteIngestion("zerodha", input.item.symbol, {input.item.session_date})
          /\ \A e \in Query(input).expiry : input.item.session_date <= e
          /\ Cardinality(Matching(input.dump, Query(input))) = 1
          /\ \A i \in Matching(input.dump, Query(input)) :
               LET record == input.dump[i]
               IN  /\ record.exchange.form = "upper" /\ record.tradingsymbol.form = "upper"
                   /\ record.token.form \in {"plain", "padded"}
                   /\ record.type \notin Options => record.strike = {}
      BY <2>4, <3>2, Zenon
    <3>5. Planned(input, id).refusal = "none"
      BY <3>1, <3>3, <3>4, KnownRecordsArePlanned
    <3> QED
      BY <3>1, <3>5
  <2> QED
    BY <2>1, <2>2, <2>3, <2>4 DEF PlansAreServed
<1> QED
  BY <1>1, RequestInvariance, PTL

\* Any two plans that were not refused have one fingerprint exactly when they ask for
\* the same data of the same snapshot with the same date (planning.py:216-260).
THEOREM PlansShareFingerprints == Spec => []FingerprintsAgree
<1>1. ASSUME IInv, NEW p \in made, p.refusal = "none", NEW q \in made, q.refusal = "none"
      PROVE  p.fingerprint = q.fingerprint <=> SameData(PlanOf(p.input), PlanOf(q.input))
  <2>1. ASSUME NEW m \in made, m.refusal = "none"
        PROVE  /\ m.fingerprint = {Metadata(PlanOf(m.input))}
               /\ IsItem(PlanOf(m.input).item) /\ PlanOf(m.input).instrument.token \in Numerals
    <3>1. PICK input \in Inputs, id \in {0, 1} : m = Planned(input, id)
      BY <1>1 DEF IInv, PlansMade
    <3>2. /\ m.input = input /\ Resolves(input.dump, Query(input))
          /\ m.fingerprint = {Metadata(PlanOf(input))}
      BY <2>1, <3>1, PlansMakeRequests
    <3>3. IsRow(PlanOf(input).instrument) /\ IsItem(PlanOf(input).item)
      BY <3>2, PlansAreTyped
    <3> QED
      BY <3>2, <3>3 DEF IsRow
  <2>2. p.fingerprint = {Metadata(PlanOf(p.input))} /\ q.fingerprint = {Metadata(PlanOf(q.input))}
    BY <1>1, <2>1
  <2>3. Metadata(PlanOf(p.input)) = Metadata(PlanOf(q.input))
          <=> SameData(PlanOf(p.input), PlanOf(q.input))
    BY <1>1, <2>1, FingerprintsNameData
  <2> QED
    BY <2>2, <2>3
<1>2. IInv => FingerprintsAgree
  BY <1>1 DEF FingerprintsAgree
<1> QED
  BY <1>2, RequestInvariance, PTL
===============================================================================
