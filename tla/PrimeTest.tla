---- MODULE PrimeTest ----
(***************************************************************************)
(* The arithmetic the prime-search programs of ClassWork4 and ClassWork5   *)
(* share: the trial-division test is_prime, copied verbatim into each of   *)
(* them, the definition of primality it is compared with, the vector of    *)
(* primes a loop over a range fills, and the outcome of results.reserve(), *)
(* the first statement that depends on the range.                          *)
(***************************************************************************)
EXTENDS Integers, FiniteSets

\* The mathematical notion: d divides n exactly when some multiple of d is n.
Divides(d, n) == \E q \in 1..n : n = d * q

Prime(n) == n > 1 /\ \A d \in 2..(n - 1) : ~Divides(d, n)

\* The divisors the loop of is_prime tries: i = 5, 11, 17, ... while i*i <= n,
\* each together with i + 2.
TrialDivisors(n) == {i \in 5..n : i % 6 = 5 /\ i * i <= n}

\* is_prime() for arguments whose squares do not overflow; Primes.tla runs
\* the same loop step by step on machine words.
is_prime(n) ==
    IF n <= 3 THEN n > 1
    ELSE /\ n % 2 # 0
         /\ n % 3 # 0
         /\ \A i \in TrialDivisors(n) : n % i # 0 /\ n % (i + 2) # 0

\* The members of a finite set of numbers, smallest first: the k-th is the one
\* that k members do not exceed.
Rank(n, S) == Cardinality({m \in S : m <= n})
InOrder(S) == [k \in 1..Cardinality(S) |-> CHOOSE n \in S : Rank(n, S) = k]

Increasing(s) == \A j, k \in DOMAIN s : j < k => s[j] < s[k]

\* What a loop over the numbers of S pushes back.
PrimesIn(S) == InOrder({n \in S : is_prime(n)})

\* results.reserve((size_t)(n2-n1)/log(n1)), for arguments in the lower half of
\* the words, divides a size_t by a double:
\*  - n1 = 0: log is -inf, the quotient -0.0, reserve(0);
\*  - n1 = 1: log is 0 and the quotient +inf or NaN, which has no size_t
\*    value: undefined, the build may reserve little or throw;
\*  - n2 < n1: n2-n1 wraps to more than half of 2^64. Divided by log(2) it can
\*    exceed the range of size_t (undefined again); by the log of 3 or more it
\*    is a size no allocator grants, and the exception leaves main uncaught;
\*  - otherwise the reservation grows with the range, and whether it is granted
\*    depends on the memory there is.
reserve(n1, n2) ==
    CASE n1 = 0 \/ (n1 > 1 /\ n1 = n2) -> {"ok"}
      [] n1 > 2 /\ n2 < n1             -> {"abort"}
      [] OTHER                         -> {"ok", "abort"}
====
