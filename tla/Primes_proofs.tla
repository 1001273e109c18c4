---- MODULE Primes_proofs ----
(***************************************************************************)
(* Two implementations of PrimeSearch.                                     *)
(*                                                                         *)
(* primes.cpp for every word size and all arguments, the negative ones     *)
(* too. The inductive invariant Inv adds to the loop invariant of is_prime *)
(* that as long as the squares fit none has wrapped, and where main stands *)
(* in its range; from it follow that nothing but primes is ever found, and *)
(* of those whose squares fit all, in order, and that the program          *)
(* implements PrimeSearch on the ranges where it can.                      *)
(*                                                                         *)
(* The programs over a parallel loop, ParallelSearch, for every number of  *)
(* threads and every way the iterations are dealt out. Their invariant     *)
(* ParInv says who has which part of the range: a prime of it is found,    *)
(* left to one thread, or still to be dealt out, no number is held twice,  *)
(* and even shares lie one behind the other.                               *)
(***************************************************************************)
EXTENDS Primes, Shared_proofs

\* Where main stands: while is_prime runs, the number under test is the one
\* before n1; unless n2 is the last word, main goes once from start to n2, and
\* has not found more numbers than it has tested.
Position ==
    /\ pc \in {"is_prime", "loop"} => n1 = (prime + 1) % Modulus /\ prime <= n2
    /\ pc = "reserve" => n1 = start /\ results = <<>>
    /\ pc = "while" => n1 = start \/ n1 - 1 <= n2
    /\ pc = "done" => n2 # LastWord
    /\ n2 # LastWord =>
          /\ pc \in {"is_prime", "loop"} => start <= prime /\ Len(results) <= prime - start
          /\ pc \in {"reserve", "while"} => start <= n1 /\ Len(results) <= n1 - start

\* As long as its squares fit, none has wrapped.
NotWrapped == pc = "loop" => i >= 5 /\ (Fits(prime) => i * i < Modulus)

\* What is found is a prime, and in the part of the range that has been tested.
Sound == \A n \in ToSet(results) : Prime(n) /\ (n2 # LastWord => n \in Visited)

Complete == pc # "aborted" => \A n \in Visited : Prime(n) /\ Fits(n) => n \in ToSet(results)

Inv == TypeOK /\ TrialInvariant /\ NotWrapped /\ Position /\ Sound /\ Complete

LEMMA WordType ==
    ASSUME NEW x \in Int
    PROVE  x % Modulus \in 0..(Modulus - 1)
BY ModulusAssumption

LEMMA ArgsType ==
    ASSUME args \in Ranges
    PROVE  /\ start \in Nat /\ n2 \in Nat /\ start <= LastWord /\ n2 <= LastWord
           /\ Modulus \in Nat /\ Modulus > 25 /\ LastWord = Modulus - 1
<1>1. args[1] \in Int /\ args[2] \in Int
  BY RangesAssumption, ModulusAssumption DEF LongLong
<1>2. start \in 0..(Modulus - 1)
  BY <1>1, WordType DEF start, ull
<1>3. n2 \in 0..(Modulus - 1)
  BY <1>1, WordType DEF n2, ull
<1> QED BY <1>2, <1>3, ModulusAssumption DEF LastWord

\* A word below Modulus is its own remainder.
LEMMA NoWrap ==
    ASSUME NEW x \in Nat, x < Modulus
    PROVE  x % Modulus = x
BY ModulusAssumption

LEMMA InitInv == ASSUME Init PROVE Inv
<1>1. /\ args \in Ranges /\ n1 = start /\ prime = 0 /\ i = 0 /\ results = <<>>
      /\ pc = "reserve"
  BY DEF Init
<1>2. /\ start \in Nat /\ n2 \in Nat /\ start <= LastWord
      /\ Modulus \in Nat /\ Modulus > 25 /\ LastWord = Modulus - 1
  BY <1>1, ArgsType
<1>3. TypeOK
  BY <1>1, <1>2 DEF TypeOK, Word
<1>4. TrialInvariant /\ NotWrapped /\ Position
  BY <1>1, <1>2 DEF TrialInvariant, NotWrapped, Position
<1>5. Visited = {} /\ ToSet(results) = {}
  BY <1>1, <1>2 DEF Visited, ToSet
<1> QED BY <1>3, <1>4, <1>5 DEF Inv, Sound, Complete

LEMMA ReserveInv == ASSUME Inv, Reserve PROVE Inv'
<1>1. /\ pc = "reserve" /\ pc' \in {"while", "aborted"}
      /\ UNCHANGED <<args, n1, prime, i, results, start, n2>>
  BY DEF Reserve, start, n2
<1>2. TypeOK' /\ TrialInvariant' /\ NotWrapped' /\ Position'
  BY <1>1 DEF Inv, TypeOK, TrialInvariant, NotWrapped, Position
<1>3. Visited' = Visited
  BY <1>1 DEF Visited
<1> QED BY <1>1, <1>2, <1>3 DEF Inv, Sound, Complete

LEMMA NextNumberInv == ASSUME Inv, NextNumber PROVE Inv'
<1>1. /\ pc = "while" /\ prime' = n1 /\ n1' = (n1 + 1) % Modulus
      /\ pc' = IF n1 <= n2 THEN "is_prime" ELSE "done"
      /\ UNCHANGED <<args, i, results, start, n2>>
  BY DEF NextNumber, start, n2
<1>2. /\ start \in Nat /\ n2 \in Nat /\ n2 <= LastWord /\ n1 \in Nat /\ n1 <= LastWord
      /\ Modulus \in Nat /\ LastWord = Modulus - 1
  BY ArgsType DEF Inv, TypeOK, Word
<1>3. n1' \in Word
  BY <1>1, <1>2, WordType DEF Word
<1>4. TypeOK'
  BY <1>1, <1>2, <1>3 DEF Inv, TypeOK, Word
<1>5. Position'
  BY <1>1, <1>2 DEF Inv, Position
<1>6. Visited' = Visited
  BY <1>1, <1>2 DEF Inv, Position, Visited
<1>7. Sound' /\ Complete'
  BY <1>1, <1>6 DEF Inv, Sound, Complete
<1>8. TrialInvariant' /\ NotWrapped'
  BY <1>1 DEF TrialInvariant, NotWrapped
<1> QED BY <1>4, <1>5, <1>7, <1>8 DEF Inv

\* is_prime returns its verdict and main stores the number, or does not.
LEMMA ReturnInv ==
    ASSUME Inv, pc \in {"is_prime", "loop"}, NEW b \in BOOLEAN,
           b => Prime(prime), Prime(prime) /\ Fits(prime) => b,
           Return(b), i' = i
    PROVE  Inv'
<1>1. UNCHANGED <<args, n1, prime, i, start, n2>>
  BY DEF Return, start, n2
<1>2. /\ start \in Nat /\ n2 \in Nat /\ n2 <= LastWord
      /\ Modulus \in Nat /\ LastWord = Modulus - 1
      /\ prime \in Nat /\ prime <= n2 /\ n1 = (prime + 1) % Modulus
      /\ n2 # LastWord => start <= prime /\ Len(results) <= prime - start
      /\ prime \in Word /\ results \in Seq(Word) /\ Len(results) \in Nat
  BY ArgsType DEF Inv, TypeOK, Position, Word
<1>3. prime # LastWord => n1 = prime + 1
  BY <1>2, NoWrap
<1>4. prime = LastWord => n1 = 0 /\ n2 = LastWord
  <2>1. Modulus % Modulus = 0
    BY ModulusAssumption
  <2> QED BY <1>2, <2>1
<1>5. CASE b /\ Len(results) >= Memory /\ pc' = "aborted" /\ UNCHANGED results
  <2>1. TypeOK' /\ TrialInvariant' /\ NotWrapped' /\ Position' /\ Complete'
    BY <1>1, <1>5 DEF Inv, TypeOK, TrialInvariant, NotWrapped, Position, Complete
  <2>2. n2 # LastWord => Visited \subseteq Visited'
    BY <1>1, <1>2, <1>3, <1>5 DEF Visited
  <2>3. Sound'
    BY <1>1, <1>5, <2>2 DEF Inv, Sound
  <2> QED BY <2>1, <2>3 DEF Inv
<1>6. CASE pc' = "while" /\ results' = IF b THEN Append(results, prime) ELSE results
  <2>1. ToSet(results') = ToSet(results) \union {n \in {prime} : b}
    BY <1>2, <1>6, ToSetOfAppend
  <2>2. results' \in Seq(Word) /\ Len(results') <= Len(results) + 1 /\ Len(results') \in Nat
    BY <1>2, <1>6
  <2>3. TypeOK'
    BY <1>1, <1>6, <2>2 DEF Inv, TypeOK
  <2>4. TrialInvariant' /\ NotWrapped'
    BY <1>6 DEF TrialInvariant, NotWrapped
  <2>5. Position'
    BY <1>1, <1>2, <1>3, <1>4, <1>6, <2>2 DEF Position
  <2>6. Visited' \subseteq Visited \union {prime}
    BY <1>1, <1>2, <1>3, <1>4, <1>6 DEF Visited
  <2>7. n2 # LastWord => Visited' = Visited \union {prime}
    BY <1>1, <1>2, <1>3, <1>4, <1>6 DEF Visited
  <2>8. Sound'
    BY <1>1, <2>1, <2>7 DEF Inv, Sound
  <2>9. Complete'
    <3>1. Fits(prime)' = Fits(prime)
      BY <1>1 DEF Fits
    <3> QED BY <1>1, <2>1, <2>6 DEF Inv, Complete
  <2> QED BY <2>3, <2>4, <2>5, <2>8, <2>9 DEF Inv
<1> QED BY <1>5, <1>6 DEF Return

LEMMA PrimeAsTested ==
    ASSUME NEW n \in Nat
    PROVE  /\ n <= 3 => (Prime(n) <=> n > 1)
           /\ n > 3 /\ (n % 2 = 0 \/ n % 3 = 0) => ~Prime(n)
BY IsPrimeCorrect DEF is_prime

LEMMA ScreenInv == ASSUME Inv, Screen PROVE Inv'
<1>1. prime \in Nat /\ pc = "is_prime" /\ prime < Modulus
  BY ModulusAssumption DEF Inv, TypeOK, Word, Screen
<1>2. CASE prime <= 3 /\ Return(prime > 1) /\ i' = i
  BY <1>1, <1>2, PrimeAsTested, ReturnInv, (prime > 1) \in BOOLEAN
<1>3. CASE prime > 3 /\ (prime % 2 = 0 \/ prime % 3 = 0) /\ Return(FALSE) /\ i' = i
  <2>1. ~Prime(prime)
    BY <1>1, <1>3, PrimeAsTested
  <2> QED BY <1>1, <1>3, <2>1, ReturnInv
<1>4. CASE /\ prime > 3 /\ prime % 2 # 0 /\ prime % 3 # 0
           /\ i' = 5 /\ pc' = "loop" /\ UNCHANGED <<args, n1, prime, results>>
  <2>1. prime >= 5
    BY <1>1, <1>4
  <2>2. TypeOK'
    BY <1>1, <1>4, <2>1, ModulusAssumption DEF Inv, TypeOK, Word
  <2>3. ASSUME NEW d \in 2..4 PROVE ~Divides(d, prime)
    <3>1. prime \in Nat \ {0}
      BY <1>1, <1>4
    <3>2. CASE d = 2 \/ d = 3
      BY <1>4, <3>1, <3>2, DividesIsMod
    <3>3. CASE d = 4
      BY <1>4, <3>1, <3>3, DividesIsMod
    <3> QED BY <3>2, <3>3
  <2>4. TrialInvariant' /\ NotWrapped'
    BY <1>4, <2>1, <2>3, ModulusAssumption DEF TrialInvariant, NotWrapped
  <2>5. UNCHANGED <<start, n2>>
    BY <1>4 DEF start, n2
  <2>6. Position' /\ Visited' = Visited
    BY <1>1, <1>4, <2>5 DEF Inv, Position, Visited
  <2>7. Sound' /\ Complete'
    BY <1>1, <1>4, <2>5, <2>6 DEF Inv, Sound, Complete
  <2> QED BY <2>2, <2>4, <2>6, <2>7 DEF Inv
<1> QED BY <1>2, <1>3, <1>4 DEF Screen

LEMMA MultipleOfThree == ASSUME NEW k \in Nat, k % 6 = 5 PROVE (k + 4) % 3 = 0
OBVIOUS

LEMMA OddNeighbours ==
    ASSUME NEW k \in Nat, k % 6 = 5
    PROVE  (k + 1) % 2 = 0 /\ (k + 3) % 2 = 0 /\ (k + 5) % 2 = 0
OBVIOUS

\* What one turn of the loop learns about i, ..., i + 5: the numbers it does
\* not try are multiples of 2 or of 3.
LEMMA NextTrial ==
    ASSUME NEW n \in Nat \ {0}, NEW k \in Nat, k >= 5, k % 6 = 5,
           \A d \in 2..(k - 1) : ~Divides(d, n),
           n % k # 0, n % (k + 2) # 0
    PROVE  \A d \in 2..((k + 6) - 1) : ~Divides(d, n)
<1>1. n % 2 # 0 /\ n % 3 # 0
  <2>1. ~Divides(2, n) /\ ~Divides(3, n)
    OBVIOUS
  <2> QED BY <2>1, DividesIsMod, 2 \in Nat \ {0}, 3 \in Nat \ {0}
<1>2. ASSUME NEW d \in {k, k + 1, k + 2, k + 3, k + 4, k + 5} PROVE n % d # 0
  <2>1. CASE d = k \/ d = k + 2
    BY <2>1
  <2>2. CASE d = k + 1 \/ d = k + 3 \/ d = k + 5
    <3>1. d \in Nat \ {0} /\ d % 2 = 0
      BY <2>2, OddNeighbours
    <3>2. n % d = 0 => n % 2 = 0
      BY <3>1, DividesTransitive, 2 \in Nat \ {0}
    <3> QED BY <1>1, <3>2
  <2>3. CASE d = k + 4
    <3>1. d \in Nat \ {0} /\ d % 3 = 0
      BY <2>3, MultipleOfThree
    <3>2. n % d = 0 => n % 3 = 0
      BY <3>1, DividesTransitive, 3 \in Nat \ {0}
    <3> QED BY <1>1, <3>2
  <2> QED BY <2>1, <2>2, <2>3
<1>3. SUFFICES ASSUME NEW d \in 2..((k + 6) - 1), d \notin 2..(k - 1)
               PROVE  ~Divides(d, n)
  OBVIOUS
<1>4. d \in {k, k + 1, k + 2, k + 3, k + 4, k + 5} /\ d \in Nat \ {0}
  BY <1>3
<1> QED BY <1>2, <1>4, DividesIsMod

LEMMA ModOfItself == ASSUME NEW n \in Nat, n > 0 PROVE n % n = 0
OBVIOUS

\* The index passes a candidate that is no multiple of 2, 3, k and k + 2 by no
\* step: it is at most 6k + 5 - 6 when the candidate is not reached.
LEMMA NextBelow ==
    ASSUME NEW n \in Nat, NEW k \in Nat, k % 6 = 5, k <= n, n % 2 # 0, n % 3 # 0,
           n # k, n # k + 2
    PROVE  k + 6 <= n
OBVIOUS

LEMMA TrialInv == ASSUME Inv, Trial PROVE Inv'
<1>1. /\ pc = "loop" /\ prime \in Nat /\ prime < Modulus /\ prime > 3
      /\ i \in Nat /\ i >= 5 /\ i % 6 = 5 /\ i <= prime
      /\ \A d \in 2..(i - 1) : ~Divides(d, prime)
      /\ Fits(prime) => i * i < Modulus
      /\ Modulus \in Nat /\ Modulus > 25
  BY ModulusAssumption DEF Inv, TypeOK, Word, TrialInvariant, NotWrapped, Trial
<1>2. i * i \in Nat /\ i * i >= 5 * i
  BY <1>1
<1>3. i * i < Modulus => (InLoop <=> i * i <= prime)
  BY <1>1, <1>2, NoWrap DEF InLoop
<1>4. i + 2 <= prime => (Hit <=> prime % i = 0 \/ prime % (i + 2) = 0)
  BY <1>1, NoWrap DEF Hit
<1>5. CASE ~InLoop /\ Return(TRUE) /\ i' = i
  <2>1. SUFFICES Prime(prime)
    BY <1>1, <1>5, ReturnInv
  <2>2. SUFFICES ASSUME ~Prime(prime) PROVE FALSE
    OBVIOUS
  <2>3. PICK e \in 2..(prime - 1) : e * e <= prime /\ prime % e = 0
    BY <1>1, <2>2, SmallDivisor
  <2>4. i * i > prime
    BY <1>1, <1>2, <1>3, <1>5
  <2>5. e < i
    <3>1. SUFFICES ASSUME e >= i PROVE FALSE
      BY <1>1
    <3>2. e * e >= i * i
      BY <1>1, <3>1
    <3> QED BY <1>1, <2>3, <2>4, <3>2
  <2>6. ~Divides(e, prime)
    BY <1>1, <2>5
  <2> QED BY <1>1, <2>3, <2>6, DividesIsMod
<1>6. CASE InLoop /\ Hit /\ Return(FALSE) /\ i' = i
  <2>1. SUFFICES ASSUME Fits(prime) PROVE ~Prime(prime)
    BY <1>1, <1>6, ReturnInv
  <2>2. i * i <= prime
    BY <1>1, <1>3, <1>6, <2>1
  <2>3. i \in 2..(prime - 1) /\ i + 2 \in 2..(prime - 1)
    BY <1>1, <1>2, <2>2
  <2>4. Divides(i, prime) \/ Divides(i + 2, prime)
    BY <1>1, <1>4, <1>6, <2>3, DividesIsMod
  <2> QED BY <2>3, <2>4 DEF Prime
<1>7. CASE InLoop /\ ~Hit /\ i' = (i + 6) % Modulus
           /\ UNCHANGED <<args, n1, prime, results, pc>>
  <2>1. prime % 2 # 0 /\ prime % 3 # 0
    <3>1. ~Divides(2, prime) /\ ~Divides(3, prime)
      BY <1>1
    <3> QED BY <1>1, <3>1, DividesIsMod, 2 \in Nat \ {0}, 3 \in Nat \ {0}
  <2>2. prime # i
    <3>1. prime % prime = 0
      BY <1>1, ModOfItself
    <3> QED BY <1>7, <3>1 DEF Hit
  <2>3. prime # i + 2
    <3>1. prime % prime = 0
      BY <1>1, ModOfItself
    <3> QED BY <1>1, <1>4, <1>7, <3>1
  <2>4. i + 6 <= prime
    BY <1>1, <2>1, <2>2, <2>3, NextBelow
  <2>5. i' = i + 6 /\ i' % 6 = 5 /\ i' \in Word
    BY <1>1, <1>7, <2>4, NoWrap DEF Word
  <2>6. \A d \in 2..((i + 6) - 1) : ~Divides(d, prime)
    <3>1. prime % i # 0 /\ prime % (i + 2) # 0
      BY <1>1, <1>4, <1>7, <2>4
    <3>2. prime \in Nat \ {0} /\ \A d \in 2..(i - 1) : ~Divides(d, prime)
      BY <1>1
    <3> QED BY <1>1, <3>1, <3>2, NextTrial
  <2>7. TrialInvariant'
    BY <1>1, <1>7, <2>4, <2>5, <2>6 DEF TrialInvariant
  <2>8. NotWrapped'
    <3>1. SUFFICES ASSUME Fits(prime) PROVE i' * i' < Modulus
      BY <1>1, <1>7, <2>5 DEF NotWrapped, Fits
    <3>2. i \in TrialDivisors(prime)
      BY <1>1, <1>3, <1>7, <3>1 DEF TrialDivisors
    <3> QED BY <2>5, <3>1, <3>2 DEF Fits
  <2>9. TypeOK'
    BY <1>1, <1>7, <2>5 DEF Inv, TypeOK
  <2>10. UNCHANGED <<start, n2>>
    BY <1>7 DEF start, n2
  <2>11. Position' /\ Visited' = Visited
    BY <1>1, <1>7, <2>10 DEF Inv, Position, Visited
  <2>12. Sound' /\ Complete'
    BY <1>7, <2>10, <2>11 DEF Inv, Sound, Complete
  <2> QED BY <2>7, <2>8, <2>9, <2>11, <2>12 DEF Inv
<1> QED BY <1>5, <1>6, <1>7 DEF Trial

LEMMA StutterInv == ASSUME Inv, UNCHANGED vars PROVE Inv'
BY DEF vars, Inv, TypeOK, TrialInvariant, NotWrapped, Fits, Position, Sound, Complete,
       Visited, start, n2

LEMMA NextInv == ASSUME Inv, [Next]_vars PROVE Inv'
BY ReserveInv, NextNumberInv, ScreenInv, TrialInv, StutterInv DEF Next, Terminated

LEMMA Invariance == Spec => []Inv
<1>1. Init => Inv
  BY InitInv
<1>2. Inv /\ [Next]_vars => Inv'
  BY NextInv
<1> QED BY <1>1, <1>2, PTL DEF Spec

----------------------------------------------------------------------------

\* Type correctness of primes.cpp.
THEOREM TypeCorrect == Spec => []TypeOK
<1>1. Inv => TypeOK
  BY DEF Inv
<1> QED BY <1>1, Invariance, PTL

\* The loop of is_prime never lets its index pass the candidate, whatever word
\* that is and however often the square wraps, and it skips no divisor.
THEOREM LoopCorrect == Spec => []TrialInvariant
<1>1. Inv => TrialInvariant
  BY DEF Inv
<1> QED BY <1>1, Invariance, PTL

\* The vector holds only primes, and all those among the numbers tested whose
\* squares fit.
THEOREM SearchExact == Spec => []ResultsExact
<1>1. Inv => ResultsExact
  BY DEF Inv, Sound, Complete, ResultsExact
<1> QED BY <1>1, Invariance, PTL

----------------------------------------------------------------------------
\* Order and refinement: only Return changes the results.

LEMMA ReturnShape ==
    ASSUME Inv, [Next]_vars
    PROVE  \/ results' = results
           \/ /\ results' = Append(results, prime)
              /\ pc \in {"is_prime", "loop"} /\ pc' = "while"
              /\ UNCHANGED args
BY DEF Next, Reserve, NextNumber, Screen, Trial, Return, Terminated, vars

LEMMA ArgsKept == ASSUME [Next]_vars PROVE UNCHANGED <<args, start, n2>>
<1>1. UNCHANGED args
  BY DEF Next, Reserve, NextNumber, Screen, Trial, Return, Terminated, vars
<1> QED BY <1>1 DEF start, n2

LEMMA AscendingStep == ASSUME Inv, Ascending, [Next]_vars PROVE Ascending'
<1>1. SUFFICES ASSUME n2 # LastWord, Increasing(results) PROVE Increasing(results')
  BY ArgsKept DEF Ascending
<1>2. CASE results' = results
  BY <1>1, <1>2
<1>3. CASE results' = Append(results, prime) /\ pc \in {"is_prime", "loop"}
  <2>1. prime \in Nat /\ results \in Seq(Nat) /\ start \in Nat
    BY ArgsType, ModulusAssumption DEF Inv, TypeOK, Word
  <2>2. ASSUME NEW k \in 1..Len(results) PROVE results[k] < prime
    <3>1. results[k] \in ToSet(results)
      BY <2>1 DEF ToSet
    <3>2. results[k] \in start..(prime - 1)
      BY <1>1, <1>3, <3>1 DEF Inv, Sound, Visited
    <3> QED BY <2>1, <3>2
  <2>3. ASSUME NEW j \in 1..(Len(results) + 1), NEW k \in 1..(Len(results) + 1), j < k
        PROVE  results'[j] < results'[k]
    <3>1. CASE k \in 1..Len(results)
      BY <1>1, <1>3, <2>1, <2>3, <3>1 DEF Increasing
    <3>2. CASE k = Len(results) + 1
      BY <1>3, <2>1, <2>2, <2>3, <3>2
    <3> QED BY <2>1, <3>1, <3>2
  <2> QED BY <1>3, <2>1, <2>3 DEF Increasing
<1> QED BY <1>2, <1>3, ReturnShape

\* The primes are printed in increasing order, each once.
THEOREM PrintedInOrder == Spec => []Ascending
<1>1. Init => Ascending
  BY DEF Init, Ascending, Increasing
<1>2. Inv /\ Ascending /\ [Next]_vars => Ascending'
  BY AscendingStep
<1> QED BY <1>1, <1>2, Invariance, PTL DEF Spec

found == IF Covered THEN ToSet(results) ELSE {}

status ==
    CASE Covered /\ pc = "done" -> "finished"
      [] Covered /\ pc = "aborted" -> "aborted"
      [] OTHER -> "running"

\* On a range the program can cover, memory suffices: only the reservation
\* aborts it, and all primes of the range fit.
LEMMA SearchStep ==
    ASSUME Inv, Inv', [Next]_vars
    PROVE  [Search!Next]_<<Wanted, found, status>>
<1>1. /\ UNCHANGED <<args, start, n2>>
      /\ Covered' = Covered /\ Wanted' = Wanted
  BY ArgsKept DEF Covered, Fits, Wanted
<1>2. CASE ~Covered
  BY <1>1, <1>2 DEF found, status
<1> SUFFICES ASSUME Covered PROVE [Search!Next]_<<Wanted, found, status>>
  BY <1>2
<1>3. /\ start \in Nat /\ n2 \in Nat /\ n2 # LastWord /\ LastWord \in Nat /\ n2 - start < Memory
      /\ found = ToSet(results) /\ found' = ToSet(results')
      /\ prime \in Word /\ results \in Seq(Word) /\ Word \subseteq Nat
  BY <1>1, ArgsType DEF Inv, TypeOK, Word, Covered, found
<1>4. CASE Reserve
  <2>1. pc = "reserve" /\ pc' \in {"while", "aborted"} /\ results' = results
    BY <1>4 DEF Reserve
  <2>2. found = {}
    BY <1>3, <2>1 DEF Inv, Position, ToSet
  <2> QED BY <1>1, <1>3, <2>1, <2>2 DEF status, Search!Next, Search!GiveUp
<1>5. CASE NextNumber
  <2>1. pc = "while" /\ pc' \in {"is_prime", "done"} /\ results' = results
    BY <1>5 DEF NextNumber
  <2>2. CASE pc' = "is_prime"
    BY <1>1, <1>3, <2>1, <2>2 DEF status
  <2>3. CASE pc' = "done"
    <3>1. Visited' = start..n2
      BY <1>1, <2>3 DEF Visited
    <3>2. found' = Wanted'
      BY <1>1, <1>3, <2>3, <3>1 DEF Inv, Sound, Complete, Wanted, Covered
    <3> QED BY <1>1, <1>3, <2>1, <2>3, <3>2 DEF status, Search!Next, Search!Finish
  <2> QED BY <2>1, <2>2, <2>3
<1>6. CASE Screen \/ Trial
  <2>1. /\ pc \in {"is_prime", "loop"} /\ start <= prime /\ prime <= n2
        /\ Len(results) <= prime - start /\ Len(results) \in Nat
    <3>1. pc \in {"is_prime", "loop"}
      BY <1>6 DEF Screen, Trial
    <3> QED BY <1>3, <3>1 DEF Inv, Position
  <2>2. Len(results) < Memory
    BY <1>3, <2>1, MemoryAssumption
  <2>3. pc' \in {"while", "is_prime", "loop"}
    BY <1>6, <2>1, <2>2, MemoryAssumption DEF Screen, Trial, Return
  <2>4. status = "running" /\ status' = "running"
    BY <1>1, <2>1, <2>3 DEF status
  <2>5. CASE results' = results
    BY <1>1, <1>3, <2>4, <2>5
  <2>6. CASE results' = Append(results, prime) /\ pc' = "while"
    <3>1. found' = found \union {prime}
      BY <1>3, <2>6, ToSetOfAppend
    <3>2. prime \in start..n2
      BY <1>3, <2>1
    <3>3. Visited \subseteq start..n2
      BY <1>3, <2>1 DEF Visited
    <3>4. Prime(prime)
      BY <1>3, <3>1 DEF Inv, Sound
    <3>5. found \subseteq Wanted
      BY <1>3, <3>3 DEF Inv, Sound, Wanted
    <3>6. found' \subseteq Wanted'
      BY <1>1, <3>1, <3>2, <3>4, <3>5 DEF Wanted
    <3>7. Search!Find \/ found' = found
      BY <1>1, <2>4, <3>1, <3>6 DEF Search!Find, found, status
    <3> QED BY <1>1, <2>4, <3>7 DEF Search!Next
  <2> QED BY <2>5, <2>6, ReturnShape
<1>7. CASE Terminated \/ UNCHANGED vars
  BY <1>1, <1>3, <1>7 DEF Terminated, vars, status
<1> QED BY <1>4, <1>5, <1>6, <1>7 DEF Next

\* The sequential program implements the abstract prime search on every range
\* it can cover.
THEOREM ImplementsSearch == Spec => SearchSpec
<1>1. Init => Search!Init
  BY DEF Init, Search!Init, ToSet
<1>2. Inv /\ Inv' /\ [Next]_vars => [Search!Next]_<<Wanted, found, status>>
  BY SearchStep
<1> QED BY <1>1, <1>2, Invariance, PTL DEF Spec, SearchSpec, Search!Spec, Wanted, found, status

----------------------------------------------------------------------------
\* The searches over a parallel loop. PF is their module, over variables of its
\* own.

CONSTANT CommandLines

VARIABLES cmd, main, R, at, merged, share, undealt, last

PF == INSTANCE ParallelSearch WITH i <- at, results <- merged

\* What ParallelSearch takes from elsewhere is what this module takes.
LEMMA SameNotions ==
    ASSUME NEW n
    PROVE  /\ PF!Prime(n) = Prime(n) /\ PF!is_prime(n) = is_prime(n)
           /\ PF!ToSet(n) = ToSet(n) /\ PF!Cardinality(n) = Cardinality(n)
<1>1. PF!Prime(n) = Prime(n)
  BY Zenon DEF PF!Prime, Prime, PF!Divides, Divides
<1>2. PF!is_prime(n) = is_prime(n)
  BY Zenon DEF PF!is_prime, is_prime, PF!TrialDivisors, TrialDivisors
<1>3. PF!ToSet(n) = ToSet(n)
  BY DEF PF!ToSet, ToSet
<1>4. PF!Cardinality(n) = Cardinality(n)
  BY DEF PF!Cardinality, Cardinality, PF!IsFiniteSet, IsFiniteSet
<1> QED BY <1>1, <1>2, <1>3, <1>4

\* Sequences: what ++ and FlattenSeq make of increasing vectors in order.

LEMMA ConcatIncreasing ==
    ASSUME NEW s \in Seq(Nat), NEW t \in Seq(Nat),
           Increasing(s), Increasing(t),
           \A m \in ToSet(s), n \in ToSet(t) : m < n
    PROVE  /\ s \o t \in Seq(Nat)
           /\ Increasing(s \o t)
           /\ ToSet(s \o t) = ToSet(s) \union ToSet(t)
<1> DEFINE u == s \o t
<1>1. /\ u \in Seq(Nat) /\ Len(u) = Len(s) + Len(t)
      /\ Len(s) \in Nat /\ Len(t) \in Nat
      /\ DOMAIN s = 1..Len(s) /\ DOMAIN t = 1..Len(t) /\ DOMAIN u = 1..(Len(s) + Len(t))
      /\ \A k \in 1..Len(s) : u[k] = s[k] /\ s[k] \in Nat
      /\ \A k \in 1..Len(t) : t[k] \in Nat
  OBVIOUS
<1>2. \A k \in 1..Len(t) : u[Len(s) + k] = t[k] /\ Len(s) + k \in DOMAIN u
  BY <1>1
<1>3. \A k \in DOMAIN u : k \notin 1..Len(s) => k - Len(s) \in 1..Len(t) /\ u[k] = t[k - Len(s)]
  BY <1>1
<1> HIDE DEF u
<1>4. \A k \in 1..Len(s) : s[k] \in ToSet(s) /\ s[k] \in Nat
  BY <1>1 DEF ToSet
<1>5. \A k \in 1..Len(t) : t[k] \in ToSet(t) /\ t[k] \in Nat
  BY <1>1 DEF ToSet
<1>6. ASSUME NEW j \in DOMAIN u, NEW k \in DOMAIN u, j < k PROVE u[j] < u[k]
  <2>1. CASE k \in 1..Len(s)
    <3>1. j \in 1..Len(s)
      BY <1>1, <1>6, <2>1
    <3> QED BY <1>1, <1>6, <2>1, <3>1 DEF Increasing
  <2>2. CASE k \notin 1..Len(s) /\ j \in 1..Len(s)
    BY <1>1, <1>3, <1>4, <1>5, <2>2
  <2>3. CASE k \notin 1..Len(s) /\ j \notin 1..Len(s)
    <3>1. j - Len(s) \in DOMAIN t /\ k - Len(s) \in DOMAIN t /\ j - Len(s) < k - Len(s)
      BY <1>1, <1>3, <1>6, <2>3
    <3> QED BY <1>3, <2>3, <3>1 DEF Increasing
  <2> QED BY <2>1, <2>2, <2>3
<1>7. ToSet(u) \subseteq ToSet(s) \union ToSet(t)
  BY <1>1, <1>3 DEF ToSet
<1>8. ToSet(s) \subseteq ToSet(u)
  BY <1>1 DEF ToSet
<1>9. ToSet(t) \subseteq ToSet(u)
  BY <1>1, <1>2 DEF ToSet
<1> QED BY <1>1, <1>6, <1>7, <1>8, <1>9 DEF u, Increasing

\* The first k of the vectors s, one after the other. The function exists for
\* every k, because there is no least k for which it does not.
Flattens(f, s, k) == f = [j \in 1..k |-> IF j = 1 THEN s[j] ELSE f[j - 1] \o s[j]]

LEMMA FlattenExists ==
    ASSUME NEW s, NEW n \in Nat
    PROVE  \E f : Flattens(f, s, n)
<1> DEFINE T == {k \in Nat : ~\E f : Flattens(f, s, k)}
<1>1. SUFFICES ASSUME T # {} PROVE FALSE
  OBVIOUS
<1>2. PICK k \in T : \A j \in T : k <= j
  <2>1. T \subseteq Nat
    OBVIOUS
  <2> HIDE DEF T
  <2> QED BY <1>1, <2>1, LeastNumber
<1>3. k # 0
  <2>1. Flattens([j \in 1..0 |-> s[j]], s, 0)
    BY DEF Flattens
  <2> QED BY <2>1
<1>4. PICK f : Flattens(f, s, k - 1)
  <2>1. k - 1 \in Nat /\ ~(k <= k - 1)
    BY <1>3
  <2> QED BY <1>2, <2>1
<1> DEFINE g == [j \in 1..k |-> IF j = k THEN (IF j = 1 THEN s[j] ELSE f[j - 1] \o s[j])
                                ELSE f[j]]
<1>5. \A j \in 1..(k - 1) : g[j] = f[j]
  BY <1>3
<1>6. ASSUME NEW j \in 1..k PROVE g[j] = IF j = 1 THEN s[j] ELSE g[j - 1] \o s[j]
  <2>1. CASE j = k
    BY <1>3, <1>5, <2>1
  <2>2. CASE j # k
    <3>1. j \in 1..(k - 1) /\ (j # 1 => j - 1 \in 1..(k - 1))
      BY <1>3, <2>2
    <3>2. f[j] = IF j = 1 THEN s[j] ELSE f[j - 1] \o s[j]
      BY <1>4, <3>1 DEF Flattens
    <3> QED BY <1>5, <3>1, <3>2
  <2> QED BY <2>1, <2>2
<1>7. Flattens(g, s, k)
  BY <1>6 DEF Flattens
<1> QED BY <1>2, <1>7

LEMMA FlattenIncreasing ==
    ASSUME NEW n \in Nat \ {0}, NEW s \in [1..n -> Seq(Nat)],
           \A k \in 1..n : Increasing(s[k]),
           \A j, k \in 1..n : j < k => \A a \in ToSet(s[j]), b \in ToSet(s[k]) : a < b
    PROVE  LET t == PF!FlattenSeq(s)
           IN  /\ t \in Seq(Nat) /\ Increasing(t)
               /\ ToSet(t) = UNION {ToSet(s[k]) : k \in 1..n}
<1> DEFINE f == CHOOSE g : Flattens(g, s, n)
<1>1. Len(s) = n
  OBVIOUS
<1>2. PF!FlattenSeq(s) = f[n]
  BY <1>1 DEF PF!FlattenSeq, Flattens
<1>3. Flattens(f, s, n)
  BY FlattenExists
<1> HIDE DEF f
<1>4. \A k \in 1..n : f[k] = IF k = 1 THEN s[k] ELSE f[k - 1] \o s[k]
  BY <1>3 DEF Flattens
<1> DEFINE Good(k) == /\ f[k] \in Seq(Nat) /\ Increasing(f[k])
                      /\ ToSet(f[k]) = UNION {ToSet(s[j]) : j \in 1..k}
           T == {k \in 1..n : ~Good(k)}
<1>5. ASSUME T # {} PROVE FALSE
  <2>1. PICK k \in T : \A j \in T : k <= j
    <3>1. T \subseteq Nat
      OBVIOUS
    <3> HIDE DEF T
    <3> QED BY <1>5, <3>1, LeastNumber
  <2>2. CASE k = 1
    <3>1. f[1] = s[1] /\ s[1] \in Seq(Nat) /\ Increasing(s[1])
      BY <1>4
    <3>2. UNION {ToSet(s[j]) : j \in 1..1} = ToSet(s[1])
      OBVIOUS
    <3> QED BY <2>1, <2>2, <3>1, <3>2
  <2>3. CASE k # 1
    <3>1. k - 1 \in 1..n /\ k \in 1..n /\ ~(k <= k - 1)
      BY <2>3
    <3>2. Good(k - 1)
      BY <2>1, <3>1
    <3>3. f[k] = f[k - 1] \o s[k] /\ s[k] \in Seq(Nat) /\ Increasing(s[k])
      BY <1>4, <2>3
    <3>4. \A a \in ToSet(f[k - 1]), b \in ToSet(s[k]) : a < b
      <4>1. SUFFICES ASSUME NEW a \in ToSet(f[k - 1]), NEW b \in ToSet(s[k]) PROVE a < b
        OBVIOUS
      <4>2. PICK j \in 1..(k - 1) : a \in ToSet(s[j])
        BY <3>2
      <4>3. j \in 1..n /\ j < k
        BY <3>1
      <4> QED BY <3>1, <4>2, <4>3
    <3>5. /\ f[k] \in Seq(Nat) /\ Increasing(f[k])
          /\ ToSet(f[k]) = ToSet(f[k - 1]) \union ToSet(s[k])
      BY <3>2, <3>3, <3>4, ConcatIncreasing
    <3>6. 1..k = (1..(k - 1)) \union {k}
      BY <3>1
    <3>7. Good(k)
      BY <3>2, <3>5, <3>6
    <3> QED BY <3>7
  <2> QED BY <2>2, <2>3
<1>6. Good(n)
  <2>1. n \in 1..n
    OBVIOUS
  <2> QED BY <1>5, <2>1
<1> QED BY <1>2, <1>6

\* std::sort of numbers that differ: every place is taken, and what it makes of
\* them is increasing.
LEMMA SortedIncreasing ==
    ASSUME NEW s \in Seq(Nat), IsInjective(s)
    PROVE  LET t == PF!Sorted(s)
           IN  /\ t \in Seq(Nat) /\ Increasing(t) /\ ToSet(t) = ToSet(s)
<1> DEFINE n == Len(s)
           S == ToSet(s)
           v == InOrder(S)
           Before(j) == {l \in DOMAIN s : s[l] < s[j] \/ (s[l] = s[j] /\ l <= j)}
<1>1. n \in Nat /\ DOMAIN s = 1..n /\ S \subseteq Nat /\ \A k \in 1..n : s[k] \in S
  <2>1. DOMAIN s = 1..n /\ n \in Nat /\ \A k \in 1..n : s[k] \in Nat
    OBVIOUS
  <2> QED BY <2>1 DEF ToSet
<1>2. IsFiniteSet(S) /\ Cardinality(S) = n
  <2>1. s \in Bijection(1..n, S)
    BY <1>1 DEF Bijection, Injection, Surjection, IsInjective, ToSet
  <2>2. ExistsBijection(1..n, S)
    BY <2>1 DEF ExistsBijection
  <2> QED BY <1>1, <2>2, FS_NatBijection, FS_CountingElements
<1>3. /\ v \in [1..n -> S] /\ Increasing(v) /\ {v[k] : k \in 1..n} = S
      /\ \A k \in 1..n : v[k] = CHOOSE m \in S : Rank(m, S) = k
  <2>1. S \subseteq Int
    BY <1>1
  <2> HIDE DEF S
  <2>2. \A k \in 1..n : v[k] = CHOOSE m \in S : Rank(m, S) = k
    BY <1>2 DEF InOrder
  <2> QED BY <1>2, <2>1, <2>2, InOrderProperties
<1> HIDE DEF v
<1>4. ASSUME NEW j \in 1..n PROVE PF!Cardinality(Before(j)) = Rank(s[j], S)
  <2> DEFINE B == Before(j)
             M == {m \in S : m <= s[j]}
             f == [l \in B |-> s[l]]
  <2>1. B = {l \in 1..n : s[l] <= s[j]}
    <3>1. \A l \in 1..n : s[l] = s[j] => l = j
      BY <1>1 DEF IsInjective
    <3>2. \A l \in 1..n : s[l] \in Nat
      BY <1>1
    <3> QED BY <1>1, <3>1, <3>2
  <2> HIDE DEF Before
  <2>2. IsFiniteSet(B)
    <3>1. IsFiniteSet(1..n) /\ B \subseteq 1..n
      BY <1>1, <2>1, FS_Interval
    <3> QED BY <3>1, FS_Subset
  <2>3. \A l \in B : f[l] \in M
    BY <1>1, <2>1
  <2>4. \A k, l \in B : f[k] = f[l] => k = l
    BY <1>1, <2>1 DEF IsInjective
  <2>5. \A m \in M : \E l \in B : f[l] = m
    BY <1>1, <2>1 DEF ToSet
  <2>6. f \in Bijection(B, M)
    <3> HIDE DEF B, M
    <3> QED BY <2>3, <2>4, <2>5 DEF Bijection, Injection, Surjection, IsInjective
  <2>7. ExistsBijection(B, M)
    BY <2>6 DEF ExistsBijection
  <2>8. Cardinality(M) = Cardinality(B)
    <3> HIDE DEF B, M
    <3> QED BY <2>2, <2>7, FS_Bijection
  <2>9. PF!Cardinality(Before(j)) = Cardinality(Before(j))
    BY SameNotions
  <2> QED BY <2>8, <2>9 DEF Rank
<1> DEFINE place(k) == CHOOSE j \in DOMAIN s : PF!Cardinality(Before(j)) = k
<1>5. ASSUME NEW k \in 1..n PROVE s[place(k)] = v[k]
  <2>1. PICK m \in S : Rank(m, S) = k
    <3>1. S \subseteq Int /\ k \in 1..Cardinality(S)
      BY <1>1, <1>2
    <3> QED BY <1>2, <3>1, EveryRankTaken
  <2>2. PICK j \in 1..n : s[j] = m
    BY <1>1 DEF ToSet
  <2>3. PF!Cardinality(Before(j)) = k /\ j \in DOMAIN s
    BY <1>1, <1>4, <2>1, <2>2
  <2> HIDE DEF Before
  <2>4. place(k) \in DOMAIN s /\ PF!Cardinality(Before(place(k))) = k
    BY <2>3
  <2>5. s[place(k)] \in S /\ Rank(s[place(k)], S) = k
    BY <1>1, <1>4, <2>4
  <2>6. v[k] \in S /\ Rank(v[k], S) = k
    BY <1>3, <2>1
  <2>7. ASSUME NEW a \in S, NEW b \in S, Rank(a, S) = k, Rank(b, S) = k PROVE a = b
    <3>1. S \subseteq Int /\ a \in Int /\ b \in Int /\ k \in Int
      BY <1>1
    <3>2. ~(a < b) /\ ~(b < a)
      <4> HIDE DEF S
      <4>1. a < b => Rank(a, S) < Rank(b, S)
        BY <1>2, <3>1, RankProperties
      <4>2. b < a => Rank(b, S) < Rank(a, S)
        BY <1>2, <3>1, RankProperties
      <4> QED BY <2>7, <3>1, <4>1, <4>2
    <3> QED BY <3>1, <3>2
  <2> QED BY <2>5, <2>6, <2>7
<1>6. PF!Sorted(s) = v
  <2>1. PF!Sorted(s) = [k \in DOMAIN s |-> s[place(k)]]
    BY DEF PF!Sorted
  <2> HIDE DEF place
  <2> QED BY <1>1, <1>3, <1>5, <2>1
<1>7. v \in Seq(Nat) /\ DOMAIN v = 1..n /\ ToSet(v) = S
  <2>1. v \in [1..n -> Nat] /\ DOMAIN v = 1..n
    BY <1>1, <1>3
  <2>2. v \in Seq(Nat)
    BY <1>1, <2>1
  <2> QED BY <1>3, <2>1, <2>2 DEF ToSet
<1> QED BY <1>3, <1>6, <1>7

----------------------------------------------------------------------------
\* The invariant.

Members == 0..(PF!nworkers - 1)

\* The numbers nobody has yet, those left to thread w, and what it holds: the
\* primes it has found and what is left to it.
Todo == undealt..(last - 1)
Left(w) == share[w].from..(share[w].to - 1)
Held(w) == ToSet(R[w]) \union Left(w)

ArgsOK ==
    /\ Len(PF!args) >= 3 /\ PF!args \in Seq(Nat)
    /\ PF!n1 \in Nat /\ PF!n2 \in Nat /\ PF!LoopEnd \in Nat
    /\ PF!nworkers \in Nat \ {0} /\ PF!chunk \in Nat

LoopType ==
    /\ R \in [Members -> Seq(Nat)]
    /\ share \in [Members -> [from : Nat, to : Nat]]
    /\ undealt \in Nat /\ last \in Nat

\* What is left to a thread lies below what is still to be dealt out.
InBounds ==
    /\ last = IF PF!LoopEnd < PF!n1 THEN PF!n1 ELSE PF!LoopEnd
    /\ PF!n1 <= undealt /\ undealt <= last
    /\ PF!chunk = 0 => undealt = last
    /\ \A w \in Members : /\ PF!n1 <= share[w].from
                          /\ share[w].from <= share[w].to
                          /\ share[w].to <= undealt

\* A vector is filled in order, with primes of the range that the thread has
\* passed.
Collected ==
    \A w \in Members :
        /\ Increasing(R[w])
        /\ \A n \in ToSet(R[w]) : PF!n1 <= n /\ n < share[w].from /\ Prime(n)

\* No prime of the range is lost, and no number is held twice.
NoneLost ==
    \A n \in PF!n1..(last - 1) : Prime(n) => n \in Todo \/ \E w \in Members : n \in Held(w)

NoneTwice ==
    \A v, w \in Members : v # w => Held(v) \intersect Held(w) = {}

\* With even shares the threads hold one part of the range after the other.
SharesInOrder ==
    PF!chunk = 0 =>
        \A v, w \in Members : v < w => \A m \in Held(v), n \in Held(w) : m < n

LoopInv == ArgsOK /\ LoopType /\ InBounds /\ Collected /\ NoneLost /\ NoneTwice /\ SharesInOrder

\* One of the first k threads has found nothing, one before it has.
Gap(k) == \E v, w \in 0..(k - 1) : v < w /\ R[v] # <<>> /\ R[w] = <<>>

Found == UNION {ToSet(R[w]) : w \in DOMAIN R}

MergeInv ==
    /\ at \in 0..PF!nworkers
    /\ merged \in Seq(Nat) /\ IsInjective(merged)
    /\ ToSet(merged) = UNION {ToSet(R[w]) : w \in 0..(at - 1)}
    /\ ~Gap(at)

ExitInv ==
    ~PF!IsMy => /\ merged \in Seq(Nat) /\ Increasing(merged)
                /\ ToSet(merged) = Found
                /\ ~Gap(PF!nworkers)

ParInv ==
    /\ cmd \in CommandLines
    /\ main \in {"parse", "usage", "aborted", "loop", "merge", "exit", "crashed"}
    /\ main \in {"parse", "usage", "aborted"} => R = <<>>
    /\ main \in {"parse", "loop"} => at = 0 /\ merged = <<>>
    /\ main \in {"loop", "merge", "exit", "crashed"} => LoopInv
    /\ main \in {"merge", "exit", "crashed"} => PF!LoopDone
    /\ main \in {"merge", "crashed"} => ~PF!IsMy
    /\ main = "merge" => MergeInv
    /\ main = "exit" => ExitInv
    /\ main = "crashed" => Gap(PF!nworkers)

LEMMA ParArgsType ==
    ASSUME PF!CommandLinesAssumption, cmd \in CommandLines, Len(PF!args) >= 3
    PROVE  ArgsOK
<1>1. PF!args \in Seq(Nat) /\ PF!args[3] >= 1
  BY DEF PF!CommandLinesAssumption, PF!args
<1>2. /\ PF!args[1] \in Nat /\ PF!args[2] \in Nat /\ PF!args[3] \in Nat
      /\ Len(PF!args) >= 4 => PF!args[4] \in Nat
  BY <1>1
<1>3. PF!chunk \in Nat
  BY <1>2 DEF PF!chunk
<1>4. PF!LoopEnd \in Nat
  BY <1>2 DEF PF!LoopEnd, PF!n2
<1> QED BY <1>1, <1>2, <1>3, <1>4 DEF ArgsOK, PF!n1, PF!n2, PF!nworkers

\* The command line does not change.
LEMMA SameArgs ==
    ASSUME cmd' = cmd
    PROVE  /\ PF!args' = PF!args /\ PF!n1' = PF!n1 /\ PF!n2' = PF!n2
           /\ PF!nworkers' = PF!nworkers /\ PF!IsMy' = PF!IsMy
           /\ PF!LoopEnd' = PF!LoopEnd /\ PF!chunk' = PF!chunk
           /\ Members' = Members /\ PF!Wanted' = PF!Wanted
BY DEF PF!args, PF!n1, PF!n2, PF!nworkers, PF!IsMy, PF!LoopEnd, PF!chunk, Members, PF!Wanted

\* What a thread holds is in the part of the range that has been dealt out.
LEMMA HeldBelow ==
    ASSUME LoopInv, NEW w \in Members, NEW m \in Held(w)
    PROVE  m \in Nat /\ PF!n1 <= m /\ m < undealt /\ m < share[w].to
<1>1. /\ R[w] \in Seq(Nat) /\ share[w].from \in Nat /\ share[w].to \in Nat
      /\ undealt \in Nat /\ PF!n1 \in Nat
  BY DEF LoopInv, LoopType, ArgsOK
<1>2. PF!n1 <= share[w].from /\ share[w].from <= share[w].to /\ share[w].to <= undealt
  BY DEF LoopInv, InBounds
<1>3. CASE m \in ToSet(R[w])
  <2>1. m \in Nat
    BY <1>1, <1>3, ToSetOfSeq
  <2>2. PF!n1 <= m /\ m < share[w].from
    BY <1>3 DEF LoopInv, Collected
  <2> QED BY <1>1, <1>2, <2>1, <2>2
<1>4. CASE m \in Left(w)
  BY <1>1, <1>2, <1>4 DEF Left
<1> QED BY <1>3, <1>4 DEF Held

LEMMA AppendIncreasing ==
    ASSUME NEW s \in Seq(Nat), NEW m \in Nat, Increasing(s), \A n \in ToSet(s) : n < m
    PROVE  Increasing(Append(s, m))
<1>1. /\ Len(s) \in Nat /\ DOMAIN s = 1..Len(s) /\ DOMAIN Append(s, m) = 1..(Len(s) + 1)
      /\ \A k \in 1..Len(s) : Append(s, m)[k] = s[k]
      /\ Append(s, m)[Len(s) + 1] = m
  OBVIOUS
<1>2. \A k \in 1..Len(s) : s[k] < m
  BY <1>1 DEF ToSet
<1>3. ASSUME NEW j \in 1..(Len(s) + 1), NEW k \in 1..(Len(s) + 1), j < k
      PROVE  Append(s, m)[j] < Append(s, m)[k]
  <2>1. j \in 1..Len(s)
    BY <1>1, <1>3
  <2>2. CASE k = Len(s) + 1
    BY <1>1, <1>2, <2>1, <2>2
  <2>3. CASE k # Len(s) + 1
    <3>1. k \in 1..Len(s)
      BY <1>1, <2>3
    <3> QED BY <1>1, <1>3, <2>1, <3>1 DEF Increasing
  <2> QED BY <2>2, <2>3
<1> QED BY <1>1, <1>3 DEF Increasing

LEMMA ConcatAt ==
    ASSUME NEW s \in Seq(Nat), NEW t \in Seq(Nat)
    PROVE  /\ s \o t \in Seq(Nat) /\ Len(s \o t) = Len(s) + Len(t)
           /\ \A j \in 1..Len(s) : (s \o t)[j] = s[j]
           /\ \A j \in (Len(s) + 1)..(Len(s) + Len(t)) : (s \o t)[j] = t[j - Len(s)]
OBVIOUS

\* A vector inserted in another.
LEMMA InsertProperties ==
    ASSUME NEW s \in Seq(Nat), NEW t \in Seq(Nat), NEW k \in 0..Len(s),
           IsInjective(s), IsInjective(t), ToSet(s) \intersect ToSet(t) = {}
    PROVE  LET u == SubSeq(s, 1, k) \o t \o SubSeq(s, k + 1, Len(s))
           IN  /\ u \in Seq(Nat) /\ IsInjective(u)
               /\ ToSet(u) = ToSet(s) \union ToSet(t)
<1> DEFINE N == Len(s)
           L == Len(t)
           a == SubSeq(s, 1, k)
           b == SubSeq(s, k + 1, N)
           c == a \o t
           u == c \o b
<1>1. /\ N \in Nat /\ L \in Nat /\ k \in Nat /\ k <= N
      /\ DOMAIN s = 1..N /\ DOMAIN t = 1..L
  OBVIOUS
<1>2. /\ a \in Seq(Nat) /\ Len(a) = k /\ \A j \in 1..k : a[j] = s[j]
      /\ b \in Seq(Nat) /\ Len(b) = N - k /\ \A j \in 1..(N - k) : b[j] = s[j + k]
  OBVIOUS
<1> HIDE DEF a, b
<1>3. /\ c \in Seq(Nat) /\ Len(c) = k + L
      /\ \A j \in 1..k : c[j] = s[j]
      /\ \A j \in (k + 1)..(k + L) : c[j] = t[j - k]
  <2>1. /\ c \in Seq(Nat) /\ Len(c) = k + L
        /\ \A j \in 1..k : c[j] = a[j]
        /\ \A j \in (k + 1)..(k + L) : c[j] = t[j - k]
    BY <1>2, ConcatAt
  <2> QED BY <1>2, <2>1
<1> HIDE DEF c
<1>4. /\ u \in Seq(Nat) /\ Len(u) = k + L + (N - k)
      /\ \A j \in 1..(k + L) : u[j] = c[j]
      /\ \A j \in (k + L + 1)..(k + L + (N - k)) : u[j] = b[j - (k + L)]
  <2>1. /\ u \in Seq(Nat) /\ Len(u) = Len(c) + Len(b)
        /\ \A j \in 1..Len(c) : u[j] = c[j]
        /\ \A j \in (Len(c) + 1)..(Len(c) + Len(b)) : u[j] = b[j - Len(c)]
    BY <1>2, <1>3, ConcatAt
  <2> HIDE DEF u, L, N
  <2> QED BY <1>2, <1>3, <2>1
<1> HIDE DEF u
<1>5. u \in Seq(Nat) /\ Len(u) = N + L /\ DOMAIN u = 1..(N + L)
  BY <1>1, <1>4
<1> HIDE DEF N, L
<1>6. \A j \in 1..k : j \in 1..N /\ u[j] = s[j]
  <2>1. \A j \in 1..k : j \in 1..N /\ j \in 1..(k + L)
    BY <1>1
  <2> QED BY <1>3, <1>4, <2>1
<1>7. \A j \in (k + 1)..(k + L) : j - k \in 1..L /\ u[j] = t[j - k]
  <2>1. \A j \in (k + 1)..(k + L) : j - k \in 1..L /\ j \in 1..(k + L)
    BY <1>1
  <2> QED BY <1>3, <1>4, <2>1
<1>8. ASSUME NEW j \in (k + L + 1)..(N + L) PROVE j - L \in 1..N /\ u[j] = s[j - L]
  <2>1. j \in (k + L + 1)..(k + L + (N - k)) /\ j - (k + L) \in 1..(N - k)
    BY <1>1
  <2>2. (j - (k + L)) + k = j - L /\ j - L \in 1..N
    BY <1>1
  <2> QED BY <1>2, <1>4, <2>1, <2>2
<1>9. ASSUME NEW j \in 1..(N + L)
      PROVE  j \in 1..k \/ j \in (k + 1)..(k + L) \/ j \in (k + L + 1)..(N + L)
  BY <1>1
<1>10. /\ \A j \in 1..N : s[j] \in ToSet(s)
       /\ \A j \in 1..L : t[j] \in ToSet(t)
       /\ \A g, h \in 1..N : s[g] = s[h] => g = h
       /\ \A g, h \in 1..L : t[g] = t[h] => g = h
  BY <1>1 DEF ToSet, IsInjective
<1>11. ASSUME NEW g \in 1..(N + L), NEW h \in 1..(N + L), u[g] = u[h] PROVE g = h
  <2>1. \A x \in 1..N, y \in 1..L : s[x] # t[y]
    BY <1>10
  <2>2. CASE g \in (k + 1)..(k + L)
    <3>1. h \in (k + 1)..(k + L)
      <4>1. g - k \in 1..L /\ u[h] = t[g - k]
        BY <1>7, <1>11, <2>2
      <4>2. h \notin 1..k
        BY <1>6, <2>1, <4>1
      <4>3. h \notin (k + L + 1)..(N + L)
        BY <1>8, <2>1, <4>1
      <4> QED BY <1>9, <4>2, <4>3
    <3>2. g - k = h - k
      BY <1>7, <1>10, <1>11, <2>2, <3>1
    <3> QED BY <1>1, <3>2
  <2>3. CASE g \notin (k + 1)..(k + L)
    <3>1. h \notin (k + 1)..(k + L)
      <4>1. PICK x \in 1..N : u[g] = s[x]
        BY <1>6, <1>8, <1>9, <2>3
      <4> QED BY <1>7, <1>11, <2>1, <4>1
    <3> DEFINE G == IF g <= k THEN g ELSE g - L
               H == IF h <= k THEN h ELSE h - L
    <3>2. G \in 1..N /\ u[g] = s[G]
      BY <1>1, <1>6, <1>8, <1>9, <2>3
    <3>3. H \in 1..N /\ u[h] = s[H]
      BY <1>1, <1>6, <1>8, <1>9, <3>1
    <3>4. G = H
      <4> HIDE DEF G, H
      <4> QED BY <1>10, <1>11, <3>2, <3>3
    <3> QED BY <1>1, <1>9, <2>3, <3>1, <3>4
  <2> QED BY <2>2, <2>3
<1>12. ASSUME NEW j \in 1..(N + L) PROVE u[j] \in ToSet(s) \union ToSet(t)
  BY <1>6, <1>7, <1>8, <1>9, <1>10
<1>13. \A j \in 1..(N + L) : u[j] \in ToSet(u)
  BY <1>5 DEF ToSet
<1>14. ASSUME NEW j \in 1..N PROVE s[j] \in ToSet(u)
  <2>1. CASE j <= k
    <3>1. j \in 1..(N + L) /\ j \in 1..k
      BY <1>1, <2>1
    <3> QED BY <1>6, <1>13, <3>1
  <2>2. CASE j > k
    <3>1. j + L \in 1..(N + L) /\ j + L \in (k + L + 1)..(N + L) /\ (j + L) - L = j
      BY <1>1, <2>2
    <3> QED BY <1>8, <1>13, <3>1
  <2> QED BY <1>1, <2>1, <2>2
<1>15. ASSUME NEW j \in 1..L PROVE t[j] \in ToSet(u)
  <2>1. j + k \in 1..(N + L) /\ j + k \in (k + 1)..(k + L) /\ (j + k) - k = j
    BY <1>1
  <2> QED BY <1>7, <1>13, <2>1
<1>16. ToSet(u) = ToSet(s) \union ToSet(t)
  <2>1. ToSet(u) \subseteq ToSet(s) \union ToSet(t)
    BY <1>5, <1>12 DEF ToSet
  <2>2. ToSet(s) \subseteq ToSet(u)
    BY <1>1, <1>14 DEF ToSet
  <2>3. ToSet(t) \subseteq ToSet(u)
    BY <1>1, <1>15 DEF ToSet
  <2> QED BY <2>1, <2>2, <2>3
<1>17. IsInjective(u)
  BY <1>5, <1>11 DEF IsInjective
<1> QED BY <1>5, <1>16, <1>17 DEF u, c, a, b, N

----------------------------------------------------------------------------
\* Every step preserves the invariant.

LEMMA ParInitInv == ASSUME PF!Init PROVE ParInv
BY DEF PF!Init, ParInv

\* Nothing but the loop's own variables is in its invariant.
LEMMA LoopStutter ==
    ASSUME LoopInv, UNCHANGED <<cmd, R, share, undealt, last>>
    PROVE  LoopInv'
<1>1. UNCHANGED <<R, share, undealt, last>> /\ cmd' = cmd
  OBVIOUS
<1>2. ArgsOK' /\ LoopType' /\ InBounds'
  BY <1>1, SameArgs DEF LoopInv, ArgsOK, LoopType, InBounds
<1>3. Todo' = Todo /\ \A w : Left(w)' = Left(w) /\ Held(w)' = Held(w)
  BY <1>1 DEF Todo, Left, Held
<1>4. Collected' /\ NoneLost' /\ NoneTwice' /\ SharesInOrder'
  BY <1>1, <1>3, SameArgs DEF LoopInv, Collected, NoneLost, NoneTwice, SharesInOrder
<1> QED BY <1>2, <1>4 DEF LoopInv

\* However the iterations are dealt out, they tile the range.
LEMMA StartLoopInv ==
    ASSUME ArgsOK, cmd' = cmd, R' = [w \in Members |-> <<>>],
           PF!StartLoop(PF!nworkers, PF!n1, PF!LoopEnd, PF!chunk)
    PROVE  LoopInv'
<1> DEFINE n == PF!nworkers
           a == PF!n1
           b == IF PF!LoopEnd < PF!n1 THEN PF!n1 ELSE PF!LoopEnd
           cut(w) == PF!EvenStart(n, w, a, b)
<1>1. a \in Nat /\ b \in Nat /\ a <= b /\ n \in Nat \ {0}
  BY DEF ArgsOK
<1>2. /\ share' = [w \in Members |-> IF PF!chunk = 0
                                     THEN [from |-> cut(w), to |-> cut(w + 1)]
                                     ELSE [from |-> a, to |-> a]]
      /\ undealt' = IF PF!chunk = 0 THEN b ELSE a
      /\ last' = b
  BY DEF PF!StartLoop, Members
<1>3. /\ \A w \in 0..n : cut(w) \in a..b
      /\ \A v, w \in 0..n : v <= w => cut(v) <= cut(w)
      /\ \A m \in a..(b - 1) : \E w \in 0..(n - 1) : cut(w) <= m /\ m < cut(w + 1)
  <2>1. \A w : cut(w) = a + w * ((b - a) \div n)
                          + (IF w <= (b - a) % n THEN w ELSE (b - a) % n)
    BY DEF PF!EvenStart, PF!Least
  <2> HIDE DEF a, b, n, cut
  <2> QED BY <1>1, <2>1, EvenShares
<1> HIDE DEF b, cut
<1>4. \A w \in Members : w \in 0..n /\ w + 1 \in 0..n /\ w \in Nat
  BY <1>1 DEF Members
<1>5. ASSUME NEW w \in Members
      PROVE  /\ PF!chunk = 0 => share'[w].from = cut(w) /\ share'[w].to = cut(w + 1)
             /\ PF!chunk # 0 => share'[w].from = a /\ share'[w].to = a
             /\ share'[w] \in [from : Nat, to : Nat]
             /\ R'[w] = <<>>
             /\ a <= share'[w].from /\ share'[w].from <= share'[w].to
             /\ share'[w].to <= undealt'
  <2>1. CASE PF!chunk = 0
    <3>1. share'[w] = [from |-> cut(w), to |-> cut(w + 1)] /\ undealt' = b
      BY <1>2, <2>1
    <3>2. cut(w) \in a..b /\ cut(w + 1) \in a..b /\ cut(w) <= cut(w + 1)
      BY <1>3, <1>4
    <3> QED BY <1>1, <2>1, <3>1, <3>2
  <2>2. CASE PF!chunk # 0
    BY <1>1, <1>2, <2>2
  <2> QED BY <2>1, <2>2
<1>6. ArgsOK'
  BY SameArgs DEF ArgsOK
<1>7. LoopType'
  BY <1>1, <1>2, <1>5, SameArgs DEF LoopType
<1>8. InBounds'
  <2>1. last' = IF PF!LoopEnd < PF!n1 THEN PF!n1 ELSE PF!LoopEnd
    BY <1>2 DEF b
  <2>2. a <= undealt' /\ undealt' <= last' /\ (PF!chunk = 0 => undealt' = last')
    BY <1>1, <1>2
  <2> QED BY <1>5, <2>1, <2>2, SameArgs DEF InBounds
<1>9. \A w \in Members : ToSet(R[w])' = {} /\ Increasing(R[w])'
  BY <1>5, ToSetOfEmpty DEF Increasing
<1>10. Collected'
  BY <1>9, SameArgs DEF Collected
<1>11. \A w \in Members : Held(w)' = Left(w)'
  BY <1>9 DEF Held
<1>12. NoneLost'
  <2>1. SUFFICES ASSUME NEW m \in a..(b - 1)
                 PROVE  m \in Todo' \/ \E w \in Members : m \in Left(w)'
    BY <1>2, <1>11, SameArgs DEF NoneLost
  <2>2. CASE PF!chunk # 0
    BY <1>2, <2>2 DEF Todo
  <2>3. CASE PF!chunk = 0
    <3>1. PICK w \in 0..(n - 1) : cut(w) <= m /\ m < cut(w + 1)
      BY <1>3
    <3>2. w \in Members /\ cut(w) \in Nat /\ cut(w + 1) \in Nat
      BY <1>1, <1>3, <1>4, <3>1 DEF Members
    <3> QED BY <1>1, <1>5, <2>3, <3>1, <3>2 DEF Left
  <2> QED BY <2>2, <2>3
<1>13. ASSUME PF!chunk = 0, NEW v \in Members, NEW w \in Members, v < w,
              NEW k \in Left(v)', NEW m \in Left(w)'
       PROVE  k < m
  <2>1. v + 1 <= w
    BY <1>4, <1>13
  <2>2. /\ cut(v + 1) <= cut(w)
        /\ cut(v) \in Int /\ cut(v + 1) \in Int /\ cut(w) \in Int /\ cut(w + 1) \in Int
    BY <1>3, <1>4, <2>1
  <2>3. k \in cut(v)..(cut(v + 1) - 1) /\ m \in cut(w)..(cut(w + 1) - 1)
    BY <1>5, <1>13 DEF Left
  <2> QED BY <2>2, <2>3
<1>14. SharesInOrder'
  BY <1>11, <1>13, SameArgs DEF SharesInOrder
<1>15. NoneTwice'
  <2>1. SUFFICES ASSUME NEW v \in Members, NEW w \in Members, v # w,
                        NEW m \in Left(v)', m \in Left(w)'
                 PROVE  FALSE
    BY <1>11, SameArgs DEF NoneTwice
  <2>2. CASE PF!chunk # 0
    BY <1>1, <1>5, <2>1, <2>2 DEF Left
  <2>3. CASE PF!chunk = 0
    <3>1. v < w \/ w < v
      BY <1>4, <2>1
    <3>2. m < m /\ m \in Int
      BY <1>5, <1>13, <2>1, <2>3, <3>1 DEF Left
    <3> QED BY <3>2
  <2> QED BY <2>2, <2>3
<1> QED BY <1>6, <1>7, <1>8, <1>10, <1>12, <1>14, <1>15 DEF LoopInv

LEMMA StartPar ==
    ASSUME PF!CommandLinesAssumption, ParInv, PF!Start
    PROVE  ParInv'
<1>1. /\ main = "parse" /\ cmd \in CommandLines /\ R = <<>> /\ at = 0 /\ merged = <<>>
      /\ cmd' = cmd /\ at' = at /\ merged' = merged
  BY DEF ParInv, PF!Start
<1>2. CASE main' \in {"usage", "aborted"} /\ R' = R
  BY <1>1, <1>2 DEF ParInv
<1>3. CASE /\ Len(PF!args) >= 3 /\ main' = "loop"
           /\ R' = [w \in 0..(PF!nworkers - 1) |-> <<>>]
           /\ PF!StartLoop(PF!nworkers, PF!n1, PF!LoopEnd, PF!chunk)
  <2>1. ArgsOK
    BY <1>1, <1>3, ParArgsType
  <2>2. LoopInv'
    BY <1>1, <1>3, <2>1, StartLoopInv DEF Members
  <2> QED BY <1>1, <1>3, <2>2 DEF ParInv
<1> QED BY <1>1, <1>2, <1>3 DEF PF!Start

\* The threads of the loop.
LEMMA ThreadFacts ==
    ASSUME LoopInv, NEW w \in PF!Threads
    PROVE  /\ w \in Members /\ DOMAIN share = Members /\ DOMAIN R = Members
           /\ R[w] \in Seq(Nat) /\ share[w] \in [from : Nat, to : Nat]
           /\ share[w].from <= share[w].to /\ share[w].to <= undealt
           /\ PF!n1 <= share[w].from
           /\ undealt \in Nat /\ last \in Nat /\ undealt <= last /\ PF!n1 \in Nat
           /\ PF!chunk \in Nat
BY DEF LoopInv, LoopType, InBounds, ArgsOK, PF!Threads

LEMMA DealInv ==
    ASSUME LoopInv, NEW w \in PF!Threads, PF!Deal(w, PF!chunk), UNCHANGED <<cmd, R>>
    PROVE  LoopInv'
<1> DEFINE x == PF!Least(undealt + PF!chunk, last)
<1>1. /\ share[w].from = share[w].to /\ undealt < last
      /\ share' = [share EXCEPT ![w] = [from |-> undealt, to |-> x]]
      /\ undealt' = x /\ last' = last /\ cmd' = cmd /\ R' = R
  BY DEF PF!Deal, PF!Idle
<1>2. /\ w \in Members /\ DOMAIN share = Members /\ PF!chunk \in Nat
      /\ undealt \in Nat /\ last \in Nat /\ PF!n1 \in Nat /\ PF!n1 <= undealt
      /\ \A v \in Members : share[v] \in [from : Nat, to : Nat]
  BY ThreadFacts DEF LoopInv, LoopType, InBounds
<1>3. PF!chunk # 0
  <2>1. undealt # last
    BY <1>1, <1>2
  <2> QED BY <2>1 DEF LoopInv, InBounds
<1>4. x \in Nat /\ undealt < x /\ x <= last
  BY <1>1, <1>2, <1>3 DEF PF!Least
<1> HIDE DEF x
<1>5. /\ share'[w].from = undealt /\ share'[w].to = x
      /\ \A v \in Members : v # w => share'[v] = share[v]
      /\ share' \in [Members -> [from : Nat, to : Nat]]
  BY <1>1, <1>2, <1>4
<1>6. ArgsOK' /\ LoopType'
  BY <1>1, <1>2, <1>4, <1>5, SameArgs DEF LoopInv, ArgsOK, LoopType
<1>7. InBounds'
  <2>1. \A v \in Members : /\ PF!n1 <= share'[v].from /\ share'[v].from <= share'[v].to
                           /\ share'[v].to <= x
    <3>1. SUFFICES ASSUME NEW v \in Members
                   PROVE  /\ PF!n1 <= share'[v].from /\ share'[v].from <= share'[v].to
                          /\ share'[v].to <= x
      OBVIOUS
    <3>2. /\ PF!n1 <= share[v].from /\ share[v].from <= share[v].to
          /\ share[v].to <= undealt /\ share[v].to \in Nat
      BY <1>2 DEF LoopInv, InBounds
    <3> QED BY <1>2, <1>4, <1>5, <3>2
  <2>2. last' = IF PF!LoopEnd < PF!n1 THEN PF!n1 ELSE PF!LoopEnd
    BY <1>1 DEF LoopInv, InBounds
  <2>3. PF!n1 <= x
    BY <1>2, <1>4
  <2> QED BY <1>1, <1>3, <1>4, <2>1, <2>2, <2>3, SameArgs DEF InBounds
<1>8. \A v \in Members : v # w => Left(v)' = Left(v) /\ Held(v)' = Held(v)
  BY <1>1, <1>5 DEF Left, Held
<1>9. /\ Left(w) = {} /\ Left(w)' = undealt..(x - 1)
      /\ Held(w) = ToSet(R[w]) /\ Held(w)' = ToSet(R[w]) \union (undealt..(x - 1))
  <2>1. Left(w) = {}
    BY <1>1, <1>2 DEF Left
  <2> QED BY <1>1, <1>5, <2>1 DEF Left, Held
<1>10. Todo = (undealt..(x - 1)) \union Todo'
  BY <1>1, <1>2, <1>4 DEF Todo
<1>11. Collected'
  <2>1. SUFFICES ASSUME NEW v \in Members
                 PROVE  /\ Increasing(R[v])
                        /\ \A n \in ToSet(R[v]) : PF!n1 <= n /\ n < share'[v].from /\ Prime(n)
    BY <1>1, SameArgs DEF Collected
  <2>2. /\ Increasing(R[v])
        /\ \A n \in ToSet(R[v]) : PF!n1 <= n /\ n < share[v].from /\ Prime(n)
    BY DEF LoopInv, Collected
  <2>3. CASE v = w
    <3>1. \A n \in ToSet(R[w]) : n \in Held(w)
      BY DEF Held
    <3>2. \A n \in ToSet(R[w]) : n < undealt
      BY <1>2, <3>1, HeldBelow
    <3> QED BY <1>5, <2>2, <2>3, <3>2
  <2>4. CASE v # w
    BY <1>5, <2>2, <2>4
  <2> QED BY <2>3, <2>4
<1>12. NoneLost'
  <2>1. SUFFICES ASSUME NEW n \in PF!n1..(last - 1), Prime(n)
                 PROVE  n \in Todo' \/ \E v \in Members : n \in Held(v)'
    BY <1>1, SameArgs DEF NoneLost
  <2>2. n \in Todo \/ \E v \in Members : n \in Held(v)
    BY <2>1 DEF LoopInv, NoneLost
  <2>3. CASE n \in Todo
    BY <1>2, <1>9, <1>10, <2>3
  <2>4. ASSUME NEW v \in Members, n \in Held(v) PROVE n \in Held(v)'
    BY <1>8, <1>9, <2>4
  <2> QED BY <2>2, <2>3, <2>4
<1>13. NoneTwice'
  <2>1. ASSUME NEW v \in Members, v # w PROVE Held(v)' \intersect Held(w)' = {}
    <3>1. Held(v) \intersect Held(w) = {}
      BY <1>2, <2>1 DEF LoopInv, NoneTwice
    <3>2. \A m \in Held(v) : m < undealt /\ m \in Nat
      BY HeldBelow
    <3>3. \A m \in undealt..(x - 1) : ~(m < undealt)
      BY <1>2, <1>4
    <3> QED BY <1>8, <1>9, <2>1, <3>1, <3>2, <3>3
  <2>2. ASSUME NEW u \in Members, NEW v \in Members, u # v, u # w, v # w
        PROVE  Held(u)' \intersect Held(v)' = {}
    BY <1>8, <2>2 DEF LoopInv, NoneTwice
  <2>3. \A u, v \in Members : u # v => Held(u)' \intersect Held(v)' = {}
    BY <2>1, <2>2
  <2> QED BY <1>1, <2>3, SameArgs DEF NoneTwice
<1>14. SharesInOrder'
  BY <1>1, <1>3, SameArgs DEF SharesInOrder
<1> QED BY <1>6, <1>7, <1>11, <1>12, <1>13, <1>14 DEF LoopInv

LEMMA TakeChunkPar ==
    ASSUME ParInv, NEW w \in PF!Threads, PF!TakeChunk(w)
    PROVE  ParInv'
<1>1. /\ main = "loop" /\ PF!Deal(w, PF!chunk)
      /\ UNCHANGED <<cmd, main, R, at, merged>>
  BY DEF PF!TakeChunk
<1>2. LoopInv'
  BY <1>1, DealInv DEF ParInv
<1> QED BY <1>1, <1>2 DEF ParInv

LEMMA TestPar ==
    ASSUME ParInv, NEW w \in PF!Threads, PF!Test(w)
    PROVE  ParInv'
<1> DEFINE x == share[w].from
<1>1. /\ main = "loop" /\ share[w].from # share[w].to
      /\ share' = [share EXCEPT ![w].from = @ + 1]
      /\ R' = IF is_prime(x) THEN [R EXCEPT ![w] = Append(@, x)] ELSE R
      /\ UNCHANGED <<cmd, main, at, merged, undealt, last>>
  BY SameNotions DEF PF!Test, PF!Iterate, PF!Idle
<1>2. LoopInv
  BY <1>1 DEF ParInv
<1>3. /\ w \in Members /\ DOMAIN share = Members /\ DOMAIN R = Members
      /\ R[w] \in Seq(Nat) /\ share[w] \in [from : Nat, to : Nat]
      /\ PF!n1 \in Nat /\ PF!n1 <= x
      /\ x \in Nat /\ share[w].to \in Nat /\ x < share[w].to
  BY <1>1, <1>2, ThreadFacts
<1>4. is_prime(x) <=> Prime(x)
  BY <1>3, IsPrimeCorrect
<1>5. /\ share'[w].from = x + 1 /\ share'[w].to = share[w].to
      /\ share'[w] \in [from : Nat, to : Nat]
      /\ \A v \in Members : v # w => share'[v] = share[v]
      /\ share' \in [Members -> [from : Nat, to : Nat]]
  <2>1. share \in [Members -> [from : Nat, to : Nat]]
    BY <1>2 DEF LoopInv, LoopType
  <2>2. share' = [share EXCEPT ![w] = [share[w] EXCEPT !.from = x + 1]]
    BY <1>1, <1>3
  <2>3. [share[w] EXCEPT !.from = x + 1] = [from |-> x + 1, to |-> share[w].to]
    BY <1>3
  <2> QED BY <1>3, <2>1, <2>2, <2>3
<1>6. /\ \A v \in Members : v # w => R'[v] = R[v]
      /\ R'[w] = IF Prime(x) THEN Append(R[w], x) ELSE R[w]
      /\ R' \in [Members -> Seq(Nat)]
  BY <1>1, <1>2, <1>3, <1>4 DEF LoopInv, LoopType
<1>7. ToSet(R'[w]) = ToSet(R[w]) \union {n \in {x} : Prime(x)}
  BY <1>3, <1>6, ToSetOfAppend
<1> HIDE DEF x
<1>8. ArgsOK' /\ LoopType'
  BY <1>1, <1>2, <1>5, <1>6, SameArgs DEF LoopInv, ArgsOK, LoopType
<1>9. InBounds'
  <2>1. ASSUME NEW v \in Members
        PROVE  /\ PF!n1 <= share'[v].from /\ share'[v].from <= share'[v].to
               /\ share'[v].to <= undealt
    <3>1. /\ PF!n1 <= share[v].from /\ share[v].from <= share[v].to
          /\ share[v].to <= undealt
      BY <1>2 DEF LoopInv, InBounds
    <3>2. CASE v = w
      BY <1>3, <1>5, <3>1, <3>2
    <3>3. CASE v # w
      BY <1>5, <3>1, <3>3
    <3> QED BY <3>2, <3>3
  <2> QED BY <1>1, <1>2, <2>1, SameArgs DEF LoopInv, InBounds
<1>10. \A v \in Members : v # w => Held(v)' = Held(v)
  BY <1>5, <1>6 DEF Held, Left
<1>11. Left(w) = {x} \union Left(w)' /\ x \in Held(w)
  BY <1>3, <1>5 DEF Left, Held, x
<1>12. Held(w)' \subseteq Held(w) /\ Held(w) \subseteq Held(w)' \union {n \in {x} : ~Prime(x)}
  <2>1. Held(w)' = ToSet(R'[w]) \union Left(w)' /\ Held(w) = ToSet(R[w]) \union Left(w)
    BY DEF Held
  <2> QED BY <1>7, <1>11, <2>1
<1>13. Collected'
  <2>1. SUFFICES ASSUME NEW v \in Members
                 PROVE  /\ Increasing(R'[v])
                        /\ \A n \in ToSet(R'[v]) : PF!n1 <= n /\ n < share'[v].from /\ Prime(n)
    BY SameArgs, <1>1 DEF Collected
  <2>2. /\ Increasing(R[v])
        /\ \A n \in ToSet(R[v]) : PF!n1 <= n /\ n < share[v].from /\ Prime(n)
    BY <1>2 DEF LoopInv, Collected
  <2>3. CASE v # w
    BY <1>5, <1>6, <2>2, <2>3
  <2>4. CASE v = w
    <3>1. \A n \in ToSet(R[w]) : n < x /\ n \in Nat
      BY <1>3, <2>2, <2>4, ToSetOfSeq DEF x
    <3>2. Increasing(R'[w])
      BY <1>3, <1>6, <2>2, <2>4, <3>1, AppendIncreasing
    <3>3. \A n \in ToSet(R'[w]) : PF!n1 <= n /\ n < x + 1 /\ Prime(n)
      BY <1>3, <1>7, <2>2, <2>4, <3>1
    <3> QED BY <1>5, <2>4, <3>2, <3>3
  <2> QED BY <2>3, <2>4
<1>14. Todo' = Todo
  BY <1>1 DEF Todo
<1>15. NoneLost'
  <2>1. SUFFICES ASSUME NEW n \in PF!n1..(last - 1), Prime(n)
                 PROVE  n \in Todo \/ \E v \in Members : n \in Held(v)'
    BY <1>1, <1>14, SameArgs DEF NoneLost
  <2>2. n \in Todo \/ \E v \in Members : n \in Held(v)
    BY <1>2, <2>1 DEF LoopInv, NoneLost
  <2> QED BY <1>3, <1>10, <1>12, <2>1, <2>2
<1>16. \A v \in Members : Held(v)' \subseteq Held(v)
  BY <1>10, <1>12
<1>17. NoneTwice' /\ SharesInOrder'
  <2>1. NoneTwice'
    BY <1>1, <1>2, <1>16, SameArgs DEF LoopInv, NoneTwice
  <2>2. SharesInOrder'
    BY <1>1, <1>2, <1>16, SameArgs DEF LoopInv, SharesInOrder
  <2> QED BY <2>1, <2>2
<1>18. LoopInv'
  BY <1>8, <1>9, <1>13, <1>15, <1>17 DEF LoopInv
<1> QED BY <1>1, <1>18 DEF ParInv

LEMMA EndLoopPar ==
    ASSUME ParInv, PF!EndLoop
    PROVE  ParInv'
<1>1. /\ main = "loop" /\ PF!LoopDone /\ main' = IF PF!IsMy THEN "exit" ELSE "merge"
      /\ UNCHANGED <<cmd, R, at, merged, share, undealt, last>>
  BY DEF PF!EndLoop, PF!loopVars
<1>2. /\ LoopInv /\ at = 0 /\ merged = <<>>
  BY <1>1 DEF ParInv
<1>3. LoopInv'
  BY <1>1, <1>2, LoopStutter
<1>4. PF!LoopDone'
  BY <1>1 DEF PF!LoopDone, PF!Threads, PF!Idle
<1>5. MergeInv'
  <2>1. at' = 0 /\ merged' = <<>> /\ 0 \in 0..PF!nworkers
    BY <1>1, <1>2 DEF LoopInv, ArgsOK
  <2>2. ~Gap(0)' /\ UNION {ToSet(R[w])' : w \in 0..(0 - 1)} = {}
    BY DEF Gap
  <2>3. IsInjective(<<>>) /\ <<>> \in Seq(Nat)
    BY DEF IsInjective
  <2> QED BY <1>1, <2>1, <2>2, <2>3, SameArgs, ToSetOfEmpty DEF MergeInv, Gap
<1> QED BY <1>1, <1>3, <1>4, <1>5, SameArgs DEF ParInv, ExitInv

LEMMA GapStep ==
    ASSUME NEW k \in Nat, ~Gap(k), Gap(k + 1)
    PROVE  R[k] = <<>> /\ \E v \in 0..(k - 1) : R[v] # <<>>
BY DEF Gap

LEMMA ToSetNonEmpty ==
    ASSUME NEW s \in Seq(Nat)
    PROVE  s = <<>> <=> ToSet(s) = {}
<1>1. CASE s = <<>>
  BY <1>1, ToSetOfEmpty
<1>2. CASE s # <<>>
  <2>1. 1 \in DOMAIN s
    BY <1>2
  <2> QED BY <1>2, <2>1 DEF ToSet
<1> QED BY <1>1, <1>2

LEMMA MergePar ==
    ASSUME ParInv, PF!Merge
    PROVE  ParInv'
<1>1. /\ main = "merge" /\ at < PF!nworkers
      /\ UNCHANGED <<cmd, R, share, undealt, last>>
  BY DEF PF!Merge, PF!loopVars
<1>2. LoopInv /\ MergeInv /\ PF!LoopDone /\ cmd \in CommandLines /\ ~PF!IsMy
  BY <1>1 DEF ParInv
<1>3. LoopInv' /\ PF!LoopDone' /\ cmd' = cmd /\ ~PF!IsMy'
  BY <1>1, <1>2, LoopStutter, SameArgs DEF PF!LoopDone, PF!Threads, PF!Idle
<1>4. /\ at \in Nat /\ at + 1 \in 0..PF!nworkers /\ at \in Members
      /\ PF!nworkers \in Nat /\ 0..(at - 1) \subseteq Members
      /\ (at + 1) - 1 = at /\ 0..at = (0..(at - 1)) \union {at}
  <2>1. at \in 0..PF!nworkers /\ PF!nworkers \in Nat
    BY <1>2 DEF MergeInv, LoopInv, ArgsOK
  <2>2. /\ at \in Nat /\ at + 1 \in 0..PF!nworkers /\ at \in 0..(PF!nworkers - 1)
        /\ (at + 1) - 1 = at /\ 0..at = (0..(at - 1)) \union {at}
    BY <1>1, <2>1
  <2>3. 0..(at - 1) \subseteq 0..(PF!nworkers - 1)
    BY <1>1, <2>1
  <2> QED BY <2>1, <2>2, <2>3 DEF Members
<1>5. /\ merged \in Seq(Nat) /\ IsInjective(merged) /\ ~Gap(at)
      /\ ToSet(merged) = UNION {ToSet(R[w]) : w \in 0..(at - 1)}
  BY <1>2 DEF MergeInv
<1>6. \A w \in Members : R[w] \in Seq(Nat)
  BY <1>2 DEF LoopInv, LoopType
<1>7. (\E v \in 0..(at - 1) : R[v] # <<>>) => merged # <<>>
  <2>1. ASSUME NEW v \in 0..(at - 1), R[v] # <<>> PROVE ToSet(merged) # {}
    <3>1. ToSet(R[v]) # {}
      BY <1>4, <1>6, <2>1, ToSetNonEmpty
    <3> QED BY <1>5, <3>1
  <2> QED BY <1>5, <2>1, ToSetNonEmpty
<1>8. (\A v \in 0..(at - 1) : R[v] = <<>>) => merged = <<>>
  <2>1. ASSUME \A v \in 0..(at - 1) : R[v] = <<>> PROVE ToSet(merged) = {}
    BY <1>5, <2>1, ToSetOfEmpty
  <2> QED BY <1>5, <2>1, ToSetNonEmpty
<1>9. CASE /\ R[at] # <<>> /\ at' = at + 1 /\ main' = main
           /\ \E k \in PF!UpperBounds(R[at][1]) :
                  merged' = SubSeq(merged, 1, k) \o R[at] \o SubSeq(merged, k + 1, Len(merged))
  <2>1. PICK k \in PF!UpperBounds(R[at][1]) :
            merged' = SubSeq(merged, 1, k) \o R[at] \o SubSeq(merged, k + 1, Len(merged))
    BY <1>9
  <2>2. k \in 0..Len(merged)
    <3>1. CASE k \in 0..Len(merged)
      BY <3>1
    <3>2. CASE k = PF!Cardinality({j \in DOMAIN merged : merged[j] <= R[at][1]})
      <4> DEFINE B == {j \in DOMAIN merged : merged[j] <= R[at][1]}
      <4>1. Len(merged) \in Nat /\ DOMAIN merged = 1..Len(merged) /\ B \subseteq 1..Len(merged)
        BY <1>5
      <4>2. k = Cardinality(B)
        BY <3>2, SameNotions
      <4> HIDE DEF B
      <4>3. IsFiniteSet(1..Len(merged)) /\ Cardinality(1..Len(merged)) = Len(merged)
        BY <4>1, FS_Interval
      <4>4. Cardinality(B) \in Nat /\ Cardinality(B) <= Len(merged)
        <5>1. IsFiniteSet(B) /\ Cardinality(B) <= Cardinality(1..Len(merged))
          BY <4>1, <4>3, FS_Subset
        <5> QED BY <4>3, <5>1, FS_CardinalityType
      <4> QED BY <4>1, <4>2, <4>4
    <3> QED BY <3>1, <3>2 DEF PF!UpperBounds
  <2>3. IsInjective(R[at])
    <3>1. Increasing(R[at]) /\ R[at] \in Seq(Nat)
      BY <1>2, <1>4, <1>6 DEF LoopInv, Collected
    <3>2. DOMAIN R[at] = 1..Len(R[at]) /\ \A j \in DOMAIN R[at] : R[at][j] \in Nat
      BY <3>1
    <3>3. ASSUME NEW a \in DOMAIN R[at], NEW b \in DOMAIN R[at], R[at][a] = R[at][b]
          PROVE  a = b
      <4>1. ~(a < b) /\ ~(b < a)
        BY <3>1, <3>2, <3>3 DEF Increasing
      <4> QED BY <3>1, <3>2, <4>1
    <3> QED BY <3>3 DEF IsInjective
  <2>4. ToSet(merged) \intersect ToSet(R[at]) = {}
    <3>1. ASSUME NEW v \in 0..(at - 1) PROVE ToSet(R[v]) \intersect ToSet(R[at]) = {}
      <4>1. v \in Members /\ v # at
        BY <1>4
      <4>2. Held(v) \intersect Held(at) = {}
        BY <1>2, <1>4, <4>1 DEF LoopInv, NoneTwice
      <4> QED BY <4>2 DEF Held
    <3> QED BY <1>5, <3>1
  <2>5. /\ merged' \in Seq(Nat) /\ IsInjective(merged')
        /\ ToSet(merged') = ToSet(merged) \union ToSet(R[at])
    BY <1>4, <1>5, <1>6, <2>1, <2>2, <2>3, <2>4, InsertProperties
  <2>6. ToSet(merged') = UNION {ToSet(R[w]) : w \in 0..at}
    BY <1>4, <1>5, <2>5
  <2>7. ~Gap(at + 1)
    BY <1>4, <1>5, <1>9, GapStep
  <2>8. MergeInv'
    BY <1>1, <1>3, <1>4, <1>9, <2>5, <2>6, <2>7, SameArgs DEF MergeInv, Gap
  <2> QED BY <1>1, <1>2, <1>3, <1>9, <2>8 DEF ParInv
<1>10. CASE R[at] = <<>> /\ merged = <<>> /\ at' = at + 1 /\ UNCHANGED <<main, merged>>
  <2>1. ~Gap(at + 1)
    BY <1>4, <1>5, <1>7, <1>10, GapStep
  <2>2. ToSet(merged) = UNION {ToSet(R[w]) : w \in 0..at}
    BY <1>4, <1>5, <1>10, ToSetOfEmpty
  <2>3. MergeInv'
    BY <1>1, <1>3, <1>4, <1>5, <1>10, <2>1, <2>2, SameArgs DEF MergeInv, Gap
  <2> QED BY <1>1, <1>2, <1>3, <1>10, <2>3 DEF ParInv
<1>11. CASE R[at] = <<>> /\ merged # <<>> /\ main' = "crashed" /\ UNCHANGED <<at, merged>>
  <2>1. PICK v \in 0..(at - 1) : R[v] # <<>>
    BY <1>8, <1>11
  <2>2. v < at /\ v \in 0..(PF!nworkers - 1) /\ at \in 0..(PF!nworkers - 1)
    BY <1>4 DEF Members
  <2>3. Gap(PF!nworkers)
    BY <1>11, <2>1, <2>2 DEF Gap
  <2>4. Gap(PF!nworkers)'
    BY <1>1, <2>3, SameArgs DEF Gap
  <2> QED BY <1>1, <1>2, <1>3, <1>11, <2>4 DEF ParInv
<1> QED BY <1>9, <1>10, <1>11 DEF PF!Merge

LEMMA SortPar ==
    ASSUME ParInv, PF!Sort
    PROVE  ParInv'
<1>1. /\ main = "merge" /\ at = PF!nworkers /\ main' = "exit" /\ merged' = PF!Sorted(merged)
      /\ UNCHANGED <<cmd, R, at, share, undealt, last>>
  BY DEF PF!Sort, PF!loopVars
<1>2. LoopInv /\ MergeInv /\ PF!LoopDone /\ cmd \in CommandLines
  BY <1>1 DEF ParInv
<1>3. LoopInv' /\ PF!LoopDone' /\ cmd' = cmd
  BY <1>1, <1>2, LoopStutter DEF PF!LoopDone, PF!Threads, PF!Idle
<1>4. merged' \in Seq(Nat) /\ Increasing(merged') /\ ToSet(merged') = ToSet(merged)
  BY <1>1, <1>2, SortedIncreasing DEF MergeInv
<1>5. DOMAIN R = 0..(PF!nworkers - 1)
  BY <1>2 DEF LoopInv, LoopType, Members
<1>6. ToSet(merged) = Found /\ ~Gap(PF!nworkers)
  BY <1>1, <1>2, <1>5 DEF MergeInv, Found
<1>7. ExitInv'
  BY <1>1, <1>4, <1>6, SameArgs DEF ExitInv, Found, Gap
<1> QED BY <1>1, <1>2, <1>3, <1>7 DEF ParInv

LEMMA ParStutter ==
    ASSUME ParInv, UNCHANGED PF!vars
    PROVE  ParInv'
<1>1. UNCHANGED <<cmd, main, R, at, merged, share, undealt, last>>
  BY DEF PF!vars, PF!loopVars
<1>2. LoopInv => LoopInv'
  BY <1>1, LoopStutter
<1>3. /\ PF!LoopDone' = PF!LoopDone
      /\ MergeInv' = MergeInv /\ ExitInv' = ExitInv /\ Gap(PF!nworkers)' = Gap(PF!nworkers)
  BY <1>1, SameArgs DEF PF!LoopDone, PF!Threads, PF!Idle, MergeInv, ExitInv, Gap, Found
<1> QED BY <1>1, <1>2, <1>3, SameArgs DEF ParInv

LEMMA ParNextInv ==
    ASSUME PF!CommandLinesAssumption, ParInv, [PF!Next]_PF!vars
    PROVE  ParInv'
BY StartPar, TakeChunkPar, TestPar, EndLoopPar, MergePar, SortPar, ParStutter
   DEF PF!Next, PF!MainStep, PF!ThreadStep, PF!Terminated

LEMMA ParInvariance ==
    ASSUME PF!CommandLinesAssumption
    PROVE  PF!Spec => []ParInv
<1>1. PF!Init => ParInv
  BY ParInitInv
<1>2. ParInv /\ [PF!Next]_PF!vars => ParInv'
  BY ParNextInv
<1> QED BY <1>1, <1>2, PTL DEF PF!Spec

----------------------------------------------------------------------------
\* What follows from it.

LEMMA FoundWanted == ASSUME LoopInv PROVE Found \subseteq PF!Wanted
<1>1. DOMAIN R = Members
  BY DEF LoopInv, LoopType
<1>2. SUFFICES ASSUME NEW w \in Members, NEW n \in ToSet(R[w]) PROVE n \in PF!Wanted
  BY <1>1 DEF Found
<1>3. /\ PF!n1 <= n /\ n < share[w].from /\ Prime(n)
      /\ share[w].from <= share[w].to /\ share[w].to <= undealt /\ undealt <= last
      /\ last = IF PF!LoopEnd < PF!n1 THEN PF!n1 ELSE PF!LoopEnd
  BY DEF LoopInv, Collected, InBounds
<1>4. /\ PF!n1 \in Nat /\ PF!LoopEnd \in Nat /\ last \in Nat /\ undealt \in Nat
      /\ share[w] \in [from : Nat, to : Nat] /\ PF!n2 \in Nat
  BY DEF LoopInv, LoopType, ArgsOK
<1>5. n \in Nat
  <2>1. R[w] \in Seq(Nat)
    BY DEF LoopInv, LoopType
  <2> QED BY <2>1, ToSetOfSeq
<1>6. n < last
  BY <1>3, <1>4, <1>5
<1>7. n < PF!LoopEnd
  BY <1>3, <1>4, <1>5, <1>6
<1>8. n \in PF!n1..(IF PF!IsMy THEN PF!n2 - 1 ELSE PF!n2)
  BY <1>3, <1>4, <1>5, <1>7 DEF PF!LoopEnd
<1> QED BY <1>3, <1>8, SameNotions DEF PF!Wanted

\* So it is after a step.
OnlyWanted == Found \subseteq PF!Wanted

LEMMA FoundWantedNext == LoopInv' => OnlyWanted'
<1>1. LoopInv => OnlyWanted
  BY FoundWanted DEF OnlyWanted
<1> QED BY <1>1, PTL

\* When the loop is over, all primes of the range have been found.
LEMMA AllFound == ASSUME LoopInv, PF!LoopDone PROVE Found = PF!Wanted
<1>1. DOMAIN R = Members /\ DOMAIN share = Members
  BY DEF LoopInv, LoopType
<1>2. /\ PF!n1 \in Nat /\ PF!LoopEnd \in Nat /\ PF!n2 \in Nat /\ last \in Nat
      /\ last = IF PF!LoopEnd < PF!n1 THEN PF!n1 ELSE PF!LoopEnd
      /\ \A w \in Members : share[w] \in [from : Nat, to : Nat]
  BY DEF LoopInv, LoopType, ArgsOK, InBounds
<1>3. undealt = last /\ \A w \in Members : share[w].from = share[w].to
  BY <1>1 DEF PF!LoopDone, PF!Threads, PF!Idle
<1>4. Todo = {} /\ \A w \in Members : Left(w) = {}
  BY <1>2, <1>3 DEF Todo, Left
<1>5. ASSUME NEW n \in PF!Wanted PROVE n \in Found
  <2>1. Prime(n) /\ n \in PF!n1..(IF PF!IsMy THEN PF!n2 - 1 ELSE PF!n2)
    BY SameNotions DEF PF!Wanted
  <2>2. n \in PF!n1..(PF!LoopEnd - 1)
    BY <1>2, <2>1 DEF PF!LoopEnd
  <2>3. n \in PF!n1..(last - 1)
    BY <1>2, <2>2
  <2>4. PICK w \in Members : n \in Held(w)
    BY <1>4, <2>1, <2>3 DEF LoopInv, NoneLost
  <2>5. n \in ToSet(R[w])
    BY <1>4, <2>4 DEF Held
  <2> QED BY <1>1, <2>5 DEF Found
<1> QED BY <1>5, FoundWanted

\* The even shares, printed one after the other.
LEMMA OutputOfMy ==
    ASSUME LoopInv, PF!IsMy
    PROVE  PF!Output \in Seq(Nat) /\ Increasing(PF!Output) /\ ToSet(PF!Output) = Found
<1> DEFINE n == PF!nworkers
           s == [w \in 1..n |-> R[w - 1]]
<1>1. /\ n \in Nat \ {0} /\ DOMAIN R = Members /\ Members = 0..(n - 1)
      /\ \A w \in Members : R[w] \in Seq(Nat) /\ Increasing(R[w])
  BY DEF LoopInv, LoopType, ArgsOK, Members, Collected
<1>2. PF!chunk = 0
  BY DEF PF!chunk
<1>3. PF!Output = PF!FlattenSeq(s)
  BY DEF PF!Output
<1> HIDE DEF n
<1>4. \A k \in 1..n : k - 1 \in Members
  BY <1>1
<1>5. s \in [1..n -> Seq(Nat)] /\ \A k \in 1..n : Increasing(s[k])
  BY <1>1, <1>4
<1>6. ASSUME NEW j \in 1..n, NEW k \in 1..n, j < k, NEW a \in ToSet(s[j]), NEW b \in ToSet(s[k])
      PROVE  a < b
  <2>1. j - 1 \in Members /\ k - 1 \in Members /\ j - 1 < k - 1
    BY <1>4, <1>6
  <2>2. a \in Held(j - 1) /\ b \in Held(k - 1)
    BY <1>6 DEF Held
  <2> QED BY <1>2, <2>1, <2>2 DEF LoopInv, SharesInOrder
<1>7. UNION {ToSet(s[k]) : k \in 1..n} = Found
  <2>1. \A w \in Members : w + 1 \in 1..n /\ s[w + 1] = R[w]
    BY <1>1
  <2>2. \A k \in 1..n : s[k] = R[k - 1]
    OBVIOUS
  <2> HIDE DEF s
  <2> QED BY <1>1, <1>4, <2>1, <2>2 DEF Found
<1> HIDE DEF s
<1>8. LET t == PF!FlattenSeq(s)
      IN  t \in Seq(Nat) /\ Increasing(t) /\ ToSet(t) = UNION {ToSet(s[k]) : k \in 1..n}
  BY <1>1, <1>5, <1>6, FlattenIncreasing
<1> QED BY <1>3, <1>7, <1>8

LEMMA InOrderFromInv == ASSUME ParInv PROVE PF!PrintedInOrder
<1>1. ASSUME main = "exit"
      PROVE  /\ \A j, k \in DOMAIN PF!Output : j < k => PF!Output[j] < PF!Output[k]
             /\ PF!ToSet(PF!Output) = PF!Wanted
  <2>1. LoopInv /\ PF!LoopDone /\ ExitInv
    BY <1>1 DEF ParInv
  <2>2. Increasing(PF!Output) /\ ToSet(PF!Output) = Found
    <3>1. CASE PF!IsMy
      BY <2>1, <3>1, OutputOfMy
    <3>2. CASE ~PF!IsMy
      BY <2>1, <3>2 DEF ExitInv, PF!Output
    <3> QED BY <3>1, <3>2
  <2>3. Found = PF!Wanted
    BY <2>1, AllFound
  <2> QED BY <2>2, <2>3, SameNotions DEF Increasing
<1>2. ASSUME main \in {"exit", "crashed"}, ~PF!IsMy
      PROVE  main = "crashed" <=> \E v, w \in DOMAIN R : v < w /\ R[v] # <<>> /\ R[w] = <<>>
  <2>1. DOMAIN R = 0..(PF!nworkers - 1)
    BY <1>2 DEF ParInv, LoopInv, LoopType, Members
  <2>2. main = "crashed" <=> Gap(PF!nworkers)
    BY <1>2 DEF ParInv, ExitInv
  <2> QED BY <2>1, <2>2 DEF Gap
<1> QED BY <1>1, <1>2 DEF PF!PrintedInOrder

\* Both programs over a parallel loop print exactly the primes of their range,
\* in increasing order, for every number of threads and every way the loop
\* deals out its iterations; and the first crashes exactly when a thread has
\* found nothing and one before it has.
THEOREM ParallelPrinted ==
    ASSUME PF!CommandLinesAssumption
    PROVE  PF!Spec => []PF!PrintedInOrder
<1>1. ParInv => PF!PrintedInOrder
  BY InOrderFromInv
<1> QED BY <1>1, ParInvariance, PTL

parStatus ==
    CASE main = "exit" -> "finished"
      [] main \in {"usage", "aborted"} -> "aborted"
      [] OTHER -> "running"

parFound == UNION {PF!ToSet(R[w]) : w \in DOMAIN R}

LEMMA ParSearchStep ==
    ASSUME ParInv, ParInv', [PF!Next]_PF!vars
    PROVE  [PF!Search!Next]_<<PF!Wanted, parFound, parStatus>>
<1>1. parFound = Found /\ parFound' = Found'
  BY SameNotions DEF parFound, Found
<1>2. cmd' = cmd /\ PF!Wanted' = PF!Wanted
  <2>1. cmd' = cmd
    BY DEF PF!Next, PF!MainStep, PF!ThreadStep, PF!Terminated, PF!vars,
           PF!Start, PF!EndLoop, PF!Merge, PF!Sort, PF!TakeChunk, PF!Test
  <2> QED BY <2>1, SameArgs
<1>3. CASE PF!Start
  <2>1. main = "parse" /\ R = <<>> /\ main' \in {"usage", "aborted", "loop"}
    BY <1>3 DEF PF!Start, ParInv
  <2>2. Found = {}
    BY <2>1 DEF Found
  <2>3. CASE main' = "loop"
    <3>1. R' = [w \in 0..(PF!nworkers - 1) |-> <<>>]
      BY <1>3, <2>3 DEF PF!Start
    <3>2. Found' = {}
      BY <3>1, ToSetOfEmpty DEF Found
    <3> QED BY <1>1, <1>2, <2>1, <2>2, <2>3, <3>2 DEF parStatus
  <2>4. CASE main' \in {"usage", "aborted"}
    <3>1. R' = R
      BY <1>3, <2>4 DEF PF!Start
    <3>2. Found' = Found
      BY <3>1 DEF Found
    <3>3. parStatus = "running" /\ parStatus' = "aborted"
      BY <2>1, <2>4 DEF parStatus
    <3>4. PF!Search!GiveUp
      BY <1>1, <1>2, <2>2, <3>2, <3>3 DEF PF!Search!GiveUp, parFound, parStatus
    <3> QED BY <3>4 DEF PF!Search!Next
  <2> QED BY <2>1, <2>3, <2>4
<1>4. ASSUME NEW w \in PF!Threads, PF!TakeChunk(w)
      PROVE  UNCHANGED <<PF!Wanted, parFound, parStatus>>
  BY <1>2, <1>4 DEF PF!TakeChunk, parFound, parStatus
<1>5. ASSUME NEW w \in PF!Threads, PF!Test(w)
      PROVE  [PF!Search!Next]_<<PF!Wanted, parFound, parStatus>>
  <2>1. /\ main = "loop" /\ main' = main /\ LoopInv /\ LoopInv'
        /\ R' = IF PF!is_prime(share[w].from)
                THEN [R EXCEPT ![w] = Append(@, share[w].from)] ELSE R
    BY <1>5 DEF PF!Test, ParInv
  <2>2. DOMAIN R = Members /\ w \in Members /\ R[w] \in Seq(Nat) /\ share[w].from \in Nat
    BY <2>1, ThreadFacts
  <2>3. parStatus = "running" /\ parStatus' = "running"
    BY <2>1 DEF parStatus
  <2>4. Found \subseteq Found'
    <3>1. \A v \in Members : ToSet(R[v]) \subseteq ToSet(R'[v]) /\ v \in DOMAIN R'
      <4>1. SUFFICES ASSUME NEW v \in Members
                     PROVE  ToSet(R[v]) \subseteq ToSet(R'[v]) /\ v \in DOMAIN R'
        OBVIOUS
      <4>2. v \in DOMAIN R'
        BY <2>1, <2>2
      <4>3. CASE v = w /\ PF!is_prime(share[w].from)
        <5>1. R'[w] = Append(R[w], share[w].from)
          BY <2>1, <2>2, <4>3
        <5> QED BY <2>2, <4>2, <4>3, <5>1, ToSetOfAppend
      <4>4. CASE ~(v = w /\ PF!is_prime(share[w].from))
        <5>1. R'[v] = R[v]
          BY <2>1, <2>2, <4>4
        <5> QED BY <4>2, <5>1
      <4> QED BY <4>3, <4>4
    <3> QED BY <2>2, <3>1 DEF Found
  <2>5. Found' \subseteq PF!Wanted
    BY <1>2, <2>1, FoundWantedNext DEF OnlyWanted
  <2>6. CASE Found' = Found
    BY <1>1, <1>2, <2>3, <2>6
  <2>7. CASE Found' # Found
    <3>1. PF!Search!Find
      BY <1>1, <1>2, <2>3, <2>4, <2>5, <2>7 DEF PF!Search!Find, parFound, parStatus
    <3> QED BY <3>1 DEF PF!Search!Next
  <2> QED BY <2>6, <2>7
<1>6. ASSUME PF!EndLoop \/ PF!Sort \/ PF!Merge
      PROVE  [PF!Search!Next]_<<PF!Wanted, parFound, parStatus>>
  <2>1. /\ main \in {"loop", "merge"} /\ main' \in {"exit", "merge", "crashed"}
        /\ R' = R
    BY <1>6 DEF PF!EndLoop, PF!Sort, PF!Merge
  <2>2. parFound' = parFound
    BY <2>1 DEF parFound
  <2>3. CASE main' # "exit"
    BY <1>2, <2>1, <2>2, <2>3 DEF parStatus
  <2>4. CASE main' = "exit"
    <3>1. LoopInv /\ PF!LoopDone
      <4>1. CASE PF!EndLoop
        BY <4>1 DEF ParInv, PF!EndLoop
      <4>2. CASE PF!Sort
        BY <4>2 DEF ParInv, PF!Sort
      <4>3. CASE PF!Merge
        BY <2>4, <4>3 DEF PF!Merge
      <4> QED BY <1>6, <4>1, <4>2, <4>3
    <3>2. Found = PF!Wanted
      BY <3>1, AllFound
    <3>3. parStatus = "running" /\ parStatus' = "finished"
      BY <2>1, <2>4 DEF parStatus
    <3>4. PF!Search!Finish
      BY <1>1, <1>2, <2>2, <3>2, <3>3 DEF PF!Search!Finish, parFound, parStatus
    <3> QED BY <3>4 DEF PF!Search!Next
  <2> QED BY <2>3, <2>4
<1>7. ASSUME UNCHANGED PF!vars
      PROVE  UNCHANGED <<PF!Wanted, parFound, parStatus>>
  BY <1>2, <1>7 DEF PF!vars, parFound, parStatus
<1> QED BY <1>3, <1>4, <1>5, <1>6, <1>7
        DEF PF!Next, PF!MainStep, PF!ThreadStep, PF!Terminated

\* Both programs over a parallel loop implement the abstract prime search: a
\* crash while merging stops them short of its end.
THEOREM ParallelImplementsSearch ==
    ASSUME PF!CommandLinesAssumption
    PROVE  PF!Spec => PF!Search!Spec
<1>1. PF!Init => PF!Search!Init
  BY DEF PF!Init, PF!Search!Init
<1>2. ParInv /\ ParInv' /\ [PF!Next]_PF!vars
          => [PF!Search!Next]_<<PF!Wanted, parFound, parStatus>>
  BY ParSearchStep
<1> QED BY <1>1, <1>2, ParInvariance, PTL DEF PF!Spec, PF!Search!Spec, parFound, parStatus
====
