---- MODULE Primes ----
(***************************************************************************)
(* ClassWork4/primes.cpp, the sequential program the parallel versions are *)
(* measured against: main() walks n1, n1+1, ..., n2 and collects in the    *)
(* vector results the numbers is_prime() accepts. Both loops run on        *)
(* unsigned machine words, so every sum and product is taken modulo        *)
(* Modulus (2^64 in the program). The arguments are signed: a negative one *)
(* becomes a number in the upper half of the words, where the squares of   *)
(* is_prime no longer fit, and no number lies behind the last word.        *)
(***************************************************************************)
EXTENDS PrimeTest, Sequences, SequencesExt

CONSTANTS
    Modulus,    \* number of values of an unsigned long long
    Memory,     \* how many numbers the vector has room for
    Ranges      \* the pairs <<number1, number2>> of the command line

\* The first square of is_prime's loop is a word, and half of the words are the
\* negative numbers.
ASSUME ModulusAssumption == Modulus \in Nat /\ Modulus > 25 /\ Modulus % 2 = 0

ASSUME MemoryAssumption == Memory \in Nat

\* What std::stoll can return: for any other text it throws.
LongLong == -(Modulus \div 2)..(Modulus \div 2 - 1)

ASSUME RangesAssumption == Ranges \subseteq LongLong \X LongLong

VARIABLES
    args,       \* the command line
    n1,         \* main's cursor, incremented by the while condition
    prime,      \* the number being tested
    i,          \* is_prime's loop variable
    results,    \* the primes found so far
    pc

vars == <<args, n1, prime, i, results, pc>>

Word == 0..(Modulus - 1)
LastWord == Modulus - 1

\* ull n = std::stoll(...)
ull(x) == x % Modulus
start == ull(args[1])
n2 == ull(args[2])

----------------------------------------------------------------------------
\* Mutants: plausible slips in the definitions that follow; no specification
\* uses them.

\* for (... i * i < n ...): the square of a prime is taken for a prime.
InLoopStrict == (i * i) % Modulus < prime

\* while( (prime=n1++) != n2+1 ): a reversed range is walked around the words,
\* and the endless one not at all.
NextNumberUnequal ==
    /\ pc = "while"
    /\ prime' = n1
    /\ n1' = (n1 + 1) % Modulus
    /\ pc' = IF n1 # (n2 + 1) % Modulus THEN "is_prime" ELSE "done"
    /\ UNCHANGED <<args, i, results>>

\* while( (prime=n1++) < n2 ): the last number is never tested.
NextNumberExclusive ==
    /\ pc = "while"
    /\ prime' = n1
    /\ n1' = (n1 + 1) % Modulus
    /\ pc' = IF n1 < n2 THEN "is_prime" ELSE "done"
    /\ UNCHANGED <<args, i, results>>
----------------------------------------------------------------------------

Init ==
    /\ args \in Ranges
    /\ n1 = start
    /\ prime = 0
    /\ i = 0
    /\ results = <<>>
    /\ pc = "reserve"

\* The difference of a word from a negative argument can be of any size.
Reserve ==
    /\ pc = "reserve"
    /\ \E outcome \in IF args[1] < 0 THEN {"ok", "abort"} ELSE reserve(n1, n2) :
          pc' = IF outcome = "ok" THEN "while" ELSE "aborted"
    /\ UNCHANGED <<args, n1, prime, i, results>>

\* while( (prime=n1++) <= n2 )
NextNumber ==
    /\ pc = "while"
    /\ prime' = n1
    /\ n1' = (n1 + 1) % Modulus
    /\ pc' = IF n1 <= n2 THEN "is_prime" ELSE "done"
    /\ UNCHANGED <<args, i, results>>

\* if (is_prime(prime)) results.push_back(prime), which throws std::bad_alloc
\* when there is no more memory.
Return(b) ==
    /\ \/ b /\ Len(results) < Memory /\ results' = Append(results, prime) /\ pc' = "while"
       \/ b /\ Len(results) >= Memory /\ pc' = "aborted" /\ UNCHANGED results
       \/ ~b /\ pc' = "while" /\ UNCHANGED results
    /\ UNCHANGED <<args, n1, prime>>

\* The tests is_prime makes before its loop, and the loop's initialisation.
Screen ==
    /\ pc = "is_prime"
    /\ \/ prime <= 3 /\ Return(prime > 1) /\ i' = i
       \/ /\ prime > 3
          /\ prime % 2 = 0 \/ prime % 3 = 0
          /\ Return(FALSE) /\ i' = i
       \/ /\ prime > 3 /\ prime % 2 # 0 /\ prime % 3 # 0
          /\ i' = 5
          /\ pc' = "loop"
          /\ UNCHANGED <<args, n1, prime, results>>

InLoop == (i * i) % Modulus <= prime

Hit == prime % i = 0 \/ prime % ((i + 2) % Modulus) = 0

\* One evaluation of the loop's condition, with its body and increment.
Trial ==
    /\ pc = "loop"
    /\ \/ ~InLoop /\ Return(TRUE) /\ i' = i
       \/ InLoop /\ Hit /\ Return(FALSE) /\ i' = i
       \/ /\ InLoop /\ ~Hit
          /\ i' = (i + 6) % Modulus
          /\ UNCHANGED <<args, n1, prime, results, pc>>

Terminated == pc \in {"done", "aborted"} /\ UNCHANGED vars

Next == Reserve \/ NextNumber \/ Screen \/ Trial \/ Terminated

\* One thread, which the operating system keeps scheduling.
Spec == Init /\ [][Next]_vars /\ WF_vars(Next)

----------------------------------------------------------------------------

TypeOK ==
    /\ args \in Ranges
    /\ n1 \in Word /\ prime \in Word /\ i \in Word
    /\ results \in Seq(Word)
    /\ pc \in {"reserve", "while", "is_prime", "loop", "done", "aborted"}

\* The numbers main has finished with, up to the last word.
Visited ==
    start..(CASE pc \in {"is_prime", "loop"} -> prime - 1
              [] pc = "done" -> n2
              [] OTHER -> n1 - 1)

\* The squares is_prime(n) forms up to the end of its loop are machine words.
Fits(n) == \A k \in TrialDivisors(n) : (k + 6) * (k + 6) < Modulus

\* is_prime errs to one side only. No composite number ever gets into the
\* vector, although squares wrap and the loop then runs on, up to the number
\* itself if need be; a prime is rejected only if its squares do not fit. And
\* main tests both ends of the range, and nothing outside of it unless n2 is
\* the last word.
ResultsExact ==
    /\ \A n \in ToSet(results) : Prime(n) /\ (n2 # LastWord => n \in Visited)
    /\ pc # "aborted" => \A n \in Visited : Prime(n) /\ Fits(n) => n \in ToSet(results)

\* Primes are printed in increasing order, each once.
Ascending == n2 # LastWord => Increasing(results)

\* What makes the loop of is_prime right: its index never passes the candidate,
\* hence never wraps, though its square may; and no number between 2 and i
\* divides the candidate.
TrialInvariant ==
    pc = "loop" =>
        /\ i % 6 = 5
        /\ i <= prime
        /\ prime > 3
        /\ \A d \in 2..(i - 1) : ~Divides(d, prime)

\* The program ends, unless number2 is -1: then n2 is the last word, n1++ wraps
\* and never passes it, and only the exhausted memory stops the program. The
\* loop of is_prime ends for every word.
Termination ==
    <>(\/ pc = "aborted"
       \/ pc = "done" /\ n2 # LastWord)

\* The numbers for which the program can keep the promise of a prime search:
\* main can pass the end of the range, the squares fit, and so do the results.
Covered ==
    /\ n2 # LastWord
    /\ \A n \in start..n2 : Fits(n)
    /\ n2 - start < Memory

Wanted == {n \in start..n2 : Covered /\ Prime(n)}

\* For such a range the program does what every prime search promises.
Search == INSTANCE PrimeSearch WITH
    wanted <- Wanted,
    found  <- IF Covered THEN ToSet(results) ELSE {},
    status <- CASE Covered /\ pc = "done" -> "finished"
                [] Covered /\ pc = "aborted" -> "aborted"
                [] OTHER -> "running"

SearchSpec == Search!Spec
====
