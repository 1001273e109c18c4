---- MODULE ParallelSearch ----
(***************************************************************************)
(* The two prime searches of ClassWork5 over a parallel loop:              *)
(*   "parallelfor"   primes_parallelfor.cpp                                *)
(*   "my"            my_primes_parallelfor.cpp                             *)
(* Every thread collects the primes of its iterations in a vector of its   *)
(* own. After the loop the first program merges the vectors and sorts; the *)
(* second prints them one after the other.                                 *)
(***************************************************************************)
EXTENDS PrimeTest, ParallelLoop, Functions, SequencesExt

\* Pairs <<program, arguments>>; the last argument, print, is 1 for "on".
CONSTANT CommandLines

\* FastFlow decides what a loop over no workers does, and what a negative
\* chunk means. Negative numbers become words near 2^64, and so they are left
\* out; so is the greatest long for n2, since the end of the loop, n2 + 1, is
\* computed in unsigned words and handed to the loop as a long.
ASSUME CommandLinesAssumption ==
    \A c \in CommandLines :
        /\ c[1] \in {"parallelfor", "my"}
        /\ c[2] \in Seq(Nat)
        /\ Len(c[2]) >= 3 => c[2][3] >= 1

VARIABLES
    cmd,        \* the program and its arguments
    main,       \* where main is
    R,          \* the vectors of the threads
    i,          \* index of the merging loop
    results

vars == <<cmd, main, R, i, results, loopVars>>

args == cmd[2]
n1 == args[1]
n2 == args[2]
nworkers == args[3]
IsMy == cmd[1] = "my"

Less(a, b) == a < b

Init ==
    /\ cmd \in CommandLines
    /\ main = "parse"
    /\ R = <<>>
    /\ i = 0
    /\ results = <<>>
    /\ NoLoop

----------------------------------------------------------------------------
\* Mutants: plausible slips in the definitions that follow; no specification
\* uses them.

\* The loop of primes_parallelfor stops at n2.
LoopEndShort == n2

\* my_primes_parallelfor with a chunk of one, for better balance.
ChunkFine == 1

----------------------------------------------------------------------------

LoopEnd == IF IsMy THEN n2 ELSE n2 + 1

chunk == IF ~IsMy /\ Len(args) >= 4 THEN args[4] ELSE 0

\* The program reads an argument nobody gave: argc >= 4 holds for the shortest
\* documented command line, argv[4] is its end, and a std::string made of it
\* throws.
ReadsPastArguments == IsMy /\ Len(args) = 3

\* main up to the parallel loop.
Start ==
    /\ main = "parse"
    /\ \/ Len(args) < 3 /\ main' = "usage" /\ UNCHANGED <<R, loopVars>>
       \/ /\ Len(args) >= 3
          /\ \E outcome \in IF ReadsPastArguments THEN {"abort"}
                            ELSE IF IsMy THEN {"ok"} ELSE reserve(n1, n2) :
                IF outcome = "abort"
                THEN main' = "aborted" /\ UNCHANGED <<R, loopVars>>
                ELSE /\ main' = "loop"
                     /\ R' = [w \in 0..nworkers - 1 |-> <<>>]
                     /\ StartLoop(nworkers, n1, LoopEnd, chunk)
    /\ UNCHANGED <<cmd, i, results>>

TakeChunk(w) ==
    /\ main = "loop"
    /\ Deal(w, chunk)
    /\ UNCHANGED <<cmd, main, R, i, results>>

\* if (is_prime(i)) R[idx].push_back(i);
Test(w) ==
    /\ main = "loop"
    /\ Iterate(w)
    /\ R' = IF is_prime(share[w].from) THEN [R EXCEPT ![w] = Append(@, share[w].from)] ELSE R
    /\ UNCHANGED <<cmd, main, i, results>>

EndLoop ==
    /\ main = "loop" /\ LoopDone
    /\ main' = IF IsMy THEN "exit" ELSE "merge"
    /\ UNCHANGED <<cmd, R, i, results, loopVars>>

\* std::upper_bound, which searches results as if it were sorted: chunk by
\* chunk it need not be, and then the place is any.
UpperBounds(x) ==
    IF IsSorted(results, Less)
    THEN {Cardinality({k \in DOMAIN results : results[k] <= x})}
    ELSE 0..Len(results)

\* One turn of the merging loop. R[i][0] does not exist when the thread has
\* found no prime. Its vector has never had room for one, so the reference is
\* to address 0; it is read unless results is empty.
Merge ==
    /\ main = "merge" /\ i < nworkers
    /\ \/ R[i] # <<>>
          /\ \E at \in UpperBounds(R[i][1]) :
                results' = SubSeq(results, 1, at) \o R[i] \o SubSeq(results, at + 1, Len(results))
          /\ i' = i + 1
          /\ UNCHANGED main
       \/ R[i] = <<>> /\ results = <<>> /\ i' = i + 1 /\ UNCHANGED <<main, results>>
       \/ R[i] = <<>> /\ results # <<>> /\ main' = "crashed" /\ UNCHANGED <<i, results>>
    /\ UNCHANGED <<cmd, R, loopVars>>

\* std::sort: a number goes to the place that counts the numbers it follows,
\* and itself.
Sorted(s) ==
    LET Place(j) == Cardinality({l \in DOMAIN s : s[l] < s[j] \/ (s[l] = s[j] /\ l <= j)})
    IN  [k \in DOMAIN s |-> s[CHOOSE j \in DOMAIN s : Place(j) = k]]

Sort ==
    /\ main = "merge" /\ i = nworkers
    /\ results' = Sorted(results)
    /\ main' = "exit"
    /\ UNCHANGED <<cmd, R, i, loopVars>>

\* What the program prints at the end.
Output == IF IsMy THEN FlattenSeq([w \in 1..nworkers |-> R[w - 1]]) ELSE results

MainStep == Start \/ EndLoop \/ Merge \/ Sort
ThreadStep(w) == TakeChunk(w) \/ Test(w)

Stopped == main \in {"exit", "usage", "aborted", "crashed"}
Terminated == Stopped /\ UNCHANGED vars

Next == MainStep \/ (\E w \in Threads : ThreadStep(w)) \/ Terminated

\* main and the threads of the loop are kept running by the operating system.
MaxThreads == Max({1} \union {c[2][3] : c \in {x \in CommandLines : Len(x[2]) >= 3}})
Fairness ==
    /\ WF_vars(MainStep)
    /\ \A w \in 0..MaxThreads - 1 : WF_vars(w \in Threads /\ ThreadStep(w))

Spec == Init /\ [][Next]_vars /\ Fairness

----------------------------------------------------------------------------

\* The numbers each program looks at: [n1, n2] and [n1, n2).
Wanted == {n \in n1..(IF IsMy THEN n2 - 1 ELSE n2) : Prime(n)}

\* What is printed is strictly increasing and complete, for every number of
\* threads and every way the loop deals out its iterations: in the second
\* program, which does not sort, because an even share holds smaller numbers
\* than the share of the next thread. The first prints nothing, although it
\* has found all primes, if one thread has found none and one before it some;
\* and only then.
PrintedInOrder ==
    /\ main = "exit" =>
          /\ \A j, k \in DOMAIN Output : j < k => Output[j] < Output[k]
          /\ ToSet(Output) = Wanted
    /\ main \in {"exit", "crashed"} /\ ~IsMy =>
          (main = "crashed" <=> \E v, w \in DOMAIN R : v < w /\ R[v] # <<>> /\ R[w] = <<>>)

\* Both programs do what every prime search promises. A crash while merging
\* comes when all primes have been found and stops the search short of its
\* end; it never gives a wrong result. A program that only prints its usage
\* line has given up. However the iterations are dealt out, it stops.
Search == INSTANCE PrimeSearch WITH
    wanted <- Wanted,
    found  <- UNION {ToSet(R[w]) : w \in DOMAIN R},
    status <- CASE main = "exit" -> "finished"
                [] main \in {"usage", "aborted"} -> "aborted"
                [] OTHER -> "running"

SearchSpec == Search!Spec /\ <>Stopped
====
