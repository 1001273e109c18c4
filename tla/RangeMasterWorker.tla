---- MODULE RangeMasterWorker ----
(***************************************************************************)
(* The two master-workers whose tasks are ranges of numbers:               *)
(*   "mw2"  ClassWork4/primes_master-worker2.cpp                           *)
(*   "map"  ClassWork4/my_primes_master_worker_map.cpp                     *)
(* Both cut [n1, n2) into one range per worker, send each as a heap-       *)
(* allocated task, let the worker fill the task's vector with the primes   *)
(* of its range, and merge the vectors in the emitter as they come back.   *)
(* They differ in how they cut, in whom they send to, and in what runs     *)
(* before the farm. A pointer to a task is modelled by the loop index      *)
(* under which the task was allocated.                                     *)
(***************************************************************************)
EXTENDS PrimeTest, FeedbackFarm, Functions

CONSTANT Ranges     \* the triples <<program, n1, n2>>

nw == Cardinality(Workers)

ASSUME WorkersNumbered == Workers = 0..(nw - 1)

\* No argument is negative: primes_master-worker2 would take it for a word near
\* 2^64, where the squares of is_prime do not fit.
\* primes_master-worker2 takes n2-n1 as an unsigned number. Where n2 < n1 it
\* either dies in the constructor, or, where the reservation is undefined,
\* would go on to ranges of some 2^64 numbers: those arguments are left out.
ASSUME RangesAssumption ==
    /\ Ranges \subseteq {"mw2", "map"} \X Nat \X Nat
    /\ \A r \in Ranges : r[1] = "mw2" /\ r[3] < r[2] => r[2] > 2

VARIABLES
    args,       \* the program and its range
    i,          \* loop index of the emitter's first call
    cursor,     \* where the next range starts
    tasks,      \* the heap: every task allocated and not yet deleted
    results     \* Emitter::results, Sched::vPrimes

mainVars == <<args, i, cursor, tasks, results>>
vars == <<mainVars, farmVars>>

n1 == args[2]
n2 == args[3]
IsMap == args[1] = "map"

\* Division of C, which rounds towards zero.
Quotient(a, b) == IF a >= 0 THEN a \div b ELSE -((-a) \div b)

Span(t) == tasks[t].n1..(tasks[t].n2 - 1)

\* std::upper_bound on a sorted vector: how many elements are not above x.
UpperBound(s, x) == Cardinality({k \in DOMAIN s : s[k] <= x})

Init ==
    /\ args \in Ranges
    /\ i = 0
    /\ cursor = n1
    /\ tasks = <<>>
    /\ results = <<>>
    /\ FarmInit

----------------------------------------------------------------------------
\* Mutants: plausible slips in the definitions that follow; no specification
\* uses them.

\* The vector of a task goes to the end of the results, as in a plain append.
MergeAtEnd(s, V) == s \o V

\* The last worker takes a range like the others.
DeltaStopNoRest(start) == start + Quotient(n2 - n1, nw)

\* Merging runs over the task without deleting it.
CollectNoDelete(w) ==
    /\ \E t \in Arrived(toEmitter, w) :
          /\ Feedback(w, t)
          /\ results' = results \o tasks[t].V
    /\ UNCHANGED <<args, i, cursor, tasks>>

\* Ranges overlap in one number.
EvenStopClosed(start) ==
    start + (n2 - n1) \div nw + IF ((n2 - n1) % nw) - i >= 0 THEN 1 ELSE 0

----------------------------------------------------------------------------

\* stop  = start + size + (more>0 ? 1:0); --more;
EvenStop(start) ==
    start + (n2 - n1) \div nw + IF ((n2 - n1) % nw) - i > 0 THEN 1 ELSE 0

\* The last worker takes what is left.
DeltaStop(start) == IF i = nw - 1 THEN n2 ELSE start + Quotient(n2 - n1, nw)

\* new Task_t(start, stop), with an empty vector.
New(start, stop) ==
    [t \in DOMAIN tasks \union {i} |->
        IF t = i THEN [n1 |-> start, n2 |-> stop, V |-> <<>>] ELSE tasks[t]]

\* lb->ff_send_out_to(task, i)
SendEven ==
    /\ ~IsMap /\ i < nw
    /\ tasks' = New(cursor, EvenStop(cursor))
    /\ SendOut(i, i)
    /\ cursor' = EvenStop(cursor)
    /\ i' = i + 1
    /\ UNCHANGED <<args, results>>

\* ff_send_out(new myTask(...)): whichever worker has room.
SendDelta ==
    /\ IsMap /\ i < nw
    /\ tasks' = New(cursor, DeltaStop(cursor))
    /\ \E w \in Workers : SendOut(w, i)
    /\ cursor' = cursor + Quotient(n2 - n1, nw)
    /\ i' = i + 1
    /\ UNCHANGED <<args, results>>

EndLoop == i = nw /\ EndSend /\ UNCHANGED mainVars

\* lb->broadcast_task(EOS), then GO_ON: the emitter stays alive.
BroadcastEos(w) == Broadcast(w) /\ UNCHANGED mainVars

\* results.insert(upper_bound(..., V[0]), V.begin(), V.end())
Merge(s, V) ==
    IF V = <<>> THEN s
    ELSE LET at == UpperBound(s, V[1])
         IN SubSeq(s, 1, at) \o V \o SubSeq(s, at + 1, Len(s))

\* Emitter::svc on a task that comes back: merge its primes and delete it.
Collect(w) ==
    /\ \E t \in Arrived(toEmitter, w) :
          /\ Feedback(w, t)
          /\ results' = Merge(results, tasks[t].V)
          /\ tasks' = Restrict(tasks, DOMAIN tasks \ {t})
    /\ UNCHANGED <<args, i, cursor>>

\* Worker::svc: while( (prime=n1++) < n2 ) if (is_prime(prime)) V.push_back(prime)
Work(w) ==
    /\ \E t \in Arrived(toWorker, w) :
          /\ Svc(w, t, TRUE)
          /\ tasks' = [tasks EXCEPT ![t].V = PrimesIn(Span(t))]
    /\ UNCHANGED <<args, i, cursor, results>>

\* Only primes_master-worker2 reserves room for its results.
Construct ==
    /\ \E outcome \in (IF IsMap THEN {"ok"} ELSE reserve(n1, n2)) :
          IF outcome = "ok" THEN Run ELSE Abort
    /\ UNCHANGED mainVars

EmitterStep ==
    \/ Construct
    \/ SendEven
    \/ SendDelta
    \/ EndLoop
    \/ \E w \in Workers :
          \/ BroadcastEos(w)
          \/ Collect(w)
          \/ CloseChannel(w) /\ UNCHANGED mainVars

WorkerStep(w) == Work(w) \/ (EndWorker(w) /\ UNCHANGED mainVars)

Terminated == Stopped /\ UNCHANGED vars

Next == EmitterStep \/ (\E w \in Workers : WorkerStep(w)) \/ Terminated

\* Every node is a thread of its own, kept running by the operating system.
Fairness == WF_vars(EmitterStep) /\ \A w \in Workers : WF_vars(WorkerStep(w))

Spec == Init /\ [][Next]_vars /\ Fairness

----------------------------------------------------------------------------

TaskIds == 0..(nw - 1)

TypeOK ==
    /\ args \in Ranges
    /\ i \in 0..nw
    /\ cursor \in Int
    /\ DOMAIN tasks \subseteq TaskIds
    /\ \A t \in DOMAIN tasks : tasks[t] \in [n1 : Int, n2 : Int, V : Seq(Nat)]
    /\ results \in Seq(Nat)
    /\ FarmTypeOK(TaskIds)

\* The numbers no task has been made for yet, and those of the tasks.
Remaining == IF i < nw THEN cursor..(n2 - 1) ELSE {}
OnHeap == UNION {Span(t) : t \in DOMAIN tasks}

Wanted == {n \in n1..(n2 - 1) : Prime(n)}

\* The ranges tile [n1, n2) for every quotient and remainder: what is left to
\* cut, the tasks on the heap and the merged results share no number, and
\* together hold all the primes of the range.
Tiling ==
    /\ {n \in OnHeap \union Remaining \union ToSet(results) : Prime(n)} = Wanted
    /\ \A t, u \in DOMAIN tasks : t # u => Span(t) \intersect Span(u) = {}
    /\ OnHeap \intersect (Remaining \union ToSet(results)) = {}

\* The results are strictly increasing at every moment, in whatever order the
\* tasks come back: inserting a whole vector at the upper bound of its first
\* element never interleaves two ranges.
Sorted == Increasing(results)

\* Every task on the heap is in exactly one channel, and no channel holds a
\* pointer to a deleted task: nothing is leaked, used after delete or deleted
\* twice. A task that travels back carries all the primes of its range.
Ownership ==
    /\ In(toWorker) \union In(toEmitter) = DOMAIN tasks
    /\ In(toWorker) \intersect In(toEmitter) = {}
    /\ NoCopies(toWorker) /\ NoCopies(toEmitter)
    /\ \A t \in In(toEmitter) : ToSet(tasks[t].V) = {n \in Span(t) : Prime(n)}

\* Both programs do what every prime search promises, for the numbers of
\* [n1, n2), and the farm ends on every schedule.
Search == INSTANCE PrimeSearch WITH
    wanted <- Wanted,
    found  <- ToSet(results),
    status <- CASE emitter = "ended" -> "finished"
                [] emitter = "aborted" -> "aborted"
                [] OTHER -> "running"

SearchSpec == Search!LiveSpec
====
