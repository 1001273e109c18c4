---- MODULE SchedFarm ----
(***************************************************************************)
(* ClassWork4/my_primes_master_worker.cpp: a pipeline of Stage0 and a farm *)
(* with feedback. Stage0 allocates a task for each number; Sched, the      *)
(* emitter of the farm, tells by the channel a task comes from whether it  *)
(* is new (channel -1: on to some worker) or an answer (a prime: printed   *)
(* and deleted). EOS is not sent by Sched's svc but by its eosnotify, on   *)
(* every end of stream it is told of: Stage0's, and those of the workers,  *)
(* which by then have ended.                                               *)
(*                                                                         *)
(* A pointer to a task is modelled by the number Stage0 allocated it for.  *)
(* Stage0, Sched and the workers are threads; a step is one message moved. *)
(***************************************************************************)
EXTENDS PrimeTest, Channels, FiniteSets

CONSTANTS
    Ranges,     \* the pairs <<start, stop>> of the command line
    Workers,
    QueueLen    \* entries of a channel, but for those back to Sched

ASSUME RangesAssumption == Ranges \subseteq Int \X Int

\* The number of a task stands for a pointer, and no pointer equals the mark.
ASSUME TaskAssumption == EOS \notin Int

\* Sched broadcasts EOS to workers that have ended, whose channels nobody
\* empties any more: a channel has to hold the EOS of every worker.
ASSUME WorkersAssumption == IsFiniteSet(Workers) /\ Workers # {}
ASSUME QueueLenAssumption == QueueLen \in Nat /\ QueueLen >= Cardinality(Workers)

VARIABLES
    args,       \* the command line
    i,          \* the loop index of Stage0::svc
    stage0,     \* "sending" or "ended"
    input,      \* the channel from Stage0 to Sched
    toWorker,   \* channels from Sched to the workers
    toSched,    \* feedback channels, which FastFlow lets grow
    running,    \* the workers whose thread has not ended
    sched,      \* "serve", "forward", "notify" or "ended"
    held,       \* the task svc has returned and FastFlow not yet sent
    toNotify,   \* the workers the current broadcast_task has not served
    eosFrom,    \* the workers whose EOS Sched has been told of
    tasks,      \* the tasks on the heap
    printed     \* the lines Sched has printed

stageVars == <<i, stage0>>
schedVars == <<sched, held, toNotify, eosFrom, printed>>
channels == <<input, toWorker, toSched>>
vars == <<args, stageVars, schedVars, channels, running, tasks>>

start == args[1]
stop == args[2]

Init ==
    /\ args \in Ranges
    /\ i = start /\ stage0 = "sending"
    /\ input = <<>>
    /\ toWorker = [w \in Workers |-> <<>>]
    /\ toSched = [w \in Workers |-> <<>>]
    /\ running = Workers
    /\ sched = "serve" /\ held = {} /\ toNotify = {} /\ eosFrom = {}
    /\ tasks = {} /\ printed = <<>>

----------------------------------------------------------------------------
\* Mutants: plausible slips in the definitions that follow; no specification
\* uses them.

\* for(long i=start; i<stop; ++i)
EndStage0Short ==
    /\ stage0 = "sending" /\ i >= stop /\ Len(input) < QueueLen
    /\ input' = Append(input, EOS)
    /\ stage0' = "ended"
    /\ UNCHANGED <<args, i, schedVars, toWorker, toSched, running, tasks>>

\* The number is printed, its task not deleted.
PrintPrimeNoDelete(w) ==
    /\ sched = "serve"
    /\ \E t \in Arrived(toSched, w) : printed' = Append(printed, t)
    /\ toSched' = Drop(toSched, w)
    /\ UNCHANGED <<args, stageVars, sched, held, toNotify, eosFrom, input, toWorker,
                   running, tasks>>

\* svc broadcasts EOS behind an answer, as eosnotify does.
PrintPrimeNotifies(w) ==
    /\ sched = "serve"
    /\ \E t \in Arrived(toSched, w) :
          /\ printed' = Append(printed, t)
          /\ tasks' = tasks \ {t}
    /\ toSched' = Drop(toSched, w)
    /\ sched' = "notify" /\ toNotify' = Workers
    /\ UNCHANGED <<args, stageVars, held, eosFrom, input, toWorker, running>>

----------------------------------------------------------------------------

\* ff_send_out(new long(i));
Generate ==
    /\ stage0 = "sending" /\ i <= stop /\ Len(input) < QueueLen
    /\ tasks' = tasks \union {i}
    /\ input' = Append(input, i)
    /\ i' = i + 1
    /\ UNCHANGED <<args, stage0, schedVars, toWorker, toSched, running>>

\* return EOS;
EndStage0 ==
    /\ stage0 = "sending" /\ i > stop /\ Len(input) < QueueLen
    /\ input' = Append(input, EOS)
    /\ stage0' = "ended"
    /\ UNCHANGED <<args, i, schedVars, toWorker, toSched, running, tasks>>

\* Sched::svc on channel -1 returns the task ...
FromStage0 ==
    /\ sched = "serve" /\ input # <<>> /\ Head(input) # EOS
    /\ held' = {Head(input)}
    /\ sched' = "forward"
    /\ input' = Tail(input)
    /\ UNCHANGED <<args, stageVars, toNotify, eosFrom, printed, toWorker, toSched, running, tasks>>

\* ... and FastFlow sends it to some worker with room.
Forward ==
    /\ sched = "forward"
    /\ \E w \in Workers, t \in held :
          HasRoom(toWorker, w, QueueLen) /\ toWorker' = Put(toWorker, w, t)
    /\ held' = {}
    /\ sched' = "serve"
    /\ UNCHANGED <<args, stageVars, toNotify, eosFrom, printed, input, toSched, running, tasks>>

\* Sched::svc on the channel of a worker.
PrintPrime(w) ==
    /\ sched = "serve"
    /\ \E t \in Arrived(toSched, w) :
          /\ printed' = Append(printed, t)
          /\ tasks' = tasks \ {t}
    /\ toSched' = Drop(toSched, w)
    /\ UNCHANGED <<args, stageVars, sched, held, toNotify, eosFrom, input, toWorker, running>>

\* Sched::eosnotify, told of the end of Stage0 ...
NotifyStage0 ==
    /\ sched = "serve" /\ input # <<>> /\ Head(input) = EOS
    /\ input' = Tail(input)
    /\ sched' = "notify" /\ toNotify' = Workers
    /\ UNCHANGED <<args, stageVars, held, eosFrom, printed, toWorker, toSched, running, tasks>>

\* ... and of the end of a worker.
NotifyWorker(w) ==
    /\ sched = "serve" /\ Waiting(toSched, w) /\ Head(toSched[w]) = EOS
    /\ toSched' = Drop(toSched, w)
    /\ sched' = "notify" /\ toNotify' = Workers
    /\ eosFrom' = eosFrom \union {w}
    /\ UNCHANGED <<args, stageVars, held, printed, input, toWorker, running, tasks>>

\* lb->broadcast_task(EOS), one worker at a time; the thread of Sched ends
\* with the notification of the last worker.
Broadcast(w) ==
    /\ sched = "notify" /\ w \in toNotify
    /\ HasRoom(toWorker, w, QueueLen)
    /\ toWorker' = Put(toWorker, w, EOS)
    /\ toNotify' = toNotify \ {w}
    /\ sched' = CASE toNotify' # {} -> "notify"
                  [] toNotify' = {} /\ eosFrom = Workers -> "ended"
                  [] OTHER -> "serve"
    /\ UNCHANGED <<args, stageVars, held, eosFrom, printed, input, toSched, running, tasks>>

\* Worker::svc: the task of a prime goes back; any other is forgotten, neither
\* passed on nor deleted.
Work(w) ==
    /\ w \in running
    /\ \E task \in Arrived(toWorker, w) :
          toSched' = IF is_prime(task) THEN Put(toSched, w, task) ELSE toSched
    /\ toWorker' = Drop(toWorker, w)
    /\ UNCHANGED <<args, stageVars, schedVars, input, running, tasks>>

EndWorker(w) ==
    /\ w \in running /\ Waiting(toWorker, w) /\ Head(toWorker[w]) = EOS
    /\ toWorker' = Drop(toWorker, w)
    /\ toSched' = Put(toSched, w, EOS)
    /\ running' = running \ {w}
    /\ UNCHANGED <<args, stageVars, schedVars, input, tasks>>

Stage0Step == Generate \/ EndStage0
SchedStep ==
    \/ FromStage0
    \/ Forward
    \/ NotifyStage0
    \/ \E w \in Workers : PrintPrime(w) \/ NotifyWorker(w) \/ Broadcast(w)
WorkerStep(w) == Work(w) \/ EndWorker(w)

\* run_and_wait_end() returns when all threads have ended.
Stopped == stage0 = "ended" /\ sched = "ended" /\ running = {}

Terminated == Stopped /\ UNCHANGED vars

Next == Stage0Step \/ SchedStep \/ (\E w \in Workers : WorkerStep(w)) \/ Terminated

\* Every node is a thread of its own, kept running by the operating system.
Fairness ==
    /\ WF_vars(Stage0Step) /\ WF_vars(SchedStep)
    /\ \A w \in Workers : WF_vars(WorkerStep(w))

Spec == Init /\ [][Next]_vars /\ Fairness

----------------------------------------------------------------------------

Generated == {n \in start..stop : n < i}
Wanted == {n \in start..stop : Prime(n)}

\* The tasks on their way to a worker.
Untested == (ToSet(input) \ {EOS}) \union held \union In(toWorker)

\* Every task has one owner: primes are on their way to a worker, on their way
\* back, or printed and deleted; the rest is on its way to a worker, or has
\* been tested and stays on the heap for ever. Nothing is used after delete.
OneOwner ==
    /\ tasks = Generated \ ToSet(printed)
    /\ Untested \union In(toSched) \subseteq tasks
    /\ \A n \in Generated \ Untested : Prime(n) <=> n \in In(toSched) \union ToSet(printed)
    /\ NoCopies(toWorker) /\ NoCopies(toSched)
    /\ Untested \intersect In(toSched) = {}
    /\ IsInjective(printed)

\* However often EOS is broadcast, it does no harm: behind it come only other
\* marks, the workers it would reach twice have ended, and each worker passes
\* it on once.
HarmlessEos ==
    \A w \in Workers :
        /\ \A j, k \in DOMAIN toWorker[w] :
              j < k /\ toWorker[w][j] = EOS => toWorker[w][k] = EOS
        /\ w \notin running => ToSet(toWorker[w]) \subseteq {EOS}
        /\ EosAtEnd(toSched[w])
        /\ w \in eosFrom => w \notin running /\ toSched[w] = <<>>

\* The pipeline does what every prime search promises, and all its threads
\* end, although the emitter keeps sending to workers that do not listen any
\* more.
Search == INSTANCE PrimeSearch WITH
    wanted <- Wanted,
    found  <- ToSet(printed),
    status <- IF Stopped THEN "finished" ELSE "running"

SearchSpec == Search!LiveSpec
====
