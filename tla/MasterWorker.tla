---- MODULE MasterWorker ----
(***************************************************************************)
(* ClassWork4/primes_master-worker.cpp. On its first call Emitter::svc     *)
(* sends every number of the range to some worker and then EOS to all of   *)
(* them; on every later call it stores the number it receives.             *)
(* Worker::svc returns the numbers that are prime and answers GO_ON,       *)
(* nothing, for the others.                                                *)
(*                                                                         *)
(* The emitter's first call is a step for each number it sends, since the  *)
(* workers run while it is sending; any other call of a svc is one step.   *)
(***************************************************************************)
EXTENDS PrimeTest, FeedbackFarm

CONSTANT Ranges     \* the pairs <<number1, number2>> of the command line

\* Numbers travel as pointers. Number 0 would be a null pointer, which is no
\* task for FastFlow; a negative argument becomes a word near 2^64, and -1 the
\* mark of the end of stream itself. Other arguments lie below 2^63, where
\* words are the numbers and the squares of is_prime fit.
ASSUME RangesAssumption == Ranges \subseteq (Nat \ {0}) \X Nat

VARIABLES
    args,       \* the command line
    n1,         \* Emitter::n1, the next number to send
    results     \* Emitter::results

vars == <<args, n1, results, emitter, toWorker, toEmitter, running, eosSent, eosFrom>>
n2 == args[2]

Init ==
    /\ args \in Ranges
    /\ n1 = args[1]
    /\ results = <<>>
    /\ FarmInit

----------------------------------------------------------------------------
\* Mutants: plausible slips in the definitions that follow; no specification
\* uses them.

\* while( (n=n1++) < n2 ): the last number is never sent.
SendNextShort ==
    /\ n1' = n1 + 1
    /\ \/ n1 < n2 /\ \E w \in Workers : SendOut(w, n1)
       \/ n1 >= n2 /\ EndSend
    /\ UNCHANGED <<args, results>>

\* The loop ends without the broadcast.
SendNextNoEos ==
    /\ n1 <= n2
    /\ n1' = n1 + 1
    /\ \E w \in Workers : SendOut(w, n1)
    /\ UNCHANGED <<args, results>>

\* A full channel is skipped and the number with it.
SendNextLossy ==
    /\ n1' = n1 + 1
    /\ \/ n1 <= n2 /\ \E w \in Workers : SendOut(w, n1)
       \/ n1 <= n2 /\ emitter = "send" /\ UNCHANGED farmVars
       \/ n1 > n2 /\ EndSend
    /\ UNCHANGED <<args, results>>

\* EOS goes out while the emitter is still sending.
BroadcastEosEarly(w) ==
    /\ emitter \in {"send", "broadcast"}
    /\ w \notin eosSent
    /\ HasRoom(toWorker, w, QueueLen)
    /\ toWorker' = Put(toWorker, w, EOS)
    /\ eosSent' = eosSent \union {w}
    /\ emitter' = IF emitter = "broadcast" /\ eosSent' = Workers THEN "collect" ELSE emitter
    /\ UNCHANGED <<args, n1, results, toEmitter, running, eosFrom>>

----------------------------------------------------------------------------

\* Emitter's constructor reserves room for the results, then the farm runs.
Construct ==
    /\ \E outcome \in reserve(n1, n2) : IF outcome = "ok" THEN Run ELSE Abort
    /\ UNCHANGED <<args, n1, results>>

\* while( (n=n1++) <= n2 ) ff_send_out( (void*)n);
SendNext ==
    /\ n1' = n1 + 1
    /\ \/ n1 <= n2 /\ \E w \in Workers : SendOut(w, n1)
       \/ n1 > n2 /\ EndSend
    /\ UNCHANGED <<args, results>>

\* lb->broadcast_task(EOS), then GO_ON: the emitter stays alive.
BroadcastEos(w) == Broadcast(w) /\ UNCHANGED <<args, n1, results>>

\* Emitter::svc on a number some worker sent back.
Store(w) ==
    /\ \E x \in Arrived(toEmitter, w) : Feedback(w, x) /\ results' = Append(results, x)
    /\ UNCHANGED <<args, n1>>

\* Worker::svc: a prime goes back, anything else is dropped.
Work(w) ==
    /\ \E in \in Arrived(toWorker, w) : Svc(w, in, is_prime(in))
    /\ UNCHANGED <<args, n1, results>>

EmitterStep ==
    \/ Construct
    \/ SendNext
    \/ \E w \in Workers :
          \/ BroadcastEos(w)
          \/ Store(w)
          \/ CloseChannel(w) /\ UNCHANGED <<args, n1, results>>

WorkerStep(w) == Work(w) \/ (EndWorker(w) /\ UNCHANGED <<args, n1, results>>)

Terminated == Stopped /\ UNCHANGED vars

Next == EmitterStep \/ (\E w \in Workers : WorkerStep(w)) \/ Terminated

\* Every node is a thread of its own, kept running by the operating system.
Fairness == WF_vars(EmitterStep) /\ \A w \in Workers : WF_vars(WorkerStep(w))

Spec == Init /\ [][Next]_vars /\ Fairness

----------------------------------------------------------------------------

TypeOK ==
    /\ args \in Ranges
    /\ n1 \in Nat
    /\ results \in Seq(Nat)
    /\ FarmTypeOK(Nat)

\* The numbers sent so far, and those the program is to find.
Sent == {n \in args[1]..n2 : n < n1}
Wanted == {n \in args[1]..n2 : Prime(n)}

\* No prime is lost and nothing else gets through: at any moment the primes
\* sent are exactly those that wait in a channel or are in the vector, and
\* the vector and the feedback channels hold nothing but them.
Conserved ==
    /\ {n \in Sent : Prime(n)} =
          {n \in In(toWorker) : Prime(n)} \union In(toEmitter) \union ToSet(results)
    /\ In(toWorker) \subseteq Sent

\* A number is in one place only, and once, whatever worker it was given to:
\* no prime is reported twice.
AtMostOnce ==
    /\ NoCopies(toWorker) /\ NoCopies(toEmitter) /\ IsInjective(results)
    /\ In(toWorker) \intersect In(toEmitter) = {}
    /\ (In(toWorker) \union In(toEmitter)) \intersect ToSet(results) = {}

\* The farm ends on every schedule: the emitter sends its range even when all
\* channels fill up, and the feedback edge does not keep emitter and workers
\* waiting for each other.
Termination == <>Stopped

\* The farm does what every prime search promises.
Search == INSTANCE PrimeSearch WITH
    wanted <- Wanted,
    found  <- ToSet(results),
    status <- CASE emitter = "ended" -> "finished"
                [] emitter = "aborted" -> "aborted"
                [] OTHER -> "running"

SearchSpec == Search!Spec
====
