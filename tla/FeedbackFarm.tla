---- MODULE FeedbackFarm ----
(***************************************************************************)
(* The farm with feedback that primes_master-worker.cpp,                   *)
(* primes_master-worker2.cpp and my_primes_master_worker_map.cpp build:    *)
(* farm.remove_collector(); farm.wrap_around(). On its first call the      *)
(* emitter's svc sends tasks and then broadcasts EOS; afterwards the       *)
(* emitter serves what the workers send back, until each of them has       *)
(* passed EOS on. The farm belongs to FastFlow, which is not part of the   *)
(* repository: this is its behaviour as the three programs rely on it.     *)
(*                                                                         *)
(* Emitter and workers are threads; a step is one message moved.           *)
(***************************************************************************)
EXTENDS Channels, FiniteSets

CONSTANTS
    Workers,    \* the worker nodes of the farm
    QueueLen    \* entries of the channel from the emitter to a worker

ASSUME WorkersAssumption == IsFiniteSet(Workers) /\ Workers # {}
ASSUME QueueLenAssumption == QueueLen \in Nat \ {0}

VARIABLES
    emitter,    \* what the emitter's thread is doing
    toWorker,   \* channels from the emitter to the workers
    toEmitter,  \* feedback channels, which FastFlow lets grow
    running,    \* the workers whose thread has not ended
    eosSent,    \* the workers broadcast_task(EOS) has served
    eosFrom     \* the workers whose EOS the emitter has received

farmVars == <<emitter, toWorker, toEmitter, running, eosSent, eosFrom>>

FarmInit ==
    /\ emitter = "constructor"
    /\ toWorker = [w \in Workers |-> <<>>]
    /\ toEmitter = [w \in Workers |-> <<>>]
    /\ running = {}
    /\ eosSent = {}
    /\ eosFrom = {}

\* farm.run_and_wait_end() starts every node.
Run ==
    /\ emitter = "constructor"
    /\ emitter' = "send"
    /\ running' = Workers
    /\ UNCHANGED <<toWorker, toEmitter, eosSent, eosFrom>>

\* An exception in the emitter's constructor ends the program.
Abort ==
    /\ emitter = "constructor"
    /\ emitter' = "aborted"
    /\ UNCHANGED <<toWorker, toEmitter, running, eosSent, eosFrom>>

\* ff_send_out waits for room in the channel it has chosen.
SendOut(w, m) ==
    /\ emitter = "send"
    /\ HasRoom(toWorker, w, QueueLen)
    /\ toWorker' = Put(toWorker, w, m)
    /\ UNCHANGED <<emitter, toEmitter, running, eosSent, eosFrom>>

\* The emitter has sent its last task and calls broadcast_task(EOS).
EndSend ==
    /\ emitter = "send"
    /\ emitter' = "broadcast"
    /\ UNCHANGED <<toWorker, toEmitter, running, eosSent, eosFrom>>

\* broadcast_task retries the workers whose channel is full, so it serves
\* them in any order; then svc returns GO_ON.
Broadcast(w) ==
    /\ emitter = "broadcast"
    /\ w \notin eosSent
    /\ HasRoom(toWorker, w, QueueLen)
    /\ toWorker' = Put(toWorker, w, EOS)
    /\ eosSent' = eosSent \union {w}
    /\ emitter' = IF eosSent' = Workers THEN "collect" ELSE emitter
    /\ UNCHANGED <<toEmitter, running, eosFrom>>

\* Message m of worker w reaches the emitter's svc.
Feedback(w, m) ==
    /\ emitter = "collect"
    /\ m \in Arrived(toEmitter, w)
    /\ toEmitter' = Drop(toEmitter, w)
    /\ UNCHANGED <<emitter, toWorker, running, eosSent, eosFrom>>

\* The emitter's thread ends with the last EOS of the workers, and the caller
\* of run_and_wait_end goes on.
CloseChannel(w) ==
    /\ emitter = "collect"
    /\ Waiting(toEmitter, w)
    /\ Head(toEmitter[w]) = EOS
    /\ toEmitter' = Drop(toEmitter, w)
    /\ eosFrom' = eosFrom \union {w}
    /\ emitter' = IF eosFrom' = Workers THEN "ended" ELSE emitter
    /\ UNCHANGED <<toWorker, running, eosSent>>

\* Message m reaches svc of worker w, which returns a message for the emitter
\* (answer is TRUE) or GO_ON.
Svc(w, m, answer) ==
    /\ w \in running
    /\ m \in Arrived(toWorker, w)
    /\ toWorker' = Drop(toWorker, w)
    /\ toEmitter' = IF answer THEN Put(toEmitter, w, m) ELSE toEmitter
    /\ UNCHANGED <<emitter, running, eosSent, eosFrom>>

\* A worker that reads EOS passes it on and ends.
EndWorker(w) ==
    /\ w \in running
    /\ Waiting(toWorker, w)
    /\ Head(toWorker[w]) = EOS
    /\ toWorker' = Drop(toWorker, w)
    /\ toEmitter' = Put(toEmitter, w, EOS)
    /\ running' = running \ {w}
    /\ UNCHANGED <<emitter, eosSent, eosFrom>>

Stopped == emitter \in {"ended", "aborted"}

----------------------------------------------------------------------------

FarmTypeOK(Message) ==
    /\ emitter \in {"constructor", "send", "broadcast", "collect", "ended", "aborted"}
    /\ toWorker \in ChannelsOf(Workers, Message \union {EOS})
    /\ toEmitter \in ChannelsOf(Workers, Message \union {EOS})
    /\ running \subseteq Workers
    /\ eosSent \subseteq Workers
    /\ eosFrom \subseteq Workers

\* The end-of-stream protocol leaves nothing behind: a channel carries no
\* message after EOS, the channel of a worker that has ended is empty, and so
\* is the feedback channel of a worker the emitter has stopped listening to.
EosIsLast ==
    /\ \A w \in Workers : EosAtEnd(toWorker[w]) /\ EosAtEnd(toEmitter[w])
    /\ emitter # "constructor" =>
          \A w \in Workers \ running : toWorker[w] = <<>>
    /\ \A w \in eosFrom : w \notin running /\ toEmitter[w] = <<>>
====
