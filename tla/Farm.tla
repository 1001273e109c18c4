---- MODULE Farm ----
(***************************************************************************)
(* The FastFlow farm with an emitter, workers and a collector that         *)
(* ff_Farm<>(workers, emitter, collector) builds; ff_Pipe<>(a, b, c) is    *)
(* the same with one worker. FastFlow is not part of the repository: this  *)
(* is its behaviour as the programs rely on it.                            *)
(*                                                                         *)
(* The emitter generates the stream inside one call of its svc and returns *)
(* EOS; a worker may send in the middle of its svc, so taking a task and   *)
(* giving one are separate steps; the collector serves the workers in any  *)
(* order and ends when each has sent EOS. Channels are bounded: whoever    *)
(* sends waits for room.                                                   *)
(***************************************************************************)
EXTENDS Channels, FiniteSets

CONSTANT QueueLen   \* entries of a channel

ASSUME QueueLenAssumption == QueueLen \in Nat \ {0}

VARIABLES
    source,       \* the emitter: "idle", "sending", "closing" or "closed"
    toWorker,     \* channels from the emitter to the workers
    fromWorker,   \* channels from the workers to the collector
    running,      \* the workers whose thread has not ended
    eosFrom       \* the workers whose EOS the collector has received

farmVars == <<source, toWorker, fromWorker, running, eosFrom>>

Nodes == DOMAIN toWorker

FarmInit ==
    /\ source = "idle"
    /\ toWorker = <<>> /\ fromWorker = <<>>
    /\ running = {} /\ eosFrom = {}

\* run_and_wait_end() on a farm of the workers W.
Start(W) ==
    /\ source = "idle"
    /\ source' = "sending"
    /\ toWorker' = [w \in W |-> <<>>]
    /\ fromWorker' = [w \in W |-> <<>>]
    /\ running' = W
    /\ UNCHANGED eosFrom

\* ff_send_out(m) in the emitter: to some worker with room.
Emit(m) ==
    /\ source = "sending"
    /\ \E w \in Nodes :
          HasRoom(toWorker, w, QueueLen) /\ toWorker' = Put(toWorker, w, m)
    /\ UNCHANGED <<source, fromWorker, running, eosFrom>>

\* The emitter's svc returns EOS, which FastFlow delivers to every worker.
Close ==
    /\ source = "sending"
    /\ source' = "closing"
    /\ UNCHANGED <<toWorker, fromWorker, running, eosFrom>>

DeliverEos ==
    /\ source = "closing"
    /\ \A w \in Nodes : HasRoom(toWorker, w, QueueLen)
    /\ toWorker' = [w \in Nodes |-> Append(toWorker[w], EOS)]
    /\ source' = "closed"
    /\ UNCHANGED <<fromWorker, running, eosFrom>>

\* Task m reaches svc of worker w.
Take(w, m) ==
    /\ w \in running
    /\ m \in Arrived(toWorker, w)
    /\ toWorker' = Drop(toWorker, w)
    /\ UNCHANGED <<source, running, eosFrom>>

\* ff_send_out(m) in worker w.
Give(w, m) == HasRoom(fromWorker, w, QueueLen) /\ fromWorker' = Put(fromWorker, w, m)

\* A worker that reads EOS passes it on and ends.
EndWorker(w) ==
    /\ w \in running
    /\ Waiting(toWorker, w)
    /\ Head(toWorker[w]) = EOS
    /\ Give(w, EOS)
    /\ toWorker' = Drop(toWorker, w)
    /\ running' = running \ {w}
    /\ UNCHANGED <<source, eosFrom>>

\* Message m of worker w reaches the collector's svc.
Gather(w, m) ==
    /\ m \in Arrived(fromWorker, w)
    /\ fromWorker' = Drop(fromWorker, w)
    /\ UNCHANGED <<source, toWorker, running, eosFrom>>

GatherEos(w) ==
    /\ Waiting(fromWorker, w)
    /\ Head(fromWorker[w]) = EOS
    /\ fromWorker' = Drop(fromWorker, w)
    /\ eosFrom' = eosFrom \union {w}
    /\ UNCHANGED <<source, toWorker, running>>

\* All threads have ended: run_and_wait_end() returns.
Joined == source = "closed" /\ running = {} /\ eosFrom = Nodes
====
