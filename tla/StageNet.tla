---- MODULE StageNet ----
(***************************************************************************)
(* The FastFlow graphs that the programs of ClassWork7 build from ff_Pipe  *)
(* and ff_Farm: layers of nodes, each layer one stage of a pipeline or one *)
(* row of workers. FastFlow is not part of the repository: this is its     *)
(* behaviour as the programs rely on it.                                   *)
(*                                                                         *)
(* Of two neighbouring layers one has a single node, or both are rows of   *)
(* the same pipelines and have the same number. Channels are bounded.      *)
(* A node takes tasks from any of its inputs, passes each on to one output *)
(* with room (on-demand scheduling), and ends when EOS has come on all its *)
(* inputs.                                                                 *)
(***************************************************************************)
EXTENDS Channels, FiniteSetsExt

CONSTANT QueueLen   \* entries of a channel

ASSUME QueueLenAssumption == QueueLen \in Nat \ {0}

VARIABLES
    layers,     \* each with its number of nodes and what they do to a task
    chan,       \* the tasks and marks in each channel
    hand,       \* the task each node is at work on, if any
    ended       \* the nodes whose thread has ended

netVars == <<layers, chan, hand, ended>>

\* Node k of layer l is <<l, k>>.
Nodes == UNION {{l} \X (1..layers[l].nodes) : l \in DOMAIN layers}
ops(node) == layers[node[1]].ops

\* Channel <<l, k>> leads from layer l to layer l + 1.
EdgesOf(L) == UNION {{l} \X (1..Max({L[l].nodes, L[l + 1].nodes})) : l \in 1..Len(L) - 1}
Edges == DOMAIN chan
From(e) == <<e[1], Min({e[2], layers[e[1]].nodes})>>
To(e) == <<e[1] + 1, Min({e[2], layers[e[1] + 1].nodes})>>
InEdges(node) == {e \in Edges : To(e) = node}
OutEdges(node) == {e \in Edges : From(e) = node}

IsSource(node) == node[1] = 1
IsSink(node) == node[1] = Len(layers)

Free(node) == node \in Nodes \ ended /\ hand[node] = {}

NetInit == layers = <<>> /\ chan = <<>> /\ hand = <<>> /\ ended = {}

\* run_and_wait_end() on a graph of layers L.
Launch(L) ==
    /\ layers' = L
    /\ chan' = [e \in EdgesOf(L) |-> <<>>]
    /\ hand' = [node \in UNION {{l} \X (1..L[l].nodes) : l \in DOMAIN L} |-> {}]
    /\ UNCHANGED ended

\* A free node gets task j from one of its inputs ...
Receive(node, j) ==
    /\ Free(node)
    /\ \E e \in InEdges(node) : j \in Arrived(chan, e) /\ chan' = Drop(chan, e)
    /\ hand' = [hand EXCEPT ![node] = {j}]
    /\ UNCHANGED <<layers, ended>>

\* ... or, the first node, from its own loop.
Produce(node, j) ==
    /\ Free(node) /\ IsSource(node)
    /\ hand' = [hand EXCEPT ![node] = {j}]
    /\ UNCHANGED <<layers, chan, ended>>

\* ff_send_out, or svc returns the task.
PassOn(node) ==
    /\ node \in Nodes /\ ~IsSink(node)
    /\ \E j \in hand[node], e \in OutEdges(node) :
          HasRoom(chan, e, QueueLen) /\ chan' = Put(chan, e, j)
    /\ hand' = [hand EXCEPT ![node] = {}]
    /\ UNCHANGED <<layers, ended>>

\* A free node gets task j and gives it up at once.
Discard(node, j) ==
    /\ Free(node)
    /\ \E e \in InEdges(node) : j \in Arrived(chan, e) /\ chan' = Drop(chan, e)
    /\ UNCHANGED <<layers, hand, ended>>

\* svc returns GO_ON: the task goes no further.
Finish(node) ==
    /\ hand' = [hand EXCEPT ![node] = {}]
    /\ UNCHANGED <<layers, chan, ended>>

EndNode(node) ==
    /\ Free(node)
    /\ \A e \in InEdges(node) : chan[e] # <<>> /\ Head(chan[e]) = EOS
    /\ \A e \in OutEdges(node) : HasRoom(chan, e, QueueLen)
    /\ chan' = [e \in Edges |-> IF e \in InEdges(node) THEN Tail(chan[e])
                                ELSE IF e \in OutEdges(node) THEN Append(chan[e], EOS)
                                ELSE chan[e]]
    /\ ended' = ended \union {node}
    /\ UNCHANGED <<layers, hand>>

AllEnded == layers # <<>> /\ ended = Nodes
====
