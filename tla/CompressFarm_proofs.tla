---- MODULE CompressFarm_proofs ----
(***************************************************************************)
(* The file compressors of ClassWork3 for every command line, every number *)
(* of workers and every length of the channels, whatever fails: who may    *)
(* use and free what, what the archives hold, what is lost at the end, and *)
(* that every input is settled once, as StreamJob promises.                *)
(*                                                                         *)
(* MemorySafe alone is not inductive. That a task sent is new needs that   *)
(* tasks are of inputs before i (Heap); that the writer leaves nothing to  *)
(* a compressor that has sent a task and not yet unmapped its file needs   *)
(* that the compressor runs until then (Heap), and that all has been given *)
(* back at the end needs that a worker ends only with nothing left to read *)
(* and the collector after it (EosProtocol).                               *)
(***************************************************************************)
EXTENDS CompressFarm, Shared_proofs

----------------------------------------------------------------------------
\* The farm, whatever its messages are.

Messages == Nat \union {EOS}

FarmType ==
    /\ source \in {"idle", "sending", "closing", "closed"}
    /\ source = "idle" => toWorker = <<>>
    /\ toWorker \in ChannelsOf(Nodes, Messages)
    /\ fromWorker \in ChannelsOf(Nodes, Messages)
    /\ running \subseteq Nodes /\ eosFrom \subseteq Nodes

\* The mark goes to the workers when the emitter has closed the stream, a
\* worker that has read it is done, and sends nothing after its own.
EosProtocol ==
    \A w \in Nodes :
        /\ EosAtEnd(toWorker[w]) /\ EosAtEnd(fromWorker[w])
        /\ EOS \in ToSet(toWorker[w]) => source = "closed"
        /\ w \notin running => source = "closed" /\ toWorker[w] = <<>>
        /\ w \in running => EOS \notin ToSet(fromWorker[w])
        /\ w \in eosFrom => w \notin running /\ fromWorker[w] = <<>>

FarmInv == FarmType /\ EosProtocol

LEMMA FarmChannels ==
    ASSUME FarmInv
    PROVE  /\ toWorker \in ChannelsOf(Nodes, Messages)
           /\ fromWorker \in ChannelsOf(Nodes, Messages)
           /\ EOS \in Messages /\ Nat \subseteq Messages
BY DEF FarmInv, FarmType, Messages

LEMMA FarmTypes ==
    ASSUME FarmInv
    PROVE  /\ toWorker \in ChannelsOf(Nodes, Messages) /\ DOMAIN toWorker = Nodes
           /\ fromWorker \in ChannelsOf(Nodes, Messages) /\ DOMAIN fromWorker = Nodes
           /\ \A w \in Nodes : toWorker[w] \in Seq(Messages) /\ fromWorker[w] \in Seq(Messages)
           /\ EOS \in Messages /\ \A j \in Nat : j \in Messages /\ j # EOS
           /\ \A j \in In(toWorker) \union In(fromWorker) : j \in Nat
<1>1. /\ toWorker \in ChannelsOf(Nodes, Messages) /\ fromWorker \in ChannelsOf(Nodes, Messages)
      /\ DOMAIN toWorker = Nodes
  BY DEF FarmInv, FarmType, Nodes
<1>2. /\ DOMAIN fromWorker = Nodes
      /\ \A w \in Nodes : toWorker[w] \in Seq(Messages) /\ fromWorker[w] \in Seq(Messages)
  BY <1>1, ChannelProperties
<1>3. \A w \in Nodes : ToSet(toWorker[w]) \subseteq Messages /\ ToSet(fromWorker[w]) \subseteq Messages
  BY <1>2, ToSetOfSeq
<1>4. \A j \in In(toWorker) \union In(fromWorker) : j \in Nat
  BY <1>1, <1>2, <1>3 DEF In, Messages
<1> QED BY <1>1, <1>2, <1>4, EOSAssumption DEF Messages

\* The mark sent on every channel at once.
LEMMA MarkAllProperties ==
    ASSUME NEW W, NEW S, NEW ch \in ChannelsOf(W, S), EOS \in S,
           NEW all, all = [w \in W |-> Append(ch[w], EOS)]
    PROVE  /\ all \in ChannelsOf(W, S)
           /\ \A w \in W : /\ ToSet(all[w]) = ToSet(ch[w]) \union {EOS}
                           /\ EOS \notin ToSet(ch[w]) => EosAtEnd(all[w])
           /\ In(all) = In(ch)
           /\ NoCopies(ch) => NoCopies(all)
<1>1. /\ DOMAIN ch = W /\ DOMAIN all = W
      /\ \A w \in W : ch[w] \in Seq(S) /\ all[w] = Append(ch[w], EOS)
  BY ChannelProperties
<1>2. all \in ChannelsOf(W, S)
  BY <1>1 DEF ChannelsOf
<1>3. \A w \in W : /\ ToSet(all[w]) = ToSet(ch[w]) \union {EOS}
                   /\ EOS \notin ToSet(ch[w]) => EosAtEnd(all[w])
  BY <1>1, ToSetOfAppend, EosAtEndOfAppend
<1>4. In(all) = In(ch)
  BY <1>1, <1>3 DEF In
<1>5. ASSUME NoCopies(ch) PROVE NoCopies(all)
  <2>1. SUFFICES ASSUME NEW v \in W, NEW w \in W,
                        NEW j \in DOMAIN all[v], NEW k \in DOMAIN all[w],
                        all[v][j] = all[w][k], all[v][j] # EOS
                 PROVE  v = w /\ j = k
    BY <1>1 DEF NoCopies
  <2>2. \A x \in W : \A l \in DOMAIN all[x] :
            all[x][l] # EOS => l \in DOMAIN ch[x] /\ all[x][l] = ch[x][l]
    BY <1>1
  <2> QED BY <1>1, <1>5, <2>1, <2>2 DEF NoCopies
<1> QED BY <1>2, <1>3, <1>4, <1>5

\* Before the farm is started it has no channels.
LEMMA NoNodes ==
    ASSUME FarmInv, source = "idle"
    PROVE  Nodes = {} /\ running = {} /\ eosFrom = {}
           /\ In(toWorker) = {} /\ In(fromWorker) = {}
<1>1. Nodes = {}
  BY DEF FarmInv, FarmType, Nodes
<1> QED BY <1>1, FarmTypes DEF FarmInv, FarmType, In

LEMMA StartStep ==
    ASSUME FarmInv, NEW W, Start(W)
    PROVE  /\ FarmInv'
           /\ NoCopies(toWorker') /\ NoCopies(fromWorker')
           /\ In(toWorker') = {} /\ In(fromWorker') = {}
<1>1. /\ toWorker' = [w \in W |-> <<>>] /\ fromWorker' = [w \in W |-> <<>>]
      /\ source' = "sending" /\ running' = W /\ eosFrom' = {}
  BY NoNodes DEF Start
<1>2. Nodes' = W
  BY <1>1 DEF Nodes
<1>3. FarmType'
  <2>1. [w \in W |-> <<>>] \in ChannelsOf(W, Messages)
    BY DEF ChannelsOf
  <2>2. toWorker' \in ChannelsOf(W, Messages)
    BY <1>1, <2>1
  <2>3. fromWorker' \in ChannelsOf(W, Messages)
    BY <1>1, <2>1
  <2>4. Messages' = Messages
    BY DEF Messages
  <2> QED BY <1>1, <1>2, <2>2, <2>3, <2>4 DEF FarmType, ChannelsOf
<1>4. EosProtocol'
  BY <1>1, <1>2, ToSetOfEmpty, EosAtEndOfEmpty DEF EosProtocol
<1>5. /\ NoCopies(toWorker') /\ NoCopies(fromWorker')
      /\ In(toWorker') = {} /\ In(fromWorker') = {}
  BY <1>1, ToSetOfEmpty DEF NoCopies, In
<1> QED BY <1>3, <1>4, <1>5 DEF FarmInv

LEMMA EmitStep ==
    ASSUME FarmInv, NEW m \in Nat, m \notin In(toWorker), NoCopies(toWorker), Emit(m)
    PROVE  /\ FarmInv'
           /\ NoCopies(toWorker') /\ In(toWorker') = In(toWorker) \union {m}
           /\ source = "sending" /\ UNCHANGED <<fromWorker, running, source, eosFrom>>
<1>1. PICK w \in Nodes : toWorker' = Put(toWorker, w, m)
  BY DEF Emit
<1>2. /\ source = "sending" /\ UNCHANGED <<fromWorker, running, source, eosFrom>>
      /\ m \in Messages
  BY FarmChannels DEF Emit
<1>3. /\ toWorker' \in ChannelsOf(Nodes, Messages)
      /\ \A v \in Nodes \ {w} : toWorker'[v] = toWorker[v]
      /\ ToSet(toWorker'[w]) = ToSet(toWorker[w]) \union {m}
      /\ EOS \notin ToSet(toWorker[w]) => EosAtEnd(toWorker'[w])
      /\ In(toWorker') = In(toWorker) \union ({m} \ {EOS})
  <2>1. toWorker \in ChannelsOf(Nodes, Messages)
    BY FarmChannels
  <2>2. /\ Put(toWorker, w, m) \in ChannelsOf(Nodes, Messages)
        /\ \A v \in Nodes \ {w} : Put(toWorker, w, m)[v] = toWorker[v]
        /\ ToSet(Put(toWorker, w, m)[w]) = ToSet(toWorker[w]) \union {m}
        /\ EOS \notin ToSet(toWorker[w]) => EosAtEnd(Put(toWorker, w, m)[w])
        /\ In(Put(toWorker, w, m)) = In(toWorker) \union ({m} \ {EOS})
    BY <1>2, <2>1, PutProperties
  <2> QED BY <1>1, <2>2, Zenon
<1>4. NoCopies(toWorker') /\ In(toWorker') = In(toWorker) \union {m}
  BY <1>1, <1>3, FarmTypes, PutNoCopies
<1>5. Nodes' = Nodes
  BY <1>3, ChannelProperties DEF Nodes
<1>6. FarmType'
  BY <1>2, <1>3, <1>5 DEF FarmInv, FarmType, Messages, Nodes
<1>7. \A v \in Nodes : EOS \notin ToSet(toWorker'[v]) /\ EosAtEnd(toWorker'[v]) /\ v \in running
  BY <1>2, <1>3, FarmTypes DEF FarmInv, EosProtocol
<1>8. EosProtocol'
  BY <1>2, <1>5, <1>7 DEF FarmInv, EosProtocol
<1> QED BY <1>2, <1>3, <1>4, <1>6, <1>8 DEF FarmInv

LEMMA CloseStep ==
    ASSUME FarmInv, Close
    PROVE  FarmInv' /\ source' = "closing" /\ UNCHANGED <<toWorker, fromWorker, running, eosFrom>>
<1>1. /\ source = "sending" /\ source' = "closing"
      /\ UNCHANGED <<toWorker, fromWorker, running, eosFrom>> /\ Nodes' = Nodes
  BY DEF Close, Nodes
<1> QED BY <1>1 DEF FarmInv, FarmType, EosProtocol, Messages

LEMMA DeliverStep ==
    ASSUME FarmInv, DeliverEos
    PROVE  /\ FarmInv'
           /\ NoCopies(toWorker) => NoCopies(toWorker')
           /\ In(toWorker') = In(toWorker)
           /\ source = "closing" /\ source' = "closed"
           /\ UNCHANGED <<fromWorker, running, eosFrom>>
<1>1. /\ toWorker' = [w \in Nodes |-> Append(toWorker[w], EOS)]
      /\ source = "closing" /\ source' = "closed"
      /\ UNCHANGED <<fromWorker, running, eosFrom>>
  BY DEF DeliverEos
<1>2. /\ toWorker' \in ChannelsOf(Nodes, Messages)
      /\ \A w \in Nodes : EOS \notin ToSet(toWorker[w]) => EosAtEnd(toWorker'[w])
      /\ NoCopies(toWorker) => NoCopies(toWorker')
      /\ In(toWorker') = In(toWorker)
  BY <1>1, FarmTypes, MarkAllProperties
<1>3. Nodes' = Nodes
  BY <1>2, ChannelProperties DEF Nodes
<1>4. FarmType'
  BY <1>1, <1>2, <1>3 DEF FarmInv, FarmType, Messages, Nodes
<1>5. \A w \in Nodes : EosAtEnd(toWorker'[w]) /\ w \in running
  BY <1>1, <1>2 DEF FarmInv, EosProtocol
<1>6. EosProtocol'
  BY <1>1, <1>3, <1>5 DEF FarmInv, EosProtocol
<1> QED BY <1>1, <1>2, <1>4, <1>6 DEF FarmInv

LEMMA TakeStep ==
    ASSUME FarmInv, NEW w \in Nodes, NEW j \in Arrived(toWorker, w), NoCopies(toWorker),
           Take(w, j),
           \/ UNCHANGED fromWorker
           \/ Give(w, j) /\ NoCopies(fromWorker) /\ j \notin In(fromWorker)
    PROVE  /\ FarmInv'
           /\ j \in Nat /\ w \in running
           /\ NoCopies(toWorker')
           /\ In(toWorker) = In(toWorker') \union {j} /\ j \notin In(toWorker')
           /\ Give(w, j) => NoCopies(fromWorker') /\ In(fromWorker') = In(fromWorker) \union {j}
           /\ UNCHANGED <<source, running, eosFrom>>
<1>1. /\ w \in running /\ toWorker' = Drop(toWorker, w)
      /\ UNCHANGED <<source, running, eosFrom>>
  BY DEF Take
<1>2. Waiting(toWorker, w) /\ Head(toWorker[w]) = j /\ j \in Messages /\ j # EOS
  BY FarmTypes, ArrivedProperties
<1>3. /\ toWorker' \in ChannelsOf(Nodes, Messages)
      /\ \A v \in Nodes \ {w} : toWorker'[v] = toWorker[v]
      /\ ToSet(toWorker[w]) = ToSet(toWorker'[w]) \union {j}
      /\ EosAtEnd(toWorker[w]) => EosAtEnd(toWorker'[w])
      /\ In(toWorker) = In(toWorker') \union {j}
  BY <1>1, <1>2, FarmChannels, DropProperties
<1>4. NoCopies(toWorker') /\ j \notin In(toWorker')
  BY <1>1, <1>2, FarmTypes, DropNoCopies
<1>5. Nodes' = Nodes
  BY <1>3, ChannelProperties DEF Nodes
<1>6. CASE Give(w, j) /\ NoCopies(fromWorker) /\ j \notin In(fromWorker)
  <2>1. fromWorker' = Put(fromWorker, w, j)
    BY <1>6 DEF Give
  <2>2. /\ fromWorker' \in ChannelsOf(Nodes, Messages)
        /\ \A v \in Nodes \ {w} : fromWorker'[v] = fromWorker[v]
        /\ ToSet(fromWorker'[w]) = ToSet(fromWorker[w]) \union {j}
        /\ EOS \notin ToSet(fromWorker[w]) => EosAtEnd(fromWorker'[w])
        /\ In(fromWorker') = In(fromWorker) \union ({j} \ {EOS})
    <3>1. fromWorker \in ChannelsOf(Nodes, Messages)
      BY FarmChannels
    <3>2. /\ Put(fromWorker, w, j) \in ChannelsOf(Nodes, Messages)
          /\ \A v \in Nodes \ {w} : Put(fromWorker, w, j)[v] = fromWorker[v]
          /\ ToSet(Put(fromWorker, w, j)[w]) = ToSet(fromWorker[w]) \union {j}
          /\ EOS \notin ToSet(fromWorker[w]) => EosAtEnd(Put(fromWorker, w, j)[w])
          /\ In(Put(fromWorker, w, j)) = In(fromWorker) \union ({j} \ {EOS})
      BY <1>2, <3>1, PutProperties
    <3> QED BY <2>1, <3>2, Zenon
  <2>3. NoCopies(fromWorker')
    BY <1>2, <1>6, <2>1, FarmTypes, PutNoCopies
  <2>4. FarmType'
    BY <1>1, <1>3, <1>5, <2>2 DEF FarmInv, FarmType, Messages, Nodes
  <2>5. EosProtocol'
    BY <1>1, <1>2, <1>3, <1>5, <2>2 DEF FarmInv, EosProtocol
  <2> QED BY <1>1, <1>2, <1>3, <1>4, <2>2, <2>3, <2>4, <2>5 DEF FarmInv, Messages
<1>7. CASE UNCHANGED fromWorker /\ ~Give(w, j)
  <2>1. FarmType'
    BY <1>1, <1>3, <1>5, <1>7 DEF FarmInv, FarmType, Messages, Nodes
  <2>2. EosProtocol'
    BY <1>1, <1>2, <1>3, <1>5, <1>7 DEF FarmInv, EosProtocol
  <2> QED BY <1>1, <1>2, <1>3, <1>4, <1>7, <2>1, <2>2 DEF FarmInv, Messages
<1>8. CASE UNCHANGED fromWorker /\ Give(w, j)
  <2>1. fromWorker' = [fromWorker EXCEPT ![w] = Append(@, j)]
    BY <1>8 DEF Give, Put
  <2>2. fromWorker[w] \in Seq(Messages) /\ fromWorker[w] = Append(fromWorker[w], j)
    BY <1>8, <2>1, FarmTypes
  <2>3. Len(fromWorker[w]) = Len(fromWorker[w]) + 1 /\ Len(fromWorker[w]) \in Nat
    BY <1>2, <2>2
  <2> QED BY <2>3
<1> QED BY <1>6, <1>7, <1>8

LEMMA EndWorkerStep ==
    ASSUME FarmInv, NEW w \in Nodes, NoCopies(toWorker), NoCopies(fromWorker), EndWorker(w)
    PROVE  /\ FarmInv'
           /\ NoCopies(toWorker') /\ In(toWorker') = In(toWorker)
           /\ NoCopies(fromWorker') /\ In(fromWorker') = In(fromWorker)
           /\ running' = running \ {w} /\ UNCHANGED <<source, eosFrom>>
           /\ running # {}
<1>1. /\ w \in running /\ Waiting(toWorker, w) /\ Head(toWorker[w]) = EOS
      /\ toWorker' = Drop(toWorker, w) /\ fromWorker' = Put(fromWorker, w, EOS)
      /\ running' = running \ {w} /\ UNCHANGED <<source, eosFrom>>
  BY DEF EndWorker, Give
<1>2. /\ toWorker' \in ChannelsOf(Nodes, Messages)
      /\ \A v \in Nodes \ {w} : toWorker'[v] = toWorker[v]
      /\ ToSet(toWorker[w]) = ToSet(toWorker'[w]) \union {EOS}
      /\ EosAtEnd(toWorker[w]) => toWorker'[w] = <<>>
      /\ In(toWorker) = In(toWorker') \union ({EOS} \ {EOS})
  BY <1>1, FarmChannels, DropProperties
<1>3. NoCopies(toWorker')
  BY <1>1, FarmTypes, DropNoCopies
<1>4. /\ fromWorker' \in ChannelsOf(Nodes, Messages)
      /\ \A v \in Nodes \ {w} : fromWorker'[v] = fromWorker[v]
      /\ EOS \notin ToSet(fromWorker[w]) => EosAtEnd(fromWorker'[w])
      /\ In(fromWorker') = In(fromWorker) \union ({EOS} \ {EOS})
  BY <1>1, FarmChannels, PutProperties
<1>5. NoCopies(fromWorker')
  <2>1. EOS \notin In(fromWorker)
    BY DEF In
  <2> QED BY <1>1, <2>1, FarmTypes, PutNoCopies
<1>6. Nodes' = Nodes
  BY <1>2, ChannelProperties DEF Nodes
<1>7. FarmType'
  BY <1>1, <1>2, <1>4, <1>6 DEF FarmInv, FarmType, Messages, Nodes
<1>8. /\ source = "closed" /\ toWorker'[w] = <<>> /\ EosAtEnd(fromWorker'[w]) /\ w \notin eosFrom
  BY <1>1, <1>2, <1>4 DEF FarmInv, EosProtocol
<1>9. EosProtocol'
  BY <1>1, <1>2, <1>4, <1>6, <1>8, ToSetOfEmpty, EosAtEndOfEmpty DEF FarmInv, EosProtocol
<1> QED BY <1>1, <1>2, <1>3, <1>4, <1>5, <1>7, <1>9 DEF FarmInv

LEMMA GatherStep ==
    ASSUME FarmInv, NEW w \in Nodes, NEW m, NoCopies(fromWorker), Gather(w, m)
    PROVE  /\ FarmInv'
           /\ NoCopies(fromWorker') /\ In(fromWorker) = In(fromWorker') \union {m}
           /\ m \notin In(fromWorker') /\ m \in Nat
           /\ w \notin eosFrom
           /\ UNCHANGED <<source, toWorker, running, eosFrom>>
<1>1. /\ m \in Arrived(fromWorker, w) /\ fromWorker' = Drop(fromWorker, w)
      /\ UNCHANGED <<source, toWorker, running, eosFrom>>
  BY DEF Gather
<1>2. Waiting(fromWorker, w) /\ Head(fromWorker[w]) = m /\ m \in Messages /\ m # EOS
  BY <1>1, FarmTypes, ArrivedProperties
<1>3. /\ fromWorker' \in ChannelsOf(Nodes, Messages)
      /\ \A v \in Nodes \ {w} : fromWorker'[v] = fromWorker[v]
      /\ ToSet(fromWorker[w]) = ToSet(fromWorker'[w]) \union {m}
      /\ EosAtEnd(fromWorker[w]) => EosAtEnd(fromWorker'[w])
      /\ In(fromWorker) = In(fromWorker') \union {m}
  BY <1>1, <1>2, FarmChannels, DropProperties
<1>4. NoCopies(fromWorker') /\ m \notin In(fromWorker')
  BY <1>1, <1>2, FarmTypes, DropNoCopies
<1>5. Nodes' = Nodes
  BY <1>1 DEF Nodes
<1>6. w \notin eosFrom
  BY <1>2 DEF FarmInv, EosProtocol, Waiting
<1>7. FarmType'
  BY <1>1, <1>3, <1>5 DEF FarmInv, FarmType, Messages, Nodes
<1>8. EosProtocol'
  BY <1>1, <1>3, <1>5, <1>6 DEF FarmInv, EosProtocol
<1> QED BY <1>1, <1>2, <1>3, <1>4, <1>6, <1>7, <1>8 DEF FarmInv, Messages

LEMMA GatherEosStep ==
    ASSUME FarmInv, NEW w \in Nodes, NoCopies(fromWorker), GatherEos(w)
    PROVE  /\ FarmInv'
           /\ NoCopies(fromWorker') /\ In(fromWorker') = In(fromWorker)
           /\ w \notin eosFrom /\ eosFrom' = eosFrom \union {w}
           /\ UNCHANGED <<source, toWorker, running>>
<1>1. /\ Waiting(fromWorker, w) /\ Head(fromWorker[w]) = EOS
      /\ fromWorker' = Drop(fromWorker, w) /\ eosFrom' = eosFrom \union {w}
      /\ UNCHANGED <<source, toWorker, running>>
  BY DEF GatherEos
<1>2. /\ fromWorker' \in ChannelsOf(Nodes, Messages)
      /\ \A v \in Nodes \ {w} : fromWorker'[v] = fromWorker[v]
      /\ ToSet(fromWorker[w]) = ToSet(fromWorker'[w]) \union {EOS}
      /\ EosAtEnd(fromWorker[w]) => fromWorker'[w] = <<>>
      /\ In(fromWorker) = In(fromWorker') \union ({EOS} \ {EOS})
  BY <1>1, FarmChannels, DropProperties
<1>3. NoCopies(fromWorker')
  BY <1>1, FarmTypes, DropNoCopies
<1>4. Nodes' = Nodes
  BY <1>1 DEF Nodes
<1>5. w \notin eosFrom /\ w \notin running /\ fromWorker'[w] = <<>>
  BY <1>1, <1>2 DEF FarmInv, EosProtocol, Waiting
<1>6. FarmType'
  BY <1>1, <1>2, <1>4 DEF FarmInv, FarmType, Messages, Nodes
<1>7. EosProtocol'
  BY <1>1, <1>2, <1>4, <1>5, EosAtEndOfEmpty DEF FarmInv, EosProtocol
<1> QED BY <1>1, <1>2, <1>3, <1>5, <1>6, <1>7 DEF FarmInv

LEMMA FarmStutter ==
    ASSUME FarmInv, UNCHANGED farmVars
    PROVE  FarmInv'
BY DEF farmVars, FarmInv, FarmType, EosProtocol, Nodes, Messages

\* When all threads have ended nothing is on its way.
LEMMA NothingLeft ==
    ASSUME FarmInv, Joined
    PROVE  In(toWorker) = {} /\ In(fromWorker) = {}
<1>1. \A w \in Nodes : toWorker[w] = <<>> /\ fromWorker[w] = <<>>
  BY DEF FarmInv, EosProtocol, Joined
<1> QED BY <1>1, FarmTypes, ToSetOfEmpty DEF In

----------------------------------------------------------------------------
\* The compressors.

\* How main, the loop of Read and the farm go together.
Control ==
    /\ cmd \in CommandLines
    /\ main \in {"parse", "running", "exit", "usage", "error"}
    /\ i \in Nat
    /\ source = "idle" <=> main \in {"parse", "usage", "error"}
    /\ source # "idle" => ~Usage
    /\ source \in {"closing", "closed"} => i >= num_files
    /\ main = "exit" => Joined

\* Tasks are made for the inputs read so far; a compressor that has still to
\* unmap a file runs, and the file's task has left the first channels.
Heap ==
    /\ MemorySafe
    /\ \A j \in DOMAIN tasks : j \in Inputs /\ j < i /\ Mappable(j)
    /\ unmapping \subseteq running \X (0..(i - 1))
    /\ \A p \in unmapping : p[2] \notin In(toWorker)

\* Descriptors stay open for a reason.
Descriptors ==
    \A d \in fds : IF d[1] = "in" THEN ~Mappable(d[2]) ELSE d[2] \in failed

Inv == FarmInv /\ Control /\ Heap /\ Archives /\ Descriptors

\* The command line stays as it is.
LEMMA SameCommand ==
    ASSUME UNCHANGED cmd
    PROVE  /\ argv' = argv /\ start' = start /\ num_files' = num_files
           /\ (Usage' <=> Usage) /\ Inputs' = Inputs
           /\ \A j : Path(j)' = Path(j) /\ (Mappable(j)' <=> Mappable(j))
<1>1. argv' = argv /\ cmd' = cmd
  BY DEF argv
<1>2. start' = start /\ num_files' = num_files /\ (Usage' <=> Usage)
  BY <1>1 DEF start, farmStart, num_files, farmFiles, argc, Usage
<1>3. \A j : Path(j)' = Path(j)
  BY <1>1, <1>2 DEF Path
<1> QED BY <1>1, <1>2, <1>3 DEF Inputs, Mappable

LEMMA LengthType ==
    ASSUME Control
    PROVE  num_files \in Int /\ (~Usage => Inputs = 0..(num_files - 1))
<1>1. argc \in Nat
  BY FilesAssumption DEF Control, argc, argv
<1> QED BY <1>1 DEF num_files, farmFiles, farmStart, Inputs

LEMMA InitInv == Init => Inv
<1> SUFFICES ASSUME Init PROVE Inv
  OBVIOUS
<1>1. /\ cmd \in CommandLines /\ main = "parse" /\ i = 0
      /\ tasks = <<>> /\ maps = {} /\ bufs = {} /\ unmapping = {}
      /\ fds = {} /\ out = <<>> /\ failed = {}
      /\ source = "idle" /\ toWorker = <<>> /\ fromWorker = <<>>
      /\ running = {} /\ eosFrom = {}
  BY DEF Init, FarmInit
<1>2. DOMAIN tasks = {} /\ DOMAIN out = {} /\ Nodes = {} /\ DOMAIN fromWorker = {}
  BY <1>1 DEF Nodes
<1>3. FarmInv
  BY <1>1, <1>2 DEF FarmInv, FarmType, EosProtocol, ChannelsOf
<1>4. Control
  BY <1>1 DEF Control
<1>5. In(toWorker) = {} /\ In(fromWorker) = {} /\ NoCopies(toWorker) /\ NoCopies(fromWorker)
  BY <1>1, <1>2 DEF In, NoCopies, Nodes
<1>6. Heap
  BY <1>1, <1>2, <1>5 DEF Heap, MemorySafe
<1>7. Delivered = {}
  <2>1. \A j \in Inputs : ~(j < i)
    BY <1>1, <1>4, LengthType DEF Inputs
  <2> QED BY <2>1 DEF Delivered
<1>8. Archives /\ Descriptors
  BY <1>1, <1>2, <1>7 DEF Archives, Descriptors
<1> QED BY <1>3, <1>4, <1>6, <1>8 DEF Inv

----------------------------------------------------------------------------
\* Steps that leave parts of the state as they are.

LEMMA HeapSame ==
    ASSUME Heap, UNCHANGED <<cmd, i, memVars>>,
           NoCopies(toWorker'), NoCopies(fromWorker'),
           In(toWorker') = In(toWorker), In(fromWorker') = In(fromWorker),
           \A p \in unmapping : p[1] \in running'
    PROVE  Heap'
<1>1. UNCHANGED <<cmd, i, tasks, maps, bufs, unmapping>>
  BY DEF memVars
<1>2. MemorySafe'
  BY <1>1 DEF Heap, MemorySafe
<1>3. unmapping' \subseteq running' \X (0..(i' - 1))
  <2>1. SUFFICES ASSUME NEW p \in unmapping PROVE p \in running' \X (0..(i - 1))
    BY <1>1
  <2>2. p \in running \X (0..(i - 1)) /\ p[1] \in running'
    BY DEF Heap
  <2> QED BY <2>2
<1> QED BY <1>1, <1>2, <1>3, SameCommand DEF Heap

LEMMA FilesSame ==
    ASSUME Archives, Descriptors, UNCHANGED <<cmd, out, failed>>,
           Delivered' = Delivered,
           \A d \in fds' \ fds : d[1] = "in" /\ ~Mappable(d[2])
    PROVE  Archives' /\ Descriptors'
<1>1. Archives'
  BY SameCommand DEF Archives
<1>2. Descriptors'
  BY SameCommand DEF Descriptors
<1> QED BY <1>1, <1>2

LEMMA DeliveredSame ==
    ASSUME UNCHANGED <<cmd, i>>, DOMAIN tasks' = DOMAIN tasks
    PROVE  Delivered' = Delivered
BY SameCommand DEF Delivered

\* An input is delivered, and its archive written or its failure reported.
LEMMA FilesWritten ==
    ASSUME Archives, Descriptors, UNCHANGED cmd, NEW j,
           Delivered' = Delivered \union {j},
           writeFile(j) \/ (failed' = failed \union {j} /\ UNCHANGED <<fds, out>>)
    PROVE  Archives' /\ Descriptors'
<1> DEFINE base == BaseName[Path(j)]
           holds == [n \in DOMAIN out \union {base} |-> IF n = base THEN j ELSE out[n]]
<1>1. \/ out' = out /\ failed' = failed \union {j} /\ fds' = fds
      \/ out' = holds /\ failed' = failed \union {j} /\ fds' = fds \union {<<"out", j>>}
      \/ out' = holds /\ UNCHANGED <<fds, failed>>
  BY DEF writeFile
<1>2. Descriptors'
  BY <1>1, SameCommand DEF Descriptors
<1>3. CASE out' = out /\ failed' = failed \union {j}
  BY <1>2, <1>3, SameCommand DEF Archives
<1>4. CASE out' = holds /\ failed \subseteq failed'
  <2>1. /\ DOMAIN out' = DOMAIN out \union {base} /\ out'[base] = j
        /\ \A n \in DOMAIN out : n # base => out'[n] = out[n]
    BY <1>4
  <2>2. argv' = argv /\ start' = start /\ \A k : Path(k) = argv[start + k + 1]
    BY SameCommand DEF Path
  <2> HIDE DEF holds
  <2>3. \A n \in DOMAIN out' : BaseName[Path(out'[n])] = n /\ out'[n] \in Delivered'
    <3>1. TAKE n \in DOMAIN out'
    <3>2. CASE n = base
      BY <2>1, <3>2
    <3>3. CASE n # base
      BY <2>1, <3>3 DEF Archives
    <3> QED BY <3>2, <3>3
  <2>4. \A k \in Delivered' \ failed' : BaseName[Path(k)] \in DOMAIN out'
    BY <1>4, <2>1 DEF Archives
  <2> QED BY <1>2, <2>2, <2>3, <2>4 DEF Archives, Path
<1> QED BY <1>1, <1>3, <1>4

----------------------------------------------------------------------------
\* The steps of main, Read, Compressor and Write.

LEMMA Parts ==
    ASSUME Inv
    PROVE  /\ FarmInv /\ Control /\ Heap /\ MemorySafe /\ Archives /\ Descriptors
           /\ NoCopies(toWorker) /\ NoCopies(fromWorker)
           /\ \A p \in unmapping : p[1] \in running /\ p[2] \in 0..(i - 1) /\ p[2] \notin In(toWorker)
           /\ \A j \in DOMAIN tasks : j \in Inputs /\ j < i /\ Mappable(j)
           /\ i \notin DOMAIN tasks
<1>1. \A p \in unmapping : p \in running \X (0..(i - 1)) /\ p[2] \notin In(toWorker)
  BY DEF Inv, Heap
<1>2. i \notin DOMAIN tasks
  BY DEF Inv, Heap, Control
<1> QED BY <1>1, <1>2 DEF Inv, Heap, MemorySafe

\* Steps after which the channels hold the same tasks, and the rest of the
\* program is where it was.
LEMMA ChannelsOnlyInv ==
    ASSUME Inv, FarmInv', Control', UNCHANGED <<cmd, i, memVars, fileVars>>,
           NoCopies(toWorker'), NoCopies(fromWorker'),
           In(toWorker') = In(toWorker), In(fromWorker') = In(fromWorker),
           \A p \in unmapping : p[1] \in running'
    PROVE  Inv'
<1>1. Heap'
  BY Parts, HeapSame
<1>2. Delivered' = Delivered
  BY DeliveredSame DEF memVars
<1>3. Archives' /\ Descriptors'
  BY <1>2, Parts, FilesSame DEF fileVars
<1> QED BY <1>1, <1>3 DEF Inv

LEMMA MainInv ==
    ASSUME Inv, Main
    PROVE  Inv'
<1>1. /\ main = "parse" /\ source = "idle" /\ UNCHANGED <<cmd, i, memVars, fileVars>>
      /\ Control /\ FarmInv
  BY DEF Main, Inv, Control
<1>2. unmapping = {}
  BY <1>1, Parts, NoNodes
<1>3. CASE main' \in {"usage", "error"} /\ UNCHANGED farmVars
  <2>1. FarmInv' /\ UNCHANGED <<source, toWorker, fromWorker, running>>
    BY <1>1, <1>3, FarmStutter DEF farmVars
  <2>2. Control'
    BY <1>1, <1>3, <2>1, SameCommand DEF Control
  <2> QED BY <1>1, <1>2, <2>1, <2>2, Parts, ChannelsOnlyInv
<1>4. CASE ~Usage /\ main' = "running" /\ Start(1..nworkers)
  <2>1. /\ FarmInv' /\ NoCopies(toWorker') /\ NoCopies(fromWorker')
        /\ In(toWorker') = In(toWorker) /\ In(fromWorker') = In(fromWorker)
        /\ source' = "sending"
    BY <1>1, <1>4, StartStep, NoNodes DEF Start
  <2>2. Control'
    BY <1>1, <1>4, <2>1, SameCommand DEF Control
  <2> QED BY <1>1, <1>2, <2>1, <2>2, ChannelsOnlyInv
<1> QED BY <1>3, <1>4 DEF Main

LEMMA SkipInv ==
    ASSUME Inv, Skip
    PROVE  Inv'
<1>1. /\ source = "sending" /\ i < num_files /\ ~Mappable(i) /\ i' = i + 1
      /\ UNCHANGED <<cmd, main, tasks, maps, bufs, unmapping, out, failed, farmVars>>
      /\ \A d \in fds' \ fds : d = <<"in", i>>
  BY DEF Skip, memVars
<1>2. UNCHANGED <<source, toWorker, fromWorker, running, eosFrom>> /\ FarmInv' /\ i \in Nat
  BY <1>1, Parts, FarmStutter DEF farmVars, Control
<1>3. Control'
  BY <1>1, <1>2, Parts, SameCommand DEF Control, Joined
<1>4. Heap'
  <2>1. MemorySafe'
    BY <1>1, <1>2, Parts DEF MemorySafe
  <2>2. unmapping' \subseteq running' \X (0..(i' - 1))
    <3>1. ASSUME NEW p \in unmapping PROVE p \in running \X (0..i)
      <4>1. p \in running \X (0..(i - 1))
        BY DEF Inv, Heap
      <4> QED BY <1>2, <4>1
    <3> QED BY <1>1, <1>2, <3>1
  <2>3. \A j \in DOMAIN tasks : j \in Inputs /\ j < i + 1 /\ Mappable(j)
    <3>1. \A j \in Inputs : j \in Int
      BY LengthType, Parts DEF Inputs
    <3> QED BY <1>2, <3>1, Parts
  <2> QED BY <1>1, <1>2, <2>1, <2>2, <2>3, Parts, SameCommand DEF Heap
<1>5. Delivered' = Delivered
  <2>1. \A j \in Inputs : j < i + 1 <=> j < i \/ j = i
    BY <1>1, <1>2, LengthType, Parts DEF Inputs
  <2> QED BY <1>1, <2>1, SameCommand DEF Delivered
<1>6. Archives' /\ Descriptors'
  BY <1>1, <1>5, Parts, FilesSame
<1> QED BY <1>2, <1>3, <1>4, <1>6 DEF Inv

LEMMA ReadInv ==
    ASSUME Inv, Read
    PROVE  Inv' /\ Delivered' = Delivered /\ In(toWorker') = In(toWorker) \union {i}
<1>1. /\ i < num_files /\ Mappable(i) /\ Emit(i) /\ i' = i + 1
      /\ maps' = maps \union {i}
      /\ DOMAIN tasks' = DOMAIN tasks \union {i}
      /\ tasks'[i] = "map" /\ \A j \in DOMAIN tasks : j # i => tasks'[j] = tasks[j]
      /\ UNCHANGED <<cmd, main, bufs, unmapping, fileVars>>
  BY DEF Read
<1>2. i \in Nat /\ i \notin DOMAIN tasks /\ i \notin In(toWorker) /\ i \notin In(fromWorker)
  BY Parts DEF Control, MemorySafe
<1>3. /\ FarmInv' /\ source = "sending" /\ UNCHANGED <<fromWorker, running, source, eosFrom>>
      /\ NoCopies(toWorker') /\ In(toWorker') = In(toWorker) \union {i}
  BY <1>1, <1>2, Parts, EmitStep
<1>4. Control'
  BY <1>1, <1>2, <1>3, Parts, SameCommand DEF Control, Joined
<1>5. i \in Inputs
  BY <1>1, <1>2, <1>3, Parts, LengthType DEF Control
<1>6. MemorySafe'
  <2>1. In(fromWorker') = In(fromWorker) /\ NoCopies(fromWorker')
    BY <1>3, Parts
  <2>2. In(toWorker') \intersect In(fromWorker') = {}
    BY <1>2, <1>3, <2>1, Parts DEF MemorySafe
  <2>3. In(toWorker') \union In(fromWorker') \subseteq DOMAIN tasks'
    BY <1>1, <1>3, <2>1, Parts DEF MemorySafe
  <2>4. \A j \in DOMAIN tasks' : tasks'[j] = IF j \in In(fromWorker') THEN "buf" ELSE "map"
    BY <1>1, <1>2, <2>1, Parts DEF MemorySafe
  <2>5. maps' = In(toWorker') \union {p[2] : p \in unmapping'}
    BY <1>1, <1>3, Parts DEF MemorySafe
  <2> QED BY <1>1, <1>3, <2>1, <2>2, <2>3, <2>4, <2>5, Parts DEF MemorySafe
<1>7. Heap'
  <2>1. \A j \in DOMAIN tasks' : j \in Inputs /\ j < i + 1 /\ Mappable(j)
    <3>1. \A j \in DOMAIN tasks : j \in Inputs /\ j < i + 1 /\ Mappable(j)
      <4>1. \A j \in Inputs : j \in Int
        BY LengthType, Parts DEF Inputs
      <4> QED BY <1>2, <4>1, Parts
    <3> QED BY <1>1, <1>2, <1>5, <3>1
  <2>2. ASSUME NEW p \in unmapping PROVE p \in running \X (0..i) /\ p[2] \notin In(toWorker')
    <3>1. p \in running \X (0..(i - 1)) /\ p[2] \notin In(toWorker)
      BY DEF Inv, Heap
    <3> QED BY <1>2, <1>3, <3>1
  <2> QED BY <1>1, <1>2, <1>3, <1>6, <2>1, <2>2, SameCommand DEF Heap
<1>8. Delivered' = Delivered
  <2>1. \A j \in Inputs : j < i + 1 <=> j < i \/ j = i
    BY <1>2, LengthType, Parts DEF Inputs
  <2> QED BY <1>1, <1>2, <2>1, SameCommand DEF Delivered
<1>9. Archives' /\ Descriptors'
  BY <1>1, <1>8, Parts, FilesSame DEF fileVars
<1> QED BY <1>3, <1>4, <1>7, <1>8, <1>9 DEF Inv

LEMMA EndReadInv ==
    ASSUME Inv, EndRead
    PROVE  Inv'
<1>1. /\ i >= num_files /\ Close /\ UNCHANGED <<cmd, main, i, memVars, fileVars>>
  BY DEF EndRead
<1>2. /\ FarmInv' /\ source = "sending" /\ source' = "closing"
      /\ UNCHANGED <<toWorker, fromWorker, running, eosFrom>>
  BY <1>1, Parts, CloseStep DEF Close
<1>3. Control'
  BY <1>1, <1>2, Parts, SameCommand DEF Control, Joined
<1> QED BY <1>1, <1>2, <1>3, Parts, ChannelsOnlyInv

LEMMA DeliverEosInv ==
    ASSUME Inv, DeliverEos, UNCHANGED <<cmd, main, i, memVars, fileVars>>
    PROVE  Inv'
<1>1. /\ FarmInv' /\ source = "closing" /\ source' = "closed"
      /\ NoCopies(toWorker') /\ In(toWorker') = In(toWorker)
      /\ UNCHANGED <<fromWorker, running, eosFrom>>
  BY Parts, DeliverStep
<1>2. Control'
  BY <1>1, Parts, SameCommand DEF Control, Joined
<1> QED BY <1>1, <1>2, Parts, ChannelsOnlyInv

LEMMA ExitInv ==
    ASSUME Inv, Exit
    PROVE  Inv'
<1>1. /\ main = "running" /\ main' = "exit" /\ Joined
      /\ UNCHANGED <<cmd, i, memVars, fileVars, farmVars>>
  BY DEF Exit
<1>2. FarmInv' /\ UNCHANGED <<source, toWorker, fromWorker, running, eosFrom>>
  BY <1>1, Parts, FarmStutter DEF farmVars
<1>3. Control'
  BY <1>1, <1>2, Parts, SameCommand DEF Control, Joined, Nodes
<1> QED BY <1>1, <1>2, <1>3, Parts, ChannelsOnlyInv

LEMMA CompressInv ==
    ASSUME Inv, NEW w \in Nodes, Compress(w)
    PROVE  Inv'
<1>1. PICK j \in Arrived(toWorker, w) :
          /\ Take(w, j)
          /\ \/ /\ Give(w, j)
                /\ tasks' = [tasks EXCEPT ![j] = "buf"]
                /\ bufs' = bufs \union {j}
             \/ UNCHANGED <<fromWorker, tasks, bufs>>
          /\ unmapping' = unmapping \union {<<w, j>>}
          /\ UNCHANGED <<cmd, main, i, maps, fileVars>>
  BY DEF Compress
<1>2. j \in In(toWorker) /\ j \in DOMAIN tasks /\ j \notin In(fromWorker)
  BY Parts, FarmChannels, ArrivedProperties DEF MemorySafe
<1>3. /\ FarmInv'
      /\ j \in Nat /\ w \in running
      /\ NoCopies(toWorker')
      /\ In(toWorker) = In(toWorker') \union {j} /\ j \notin In(toWorker')
      /\ Give(w, j) => NoCopies(fromWorker') /\ In(fromWorker') = In(fromWorker) \union {j}
      /\ UNCHANGED <<source, running, eosFrom>>
  BY <1>1, <1>2, Parts, TakeStep
<1>4. Control'
  BY <1>1, <1>3, Parts, SameCommand DEF Control, Joined
<1>5. DOMAIN tasks' = DOMAIN tasks /\ \A k \in DOMAIN tasks : k # j => tasks'[k] = tasks[k]
  BY <1>1
<1>6. /\ NoCopies(fromWorker')
      /\ In(toWorker') \intersect In(fromWorker') = {}
      /\ In(toWorker') \union In(fromWorker') \subseteq DOMAIN tasks
      /\ \A k \in DOMAIN tasks' : tasks'[k] = IF k \in In(fromWorker') THEN "buf" ELSE "map"
      /\ bufs' = In(fromWorker')
  <2>1. CASE Give(w, j) /\ tasks' = [tasks EXCEPT ![j] = "buf"] /\ bufs' = bufs \union {j}
    <3>1. tasks'[j] = "buf"
      BY <1>2, <2>1
    <3> QED BY <1>2, <1>3, <1>5, <2>1, <3>1, Parts DEF MemorySafe
  <2>2. CASE UNCHANGED <<fromWorker, tasks, bufs>>
    BY <1>2, <1>3, <2>2, Parts DEF MemorySafe
  <2> QED BY <1>1, <2>1, <2>2
<1>7. \A p \in unmapping' : p = <<w, j>> \/ p \in unmapping
  BY <1>1
<1>8. \A p \in unmapping : p[2] \in In(toWorker') => FALSE
  BY <1>3, Parts
<1>9. MemorySafe'
  <2>1. maps' = In(toWorker') \union {p[2] : p \in unmapping'}
    <3>1. {p[2] : p \in unmapping'} = {p[2] : p \in unmapping} \union {j}
      <4> DEFINE new == <<w, j>>
      <4>1. new[2] = j /\ unmapping' = unmapping \union {new}
        BY <1>1
      <4> HIDE DEF new
      <4> QED BY <4>1
    <3> QED BY <1>1, <1>3, <3>1, Parts DEF MemorySafe
  <2>2. \A p, q \in unmapping' : p # q => p[2] # q[2]
    BY <1>2, <1>7, Parts DEF MemorySafe
  <2> QED BY <1>3, <1>5, <1>6, <2>1, <2>2 DEF MemorySafe
<1>10. Heap'
  <2>1. j \in 0..(i - 1)
    BY <1>2, <1>3, Parts DEF Control
  <2>2. \A p \in unmapping' : p \in running \X (0..(i - 1)) /\ p[2] \notin In(toWorker')
    <3>1. \A p \in unmapping : p \in running \X (0..(i - 1))
      BY DEF Inv, Heap
    <3> QED BY <1>3, <1>7, <1>8, <2>1, <3>1
  <2> QED BY <1>1, <1>3, <1>5, <1>9, <2>2, Parts, SameCommand DEF Heap
<1>11. Archives' /\ Descriptors'
  <2>1. Delivered' = Delivered
    BY <1>1, <1>5, DeliveredSame
  <2> QED BY <1>1, <2>1, Parts, FilesSame DEF fileVars
<1> QED BY <1>3, <1>4, <1>10, <1>11 DEF Inv

LEMMA UnmapInv ==
    ASSUME Inv, NEW w, Unmap(w)
    PROVE  Inv'
<1>1. PICK p \in unmapping :
          /\ maps' = maps \ {p[2]} /\ unmapping' = unmapping \ {p}
          /\ UNCHANGED <<cmd, main, i, tasks, bufs, fileVars, farmVars>>
  BY DEF Unmap
<1>2. FarmInv' /\ UNCHANGED <<source, toWorker, fromWorker, running, eosFrom>>
  BY <1>1, Parts, FarmStutter DEF farmVars
<1>3. Control'
  BY <1>1, <1>2, Parts, SameCommand DEF Control, Joined, Nodes
<1>4. MemorySafe'
  <2>1. maps' = In(toWorker') \union {q[2] : q \in unmapping'}
    <3>1. {q[2] : q \in unmapping \ {p}} = {q[2] : q \in unmapping} \ {p[2]}
      BY Parts DEF MemorySafe
    <3>2. p[2] \notin In(toWorker)
      BY <1>1, Parts
    <3>3. maps = In(toWorker) \union {q[2] : q \in unmapping}
      BY Parts DEF MemorySafe
    <3> QED BY <1>1, <1>2, <3>1, <3>2, <3>3
  <2> QED BY <1>1, <1>2, <2>1, Parts DEF MemorySafe
<1>5. Heap'
  BY <1>1, <1>2, <1>4, SameCommand DEF Inv, Heap
<1>6. Archives' /\ Descriptors'
  <2>1. Delivered' = Delivered
    BY <1>1, DeliveredSame
  <2> QED BY <1>1, <2>1, Parts, FilesSame DEF fileVars
<1> QED BY <1>2, <1>3, <1>5, <1>6 DEF Inv

LEMMA EndWorkerInv ==
    ASSUME Inv, NEW w \in Nodes, Idle(w), EndWorker(w),
           UNCHANGED <<cmd, main, i, memVars, fileVars>>
    PROVE  Inv'
<1>1. /\ FarmInv'
      /\ NoCopies(toWorker') /\ In(toWorker') = In(toWorker)
      /\ NoCopies(fromWorker') /\ In(fromWorker') = In(fromWorker)
      /\ running' = running \ {w} /\ UNCHANGED <<source, eosFrom>>
      /\ running # {}
  BY Parts, EndWorkerStep
<1>2. Control'
  BY <1>1, Parts, SameCommand DEF Control, Joined
<1>3. \A p \in unmapping : p[1] \in running'
  BY <1>1, Parts DEF Idle
<1> QED BY <1>1, <1>2, <1>3, ChannelsOnlyInv

LEMMA CompressHereInv ==
    ASSUME Inv, CompressHere
    PROVE  Inv' /\ i \in Inputs /\ Delivered' = Delivered \union {i}
<1>1. /\ source = "sending" /\ i < num_files /\ Mappable(i) /\ i' = i + 1
      /\ UNCHANGED <<cmd, main, tasks, maps, bufs, unmapping, farmVars>>
      /\ writeFile(i) \/ (failed' = failed \union {i} /\ UNCHANGED <<fds, out>>)
  BY DEF CompressHere, memVars
<1>2. UNCHANGED <<source, toWorker, fromWorker, running, eosFrom>> /\ FarmInv' /\ i \in Nat
  BY <1>1, Parts, FarmStutter DEF farmVars, Control
<1>3. Control'
  BY <1>1, <1>2, Parts, SameCommand DEF Control, Joined
<1>4. Heap'
  <2>1. MemorySafe'
    BY <1>1, <1>2, Parts DEF MemorySafe
  <2>2. unmapping' \subseteq running' \X (0..(i' - 1))
    <3>1. ASSUME NEW p \in unmapping PROVE p \in running \X (0..i)
      <4>1. p \in running \X (0..(i - 1))
        BY DEF Inv, Heap
      <4> QED BY <1>2, <4>1
    <3> QED BY <1>1, <1>2, <3>1
  <2>3. \A j \in DOMAIN tasks : j \in Inputs /\ j < i + 1 /\ Mappable(j)
    <3>1. \A j \in Inputs : j \in Int
      BY LengthType, Parts DEF Inputs
    <3> QED BY <1>2, <3>1, Parts
  <2> QED BY <1>1, <1>2, <2>1, <2>2, <2>3, Parts, SameCommand DEF Heap
<1>5. i \in Inputs
  BY <1>1, <1>2, Parts, LengthType DEF Control
<1>6. Delivered' = Delivered \union {i}
  <2>1. \A j \in Inputs : j < i + 1 <=> j < i \/ j = i
    BY <1>2, LengthType, Parts DEF Inputs
  <2> QED BY <1>1, <1>2, <1>5, <2>1, Parts, SameCommand DEF Delivered
<1>7. Archives' /\ Descriptors'
  BY <1>1, <1>6, Parts, FilesWritten
<1> QED BY <1>2, <1>3, <1>4, <1>5, <1>6, <1>7 DEF Inv

LEMMA WriteInv ==
    ASSUME Inv, NEW w \in Nodes, Write(w)
    PROVE  /\ Inv'
           /\ \E j \in In(fromWorker) :
                 /\ In(fromWorker') = In(fromWorker) \ {j} /\ j \in DOMAIN tasks
                 /\ DOMAIN tasks' = DOMAIN tasks \ {j} /\ UNCHANGED <<cmd, main, i, toWorker>>
                 /\ Delivered' = Delivered \union {j}
           /\ main = "running"
<1>1. PICK j \in Arrived(fromWorker, w) :
          /\ Gather(w, j) /\ writeFile(j)
          /\ bufs' = bufs \ {j}
          /\ DOMAIN tasks' = DOMAIN tasks \ {j}
          /\ \A k \in DOMAIN tasks \ {j} : tasks'[k] = tasks[k]
          /\ UNCHANGED <<cmd, main, i, maps, unmapping>>
  BY DEF Write, Restrict
<1>2. /\ FarmInv'
      /\ NoCopies(fromWorker') /\ In(fromWorker) = In(fromWorker') \union {j}
      /\ j \notin In(fromWorker') /\ j \in Nat
      /\ w \notin eosFrom
      /\ UNCHANGED <<source, toWorker, running, eosFrom>>
  BY <1>1, Parts, GatherStep
<1>3. j \in DOMAIN tasks /\ j \notin In(toWorker)
  BY <1>2, Parts DEF MemorySafe
<1>4. source # "idle" /\ ~Joined
  BY <1>2, Parts, NoNodes DEF Joined
<1>5. Control' /\ main = "running"
  BY <1>1, <1>2, <1>4, Parts, SameCommand DEF Control
<1>6. MemorySafe'
  <2>1. In(toWorker') \intersect In(fromWorker') = {}
    BY <1>2, Parts DEF MemorySafe
  <2>2. In(toWorker') \union In(fromWorker') \subseteq DOMAIN tasks'
    BY <1>1, <1>2, <1>3, Parts DEF MemorySafe
  <2>3. \A k \in DOMAIN tasks' : tasks'[k] = IF k \in In(fromWorker') THEN "buf" ELSE "map"
    BY <1>1, <1>2, Parts DEF MemorySafe
  <2>4. bufs' = In(fromWorker')
    BY <1>1, <1>2, Parts DEF MemorySafe
  <2> QED BY <1>1, <1>2, <2>1, <2>2, <2>3, <2>4, Parts DEF MemorySafe
<1>7. Heap'
  BY <1>1, <1>2, <1>6, Parts, SameCommand DEF Inv, Heap
<1>8. Delivered' = Delivered \union {j}
  BY <1>1, <1>3, Parts, SameCommand DEF Delivered
<1>9. Archives' /\ Descriptors'
  BY <1>1, <1>8, Parts, FilesWritten
<1>10. In(fromWorker') = In(fromWorker) \ {j} /\ j \in In(fromWorker)
  BY <1>2
<1> QED BY <1>1, <1>2, <1>3, <1>5, <1>7, <1>8, <1>9, <1>10 DEF Inv

LEMMA GatherEosInv ==
    ASSUME Inv, NEW w \in Nodes, GatherEos(w),
           UNCHANGED <<cmd, main, i, memVars, fileVars>>
    PROVE  Inv'
<1>1. /\ FarmInv'
      /\ NoCopies(fromWorker') /\ In(fromWorker') = In(fromWorker)
      /\ w \notin eosFrom
      /\ UNCHANGED <<source, toWorker, running>>
  BY Parts, GatherEosStep
<1>2. Control'
  BY <1>1, Parts, SameCommand DEF Control, Joined
<1> QED BY <1>1, <1>2, Parts, ChannelsOnlyInv

LEMMA StutterInv ==
    ASSUME Inv, UNCHANGED vars
    PROVE  Inv'
<1>1. UNCHANGED <<cmd, main, i, memVars, fileVars, farmVars>>
  BY DEF vars, memVars, fileVars
<1>2. FarmInv' /\ UNCHANGED <<source, toWorker, fromWorker, running, eosFrom>>
  BY <1>1, Parts, FarmStutter DEF farmVars
<1>3. Control'
  BY <1>1, <1>2, Parts, SameCommand DEF Control, Joined, Nodes
<1> QED BY <1>1, <1>2, <1>3, Parts, ChannelsOnlyInv

LEMMA NextInv == Inv /\ [Next]_vars => Inv'
<1> SUFFICES ASSUME Inv, [Next]_vars PROVE Inv'
  OBVIOUS
<1>1. CASE MainStep
  BY <1>1, MainInv, CompressHereInv, ExitInv DEF MainStep
<1>2. CASE ReadStep
  BY <1>2, SkipInv, ReadInv, EndReadInv, DeliverEosInv DEF ReadStep
<1>3. ASSUME NEW w \in Nodes, CompressorStep(w) PROVE Inv'
  BY <1>3, CompressInv, UnmapInv, EndWorkerInv DEF CompressorStep
<1>4. CASE WriteStep
  BY <1>4, WriteInv, GatherEosInv DEF WriteStep
<1>5. CASE UNCHANGED vars
  BY <1>5, StutterInv
<1> QED BY <1>1, <1>2, <1>3, <1>4, <1>5 DEF Next, Terminated

LEMMA Invariance == Spec => []Inv
<1>1. Init => Inv
  BY InitInv
<1>2. Inv /\ [Next]_vars => Inv'
  BY NextInv
<1> QED BY <1>1, <1>2, PTL DEF Spec

----------------------------------------------------------------------------

\* No compressor or writer uses or frees what another owns, and whatever is
\* mapped or allocated is accounted for: a file may be unmapped after its task
\* has been handed on and freed.
THEOREM MemoryOwned == Spec => []MemorySafe
<1>1. Inv => MemorySafe
  BY Parts
<1> QED BY <1>1, Invariance, PTL

\* The archives in ./out are of inputs processed to the end, and every such
\* input that was not reported has one.
THEOREM ArchivesTrue == Spec => []Archives
<1>1. Inv => Archives
  BY Parts
<1> QED BY <1>1, Invariance, PTL

\* What a program has lost when it exits: a task for every compression that
\* failed, and a descriptor for every input or output that did.
THEOREM NothingElseLost == Spec => []ExitClean
<1>1. ASSUME Inv, main = "exit" PROVE ExitClean
  <2>1. Joined /\ In(toWorker) = {} /\ In(fromWorker) = {} /\ running = {}
    BY <1>1, Parts, NothingLeft DEF Control, Joined
  <2>2. unmapping = {}
    BY <1>1, <2>1, Parts
  <2>3. maps = {} /\ bufs = {}
    BY <1>1, <2>1, <2>2, Parts DEF MemorySafe
  <2> QED BY <1>1, <2>1, <2>3, Parts DEF ExitClean, Forgotten, Descriptors
<1>2. Inv => ExitClean
  BY <1>1 DEF ExitClean
<1> QED BY <1>2, Invariance, PTL

----------------------------------------------------------------------------
\* The job: every input is settled once.

Pending == {j \in Inputs : j >= i} \union In(toWorker) \union In(fromWorker)
Dropped == {j \in Inputs : j < i /\ ~Mappable(j)} \union Forgotten
Status == CASE main = "parse" -> "new"
            [] main = "exit" -> "ended"
            [] main \in {"usage", "error"} -> "refused"
            [] OTHER -> "running"

JobNext == [Job!Next]_<<Pending, Delivered, Dropped, Status>>

LEMMA JobSteps ==
    ASSUME \/ UNCHANGED <<Pending, Delivered, Dropped, Status>>
           \/ /\ Status = "new" /\ Status' \in {"running", "refused"}
              /\ UNCHANGED <<Pending, Delivered, Dropped>>
           \/ /\ Status = "running" /\ Pending = {} /\ Status' = "ended"
              /\ UNCHANGED <<Pending, Delivered, Dropped>>
           \/ /\ Status = "running" /\ Status' = "running"
              /\ \E j \in Pending :
                    /\ Pending' = Pending \ {j}
                    /\ \/ Delivered' = Delivered \union {j} /\ Dropped' = Dropped
                       \/ Dropped' = Dropped \union {j} /\ Delivered' = Delivered
    PROVE  JobNext
BY DEF JobNext, Job!Next, Job!Begin, Job!Deliver, Job!DropOne, Job!End, Pending, Dropped, Status

LEMMA StatusValues ==
    /\ main = "parse" => Status = "new"
    /\ main = "running" => Status = "running"
    /\ main = "exit" => Status = "ended"
    /\ main \in {"usage", "error"} => Status = "refused"
    /\ main' = "running" => Status' = "running"
    /\ main' = "exit" => Status' = "ended"
    /\ main' \in {"usage", "error"} => Status' = "refused"
    /\ main' = main => Status' = Status
BY Zenon DEF Status

\* An input is in one of the sets only.
LEMMA Settled ==
    ASSUME Inv
    PROVE  /\ \A j \in In(toWorker) \union In(fromWorker) : j \in Inputs /\ j < i /\ Mappable(j)
           /\ In(toWorker) \intersect In(fromWorker) = {}
           /\ \A j \in Inputs : j \in Int
           /\ \A j \in DOMAIN tasks : j \in Int /\ j < i
           /\ i \in Nat
<1>1. \A j \in Inputs : j \in Int
  BY LengthType, Parts DEF Inputs
<1> QED BY <1>1, Parts DEF MemorySafe, Control

\* The channels hold the same tasks: nothing has happened to the job.
LEMMA JobSame ==
    ASSUME UNCHANGED <<cmd, i>>, DOMAIN tasks' = DOMAIN tasks,
           In(toWorker') \union In(fromWorker') = In(toWorker) \union In(fromWorker)
    PROVE  Pending' = Pending /\ Delivered' = Delivered /\ Dropped' = Dropped
<1>1. Forgotten' = Forgotten
  BY DEF Forgotten
<1>2. {j \in Inputs : j >= i}' = {j \in Inputs : j >= i}
  BY SameCommand
<1>3. {j \in Inputs : j < i /\ ~Mappable(j)}' = {j \in Inputs : j < i /\ ~Mappable(j)}
  BY SameCommand
<1>4. Pending' = Pending
  <2>1. (In(toWorker) \union In(fromWorker))' = In(toWorker) \union In(fromWorker)
    OBVIOUS
  <2> QED BY <1>2, <2>1 DEF Pending
<1> QED BY <1>1, <1>3, <1>4, DeliveredSame DEF Dropped

LEMMA JobMain ==
    ASSUME Inv, Main
    PROVE  JobNext
<1>1. /\ main = "parse" /\ source = "idle" /\ UNCHANGED <<cmd, i, memVars>>
      /\ main' \in {"running", "usage", "error"}
      /\ UNCHANGED farmVars \/ Start(1..nworkers)
  BY DEF Main, Inv, Control
<1>2. In(toWorker') \union In(fromWorker') = In(toWorker) \union In(fromWorker)
  BY <1>1, Parts, StartStep, NoNodes DEF farmVars
<1>3. UNCHANGED <<Pending, Delivered, Dropped>>
  BY <1>1, <1>2, JobSame DEF memVars
<1> QED BY <1>1, <1>3, StatusValues, JobSteps

\* The loop goes on to the next input.
LEMMA NextInput ==
    ASSUME Inv, UNCHANGED cmd, i' = i + 1, i \in Inputs
    PROVE  /\ Mappable(i) => {j \in Inputs' : j < i' /\ ~Mappable(j)'}
                                 = {j \in Inputs : j < i /\ ~Mappable(j)}
           /\ ~Mappable(i) => {j \in Inputs' : j < i' /\ ~Mappable(j)'}
                                 = {j \in Inputs : j < i /\ ~Mappable(j)} \union {i}
<1>1. Inputs' = Inputs /\ \A j : Mappable(j)' <=> Mappable(j)
  BY SameCommand
<1>2. \A j \in Inputs : j < i + 1 <=> j < i \/ j = i
  BY Settled
<1>3. ~(i < i)
  BY Settled
<1>4. {j \in Inputs' : j < i' /\ ~Mappable(j)'} = {j \in Inputs : (j < i \/ j = i) /\ ~Mappable(j)}
  BY <1>1, <1>2
<1>5. CASE Mappable(i)
  BY <1>3, <1>4, <1>5
<1>6. CASE ~Mappable(i)
  BY <1>3, <1>4, <1>6
<1> QED BY <1>5, <1>6

LEMMA JobSkip ==
    ASSUME Inv, Skip
    PROVE  JobNext
<1>1. /\ source = "sending" /\ i < num_files /\ ~Mappable(i) /\ i' = i + 1
      /\ UNCHANGED <<cmd, main, tasks, toWorker, fromWorker>>
  BY DEF Skip, memVars, farmVars
<1>2. i \in Inputs /\ main = "running" /\ i \in Nat
  BY <1>1, Parts, LengthType, Settled DEF Control, Joined
<1>3. Forgotten' = Forgotten
  BY <1>1 DEF Forgotten
<1>4. {j \in Inputs' : j >= i'} = {j \in Inputs : j >= i} \ {i}
  BY <1>1, Settled, SameCommand
<1>5. Pending' = Pending \ {i} /\ i \in Pending
  BY <1>1, <1>2, <1>4, Settled DEF Pending
<1>6. Delivered' = Delivered
  BY <1>1, Settled, SameCommand DEF Delivered
<1>7. {j \in Inputs' : j < i' /\ ~Mappable(j)'} = {j \in Inputs : j < i /\ ~Mappable(j)} \union {i}
  BY <1>1, <1>2, NextInput
<1>8. Dropped' = Dropped \union {i}
  BY <1>3, <1>7 DEF Dropped
<1> QED BY <1>1, <1>2, <1>5, <1>6, <1>8, StatusValues, JobSteps

LEMMA JobRead ==
    ASSUME Inv, Read
    PROVE  JobNext
<1>1. /\ i < num_files /\ Mappable(i) /\ i' = i + 1 /\ source = "sending"
      /\ DOMAIN tasks' = DOMAIN tasks \union {i}
      /\ UNCHANGED <<cmd, main, fromWorker>>
      /\ Delivered' = Delivered /\ In(toWorker') = In(toWorker) \union {i}
  BY ReadInv DEF Read, Emit
<1>2. i \in Inputs /\ i \in Nat
  BY <1>1, Parts, LengthType, Settled DEF Control
<1>3. {j \in Inputs' : j >= i'} = {j \in Inputs : j >= i} \ {i}
  BY <1>1, Settled, SameCommand
<1>4. Pending' = Pending
  BY <1>1, <1>2, <1>3 DEF Pending
<1>5. Forgotten' = Forgotten
  <2>1. In(fromWorker') = In(fromWorker)
    BY <1>1
  <2> QED BY <1>1, <2>1, Parts DEF Forgotten
<1>6. {j \in Inputs' : j < i' /\ ~Mappable(j)'} = {j \in Inputs : j < i /\ ~Mappable(j)}
  BY <1>1, <1>2, NextInput
<1>7. Dropped' = Dropped
  BY <1>5, <1>6 DEF Dropped
<1> QED BY <1>1, <1>4, <1>7, StatusValues, JobSteps

LEMMA JobCompress ==
    ASSUME Inv, NEW w \in Nodes, Compress(w)
    PROVE  JobNext
<1>1. PICK j \in Arrived(toWorker, w) :
          /\ Take(w, j) /\ UNCHANGED <<cmd, main, i>>
          /\ DOMAIN tasks' = DOMAIN tasks
          /\ Give(w, j) \/ UNCHANGED fromWorker
  BY DEF Compress
<1>2. j \in In(toWorker) /\ j \notin In(fromWorker)
  BY Parts, FarmChannels, ArrivedProperties DEF MemorySafe
<1>3. /\ w \in running
      /\ In(toWorker) = In(toWorker') \union {j} /\ j \notin In(toWorker')
      /\ Give(w, j) => In(fromWorker') = In(fromWorker) \union {j}
  BY <1>1, <1>2, Parts, TakeStep
<1>4. main = "running"
  BY <1>3, Parts, NoNodes DEF Control, Joined
<1>5. CASE Give(w, j)
  <2>1. In(toWorker') \union In(fromWorker') = In(toWorker) \union In(fromWorker)
    BY <1>3, <1>5
  <2> QED BY <1>1, <2>1, JobSame, StatusValues, JobSteps
<1>6. CASE UNCHANGED fromWorker
  <2>1. In(fromWorker') = In(fromWorker) /\ In(toWorker') = In(toWorker) \ {j}
    BY <1>3, <1>6
  <2>2. {k \in Inputs' : k >= i'} = {k \in Inputs : k >= i}
    BY <1>1, SameCommand
  <2>3. Pending' = Pending \ {j} /\ j \in Pending
    <3>1. j \notin {k \in Inputs : k >= i}
      BY <1>2, Settled
    <3> QED BY <1>2, <2>1, <2>2, <3>1 DEF Pending
  <2>4. Delivered' = Delivered
    BY <1>1, DeliveredSame
  <2>5. Forgotten' = Forgotten \union {j}
    BY <1>1, <1>2, <2>1, Parts DEF Forgotten, MemorySafe
  <2>6. {k \in Inputs' : k < i' /\ ~Mappable(k)'} = {k \in Inputs : k < i /\ ~Mappable(k)}
    BY <1>1, SameCommand
  <2>7. Dropped' = Dropped \union {j}
    BY <2>5, <2>6 DEF Dropped
  <2> QED BY <1>1, <1>4, <2>3, <2>4, <2>7, StatusValues, JobSteps
<1> QED BY <1>1, <1>5, <1>6

LEMMA JobCompressHere ==
    ASSUME Inv, CompressHere
    PROVE  JobNext
<1>1. /\ source = "sending" /\ i < num_files /\ Mappable(i) /\ i' = i + 1
      /\ UNCHANGED <<cmd, main, tasks, toWorker, fromWorker>>
      /\ i \in Inputs /\ Delivered' = Delivered \union {i}
  BY CompressHereInv DEF CompressHere, memVars, farmVars
<1>2. main = "running" /\ i \in Nat
  BY <1>1, Parts, Settled DEF Control, Joined
<1>3. Forgotten' = Forgotten
  BY <1>1 DEF Forgotten
<1>4. {j \in Inputs' : j >= i'} = {j \in Inputs : j >= i} \ {i}
  BY <1>1, Settled, SameCommand
<1>5. Pending' = Pending \ {i} /\ i \in Pending
  BY <1>1, <1>2, <1>4, Settled DEF Pending
<1>6. {j \in Inputs' : j < i' /\ ~Mappable(j)'} = {j \in Inputs : j < i /\ ~Mappable(j)}
  BY <1>1, <1>2, NextInput
<1>7. Dropped' = Dropped
  BY <1>3, <1>6 DEF Dropped
<1> QED BY <1>1, <1>2, <1>5, <1>7, StatusValues, JobSteps

LEMMA JobWrite ==
    ASSUME Inv, NEW w \in Nodes, Write(w)
    PROVE  JobNext
<1>1. PICK j \in In(fromWorker) :
          /\ In(fromWorker') = In(fromWorker) \ {j} /\ j \in DOMAIN tasks
          /\ DOMAIN tasks' = DOMAIN tasks \ {j} /\ UNCHANGED <<cmd, main, i, toWorker>>
          /\ Delivered' = Delivered \union {j}
  BY WriteInv
<1>2. main = "running"
  BY WriteInv
<1>3. {k \in Inputs' : k >= i'} = {k \in Inputs : k >= i}
  BY <1>1, SameCommand
<1>4. j \notin In(toWorker) /\ j \notin {k \in Inputs : k >= i} /\ j \in Pending
  BY Settled DEF Pending
<1>5. Pending' = Pending \ {j}
  <2>1. In(toWorker') = In(toWorker)
    BY <1>1
  <2> QED BY <1>1, <1>3, <1>4, <2>1 DEF Pending
<1>6. Forgotten' = Forgotten
  <2>1. In(toWorker') = In(toWorker)
    BY <1>1
  <2> QED BY <1>1, <1>4, <2>1 DEF Forgotten
<1>7. {k \in Inputs' : k < i' /\ ~Mappable(k)'} = {k \in Inputs : k < i /\ ~Mappable(k)}
  BY <1>1, SameCommand
<1>8. Dropped' = Dropped
  BY <1>6, <1>7 DEF Dropped
<1> QED BY <1>1, <1>2, <1>4, <1>5, <1>8, StatusValues, JobSteps

LEMMA JobExit ==
    ASSUME Inv, Exit
    PROVE  JobNext
<1>1. /\ main = "running" /\ main' = "exit" /\ Joined
      /\ UNCHANGED <<cmd, i, tasks, toWorker, fromWorker>>
  BY DEF Exit, memVars, farmVars
<1>2. In(toWorker) = {} /\ In(fromWorker) = {} /\ i >= num_files
  BY <1>1, Parts, NothingLeft DEF Control, Joined
<1>3. Pending = {}
  <2>1. \A j \in Inputs : ~(j >= i)
    BY <1>2, Settled, Parts, LengthType DEF Inputs
  <2> QED BY <1>2, <2>1 DEF Pending
<1>4. UNCHANGED <<Pending, Delivered, Dropped>>
  <2>1. In(toWorker') = In(toWorker) /\ In(fromWorker') = In(fromWorker)
    BY <1>1
  <2> QED BY <1>1, <2>1, JobSame
<1> QED BY <1>1, <1>3, <1>4, StatusValues, JobSteps

\* Closing the stream, marks, and giving a file back.
LEMMA JobStutter ==
    ASSUME UNCHANGED <<cmd, main, i, tasks>>,
           In(toWorker') = In(toWorker), In(fromWorker') = In(fromWorker)
    PROVE  JobNext
<1>1. UNCHANGED <<Pending, Delivered, Dropped>>
  BY JobSame
<1> QED BY <1>1, StatusValues, JobSteps

LEMMA JobStep ==
    ASSUME Inv, [Next]_vars
    PROVE  JobNext
<1>1. CASE MainStep
  BY <1>1, JobMain, JobCompressHere, JobExit DEF MainStep
<1>2. CASE ReadStep
  <2>1. CASE EndRead
    BY <2>1, JobStutter DEF EndRead, Close, memVars
  <2>2. CASE DeliverEos /\ UNCHANGED <<cmd, main, i, memVars, fileVars>>
    BY <2>2, Parts, DeliverStep, JobStutter DEF memVars
  <2> QED BY <1>2, <2>1, <2>2, JobSkip, JobRead DEF ReadStep
<1>3. ASSUME NEW w \in Nodes, CompressorStep(w) PROVE JobNext
  <2>1. CASE Unmap(w)
    <3>1. UNCHANGED <<cmd, main, i, tasks, toWorker, fromWorker>>
      BY <2>1 DEF Unmap, farmVars
    <3>2. In(toWorker') = In(toWorker) /\ In(fromWorker') = In(fromWorker)
      BY <3>1
    <3> QED BY <3>1, <3>2, JobStutter
  <2>2. CASE EndWorker(w) /\ UNCHANGED <<cmd, main, i, memVars, fileVars>>
    BY <2>2, Parts, EndWorkerStep, JobStutter DEF memVars
  <2> QED BY <1>3, <2>1, <2>2, JobCompress DEF CompressorStep
<1>4. ASSUME NEW w \in Nodes, Write(w) PROVE JobNext
  BY <1>4, JobWrite
<1>5. ASSUME NEW w \in Nodes, GatherEos(w), UNCHANGED <<cmd, main, i, memVars, fileVars>>
      PROVE  JobNext
  BY <1>5, Parts, GatherEosStep, JobStutter DEF memVars
<1>6. CASE UNCHANGED vars
  <2>1. UNCHANGED <<cmd, main, i, tasks, toWorker, fromWorker>>
    BY <1>6 DEF vars, farmVars
  <2>2. In(toWorker') = In(toWorker) /\ In(fromWorker') = In(fromWorker)
    BY <2>1
  <2> QED BY <2>1, <2>2, JobStutter
<1> QED BY <1>1, <1>2, <1>3, <1>4, <1>5, <1>6 DEF Next, WriteStep, Terminated

LEMMA JobInit ==
    ASSUME Init
    PROVE  Job!Init
<1>1. i = 0 /\ main = "parse" /\ tasks = <<>> /\ Control
  BY InitInv DEF Init, Inv
<1>2. \A j \in Inputs : ~(j < i)
  BY <1>1, LengthType DEF Inputs
<1>3. Delivered = {} /\ Dropped = {}
  BY <1>1, <1>2 DEF Delivered, Dropped, Forgotten
<1> QED BY <1>1, <1>3, StatusValues DEF Job!Init, Dropped, Status

\* The compressors do the safety part of the job: every input is settled once,
\* none after the end, and the program ends only with none pending.
THEOREM ImplementsJob == Spec => Job!Spec
<1>1. Init => Job!Init
  BY JobInit
<1>2. Inv /\ [Next]_vars => JobNext
  BY JobStep
<1> QED BY <1>1, <1>2, Invariance, PTL
        DEF Spec, Job!Spec, JobNext, Pending, Dropped, Status
====
