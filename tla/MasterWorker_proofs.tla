---- MODULE MasterWorker_proofs ----
(***************************************************************************)
(* primes_master-worker.cpp for every number of workers, every length of   *)
(* the channels and every range. The inductive invariant Inv adds to       *)
(* Conserved the protocol of the farm (FarmInv) and how far the emitter's  *)
(* loop has come; with it every step of the program is a step of           *)
(* PrimeSearch or changes nothing there.                                   *)
(***************************************************************************)
EXTENDS MasterWorker, Shared_proofs

----------------------------------------------------------------------------
\* The farm: the end-of-stream protocol, and each of its operations.

FarmInv(M) == CycleProtocol(M, Workers, emitter, toWorker, toEmitter, running, eosSent, eosFrom)

LEMMA FarmFacts ==
    ASSUME NEW M, FarmInv(M)
    PROVE  FarmTypeOK(M) /\ EosIsLast /\ (emitter = "send" => eosSent = {})
BY DEF FarmInv, CycleProtocol, EosReached, FarmTypeOK, EosIsLast

LEMMA FarmInitInv == ASSUME NEW M, FarmInit PROVE FarmInv(M)
BY CycleInit DEF FarmInv, FarmInit

LEMMA RunInv == ASSUME NEW M, FarmInv(M), Run \/ Abort PROVE FarmInv(M)'
BY CycleRun DEF FarmInv, Run, Abort

LEMMA SendOutInv ==
    ASSUME NEW M, FarmInv(M), NEW w \in Workers, NEW m \in M, EOS \notin M, SendOut(w, m)
    PROVE  FarmInv(M)'
BY CycleSend DEF FarmInv, SendOut

LEMMA EndSendInv == ASSUME NEW M, FarmInv(M), EndSend PROVE FarmInv(M)'
BY CycleEndSend DEF FarmInv, EndSend

LEMMA BroadcastInv ==
    ASSUME NEW M, FarmInv(M), NEW w \in Workers, Broadcast(w)
    PROVE  FarmInv(M)'
BY CycleBroadcast DEF FarmInv, Broadcast

LEMMA FeedbackInv ==
    ASSUME NEW M, FarmInv(M), NEW w \in Workers, NEW m, Feedback(w, m)
    PROVE  FarmInv(M)'
BY CycleFeedback DEF FarmInv, Feedback

LEMMA CloseChannelInv ==
    ASSUME NEW M, FarmInv(M), NEW w \in Workers, CloseChannel(w)
    PROVE  FarmInv(M)'
BY CycleClose DEF FarmInv, CloseChannel

LEMMA SvcInv ==
    ASSUME NEW M, FarmInv(M), NEW w \in Workers, NEW m, NEW answer, Svc(w, m, answer)
    PROVE  FarmInv(M)'
BY CycleSvc DEF FarmInv, Svc

LEMMA EndWorkerInv ==
    ASSUME NEW M, FarmInv(M), NEW w \in Workers, EndWorker(w)
    PROVE  FarmInv(M)'
BY CycleEndWorker DEF FarmInv, EndWorker

LEMMA FarmStutterInv == ASSUME NEW M, FarmInv(M), UNCHANGED farmVars PROVE FarmInv(M)'
BY DEF FarmInv, farmVars

LEMMA NothingLeft ==
    ASSUME NEW M, FarmInv(M), emitter = "ended"
    PROVE  running = {} /\ In(toWorker) = {} /\ In(toEmitter) = {}
BY CycleEnded DEF FarmInv

----------------------------------------------------------------------------
\* The invariant.

\* The emitter's loop: nothing is done before the farm runs, and the broadcast
\* starts when the whole range has been sent.
Loop ==
    /\ n1 >= args[1]
    /\ emitter \in {"constructor", "aborted"} => n1 = args[1] /\ results = <<>>
    /\ emitter \notin {"constructor", "aborted", "send"} => n1 > n2

Inv ==
    /\ args \in Ranges /\ n1 \in Nat /\ results \in Seq(Nat)
    /\ FarmInv(Nat)
    /\ Loop
    /\ Conserved

LEMMA RangeType ==
    ASSUME args \in Ranges
    PROVE  args[1] \in Nat /\ args[1] # 0 /\ n2 \in Nat
BY RangesAssumption DEF n2

LEMMA InitInv == ASSUME Init PROVE Inv
<1>1. /\ args \in Ranges /\ n1 \in Nat /\ results \in Seq(Nat) /\ results = <<>>
  BY RangeType DEF Init
<1>2. FarmInv(Nat)
  BY FarmInitInv DEF Init
<1>3. Loop
  BY <1>1, RangeType DEF Init, FarmInit, Loop
<1>4. In(toWorker) = {} /\ In(toEmitter) = {} /\ ToSet(results) = {}
  BY <1>1, ToSetOfEmpty DEF Init, FarmInit, In
<1>5. Sent = {}
  BY RangeType DEF Init, Sent, n2
<1>6. Conserved
  BY <1>4, <1>5 DEF Conserved
<1> QED BY <1>1, <1>2, <1>3, <1>6 DEF Inv

LEMMA ConstructInv == ASSUME Inv, Construct PROVE Inv'
<1>1. Run \/ Abort
  BY DEF Construct
<1>2. FarmInv(Nat)'
  BY <1>1, RunInv DEF Inv
<1>3. /\ emitter = "constructor" /\ emitter' \in {"send", "aborted"}
      /\ UNCHANGED <<args, n1, results, toWorker, toEmitter>>
  BY <1>1 DEF Construct, Run, Abort
<1>4. Loop'
  BY <1>3 DEF Inv, Loop, n2
<1>5. Conserved'
  BY <1>3 DEF Inv, Conserved, Sent, n2
<1> QED BY <1>2, <1>3, <1>4, <1>5 DEF Inv

\* The emitter's loop sends n1 to worker w ...
LEMMA SendInv ==
    ASSUME Inv, NEW w \in Workers, n1 <= n2, SendOut(w, n1), n1' = n1 + 1,
           UNCHANGED <<args, results>>
    PROVE  Inv'
<1>1. /\ args \in Ranges /\ n1 \in Nat /\ results \in Seq(Nat)
      /\ FarmInv(Nat) /\ Loop /\ Conserved
      /\ toWorker \in ChannelsOf(Workers, Nat \union {EOS})
  BY FarmFacts DEF Inv, FarmTypeOK
<1>2. /\ emitter = "send" /\ emitter' = "send"
      /\ toWorker' = Put(toWorker, w, n1) /\ toEmitter' = toEmitter
  BY DEF SendOut
<1>3. FarmInv(Nat)'
  BY <1>1, SendOutInv, EOSAssumption
<1>4. In(toWorker') = In(toWorker) \union {n1}
  <2>1. n1 \in Nat \union {EOS} /\ n1 # EOS
    BY <1>1, EOSAssumption
  <2>2. In(toWorker') = In(toWorker) \union ({n1} \ {EOS})
    BY <1>1, <1>2, <2>1, PutProperties
  <2> QED BY <2>1, <2>2
<1>5. Sent' = Sent \union {n1}
  BY <1>1, RangeType DEF Loop, Sent, n2
<1>6. Conserved'
  BY <1>1, <1>2, <1>4, <1>5 DEF Conserved
<1>7. Loop'
  BY <1>1, <1>2, RangeType DEF Loop, n2
<1> QED BY <1>1, <1>3, <1>6, <1>7 DEF Inv

\* ... and ends past n2.
LEMMA EndOfRangeInv ==
    ASSUME Inv, n1 > n2, EndSend, n1' = n1 + 1, UNCHANGED <<args, results>>
    PROVE  Inv'
<1>1. /\ args \in Ranges /\ n1 \in Nat /\ results \in Seq(Nat)
      /\ FarmInv(Nat) /\ Loop /\ Conserved
  BY DEF Inv
<1>2. emitter' = "broadcast" /\ UNCHANGED <<toWorker, toEmitter>>
  BY DEF EndSend
<1>3. FarmInv(Nat)'
  BY <1>1, EndSendInv
<1>4. Sent' = Sent
  BY <1>1, RangeType DEF Sent, n2
<1>5. Conserved'
  BY <1>1, <1>2, <1>4 DEF Conserved
<1>6. Loop'
  BY <1>1, <1>2, RangeType DEF Loop, n2
<1> QED BY <1>1, <1>3, <1>5, <1>6 DEF Inv

LEMMA SendNextInv == ASSUME Inv, SendNext PROVE Inv'
BY SendInv, EndOfRangeInv DEF SendNext

LEMMA BroadcastEosInv ==
    ASSUME Inv, NEW w \in Workers, BroadcastEos(w)
    PROVE  Inv'
<1>1. /\ args \in Ranges /\ FarmInv(Nat) /\ Loop /\ Conserved
      /\ toWorker \in ChannelsOf(Workers, Nat \union {EOS})
  BY FarmFacts DEF Inv, FarmTypeOK
<1>2. /\ emitter = "broadcast" /\ emitter' \in {"broadcast", "collect"}
      /\ toWorker' = Put(toWorker, w, EOS)
      /\ UNCHANGED <<args, n1, results, toEmitter>>
  BY DEF BroadcastEos, Broadcast
<1>3. FarmInv(Nat)'
  BY <1>1, BroadcastInv DEF BroadcastEos
<1>4. In(toWorker') = In(toWorker)
  <2>1. In(toWorker') = In(toWorker) \union ({EOS} \ {EOS})
    BY <1>1, <1>2, PutProperties, EOS \in Nat \union {EOS}
  <2> QED BY <2>1
<1>5. Conserved'
  BY <1>1, <1>2, <1>4 DEF Conserved, Sent, n2
<1>6. Loop'
  BY <1>1, <1>2 DEF Loop, n2
<1> QED BY <1>2, <1>3, <1>5, <1>6 DEF Inv

LEMMA StoreInv ==
    ASSUME Inv, NEW w \in Workers, Store(w)
    PROVE  /\ Inv'
           /\ ToSet(results) \subseteq ToSet(results')
           /\ UNCHANGED <<args, emitter>> /\ emitter = "collect"
<1>1. /\ args \in Ranges /\ n1 \in Nat /\ results \in Seq(Nat)
      /\ FarmInv(Nat) /\ Loop /\ Conserved
      /\ toEmitter \in ChannelsOf(Workers, Nat \union {EOS})
  BY FarmFacts DEF Inv, FarmTypeOK
<1>2. PICK x \in Arrived(toEmitter, w) : Feedback(w, x) /\ results' = Append(results, x)
  BY DEF Store
<1>3. /\ emitter = "collect" /\ toEmitter' = Drop(toEmitter, w)
      /\ UNCHANGED <<args, n1, emitter, toWorker>>
  BY <1>2 DEF Store, Feedback
<1>4. FarmInv(Nat)'
  BY <1>1, <1>2, FeedbackInv
<1>5. x \in Nat /\ x # EOS /\ Waiting(toEmitter, w) /\ Head(toEmitter[w]) = x
  BY <1>1, ArrivedProperties
<1>6. In(toEmitter) = In(toEmitter') \union {x}
  BY <1>1, <1>3, <1>5, DropProperties
<1>7. results' \in Seq(Nat) /\ ToSet(results') = ToSet(results) \union {x}
  BY <1>1, <1>2, <1>5, ToSetOfAppend
<1>8. Conserved'
  BY <1>1, <1>3, <1>6, <1>7 DEF Conserved, Sent, n2
<1>9. Loop'
  BY <1>1, <1>3 DEF Loop, n2
<1> QED BY <1>1, <1>3, <1>4, <1>7, <1>8, <1>9 DEF Inv

LEMMA CloseChannelMainInv ==
    ASSUME Inv, NEW w \in Workers, CloseChannel(w), UNCHANGED <<args, n1, results>>
    PROVE  Inv'
<1>1. /\ args \in Ranges /\ FarmInv(Nat) /\ Loop /\ Conserved
      /\ toEmitter \in ChannelsOf(Workers, Nat \union {EOS})
  BY FarmFacts DEF Inv, FarmTypeOK
<1>2. /\ emitter = "collect" /\ emitter' \in {"collect", "ended"}
      /\ toEmitter' = Drop(toEmitter, w) /\ toWorker' = toWorker
      /\ Waiting(toEmitter, w) /\ Head(toEmitter[w]) = EOS
  BY DEF CloseChannel
<1>3. FarmInv(Nat)'
  BY <1>1, CloseChannelInv
<1>4. In(toEmitter) = In(toEmitter')
  <2>1. In(toEmitter) = In(toEmitter') \union ({Head(toEmitter[w])} \ {EOS})
    BY <1>1, <1>2, DropProperties
  <2> QED BY <1>2, <2>1
<1>5. Conserved'
  BY <1>1, <1>2, <1>4 DEF Conserved, Sent, n2
<1>6. Loop'
  BY <1>1, <1>2 DEF Loop, n2
<1> QED BY <1>3, <1>5, <1>6 DEF Inv

\* A worker's step moves a prime from one channel to the other, and drops
\* what trial division rejects: no prime, by IsPrimeCorrect.
LEMMA WorkInv ==
    ASSUME Inv, NEW w \in Workers, Work(w)
    PROVE  Inv'
<1>1. /\ args \in Ranges /\ FarmInv(Nat) /\ Loop /\ Conserved
      /\ toWorker \in ChannelsOf(Workers, Nat \union {EOS})
      /\ toEmitter \in ChannelsOf(Workers, Nat \union {EOS})
  BY FarmFacts DEF Inv, FarmTypeOK
<1>2. PICK in \in Arrived(toWorker, w) : Svc(w, in, is_prime(in))
  BY DEF Work
<1>3. /\ toWorker' = Drop(toWorker, w)
      /\ toEmitter' = IF is_prime(in) THEN Put(toEmitter, w, in) ELSE toEmitter
      /\ UNCHANGED <<args, n1, results, emitter>>
  BY <1>2 DEF Work, Svc
<1>4. in \in Nat /\ in # EOS /\ Waiting(toWorker, w) /\ Head(toWorker[w]) = in
  BY <1>1, ArrivedProperties
<1>5. is_prime(in) <=> Prime(in)
  BY <1>4, IsPrimeCorrect
<1>6. FarmInv(Nat)'
  BY <1>1, <1>2, SvcInv
<1>7. In(toWorker) = In(toWorker') \union {in}
  BY <1>1, <1>3, <1>4, DropProperties
<1>8. In(toEmitter') = In(toEmitter) \union {n \in {in} : Prime(n)}
  <2>1. CASE is_prime(in)
    <3>1. toEmitter' = Put(toEmitter, w, in) /\ in \in Nat \union {EOS}
      BY <1>3, <1>4, <2>1
    <3>2. In(toEmitter') = In(toEmitter) \union ({in} \ {EOS})
      BY <1>1, <3>1, PutProperties
    <3> QED BY <1>4, <1>5, <2>1, <3>2
  <2>2. CASE ~is_prime(in)
    BY <1>3, <1>5, <2>2
  <2> QED BY <2>1, <2>2
<1>9. Conserved'
  BY <1>1, <1>3, <1>7, <1>8 DEF Conserved, Sent, n2
<1>10. Loop'
  BY <1>1, <1>3 DEF Loop, n2
<1> QED BY <1>3, <1>6, <1>9, <1>10 DEF Inv

LEMMA EndWorkerMainInv ==
    ASSUME Inv, NEW w \in Workers, EndWorker(w), UNCHANGED <<args, n1, results>>
    PROVE  Inv'
<1>1. /\ args \in Ranges /\ FarmInv(Nat) /\ Loop /\ Conserved
      /\ toWorker \in ChannelsOf(Workers, Nat \union {EOS})
      /\ toEmitter \in ChannelsOf(Workers, Nat \union {EOS})
  BY FarmFacts DEF Inv, FarmTypeOK
<1>2. /\ toWorker' = Drop(toWorker, w) /\ toEmitter' = Put(toEmitter, w, EOS)
      /\ Waiting(toWorker, w) /\ Head(toWorker[w]) = EOS /\ emitter' = emitter
  BY DEF EndWorker
<1>3. FarmInv(Nat)'
  BY <1>1, EndWorkerInv
<1>4. In(toWorker) = In(toWorker')
  <2>1. In(toWorker) = In(toWorker') \union ({Head(toWorker[w])} \ {EOS})
    BY <1>1, <1>2, DropProperties
  <2> QED BY <1>2, <2>1
<1>5. In(toEmitter') = In(toEmitter)
  <2>1. In(toEmitter') = In(toEmitter) \union ({EOS} \ {EOS})
    BY <1>1, <1>2, PutProperties, EOS \in Nat \union {EOS}
  <2> QED BY <2>1
<1>6. Conserved'
  BY <1>1, <1>4, <1>5 DEF Conserved, Sent, n2
<1>7. Loop'
  BY <1>1, <1>2 DEF Loop, n2
<1> QED BY <1>3, <1>6, <1>7 DEF Inv

LEMMA StutterInv == ASSUME Inv, UNCHANGED vars PROVE Inv'
<1>1. FarmInv(Nat)'
  BY FarmStutterInv DEF Inv, vars, farmVars
<1>2. Loop' /\ Conserved'
  BY DEF Inv, vars, Loop, Conserved, Sent, n2
<1> QED BY <1>1, <1>2 DEF Inv, vars

LEMMA NextInv == ASSUME Inv, [Next]_vars PROVE Inv'
<1>1. CASE Construct
  BY <1>1, ConstructInv
<1>2. CASE SendNext
  BY <1>2, SendNextInv
<1>3. ASSUME NEW w \in Workers, BroadcastEos(w) PROVE Inv'
  BY <1>3, BroadcastEosInv
<1>4. ASSUME NEW w \in Workers, Store(w) PROVE Inv'
  BY <1>4, StoreInv
<1>5. ASSUME NEW w \in Workers, CloseChannel(w), UNCHANGED <<args, n1, results>>
      PROVE  Inv'
  BY <1>5, CloseChannelMainInv
<1>6. ASSUME NEW w \in Workers, Work(w) PROVE Inv'
  BY <1>6, WorkInv
<1>7. ASSUME NEW w \in Workers, EndWorker(w), UNCHANGED <<args, n1, results>>
      PROVE  Inv'
  BY <1>7, EndWorkerMainInv
<1>8. CASE UNCHANGED vars
  BY <1>8, StutterInv
<1> QED BY <1>1, <1>2, <1>3, <1>4, <1>5, <1>6, <1>7, <1>8
        DEF Next, EmitterStep, WorkerStep, Terminated

LEMMA Invariance == Spec => []Inv
<1>1. Init => Inv
  BY InitInv
<1>2. Inv /\ [Next]_vars => Inv'
  BY NextInv
<1> QED BY <1>1, <1>2, PTL DEF Spec

----------------------------------------------------------------------------

\* Type correctness of primes_master-worker.cpp.
THEOREM TypeCorrect == Spec => []TypeOK
<1>1. Inv => TypeOK
  BY FarmFacts DEF Inv, TypeOK
<1> QED BY <1>1, Invariance, PTL

\* No number and no prime is sent behind the EOS of its channel, and no channel
\* of a node that has ended holds anything.
THEOREM NothingAfterEos == Spec => []EosIsLast
<1>1. Inv => EosIsLast
  BY FarmFacts DEF Inv
<1> QED BY <1>1, Invariance, PTL

\* No prime the emitter has sent is lost, whichever worker tests it.
THEOREM NoPrimeLost == Spec => []Conserved
<1>1. Inv => Conserved
  BY DEF Inv
<1> QED BY <1>1, Invariance, PTL

\* When the emitter's thread ends its vector holds all the primes of the range
\* and nothing else.
LEMMA CompleteAtEnd ==
    ASSUME Inv, emitter = "ended"
    PROVE  ToSet(results) = Wanted
<1>1. In(toWorker) = {} /\ In(toEmitter) = {}
  BY NothingLeft DEF Inv
<1>2. Sent = args[1]..n2
  BY RangeType DEF Inv, Loop, Sent
<1> QED BY <1>1, <1>2 DEF Inv, Conserved, Wanted

\* The same one step later, for the steps that end the search.
LEMMA CompleteAtNextEnd == Inv' => (emitter = "ended" => ToSet(results) = Wanted)'
<1>1. Inv => (emitter = "ended" => ToSet(results) = Wanted)
  BY CompleteAtEnd
<1> QED BY <1>1, PTL

\* main prints the primes of [n1, n2], all of them and nothing else.
THEOREM PrimesComplete == Spec => [](emitter = "ended" => ToSet(results) = Wanted)
<1>1. Inv => (emitter = "ended" => ToSet(results) = Wanted)
  BY CompleteAtEnd
<1> QED BY <1>1, Invariance, PTL

----------------------------------------------------------------------------
\* AtMostOnce is preserved in the states of Inv: the emitter sends a number
\* only when all that is on its way, or found, is smaller.

LEMMA OnceInit == ASSUME Init PROVE AtMostOnce
<1>1. /\ \A w \in Workers : toWorker[w] = <<>> /\ toEmitter[w] = <<>>
      /\ DOMAIN toWorker = Workers /\ DOMAIN toEmitter = Workers /\ results = <<>>
  BY DEF Init, FarmInit
<1>2. IsInjective(<<>>)
  BY DEF IsInjective
<1>3. NoCopies(toWorker) /\ NoCopies(toEmitter)
  BY <1>1, <1>2, ToSetOfEmpty DEF NoCopies
<1>4. In(toWorker) = {} /\ In(toEmitter) = {}
  BY <1>1, ToSetOfEmpty DEF In
<1> QED BY <1>1, <1>2, <1>3, <1>4 DEF AtMostOnce

LEMMA OnceSend ==
    ASSUME Inv, AtMostOnce, NEW w \in Workers, n1 <= n2, SendOut(w, n1),
           UNCHANGED <<args, results>>
    PROVE  AtMostOnce'
<1>1. /\ toWorker \in ChannelsOf(Workers, Nat \union {EOS})
      /\ n1 \in Nat /\ n1 \in Nat \union {EOS} /\ n1 # EOS
      /\ toWorker' = Put(toWorker, w, n1) /\ toEmitter' = toEmitter
  BY EOSAssumption, FarmFacts DEF Inv, FarmTypeOK, SendOut
<1>2. n1 \notin Sent
  BY <1>1, RangeType DEF Sent, n2, Inv
<1>3. n1 \notin In(toWorker) /\ n1 \notin In(toEmitter) /\ n1 \notin ToSet(results)
  BY <1>2 DEF Inv, Conserved
<1>4. NoCopies(toWorker')
  BY <1>1, <1>3, PutNoCopies DEF AtMostOnce
<1>5. In(toWorker') = In(toWorker) \union {n1}
  <2>1. In(toWorker') = In(toWorker) \union ({n1} \ {EOS})
    BY <1>1, PutProperties
  <2> QED BY <1>1, <2>1
<1> QED BY <1>1, <1>3, <1>4, <1>5 DEF AtMostOnce

LEMMA OnceBroadcast ==
    ASSUME Inv, AtMostOnce, NEW w \in Workers, BroadcastEos(w)
    PROVE  AtMostOnce'
<1>1. /\ toWorker \in ChannelsOf(Workers, Nat \union {EOS})
      /\ toWorker' = Put(toWorker, w, EOS) /\ UNCHANGED <<toEmitter, results>>
  BY FarmFacts DEF Inv, FarmTypeOK, BroadcastEos, Broadcast
<1>2. EOS \notin In(toWorker)
  BY DEF In
<1>3. NoCopies(toWorker')
  BY <1>1, <1>2, PutNoCopies, EOS \in Nat \union {EOS} DEF AtMostOnce
<1>4. In(toWorker') = In(toWorker) \union ({EOS} \ {EOS})
  BY <1>1, PutProperties, EOS \in Nat \union {EOS}
<1>5. In(toWorker') = In(toWorker)
  BY <1>4
<1> QED BY <1>1, <1>3, <1>5 DEF AtMostOnce

LEMMA OnceStore ==
    ASSUME Inv, AtMostOnce, NEW w \in Workers, Store(w)
    PROVE  AtMostOnce'
<1>1. PICK x \in Arrived(toEmitter, w) :
          /\ toEmitter' = Drop(toEmitter, w) /\ toWorker' = toWorker
          /\ results' = Append(results, x)
  BY DEF Store, Feedback
<1>2. toEmitter \in ChannelsOf(Workers, Nat \union {EOS}) /\ results \in Seq(Nat)
  BY FarmFacts DEF Inv, FarmTypeOK
<1>3. /\ x \in Nat /\ x # EOS /\ x \in In(toEmitter)
      /\ Waiting(toEmitter, w) /\ Head(toEmitter[w]) = x
  BY <1>2, ArrivedProperties
<1>4. NoCopies(toEmitter') /\ x \notin In(toEmitter')
  BY <1>1, <1>2, <1>3, DropNoCopies DEF AtMostOnce
<1>5. In(toEmitter) = In(toEmitter') \union {x}
  BY <1>1, <1>2, <1>3, DropProperties
<1>6. IsInjective(results') /\ ToSet(results') = ToSet(results) \union {x}
  BY <1>1, <1>2, <1>3, InjectiveOfAppend, ToSetOfAppend DEF AtMostOnce
<1> QED BY <1>1, <1>3, <1>4, <1>5, <1>6 DEF AtMostOnce

LEMMA OnceClose ==
    ASSUME Inv, AtMostOnce, NEW w \in Workers, CloseChannel(w),
           UNCHANGED <<args, n1, results>>
    PROVE  AtMostOnce'
<1>1. /\ toEmitter \in ChannelsOf(Workers, Nat \union {EOS})
      /\ Waiting(toEmitter, w)
      /\ toEmitter' = Drop(toEmitter, w) /\ toWorker' = toWorker
  BY FarmFacts DEF Inv, FarmTypeOK, CloseChannel
<1>2. NoCopies(toEmitter')
  BY <1>1, DropNoCopies DEF AtMostOnce
<1>3. In(toEmitter') \subseteq In(toEmitter)
  BY <1>1, DropProperties
<1> QED BY <1>1, <1>2, <1>3 DEF AtMostOnce

LEMMA OnceWork ==
    ASSUME Inv, AtMostOnce, NEW w \in Workers, Work(w)
    PROVE  AtMostOnce'
<1>1. PICK in \in Arrived(toWorker, w) :
          /\ toWorker' = Drop(toWorker, w) /\ results' = results
          /\ toEmitter' = IF is_prime(in) THEN Put(toEmitter, w, in) ELSE toEmitter
  BY DEF Work, Svc
<1>2. /\ toWorker \in ChannelsOf(Workers, Nat \union {EOS})
      /\ toEmitter \in ChannelsOf(Workers, Nat \union {EOS})
  BY FarmFacts DEF Inv, FarmTypeOK
<1>3. /\ in \in Nat \union {EOS} /\ in # EOS /\ in \in In(toWorker)
      /\ Waiting(toWorker, w) /\ Head(toWorker[w]) = in
  BY <1>2, ArrivedProperties
<1>4. NoCopies(toWorker') /\ in \notin In(toWorker')
  BY <1>1, <1>2, <1>3, DropNoCopies DEF AtMostOnce
<1>5. In(toWorker) = In(toWorker') \union {in}
  BY <1>1, <1>2, <1>3, DropProperties
<1>6. in \notin In(toEmitter) /\ in \notin ToSet(results)
  BY <1>3 DEF AtMostOnce
<1>7. NoCopies(toEmitter') /\ In(toEmitter') \subseteq In(toEmitter) \union {in}
  <2>1. CASE is_prime(in)
    <3>1. toEmitter' = Put(toEmitter, w, in)
      BY <1>1, <2>1
    <3>2. NoCopies(toEmitter')
      BY <1>2, <1>3, <1>6, <3>1, PutNoCopies DEF AtMostOnce
    <3>3. In(toEmitter') = In(toEmitter) \union ({in} \ {EOS})
      BY <1>2, <1>3, <3>1, PutProperties
    <3> QED BY <3>2, <3>3
  <2>2. CASE ~is_prime(in)
    BY <1>1, <2>2 DEF AtMostOnce
  <2> QED BY <2>1, <2>2
<1> QED BY <1>1, <1>4, <1>5, <1>6, <1>7 DEF AtMostOnce

LEMMA OnceEndWorker ==
    ASSUME Inv, AtMostOnce, NEW w \in Workers, EndWorker(w),
           UNCHANGED <<args, n1, results>>
    PROVE  AtMostOnce'
<1>1. /\ toWorker \in ChannelsOf(Workers, Nat \union {EOS})
      /\ toEmitter \in ChannelsOf(Workers, Nat \union {EOS})
      /\ Waiting(toWorker, w)
      /\ toWorker' = Drop(toWorker, w) /\ toEmitter' = Put(toEmitter, w, EOS)
  BY FarmFacts DEF Inv, FarmTypeOK, EndWorker
<1>2. EOS \notin In(toEmitter)
  BY DEF In
<1>3. NoCopies(toWorker') /\ NoCopies(toEmitter')
  BY <1>1, <1>2, DropNoCopies, PutNoCopies, EOS \in Nat \union {EOS} DEF AtMostOnce
<1>4. In(toWorker') \subseteq In(toWorker)
  BY <1>1, DropProperties
<1>5. In(toEmitter') = In(toEmitter) \union ({EOS} \ {EOS})
  BY <1>1, PutProperties, EOS \in Nat \union {EOS}
<1> QED BY <1>3, <1>4, <1>5 DEF AtMostOnce

LEMMA OnceStep == ASSUME Inv, AtMostOnce, [Next]_vars PROVE AtMostOnce'
<1>1. ASSUME UNCHANGED <<toWorker, toEmitter, results>> PROVE AtMostOnce'
  BY <1>1 DEF AtMostOnce
<1>2. CASE Construct
  BY <1>1, <1>2 DEF Construct, Run, Abort
<1>3. CASE SendNext
  <2>1. ASSUME NEW w \in Workers, n1 <= n2, SendOut(w, n1), UNCHANGED <<args, results>>
        PROVE  AtMostOnce'
    BY <2>1, OnceSend
  <2>2. CASE EndSend /\ UNCHANGED <<args, results>>
    BY <1>1, <2>2 DEF EndSend
  <2> QED BY <1>3, <2>1, <2>2 DEF SendNext
<1>4. ASSUME NEW w \in Workers, BroadcastEos(w) PROVE AtMostOnce'
  BY <1>4, OnceBroadcast
<1>5. ASSUME NEW w \in Workers, Store(w) PROVE AtMostOnce'
  BY <1>5, OnceStore
<1>6. ASSUME NEW w \in Workers, CloseChannel(w), UNCHANGED <<args, n1, results>>
      PROVE  AtMostOnce'
  BY <1>6, OnceClose
<1>7. ASSUME NEW w \in Workers, Work(w) PROVE AtMostOnce'
  BY <1>7, OnceWork
<1>8. ASSUME NEW w \in Workers, EndWorker(w), UNCHANGED <<args, n1, results>>
      PROVE  AtMostOnce'
  BY <1>8, OnceEndWorker
<1>9. CASE UNCHANGED vars
  BY <1>1, <1>9 DEF vars
<1> QED BY <1>2, <1>3, <1>4, <1>5, <1>6, <1>7, <1>8, <1>9
        DEF Next, EmitterStep, WorkerStep, Terminated

\* A number is in one channel or in the vector, and there once: no prime is
\* tested or reported twice.
THEOREM NoPrimeTwice == Spec => []AtMostOnce
<1>1. Init => AtMostOnce
  BY OnceInit
<1>2. Inv /\ AtMostOnce /\ [Next]_vars => AtMostOnce'
  BY OnceStep
<1> QED BY <1>1, <1>2, Invariance, PTL DEF Spec

----------------------------------------------------------------------------
\* Refinement.

status ==
    CASE emitter = "ended" -> "finished"
      [] emitter = "aborted" -> "aborted"
      [] OTHER -> "running"

LEMMA SearchInit == ASSUME Init PROVE Search!Init
BY ToSetOfEmpty DEF Init, FarmInit, Search!Init

LEMMA SearchStep ==
    ASSUME Inv, Inv', [Next]_vars
    PROVE  [Search!Next]_<<Wanted, ToSet(results), status>>
<1>1. ASSUME UNCHANGED <<args, results, status>> 
      PROVE  UNCHANGED <<Wanted, ToSet(results), status>>
  BY <1>1 DEF Wanted, n2
<1>2. CASE Construct
  <2>1. /\ emitter = "constructor" /\ emitter' \in {"send", "aborted"}
        /\ UNCHANGED <<args, results>>
    BY <1>2 DEF Construct, Run, Abort
  <2>2. results = <<>>
    BY <2>1 DEF Inv, Loop
  <2>3. CASE emitter' = "send"
    BY <1>1, <2>1, <2>3 DEF status
  <2>4. CASE emitter' = "aborted"
    <3>1. Search!GiveUp
      BY <2>1, <2>2, <2>4, ToSetOfEmpty DEF Search!GiveUp, Wanted, n2
    <3> QED BY <3>1 DEF Search!Next
  <2> QED BY <2>1, <2>3, <2>4
<1>3. CASE SendNext
  BY <1>1, <1>3 DEF SendNext, SendOut, EndSend, status
<1>4. ASSUME NEW w \in Workers, BroadcastEos(w)
      PROVE  UNCHANGED <<Wanted, ToSet(results), status>>
  BY <1>1, <1>4 DEF BroadcastEos, Broadcast, status
<1>5. ASSUME NEW w \in Workers, Store(w)
      PROVE  [Search!Find]_<<Wanted, ToSet(results), status>>
  <2>1. /\ ToSet(results) \subseteq ToSet(results') /\ ToSet(results') \subseteq Wanted'
        /\ UNCHANGED <<args, emitter>> /\ emitter = "collect"
    BY <1>5, StoreInv DEF Inv, Conserved, Sent, Wanted
  <2>2. Wanted' = Wanted /\ status' = status /\ status = "running"
    BY <2>1 DEF Wanted, n2, status
  <2> QED BY <2>1, <2>2 DEF Search!Find, status
<1>6. ASSUME NEW w \in Workers, CloseChannel(w), UNCHANGED <<args, n1, results>>
      PROVE  [Search!Finish]_<<Wanted, ToSet(results), status>>
  <2>1. emitter = "collect" /\ emitter' \in {"collect", "ended"}
    BY <1>6 DEF CloseChannel
  <2>2. CASE emitter' = "collect"
    BY <1>1, <1>6, <2>1, <2>2 DEF status
  <2>3. CASE emitter' = "ended"
    <3>1. Wanted' = Wanted /\ ToSet(results)' = Wanted'
      BY <1>6, <2>3, CompleteAtNextEnd DEF Wanted, n2
    <3> QED BY <1>6, <2>1, <2>3, <3>1 DEF Search!Finish, status
  <2> QED BY <2>1, <2>2, <2>3
<1>7. ASSUME NEW w \in Workers, Work(w)
      PROVE  UNCHANGED <<Wanted, ToSet(results), status>>
  BY <1>1, <1>7 DEF Work, Svc, status
<1>8. ASSUME NEW w \in Workers, EndWorker(w), UNCHANGED <<args, n1, results>>
      PROVE  UNCHANGED <<Wanted, ToSet(results), status>>
  BY <1>1, <1>8 DEF EndWorker, status
<1>9. CASE UNCHANGED vars
  BY <1>1, <1>9 DEF vars, status
<1> QED BY <1>2, <1>3, <1>4, <1>5, <1>6, <1>7, <1>8, <1>9
        DEF Next, EmitterStep, WorkerStep, Terminated, Search!Next

\* The farm implements the abstract prime search: what is found stays found
\* and is wanted, and the program finishes only when nothing is missing.
THEOREM ImplementsSearch == Spec => SearchSpec
<1>1. Init => Search!Init
  BY SearchInit
<1>2. Inv /\ Inv' /\ [Next]_vars => [Search!Next]_<<Wanted, ToSet(results), status>>
  BY SearchStep
<1> QED BY <1>1, <1>2, Invariance, PTL DEF Spec, SearchSpec, Search!Spec, status
====
