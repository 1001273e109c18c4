---- MODULE SchedFarm_proofs ----
(***************************************************************************)
(* my_primes_master_worker.cpp for every range, every number of workers    *)
(* and every length of the channels that holds the marks of all workers:   *)
(* the repeated broadcasts of EOS do no harm, every task has one owner,    *)
(* and the pipeline finds what PrimeSearch promises.                       *)
(*                                                                         *)
(* No variable of the program says that Stage0 has ended and that Sched    *)
(* knows it. Draining recovers it: where a mark has gone to a worker, or a *)
(* worker has ended, nothing is left of Stage0's stream. From it follows   *)
(* that no task is sent behind a mark. Room counts the marks: Sched never  *)
(* waits for a worker that has ended.                                      *)
(***************************************************************************)
EXTENDS SchedFarm, Shared_proofs

\* Nothing but marks follows a mark, and at most n marks are in s.
MarksLast(s) == \A j, k \in DOMAIN s : j < k /\ s[j] = EOS => s[k] = EOS
MarksWithin(s, n) == \A k \in DOMAIN s : s[k] = EOS => Len(s) - k < n

TypeOK ==
    /\ args \in Ranges
    /\ i \in Int /\ stage0 \in {"sending", "ended"}
    /\ input \in Seq(Int \union {EOS})
    /\ toWorker \in ChannelsOf(Workers, Int \union {EOS})
    /\ toSched \in ChannelsOf(Workers, Int \union {EOS})
    /\ running \subseteq Workers
    /\ sched \in {"serve", "forward", "notify", "ended"}
    /\ held \subseteq Int
    /\ toNotify \subseteq Workers /\ eosFrom \subseteq Workers
    /\ printed \in Seq(Int)

\* What Stage0 has done, and what Sched is doing.
Control ==
    /\ stage0 = "ended" => i > stop
    /\ EosAtEnd(input)
    /\ EOS \in ToSet(input) => stage0 = "ended"
    /\ held # {} => sched = "forward" /\ \E t \in held : held = {t}
    /\ toNotify # {} => sched = "notify"
    /\ sched = "ended" => eosFrom = Workers

\* Sched has been told of the end of Stage0's stream.
Told ==
    \/ sched \in {"notify", "ended"}
    \/ \E w \in Workers : w \notin running \/ EOS \in ToSet(toWorker[w])

Draining == Told => stage0 = "ended" /\ input = <<>> /\ held = {}

\* Each worker has been, or is being, sent one mark for Stage0 and one for
\* every worker Sched has been told of; one that has ended has read one mark.
Pending(w) == IF w \in toNotify THEN 1 ELSE 0

Room(w) ==
    /\ MarksWithin(toWorker[w], Cardinality(eosFrom) + 1 - Pending(w))
    /\ w \notin running => Len(toWorker[w]) <= Cardinality(eosFrom) - Pending(w)

Marks(w) ==
    /\ MarksLast(toWorker[w])
    /\ w \notin running => ToSet(toWorker[w]) \subseteq {EOS}

Answers(w) ==
    /\ EosAtEnd(toSched[w])
    /\ w \in running => EOS \notin ToSet(toSched[w])
    /\ w \in eosFrom => w \notin running /\ toSched[w] = <<>>

Protocol ==
    /\ TypeOK /\ Control /\ Draining
    /\ \A w \in Workers : Room(w) /\ Marks(w) /\ Answers(w)

\* The tasks before a worker tests them are in one place each, and a number
\* is printed when its task has been made.
Owners ==
    /\ OneOwner
    /\ ToSet(printed) \subseteq Generated
    /\ i >= start
    /\ IsInjective(input)
    /\ ToSet(input) \intersect held = {}
    /\ (ToSet(input) \union held) \intersect In(toWorker) = {}

Inv == Protocol /\ Owners

LEMMA RangeType ==
    ASSUME args \in Ranges
    PROVE  start \in Int /\ stop \in Int
BY RangesAssumption DEF start, stop

LEMMA WorkersType == Cardinality(Workers) \in Nat /\ Workers # {}
BY WorkersAssumption, FS_CardinalityType

\* eosFrom, being a set of workers, can be counted.
LEMMA CountType ==
    ASSUME NEW S \in SUBSET Workers
    PROVE  /\ Cardinality(S) \in Nat
           /\ Cardinality(S) <= Cardinality(Workers)
           /\ \A w \in Workers \ S : Cardinality(S \union {w}) = Cardinality(S) + 1
<1>1. IsFiniteSet(S) /\ Cardinality(S) <= Cardinality(Workers)
  BY WorkersAssumption, FS_Subset
<1> QED BY <1>1, FS_CardinalityType, FS_AddElement

----------------------------------------------------------------------------
\* Marks at the end of a channel.

LEMMA MarksOfEmpty ==
    ASSUME NEW n
    PROVE  MarksLast(<<>>) /\ MarksWithin(<<>>, n)
BY DEF MarksLast, MarksWithin

\* A task may follow when no mark is there, a mark always.
LEMMA MarksOfAppend ==
    ASSUME NEW S, NEW s \in Seq(S), NEW m \in S, NEW n \in Int, n >= 0,
           MarksLast(s), EOS \notin ToSet(s) \/ (m = EOS /\ MarksWithin(s, n))
    PROVE  /\ MarksLast(Append(s, m))
           /\ m = EOS => MarksWithin(Append(s, m), n + 1)
           /\ m # EOS => MarksWithin(Append(s, m), n)
<1> DEFINE u == Append(s, m)
<1>1. /\ Len(s) \in Nat /\ DOMAIN s = 1..Len(s) /\ DOMAIN u = 1..(Len(s) + 1)
      /\ Len(u) = Len(s) + 1
      /\ \A k \in 1..Len(s) : u[k] = s[k]
      /\ u[Len(s) + 1] = m
  OBVIOUS
<1>2. EOS \notin ToSet(s) => \A k \in 1..Len(s) : s[k] # EOS
  BY <1>1 DEF ToSet
<1> HIDE DEF u
<1>3. MarksLast(u)
  BY <1>1, <1>2 DEF MarksLast
<1>4. ASSUME m = EOS PROVE MarksWithin(u, n + 1)
  <2>1. ASSUME NEW k \in 1..Len(s), s[k] = EOS PROVE Len(s) - k < n
    BY <1>1, <1>2, <2>1 DEF MarksWithin
  <2> QED BY <1>1, <1>4, <2>1 DEF MarksWithin
<1>5. ASSUME m # EOS PROVE MarksWithin(u, n)
  BY <1>1, <1>2, <1>5 DEF MarksWithin
<1> QED BY <1>3, <1>4, <1>5 DEF u

LEMMA MarksOfTail ==
    ASSUME NEW S, NEW s \in Seq(S), s # <<>>, NEW n \in Int,
           MarksLast(s), MarksWithin(s, n)
    PROVE  /\ MarksLast(Tail(s)) /\ MarksWithin(Tail(s), n)
           /\ Head(s) = EOS => ToSet(Tail(s)) \subseteq {EOS} /\ Len(Tail(s)) < n
<1> DEFINE u == Tail(s)
<1>1. /\ Len(s) \in Nat /\ Len(s) >= 1 /\ DOMAIN s = 1..Len(s)
      /\ DOMAIN u = 1..(Len(s) - 1) /\ Len(u) = Len(s) - 1
      /\ \A k \in 1..(Len(s) - 1) : u[k] = s[k + 1]
      /\ Head(s) = s[1]
  OBVIOUS
<1> HIDE DEF u
<1>2. \A k \in 1..(Len(s) - 1) : k + 1 \in 1..Len(s)
  BY <1>1
<1>3. MarksLast(u)
  BY <1>1, <1>2 DEF MarksLast
<1>4. MarksWithin(u, n)
  <2>1. ASSUME NEW k \in 1..(Len(s) - 1), u[k] = EOS PROVE Len(u) - k < n
    <3>1. s[k + 1] = EOS /\ k + 1 \in 1..Len(s)
      BY <1>1, <1>2, <2>1
    <3>2. Len(s) - (k + 1) < n
      BY <1>1, <3>1 DEF MarksWithin
    <3> QED BY <1>1, <3>2
  <2> QED BY <1>1, <2>1 DEF MarksWithin
<1>5. ASSUME Head(s) = EOS PROVE ToSet(u) \subseteq {EOS} /\ Len(u) < n
  <2>1. 1 \in 1..Len(s) /\ s[1] = EOS
    BY <1>1, <1>5
  <2>2. ASSUME NEW k \in 1..(Len(s) - 1) PROVE u[k] = EOS
    BY <1>1, <1>2, <2>1 DEF MarksLast
  <2>3. Len(s) - 1 < n
    BY <1>1, <2>1 DEF MarksWithin
  <2> QED BY <1>1, <2>2, <2>3 DEF ToSet
<1> QED BY <1>3, <1>4, <1>5 DEF u

\* The channel of a worker, after a message has been added or read.
LEMMA PutAt ==
    ASSUME NEW W, NEW S, NEW ch \in ChannelsOf(W, S), NEW w \in W, NEW m
    PROVE  Put(ch, w, m)[w] = Append(ch[w], m) /\ ch[w] \in Seq(S)
BY DEF Put, ChannelsOf

LEMMA DropAt ==
    ASSUME NEW W, NEW S, NEW ch \in ChannelsOf(W, S), NEW w \in W
    PROVE  Drop(ch, w)[w] = Tail(ch[w]) /\ ch[w] \in Seq(S)
BY DEF Drop, ChannelsOf

\* is_prime is right about the negative numbers of a range as well.
LEMMA IsPrimeOfInt ==
    ASSUME NEW n \in Int
    PROVE  is_prime(n) <=> Prime(n)
<1>1. CASE n \in Nat
  BY <1>1, IsPrimeCorrect
<1>2. CASE n \notin Nat
  BY <1>2 DEF is_prime, Prime
<1> QED BY <1>1, <1>2

----------------------------------------------------------------------------
\* The protocol.

LEMMA ProtocolInit == ASSUME Init PROVE Protocol
<1>1. /\ args \in Ranges /\ i = start /\ stage0 = "sending" /\ input = <<>>
      /\ toWorker = [w \in Workers |-> <<>>] /\ toSched = [w \in Workers |-> <<>>]
      /\ running = Workers /\ sched = "serve" /\ held = {} /\ toNotify = {}
      /\ eosFrom = {} /\ printed = <<>>
  BY DEF Init
<1>2. \A w \in Workers : toWorker[w] = <<>> /\ toSched[w] = <<>>
  BY <1>1
<1>3. TypeOK
  BY <1>1, RangeType DEF TypeOK, ChannelsOf
<1>4. Control
  BY <1>1, ToSetOfEmpty, EosAtEndOfEmpty DEF Control
<1>5. Draining
  BY <1>1, <1>2, ToSetOfEmpty DEF Draining, Told
<1>6. ASSUME NEW w \in Workers PROVE Room(w) /\ Marks(w) /\ Answers(w)
  BY <1>1, <1>2, MarksOfEmpty, ToSetOfEmpty, EosAtEndOfEmpty
     DEF Room, Marks, Answers
<1> QED BY <1>3, <1>4, <1>5, <1>6 DEF Protocol

\* Steps that do not touch what Sched and the workers exchange.
LEMMA WorkersQuiet ==
    ASSUME Protocol, UNCHANGED <<toWorker, toSched, running, eosFrom, toNotify>>
    PROVE  \A w \in Workers : Room(w)' /\ Marks(w)' /\ Answers(w)'
BY DEF Protocol, Room, Pending, Marks, Answers

LEMMA ProtocolGenerate == ASSUME Protocol, Generate PROVE Protocol'
<1>1. /\ stage0 = "sending" /\ i <= stop /\ input' = Append(input, i) /\ i' = i + 1
      /\ UNCHANGED <<args, stage0, schedVars, toWorker, toSched, running>>
  BY DEF Generate
<1>2. /\ TypeOK /\ Control /\ Draining
      /\ i \in Int /\ i # EOS /\ i \in Int \union {EOS}
      /\ input \in Seq(Int \union {EOS}) /\ EOS \notin ToSet(input)
  BY <1>1, TaskAssumption DEF Protocol, TypeOK, Control
<1>3. /\ input' \in Seq(Int \union {EOS}) /\ EosAtEnd(input')
      /\ EOS \notin ToSet(input')
  BY <1>1, <1>2, EosAtEndOfAppend, ToSetOfAppend
<1>4. TypeOK'
  BY <1>1, <1>2, <1>3 DEF TypeOK, schedVars
<1>5. Control'
  BY <1>1, <1>2, <1>3 DEF Control, schedVars
<1>6. Draining'
  BY <1>1, <1>2 DEF Draining, Told, schedVars
<1>7. \A w \in Workers : Room(w)' /\ Marks(w)' /\ Answers(w)'
  BY <1>1, WorkersQuiet DEF schedVars
<1> QED BY <1>4, <1>5, <1>6, <1>7 DEF Protocol

LEMMA ProtocolEndStage0 == ASSUME Protocol, EndStage0 PROVE Protocol'
<1>1. /\ stage0 = "sending" /\ i > stop /\ input' = Append(input, EOS)
      /\ stage0' = "ended"
      /\ UNCHANGED <<args, i, schedVars, toWorker, toSched, running>>
  BY DEF EndStage0
<1>2. /\ TypeOK /\ Control /\ Draining /\ EOS \in Int \union {EOS}
      /\ input \in Seq(Int \union {EOS}) /\ EOS \notin ToSet(input)
  BY <1>1 DEF Protocol, TypeOK, Control
<1>3. input' \in Seq(Int \union {EOS}) /\ EosAtEnd(input')
  BY <1>1, <1>2, EosAtEndOfAppend
<1>4. TypeOK'
  BY <1>1, <1>2, <1>3 DEF TypeOK, schedVars
<1>5. Control'
  BY <1>1, <1>2, <1>3 DEF Control, schedVars, stop
<1>6. Draining'
  BY <1>1, <1>2 DEF Draining, Told, schedVars
<1>7. \A w \in Workers : Room(w)' /\ Marks(w)' /\ Answers(w)'
  BY <1>1, WorkersQuiet DEF schedVars
<1> QED BY <1>4, <1>5, <1>6, <1>7 DEF Protocol

LEMMA ProtocolFromStage0 == ASSUME Protocol, FromStage0 PROVE Protocol'
<1>1. /\ sched = "serve" /\ input # <<>> /\ Head(input) # EOS
      /\ held' = {Head(input)} /\ sched' = "forward" /\ input' = Tail(input)
      /\ UNCHANGED <<args, stageVars, toNotify, eosFrom, printed, toWorker, toSched,
                     running>>
  BY DEF FromStage0
<1>2. /\ TypeOK /\ Control /\ Draining /\ input \in Seq(Int \union {EOS})
  BY DEF Protocol, TypeOK
<1>3. /\ Tail(input) \in Seq(Int \union {EOS}) /\ EosAtEnd(Tail(input))
      /\ Head(input) \in Int /\ ToSet(Tail(input)) \subseteq ToSet(input)
  BY <1>1, <1>2, ToSetOfTail, EosAtEndOfTail DEF Control
<1>4. TypeOK'
  BY <1>1, <1>2, <1>3 DEF TypeOK, stageVars
<1>5. Control'
  BY <1>1, <1>2, <1>3 DEF Control, stageVars, stop
<1>6. Draining'
  BY <1>1, <1>2 DEF Draining, Told, stageVars
<1>7. \A w \in Workers : Room(w)' /\ Marks(w)' /\ Answers(w)'
  BY <1>1, WorkersQuiet
<1> QED BY <1>4, <1>5, <1>6, <1>7 DEF Protocol

\* While a task is held no worker has been sent a mark.
LEMMA ProtocolForward == ASSUME Protocol, Forward PROVE Protocol'
<1>1. PICK w \in Workers, t \in held : toWorker' = Put(toWorker, w, t)
  BY DEF Forward
<1>2. /\ sched = "forward" /\ held' = {} /\ sched' = "serve"
      /\ UNCHANGED <<args, stageVars, toNotify, eosFrom, printed, input, toSched,
                     running>>
  BY DEF Forward
<1>3. /\ TypeOK /\ Control /\ Draining
      /\ toWorker \in ChannelsOf(Workers, Int \union {EOS})
      /\ t \in Int \union {EOS} /\ t # EOS /\ eosFrom \in SUBSET Workers
      /\ \A v \in Workers : Room(v) /\ Marks(v) /\ Answers(v)
  BY TaskAssumption DEF Protocol, TypeOK
<1>4. ~Told /\ \A v \in Workers : v \in running /\ EOS \notin ToSet(toWorker[v])
  BY <1>3 DEF Draining, Told
<1>5. toNotify = {}
  BY <1>2, <1>3 DEF Control
<1>6. /\ toWorker' \in ChannelsOf(Workers, Int \union {EOS})
      /\ \A v \in Workers \ {w} : toWorker'[v] = toWorker[v]
      /\ ToSet(toWorker'[w]) = ToSet(toWorker[w]) \union {t}
      /\ toWorker'[w] = Append(toWorker[w], t)
      /\ toWorker[w] \in Seq(Int \union {EOS})
  BY <1>1, <1>3, PutProperties, PutAt
<1>7. TypeOK'
  BY <1>2, <1>3, <1>6 DEF TypeOK, stageVars
<1>8. Control'
  BY <1>2, <1>3, <1>5 DEF Control, stageVars, stop
<1>9. Draining'
  BY <1>2, <1>3, <1>4, <1>6 DEF Draining, Told
<1>10. ASSUME NEW v \in Workers PROVE Room(v)' /\ Marks(v)' /\ Answers(v)'
  <2>1. Answers(v)'
    BY <1>2, <1>3 DEF Answers
  <2>2. CASE v = w
    <3> DEFINE n == Cardinality(eosFrom) + 1
    <3>1. n \in Int /\ n >= 0
      BY <1>3, CountType
    <3>2. Pending(v)' = 0
      BY <1>2, <1>5 DEF Pending
    <3>3. MarksLast(toWorker'[w]) /\ MarksWithin(toWorker'[w], n)
      <4>1. MarksLast(toWorker[w]) /\ EOS \notin ToSet(toWorker[w])
        BY <1>3, <1>4 DEF Marks
      <4> HIDE DEF n
      <4> QED BY <1>3, <1>6, <3>1, <4>1, MarksOfAppend
    <3>4. Room(v)'
      BY <1>2, <1>4, <2>2, <3>1, <3>2, <3>3 DEF Room
    <3> QED BY <1>2, <1>4, <2>1, <2>2, <3>3, <3>4 DEF Marks
  <2>3. CASE v # w
    <3>1. toWorker'[v] = toWorker[v]
      BY <1>6, <2>3
    <3> QED BY <1>2, <1>3, <2>1, <3>1 DEF Room, Pending, Marks
  <2> QED BY <2>2, <2>3
<1> QED BY <1>7, <1>8, <1>9, <1>10 DEF Protocol

LEMMA ProtocolPrintPrime ==
    ASSUME Protocol, NEW w \in Workers, PrintPrime(w)
    PROVE  Protocol'
<1>1. PICK t \in Arrived(toSched, w) : printed' = Append(printed, t)
  BY DEF PrintPrime
<1>2. /\ sched = "serve" /\ toSched' = Drop(toSched, w)
      /\ UNCHANGED <<args, stageVars, sched, held, toNotify, eosFrom, input,
                     toWorker, running>>
  BY DEF PrintPrime
<1>3. /\ TypeOK /\ Control /\ Draining
      /\ toSched \in ChannelsOf(Workers, Int \union {EOS})
      /\ \A v \in Workers : Room(v) /\ Marks(v) /\ Answers(v)
  BY DEF Protocol, TypeOK
<1>4. t \in Int /\ Waiting(toSched, w)
  BY <1>3, ArrivedProperties
<1>5. /\ toSched' \in ChannelsOf(Workers, Int \union {EOS})
      /\ \A v \in Workers \ {w} : toSched'[v] = toSched[v]
      /\ ToSet(toSched'[w]) \subseteq ToSet(toSched[w])
      /\ EosAtEnd(toSched[w]) => EosAtEnd(toSched'[w])
  BY <1>2, <1>3, <1>4, DropProperties
<1>6. TypeOK'
  BY <1>1, <1>2, <1>3, <1>4, <1>5 DEF TypeOK, stageVars
<1>7. Control' /\ Draining'
  BY <1>2, <1>3 DEF Control, Draining, Told, stageVars, stop
<1>8. ASSUME NEW v \in Workers PROVE Room(v)' /\ Marks(v)' /\ Answers(v)'
  <2>1. Room(v)' /\ Marks(v)'
    BY <1>2, <1>3 DEF Room, Pending, Marks
  <2>2. CASE v = w
    <3>1. w \notin eosFrom
      BY <1>3, <1>4 DEF Answers, Waiting
    <3> QED BY <1>2, <1>3, <1>5, <2>1, <2>2, <3>1 DEF Answers
  <2>3. CASE v # w
    BY <1>2, <1>3, <1>5, <2>1, <2>3 DEF Answers
  <2> QED BY <2>2, <2>3
<1> QED BY <1>6, <1>7, <1>8 DEF Protocol

\* A mark may go to every worker: each has been sent at most one for every
\* mark Sched has been told of, this one not counted.
LEMMA ProtocolNotifyStage0 == ASSUME Protocol, NotifyStage0 PROVE Protocol'
<1>1. /\ sched = "serve" /\ input # <<>> /\ Head(input) = EOS
      /\ input' = Tail(input) /\ sched' = "notify" /\ toNotify' = Workers
      /\ UNCHANGED <<args, stageVars, held, eosFrom, printed, toWorker, toSched,
                     running>>
  BY DEF NotifyStage0
<1>2. /\ TypeOK /\ Control /\ Draining /\ input \in Seq(Int \union {EOS})
      /\ eosFrom \in SUBSET Workers
      /\ \A v \in Workers : Room(v) /\ Marks(v) /\ Answers(v)
  BY DEF Protocol, TypeOK
<1>3. /\ input' = <<>> /\ stage0 = "ended" /\ held = {}
  <2>1. EOS \in ToSet(input)
    BY <1>1, <1>2, ToSetOfTail
  <2> QED BY <1>1, <1>2, <2>1, EosAtEndOfTail DEF Control
<1>4. ~Told
  BY <1>1, <1>2 DEF Draining
<1>5. TypeOK'
  BY <1>1, <1>2, <1>3 DEF TypeOK, stageVars
<1>6. Control'
  BY <1>1, <1>2, <1>3, EosAtEndOfEmpty, ToSetOfEmpty DEF Control, stageVars, stop
<1>7. Draining'
  BY <1>1, <1>3 DEF Draining, stageVars
<1>8. ASSUME NEW v \in Workers PROVE Room(v)' /\ Marks(v)' /\ Answers(v)'
  <2>1. Marks(v)' /\ Answers(v)'
    BY <1>1, <1>2 DEF Marks, Answers
  <2>2. v \in running /\ EOS \notin ToSet(toWorker[v])
    BY <1>4 DEF Told
  <2>3. MarksWithin(toWorker[v], Cardinality(eosFrom)' + 1 - Pending(v)')
    BY <2>2 DEF MarksWithin, ToSet
  <2> QED BY <1>1, <2>1, <2>2, <2>3 DEF Room
<1> QED BY <1>5, <1>6, <1>7, <1>8 DEF Protocol

LEMMA ProtocolNotifyWorker ==
    ASSUME Protocol, NEW w \in Workers, NotifyWorker(w)
    PROVE  Protocol'
<1>1. /\ sched = "serve" /\ Waiting(toSched, w) /\ Head(toSched[w]) = EOS
      /\ toSched' = Drop(toSched, w)
      /\ sched' = "notify" /\ toNotify' = Workers /\ eosFrom' = eosFrom \union {w}
      /\ UNCHANGED <<args, stageVars, held, printed, input, toWorker, running>>
  BY DEF NotifyWorker
<1>2. /\ TypeOK /\ Control /\ Draining
      /\ toSched \in ChannelsOf(Workers, Int \union {EOS})
      /\ toWorker \in ChannelsOf(Workers, Int \union {EOS})
      /\ eosFrom \in SUBSET Workers
      /\ \A v \in Workers : Room(v) /\ Marks(v) /\ Answers(v)
  BY DEF Protocol, TypeOK
<1>3. /\ toSched' \in ChannelsOf(Workers, Int \union {EOS})
      /\ \A v \in Workers \ {w} : toSched'[v] = toSched[v]
      /\ EosAtEnd(toSched[w]) => toSched'[w] = <<>>
      /\ EOS \in ToSet(toSched[w])
  BY <1>1, <1>2, DropProperties
<1>4. w \notin running /\ w \notin eosFrom /\ toSched'[w] = <<>>
  BY <1>1, <1>2, <1>3 DEF Answers, Waiting
<1>5. /\ Cardinality(eosFrom) \in Nat
      /\ Cardinality(eosFrom') = Cardinality(eosFrom) + 1
  BY <1>1, <1>2, <1>4, CountType
<1>6. Told /\ toNotify = {}
  BY <1>1, <1>2, <1>4 DEF Told, Control
<1>7. TypeOK'
  BY <1>1, <1>2, <1>3 DEF TypeOK, stageVars
<1>8. Control'
  BY <1>1, <1>2, <1>6 DEF Control, Draining, stageVars, stop
<1>9. Draining'
  BY <1>1, <1>2, <1>6 DEF Draining, stageVars
<1>10. ASSUME NEW v \in Workers PROVE Room(v)' /\ Marks(v)' /\ Answers(v)'
  <2>1. Marks(v)'
    BY <1>1, <1>2 DEF Marks
  <2>2. Answers(v)'
    <3>1. CASE v = w
      BY <1>1, <1>4, <3>1, ToSetOfEmpty, EosAtEndOfEmpty DEF Answers
    <3>2. CASE v # w
      BY <1>1, <1>2, <1>3, <3>2 DEF Answers
    <3> QED BY <3>1, <3>2
  <2>3. /\ Pending(v) = 0 /\ Pending(v)' = 1
    BY <1>1, <1>6 DEF Pending
  <2>4. Cardinality(eosFrom)' = Cardinality(eosFrom) + 1
    BY <1>5
  <2>5. Room(v)'
    <3> DEFINE n == Cardinality(eosFrom)
    <3>1. /\ Cardinality(eosFrom)' + 1 - Pending(v)' = n + 1 - Pending(v)
          /\ Cardinality(eosFrom)' - Pending(v)' = n - Pending(v)
      <4>1. n \in Nat
        BY <1>5
      <4> HIDE DEF n
      <4>2. Cardinality(eosFrom)' = n + 1
        BY <2>4 DEF n
      <4> QED BY <2>3, <4>1, <4>2
    <3>2. /\ MarksWithin(toWorker[v], n + 1 - Pending(v))
          /\ v \notin running => Len(toWorker[v]) <= n - Pending(v)
      BY <1>2 DEF Room
    <3> QED BY <1>1, <3>1, <3>2 DEF Room
  <2> QED BY <2>1, <2>2, <2>5
<1> QED BY <1>7, <1>8, <1>9, <1>10 DEF Protocol

LEMMA ProtocolBroadcast ==
    ASSUME Protocol, NEW w \in Workers, Broadcast(w)
    PROVE  Protocol'
<1>1. /\ sched = "notify" /\ w \in toNotify
      /\ toWorker' = Put(toWorker, w, EOS) /\ toNotify' = toNotify \ {w}
      /\ sched' \in {"notify", "serve", "ended"}
      /\ toNotify' # {} => sched' = "notify"
      /\ sched' = "ended" => eosFrom = Workers
      /\ UNCHANGED <<args, stageVars, held, eosFrom, printed, input, toSched, running>>
  BY DEF Broadcast
<1>2. /\ TypeOK /\ Control /\ Draining /\ EOS \in Int \union {EOS}
      /\ toWorker \in ChannelsOf(Workers, Int \union {EOS})
      /\ eosFrom \in SUBSET Workers
      /\ \A v \in Workers : Room(v) /\ Marks(v) /\ Answers(v)
  BY DEF Protocol, TypeOK
<1>3. /\ toWorker' \in ChannelsOf(Workers, Int \union {EOS})
      /\ \A v \in Workers \ {w} : toWorker'[v] = toWorker[v]
      /\ ToSet(toWorker'[w]) = ToSet(toWorker[w]) \union {EOS}
      /\ toWorker'[w] = Append(toWorker[w], EOS)
      /\ toWorker[w] \in Seq(Int \union {EOS})
  <2>1. toWorker'[w] = Append(toWorker[w], EOS) /\ toWorker[w] \in Seq(Int \union {EOS})
    BY <1>1, <1>2, PutAt
  <2>2. /\ Put(toWorker, w, EOS) \in ChannelsOf(Workers, Int \union {EOS})
        /\ \A v \in Workers \ {w} : Put(toWorker, w, EOS)[v] = toWorker[v]
        /\ ToSet(Put(toWorker, w, EOS)[w]) = ToSet(toWorker[w]) \union {EOS}
    BY <1>2, PutProperties
  <2> QED BY <1>1, <2>1, <2>2
<1>4. stage0 = "ended" /\ input = <<>> /\ held = {}
  BY <1>1, <1>2 DEF Draining, Told
<1>5. TypeOK'
  BY <1>1, <1>2, <1>3 DEF TypeOK, stageVars
<1>6. Control'
  BY <1>1, <1>2, <1>4 DEF Control, stageVars, stop
<1>7. Draining'
  BY <1>1, <1>4 DEF Draining, stageVars
<1>8. ASSUME NEW v \in Workers PROVE Room(v)' /\ Marks(v)' /\ Answers(v)'
  <2>1. Answers(v)'
    BY <1>1, <1>2 DEF Answers
  <2>2. CASE v = w
    <3> DEFINE n == Cardinality(eosFrom)
    <3>1. n \in Nat
      BY <1>2, CountType
    <3>2. Pending(w) = 1 /\ Pending(v)' = 0
      BY <1>1, <2>2 DEF Pending
    <3>3. MarksLast(toWorker'[w]) /\ MarksWithin(toWorker'[w], n + 1)
      <4>1. MarksLast(toWorker[w]) /\ MarksWithin(toWorker[w], n)
        <5>1. MarksWithin(toWorker[w], n + 1 - Pending(w))
          BY <1>2 DEF Room
        <5>2. n + 1 - Pending(w) = n
          BY <3>1, <3>2
        <5> QED BY <1>2, <5>1, <5>2 DEF Marks
      <4> HIDE DEF n
      <4>2. n \in Int /\ n >= 0
        BY <3>1
      <4> QED BY <1>2, <1>3, <4>1, <4>2, MarksOfAppend
    <3>4. w \notin running => Len(toWorker'[w]) <= n
      <4>1. w \notin running => Len(toWorker[w]) <= n - Pending(w)
        BY <1>2 DEF Room
      <4>2. Len(toWorker'[w]) = Len(toWorker[w]) + 1 /\ Len(toWorker[w]) \in Nat
        BY <1>3
      <4> HIDE DEF n
      <4> QED BY <3>1, <3>2, <4>1, <4>2
    <3>5. Room(v)'
      <4>1. n + 1 - Pending(v)' = n + 1 /\ n - Pending(v)' = n
        BY <3>1, <3>2
      <4> QED BY <1>1, <2>2, <3>3, <3>4, <4>1 DEF Room
    <3>6. Marks(v)'
      BY <1>1, <1>2, <1>3, <2>2, <3>3 DEF Marks
    <3> QED BY <2>1, <3>5, <3>6
  <2>3. CASE v # w
    <3>1. toWorker'[v] = toWorker[v] /\ Pending(v)' = Pending(v)
      BY <1>1, <1>3, <2>3 DEF Pending
    <3> QED BY <1>1, <1>2, <2>1, <3>1 DEF Room, Marks
  <2> QED BY <2>2, <2>3
<1> QED BY <1>5, <1>6, <1>7, <1>8 DEF Protocol

\* A worker takes a message from its channel: what is left there.
LEMMA TakenFromWorker ==
    ASSUME Protocol, NEW w \in Workers, Waiting(toWorker, w)
    PROVE  LET s == toWorker[w]
               n == Cardinality(eosFrom) + 1 - Pending(w)
           IN  /\ n \in Int
               /\ MarksLast(Tail(s)) /\ MarksWithin(Tail(s), n)
               /\ ToSet(Tail(s)) \subseteq ToSet(s)
               /\ Head(s) = EOS =>
                     /\ ToSet(Tail(s)) \subseteq {EOS}
                     /\ Len(Tail(s)) <= Cardinality(eosFrom) - Pending(w)
<1> DEFINE s == toWorker[w]
           c == Cardinality(eosFrom)
           n == c + 1 - Pending(w)
<1>1. /\ s \in Seq(Int \union {EOS}) /\ s # <<>>
      /\ MarksLast(s) /\ MarksWithin(s, n)
      /\ c \in Nat /\ Pending(w) \in Int
  <2>1. toWorker \in ChannelsOf(Workers, Int \union {EOS}) /\ eosFrom \in SUBSET Workers
    BY DEF Protocol, TypeOK
  <2> QED BY <2>1, CountType, ChannelProperties DEF Protocol, Room, Marks, Pending, Waiting
<1> HIDE DEF s, c
<1>2. n \in Int
  BY <1>1
<1> HIDE DEF n
<1>3. /\ MarksLast(Tail(s)) /\ MarksWithin(Tail(s), n)
      /\ Head(s) = EOS => ToSet(Tail(s)) \subseteq {EOS} /\ Len(Tail(s)) < n
  BY <1>1, <1>2, MarksOfTail
<1>4. ToSet(Tail(s)) \subseteq ToSet(s) /\ Len(Tail(s)) \in Int
  BY <1>1, ToSetOfTail
<1>5. Len(Tail(s)) < n => Len(Tail(s)) <= c - Pending(w)
  BY <1>1, <1>4 DEF n
<1> QED BY <1>2, <1>3, <1>4, <1>5 DEF s, c, n

LEMMA ProtocolWork ==
    ASSUME Protocol, NEW w \in Workers, Work(w)
    PROVE  Protocol'
<1>1. PICK t \in Arrived(toWorker, w) :
          toSched' = IF is_prime(t) THEN Put(toSched, w, t) ELSE toSched
  BY DEF Work
<1>2. /\ w \in running /\ toWorker' = Drop(toWorker, w)
      /\ UNCHANGED <<args, stageVars, schedVars, input, running>>
  BY DEF Work
<1>3. /\ TypeOK /\ Control /\ Draining
      /\ toWorker \in ChannelsOf(Workers, Int \union {EOS})
      /\ toSched \in ChannelsOf(Workers, Int \union {EOS})
      /\ \A v \in Workers : Room(v) /\ Marks(v) /\ Answers(v)
  BY DEF Protocol, TypeOK
<1>4. t \in Int \union {EOS} /\ t # EOS /\ Waiting(toWorker, w)
  BY <1>3, ArrivedProperties
<1>5. /\ toWorker' \in ChannelsOf(Workers, Int \union {EOS})
      /\ \A v \in Workers \ {w} : toWorker'[v] = toWorker[v]
      /\ toWorker'[w] = Tail(toWorker[w])
  BY <1>2, <1>3, <1>4, DropProperties, DropAt
<1>6. /\ toSched' \in ChannelsOf(Workers, Int \union {EOS})
      /\ \A v \in Workers \ {w} : toSched'[v] = toSched[v]
      /\ EosAtEnd(toSched'[w]) /\ EOS \notin ToSet(toSched'[w])
  <2>1. EOS \notin ToSet(toSched[w]) /\ EosAtEnd(toSched[w])
    BY <1>2, <1>3 DEF Answers
  <2>2. CASE is_prime(t)
    <3>1. toSched' = Put(toSched, w, t)
      BY <1>1, <2>2
    <3> QED BY <1>3, <1>4, <2>1, <3>1, PutProperties
  <2>3. CASE ~is_prime(t)
    BY <1>1, <1>3, <2>1, <2>3
  <2> QED BY <2>2, <2>3
<1>7. TypeOK'
  BY <1>2, <1>3, <1>5, <1>6 DEF TypeOK, stageVars, schedVars
<1>8. Control'
  BY <1>2, <1>3 DEF Control, stageVars, schedVars, stop
<1>9. ToSet(toWorker'[w]) \subseteq ToSet(toWorker[w])
  BY <1>4, <1>5, TakenFromWorker
<1>10. Draining'
  BY <1>2, <1>3, <1>5, <1>9 DEF Draining, Told, stageVars, schedVars
<1>11. ASSUME NEW v \in Workers PROVE Room(v)' /\ Marks(v)' /\ Answers(v)'
  <2>1. Pending(v)' = Pending(v) /\ UNCHANGED <<eosFrom, running>>
    BY <1>2 DEF Pending, schedVars
  <2>2. CASE v = w
    <3>1. /\ MarksLast(toWorker'[w])
          /\ MarksWithin(toWorker'[w], Cardinality(eosFrom) + 1 - Pending(w))
      BY <1>4, <1>5, TakenFromWorker
    <3>2. w \notin eosFrom
      BY <1>2, <1>3 DEF Answers
    <3> QED BY <1>2, <1>6, <2>1, <2>2, <3>1, <3>2 DEF Room, Marks, Answers
  <2>3. CASE v # w
    <3>1. toWorker'[v] = toWorker[v] /\ toSched'[v] = toSched[v]
      BY <1>5, <1>6, <2>3
    <3> QED BY <1>3, <2>1, <3>1 DEF Room, Marks, Answers
  <2> QED BY <2>2, <2>3
<1> QED BY <1>7, <1>8, <1>10, <1>11 DEF Protocol

LEMMA ProtocolEndWorker ==
    ASSUME Protocol, NEW w \in Workers, EndWorker(w)
    PROVE  Protocol'
<1>1. /\ w \in running /\ Waiting(toWorker, w) /\ Head(toWorker[w]) = EOS
      /\ toWorker' = Drop(toWorker, w) /\ toSched' = Put(toSched, w, EOS)
      /\ running' = running \ {w}
      /\ UNCHANGED <<args, stageVars, schedVars, input>>
  BY DEF EndWorker
<1>2. /\ TypeOK /\ Control /\ Draining /\ EOS \in Int \union {EOS}
      /\ toWorker \in ChannelsOf(Workers, Int \union {EOS})
      /\ toSched \in ChannelsOf(Workers, Int \union {EOS})
      /\ \A v \in Workers : Room(v) /\ Marks(v) /\ Answers(v)
  BY DEF Protocol, TypeOK
<1>3. /\ toWorker' \in ChannelsOf(Workers, Int \union {EOS})
      /\ \A v \in Workers \ {w} : toWorker'[v] = toWorker[v]
      /\ toWorker'[w] = Tail(toWorker[w])
      /\ EOS \in ToSet(toWorker[w])
  <2>1. toWorker'[w] = Tail(toWorker[w])
    BY <1>1, <1>2, DropAt
  <2> QED BY <1>1, <1>2, <2>1, DropProperties
<1>4. /\ toSched' \in ChannelsOf(Workers, Int \union {EOS})
      /\ \A v \in Workers \ {w} : toSched'[v] = toSched[v]
      /\ EosAtEnd(toSched'[w])
  BY <1>1, <1>2, PutProperties DEF Answers
<1>5. Told
  BY <1>3 DEF Told
<1>6. TypeOK'
  BY <1>1, <1>2, <1>3, <1>4 DEF TypeOK, stageVars, schedVars
<1>7. Control'
  BY <1>1, <1>2 DEF Control, stageVars, schedVars, stop
<1>8. Draining'
  BY <1>1, <1>2, <1>5 DEF Draining, stageVars, schedVars
<1>9. ASSUME NEW v \in Workers PROVE Room(v)' /\ Marks(v)' /\ Answers(v)'
  <2>1. Pending(v)' = Pending(v) /\ eosFrom' = eosFrom
    BY <1>1 DEF Pending, schedVars
  <2>2. CASE v = w
    <3>1. /\ MarksLast(toWorker'[w])
          /\ MarksWithin(toWorker'[w], Cardinality(eosFrom) + 1 - Pending(w))
          /\ ToSet(toWorker'[w]) \subseteq {EOS}
          /\ Len(toWorker'[w]) <= Cardinality(eosFrom) - Pending(w)
      BY <1>1, <1>3, TakenFromWorker
    <3>2. w \notin eosFrom /\ w \notin running'
      BY <1>1, <1>2 DEF Answers
    <3> QED BY <1>4, <2>1, <2>2, <3>1, <3>2 DEF Room, Marks, Answers
  <2>3. CASE v # w
    <3>1. /\ toWorker'[v] = toWorker[v] /\ toSched'[v] = toSched[v]
          /\ v \in running' <=> v \in running
      BY <1>1, <1>3, <1>4, <2>3
    <3> QED BY <1>2, <2>1, <3>1 DEF Room, Marks, Answers
  <2> QED BY <2>2, <2>3
<1> QED BY <1>6, <1>7, <1>8, <1>9 DEF Protocol

LEMMA ProtocolStutter == ASSUME Protocol, UNCHANGED vars PROVE Protocol'
<1>1. UNCHANGED <<args, stageVars, schedVars, input, toWorker, toSched, running>>
  BY DEF vars, channels
<1>2. TypeOK' /\ Control' /\ Draining'
  BY <1>1 DEF Protocol, TypeOK, Control, Draining, Told, stageVars, schedVars, stop
<1>3. \A w \in Workers : Room(w)' /\ Marks(w)' /\ Answers(w)'
  BY <1>1, WorkersQuiet DEF schedVars
<1> QED BY <1>2, <1>3 DEF Protocol

LEMMA ProtocolNext == ASSUME Protocol, [Next]_vars PROVE Protocol'
<1>1. CASE Generate \/ EndStage0 \/ FromStage0 \/ Forward \/ NotifyStage0
  BY <1>1, ProtocolGenerate, ProtocolEndStage0, ProtocolFromStage0, ProtocolForward,
     ProtocolNotifyStage0
<1>2. ASSUME NEW w \in Workers, PrintPrime(w) \/ NotifyWorker(w) \/ Broadcast(w)
      PROVE  Protocol'
  BY <1>2, ProtocolPrintPrime, ProtocolNotifyWorker, ProtocolBroadcast
<1>3. ASSUME NEW w \in Workers, Work(w) \/ EndWorker(w)
      PROVE  Protocol'
  BY <1>3, ProtocolWork, ProtocolEndWorker
<1>4. CASE UNCHANGED vars
  BY <1>4, ProtocolStutter
<1> QED BY <1>1, <1>2, <1>3, <1>4
        DEF Next, Stage0Step, SchedStep, WorkerStep, Terminated

----------------------------------------------------------------------------
\* The owners of the tasks.

LEMMA InjectiveOfTail ==
    ASSUME NEW S, NEW s \in Seq(S), s # <<>>, IsInjective(s)
    PROVE  IsInjective(Tail(s)) /\ Head(s) \notin ToSet(Tail(s))
<1>1. /\ Len(s) \in Nat /\ Len(s) >= 1 /\ DOMAIN s = 1..Len(s)
      /\ DOMAIN Tail(s) = 1..(Len(s) - 1)
      /\ \A k \in 1..(Len(s) - 1) : Tail(s)[k] = s[k + 1]
      /\ Head(s) = s[1]
  OBVIOUS
<1>2. /\ \A j, k \in 1..Len(s) : s[j] = s[k] => j = k
      /\ \A k \in 1..(Len(s) - 1) : k + 1 \in 1..Len(s) /\ k + 1 # 1
      /\ 1 \in 1..Len(s)
  BY <1>1 DEF IsInjective
<1>3. IsInjective(Tail(s))
  BY <1>1, <1>2 DEF IsInjective
<1>4. Head(s) \notin ToSet(Tail(s))
  BY <1>1, <1>2 DEF ToSet
<1> QED BY <1>3, <1>4

LEMMA OwnersInit == ASSUME Init PROVE Owners
<1>1. /\ args \in Ranges /\ i = start /\ input = <<>> /\ held = {}
      /\ \A w \in Workers : toWorker[w] = <<>> /\ toSched[w] = <<>>
      /\ DOMAIN toWorker = Workers /\ DOMAIN toSched = Workers
      /\ tasks = {} /\ printed = <<>>
  BY DEF Init
<1>2. IsInjective(<<>>)
  BY DEF IsInjective
<1>3. NoCopies(toWorker) /\ NoCopies(toSched)
  BY <1>1 DEF NoCopies
<1>4. In(toWorker) = {} /\ In(toSched) = {} /\ ToSet(input) = {} /\ ToSet(printed) = {}
  BY <1>1, ToSetOfEmpty DEF In
<1>5. Generated = {} /\ i >= start
  BY <1>1, RangeType DEF Generated
<1>6. OneOwner
  BY <1>1, <1>2, <1>3, <1>4, <1>5 DEF OneOwner, Untested
<1> QED BY <1>1, <1>2, <1>4, <1>5, <1>6 DEF Owners

\* Steps that make no task, test none and print none.
LEMMA OwnersQuiet ==
    ASSUME Owners, UNCHANGED <<args, i, tasks, printed>>,
           Untested' = Untested, In(toSched') = In(toSched),
           NoCopies(toWorker'), NoCopies(toSched'), IsInjective(input'),
           ToSet(input') \intersect held' = {},
           (ToSet(input') \union held') \intersect In(toWorker') = {}
    PROVE  Owners'
<1>1. UNCHANGED <<Generated, start>>
  BY DEF Generated, start, stop
<1>2. OneOwner'
  BY <1>1 DEF Owners, OneOwner
<1> QED BY <1>1, <1>2 DEF Owners

LEMMA OwnersGenerate == ASSUME Protocol, Owners, Generate PROVE Owners'
<1>1. /\ stage0 = "sending" /\ i <= stop
      /\ tasks' = tasks \union {i} /\ input' = Append(input, i) /\ i' = i + 1
      /\ UNCHANGED <<args, held, printed, toWorker, toSched>>
  BY DEF Generate, schedVars
<1>2. /\ i \in Int /\ i # EOS /\ i \in Int \union {EOS} /\ args \in Ranges
      /\ input \in Seq(Int \union {EOS}) /\ EOS \notin ToSet(input)
  BY <1>1, TaskAssumption DEF Protocol, TypeOK, Control
<1>3. /\ start \in Int /\ stop \in Int /\ i >= start /\ OneOwner
      /\ ToSet(printed) \subseteq Generated
  BY <1>2, RangeType DEF Owners
<1>4. UNCHANGED <<start, stop>>
  BY <1>1 DEF start, stop
<1>5. i \notin Generated /\ Generated' = Generated \union {i} /\ i' >= start'
  BY <1>1, <1>2, <1>3, <1>4 DEF Generated
<1>6. i \notin tasks /\ i \notin Untested /\ i \notin In(toSched) /\ i \notin ToSet(printed)
  BY <1>3, <1>5 DEF OneOwner
<1>7. i \notin ToSet(input) /\ i \notin held /\ i \notin In(toWorker)
  BY <1>2, <1>6 DEF Untested
<1>8. ToSet(input') = ToSet(input) \union {i} /\ IsInjective(input')
  BY <1>1, <1>2, <1>7, ToSetOfAppend, InjectiveOfAppend DEF Owners
<1>9. Untested' = Untested \union {i}
  BY <1>1, <1>2, <1>8 DEF Untested
<1>10. OneOwner'
  <2>1. tasks' = Generated' \ ToSet(printed)
    BY <1>1, <1>3, <1>5, <1>6 DEF OneOwner
  <2>2. Untested' \union In(toSched) \subseteq tasks'
    BY <1>1, <1>3, <1>9 DEF OneOwner
  <2>3. \A n \in Generated' \ Untested' :
            Prime(n) <=> n \in In(toSched) \union ToSet(printed)
    BY <1>3, <1>5, <1>9 DEF OneOwner
  <2>4. /\ NoCopies(toWorker) /\ NoCopies(toSched) /\ IsInjective(printed)
        /\ Untested' \intersect In(toSched) = {}
    BY <1>3, <1>6, <1>9 DEF OneOwner
  <2> QED BY <1>1, <2>1, <2>2, <2>3, <2>4 DEF OneOwner
<1> QED BY <1>1, <1>3, <1>5, <1>7, <1>8, <1>10 DEF Owners

LEMMA OwnersEndStage0 == ASSUME Protocol, Owners, EndStage0 PROVE Owners'
<1>1. /\ stage0 = "sending" /\ input' = Append(input, EOS)
      /\ UNCHANGED <<args, i, held, printed, toWorker, toSched, tasks>>
  BY DEF EndStage0, schedVars
<1>2. /\ EOS \in Int \union {EOS} /\ EOS \notin held
      /\ input \in Seq(Int \union {EOS}) /\ EOS \notin ToSet(input)
  BY <1>1, TaskAssumption DEF Protocol, TypeOK, Control
<1>3. ToSet(input') = ToSet(input) \union {EOS} /\ IsInjective(input')
  BY <1>1, <1>2, ToSetOfAppend, InjectiveOfAppend DEF Owners
<1>4. Untested' = Untested
  BY <1>1, <1>3 DEF Untested
<1>5. EOS \notin In(toWorker)
  BY DEF In
<1> QED BY <1>1, <1>2, <1>3, <1>4, <1>5, OwnersQuiet DEF Owners, OneOwner

LEMMA OwnersFromStage0 == ASSUME Protocol, Owners, FromStage0 PROVE Owners'
<1>1. /\ sched = "serve" /\ input # <<>> /\ Head(input) # EOS
      /\ held' = {Head(input)} /\ input' = Tail(input)
      /\ UNCHANGED <<args, i, printed, toWorker, toSched, tasks>>
  BY DEF FromStage0, stageVars
<1>2. input \in Seq(Int \union {EOS}) /\ held = {}
  BY <1>1 DEF Protocol, TypeOK, Control
<1>3. /\ ToSet(input) = {Head(input)} \union ToSet(input')
      /\ IsInjective(input') /\ Head(input) \notin ToSet(input')
  BY <1>1, <1>2, ToSetOfTail, InjectiveOfTail DEF Owners
<1>4. Untested' = Untested
  BY <1>1, <1>2, <1>3 DEF Untested
<1>5. (ToSet(input') \union held') \intersect In(toWorker') = {}
  BY <1>1, <1>3 DEF Owners
<1> QED BY <1>1, <1>3, <1>4, <1>5, OwnersQuiet DEF Owners, OneOwner

LEMMA OwnersForward == ASSUME Protocol, Owners, Forward PROVE Owners'
<1>1. PICK w \in Workers, t \in held : toWorker' = Put(toWorker, w, t)
  BY DEF Forward
<1>2. /\ held' = {}
      /\ UNCHANGED <<args, i, printed, input, toSched, tasks>>
  BY DEF Forward, stageVars
<1>3. /\ toWorker \in ChannelsOf(Workers, Int \union {EOS})
      /\ t \in Int \union {EOS} /\ t # EOS /\ held = {t}
  BY TaskAssumption DEF Protocol, TypeOK, Control
<1>4. /\ NoCopies(toWorker) /\ t \notin In(toWorker) /\ t \notin ToSet(input)
      /\ ToSet(input) \intersect In(toWorker) = {}
  BY <1>3 DEF Owners, OneOwner
<1>5. NoCopies(toWorker')
  BY <1>1, <1>3, <1>4, PutNoCopies
<1>6. In(toWorker') = In(toWorker) \union {t}
  <2>1. In(toWorker') = In(toWorker) \union ({t} \ {EOS})
    BY <1>1, <1>3, PutProperties
  <2> QED BY <1>3, <2>1
<1>7. Untested' = Untested
  BY <1>2, <1>3, <1>6 DEF Untested
<1>8. (ToSet(input') \union held') \intersect In(toWorker') = {}
  BY <1>2, <1>4, <1>6
<1> QED BY <1>2, <1>5, <1>7, <1>8, OwnersQuiet DEF Owners, OneOwner

\* A prime that comes back is printed, and its task deleted.
LEMMA OwnersPrintPrime ==
    ASSUME Protocol, Owners, NEW w \in Workers, PrintPrime(w)
    PROVE  Owners' /\ ToSet(printed) \subseteq ToSet(printed')
<1>1. PICK t \in Arrived(toSched, w) :
          printed' = Append(printed, t) /\ tasks' = tasks \ {t}
  BY DEF PrintPrime
<1>2. /\ toSched' = Drop(toSched, w)
      /\ UNCHANGED <<args, i, held, input, toWorker>>
  BY DEF PrintPrime, stageVars
<1>3. /\ toSched \in ChannelsOf(Workers, Int \union {EOS}) /\ printed \in Seq(Int)
      /\ OneOwner
  BY DEF Protocol, TypeOK, Owners
<1>4. /\ t \in Int \union {EOS} /\ t # EOS /\ t \in In(toSched)
      /\ Waiting(toSched, w) /\ Head(toSched[w]) = t
  BY <1>3, ArrivedProperties
<1>5. NoCopies(toSched') /\ t \notin In(toSched')
  BY <1>2, <1>3, <1>4, DropNoCopies DEF OneOwner
<1>6. In(toSched) = In(toSched') \union {t}
  <2>1. In(toSched) = In(toSched') \union ({Head(toSched[w])} \ {EOS})
    BY <1>2, <1>3, <1>4, DropProperties
  <2> QED BY <1>4, <2>1
<1>7. t \in tasks /\ t \notin ToSet(printed) /\ t \in Generated /\ t \notin Untested
  BY <1>3, <1>4 DEF OneOwner
<1>8. ToSet(printed') = ToSet(printed) \union {t} /\ IsInjective(printed')
  BY <1>1, <1>3, <1>4, <1>7, ToSetOfAppend, InjectiveOfAppend DEF OneOwner
<1>9. UNCHANGED <<Generated, Untested, start>>
  BY <1>2 DEF Generated, Untested, start, stop
<1>10. OneOwner'
  <2>1. tasks' = Generated \ ToSet(printed')
    BY <1>1, <1>3, <1>8 DEF OneOwner
  <2>2. Untested \union In(toSched') \subseteq tasks'
    BY <1>1, <1>3, <1>5, <1>6, <1>7 DEF OneOwner
  <2>3. \A n \in Generated \ Untested :
            Prime(n) <=> n \in In(toSched') \union ToSet(printed')
    BY <1>3, <1>6, <1>8 DEF OneOwner
  <2>4. NoCopies(toWorker') /\ Untested \intersect In(toSched') = {}
    BY <1>2, <1>3, <1>6 DEF OneOwner
  <2> QED BY <1>5, <1>8, <1>9, <2>1, <2>2, <2>3, <2>4 DEF OneOwner
<1>11. ToSet(printed') \subseteq Generated'
  BY <1>7, <1>8, <1>9 DEF Owners
<1> QED BY <1>2, <1>8, <1>9, <1>10, <1>11 DEF Owners

LEMMA OwnersNotifyStage0 == ASSUME Protocol, Owners, NotifyStage0 PROVE Owners'
<1>1. /\ input # <<>> /\ Head(input) = EOS /\ input' = Tail(input)
      /\ UNCHANGED <<args, i, held, printed, toWorker, toSched, tasks>>
  BY DEF NotifyStage0, stageVars
<1>2. input \in Seq(Int \union {EOS})
  BY DEF Protocol, TypeOK
<1>3. ToSet(input) = {EOS} \union ToSet(input') /\ IsInjective(input')
  BY <1>1, <1>2, ToSetOfTail, InjectiveOfTail DEF Owners
<1>4. Untested' = Untested
  BY <1>1, <1>3 DEF Untested
<1> QED BY <1>1, <1>3, <1>4, OwnersQuiet DEF Owners, OneOwner

LEMMA OwnersNotifyWorker ==
    ASSUME Protocol, Owners, NEW w \in Workers, NotifyWorker(w)
    PROVE  Owners'
<1>1. /\ Waiting(toSched, w) /\ Head(toSched[w]) = EOS /\ toSched' = Drop(toSched, w)
      /\ UNCHANGED <<args, i, held, printed, input, toWorker, tasks>>
  BY DEF NotifyWorker, stageVars
<1>2. toSched \in ChannelsOf(Workers, Int \union {EOS})
  BY DEF Protocol, TypeOK
<1>3. In(toSched') = In(toSched)
  <2>1. In(toSched) = In(toSched') \union ({Head(toSched[w])} \ {EOS})
    BY <1>1, <1>2, DropProperties
  <2> QED BY <1>1, <2>1
<1>4. NoCopies(toSched')
  BY <1>1, <1>2, DropNoCopies DEF Owners, OneOwner
<1>5. Untested' = Untested
  BY <1>1 DEF Untested
<1> QED BY <1>1, <1>3, <1>4, <1>5, OwnersQuiet DEF Owners, OneOwner

LEMMA OwnersBroadcast ==
    ASSUME Protocol, Owners, NEW w \in Workers, Broadcast(w)
    PROVE  Owners'
<1>1. /\ toWorker' = Put(toWorker, w, EOS)
      /\ UNCHANGED <<args, i, held, printed, input, toSched, tasks>>
  BY DEF Broadcast, stageVars
<1>2. toWorker \in ChannelsOf(Workers, Int \union {EOS}) /\ EOS \in Int \union {EOS}
  BY DEF Protocol, TypeOK
<1>3. In(toWorker') = In(toWorker)
  <2>1. In(Put(toWorker, w, EOS)) = In(toWorker) \union ({EOS} \ {EOS})
    BY <1>2, PutProperties
  <2> QED BY <1>1, <2>1
<1>4. NoCopies(toWorker')
  <2>1. EOS \notin In(toWorker)
    BY DEF In
  <2> QED BY <1>1, <1>2, <2>1, PutNoCopies DEF Owners, OneOwner
<1>5. Untested' = Untested
  BY <1>1, <1>3 DEF Untested
<1> QED BY <1>1, <1>3, <1>4, <1>5, OwnersQuiet DEF Owners, OneOwner

\* A worker gives the task of a prime back, and loses any other: no prime, by
\* IsPrimeOfInt.
LEMMA OwnersWork ==
    ASSUME Protocol, Owners, NEW w \in Workers, Work(w)
    PROVE  Owners'
<1>1. PICK t \in Arrived(toWorker, w) :
          toSched' = IF is_prime(t) THEN Put(toSched, w, t) ELSE toSched
  BY DEF Work
<1>2. /\ toWorker' = Drop(toWorker, w)
      /\ UNCHANGED <<args, i, held, printed, input, tasks>>
  BY DEF Work, stageVars, schedVars
<1>3. /\ toWorker \in ChannelsOf(Workers, Int \union {EOS})
      /\ toSched \in ChannelsOf(Workers, Int \union {EOS})
      /\ OneOwner
  BY DEF Protocol, TypeOK, Owners
<1>4. /\ t \in Int \union {EOS} /\ t # EOS /\ t \in In(toWorker)
      /\ Waiting(toWorker, w) /\ Head(toWorker[w]) = t
  BY <1>3, ArrivedProperties
<1>5. NoCopies(toWorker') /\ t \notin In(toWorker')
  BY <1>2, <1>3, <1>4, DropNoCopies DEF OneOwner
<1>6. In(toWorker) = In(toWorker') \union {t}
  <2>1. In(toWorker) = In(toWorker') \union ({Head(toWorker[w])} \ {EOS})
    BY <1>2, <1>3, <1>4, DropProperties
  <2> QED BY <1>4, <2>1
<1>7. t \notin ToSet(input) /\ t \notin held
  BY <1>4 DEF Owners
<1>8. Untested = Untested' \union {t} /\ t \notin Untested'
  BY <1>2, <1>4, <1>5, <1>6, <1>7 DEF Untested
<1>9. t \in tasks /\ t \notin In(toSched) /\ t \notin ToSet(printed)
  BY <1>3, <1>8 DEF OneOwner
<1>10. is_prime(t) <=> Prime(t)
  BY <1>4, IsPrimeOfInt
<1>11. NoCopies(toSched') /\ In(toSched') = In(toSched) \union {n \in {t} : Prime(n)}
  <2>1. CASE is_prime(t)
    <3>1. toSched' = Put(toSched, w, t)
      BY <1>1, <2>1
    <3>2. NoCopies(toSched')
      BY <1>3, <1>4, <1>9, <3>1, PutNoCopies DEF OneOwner
    <3>3. In(toSched') = In(toSched) \union ({t} \ {EOS})
      BY <1>3, <1>4, <3>1, PutProperties
    <3> QED BY <1>4, <1>10, <2>1, <3>2, <3>3
  <2>2. CASE ~is_prime(t)
    BY <1>1, <1>3, <1>10, <2>2 DEF OneOwner
  <2> QED BY <2>1, <2>2
<1>12. UNCHANGED <<Generated, start>>
  BY <1>2 DEF Generated, start, stop
<1>13. OneOwner'
  <2>1. Untested' \union In(toSched') \subseteq tasks
    BY <1>3, <1>8, <1>9, <1>11 DEF OneOwner
  <2>2. ASSUME NEW n \in Generated \ Untested'
        PROVE  Prime(n) <=> n \in In(toSched') \union ToSet(printed)
    <3>1. CASE n = t
      BY <1>9, <1>11, <3>1
    <3>2. CASE n # t
      BY <1>3, <1>8, <1>11, <2>2, <3>2 DEF OneOwner
    <3> QED BY <3>1, <3>2
  <2>3. Untested' \intersect In(toSched') = {}
    BY <1>3, <1>8, <1>11 DEF OneOwner
  <2>4. tasks = Generated \ ToSet(printed) /\ IsInjective(printed)
    BY <1>3 DEF OneOwner
  <2> QED BY <1>2, <1>5, <1>11, <1>12, <2>1, <2>2, <2>3, <2>4 DEF OneOwner
<1> QED BY <1>2, <1>6, <1>12, <1>13 DEF Owners

LEMMA OwnersEndWorker ==
    ASSUME Protocol, Owners, NEW w \in Workers, EndWorker(w)
    PROVE  Owners'
<1>1. /\ Waiting(toWorker, w) /\ Head(toWorker[w]) = EOS
      /\ toWorker' = Drop(toWorker, w) /\ toSched' = Put(toSched, w, EOS)
      /\ UNCHANGED <<args, i, held, printed, input, tasks>>
  BY DEF EndWorker, stageVars, schedVars
<1>2. /\ toWorker \in ChannelsOf(Workers, Int \union {EOS})
      /\ toSched \in ChannelsOf(Workers, Int \union {EOS})
      /\ EOS \in Int \union {EOS}
  BY DEF Protocol, TypeOK
<1>3. In(toWorker') = In(toWorker)
  <2>1. In(toWorker) = In(toWorker') \union ({Head(toWorker[w])} \ {EOS})
    BY <1>1, <1>2, DropProperties
  <2> QED BY <1>1, <2>1
<1>4. In(toSched') = In(toSched)
  <2>1. In(Put(toSched, w, EOS)) = In(toSched) \union ({EOS} \ {EOS})
    BY <1>2, PutProperties
  <2> QED BY <1>1, <2>1
<1>5. NoCopies(toWorker') /\ NoCopies(toSched')
  <2>1. EOS \notin In(toSched)
    BY DEF In
  <2> QED BY <1>1, <1>2, <2>1, DropNoCopies, PutNoCopies DEF Owners, OneOwner
<1>6. Untested' = Untested
  BY <1>1, <1>3 DEF Untested
<1> QED BY <1>1, <1>3, <1>4, <1>5, <1>6, OwnersQuiet DEF Owners

LEMMA OwnersStutter == ASSUME Owners, UNCHANGED vars PROVE Owners'
<1>1. UNCHANGED <<args, i, held, input, toWorker, toSched, tasks, printed>>
  BY DEF vars, stageVars, schedVars, channels
<1>2. Untested' = Untested
  BY <1>1 DEF Untested
<1> QED BY <1>1, <1>2, OwnersQuiet DEF Owners, OneOwner

LEMMA OwnersNext == ASSUME Protocol, Owners, [Next]_vars PROVE Owners'
<1>1. CASE Generate \/ EndStage0 \/ FromStage0 \/ Forward \/ NotifyStage0
  BY <1>1, OwnersGenerate, OwnersEndStage0, OwnersFromStage0, OwnersForward,
     OwnersNotifyStage0
<1>2. ASSUME NEW w \in Workers, PrintPrime(w) \/ NotifyWorker(w) \/ Broadcast(w)
      PROVE  Owners'
  BY <1>2, OwnersPrintPrime, OwnersNotifyWorker, OwnersBroadcast
<1>3. ASSUME NEW w \in Workers, Work(w) \/ EndWorker(w)
      PROVE  Owners'
  BY <1>3, OwnersWork, OwnersEndWorker
<1>4. CASE UNCHANGED vars
  BY <1>4, OwnersStutter
<1> QED BY <1>1, <1>2, <1>3, <1>4
        DEF Next, Stage0Step, SchedStep, WorkerStep, Terminated

LEMMA Invariance == Spec => []Inv
<1>1. Init => Inv
  BY ProtocolInit, OwnersInit DEF Inv
<1>2. Inv /\ [Next]_vars => Inv'
  BY ProtocolNext, OwnersNext DEF Inv
<1> QED BY <1>1, <1>2, PTL DEF Spec

----------------------------------------------------------------------------

\* Type correctness of my_primes_master_worker.cpp.
THEOREM TypeCorrect == Spec => []TypeOK
<1>1. Inv => TypeOK
  BY DEF Inv, Protocol
<1> QED BY <1>1, Invariance, PTL

\* EOS is broadcast once for Stage0 and once for every worker, and it does no
\* harm: no task is behind a mark, and a worker that gets a second one has
\* ended.
THEOREM BroadcastsHarmless == Spec => []HarmlessEos
<1>1. Inv => HarmlessEos
  BY DEF Inv, Protocol, Marks, MarksLast, Answers, HarmlessEos
<1> QED BY <1>1, Invariance, PTL

\* Sched never waits for room in the channel of a worker that has ended, which
\* nobody would make: there the marks of all broadcasts fit, one per worker.
THEOREM NeverStuck ==
    Spec => [](\A w \in toNotify \ running : HasRoom(toWorker, w, QueueLen))
<1>1. ASSUME Inv, NEW w \in toNotify \ running PROVE HasRoom(toWorker, w, QueueLen)
  <2>1. w \in Workers /\ eosFrom \in SUBSET Workers
        /\ toWorker \in ChannelsOf(Workers, Int \union {EOS})
    BY <1>1 DEF Inv, Protocol, TypeOK
  <2>2. Len(toWorker[w]) <= Cardinality(eosFrom) - 1 /\ Len(toWorker[w]) \in Nat
    BY <1>1, <2>1, ChannelProperties DEF Inv, Protocol, Room, Pending
  <2>3. /\ Cardinality(eosFrom) \in Nat
        /\ Cardinality(eosFrom) <= Cardinality(Workers)
    BY <2>1, CountType
  <2>4. QueueLen \in Nat /\ QueueLen >= Cardinality(Workers) /\ Cardinality(Workers) \in Nat
    BY QueueLenAssumption, WorkersType
  <2> QED BY <2>2, <2>3, <2>4 DEF HasRoom
<1>2. Inv => \A w \in toNotify \ running : HasRoom(toWorker, w, QueueLen)
  BY <1>1
<1> QED BY <1>2, Invariance, PTL

\* Every task has one owner, and the primes among those tested are on their
\* way back or printed.
THEOREM TaskOwned == Spec => []OneOwner
<1>1. Inv => OneOwner
  BY DEF Inv, Owners
<1> QED BY <1>1, Invariance, PTL

\* When all threads have ended the primes of the range are printed, and the
\* tasks of all other numbers are still on the heap.
LEMMA CompleteAtEnd ==
    ASSUME Inv, Stopped
    PROVE  /\ ToSet(printed) = Wanted
           /\ tasks = {n \in start..stop : ~Prime(n)}
<1>1. /\ stage0 = "ended" /\ sched = "ended" /\ running = {}
      /\ TypeOK /\ Control /\ Draining
      /\ \A w \in Workers : Marks(w) /\ Answers(w)
  BY DEF Inv, Protocol, Stopped
<1>2. input = <<>> /\ held = {}
  BY <1>1 DEF Draining, Told
<1>3. \A w \in Workers : ToSet(toWorker[w]) \subseteq {EOS} /\ toSched[w] = <<>>
  BY <1>1 DEF Marks, Answers, Control
<1>4. DOMAIN toWorker = Workers /\ DOMAIN toSched = Workers
  BY <1>1, ChannelProperties DEF TypeOK
<1>5. In(toWorker) = {} /\ In(toSched) = {}
  BY <1>3, <1>4, ToSetOfEmpty DEF In
<1>6. Untested = {}
  BY <1>2, <1>5, ToSetOfEmpty DEF Untested
<1>7. Generated = start..stop
  <2>1. i > stop /\ i \in Int /\ start \in Int /\ stop \in Int
    BY <1>1, RangeType DEF Control, TypeOK
  <2> QED BY <2>1 DEF Generated
<1>8. /\ \A n \in Generated : Prime(n) <=> n \in ToSet(printed)
      /\ ToSet(printed) \subseteq Generated
      /\ tasks = Generated \ ToSet(printed)
  BY <1>5, <1>6 DEF Inv, Owners, OneOwner
<1> QED BY <1>7, <1>8 DEF Wanted

LEMMA CompleteAtNextEnd == Inv' => (Stopped => ToSet(printed) = Wanted)'
<1>1. Inv => (Stopped => ToSet(printed) = Wanted)
  BY CompleteAtEnd
<1> QED BY <1>1, PTL

\* The pipeline prints all primes of the range; the tasks of the other numbers
\* are never deleted.
THEOREM PrimesComplete ==
    Spec => [](Stopped => /\ ToSet(printed) = Wanted
                          /\ tasks = {n \in start..stop : ~Prime(n)})
<1>1. Inv => (Stopped => /\ ToSet(printed) = Wanted
                         /\ tasks = {n \in start..stop : ~Prime(n)})
  BY CompleteAtEnd
<1> QED BY <1>1, Invariance, PTL

----------------------------------------------------------------------------
\* Refinement.

status == IF Stopped THEN "finished" ELSE "running"

LEMMA SearchInit == ASSUME Init PROVE Search!Init
BY ToSetOfEmpty DEF Init, Stopped, Search!Init

\* What is printed is wanted.
LEMMA PrintedWanted == ASSUME Inv PROVE ToSet(printed) \subseteq Wanted
<1>1. /\ ToSet(printed) \subseteq Generated
      /\ \A n \in Generated \ Untested :
            Prime(n) <=> n \in In(toSched) \union ToSet(printed)
      /\ tasks = Generated \ ToSet(printed) /\ Untested \subseteq tasks
  BY DEF Inv, Owners, OneOwner
<1> QED BY <1>1 DEF Wanted, Generated

LEMMA PrintedWantedNext == Inv' => (ToSet(printed) \subseteq Wanted)'
<1>1. Inv => ToSet(printed) \subseteq Wanted
  BY PrintedWanted
<1> QED BY <1>1, PTL

\* Nothing but the end of a thread makes the program stop, and once stopped it
\* stays so.
LEMMA StatusStep ==
    ASSUME Inv, Inv', UNCHANGED <<args, printed>>, Stopped => Stopped'
    PROVE  [Search!Next]_<<Wanted, ToSet(printed), status>>
<1>1. Wanted' = Wanted
  BY DEF Wanted, start, stop
<1>2. CASE Stopped' <=> Stopped
  BY <1>1, <1>2 DEF status
<1>3. CASE Stopped' /\ ~Stopped
  <2>1. ToSet(printed)' = Wanted'
    BY <1>3, CompleteAtNextEnd
  <2>2. Search!Finish
    BY <1>1, <1>3, <2>1 DEF Search!Finish, status
  <2> QED BY <2>2 DEF Search!Next
<1> QED BY <1>2, <1>3

LEMMA SearchStep ==
    ASSUME Inv, Inv', [Next]_vars
    PROVE  [Search!Next]_<<Wanted, ToSet(printed), status>>
<1>1. ASSUME NEW w \in Workers, PrintPrime(w)
      PROVE  [Search!Next]_<<Wanted, ToSet(printed), status>>
  <2>1. /\ sched = "serve" /\ sched' = "serve" /\ args' = args
    BY <1>1 DEF PrintPrime
  <2>2. Wanted' = Wanted /\ status = "running" /\ status' = "running"
    BY <2>1 DEF Wanted, start, stop, status, Stopped
  <2>3. ToSet(printed) \subseteq ToSet(printed')
    BY <1>1, OwnersPrintPrime DEF Inv
  <2>4. ToSet(printed)' \subseteq Wanted'
    BY PrintedWantedNext
  <2> QED BY <2>2, <2>3, <2>4 DEF Search!Find, Search!Next, status
<1>2. CASE Generate \/ EndStage0
  <2>1. UNCHANGED <<args, printed>> /\ ~Stopped
    BY <1>2 DEF Generate, EndStage0, schedVars, Stopped
  <2> QED BY <2>1, StatusStep
<1>3. CASE FromStage0 \/ Forward \/ NotifyStage0
  <2>1. UNCHANGED <<args, printed>> /\ ~Stopped
    BY <1>3 DEF FromStage0, Forward, NotifyStage0, Stopped
  <2> QED BY <2>1, StatusStep
<1>4. ASSUME NEW w \in Workers, NotifyWorker(w) \/ Broadcast(w)
      PROVE  [Search!Next]_<<Wanted, ToSet(printed), status>>
  <2>1. UNCHANGED <<args, printed>> /\ ~Stopped
    BY <1>4 DEF NotifyWorker, Broadcast, Stopped
  <2> QED BY <2>1, StatusStep
<1>5. ASSUME NEW w \in Workers, Work(w) \/ EndWorker(w)
      PROVE  [Search!Next]_<<Wanted, ToSet(printed), status>>
  <2>1. UNCHANGED <<args, printed>> /\ ~Stopped
    BY <1>5 DEF Work, EndWorker, schedVars, Stopped
  <2> QED BY <2>1, StatusStep
<1>6. CASE UNCHANGED vars
  <2>1. UNCHANGED <<args, printed, stage0, sched, running>>
    BY <1>6 DEF vars, stageVars, schedVars
  <2> QED BY <2>1, StatusStep DEF Stopped
<1> QED BY <1>1, <1>2, <1>3, <1>4, <1>5, <1>6
        DEF Next, Stage0Step, SchedStep, WorkerStep, Terminated

\* The pipeline implements the safety part of the abstract prime search: what
\* is printed is wanted, and it ends only with nothing missing.
THEOREM ImplementsSearch == Spec => Search!Spec
<1>1. Init => Search!Init
  BY SearchInit
<1>2. Inv /\ Inv' /\ [Next]_vars => [Search!Next]_<<Wanted, ToSet(printed), status>>
  BY SearchStep
<1> QED BY <1>1, <1>2, Invariance, PTL DEF Spec, Search!Spec, status
====
