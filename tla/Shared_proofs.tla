---- MODULE Shared_proofs ----
(***************************************************************************)
(* Lemmas and theorems on the operators that several programs share.       *)
(*                                                                         *)
(* Channels: which messages a family of channels holds after one of them   *)
(* is sent to or read from, and where the end-of-stream mark can be; and   *)
(* the end-of-stream protocol of the farm with feedback, for every number  *)
(* of workers, every length of the channels and every kind of message.     *)
(*                                                                         *)
(* Trial division is right: is_prime, as every prime-search program copies *)
(* it, accepts exactly the primes. The argument is the usual one: a        *)
(* composite has a divisor whose square is no larger than the number, and  *)
(* up to its remainder modulo 6 that divisor is a multiple of 2 or of 3,   *)
(* or one of the numbers i and i + 2 the loop tries. And the vector a loop *)
(* over a range fills holds exactly the primes of the range, in order.     *)
(*                                                                         *)
(* Numbers: the least of a set of them, and cutting a range in parts.      *)
(***************************************************************************)
EXTENDS Channels, PrimeTest, FiniteSetTheorems, WellFoundedInduction, TLAPS

----------------------------------------------------------------------------
\* Channels.

LEMMA ToSetOfEmpty == ToSet(<<>>) = {}
BY DEF ToSet

LEMMA ToSetOfAppend ==
    ASSUME NEW S, NEW s \in Seq(S), NEW m \in S
    PROVE  ToSet(Append(s, m)) = ToSet(s) \union {m}
<1>1. DOMAIN Append(s, m) = DOMAIN s \union {Len(s) + 1}
  OBVIOUS
<1>2. \A k \in DOMAIN s : Append(s, m)[k] = s[k]
  OBVIOUS
<1>3. Append(s, m)[Len(s) + 1] = m
  OBVIOUS
<1> QED BY <1>1, <1>2, <1>3, Zenon DEF ToSet

LEMMA ToSetOfTail ==
    ASSUME NEW S, NEW s \in Seq(S), s # <<>>
    PROVE  /\ Head(s) \in S
           /\ Tail(s) \in Seq(S)
           /\ ToSet(s) = {Head(s)} \union ToSet(Tail(s))
<1>1. /\ Len(Tail(s)) = Len(s) - 1
      /\ \A k \in 1..(Len(s) - 1) : Tail(s)[k] = s[k + 1]
      /\ Head(s) = s[1]
  OBVIOUS
<1>2. ASSUME NEW x \in ToSet(s) PROVE x \in {Head(s)} \union ToSet(Tail(s))
  <2>1. PICK k \in 1..Len(s) : s[k] = x
    BY DEF ToSet
  <2>2. CASE k = 1
    BY <1>1, <2>1, <2>2
  <2>3. CASE k # 1
    <3>1. k - 1 \in DOMAIN Tail(s) /\ Tail(s)[k - 1] = x
      BY <1>1, <2>1, <2>3
    <3> QED BY <3>1 DEF ToSet
  <2> QED BY <2>2, <2>3
<1>3. ToSet(Tail(s)) \subseteq ToSet(s)
  BY <1>1 DEF ToSet
<1>4. Head(s) \in ToSet(s)
  BY DEF ToSet
<1> QED BY <1>2, <1>3, <1>4

LEMMA ToSetOfSeq ==
    ASSUME NEW S, NEW s \in Seq(S)
    PROVE  ToSet(s) \subseteq S
BY DEF ToSet

\* The mark stays last when a message follows none, and when one is read.
LEMMA EosAtEndOfAppend ==
    ASSUME NEW S, NEW s \in Seq(S), NEW m \in S, EOS \notin ToSet(s)
    PROVE  EosAtEnd(Append(s, m))
<1>1. SUFFICES ASSUME NEW k \in DOMAIN Append(s, m), Append(s, m)[k] = EOS
               PROVE  k = Len(s) + 1
  BY DEF EosAtEnd
<1>2. CASE k \in DOMAIN s
  <2>1. s[k] = EOS
    BY <1>1, <1>2
  <2> QED BY <1>2, <2>1 DEF ToSet
<1> QED BY <1>2

LEMMA EosAtEndOfTail ==
    ASSUME NEW S, NEW s \in Seq(S), s # <<>>, EosAtEnd(s)
    PROVE  /\ EosAtEnd(Tail(s))
           /\ Head(s) = EOS => Tail(s) = <<>>
BY DEF EosAtEnd

LEMMA EosAtEndOfEmpty == EosAtEnd(<<>>)
BY DEF EosAtEnd

\* A sequence without repetitions stays one when something new is appended.
LEMMA InjectiveOfAppend ==
    ASSUME NEW S, NEW s \in Seq(S), NEW m \in S, IsInjective(s), m \notin ToSet(s)
    PROVE  IsInjective(Append(s, m))
<1>1. SUFFICES ASSUME NEW j \in 1..(Len(s) + 1), NEW k \in 1..(Len(s) + 1),
                      Append(s, m)[j] = Append(s, m)[k]
               PROVE  j = k
  BY DEF IsInjective
<1>2. \A l \in 1..Len(s) : Append(s, m)[l] = s[l] /\ s[l] # m
  BY DEF ToSet
<1>3. Append(s, m)[Len(s) + 1] = m
  OBVIOUS
<1>4. \A a, b \in 1..Len(s) : s[a] = s[b] => a = b
  BY DEF IsInjective
<1> QED BY <1>1, <1>2, <1>3, <1>4

----------------------------------------------------------------------------
\* Families of channels.

LEMMA ChannelProperties ==
    ASSUME NEW W, NEW S, NEW ch \in ChannelsOf(W, S)
    PROVE  DOMAIN ch = W /\ \A w \in W : ch[w] \in Seq(S)
BY DEF ChannelsOf

LEMMA PutProperties ==
    ASSUME NEW W, NEW S, NEW ch \in ChannelsOf(W, S), NEW w \in W, NEW m \in S
    PROVE  /\ Put(ch, w, m) \in ChannelsOf(W, S)
           /\ \A v \in W \ {w} : Put(ch, w, m)[v] = ch[v]
           /\ ToSet(Put(ch, w, m)[w]) = ToSet(ch[w]) \union {m}
           /\ EOS \notin ToSet(ch[w]) => EosAtEnd(Put(ch, w, m)[w])
           /\ In(Put(ch, w, m)) = In(ch) \union ({m} \ {EOS})
<1>1. /\ Put(ch, w, m) \in ChannelsOf(W, S)
      /\ Put(ch, w, m)[w] = Append(ch[w], m)
      /\ \A v \in W \ {w} : Put(ch, w, m)[v] = ch[v]
  BY DEF Put, ChannelsOf
<1>2. ch[w] \in Seq(S)
  BY DEF ChannelsOf
<1>3. /\ ToSet(Put(ch, w, m)[w]) = ToSet(ch[w]) \union {m}
      /\ EOS \notin ToSet(ch[w]) => EosAtEnd(Put(ch, w, m)[w])
  BY <1>1, <1>2, ToSetOfAppend, EosAtEndOfAppend
<1>4. DOMAIN ch = W /\ DOMAIN Put(ch, w, m) = W
  BY <1>1, ChannelProperties
<1>5. (UNION {ToSet(Put(ch, w, m)[v]) : v \in W}) = (UNION {ToSet(ch[v]) : v \in W}) \union {m}
  BY <1>1, <1>3
<1>6. In(Put(ch, w, m)) = In(ch) \union ({m} \ {EOS})
  BY <1>4, <1>5 DEF In
<1> QED BY <1>1, <1>3, <1>6

LEMMA DropProperties ==
    ASSUME NEW W, NEW S, NEW ch \in ChannelsOf(W, S), NEW w \in W, Waiting(ch, w)
    PROVE  /\ Drop(ch, w) \in ChannelsOf(W, S)
           /\ \A v \in W \ {w} : Drop(ch, w)[v] = ch[v]
           /\ ToSet(ch[w]) = ToSet(Drop(ch, w)[w]) \union {Head(ch[w])}
           /\ EosAtEnd(ch[w]) => EosAtEnd(Drop(ch, w)[w])
           /\ EosAtEnd(ch[w]) /\ Head(ch[w]) = EOS => Drop(ch, w)[w] = <<>>
           /\ In(ch) = In(Drop(ch, w)) \union ({Head(ch[w])} \ {EOS})
<1>1. ch[w] \in Seq(S) /\ ch[w] # <<>>
  BY DEF ChannelsOf, Waiting
<1>2. /\ Drop(ch, w) \in ChannelsOf(W, S)
      /\ Drop(ch, w)[w] = Tail(ch[w])
      /\ \A v \in W \ {w} : Drop(ch, w)[v] = ch[v]
  BY <1>1 DEF Drop, ChannelsOf
<1>3. /\ ToSet(ch[w]) = ToSet(Drop(ch, w)[w]) \union {Head(ch[w])}
      /\ EosAtEnd(ch[w]) => EosAtEnd(Drop(ch, w)[w])
      /\ EosAtEnd(ch[w]) /\ Head(ch[w]) = EOS => Drop(ch, w)[w] = <<>>
  BY <1>1, <1>2, ToSetOfTail, EosAtEndOfTail
<1>4. DOMAIN ch = W /\ DOMAIN Drop(ch, w) = W
  BY <1>2, ChannelProperties
<1>5. (UNION {ToSet(ch[v]) : v \in W})
        = (UNION {ToSet(Drop(ch, w)[v]) : v \in W}) \union {Head(ch[w])}
  BY <1>2, <1>3
<1>6. In(ch) = In(Drop(ch, w)) \union ({Head(ch[w])} \ {EOS})
  BY <1>4, <1>5 DEF In
<1> QED BY <1>2, <1>3, <1>6

\* A new message, or a mark, makes no copy.
LEMMA PutNoCopies ==
    ASSUME NEW W, NEW S, NEW ch \in ChannelsOf(W, S), NEW w \in W, NEW m \in S,
           NoCopies(ch), m \notin In(ch)
    PROVE  NoCopies(Put(ch, w, m))
<1>1. /\ Put(ch, w, m)[w] = Append(ch[w], m)
      /\ \A v \in W \ {w} : Put(ch, w, m)[v] = ch[v]
      /\ DOMAIN ch = W /\ DOMAIN Put(ch, w, m) = W
      /\ \A v \in W : ch[v] \in Seq(S)
  BY DEF Put, ChannelsOf
<1>2. /\ DOMAIN Append(ch[w], m) = 1..(Len(ch[w]) + 1)
      /\ \A k \in 1..Len(ch[w]) : Append(ch[w], m)[k] = ch[w][k]
      /\ Append(ch[w], m)[Len(ch[w]) + 1] = m
      /\ Len(ch[w]) \in Nat /\ DOMAIN ch[w] = 1..Len(ch[w])
  BY <1>1
<1>3. ASSUME m # EOS, NEW v \in W, NEW k \in DOMAIN ch[v] PROVE ch[v][k] # m
  BY <1>1, <1>3 DEF In, ToSet
<1>4. ASSUME NEW u \in W, NEW v \in W,
             NEW j \in DOMAIN Put(ch, w, m)[u], NEW k \in DOMAIN Put(ch, w, m)[v],
             Put(ch, w, m)[u][j] = Put(ch, w, m)[v][k], Put(ch, w, m)[u][j] # EOS
      PROVE  u = v /\ j = k
  <2>1. CASE j \in DOMAIN ch[u] /\ k \in DOMAIN ch[v]
    <3>1. ch[u][j] = ch[v][k] /\ ch[u][j] # EOS
      BY <1>1, <1>2, <1>4, <2>1
    <3> QED BY <1>1, <2>1, <3>1 DEF NoCopies
  <2>2. CASE j \notin DOMAIN ch[u]
    <3>1. u = w /\ j = Len(ch[w]) + 1 /\ Put(ch, w, m)[u][j] = m
      BY <1>1, <1>2, <1>4, <2>2
    <3>2. k \notin DOMAIN ch[v]
      <4>1. k \in DOMAIN ch[v] => Put(ch, w, m)[v][k] = ch[v][k]
        BY <1>1, <1>2
      <4> QED BY <1>3, <1>4, <3>1, <4>1
    <3> QED BY <1>1, <1>2, <1>4, <3>1, <3>2
  <2>3. CASE k \notin DOMAIN ch[v]
    <3>1. v = w /\ k = Len(ch[w]) + 1 /\ Put(ch, w, m)[v][k] = m
      BY <1>1, <1>2, <1>4, <2>3
    <3>2. j \notin DOMAIN ch[u]
      <4>1. j \in DOMAIN ch[u] => Put(ch, w, m)[u][j] = ch[u][j]
        BY <1>1, <1>2
      <4> QED BY <1>3, <1>4, <3>1, <4>1
    <3> QED BY <1>1, <1>2, <1>4, <3>1, <3>2
  <2> QED BY <2>1, <2>2, <2>3
<1> QED BY <1>1, <1>4 DEF NoCopies

\* Reading makes no copy either, and what is read is in no channel any more.
LEMMA DropNoCopies ==
    ASSUME NEW W, NEW S, NEW ch \in ChannelsOf(W, S), NEW w \in W, Waiting(ch, w),
           NoCopies(ch)
    PROVE  NoCopies(Drop(ch, w)) /\ Head(ch[w]) \notin In(Drop(ch, w))
<1>1. /\ Drop(ch, w)[w] = Tail(ch[w])
      /\ \A v \in W \ {w} : Drop(ch, w)[v] = ch[v]
      /\ DOMAIN ch = W /\ DOMAIN Drop(ch, w) = W
      /\ \A v \in W : ch[v] \in Seq(S)
      /\ ch[w] # <<>>
  BY DEF Drop, ChannelsOf, Waiting
<1>2. /\ Len(ch[w]) \in Nat /\ Len(ch[w]) >= 1 /\ Head(ch[w]) = ch[w][1]
      /\ DOMAIN ch[w] = 1..Len(ch[w])
      /\ DOMAIN Tail(ch[w]) = 1..(Len(ch[w]) - 1)
      /\ \A k \in 1..(Len(ch[w]) - 1) : Tail(ch[w])[k] = ch[w][k + 1]
  BY <1>1
<1>3. \A u, v \in W : \A j \in DOMAIN ch[u], k \in DOMAIN ch[v] :
          ch[u][j] = ch[v][k] /\ ch[u][j] # EOS => u = v /\ j = k
  BY <1>1 DEF NoCopies
<1> DEFINE at(v, k) == IF v = w THEN k + 1 ELSE k
<1>4. ASSUME NEW v \in W, NEW k \in DOMAIN Drop(ch, w)[v]
      PROVE  /\ at(v, k) \in DOMAIN ch[v]
             /\ Drop(ch, w)[v][k] = ch[v][at(v, k)]
             /\ v = w => k \in Nat /\ at(v, k) # 1
  <2>1. CASE v = w
    <3>1. k \in 1..(Len(ch[w]) - 1) /\ Drop(ch, w)[v][k] = Tail(ch[w])[k]
      BY <1>1, <1>2, <1>4, <2>1
    <3> QED BY <1>2, <2>1, <3>1
  <2>2. CASE v # w
    BY <1>1, <1>4, <2>2
  <2> QED BY <2>1, <2>2
<1>5. ASSUME NEW u \in W, NEW v \in W,
             NEW j \in DOMAIN Drop(ch, w)[u], NEW k \in DOMAIN Drop(ch, w)[v],
             Drop(ch, w)[u][j] = Drop(ch, w)[v][k], Drop(ch, w)[u][j] # EOS
      PROVE  u = v /\ j = k
  <2>1. u = v /\ at(u, j) = at(v, k)
    BY <1>3, <1>4, <1>5
  <2> QED BY <1>4, <2>1
<1>6. ASSUME NEW v \in W, NEW k \in DOMAIN Drop(ch, w)[v], Head(ch[w]) # EOS
      PROVE  Drop(ch, w)[v][k] # Head(ch[w])
  <2>1. 1 \in DOMAIN ch[w]
    BY <1>2
  <2> QED BY <1>2, <1>3, <1>4, <1>6, <2>1
<1> QED BY <1>1, <1>5, <1>6 DEF NoCopies, In, ToSet

\* A task that has arrived is the head of a channel that is not empty.
LEMMA ArrivedProperties ==
    ASSUME NEW W, NEW S, NEW ch \in ChannelsOf(W, S), NEW w \in W,
           NEW m \in Arrived(ch, w)
    PROVE  /\ Waiting(ch, w) /\ Head(ch[w]) = m
           /\ m \in S /\ m # EOS /\ m \in In(ch)
<1>1. Waiting(ch, w) /\ ch[w] # <<>> /\ Head(ch[w]) = m /\ m # EOS
  BY DEF Arrived, Waiting
<1>2. ch[w] \in Seq(S) /\ DOMAIN ch = W
  BY ChannelProperties
<1>3. m \in S /\ m \in ToSet(ch[w])
  BY <1>1, <1>2, ToSetOfTail
<1>4. m \in In(ch)
  BY <1>1, <1>2, <1>3 DEF In
<1> QED BY <1>1, <1>3, <1>4

----------------------------------------------------------------------------
\* The end-of-stream protocol of the farm with feedback, over the values of its
\* variables in one state: the workers W and the messages M, what the emitter
\* does (e), the channels to and from the workers (out, back), the workers that
\* run (run), those the broadcast of EOS has served (told) and those whose EOS
\* the emitter has received (left). That nothing follows EOS in a feedback
\* channel depends on which workers still run, that nothing follows it towards
\* a worker on whom the broadcast has served, and both on what the emitter is
\* doing. One lemma per operation of FeedbackFarm shows that this is kept.

NotRunning(e) == e \in {"constructor", "aborted"}

\* How far the end of the stream has come at a worker.
EosReached(w, e, out, back, run, told, left) ==
    /\ EosAtEnd(out[w]) /\ EosAtEnd(back[w])
    /\ EOS \in ToSet(out[w]) => w \in told
    /\ w \in run => EOS \notin ToSet(back[w]) /\ w \notin left
    /\ w \notin run /\ e # "constructor" => out[w] = <<>>
    /\ w \notin told /\ ~NotRunning(e) => w \in run
    /\ w \in left => back[w] = <<>>

CycleProtocol(M, W, e, out, back, run, told, left) ==
    /\ e \in {"constructor", "send", "broadcast", "collect", "ended", "aborted"}
    /\ out \in ChannelsOf(W, M \union {EOS}) /\ back \in ChannelsOf(W, M \union {EOS})
    /\ run \subseteq W /\ told \subseteq W /\ left \subseteq W
    /\ NotRunning(e) =>
           /\ run = {} /\ told = {} /\ left = {}
           /\ \A w \in W : out[w] = <<>> /\ back[w] = <<>>
    /\ e = "send" => told = {}
    /\ e = "ended" => left = W
    /\ \A w \in W : EosReached(w, e, out, back, run, told, left)

LEMMA CycleInit ==
    ASSUME NEW M, NEW W, NEW none, none = [w \in W |-> <<>>]
    PROVE  CycleProtocol(M, W, "constructor", none, none, {}, {}, {})
<1>1. none \in ChannelsOf(W, M \union {EOS}) /\ \A w \in W : none[w] = <<>>
  BY DEF ChannelsOf
<1> QED BY <1>1, EosAtEndOfEmpty, ToSetOfEmpty DEF CycleProtocol, EosReached, NotRunning

LEMMA CycleRun ==
    ASSUME NEW M, NEW W, NEW out, NEW back, NEW run, NEW told, NEW left,
           CycleProtocol(M, W, "constructor", out, back, run, told, left)
    PROVE  /\ CycleProtocol(M, W, "send", out, back, W, told, left)
           /\ CycleProtocol(M, W, "aborted", out, back, run, told, left)
BY ToSetOfEmpty DEF CycleProtocol, EosReached, NotRunning

LEMMA CycleSend ==
    ASSUME NEW M, NEW W, NEW out, NEW back, NEW run, NEW told, NEW left,
           CycleProtocol(M, W, "send", out, back, run, told, left),
           NEW w \in W, NEW m \in M, EOS \notin M
    PROVE  CycleProtocol(M, W, "send", Put(out, w, m), back, run, told, left)
<1> DEFINE new == Put(out, w, m)
<1>1. /\ out \in ChannelsOf(W, M \union {EOS}) /\ w \notin told
      /\ \A v \in W : EosReached(v, "send", out, back, run, told, left)
  BY DEF CycleProtocol
<1>2. EOS \notin ToSet(out[w]) /\ w \in run
  BY <1>1 DEF EosReached, NotRunning
<1>3. /\ new \in ChannelsOf(W, M \union {EOS})
      /\ \A v \in W \ {w} : new[v] = out[v]
      /\ EosAtEnd(new[w]) /\ EOS \notin ToSet(new[w])
  BY <1>1, <1>2, PutProperties
<1> HIDE DEF new
<1>4. ASSUME NEW v \in W PROVE EosReached(v, "send", new, back, run, told, left)
  <2>1. CASE v = w
    BY <1>1, <1>2, <1>3, <2>1 DEF EosReached
  <2>2. CASE v # w
    BY <1>1, <1>3, <2>2 DEF EosReached
  <2> QED BY <2>1, <2>2
<1>5. CycleProtocol(M, W, "send", new, back, run, told, left)
  BY <1>3, <1>4 DEF CycleProtocol, NotRunning
<1> QED BY <1>5 DEF new

LEMMA CycleEndSend ==
    ASSUME NEW M, NEW W, NEW out, NEW back, NEW run, NEW told, NEW left,
           CycleProtocol(M, W, "send", out, back, run, told, left)
    PROVE  CycleProtocol(M, W, "broadcast", out, back, run, told, left)
BY DEF CycleProtocol, EosReached, NotRunning

LEMMA CycleBroadcast ==
    ASSUME NEW M, NEW W, NEW out, NEW back, NEW run, NEW told, NEW left,
           CycleProtocol(M, W, "broadcast", out, back, run, told, left),
           NEW w \in W, w \notin told, NEW e \in {"broadcast", "collect"}
    PROVE  CycleProtocol(M, W, e, Put(out, w, EOS), back, run, told \union {w}, left)
<1> DEFINE new == Put(out, w, EOS)
<1>1. /\ out \in ChannelsOf(W, M \union {EOS})
      /\ \A v \in W : EosReached(v, "broadcast", out, back, run, told, left)
  BY DEF CycleProtocol
<1>2. EOS \notin ToSet(out[w]) /\ w \in run
  BY <1>1 DEF EosReached, NotRunning
<1>3. /\ new \in ChannelsOf(W, M \union {EOS})
      /\ \A v \in W \ {w} : new[v] = out[v]
      /\ EosAtEnd(new[w])
  BY <1>1, <1>2, PutProperties
<1> HIDE DEF new
<1>4. ASSUME NEW v \in W PROVE EosReached(v, e, new, back, run, told \union {w}, left)
  <2>1. CASE v = w
    BY <1>1, <1>2, <1>3, <2>1 DEF EosReached
  <2>2. CASE v # w
    BY <1>1, <1>3, <2>2 DEF EosReached, NotRunning
  <2> QED BY <2>1, <2>2
<1>5. CycleProtocol(M, W, e, new, back, run, told \union {w}, left)
  BY <1>3, <1>4 DEF CycleProtocol, NotRunning
<1> QED BY <1>5 DEF new

LEMMA CycleFeedback ==
    ASSUME NEW M, NEW W, NEW out, NEW back, NEW run, NEW told, NEW left,
           CycleProtocol(M, W, "collect", out, back, run, told, left),
           NEW w \in W, NEW m \in Arrived(back, w)
    PROVE  CycleProtocol(M, W, "collect", out, Drop(back, w), run, told, left)
<1> DEFINE new == Drop(back, w)
<1>1. /\ back \in ChannelsOf(W, M \union {EOS})
      /\ \A v \in W : EosReached(v, "collect", out, back, run, told, left)
  BY DEF CycleProtocol
<1>2. Waiting(back, w) /\ w \notin left
  BY <1>1, ArrivedProperties DEF EosReached, Waiting
<1>3. /\ new \in ChannelsOf(W, M \union {EOS})
      /\ \A v \in W \ {w} : new[v] = back[v]
      /\ EosAtEnd(back[w]) => EosAtEnd(new[w])
      /\ ToSet(new[w]) \subseteq ToSet(back[w])
  BY <1>1, <1>2, DropProperties
<1> HIDE DEF new
<1>4. ASSUME NEW v \in W PROVE EosReached(v, "collect", out, new, run, told, left)
  <2>1. CASE v = w
    BY <1>1, <1>2, <1>3, <2>1 DEF EosReached
  <2>2. CASE v # w
    BY <1>1, <1>3, <2>2 DEF EosReached
  <2> QED BY <2>1, <2>2
<1>5. CycleProtocol(M, W, "collect", out, new, run, told, left)
  BY <1>3, <1>4 DEF CycleProtocol, NotRunning
<1> QED BY <1>5 DEF new

LEMMA CycleClose ==
    ASSUME NEW M, NEW W, NEW out, NEW back, NEW run, NEW told, NEW left,
           CycleProtocol(M, W, "collect", out, back, run, told, left),
           NEW w \in W, Waiting(back, w), Head(back[w]) = EOS,
           NEW e, e = IF left \union {w} = W THEN "ended" ELSE "collect"
    PROVE  CycleProtocol(M, W, e, out, Drop(back, w), run, told, left \union {w})
<1> DEFINE new == Drop(back, w)
<1>1. /\ back \in ChannelsOf(W, M \union {EOS})
      /\ \A v \in W : EosReached(v, "collect", out, back, run, told, left)
  BY DEF CycleProtocol
<1>2. /\ new \in ChannelsOf(W, M \union {EOS})
      /\ \A v \in W \ {w} : new[v] = back[v]
      /\ EosAtEnd(back[w]) => new[w] = <<>>
      /\ EOS \in ToSet(back[w])
  BY <1>1, DropProperties
<1> HIDE DEF new
<1>3. w \notin run /\ new[w] = <<>>
  BY <1>1, <1>2 DEF EosReached
<1>4. ASSUME NEW v \in W PROVE EosReached(v, e, out, new, run, told, left \union {w})
  <2>1. CASE v = w
    BY <1>1, <1>3, <2>1, EosAtEndOfEmpty DEF EosReached, NotRunning
  <2>2. CASE v # w
    BY <1>1, <1>2, <2>2 DEF EosReached, NotRunning
  <2> QED BY <2>1, <2>2
<1>5. CycleProtocol(M, W, e, out, new, run, told, left \union {w})
  BY <1>2, <1>4 DEF CycleProtocol, NotRunning
<1> QED BY <1>5 DEF new

LEMMA CycleSvc ==
    ASSUME NEW M, NEW W, NEW e, NEW out, NEW back, NEW run, NEW told, NEW left,
           CycleProtocol(M, W, e, out, back, run, told, left),
           NEW w \in W, w \in run, NEW m \in Arrived(out, w),
           NEW new, NEW answer, new = IF answer THEN Put(back, w, m) ELSE back
    PROVE  CycleProtocol(M, W, e, Drop(out, w), new, run, told, left)
<1> DEFINE rest == Drop(out, w)
<1>1. /\ out \in ChannelsOf(W, M \union {EOS}) /\ back \in ChannelsOf(W, M \union {EOS})
      /\ \A v \in W : EosReached(v, e, out, back, run, told, left)
      /\ ~NotRunning(e)
  BY DEF CycleProtocol
<1>2. m \in M \union {EOS} /\ m # EOS /\ Waiting(out, w)
  BY <1>1, ArrivedProperties
<1>3. /\ rest \in ChannelsOf(W, M \union {EOS})
      /\ \A v \in W \ {w} : rest[v] = out[v]
      /\ EosAtEnd(out[w]) => EosAtEnd(rest[w])
      /\ ToSet(rest[w]) \subseteq ToSet(out[w])
  BY <1>1, <1>2, DropProperties
<1>4. EosAtEnd(back[w]) /\ EOS \notin ToSet(back[w]) /\ w \notin left
  BY <1>1 DEF EosReached
<1>5. /\ new \in ChannelsOf(W, M \union {EOS})
      /\ \A v \in W \ {w} : new[v] = back[v]
      /\ EosAtEnd(new[w]) /\ EOS \notin ToSet(new[w])
  <2>1. CASE answer
    <3>1. new = Put(back, w, m)
      BY <2>1
    <3> QED BY <1>1, <1>2, <1>4, <3>1, PutProperties
  <2>2. CASE ~answer
    BY <1>1, <1>4, <2>2
  <2> QED BY <2>1, <2>2
<1> HIDE DEF rest
<1>6. ASSUME NEW v \in W PROVE EosReached(v, e, rest, new, run, told, left)
  <2>1. CASE v = w
    BY <1>1, <1>3, <1>4, <1>5, <2>1 DEF EosReached
  <2>2. CASE v # w
    BY <1>1, <1>3, <1>5, <2>2 DEF EosReached
  <2> QED BY <2>1, <2>2
<1>7. CycleProtocol(M, W, e, rest, new, run, told, left)
  BY <1>1, <1>3, <1>5, <1>6 DEF CycleProtocol
<1> QED BY <1>7 DEF rest

LEMMA CycleEndWorker ==
    ASSUME NEW M, NEW W, NEW e, NEW out, NEW back, NEW run, NEW told, NEW left,
           CycleProtocol(M, W, e, out, back, run, told, left),
           NEW w \in W, w \in run, Waiting(out, w), Head(out[w]) = EOS
    PROVE  CycleProtocol(M, W, e, Drop(out, w), Put(back, w, EOS), run \ {w}, told, left)
<1> DEFINE rest == Drop(out, w)
           new == Put(back, w, EOS)
<1>1. /\ out \in ChannelsOf(W, M \union {EOS}) /\ back \in ChannelsOf(W, M \union {EOS})
      /\ \A v \in W : EosReached(v, e, out, back, run, told, left)
      /\ ~NotRunning(e)
  BY DEF CycleProtocol
<1>2. /\ rest \in ChannelsOf(W, M \union {EOS})
      /\ \A v \in W \ {w} : rest[v] = out[v]
      /\ EosAtEnd(out[w]) => rest[w] = <<>>
      /\ EOS \in ToSet(out[w])
  BY <1>1, DropProperties
<1>3. /\ new \in ChannelsOf(W, M \union {EOS})
      /\ \A v \in W \ {w} : new[v] = back[v]
      /\ EOS \notin ToSet(back[w]) => EosAtEnd(new[w])
  BY <1>1, PutProperties
<1> HIDE DEF rest, new
<1>4. rest[w] = <<>> /\ w \in told /\ EosAtEnd(new[w]) /\ w \notin left
  BY <1>1, <1>2, <1>3 DEF EosReached
<1>5. ASSUME NEW v \in W PROVE EosReached(v, e, rest, new, run \ {w}, told, left)
  <2>1. CASE v = w
    BY <1>4, <2>1, EosAtEndOfEmpty, ToSetOfEmpty DEF EosReached
  <2>2. CASE v # w
    BY <1>1, <1>2, <1>3, <2>2 DEF EosReached
  <2> QED BY <2>1, <2>2
<1>6. CycleProtocol(M, W, e, rest, new, run \ {w}, told, left)
  BY <1>1, <1>2, <1>3, <1>5 DEF CycleProtocol
<1> QED BY <1>6 DEF rest, new

\* When the emitter's thread has ended, so have the workers, and every channel
\* is empty.
LEMMA CycleEnded ==
    ASSUME NEW M, NEW W, NEW out, NEW back, NEW run, NEW told, NEW left,
           CycleProtocol(M, W, "ended", out, back, run, told, left)
    PROVE  run = {} /\ In(out) = {} /\ In(back) = {}
<1>1. \A w \in W : w \notin run /\ out[w] = <<>> /\ back[w] = <<>>
  BY DEF CycleProtocol, EosReached
<1>2. DOMAIN out = W /\ DOMAIN back = W /\ run \subseteq W
  BY ChannelProperties DEF CycleProtocol
<1> QED BY <1>1, <1>2, ToSetOfEmpty DEF In

----------------------------------------------------------------------------
\* Trial division.

LEMMA DivisionWithRemainder ==
    ASSUME NEW n \in Nat, NEW d \in Nat \ {0}
    PROVE  /\ n = (d * (n \div d)) + (n % d)
           /\ n \div d \in Nat
           /\ n % d \in 0..(d - 1)
OBVIOUS

LEMMA ModOfMultiple ==
    ASSUME NEW q \in Nat, NEW d \in Nat \ {0}
    PROVE  (d * q) % d = 0
OBVIOUS

\* The test n % d == 0 of the code is divisibility.
LEMMA DividesIsMod ==
    ASSUME NEW n \in Nat \ {0}, NEW d \in Nat \ {0}
    PROVE  Divides(d, n) <=> n % d = 0
<1>1. ASSUME n % d = 0 PROVE Divides(d, n)
  <2>1. n = d * (n \div d) /\ n \div d \in Nat
    BY <1>1, DivisionWithRemainder
  <2>2. n \div d \in 1..n
    BY <2>1
  <2> QED BY <2>1, <2>2 DEF Divides
<1>2. ASSUME Divides(d, n) PROVE n % d = 0
  BY <1>2, ModOfMultiple DEF Divides
<1> QED BY <1>1, <1>2

LEMMA DividesTransitive ==
    ASSUME NEW n \in Nat \ {0}, NEW d \in Nat \ {0}, NEW e \in Nat \ {0},
           n % e = 0, e % d = 0
    PROVE  n % d = 0
<1>1. PICK q \in 1..n : n = e * q
  BY DividesIsMod DEF Divides
<1>2. PICK a \in 1..e : e = d * a
  BY DividesIsMod DEF Divides
<1>3. n = d * (a * q) /\ a * q \in Nat
  BY <1>1, <1>2
<1> QED BY <1>3, ModOfMultiple

\* A composite number has a divisor the square of which it reaches.
LEMMA SmallDivisor ==
    ASSUME NEW n \in Nat, n > 1, ~Prime(n)
    PROVE  \E e \in 2..(n - 1) : e * e <= n /\ n % e = 0
<1>1. PICK d \in 2..(n - 1) : Divides(d, n)
  BY DEF Prime
<1>2. PICK q \in 1..n : n = d * q
  BY <1>1 DEF Divides
<1>3. q \in 2..(n - 1)
  <2>1. q # 1
    BY <1>2
  <2>2. q # n
    <3>1. SUFFICES ASSUME q = n PROVE FALSE
      OBVIOUS
    <3>2. d * n >= 2 * n
      OBVIOUS
    <3> QED BY <1>2, <3>1, <3>2
  <2> QED BY <2>1, <2>2
<1>4. CASE d <= q
  <2>1. d * d <= n
    BY <1>2, <1>3, <1>4
  <2>2. n % d = 0
    BY <1>2, ModOfMultiple
  <2> QED BY <2>1, <2>2
<1>5. CASE q <= d
  <2>1. q * q <= n
    BY <1>2, <1>3, <1>5
  <2>2. n = q * d
    BY <1>2
  <2>3. n % q = 0
    BY <1>3, <2>2, ModOfMultiple
  <2> QED BY <1>3, <2>1, <2>3
<1> QED BY <1>4, <1>5

\* The wheel: where a possible divisor stands modulo 6.
LEMMA Wheel ==
    ASSUME NEW e \in Nat
    PROVE  \/ e % 2 = 0
           \/ e % 3 = 0
           \/ e % 6 = 5
           \/ e % 6 = 1 /\ (e > 1 => e >= 7 /\ (e - 2) % 6 = 5)
OBVIOUS

\* What is_prime accepts has no divisor that small.
LEMMA NoSmallDivisor ==
    ASSUME NEW n \in Nat, n > 3, is_prime(n),
           NEW e \in 2..(n - 1), e * e <= n
    PROVE  n % e # 0
<1>1. /\ n % 2 # 0 /\ n % 3 # 0
      /\ \A i \in TrialDivisors(n) : n % i # 0 /\ n % (i + 2) # 0
  BY DEF is_prime
<1>2. SUFFICES ASSUME n % e = 0 PROVE FALSE
  OBVIOUS
<1> n \in Nat \ {0} /\ e \in Nat \ {0}
  OBVIOUS
<1>3. CASE e % 2 = 0
  <2>1. n % 2 = 0
    BY <1>2, <1>3, DividesTransitive, 2 \in Nat \ {0}
  <2> QED BY <1>1, <2>1
<1>4. CASE e % 3 = 0
  <2>1. n % 3 = 0
    BY <1>2, <1>4, DividesTransitive, 3 \in Nat \ {0}
  <2> QED BY <1>1, <2>1
<1>5. CASE e % 6 = 5
  <2>1. e \in TrialDivisors(n)
    BY <1>5 DEF TrialDivisors
  <2> QED BY <1>1, <1>2, <2>1
<1>6. CASE e >= 7 /\ (e - 2) % 6 = 5
  <2>1. (e - 2) * (e - 2) <= e * e
    BY <1>6
  <2>2. e - 2 \in TrialDivisors(n)
    BY <1>6, <2>1 DEF TrialDivisors
  <2>3. n % ((e - 2) + 2) # 0
    BY <1>1, <2>2
  <2> QED BY <1>2, <2>3
<1> QED BY <1>3, <1>4, <1>5, <1>6, Wheel

\* is_prime decides primality, for every number whose trial squares fit a word.
THEOREM IsPrimeCorrect == \A n \in Nat : is_prime(n) <=> Prime(n)
<1> SUFFICES ASSUME NEW n \in Nat PROVE is_prime(n) <=> Prime(n)
  OBVIOUS
<1>1. CASE n <= 3
  <2>1. CASE n = 3
    <3>1. ~Divides(2, 3)
      BY DividesIsMod
    <3>2. \A d \in 2..(3 - 1) : d = 2
      OBVIOUS
    <3> QED BY <2>1, <3>1, <3>2 DEF is_prime, Prime
  <2>2. CASE n # 3
    BY <1>1, <2>2 DEF is_prime, Prime
  <2> QED BY <2>1, <2>2
<1>2. CASE n > 3
  <2>1. ASSUME is_prime(n) PROVE Prime(n)
    BY <1>2, <2>1, SmallDivisor, NoSmallDivisor
  <2>2. ASSUME Prime(n) PROVE is_prime(n)
    <3>1. ASSUME NEW d \in 2..(n - 1) PROVE n % d # 0
      <4>1. ~Divides(d, n)
        BY <2>2 DEF Prime
      <4>2. n \in Nat \ {0} /\ d \in Nat \ {0}
        BY <1>2
      <4> QED BY <4>1, <4>2, DividesIsMod
    <3>2. ASSUME NEW i \in TrialDivisors(n) PROVE n % i # 0 /\ n % (i + 2) # 0
      <4>1. i \in 5..n /\ i * i <= n
        BY DEF TrialDivisors
      <4>2. i * i >= 5 * i
        BY <4>1
      <4>3. i \in 2..(n - 1) /\ i + 2 \in 2..(n - 1)
        BY <4>1, <4>2
      <4> QED BY <3>1, <4>3
    <3> QED BY <1>2, <3>1, <3>2 DEF is_prime
  <2> QED BY <2>1, <2>2
<1> QED BY <1>1, <1>2

----------------------------------------------------------------------------
\* Ranks tell the members of a finite set of numbers apart, and respect order.
LEMMA RankProperties ==
    ASSUME NEW S, S \subseteq Int, IsFiniteSet(S), NEW n \in S
    PROVE  /\ Rank(n, S) \in 1..Cardinality(S)
           /\ \A m \in S : m < n => Rank(m, S) < Rank(n, S)
<1>1. \A m \in S : /\ IsFiniteSet({k \in S : k <= m})
                   /\ Cardinality({k \in S : k <= m}) \in Nat
                   /\ Cardinality({k \in S : k <= m}) <= Cardinality(S)
  BY FS_Subset, FS_CardinalityType
<1>2. Cardinality(S) \in Nat
  BY FS_CardinalityType
<1>3. Cardinality({k \in S : k <= n}) # 0
  BY <1>1, FS_EmptySet
<1>4. ASSUME NEW m \in S, m < n PROVE Rank(m, S) < Rank(n, S)
  <2>1. {k \in S : k <= m} \in SUBSET {k \in S : k <= n}
    <3>1. m \in Int /\ n \in Int
      OBVIOUS
    <3>2. ASSUME NEW k \in S, k <= m PROVE k <= n
      <4>1. k \in Int
        OBVIOUS
      <4> QED BY <1>4, <3>1, <3>2, <4>1
    <3> QED BY <3>2
  <2>2. {k \in S : k <= m} # {k \in S : k <= n}
    <3>1. m \in Int /\ n \in Int
      OBVIOUS
    <3>2. n <= n /\ ~(n <= m)
      BY <1>4, <3>1
    <3> QED BY <3>2
  <2>3. Cardinality({k \in S : k <= m}) <= Cardinality({k \in S : k <= n})
    BY <1>1, <2>1, FS_Subset
  <2>4. Cardinality({k \in S : k <= m}) # Cardinality({k \in S : k <= n})
    BY <1>1, <2>1, <2>2, FS_Subset
  <2> QED BY <1>1, <2>3, <2>4 DEF Rank
<1> QED BY <1>1, <1>2, <1>3, <1>4 DEF Rank

\* Every rank is that of some member: there are as many as members.
LEMMA EveryRankTaken ==
    ASSUME NEW S, S \subseteq Int, IsFiniteSet(S), NEW k \in 1..Cardinality(S)
    PROVE  \E n \in S : Rank(n, S) = k
<1> DEFINE f == [n \in S |-> Rank(n, S)]
<1>1. f \in [S -> 1..Cardinality(S)]
  BY RankProperties
<1>2. ASSUME NEW a \in S, NEW b \in S, f[a] = f[b] PROVE a = b
  <2>1. Rank(a, S) = Rank(b, S) /\ Rank(a, S) \in Int
    BY <1>1, <1>2
  <2>2. /\ a < b => Rank(a, S) < Rank(b, S)
        /\ b < a => Rank(b, S) < Rank(a, S)
    BY RankProperties
  <2>3. a \in Int /\ b \in Int
    OBVIOUS
  <2> QED BY <2>1, <2>2, <2>3
<1>3. f \in Injection(S, 1..Cardinality(S))
  BY <1>1, <1>2 DEF Injection, IsInjective
<1>4. /\ IsFiniteSet(1..Cardinality(S))
      /\ Cardinality(1..Cardinality(S)) = Cardinality(S)
  BY FS_CardinalityType, FS_Interval
<1>5. f \in Surjection(S, 1..Cardinality(S))
  BY <1>3, <1>4, FS_Injection
<1> QED BY <1>5 DEF Surjection

LEMMA InOrderProperties ==
    ASSUME NEW S, S \subseteq Int, IsFiniteSet(S)
    PROVE  /\ Cardinality(S) \in Nat
           /\ InOrder(S) \in [1..Cardinality(S) -> S]
           /\ Increasing(InOrder(S))
           /\ {InOrder(S)[k] : k \in 1..Cardinality(S)} = S
<1> DEFINE s == InOrder(S)
<1>1. \A k \in 1..Cardinality(S) : s[k] \in S /\ Rank(s[k], S) = k
  BY EveryRankTaken DEF InOrder
<1>2. s \in [1..Cardinality(S) -> S]
  BY <1>1 DEF InOrder
<1>3. ASSUME NEW j \in 1..Cardinality(S), NEW k \in 1..Cardinality(S), j < k
      PROVE  s[j] < s[k]
  <2>1. s[j] \in Int /\ s[k] \in Int /\ s[j] # s[k]
    <3>1. s[j] \in S /\ s[k] \in S /\ Rank(s[j], S) = j /\ Rank(s[k], S) = k
      BY <1>1
    <3>2. j \in Int /\ k \in Int /\ j # k
      BY <1>3
    <3> HIDE DEF s
    <3> QED BY <3>1, <3>2
  <2>2. ~(s[k] < s[j])
    <3>1. s[k] < s[j] => Rank(s[k], S) < Rank(s[j], S)
      BY <1>1, RankProperties
    <3> QED BY <1>1, <1>3, <3>1
  <2> QED BY <2>1, <2>2
<1>4. Cardinality(S) \in Nat
  BY FS_CardinalityType
<1>5. ASSUME NEW n \in S PROVE \E k \in 1..Cardinality(S) : s[k] = n
  <2> DEFINE k == Rank(n, S)
  <2>1. k \in 1..Cardinality(S)
    BY RankProperties
  <2>2. s[k] \in S /\ Rank(s[k], S) = k
    BY <1>1, <2>1
  <2>3. /\ s[k] < n => Rank(s[k], S) < Rank(n, S)
        /\ n < s[k] => Rank(n, S) < Rank(s[k], S)
    BY <2>2, RankProperties
  <2>4. n \in Int /\ s[k] \in Int
    <3> HIDE DEF s, k
    <3> QED BY <2>2
  <2>5. k \in Int
    BY <1>4, <2>1
  <2>6. Rank(s[k], S) = Rank(n, S) /\ Rank(n, S) \in Int
    BY <2>2, <2>5
  <2>7. s[k] = n
    <3> HIDE DEF s, k
    <3> QED BY <2>3, <2>4, <2>6
  <2> QED BY <2>1, <2>7
<1>6. Increasing(s)
  BY <1>2, <1>3 DEF Increasing
<1>7. {s[k] : k \in 1..Cardinality(S)} = S
  BY <1>1, <1>5
<1> QED BY <1>2, <1>4, <1>6, <1>7

\* The vector of a worker is all the primes of its numbers and nothing else,
\* each number pushed back after all smaller ones.
THEOREM PrimesInOrder ==
    ASSUME NEW S, S \subseteq Nat, IsFiniteSet(S)
    PROVE  LET V == PrimesIn(S)
               P == {n \in S : Prime(n)}
           IN  /\ V \in [1..Cardinality(P) -> P]
               /\ Cardinality(P) \in Nat
               /\ Increasing(V)
               /\ {V[k] : k \in DOMAIN V} = P
<1> DEFINE P == {n \in S : Prime(n)}
<1>1. {n \in S : is_prime(n)} = P
  BY IsPrimeCorrect
<1>2. IsFiniteSet(P) /\ P \subseteq Int
  <2>1. P \in SUBSET S
    OBVIOUS
  <2>2. P \subseteq Int
    <3>1. \A n \in P : n \in Nat
      BY <2>1
    <3> HIDE DEF P
    <3> QED BY <3>1
  <2>3. IsFiniteSet(P)
    BY <2>1, FS_Subset
  <2> QED BY <2>2, <2>3
<1>3. PrimesIn(S) = InOrder(P)
  BY <1>1 DEF PrimesIn
<1>4. /\ Cardinality(P) \in Nat
      /\ InOrder(P) \in [1..Cardinality(P) -> P]
      /\ Increasing(InOrder(P))
      /\ {InOrder(P)[k] : k \in 1..Cardinality(P)} = P
  BY <1>2, InOrderProperties
<1>5. DOMAIN InOrder(P) = 1..Cardinality(P)
  BY <1>4
<1> QED BY <1>3, <1>4, <1>5

----------------------------------------------------------------------------
\* Numbers.

\* An argument on the least number without a property stands for induction.
LEMMA LeastNumber ==
    ASSUME NEW T, T \subseteq Nat, T # {}
    PROVE  \E x \in T : \A y \in T : x <= y
<1>1. PICK x \in T : \A y \in T : ~(<<y, x>> \in OpToRel(<, Nat))
  BY NatLessThanWellFounded, WFMin
<1>2. \A y \in T : ~(y < x)
  BY <1>1 DEF OpToRel
<1> QED BY <1>2

\* When a range is cut in n parts of q numbers, or one more, k parts of q stay
\* below n.
LEMMA Multiples ==
    ASSUME NEW q \in Nat, NEW k \in Nat, NEW n \in Nat, k <= n
    PROVE  /\ k * q \in Nat /\ k * q <= n * q
           /\ (k + 1) * q = k * q + q
           /\ k * (-q) = -(k * q) /\ (k + 1) * (-q) = -((k + 1) * q)
<1>1. n * q = k * q + (n - k) * q
  OBVIOUS
<1>2. (n - k) * q \in Nat
  OBVIOUS
<1> QED BY <1>1, <1>2

\* FastFlow's even shares of a loop for n threads tile its range, each behind
\* the one before.
LEMMA EvenShares ==
    ASSUME NEW n \in Nat \ {0}, NEW a \in Nat, NEW b \in Nat, a <= b
    PROVE  LET q == (b - a) \div n
               r == (b - a) % n
               start(w) == a + w * q + (IF w <= r THEN w ELSE r)
           IN  /\ \A w \in 0..n : start(w) \in a..b
               /\ \A v, w \in 0..n : v <= w => start(v) <= start(w)
               /\ \A m \in a..(b - 1) :
                      \E w \in 0..(n - 1) : start(w) <= m /\ m < start(w + 1)
<1> DEFINE q == (b - a) \div n
           r == (b - a) % n
           start(w) == a + w * q + (IF w <= r THEN w ELSE r)
<1>1. b - a \in Nat /\ b - a = n * q + r /\ q \in Nat /\ r \in 0..(n - 1)
  <2>1. b - a \in Nat
    OBVIOUS
  <2> QED BY <2>1, DivisionWithRemainder
<1> HIDE DEF q, r
<1>3. ASSUME NEW v \in 0..n, NEW w \in 0..n, v <= w PROVE start(v) <= start(w)
  <2>1. v * q \in Nat /\ w * q \in Nat /\ v * q <= w * q
    BY <1>1, <1>3, Multiples
  <2> QED BY <1>1, <1>3, <2>1
<1>4. start(0) = a /\ start(n) = b
  <2>1. 0 * q = 0 /\ n * q \in Nat
    BY <1>1
  <2> QED BY <1>1, <2>1
<1>5. \A w \in 0..n : start(w) \in Int
  <2>1. \A w \in 0..n : w * q \in Nat
    BY <1>1
  <2> QED BY <1>1, <2>1
<1> HIDE DEF start
<1>6. \A w \in 0..n : start(w) \in a..b
  BY <1>3, <1>4, <1>5
<1>7. ASSUME NEW m \in a..(b - 1)
      PROVE  \E w \in 0..(n - 1) : start(w) <= m /\ m < start(w + 1)
  <2> DEFINE T == {w \in 0..n : m < start(w)}
  <2>1. n \in T /\ T \subseteq Nat
    BY <1>4
  <2>2. PICK x \in T : \A y \in T : x <= y
    <3> HIDE DEF T
    <3> QED BY <2>1, LeastNumber
  <2>3. x \in 1..n /\ m < start(x)
    BY <1>4, <2>2
  <2>4. x - 1 \in 0..(n - 1) /\ ~(x <= x - 1) /\ x - 1 \in 0..n
    BY <2>3
  <2>5. x - 1 \notin T
    BY <2>2, <2>4
  <2>6. start(x - 1) <= m
    BY <1>6, <2>4, <2>5
  <2>7. (x - 1) + 1 = x
    BY <2>3
  <2> QED BY <2>3, <2>4, <2>6, <2>7
<1> QED BY <1>3, <1>6, <1>7 DEF start, q, r
====
