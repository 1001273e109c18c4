---- MODULE RangeMasterWorker_proofs ----
(***************************************************************************)
(* primes_master-worker2.cpp and my_primes_master_worker_map.cpp for every *)
(* number of workers, every length of the channels and every range: the    *)
(* two partitions tile the range whatever the quotient and the remainder,  *)
(* inserting a vector at one place keeps the results sorted, a task has    *)
(* one owner, and the programs find what PrimeSearch promises.             *)
(*                                                                         *)
(* Tiling, Sorted and Ownership are not inductive: the next cut depends on *)
(* where the cursor stands (Loop), the merge on the order inside the       *)
(* vector of a task and on its staying inside the task's range (Heap), and *)
(* which pointers travel on the protocol of the farm (FarmInv).            *)
(***************************************************************************)
EXTENDS RangeMasterWorker, Shared_proofs, SequenceTheorems

----------------------------------------------------------------------------
\* The farm: the end-of-stream protocol, and each of its operations.

FarmInv(M) == CycleProtocol(M, Workers, emitter, toWorker, toEmitter, running, eosSent, eosFrom)

LEMMA FarmFacts ==
    ASSUME NEW M, FarmInv(M)
    PROVE  FarmTypeOK(M) /\ EosIsLast /\ (emitter = "send" => eosSent = {})
BY DEF FarmInv, CycleProtocol, EosReached, FarmTypeOK, EosIsLast

LEMMA FarmInitInv == ASSUME NEW M, FarmInit PROVE FarmInv(M)
BY CycleInit DEF FarmInv, FarmInit

LEMMA RunInv == ASSUME NEW M, FarmInv(M), Run \/ Abort PROVE FarmInv(M)'
BY CycleRun DEF FarmInv, Run, Abort

LEMMA SendOutInv ==
    ASSUME NEW M, FarmInv(M), NEW w \in Workers, NEW m \in M, EOS \notin M, SendOut(w, m)
    PROVE  FarmInv(M)'
BY CycleSend DEF FarmInv, SendOut

LEMMA EndSendInv == ASSUME NEW M, FarmInv(M), EndSend PROVE FarmInv(M)'
BY CycleEndSend DEF FarmInv, EndSend

LEMMA BroadcastInv ==
    ASSUME NEW M, FarmInv(M), NEW w \in Workers, Broadcast(w)
    PROVE  FarmInv(M)'
BY CycleBroadcast DEF FarmInv, Broadcast

LEMMA FeedbackInv ==
    ASSUME NEW M, FarmInv(M), NEW w \in Workers, NEW m, Feedback(w, m)
    PROVE  FarmInv(M)'
BY CycleFeedback DEF FarmInv, Feedback

LEMMA CloseChannelInv ==
    ASSUME NEW M, FarmInv(M), NEW w \in Workers, CloseChannel(w)
    PROVE  FarmInv(M)'
BY CycleClose DEF FarmInv, CloseChannel

LEMMA SvcInv ==
    ASSUME NEW M, FarmInv(M), NEW w \in Workers, NEW m, NEW answer, Svc(w, m, answer)
    PROVE  FarmInv(M)'
BY CycleSvc DEF FarmInv, Svc

LEMMA EndWorkerInv ==
    ASSUME NEW M, FarmInv(M), NEW w \in Workers, EndWorker(w)
    PROVE  FarmInv(M)'
BY CycleEndWorker DEF FarmInv, EndWorker

LEMMA FarmStutterInv == ASSUME NEW M, FarmInv(M), UNCHANGED farmVars PROVE FarmInv(M)'
BY DEF FarmInv, farmVars

LEMMA NothingLeft ==
    ASSUME NEW M, FarmInv(M), emitter = "ended"
    PROVE  running = {} /\ In(toWorker) = {} /\ In(toEmitter) = {}
BY CycleEnded DEF FarmInv

----------------------------------------------------------------------------
\* The invariant.

\* Where the k-th range starts.
CursorAt(k) ==
    IF IsMap THEN n1 + k * Quotient(n2 - n1, nw)
    ELSE n1 + k * ((n2 - n1) \div nw)
            + IF k < (n2 - n1) % nw THEN k ELSE (n2 - n1) % nw

\* The emitter's loop: nothing is done before the farm runs, the broadcast
\* starts when all ranges are cut, and primes_master-worker2 does not come to
\* its loop with a range that ends before it starts.
Loop ==
    /\ i \in 0..nw
    /\ cursor = CursorAt(i)
    /\ emitter \in {"constructor", "aborted"} => i = 0
    /\ emitter \in {"constructor", "aborted", "send"} => results = <<>>
    /\ emitter \notin {"constructor", "aborted", "send"} => i = nw
    /\ emitter \notin {"constructor", "aborted"} /\ ~IsMap => n1 <= n2

\* The tasks made so far and the results.
Heap ==
    /\ \A t \in DOMAIN tasks :
          /\ t \in TaskIds /\ t < i
          /\ tasks[t] \in [n1 : Int, n2 : Int, V : Seq(Nat)]
          /\ Span(t) \subseteq n1..(n2 - 1)
          /\ Increasing(tasks[t].V)
    /\ results \in Seq(Nat)
    /\ ToSet(results) \subseteq Wanted

Inv ==
    /\ args \in Ranges
    /\ FarmInv(TaskIds)
    /\ Loop
    /\ Heap
    /\ Tiling /\ Sorted /\ Ownership

LEMMA RangeType ==
    ASSUME args \in Ranges
    PROVE  /\ n1 \in Nat /\ n2 \in Nat
           /\ IsMap \/ args[1] = "mw2"
           /\ ~IsMap /\ n2 < n1 => n1 > 2
BY RangesAssumption DEF n1, n2, IsMap

LEMMA WorkersType == nw \in Nat /\ nw >= 1 /\ Workers = 0..(nw - 1) /\ TaskIds = Workers
BY WorkersAssumption, WorkersNumbered, FS_CardinalityType, FS_EmptySet DEF nw, TaskIds

----------------------------------------------------------------------------
\* The two partitions.

LEMMA Division ==
    ASSUME NEW d \in Nat, NEW n \in Nat \ {0}
    PROVE  d \div n \in Nat /\ d % n \in Nat /\ n * (d \div n) <= d
<1> DEFINE q == d \div n
           r == d % n
<1>1. d = (n * q) + r /\ q \in Nat /\ r \in 0..(n - 1)
  BY DivisionWithRemainder
<1> HIDE DEF q, r
<1>2. q \in Nat /\ r \in Nat /\ n * q <= d
  BY <1>1
<1> QED BY <1>2 DEF q, r

LEMMA SplitRange ==
    ASSUME NEW a \in Int, NEW b \in Int, NEW c \in Int, a <= b, b <= c
    PROVE  /\ a..(c - 1) = (a..(b - 1)) \union (b..(c - 1))
           /\ (a..(b - 1)) \intersect (b..(c - 1)) = {}
OBVIOUS

\* The partition of primes_master-worker2: the first r ranges are one longer.
LEMMA EvenCut ==
    ASSUME NEW d \in Nat, NEW n \in Nat \ {0}, NEW k \in 0..(n - 1)
    PROVE  LET q == d \div n
               r == d % n
               at == k * q + (IF k < r THEN k ELSE r)
               then == (k + 1) * q + (IF k + 1 < r THEN k + 1 ELSE r)
           IN  /\ then = at + q + (IF r - k > 0 THEN 1 ELSE 0)
               /\ at \in Nat /\ then \in Nat
               /\ at <= then /\ then <= d
               /\ k + 1 = n => then = d
<1> DEFINE q == d \div n
           r == d % n
           at == k * q + (IF k < r THEN k ELSE r)
           then == (k + 1) * q + (IF k + 1 < r THEN k + 1 ELSE r)
<1>1. d = n * q + r /\ q \in Nat /\ r \in 0..(n - 1)
  BY DivisionWithRemainder
<1> HIDE DEF q, r
<1>2. /\ k * q \in Nat /\ (k + 1) * q = k * q + q
      /\ (k + 1) * q \in Nat /\ (k + 1) * q <= n * q
  BY <1>1, Multiples
<1>3. then = at + q + (IF r - k > 0 THEN 1 ELSE 0)
  BY <1>1, <1>2
<1>4. at \in Nat /\ then \in Nat /\ at <= then /\ then <= d
  BY <1>1, <1>2
<1>5. ASSUME k + 1 = n PROVE then = d
  <2>1. ~(k + 1 < r)
    BY <1>1, <1>5
  <2>2. then = n * q + r
    BY <1>5, <2>1
  <2> QED BY <1>1, <2>2
<1> QED BY <1>3, <1>4, <1>5 DEF q, r

\* The end of the next range, the cursor behind it, what is left to cut then.
NextStop == IF IsMap THEN DeltaStop(cursor) ELSE EvenStop(cursor)
NextCursor == IF IsMap THEN cursor + Quotient(n2 - n1, nw) ELSE EvenStop(cursor)
Rest == IF i + 1 < nw THEN NextCursor..(n2 - 1) ELSE {}

LEMMA CutProperties ==
    ASSUME args \in Ranges, i \in 0..(nw - 1), cursor = CursorAt(i),
           ~IsMap => n1 <= n2
    PROVE  /\ cursor \in Int /\ NextStop \in Int
           /\ NextCursor = CursorAt(i + 1)
           /\ cursor..(NextStop - 1) \subseteq n1..(n2 - 1)
           /\ cursor..(n2 - 1) = (cursor..(NextStop - 1)) \union Rest
           /\ (cursor..(NextStop - 1)) \intersect Rest = {}
<1> DEFINE stop == NextStop
           next == NextCursor
<1>0. /\ stop = IF IsMap THEN DeltaStop(cursor) ELSE EvenStop(cursor)
      /\ next = IF IsMap THEN cursor + Quotient(n2 - n1, nw) ELSE EvenStop(cursor)
      /\ Rest = IF i + 1 < nw THEN next..(n2 - 1) ELSE {}
  BY DEF NextStop, NextCursor, Rest
<1> HIDE DEF stop, next
<1>1. /\ n1 \in Nat /\ n2 \in Nat /\ nw \in Nat \ {0} /\ i \in Nat
      /\ i <= nw /\ i + 1 <= nw
  BY RangeType, WorkersType
<1>2. CASE ~IsMap
  <2> DEFINE d == n2 - n1
             q == d \div nw
             r == d % nw
             at == i * q + (IF i < r THEN i ELSE r)
             then == (i + 1) * q + (IF i + 1 < r THEN i + 1 ELSE r)
  <2>1. d \in Nat
    BY <1>1, <1>2
  <2>2. q \in Nat /\ r \in Nat
    <3> HIDE DEF d
    <3> QED BY <1>1, <2>1, Division
  <2>3. cursor = n1 + i * q + (IF i < r THEN i ELSE r)
    BY <1>2 DEF CursorAt
  <2>4. CursorAt(i + 1) = n1 + (i + 1) * q + (IF i + 1 < r THEN i + 1 ELSE r)
    BY <1>2 DEF CursorAt
  <2>5. stop = cursor + q + (IF r - i > 0 THEN 1 ELSE 0) /\ next = stop
    BY <1>0, <1>2 DEF EvenStop
  <2>6. /\ then = at + q + (IF r - i > 0 THEN 1 ELSE 0)
        /\ at \in Nat /\ then \in Nat
        /\ at <= then /\ then <= d
        /\ i + 1 = nw => then = d
    <3> HIDE DEF d
    <3> QED BY <1>1, <2>1, EvenCut
  <2>7. i * q \in Nat /\ (i + 1) * q \in Nat
    BY <1>1, <2>2, Multiples
  <2>8. cursor = n1 + at /\ CursorAt(i + 1) = n1 + then
    <3> HIDE DEF q, r
    <3> QED BY <1>1, <2>2, <2>3, <2>4, <2>7
  <2>9. /\ cursor \in Int /\ stop \in Int /\ n1 <= cursor /\ cursor <= stop
        /\ stop <= n2 /\ stop = CursorAt(i + 1) /\ (i + 1 = nw => stop = n2)
    <3> HIDE DEF q, r, at, then
    <3> QED BY <1>1, <2>2, <2>5, <2>6, <2>8
  <2>10. Rest = stop..(n2 - 1)
    BY <1>0, <1>1, <2>5, <2>9
  <2> HIDE DEF q, r, at, then
  <2>11. /\ cursor..(n2 - 1) = (cursor..(stop - 1)) \union Rest
         /\ (cursor..(stop - 1)) \intersect Rest = {}
    BY <1>1, <2>9, <2>10, SplitRange
  <2>12. cursor..(stop - 1) \subseteq n1..(n2 - 1)
    BY <1>1, <2>9
  <2> QED BY <2>5, <2>9, <2>11, <2>12 DEF stop, next
<1>3. CASE IsMap /\ n1 <= n2
  <2> DEFINE d == n2 - n1
             q == d \div nw
  <2>1. d \in Nat
    BY <1>1, <1>3
  <2>2. q \in Nat /\ nw * q <= d
    <3> HIDE DEF d
    <3> QED BY <1>1, <2>1, Division
  <2>3. Quotient(n2 - n1, nw) = q
    BY <2>1 DEF Quotient
  <2>4. /\ i * q \in Nat /\ (i + 1) * q \in Nat /\ (i + 1) * q = i * q + q
        /\ (i + 1) * q <= nw * q
    BY <1>1, <2>2, Multiples
  <2>5. cursor = n1 + i * q /\ next = cursor + q /\ CursorAt(i + 1) = n1 + (i + 1) * q
    BY <1>0, <1>3, <2>3 DEF CursorAt
  <2>6. stop = IF i = nw - 1 THEN n2 ELSE next
    BY <1>0, <1>3, <2>3, <2>5 DEF DeltaStop
  <2>7. /\ cursor \in Int /\ next \in Int /\ n1 <= cursor /\ cursor <= next
        /\ next <= n2 /\ next = CursorAt(i + 1)
    <3> HIDE DEF q
    <3> QED BY <1>1, <2>2, <2>4, <2>5
  <2>8. /\ stop \in Int /\ cursor <= stop /\ stop <= n2
        /\ Rest = stop..(n2 - 1)
    BY <1>0, <1>1, <2>6, <2>7
  <2>9. /\ cursor..(n2 - 1) = (cursor..(stop - 1)) \union Rest
        /\ (cursor..(stop - 1)) \intersect Rest = {}
        /\ cursor..(stop - 1) \subseteq n1..(n2 - 1)
    <3> HIDE DEF q
    <3> QED BY <1>1, <2>7, <2>8, SplitRange
  <2> QED BY <2>7, <2>8, <2>9 DEF stop, next
<1>4. CASE IsMap /\ n2 < n1
  <2> DEFINE d == n1 - n2
             q == d \div nw
  <2>1. d \in Nat /\ -(n2 - n1) = d /\ ~(n2 - n1 >= 0)
    BY <1>1, <1>4
  <2>2. q \in Nat /\ nw * q <= d
    <3> HIDE DEF d
    <3> QED BY <1>1, <2>1, Division
  <2>3. Quotient(n2 - n1, nw) = -q
    BY <2>1 DEF Quotient
  <2>4. /\ i * q \in Nat /\ (i + 1) * q \in Nat /\ (i + 1) * q = i * q + q
        /\ (i + 1) * q <= nw * q
        /\ i * (-q) = -(i * q) /\ (i + 1) * (-q) = -((i + 1) * q)
    <3>1. i + 1 \in Nat
      BY <1>1
    <3> HIDE DEF q
    <3> QED BY <1>1, <2>2, <3>1, Multiples, Zenon
  <2>5. /\ cursor = n1 + i * (-q) /\ next = cursor + (-q)
        /\ CursorAt(i + 1) = n1 + (i + 1) * (-q)
    BY <1>0, <1>4, <2>3 DEF CursorAt
  <2>6. stop = IF i = nw - 1 THEN n2 ELSE next
    BY <1>0, <1>4, <2>3, <2>5 DEF DeltaStop
  <2>7. /\ cursor \in Int /\ next \in Int /\ n2 <= next /\ next <= cursor
        /\ next = CursorAt(i + 1)
    <3>1. n1 - d = n2
      BY <1>1
    <3> HIDE DEF q, d
    <3> QED BY <1>1, <2>1, <2>2, <2>4, <2>5, <3>1
  <2>8. stop \in Int /\ stop <= cursor
    BY <1>1, <2>6, <2>7
  <2>9. cursor..(stop - 1) = {} /\ cursor..(n2 - 1) = {} /\ Rest = {}
    BY <1>0, <1>1, <2>7, <2>8
  <2> QED BY <2>7, <2>8, <2>9 DEF stop, next
<1> QED BY <1>1, <1>2, <1>3, <1>4

----------------------------------------------------------------------------
\* The merge.

LEMMA UpperBoundProperties ==
    ASSUME NEW s \in Seq(Nat), Increasing(s), NEW x \in Nat
    PROVE  /\ UpperBound(s, x) \in 0..Len(s)
           /\ \A k \in 1..Len(s) : k <= UpperBound(s, x) <=> s[k] <= x
<1> DEFINE B == {k \in DOMAIN s : s[k] <= x}
<1>1. Len(s) \in Nat /\ DOMAIN s = 1..Len(s) /\ \A k \in 1..Len(s) : s[k] \in Nat
  OBVIOUS
<1>2. /\ IsFiniteSet(1..Len(s)) /\ B \in SUBSET (1..Len(s))
      /\ Cardinality(1..Len(s)) = Len(s)
  BY <1>1, FS_Interval
<1>3. IsFiniteSet(B) /\ Cardinality(B) \in 0..Len(s)
  BY <1>1, <1>2, FS_Subset, FS_CardinalityType
<1>4. \A j, k \in 1..Len(s) : j < k => s[j] < s[k]
  BY <1>1 DEF Increasing
\* The elements not above x are the first ones.
<1>5. ASSUME NEW k \in 1..Len(s), s[k] <= x PROVE k <= Cardinality(B)
  <2>1. \A j \in 1..k : j \in 1..Len(s) /\ s[j] <= x
    BY <1>1, <1>4, <1>5
  <2>2. 1..k \in SUBSET B
    BY <1>1, <2>1
  <2>3. Cardinality(1..k) <= Cardinality(B)
    BY <1>3, <2>2, FS_Subset
  <2>4. Cardinality(1..k) = k
    BY <1>1, FS_Interval
  <2> QED BY <2>3, <2>4
<1>6. ASSUME NEW k \in 1..Len(s), ~(s[k] <= x) PROVE ~(k <= Cardinality(B))
  <2>1. ASSUME NEW j \in B PROVE j \in 1..(k - 1)
    <3>1. j \in 1..Len(s) /\ s[j] <= x /\ s[j] \in Nat /\ s[k] \in Nat
      BY <1>1, <2>1
    <3>2. ~(k <= j)
      BY <1>4, <1>6, <3>1
    <3> QED BY <3>1, <3>2
  <2>2. B \in SUBSET (1..(k - 1))
    BY <2>1
  <2>3. /\ IsFiniteSet(1..(k - 1)) /\ k \in Int /\ k >= 1
        /\ Cardinality(1..(k - 1)) = k - 1
    <3>1. k \in Int /\ k - 1 \in Int /\ k >= 1
      BY <1>1
    <3> QED BY <3>1, FS_Interval
  <2>4. Cardinality(B) <= k - 1
    BY <2>2, <2>3, FS_Subset
  <2> QED BY <1>3, <2>3, <2>4
<1> QED BY <1>3, <1>5, <1>6 DEF UpperBound

\* A sequence cut open behind its at-th element, with V in the gap.
LEMMA InsertProperties ==
    ASSUME NEW s \in Seq(Nat), NEW V \in Seq(Nat), NEW at \in 0..Len(s)
    PROVE  LET r == SubSeq(s, 1, at) \o V \o SubSeq(s, at + 1, Len(s))
           IN  /\ r \in Seq(Nat) /\ Len(r) = Len(s) + Len(V)
               /\ \A k \in 1..at : r[k] = s[k]
               /\ \A k \in 1..Len(V) : r[at + k] = V[k]
               /\ \A k \in (at + 1)..Len(s) : r[Len(V) + k] = s[k]
<1> DEFINE r == SubSeq(s, 1, at) \o V \o SubSeq(s, at + 1, Len(s))
           m == Len(s)
           n == Len(V)
           u == SubSeq(s, 1, at)
           v == SubSeq(s, at + 1, m)
           w == u \o V
<1>1. m \in Nat /\ n \in Nat /\ at \in Nat /\ at <= m /\ \A k \in 1..m : s[k] \in Nat
  OBVIOUS
<1>2. u \in Seq(Nat) /\ Len(u) = at /\ \A k \in 1..at : u[k] = s[k]
  BY <1>1
<1>3. v \in Seq(Nat) /\ Len(v) = m - at
  BY <1>1
<1>4. ASSUME NEW k \in (at + 1)..m PROVE v[k - at] = s[k]
  <2>1. /\ at + 1 \in Int /\ m \in Int /\ k - at \in 1..(m - (at + 1) + 1)
        /\ \A j \in (at + 1)..m : s[j] \in Nat
    BY <1>1
  <2>2. v[k - at] = s[(at + 1) + (k - at) - 1]
    BY <2>1, SubSeqProperties
  <2>3. (at + 1) + (k - at) - 1 = k
    BY <1>1
  <2> QED BY <2>2, <2>3
<1>5. V \in Seq(Nat) /\ Len(V) = n /\ r = w \o v
  OBVIOUS
<1> HIDE DEF m, n, u, v, r
<1>6. /\ w \in Seq(Nat) /\ Len(w) = at + n
      /\ \A k \in 1..(at + n) : w[k] = IF k <= at THEN u[k] ELSE V[k - at]
  BY <1>2, <1>5, ConcatProperties
<1> HIDE DEF w
<1>7. /\ r \in Seq(Nat) /\ Len(r) = (at + n) + (m - at)
      /\ \A k \in 1..((at + n) + (m - at)) :
            r[k] = IF k <= at + n THEN w[k] ELSE v[k - (at + n)]
  <2>1. /\ w \o v \in Seq(Nat) /\ Len(w \o v) = Len(w) + Len(v)
        /\ \A k \in 1..(Len(w) + Len(v)) :
              (w \o v)[k] = IF k <= Len(w) THEN w[k] ELSE v[k - Len(w)]
    BY <1>3, <1>6, ConcatProperties
  <2> QED BY <1>3, <1>5, <1>6, <2>1, Zenon
<1>8. (at + n) + (m - at) = m + n
  BY <1>1
<1>9. ASSUME NEW k \in 1..at PROVE r[k] = s[k]
  <2>1. k \in 1..(at + n) /\ k \in 1..(m + n) /\ k <= at + n /\ k <= at
    BY <1>1
  <2> QED BY <1>2, <1>6, <1>7, <1>8, <2>1
<1>10. ASSUME NEW k \in 1..n PROVE r[at + k] = V[k]
  <2>1. /\ at + k \in 1..(at + n) /\ at + k \in 1..(m + n) /\ at + k <= at + n
        /\ ~(at + k <= at) /\ (at + k) - at = k
    BY <1>1
  <2> QED BY <1>6, <1>7, <1>8, <2>1
<1>11. ASSUME NEW k \in (at + 1)..m PROVE r[n + k] = s[k]
  <2>1. /\ n + k \in 1..(m + n) /\ ~(n + k <= at + n)
        /\ (n + k) - (at + n) = k - at
    BY <1>1
  <2> QED BY <1>4, <1>7, <1>8, <2>1
<1>12. r \in Seq(Nat) /\ Len(r) = m + n
  BY <1>7, <1>8
<1> QED BY <1>9, <1>10, <1>11, <1>12 DEF m, n, r

\* The vector of a task goes into a gap of the results: nothing found so far
\* lies in the range of the task.
LEMMA MergeProperties ==
    ASSUME NEW s \in Seq(Nat), NEW V \in Seq(Nat), Increasing(s), Increasing(V),
           NEW a \in Int, NEW b \in Int,
           ToSet(V) \subseteq a..b, ToSet(s) \intersect (a..b) = {}
    PROVE  /\ Merge(s, V) \in Seq(Nat)
           /\ Increasing(Merge(s, V))
           /\ ToSet(Merge(s, V)) = ToSet(s) \union ToSet(V)
<1>1. CASE V = <<>>
  BY <1>1, ToSetOfEmpty DEF Merge
<1>2. CASE V # <<>>
  <2> DEFINE m == Len(s)
             n == Len(V)
             at == UpperBound(s, V[1])
             r == Merge(s, V)
  <2>1. /\ m \in Nat /\ n \in Nat /\ n >= 1
        /\ DOMAIN s = 1..m /\ DOMAIN V = 1..n
        /\ \A k \in 1..m : s[k] \in Nat
        /\ \A k \in 1..n : V[k] \in Nat
    BY <1>2
  <2>2. V[1] \in Nat
    BY <2>1
  <2>3. at \in 0..m /\ \A k \in 1..m : k <= at <=> s[k] <= V[1]
    BY <2>2, UpperBoundProperties
  <2>4. r = SubSeq(s, 1, at) \o V \o SubSeq(s, at + 1, m)
    BY <1>2 DEF Merge
  <2> HIDE DEF r, at
  <2>5. /\ r \in Seq(Nat) /\ Len(r) = m + n /\ DOMAIN r = 1..(m + n)
        /\ \A k \in 1..at : r[k] = s[k]
        /\ \A k \in 1..n : r[at + k] = V[k]
        /\ \A k \in (at + 1)..m : r[n + k] = s[k]
    <3>1. at \in 0..Len(s)
      BY <2>3
    <3>2. /\ r \in Seq(Nat) /\ Len(r) = Len(s) + Len(V)
          /\ \A k \in 1..at : r[k] = s[k]
          /\ \A k \in 1..Len(V) : r[at + k] = V[k]
          /\ \A k \in (at + 1)..Len(s) : r[Len(V) + k] = s[k]
      <4> DEFINE t == SubSeq(s, 1, at) \o V \o SubSeq(s, at + 1, Len(s))
      <4>1. /\ t \in Seq(Nat) /\ Len(t) = Len(s) + Len(V)
            /\ \A k \in 1..at : t[k] = s[k]
            /\ \A k \in 1..Len(V) : t[at + k] = V[k]
            /\ \A k \in (at + 1)..Len(s) : t[Len(V) + k] = s[k]
        BY <3>1, InsertProperties
      <4>2. r = t
        BY <2>4
      <4> HIDE DEF t
      <4> QED BY <4>1, <4>2
    <3>3. DOMAIN r = 1..Len(r)
      BY <3>2
    <3> QED BY <3>2, <3>3, Zenon
  \* An index of the result is of one of three kinds.
  <2>6. ASSUME NEW k \in 1..(m + n)
        PROVE  \/ k \in 1..at
               \/ \E p \in 1..n : k = at + p
               \/ \E p \in (at + 1)..m : k = n + p
    <3> HIDE DEF m, n
    <3>1. CASE k <= at
      BY <2>1, <2>3, <3>1
    <3>2. CASE at < k /\ k <= at + n
      <4>1. k - at \in 1..n /\ k = at + (k - at)
        BY <2>1, <2>3, <3>2
      <4> QED BY <4>1
    <3>3. CASE at + n < k
      <4>1. k - n \in (at + 1)..m /\ k = n + (k - n)
        BY <2>1, <2>3, <3>3
      <4> QED BY <4>1
    <3> QED BY <2>1, <2>3, <3>1, <3>2, <3>3
  <2>7. ASSUME NEW p \in 1..m, NEW q \in 1..n
        PROVE  IF p <= at THEN s[p] < V[q] ELSE V[q] < s[p]
    <3>1. V[q] \in a..b /\ V[1] \in a..b
      <4>1. q \in DOMAIN V /\ 1 \in DOMAIN V
        BY <2>1
      <4>2. V[q] \in ToSet(V) /\ V[1] \in ToSet(V)
        BY <4>1 DEF ToSet
      <4> QED BY <4>2
    <3>2. s[p] \notin a..b
      <4>1. s[p] \in ToSet(s)
        BY <2>1 DEF ToSet
      <4> QED BY <4>1
    <3>3. s[p] \in Int /\ (p <= at <=> s[p] <= V[1])
      BY <2>1, <2>3
    <3> HIDE DEF m, n
    <3> QED BY <3>1, <3>2, <3>3
  <2>8. ASSUME NEW j \in 1..(m + n), NEW k \in 1..(m + n), j < k PROVE r[j] < r[k]
    <3>1. /\ \A p, q \in 1..m : p < q => s[p] < s[q]
          /\ \A p, q \in 1..n : p < q => V[p] < V[q]
      BY <2>1 DEF Increasing
    <3>2. at \in Nat /\ at <= m /\ j \in Int /\ k \in Int
      BY <2>1, <2>3
    <3> HIDE DEF m, n
    <3>3. CASE j \in 1..at
      <4>1. r[j] = s[j] /\ j \in 1..m /\ j <= at
        BY <2>1, <2>5, <3>2, <3>3
      <4>2. ASSUME k \in 1..at PROVE r[j] < r[k]
        BY <2>1, <2>5, <2>8, <3>1, <3>2, <4>1, <4>2
      <4>3. ASSUME NEW q \in 1..n, k = at + q PROVE r[j] < r[k]
        BY <2>5, <2>7, <4>1, <4>3
      <4>4. ASSUME NEW q \in (at + 1)..m, k = n + q PROVE r[j] < r[k]
        <5>1. q \in 1..m /\ j < q /\ r[k] = s[q]
          BY <2>1, <2>5, <3>2, <4>1, <4>4
        <5> QED BY <3>1, <4>1, <5>1
      <4> QED BY <2>6, <4>2, <4>3, <4>4
    <3>4. ASSUME NEW p \in 1..n, j = at + p PROVE r[j] < r[k]
      <4>1. r[j] = V[p]
        BY <2>5, <3>4
      <4>2. k \notin 1..at
        BY <2>1, <2>8, <3>2, <3>4
      <4>3. ASSUME NEW q \in 1..n, k = at + q PROVE r[j] < r[k]
        <5>1. p < q /\ r[k] = V[q]
          BY <2>1, <2>5, <2>8, <3>2, <3>4, <4>3
        <5> QED BY <3>1, <4>1, <5>1
      <4>4. ASSUME NEW q \in (at + 1)..m, k = n + q PROVE r[j] < r[k]
        <5>1. q \in 1..m /\ ~(q <= at) /\ r[k] = s[q]
          BY <2>1, <2>5, <3>2, <4>4
        <5> QED BY <2>7, <4>1, <5>1
      <4> QED BY <2>6, <4>2, <4>3, <4>4
    <3>5. ASSUME NEW p \in (at + 1)..m, j = n + p PROVE r[j] < r[k]
      <4>1. r[j] = s[p] /\ p \in 1..m
        BY <2>1, <2>5, <3>2, <3>5
      <4>2. k \notin 1..at /\ \A q \in 1..n : k # at + q
        BY <2>1, <2>8, <3>2, <3>5
      <4>3. ASSUME NEW q \in (at + 1)..m, k = n + q PROVE r[j] < r[k]
        <5>1. p < q /\ q \in 1..m /\ r[k] = s[q]
          BY <2>1, <2>5, <2>8, <3>2, <3>5, <4>3
        <5> QED BY <3>1, <4>1, <5>1
      <4> QED BY <2>6, <4>2, <4>3
    <3> QED BY <2>6, <3>3, <3>4, <3>5
  <2>9. Increasing(r)
    BY <2>5, <2>8 DEF Increasing
  <2>10. ToSet(r) \subseteq ToSet(s) \union ToSet(V)
    <3>1. at \in Nat /\ at <= m
      BY <2>1, <2>3
    <3>2. ASSUME NEW k \in 1..(m + n)
          PROVE  (\E p \in 1..m : r[k] = s[p]) \/ (\E p \in 1..n : r[k] = V[p])
      <4> HIDE DEF m, n
      <4>1. 1..at \subseteq 1..m /\ (at + 1)..m \subseteq 1..m
        BY <2>1, <3>1
      <4> QED BY <2>5, <2>6, <4>1
    <3> QED BY <2>1, <2>5, <3>2 DEF ToSet
  <2>11. ToSet(s) \union ToSet(V) \subseteq ToSet(r)
    <3>1. at \in Nat /\ at <= m
      BY <2>1, <2>3
    <3>2. ASSUME NEW p \in 1..m PROVE \E k \in 1..(m + n) : r[k] = s[p]
      <4> HIDE DEF m, n
      <4>1. CASE p <= at
        <5>1. p \in 1..at /\ p \in 1..(m + n)
          BY <2>1, <3>1, <4>1
        <5> QED BY <2>5, <5>1
      <4>2. CASE p > at
        <5>1. p \in (at + 1)..m /\ n + p \in 1..(m + n)
          BY <2>1, <3>1, <4>2
        <5> QED BY <2>5, <5>1
      <4> QED BY <2>1, <3>1, <4>1, <4>2
    <3>3. ASSUME NEW p \in 1..n PROVE \E k \in 1..(m + n) : r[k] = V[p]
      <4> HIDE DEF m, n
      <4>1. at + p \in 1..(m + n)
        BY <2>1, <3>1
      <4> QED BY <2>5, <4>1
    <3> QED BY <2>1, <2>5, <3>2, <3>3 DEF ToSet
  <2>12. ToSet(r) = ToSet(s) \union ToSet(V)
    BY <2>10, <2>11
  <2> QED BY <2>5, <2>9, <2>12 DEF r
<1> QED BY <1>1, <1>2

----------------------------------------------------------------------------
\* The initial state and the steps.

LEMMA NoEosTask == EOS \notin TaskIds
BY EOSAssumption, WorkersType DEF TaskIds

LEMMA InitInv == ASSUME Init PROVE Inv
<1>1. /\ args \in Ranges /\ i = 0 /\ cursor = n1 /\ tasks = <<>> /\ results = <<>>
      /\ emitter = "constructor"
  BY DEF Init, FarmInit
<1>2. FarmInv(TaskIds)
  BY FarmInitInv DEF Init
<1>3. n1 \in Nat /\ n2 \in Nat /\ nw \in Nat /\ nw >= 1
  BY <1>1, RangeType, WorkersType
<1>4. CursorAt(0) = n1
  <2>1. CASE IsMap
    <3>1. 0 * Quotient(n2 - n1, nw) = 0
      <4>1. Quotient(n2 - n1, nw) \in Int
        BY <1>3 DEF Quotient
      <4> QED BY <4>1
    <3> QED BY <1>3, <2>1, <3>1 DEF CursorAt
  <2>2. CASE ~IsMap
    <3>1. (n2 - n1) \div nw \in Int /\ (n2 - n1) % nw \in 0..(nw - 1)
      BY <1>3
    <3>2. 0 * ((n2 - n1) \div nw) = 0
      BY <3>1
    <3> QED BY <1>3, <2>2, <3>1, <3>2 DEF CursorAt
  <2> QED BY <2>1, <2>2
<1>5. Loop
  BY <1>1, <1>3, <1>4 DEF Loop
<1>6. DOMAIN tasks = {} /\ DOMAIN results = {} /\ ToSet(results) = {}
  BY <1>1, ToSetOfEmpty
<1>7. Heap
  BY <1>1, <1>6 DEF Heap
<1>8. Tiling
  <2>1. OnHeap = {} /\ Remaining = n1..(n2 - 1)
    BY <1>1, <1>3, <1>6 DEF OnHeap, Remaining
  <2> QED BY <1>6, <2>1 DEF Tiling, Wanted
<1>9. Sorted
  BY <1>6 DEF Sorted, Increasing
<1>10. Ownership
  <2>1. /\ \A w \in Workers : toWorker[w] = <<>> /\ toEmitter[w] = <<>>
        /\ DOMAIN toWorker = Workers /\ DOMAIN toEmitter = Workers
    BY DEF Init, FarmInit
  <2>2. In(toWorker) = {} /\ In(toEmitter) = {}
    BY <2>1, ToSetOfEmpty DEF In
  <2>3. NoCopies(toWorker) /\ NoCopies(toEmitter)
    BY <2>1 DEF NoCopies
  <2> QED BY <1>6, <2>2, <2>3 DEF Ownership
<1> QED BY <1>1, <1>2, <1>5, <1>7, <1>8, <1>9, <1>10 DEF Inv

\* Steps that leave the tasks and the results alone and move marks only.
LEMMA QuietInv ==
    ASSUME Inv, UNCHANGED mainVars,
           In(toWorker') = In(toWorker), In(toEmitter') = In(toEmitter),
           NoCopies(toWorker'), NoCopies(toEmitter')
    PROVE  Heap' /\ Tiling' /\ Sorted' /\ Ownership'
<1> USE DEF mainVars, Inv
<1>1. UNCHANGED <<n1, n2, Wanted, Remaining, OnHeap>>
  BY DEF n1, n2, Wanted, Remaining, OnHeap, Span
<1>2. \A t \in DOMAIN tasks : Span(t)' = Span(t)
  BY DEF Span
<1>3. Heap'
  BY <1>1, <1>2 DEF Heap
<1>4. Tiling'
  BY <1>1, <1>2 DEF Tiling
<1>5. Sorted'
  BY DEF Sorted
<1>6. Ownership'
  BY <1>2 DEF Ownership
<1> QED BY <1>3, <1>4, <1>5, <1>6

LEMMA LoopQuiet ==
    ASSUME Inv, UNCHANGED mainVars,
           emitter' \in {"constructor", "aborted"} =>
              emitter \in {"constructor", "aborted"},
           emitter' = "send" => emitter \in {"constructor", "send"},
           emitter' \notin {"constructor", "aborted", "send"} => i = nw,
           emitter' \notin {"constructor", "aborted"} /\ ~IsMap => n1 <= n2
    PROVE  Loop'
BY DEF Inv, Loop, mainVars, CursorAt, IsMap, n1, n2

LEMMA ConstructInv == ASSUME Inv, Construct PROVE Inv'
<1>1. PICK outcome \in (IF IsMap THEN {"ok"} ELSE reserve(n1, n2)) :
          IF outcome = "ok" THEN Run ELSE Abort
  BY DEF Construct
<1>2. Run \/ Abort
  BY <1>1
<1>3. UNCHANGED <<mainVars, toWorker, toEmitter>> /\ emitter = "constructor"
  BY <1>2 DEF Construct, Run, Abort
<1>4. FarmInv(TaskIds)'
  BY <1>2, RunInv DEF Inv
<1>5. ASSUME emitter' \notin {"constructor", "aborted"}, ~IsMap PROVE n1 <= n2
  <2>1. outcome = "ok"
    BY <1>1, <1>5 DEF Abort
  <2>2. "ok" \in reserve(n1, n2)
    BY <1>1, <1>5, <2>1
  <2>3. n1 \in Nat /\ n2 \in Nat /\ (n2 < n1 => n1 > 2)
    BY <1>5, RangeType DEF Inv
  <2> QED BY <2>2, <2>3 DEF reserve
<1>6. emitter' \in {"send", "aborted"}
  BY <1>2 DEF Run, Abort
<1>7. Loop'
  BY <1>3, <1>5, <1>6, LoopQuiet
<1>8. Heap' /\ Tiling' /\ Sorted' /\ Ownership'
  BY <1>3, QuietInv DEF Inv, Ownership
<1> QED BY <1>3, <1>4, <1>7, <1>8 DEF Inv, mainVars

\* A new task, for the next range.
LEMMA NewTaskInv ==
    ASSUME Inv, i < nw, NEW w \in Workers, SendOut(w, i),
           tasks' = New(cursor, NextStop), cursor' = NextCursor,
           i' = i + 1, UNCHANGED <<args, results>>
    PROVE  Inv'
<1>1. /\ args \in Ranges /\ FarmInv(TaskIds) /\ Loop /\ Heap
      /\ Tiling /\ Sorted /\ Ownership
      /\ toWorker \in ChannelsOf(Workers, TaskIds \union {EOS})
  BY FarmFacts DEF Inv, FarmTypeOK
<1>2. /\ emitter = "send" /\ UNCHANGED <<emitter, toEmitter>>
      /\ toWorker' = Put(toWorker, w, i)
  BY DEF SendOut
<1>3. /\ n1 \in Nat /\ n2 \in Nat /\ nw \in Nat /\ i \in 0..(nw - 1) /\ i \in TaskIds
      /\ i # EOS /\ i + 1 \in 0..nw
  BY <1>1, RangeType, WorkersType, NoEosTask DEF Loop, TaskIds
<1>4. UNCHANGED <<n1, n2, IsMap, Wanted>>
  BY DEF n1, n2, IsMap, Wanted
<1> DEFINE new == cursor..(NextStop - 1)
<1>5. /\ cursor \in Int /\ NextStop \in Int /\ cursor' = CursorAt(i + 1)
      /\ new \subseteq n1..(n2 - 1)
      /\ Remaining = new \union Remaining'
      /\ new \intersect Remaining' = {}
  <2>1. ~IsMap => n1 <= n2
    BY <1>1, <1>2 DEF Loop
  <2>2. Remaining = cursor..(n2 - 1)
    BY DEF Remaining
  <2>3. Remaining' = Rest
    BY <1>4 DEF Remaining, Rest
  <2>4. cursor = CursorAt(i)
    BY <1>1 DEF Loop
  <2> QED BY <1>1, <1>3, <2>1, <2>2, <2>3, <2>4, CutProperties
<1>6. FarmInv(TaskIds)'
  BY <1>1, <1>3, NoEosTask, SendOutInv
<1>7. Loop'
  <2>1. CursorAt(i)' = CursorAt(i + 1)
    BY <1>4 DEF CursorAt
  <2> QED BY <1>1, <1>2, <1>3, <1>4, <1>5, <2>1 DEF Loop
<1>8. /\ i \notin DOMAIN tasks
      /\ DOMAIN tasks' = DOMAIN tasks \union {i}
      /\ \A t \in DOMAIN tasks : tasks'[t] = tasks[t] /\ Span(t)' = Span(t)
      /\ tasks'[i] = [n1 |-> cursor, n2 |-> NextStop, V |-> <<>>]
  <2>1. i \notin DOMAIN tasks
    BY <1>1, <1>3 DEF Heap
  <2> QED BY <2>1 DEF New, Span
<1>9. \A t : t = i => Span(t)' = new
  BY <1>8 DEF Span
<1> HIDE DEF new
<1>10. OnHeap' = OnHeap \union new
  <2>1. OnHeap' = UNION {Span(t)' : t \in DOMAIN tasks'}
    BY DEF OnHeap
  <2>2. OnHeap = UNION {Span(t)' : t \in DOMAIN tasks}
    BY <1>8 DEF OnHeap
  <2> QED BY <1>8, <1>9, <2>1, <2>2
<1>11. Heap'
  <2>1. Increasing(<<>>) /\ <<>> \in Seq(Nat)
    BY DEF Increasing
  <2>2. ASSUME NEW t \in DOMAIN tasks'
        PROVE  /\ t \in TaskIds /\ t < i'
               /\ tasks'[t] \in [n1 : Int, n2 : Int, V : Seq(Nat)]
               /\ Span(t)' \subseteq n1'..(n2' - 1)
               /\ Increasing(tasks'[t].V)
    <3>1. CASE t = i
      <4>1. /\ tasks'[t] \in [n1 : Int, n2 : Int, V : Seq(Nat)]
            /\ tasks'[t].V = <<>>
        <5>1. tasks'[t] = [n1 |-> cursor, n2 |-> NextStop, V |-> <<>>]
          BY <1>8, <3>1
        <5> QED BY <1>5, <2>1, <5>1
      <4>2. Span(t)' \subseteq n1'..(n2' - 1)
        BY <1>4, <1>5, <1>9, <3>1
      <4>3. t \in TaskIds /\ t < i'
        BY <1>3, <3>1
      <4> QED BY <2>1, <4>1, <4>2, <4>3
    <3>2. CASE t # i
      <4>1. /\ t \in DOMAIN tasks /\ tasks'[t] = tasks[t] /\ Span(t)' = Span(t)
            /\ t \in TaskIds /\ t < i /\ Span(t) \subseteq n1..(n2 - 1)
            /\ tasks[t] \in [n1 : Int, n2 : Int, V : Seq(Nat)]
            /\ Increasing(tasks[t].V)
        BY <1>1, <1>8, <3>2 DEF Heap
      <4>2. t < i'
        BY <1>3, <4>1 DEF TaskIds
      <4> QED BY <1>4, <4>1, <4>2
    <3> QED BY <3>1, <3>2
  <2> QED BY <1>1, <1>4, <2>2 DEF Heap
<1>12. Tiling'
  <2>1. OnHeap' \union Remaining' = OnHeap \union Remaining
    BY <1>5, <1>10
  <2>2. ToSet(results) = {}
    BY <1>1, <1>2, ToSetOfEmpty DEF Loop
  <2>3. OnHeap \intersect Remaining = {}
    BY <1>1 DEF Tiling
  <2>4. OnHeap' \intersect (Remaining' \union ToSet(results)) = {}
    BY <1>5, <1>10, <2>2, <2>3
  <2>5. ASSUME NEW t \in DOMAIN tasks', NEW u \in DOMAIN tasks', t # u
        PROVE  Span(t)' \intersect Span(u)' = {}
    <3>1. ASSUME NEW v \in DOMAIN tasks PROVE Span(v) \intersect new = {}
      <4>1. Span(v) \subseteq OnHeap
        BY DEF OnHeap
      <4> QED BY <1>5, <2>3, <4>1
    <3>2. CASE t = i
      BY <1>8, <1>9, <2>5, <3>1, <3>2
    <3>3. CASE u = i
      BY <1>8, <1>9, <2>5, <3>1, <3>3
    <3>4. CASE t # i /\ u # i
      BY <1>1, <1>8, <2>5, <3>4 DEF Tiling
    <3> QED BY <3>2, <3>3, <3>4
  <2>6. {n \in OnHeap' \union Remaining' \union ToSet(results) : Prime(n)} = Wanted
    BY <1>1, <2>1 DEF Tiling
  <2> QED BY <1>4, <2>4, <2>5, <2>6 DEF Tiling
<1>13. Sorted'
  BY <1>1 DEF Sorted
<1>14. Ownership'
  <2>1. /\ In(toWorker) \union In(toEmitter) = DOMAIN tasks
        /\ In(toWorker) \intersect In(toEmitter) = {}
        /\ NoCopies(toWorker) /\ NoCopies(toEmitter)
        /\ \A t \in In(toEmitter) : ToSet(tasks[t].V) = {n \in Span(t) : Prime(n)}
    BY <1>1 DEF Ownership
  <2>2. i \in TaskIds \union {EOS} /\ i \notin In(toWorker) /\ i \notin In(toEmitter)
    BY <1>3, <1>8, <2>1
  <2>3. NoCopies(toWorker')
    BY <1>1, <1>2, <2>1, <2>2, PutNoCopies
  <2>4. In(toWorker') = In(toWorker) \union {i}
    <3>1. In(toWorker') = In(toWorker) \union ({i} \ {EOS})
      BY <1>1, <1>2, <2>2, PutProperties
    <3> QED BY <1>3, <3>1
  <2>5. \A t \in In(toEmitter) : ToSet(tasks'[t].V) = {n \in Span(t)' : Prime(n)}
    BY <1>8, <2>1
  <2> QED BY <1>2, <1>8, <2>1, <2>2, <2>3, <2>4, <2>5 DEF Ownership
<1> QED BY <1>1, <1>6, <1>7, <1>11, <1>12, <1>13, <1>14 DEF Inv

LEMMA SendEvenInv == ASSUME Inv, SendEven PROVE Inv'
<1>1. /\ ~IsMap /\ i < nw /\ i \in 0..nw /\ nw \in Nat /\ Workers = 0..(nw - 1)
      /\ SendOut(i, i)
  BY WorkersType DEF SendEven, Inv, Loop
<1>2. i \in Workers
  BY <1>1
<1>3. NextStop = EvenStop(cursor) /\ NextCursor = EvenStop(cursor)
  BY <1>1 DEF NextStop, NextCursor
<1>4. /\ tasks' = New(cursor, NextStop) /\ cursor' = NextCursor /\ i' = i + 1
      /\ UNCHANGED <<args, results>>
  BY <1>3 DEF SendEven
<1> QED BY <1>1, <1>2, <1>4, NewTaskInv

LEMMA SendDeltaInv == ASSUME Inv, SendDelta PROVE Inv'
<1>1. PICK w \in Workers : SendOut(w, i)
  BY DEF SendDelta
<1>2. IsMap /\ i < nw
  BY DEF SendDelta
<1>3. NextStop = DeltaStop(cursor) /\ NextCursor = cursor + Quotient(n2 - n1, nw)
  BY <1>2 DEF NextStop, NextCursor
<1>4. /\ tasks' = New(cursor, NextStop) /\ cursor' = NextCursor /\ i' = i + 1
      /\ UNCHANGED <<args, results>>
  BY <1>3 DEF SendDelta
<1> QED BY <1>1, <1>2, <1>4, NewTaskInv

LEMMA EndLoopInv == ASSUME Inv, EndLoop PROVE Inv'
<1>1. /\ i = nw /\ emitter = "send" /\ emitter' = "broadcast"
      /\ UNCHANGED <<mainVars, toWorker, toEmitter>>
  BY DEF EndLoop, EndSend
<1>2. FarmInv(TaskIds)'
  BY EndSendInv DEF Inv, EndLoop
<1>3. Loop'
  BY <1>1, LoopQuiet DEF Inv, Loop
<1>4. Heap' /\ Tiling' /\ Sorted' /\ Ownership'
  BY <1>1, QuietInv DEF Inv, Ownership
<1> QED BY <1>1, <1>2, <1>3, <1>4 DEF Inv, mainVars

LEMMA BroadcastEosInv ==
    ASSUME Inv, NEW w \in Workers, BroadcastEos(w)
    PROVE  Inv'
<1>1. /\ FarmInv(TaskIds) /\ Loop /\ Ownership
      /\ toWorker \in ChannelsOf(Workers, TaskIds \union {EOS})
  BY FarmFacts DEF Inv, FarmTypeOK
<1>2. /\ emitter = "broadcast" /\ emitter' \in {"broadcast", "collect"}
      /\ toWorker' = Put(toWorker, w, EOS)
      /\ UNCHANGED <<mainVars, toEmitter>>
  BY DEF BroadcastEos, Broadcast
<1>3. FarmInv(TaskIds)'
  BY <1>1, BroadcastInv DEF BroadcastEos
<1>4. In(toWorker') = In(toWorker)
  <2>1. In(toWorker') = In(toWorker) \union ({EOS} \ {EOS})
    BY <1>1, <1>2, PutProperties, EOS \in TaskIds \union {EOS}
  <2> QED BY <2>1
<1>5. NoCopies(toWorker')
  <2>1. EOS \notin In(toWorker)
    BY DEF In
  <2> QED BY <1>1, <1>2, <2>1, PutNoCopies, EOS \in TaskIds \union {EOS} DEF Ownership
<1>6. Loop'
  BY <1>1, <1>2, LoopQuiet DEF Loop
<1>7. Heap' /\ Tiling' /\ Sorted' /\ Ownership'
  BY <1>1, <1>2, <1>4, <1>5, QuietInv DEF Ownership
<1> QED BY <1>2, <1>3, <1>6, <1>7 DEF Inv, mainVars

LEMMA CloseChannelMainInv ==
    ASSUME Inv, NEW w \in Workers, CloseChannel(w), UNCHANGED mainVars
    PROVE  Inv'
<1>1. /\ FarmInv(TaskIds) /\ Loop /\ Ownership
      /\ toEmitter \in ChannelsOf(Workers, TaskIds \union {EOS})
  BY FarmFacts DEF Inv, FarmTypeOK
<1>2. /\ emitter = "collect" /\ emitter' \in {"collect", "ended"}
      /\ toEmitter' = Drop(toEmitter, w) /\ toWorker' = toWorker
      /\ Waiting(toEmitter, w) /\ Head(toEmitter[w]) = EOS
  BY DEF CloseChannel
<1>3. FarmInv(TaskIds)'
  BY <1>1, CloseChannelInv
<1>4. In(toEmitter') = In(toEmitter)
  <2>1. In(toEmitter) = In(toEmitter') \union ({Head(toEmitter[w])} \ {EOS})
    BY <1>1, <1>2, DropProperties
  <2> QED BY <1>2, <2>1
<1>5. NoCopies(toEmitter')
  BY <1>1, <1>2, DropNoCopies DEF Ownership
<1>6. Loop'
  BY <1>1, <1>2, LoopQuiet DEF Loop
<1>7. Heap' /\ Tiling' /\ Sorted' /\ Ownership'
  BY <1>1, <1>2, <1>4, <1>5, QuietInv DEF Ownership
<1> QED BY <1>3, <1>6, <1>7 DEF Inv, mainVars

LEMMA EndWorkerMainInv ==
    ASSUME Inv, NEW w \in Workers, EndWorker(w), UNCHANGED mainVars
    PROVE  Inv'
<1>1. /\ FarmInv(TaskIds) /\ Loop /\ Ownership
      /\ toWorker \in ChannelsOf(Workers, TaskIds \union {EOS})
      /\ toEmitter \in ChannelsOf(Workers, TaskIds \union {EOS})
  BY FarmFacts DEF Inv, FarmTypeOK
<1>2. /\ toWorker' = Drop(toWorker, w) /\ toEmitter' = Put(toEmitter, w, EOS)
      /\ Waiting(toWorker, w) /\ Head(toWorker[w]) = EOS /\ emitter' = emitter
  BY DEF EndWorker
<1>3. FarmInv(TaskIds)'
  BY <1>1, EndWorkerInv
<1>4. In(toWorker') = In(toWorker)
  <2>1. In(toWorker) = In(toWorker') \union ({Head(toWorker[w])} \ {EOS})
    BY <1>1, <1>2, DropProperties
  <2> QED BY <1>2, <2>1
<1>5. In(toEmitter') = In(toEmitter)
  <2>1. In(toEmitter') = In(toEmitter) \union ({EOS} \ {EOS})
    BY <1>1, <1>2, PutProperties, EOS \in TaskIds \union {EOS}
  <2> QED BY <2>1
<1>6. NoCopies(toWorker') /\ NoCopies(toEmitter')
  <2>1. EOS \notin In(toEmitter)
    BY DEF In
  <2> QED BY <1>1, <1>2, <2>1, DropNoCopies, PutNoCopies,
             EOS \in TaskIds \union {EOS} DEF Ownership
<1>7. Loop'
  BY <1>1, <1>2, LoopQuiet DEF Loop
<1>8. Heap' /\ Tiling' /\ Sorted' /\ Ownership'
  BY <1>4, <1>5, <1>6, QuietInv
<1> QED BY <1>3, <1>7, <1>8 DEF Inv, mainVars

LEMMA StutterInv == ASSUME Inv, UNCHANGED vars PROVE Inv'
<1>1. UNCHANGED <<mainVars, emitter, toWorker, toEmitter>>
  BY DEF vars, farmVars
<1>2. FarmInv(TaskIds)'
  BY FarmStutterInv DEF Inv, vars
<1>3. Loop'
  BY <1>1, LoopQuiet DEF Inv, Loop
<1>4. Heap' /\ Tiling' /\ Sorted' /\ Ownership'
  BY <1>1, QuietInv DEF Inv, Ownership
<1> QED BY <1>1, <1>2, <1>3, <1>4 DEF Inv, mainVars

\* A worker fills the vector of its task with the primes of the task's range.
LEMMA WorkInv == ASSUME Inv, NEW w \in Workers, Work(w) PROVE Inv'
<1>1. /\ args \in Ranges /\ FarmInv(TaskIds) /\ Loop /\ Heap
      /\ Tiling /\ Sorted /\ Ownership
      /\ toWorker \in ChannelsOf(Workers, TaskIds \union {EOS})
      /\ toEmitter \in ChannelsOf(Workers, TaskIds \union {EOS})
  BY FarmFacts DEF Inv, FarmTypeOK
<1>2. PICK t \in Arrived(toWorker, w) :
          /\ Svc(w, t, TRUE)
          /\ tasks' = [tasks EXCEPT ![t].V = PrimesIn(Span(t))]
  BY DEF Work
<1>3. /\ toWorker' = Drop(toWorker, w) /\ toEmitter' = Put(toEmitter, w, t)
      /\ UNCHANGED <<args, i, cursor, results, emitter>>
  BY <1>2 DEF Work, Svc
<1>4. /\ t \in TaskIds \union {EOS} /\ t # EOS /\ t \in In(toWorker)
      /\ Waiting(toWorker, w) /\ Head(toWorker[w]) = t
  BY <1>1, ArrivedProperties
<1>5. t \in DOMAIN tasks /\ tasks[t] \in [n1 : Int, n2 : Int, V : Seq(Nat)]
  BY <1>1, <1>4 DEF Ownership, Heap
<1>6. UNCHANGED <<n1, n2, Wanted, Remaining>> /\ n1 \in Nat /\ n2 \in Nat
  BY <1>1, <1>3, RangeType DEF n1, n2, Wanted, Remaining
<1> DEFINE P == {n \in Span(t) : Prime(n)}
           V == PrimesIn(Span(t))
<1>7. V \in Seq(Nat) /\ Increasing(V) /\ ToSet(V) = P
  <2>1. /\ Span(t) \subseteq n1..(n2 - 1)
        /\ tasks[t].n1 \in Int /\ tasks[t].n2 \in Int
    BY <1>1, <1>5 DEF Heap
  <2>2. Span(t) \subseteq Nat
    BY <1>6, <2>1
  <2>3. IsFiniteSet(Span(t))
    BY <2>1, FS_Interval DEF Span
  <2>4. /\ V \in [1..Cardinality(P) -> P] /\ Cardinality(P) \in Nat
        /\ Increasing(V) /\ {V[k] : k \in DOMAIN V} = P
    BY <2>2, <2>3, PrimesInOrder
  <2> HIDE DEF V
  <2>5. P \subseteq Nat
    BY <2>2
  <2> HIDE DEF P
  <2>6. V \in Seq(Nat)
    <3> DEFINE n == Cardinality(P)
    <3>1. n \in Nat /\ V \in [1..n -> P]
      BY <2>4
    <3> HIDE DEF n
    <3>2. V \in [1..n -> Nat]
      BY <2>5, <3>1
    <3> QED BY <3>1, <3>2
  <2> QED BY <2>4, <2>6 DEF ToSet
<1> HIDE DEF V
<1>8. /\ DOMAIN tasks' = DOMAIN tasks
      /\ \A u \in DOMAIN tasks \ {t} : tasks'[u] = tasks[u]
      /\ tasks'[t] \in [n1 : Int, n2 : Int, V : Seq(Nat)]
      /\ tasks'[t].n1 = tasks[t].n1 /\ tasks'[t].n2 = tasks[t].n2
      /\ tasks'[t].V = V
  BY <1>2, <1>5, <1>7 DEF V
<1>9. \A u \in DOMAIN tasks : Span(u)' = Span(u)
  BY <1>8 DEF Span
<1>10. OnHeap' = OnHeap
  BY <1>8, <1>9 DEF OnHeap
<1>11. FarmInv(TaskIds)'
  BY <1>1, <1>2, SvcInv
<1>12. Loop'
  BY <1>1, <1>3 DEF Loop, CursorAt, IsMap, n1, n2
<1>13. Heap'
  <2>1. ASSUME NEW u \in DOMAIN tasks'
        PROVE  /\ u \in TaskIds /\ u < i'
               /\ tasks'[u] \in [n1 : Int, n2 : Int, V : Seq(Nat)]
               /\ Span(u)' \subseteq n1'..(n2' - 1)
               /\ Increasing(tasks'[u].V)
    <3>1. /\ u \in TaskIds /\ u < i' /\ Span(u)' \subseteq n1'..(n2' - 1)
          /\ tasks[u] \in [n1 : Int, n2 : Int, V : Seq(Nat)]
          /\ Increasing(tasks[u].V)
      BY <1>1, <1>3, <1>6, <1>8, <1>9 DEF Heap
    <3>2. CASE u = t
      BY <1>7, <1>8, <3>1, <3>2
    <3>3. CASE u # t
      BY <1>8, <3>1, <3>3
    <3> QED BY <3>2, <3>3
  <2> QED BY <1>1, <1>3, <1>6, <2>1 DEF Heap
<1>14. Tiling'
  BY <1>1, <1>3, <1>6, <1>8, <1>9, <1>10 DEF Tiling
<1>15. Sorted'
  BY <1>1, <1>3 DEF Sorted
<1>16. Ownership'
  <2>1. In(toWorker) = In(toWorker') \union {t} /\ t \notin In(toWorker')
    <3>1. In(toWorker) = In(toWorker') \union ({Head(toWorker[w])} \ {EOS})
      BY <1>1, <1>3, <1>4, DropProperties
    <3>2. Head(toWorker[w]) \notin In(toWorker')
      BY <1>1, <1>3, <1>4, DropNoCopies DEF Ownership
    <3> QED BY <1>4, <3>1, <3>2
  <2>2. NoCopies(toWorker')
    BY <1>1, <1>3, <1>4, DropNoCopies DEF Ownership
  <2>3. t \notin In(toEmitter)
    BY <1>1, <1>4 DEF Ownership
  <2>4. In(toEmitter') = In(toEmitter) \union {t}
    <3>1. In(toEmitter') = In(toEmitter) \union ({t} \ {EOS})
      BY <1>1, <1>3, <1>4, PutProperties
    <3> QED BY <1>4, <3>1
  <2>5. NoCopies(toEmitter')
    BY <1>1, <1>3, <1>4, <2>3, PutNoCopies DEF Ownership
  <2>6. ASSUME NEW u \in In(toEmitter')
        PROVE  ToSet(tasks'[u].V) = {n \in Span(u)' : Prime(n)}
    <3>1. CASE u = t
      <4>1. Span(u)' = Span(t)
        BY <1>5, <1>9, <3>1
      <4>2. ToSet(tasks'[u].V) = P
        BY <1>7, <1>8, <3>1
      <4> QED BY <4>1, <4>2
    <3>2. CASE u # t
      <4>1. u \in In(toEmitter) /\ u \in DOMAIN tasks
        BY <1>1, <2>4, <3>2 DEF Ownership
      <4>2. tasks'[u] = tasks[u] /\ Span(u)' = Span(u)
        BY <1>8, <1>9, <3>2, <4>1
      <4> QED BY <1>1, <4>1, <4>2 DEF Ownership
    <3> QED BY <3>1, <3>2
  <2>7. /\ In(toWorker') \union In(toEmitter') = DOMAIN tasks'
        /\ In(toWorker') \intersect In(toEmitter') = {}
    BY <1>1, <1>8, <2>1, <2>3, <2>4 DEF Ownership
  <2> QED BY <2>2, <2>5, <2>6, <2>7 DEF Ownership
<1> QED BY <1>1, <1>3, <1>11, <1>12, <1>13, <1>14, <1>15, <1>16 DEF Inv

\* The emitter takes a task back: its numbers leave the heap, its primes go to
\* the results, into a gap of them.
LEMMA CollectInv ==
    ASSUME Inv, NEW w \in Workers, Collect(w)
    PROVE  /\ Inv'
           /\ ToSet(results) \subseteq ToSet(results')
           /\ UNCHANGED <<args, emitter>> /\ emitter = "collect"
<1>1. /\ args \in Ranges /\ FarmInv(TaskIds) /\ Loop /\ Heap
      /\ Tiling /\ Sorted /\ Ownership
      /\ toEmitter \in ChannelsOf(Workers, TaskIds \union {EOS})
  BY FarmFacts DEF Inv, FarmTypeOK
<1>2. PICK t \in Arrived(toEmitter, w) :
          /\ Feedback(w, t)
          /\ results' = Merge(results, tasks[t].V)
          /\ tasks' = Restrict(tasks, DOMAIN tasks \ {t})
  BY DEF Collect
<1>3. /\ emitter = "collect" /\ toEmitter' = Drop(toEmitter, w)
      /\ UNCHANGED <<args, i, cursor, emitter, toWorker>>
  BY <1>2 DEF Collect, Feedback
<1>4. /\ t # EOS /\ t \in In(toEmitter)
      /\ Waiting(toEmitter, w) /\ Head(toEmitter[w]) = t
  BY <1>1, ArrivedProperties
<1>5. /\ t \in DOMAIN tasks /\ tasks[t] \in [n1 : Int, n2 : Int, V : Seq(Nat)]
      /\ Span(t) \subseteq n1..(n2 - 1) /\ Span(t) \subseteq OnHeap
      /\ Increasing(tasks[t].V)
      /\ ToSet(tasks[t].V) = {n \in Span(t) : Prime(n)}
  BY <1>1, <1>4 DEF Ownership, Heap, OnHeap
<1>6. UNCHANGED <<n1, n2, Wanted, Remaining>>
  BY <1>3 DEF n1, n2, Wanted, Remaining
<1>7. /\ results' \in Seq(Nat) /\ Increasing(results')
      /\ ToSet(results') = ToSet(results) \union ToSet(tasks[t].V)
  <2>1. /\ tasks[t].n1 \in Int /\ tasks[t].n2 - 1 \in Int
        /\ Span(t) = tasks[t].n1..(tasks[t].n2 - 1)
    BY <1>5 DEF Span
  <2>2. ToSet(results) \intersect Span(t) = {}
    BY <1>1, <1>5 DEF Tiling
  <2>3. results \in Seq(Nat) /\ Increasing(results) /\ tasks[t].V \in Seq(Nat)
    BY <1>1, <1>5 DEF Heap, Sorted
  <2> DEFINE V == tasks[t].V
             a == tasks[t].n1
             b == tasks[t].n2 - 1
             r == Merge(results, V)
  <2>4. /\ V \in Seq(Nat) /\ Increasing(V) /\ a \in Int /\ b \in Int
        /\ ToSet(V) \subseteq a..b /\ ToSet(results) \intersect (a..b) = {}
    BY <1>5, <2>1, <2>2, <2>3
  <2>5. results' = r
    BY <1>2
  <2> HIDE DEF V, a, b
  <2>6. r \in Seq(Nat) /\ Increasing(r) /\ ToSet(r) = ToSet(results) \union ToSet(V)
    BY <2>3, <2>4, MergeProperties
  <2> HIDE DEF r
  <2> QED BY <2>5, <2>6 DEF V
<1>8. /\ DOMAIN tasks' = DOMAIN tasks \ {t}
      /\ \A u \in DOMAIN tasks \ {t} : tasks'[u] = tasks[u] /\ Span(u)' = Span(u)
  BY <1>2 DEF Restrict, Span
<1>9. OnHeap = OnHeap' \union Span(t) /\ OnHeap' \intersect Span(t) = {}
  <2>1. OnHeap' = UNION {Span(u) : u \in DOMAIN tasks \ {t}}
    <3>1. OnHeap' = UNION {Span(u)' : u \in DOMAIN tasks'}
      BY DEF OnHeap
    <3> QED BY <1>8, <3>1
  <2>2. OnHeap = UNION {Span(u) : u \in DOMAIN tasks}
    BY DEF OnHeap
  <2>3. \A u \in DOMAIN tasks \ {t} : Span(u) \intersect Span(t) = {}
    BY <1>1, <1>5 DEF Tiling
  <2> QED BY <1>5, <2>1, <2>2, <2>3
<1>10. FarmInv(TaskIds)'
  BY <1>1, <1>2, FeedbackInv
<1>11. Loop'
  BY <1>1, <1>3 DEF Loop, CursorAt, IsMap, n1, n2
<1>12. Heap'
  <2>1. ToSet(results') \subseteq Wanted
    BY <1>1, <1>5, <1>7 DEF Heap, Wanted
  <2>2. ASSUME NEW u \in DOMAIN tasks'
        PROVE  /\ u \in TaskIds /\ u < i'
               /\ tasks'[u] \in [n1 : Int, n2 : Int, V : Seq(Nat)]
               /\ Span(u)' \subseteq n1'..(n2' - 1)
               /\ Increasing(tasks'[u].V)
    BY <1>1, <1>3, <1>6, <1>8 DEF Heap
  <2> QED BY <1>6, <1>7, <2>1, <2>2 DEF Heap
<1>13. Tiling'
  <2> DEFINE all == OnHeap \union Remaining \union ToSet(results)
             left == OnHeap' \union Remaining' \union ToSet(results')
  <2>1. {n \in left : Prime(n)} = {n \in all : Prime(n)}
    BY <1>5, <1>6, <1>7, <1>9
  <2>2. {n \in left : Prime(n)} = Wanted'
    BY <1>1, <1>6, <2>1 DEF Tiling
  <2>3. OnHeap' \intersect (Remaining' \union ToSet(results')) = {}
    <3>1. OnHeap \intersect (Remaining \union ToSet(results)) = {}
      BY <1>1 DEF Tiling
    <3> QED BY <1>5, <1>6, <1>7, <1>9, <3>1
  <2>4. \A u, v \in DOMAIN tasks' : u # v => Span(u)' \intersect Span(v)' = {}
    BY <1>1, <1>8 DEF Tiling
  <2> QED BY <2>2, <2>3, <2>4 DEF Tiling
<1>14. Sorted'
  BY <1>7 DEF Sorted
<1>15. Ownership'
  <2>1. In(toEmitter) = In(toEmitter') \union {t} /\ t \notin In(toEmitter')
    <3>1. In(toEmitter) = In(toEmitter') \union ({Head(toEmitter[w])} \ {EOS})
      BY <1>1, <1>3, <1>4, DropProperties
    <3>2. Head(toEmitter[w]) \notin In(toEmitter')
      BY <1>1, <1>3, <1>4, DropNoCopies DEF Ownership
    <3> QED BY <1>4, <3>1, <3>2
  <2>2. NoCopies(toEmitter') /\ NoCopies(toWorker')
    BY <1>1, <1>3, <1>4, DropNoCopies DEF Ownership
  <2>3. t \notin In(toWorker)
    BY <1>1, <1>4 DEF Ownership
  <2>4. \A u \in In(toEmitter') : ToSet(tasks'[u].V) = {n \in Span(u)' : Prime(n)}
    <3>1. \A u \in In(toEmitter') : u \in In(toEmitter) /\ u \in DOMAIN tasks \ {t}
      BY <1>1, <2>1 DEF Ownership
    <3> QED BY <1>1, <1>8, <3>1 DEF Ownership
  <2>5. /\ In(toWorker') \union In(toEmitter') = DOMAIN tasks'
        /\ In(toWorker') \intersect In(toEmitter') = {}
    BY <1>1, <1>3, <1>8, <2>1, <2>3 DEF Ownership
  <2> QED BY <2>2, <2>4, <2>5 DEF Ownership
<1>16. ToSet(results) \subseteq ToSet(results')
  BY <1>7
<1> QED BY <1>1, <1>3, <1>6, <1>10, <1>11, <1>12, <1>13, <1>14, <1>15, <1>16 DEF Inv

LEMMA NextInv == ASSUME Inv, [Next]_vars PROVE Inv'
<1>1. CASE Construct
  BY <1>1, ConstructInv
<1>2. CASE SendEven
  BY <1>2, SendEvenInv
<1>3. CASE SendDelta
  BY <1>3, SendDeltaInv
<1>4. CASE EndLoop
  BY <1>4, EndLoopInv
<1>5. ASSUME NEW w \in Workers, BroadcastEos(w) PROVE Inv'
  BY <1>5, BroadcastEosInv
<1>6. ASSUME NEW w \in Workers, Collect(w) PROVE Inv'
  BY <1>6, CollectInv
<1>7. ASSUME NEW w \in Workers, CloseChannel(w), UNCHANGED mainVars PROVE Inv'
  BY <1>7, CloseChannelMainInv
<1>8. ASSUME NEW w \in Workers, Work(w) PROVE Inv'
  BY <1>8, WorkInv
<1>9. ASSUME NEW w \in Workers, EndWorker(w), UNCHANGED mainVars PROVE Inv'
  BY <1>9, EndWorkerMainInv
<1>10. CASE UNCHANGED vars
  BY <1>10, StutterInv
<1> QED BY <1>1, <1>2, <1>3, <1>4, <1>5, <1>6, <1>7, <1>8, <1>9, <1>10
        DEF Next, EmitterStep, WorkerStep, Terminated

LEMMA Invariance == Spec => []Inv
<1>1. Init => Inv
  BY InitInv
<1>2. Inv /\ [Next]_vars => Inv'
  BY NextInv
<1> QED BY <1>1, <1>2, PTL DEF Spec

----------------------------------------------------------------------------

\* Type correctness of both programs.
THEOREM TypeCorrect == Spec => []TypeOK
<1>1. args \in Ranges /\ i \in 0..nw => CursorAt(i) \in Int
  <2>1. SUFFICES ASSUME args \in Ranges, i \in 0..nw PROVE CursorAt(i) \in Int
    OBVIOUS
  <2>2. n1 \in Int /\ n2 \in Int /\ nw \in Nat \ {0} /\ i \in Int
    BY <2>1, RangeType, WorkersType
  <2>3. (n2 - n1) \div nw \in Int /\ (n2 - n1) % nw \in Int
    BY <2>2
  <2>4. Quotient(n2 - n1, nw) \in Int
    BY <2>2 DEF Quotient
  <2> QED BY <2>2, <2>3, <2>4 DEF CursorAt
<1>2. Inv => TypeOK
  BY <1>1, FarmFacts DEF Inv, Loop, Heap, TypeOK
<1> QED BY <1>2, Invariance, PTL

\* primes_master-worker2 and my_primes_master_worker_map lose no number of
\* their range and give none to two workers, whatever is left when the range
\* is divided by the number of workers.
THEOREM RangeTiled == Spec => []Tiling
<1>1. Inv => Tiling
  BY DEF Inv
<1> QED BY <1>1, Invariance, PTL

\* The results are in increasing order after every merge, whatever the order
\* in which the tasks come back.
THEOREM ResultsSorted == Spec => []Sorted
<1>1. Inv => Sorted
  BY DEF Inv
<1> QED BY <1>1, Invariance, PTL

\* A task on the heap is in one channel and there once, and comes back with
\* all the primes of its range.
THEOREM TaskOwned == Spec => []Ownership
<1>1. Inv => Ownership
  BY DEF Inv
<1> QED BY <1>1, Invariance, PTL

\* When the emitter's thread ends no task is on the heap, and the results are
\* the primes of the range.
LEMMA CompleteAtEnd ==
    ASSUME Inv, emitter = "ended"
    PROVE  DOMAIN tasks = {} /\ ToSet(results) = Wanted
<1>1. In(toWorker) = {} /\ In(toEmitter) = {}
  BY NothingLeft DEF Inv
<1>2. DOMAIN tasks = {} /\ OnHeap = {}
  BY <1>1 DEF Inv, Ownership, OnHeap
<1>3. Remaining = {}
  <2>1. i = nw /\ nw \in Nat
    BY WorkersType DEF Inv, Loop
  <2> QED BY <2>1 DEF Remaining
<1>4. {n \in ToSet(results) : Prime(n)} = Wanted
  BY <1>2, <1>3 DEF Inv, Tiling
<1>5. ToSet(results) \subseteq Wanted
  BY DEF Inv, Heap
<1> QED BY <1>2, <1>4, <1>5

LEMMA CompleteAtNextEnd ==
    Inv' => (emitter = "ended" => ToSet(results) = Wanted)'
<1>1. Inv => (emitter = "ended" => ToSet(results) = Wanted)
  BY CompleteAtEnd
<1> QED BY <1>1, PTL

\* When the farm ends every task has been deleted, and the results are all the
\* primes of [n1, n2), each once.
THEOREM PrimesComplete ==
    Spec => [](emitter = "ended" => DOMAIN tasks = {} /\ ToSet(results) = Wanted)
<1>1. Inv => (emitter = "ended" => DOMAIN tasks = {} /\ ToSet(results) = Wanted)
  BY CompleteAtEnd
<1> QED BY <1>1, Invariance, PTL

----------------------------------------------------------------------------
\* Refinement.

status ==
    CASE emitter = "ended" -> "finished"
      [] emitter = "aborted" -> "aborted"
      [] OTHER -> "running"

LEMMA SearchInit == ASSUME Init PROVE Search!Init
BY ToSetOfEmpty DEF Init, FarmInit, Search!Init

LEMMA SearchStep ==
    ASSUME Inv, Inv', [Next]_vars
    PROVE  [Search!Next]_<<Wanted, ToSet(results), status>>
<1>1. ASSUME UNCHANGED <<args, results, status>>
      PROVE  UNCHANGED <<Wanted, ToSet(results), status>>
  BY <1>1 DEF Wanted, n1, n2
<1>2. CASE Construct
  <2>1. /\ emitter = "constructor" /\ emitter' \in {"send", "aborted"}
        /\ UNCHANGED <<args, results>>
    BY <1>2 DEF Construct, Run, Abort, mainVars
  <2>2. results = <<>>
    BY <2>1 DEF Inv, Loop
  <2>3. CASE emitter' = "send"
    BY <1>1, <2>1, <2>3 DEF status
  <2>4. CASE emitter' = "aborted"
    <3>1. Search!GiveUp
      BY <2>1, <2>2, <2>4, ToSetOfEmpty DEF Search!GiveUp, Wanted, n1, n2
    <3> QED BY <3>1 DEF Search!Next
  <2> QED BY <2>1, <2>3, <2>4
<1>3. CASE SendEven \/ SendDelta \/ EndLoop
  BY <1>1, <1>3 DEF SendEven, SendDelta, EndLoop, SendOut, EndSend, mainVars, status
<1>4. ASSUME NEW w \in Workers, BroadcastEos(w)
      PROVE  UNCHANGED <<Wanted, ToSet(results), status>>
  BY <1>1, <1>4 DEF BroadcastEos, Broadcast, mainVars, status
<1>5. ASSUME NEW w \in Workers, Collect(w)
      PROVE  [Search!Find]_<<Wanted, ToSet(results), status>>
  <2>1. /\ ToSet(results) \subseteq ToSet(results') /\ ToSet(results') \subseteq Wanted'
        /\ UNCHANGED <<args, emitter>> /\ emitter = "collect"
    BY <1>5, CollectInv DEF Inv, Heap
  <2>2. Wanted' = Wanted /\ status' = status /\ status = "running"
    BY <2>1 DEF Wanted, n1, n2, status
  <2> QED BY <2>1, <2>2 DEF Search!Find, status
<1>6. ASSUME NEW w \in Workers, CloseChannel(w), UNCHANGED mainVars
      PROVE  [Search!Finish]_<<Wanted, ToSet(results), status>>
  <2>1. emitter = "collect" /\ emitter' \in {"collect", "ended"}
    BY <1>6 DEF CloseChannel
  <2>2. UNCHANGED <<args, results>>
    BY <1>6 DEF mainVars
  <2>3. CASE emitter' = "collect"
    BY <1>1, <2>1, <2>2, <2>3 DEF status
  <2>4. CASE emitter' = "ended"
    <3>1. Wanted' = Wanted /\ ToSet(results)' = Wanted'
      BY <2>2, <2>4, CompleteAtNextEnd DEF Wanted, n1, n2
    <3> QED BY <2>1, <2>2, <2>4, <3>1 DEF Search!Finish, status
  <2> QED BY <2>1, <2>3, <2>4
<1>7. ASSUME NEW w \in Workers, Work(w)
      PROVE  UNCHANGED <<Wanted, ToSet(results), status>>
  BY <1>1, <1>7 DEF Work, Svc, status
<1>8. ASSUME NEW w \in Workers, EndWorker(w), UNCHANGED mainVars
      PROVE  UNCHANGED <<Wanted, ToSet(results), status>>
  BY <1>1, <1>8 DEF EndWorker, mainVars, status
<1>9. CASE UNCHANGED vars
  BY <1>1, <1>9 DEF vars, mainVars, farmVars, status
<1> QED BY <1>2, <1>3, <1>4, <1>5, <1>6, <1>7, <1>8, <1>9
        DEF Next, EmitterStep, WorkerStep, Terminated, Search!Next

\* Both farms implement the safety part of the abstract prime search: what is
\* found is wanted and stays found, and they finish only with nothing missing.
THEOREM ImplementsSearch == Spec => Search!Spec
<1>1. Init => Search!Init
  BY SearchInit
<1>2. Inv /\ Inv' /\ [Next]_vars => [Search!Next]_<<Wanted, ToSet(results), status>>
  BY SearchStep
<1> QED BY <1>1, <1>2, Invariance, PTL DEF Spec, Search!Spec, status
====
