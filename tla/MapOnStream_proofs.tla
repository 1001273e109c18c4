---- MODULE MapOnStream_proofs ----
(***************************************************************************)
(* The two programs that compute on a stream with a state, for any number  *)
(* of threads, rows and tasks, any length of the channel and every way the *)
(* threads take turns.                                                     *)
(*                                                                         *)
(* Neither Ownership nor LikeSequential is inductive. MapInv says what the *)
(* channel holds (the tasks sent and not yet taken, in order, and then     *)
(* EOS), and what the state is while a loop of the stage runs: the rows    *)
(* combined or summed up so far, and the elements updated so far, are      *)
(* exactly the iterations that the loop has done. The lemmas on the loop   *)
(* say that it does each iteration once and is over when all are done.     *)
(***************************************************************************)
EXTENDS MapOnStream, Shared_proofs

----------------------------------------------------------------------------
\* The invariant.

MapArgs ==
    /\ columnsize \in Nat \ {0}
    /\ streamlen \in Nat /\ numrows \in Nat /\ numcols \in Nat
    /\ nworkers \in Nat \ {0}
    /\ ~IsMy => streamlen <= TaskSize

\* EOS is in the channel; and how many tasks the stage has taken.
Marked == gen = "ended" /\ stage \notin {"svc_end", "ended"}
taken == i - Len(chan) + (IF Marked THEN 1 ELSE 0)

\* The channel holds the tasks sent and not taken, in order, and then EOS.
ChannelInv ==
    /\ i \in 0..streamlen /\ taken \in 0..i
    /\ gen \in {"loop", "fill", "ended"}
    /\ gen = "ended" => i = streamlen
    /\ chan \in Seq(Nat \union {EOS})
    /\ \A k \in DOMAIN chan : chan[k] = IF Marked /\ k = Len(chan) THEN EOS ELSE taken + k - 1
    /\ Marked => chan # <<>>

\* The two halves of the generator's loop: the element they write holds the
\* last number of one of them, once it has been written.
Half == TaskSize - (TaskSize \div 2)

FillInv ==
    gen = "fill" =>
        /\ ~IsMy /\ i < streamlen
        /\ genShare \in [0..1 -> [from : Nat, to : Nat]]
        /\ genShare[0].to = Half /\ genShare[1].to = TaskSize
        /\ genShare[0].from <= Half
        /\ Half <= genShare[1].from /\ genShare[1].from <= TaskSize
        /\ \/ genShare[0].from = 0 /\ genShare[1].from = Half
           \/ \E w \in 0..1 : tasks[i] = i + genShare[w].from - 1

Sent == (taken..(i - 1)) \union in

TasksInv ==
    IF IsMy
    THEN DOMAIN tasks = 0..(i - 1)
    ELSE /\ DOMAIN tasks = Sent \union (IF gen = "fill" THEN {i} ELSE {})
         /\ \A t \in Sent : tasks[t] \in {t + Half - 1, t + TaskSize - 1}

\* The iterations of the stage's loop that are left to a thread, and those that
\* have been done. No iteration is left to two.
LeftTo(w) == share[w].from..(share[w].to - 1)
Done == {k \in 0..(last - 1) : \A w \in DOMAIN share : k \notin LeftTo(w)}

Shares ==
    /\ last \in Nat /\ undealt = last
    /\ share \in [0..(nworkers - 1) -> [from : Nat, to : Nat]]
    /\ \A w \in DOMAIN share : share[w].from <= share[w].to /\ share[w].to <= last
    /\ \A v, w \in DOMAIN share : v # w => LeftTo(v) \intersect LeftTo(w) = {}

\* The tasks before t; the vector that task t meets.
Earlier(t) == [k \in 1..t |-> k - 1]
Size(t) == IF IsMy THEN numrows * t ELSE columnsize
Vector(t) ==
    [j \in 1..Size(t + 1) |-> IF IsMy /\ j > numrows THEN <<>> ELSE Earlier(t)]

Rows(S) == {c.row : c \in S}
AllRows == 0..(numrows - 1)

BetweenTasks == in = {} /\ state = Before(taken)

InSvc ==
    LET t == taken - 1
    IN  /\ Shares /\ taken >= 1 /\ in = {t}
        /\ \A c \in temp \union sum : c.elems = Met(t)
        /\ stage \in {"multiply", "reduce"} => last = numrows /\ state = Vector(t)
        /\ stage = "multiply" =>
               IF IsMy THEN Rows(temp) = Done /\ sum = {} ELSE Rows(sum) = Done
        /\ stage = "reduce" =>
               IsMy /\ Rows(temp) = AllRows /\ sum \subseteq temp /\ Rows(sum) = Done
        /\ stage = "update" =>
               /\ last = IF IsMy THEN numrows ELSE columnsize
               /\ Rows(sum) = AllRows
               /\ state = [j \in 1..Size(taken) |->
                              IF j - 1 \in Done THEN Earlier(taken) ELSE Vector(t)[j]]

InSvcEnd ==
    /\ gen = "ended" /\ chan = <<>> /\ in = {}
    /\ state = Before(streamlen)
    /\ stage = "svc_end" => Shares /\ last = Len(state) /\ result = {k + 1 : k \in Done}
    /\ stage = "ended" => result = DOMAIN state

StageInv ==
    /\ stage \in {"svc", "multiply", "reduce", "update", "svc_end", "ended"}
    /\ stage = "svc" => BetweenTasks
    /\ stage \in {"multiply", "reduce", "update"} => InSvc
    /\ stage \in {"svc_end", "ended"} => InSvcEnd
    /\ stage \notin {"svc_end", "ended"} => result = {}

RunInv == MapArgs /\ ChannelInv /\ FillInv /\ TasksInv /\ StageInv

\* Before the program runs, and when it has refused to.
Nothing ==
    /\ i = 0 /\ gen = "loop" /\ tasks = <<>> /\ chan = <<>>
    /\ stage = "svc" /\ in = {} /\ result = {}

MapInv ==
    /\ cmd \in CommandLines
    /\ main \in {"parse", "running", "exit", "usage", "aborted"}
    /\ main \notin {"running", "exit"} => Nothing
    /\ main = "parse" => state = <<>>
    /\ main \in {"running", "exit"} => RunInv
    /\ main = "exit" => stage = "ended"

----------------------------------------------------------------------------
\* The command line.

LEMMA MapArgsType ==
    ASSUME cmd \in CommandLines, Len(args) >= IF IsMy THEN 4 ELSE 3
    PROVE  MapArgs
<1>1. /\ columnsize \in Nat \ {0}
      /\ args \in Seq(Nat)
      /\ IsMy => args[4] >= 1
      /\ cmd[1] \in {"maponstream", "my"}
      /\ ~IsMy => args[3] >= 1 /\ args[1] <= args[2] * columnsize
  BY CommandLinesAssumption DEF args, IsMy
<1>2. args[1] \in Nat /\ args[2] \in Nat /\ args[3] \in Nat /\ (IsMy => args[4] \in Nat)
  BY <1>1
<1>3. CASE IsMy
  BY <1>1, <1>2, <1>3 DEF MapArgs, streamlen, numrows, numcols, nworkers
<1>4. CASE ~IsMy
  BY <1>1, <1>2, <1>4 DEF MapArgs, streamlen, numrows, numcols, nworkers, TaskSize
<1> QED BY <1>3, <1>4

LEMMA Sizes ==
    ASSUME MapArgs
    PROVE  /\ TaskSize \in Nat /\ Half \in Nat /\ TaskSize \div 2 \in Nat
           /\ Half = TaskSize - (TaskSize \div 2)
           /\ Half = (TaskSize \div 2) + (IF TaskSize % 2 = 0 THEN 0 ELSE 1)
           /\ \A t \in Nat : Size(t) \in Nat
<1>1. TaskSize \in Nat
  <2>1. \A a, b \in Nat : a * b \in Nat
    OBVIOUS
  <2> QED BY <2>1 DEF MapArgs, TaskSize
<1>2. \A n \in Nat : n \div 2 \in Nat /\ n - (n \div 2) = (n \div 2) + (IF n % 2 = 0 THEN 0 ELSE 1)
  OBVIOUS
<1>3. ASSUME NEW t \in Nat PROVE Size(t) \in Nat
  <2>1. \A a, b \in Nat : a * b \in Nat
    OBVIOUS
  <2> QED BY <2>1 DEF MapArgs, Size
<1> QED BY <1>1, <1>2, <1>3 DEF Half

\* No action but Main depends on more of the command line than this.
LEMMA SameArgs ==
    ASSUME cmd' = cmd
    PROVE  /\ MapArgs' = MapArgs
           /\ args' = args /\ IsMy' = IsMy /\ streamlen' = streamlen
           /\ numrows' = numrows /\ numcols' = numcols /\ nworkers' = nworkers
           /\ TaskSize' = TaskSize /\ Half' = Half /\ AllRows' = AllRows
           /\ \A t : Size(t)' = Size(t)
           /\ \A t : Vector(t)' = Vector(t)
           /\ \A t : Before(t)' = Before(t)
           /\ \A t : Met(t)' = Met(t)
BY DEF MapArgs, args, IsMy, streamlen, numrows, numcols, nworkers, TaskSize, Half, AllRows,
       Size, Vector, Before, Met

----------------------------------------------------------------------------
\* A loop of the stage does every iteration once.

LEMMA LoopStart ==
    ASSUME MapArgs, cmd' = cmd, NEW n \in Nat, StartLoop(nworkers, 0, n, 0)
    PROVE  Shares' /\ last' = n /\ Done' = {}
<1> DEFINE start(w) == EvenStart(nworkers, w, 0, n)
<1>1. nworkers \in Nat \ {0} /\ nworkers' = nworkers
  BY SameArgs DEF MapArgs
<1>2. /\ share' = [w \in 0..(nworkers - 1) |-> [from |-> start(w), to |-> start(w + 1)]]
      /\ undealt' = n /\ last' = n
  BY DEF StartLoop
<1>3. /\ \A w \in 0..nworkers : start(w) \in 0..n
      /\ \A v, w \in 0..nworkers : v <= w => start(v) <= start(w)
      /\ \A m \in 0..(n - 1) :
             \E w \in 0..(nworkers - 1) : start(w) <= m /\ m < start(w + 1)
  <2>1. \A w : start(w) = 0 + w * ((n - 0) \div nworkers)
                          + (IF w <= (n - 0) % nworkers THEN w ELSE (n - 0) % nworkers)
    BY DEF EvenStart, Least
  <2> HIDE DEF start
  <2>2. 0 \in Nat /\ 0 <= n
    OBVIOUS
  <2> QED BY <1>1, <2>1, <2>2, EvenShares
<1> HIDE DEF start
<1>4. ASSUME NEW w \in 0..(nworkers - 1)
      PROVE  /\ w \in 0..nworkers /\ w + 1 \in 0..nworkers
             /\ share'[w].from = start(w) /\ share'[w].to = start(w + 1)
             /\ start(w) \in 0..n /\ start(w + 1) \in 0..n /\ start(w) <= start(w + 1)
             /\ share'[w] \in [from : Nat, to : Nat]
  <2>1. w \in 0..nworkers /\ w + 1 \in 0..nworkers /\ w <= w + 1
    BY <1>1
  <2>2. share'[w] = [from |-> start(w), to |-> start(w + 1)]
    BY <1>2
  <2> QED BY <1>3, <2>1, <2>2
<1>5. DOMAIN share' = 0..(nworkers - 1)
  BY <1>2
<1>6. ASSUME NEW v \in 0..(nworkers - 1), NEW w \in 0..(nworkers - 1), v < w
      PROVE  start(v + 1) <= start(w)
  <2>1. v + 1 <= w
    BY <1>1, <1>6
  <2> QED BY <1>3, <1>4, <2>1
<1>7. ASSUME NEW v \in 0..(nworkers - 1), NEW w \in 0..(nworkers - 1), v # w
      PROVE  LeftTo(v)' \intersect LeftTo(w)' = {}
  <2>1. v < w \/ w < v
    BY <1>1, <1>7
  <2> QED BY <1>4, <1>6, <2>1 DEF LeftTo
<1>8. Shares'
  <2>1. share' \in [0..(nworkers - 1) -> [from : Nat, to : Nat]]
    BY <1>2, <1>4
  <2>2. \A w \in DOMAIN share' : share'[w].from <= share'[w].to /\ share'[w].to <= last'
    BY <1>2, <1>4, <1>5
  <2> QED BY <1>1, <1>2, <1>5, <1>7, <2>1, <2>2 DEF Shares
<1>9. ASSUME NEW k \in 0..(n - 1) PROVE \E w \in DOMAIN share' : k \in LeftTo(w)'
  <2>1. PICK w \in 0..(nworkers - 1) : start(w) <= k /\ k < start(w + 1)
    BY <1>3
  <2> QED BY <1>4, <1>5, <2>1 DEF LeftTo
<1> QED BY <1>2, <1>8, <1>9 DEF Done

LEMMA LoopIterate ==
    ASSUME Shares, cmd' = cmd, NEW w \in Threads, Iterate(w)
    PROVE  /\ Shares' /\ last' = last
           /\ share[w].from \in 0..(last - 1) /\ share[w].from \notin Done
           /\ Done' = Done \union {share[w].from}
<1> DEFINE k == share[w].from
<1>1. /\ DOMAIN share = 0..(nworkers - 1) /\ w \in DOMAIN share
      /\ share \in [DOMAIN share -> [from : Nat, to : Nat]]
      /\ last \in Nat /\ nworkers' = nworkers
      /\ \A v \in DOMAIN share : share[v].from <= share[v].to /\ share[v].to <= last
  BY SameArgs DEF Shares, Threads
<1>2. /\ share[w].from # share[w].to
      /\ share' = [share EXCEPT ![w].from = @ + 1]
      /\ undealt' = undealt /\ last' = last
  BY DEF Iterate, Idle
<1>3. /\ k \in Nat /\ share[w].to \in Nat /\ k < share[w].to /\ k \in 0..(last - 1)
  BY <1>1, <1>2
<1>4. /\ DOMAIN share' = DOMAIN share
      /\ share'[w].from = k + 1 /\ share'[w].to = share[w].to
      /\ \A v \in DOMAIN share : v # w => share'[v] = share[v]
      /\ share' \in [DOMAIN share -> [from : Nat, to : Nat]]
  BY <1>1, <1>2
<1>5. /\ LeftTo(w)' = LeftTo(w) \ {k} /\ k \in LeftTo(w)
      /\ \A v \in DOMAIN share : v # w => LeftTo(v)' = LeftTo(v)
  BY <1>3, <1>4 DEF LeftTo
<1>6. \A v \in DOMAIN share : v # w => k \notin LeftTo(v)
  BY <1>1, <1>5 DEF Shares
<1>7. Shares'
  <2>1. ASSUME NEW v \in DOMAIN share
        PROVE  share'[v].from <= share'[v].to /\ share'[v].to <= last
    BY <1>1, <1>3, <1>4
  <2>2. ASSUME NEW u \in DOMAIN share, NEW v \in DOMAIN share, u # v
        PROVE  LeftTo(u)' \intersect LeftTo(v)' = {}
    <3>1. LeftTo(u) \intersect LeftTo(v) = {}
      BY <2>2 DEF Shares
    <3>2. LeftTo(u)' \subseteq LeftTo(u) /\ LeftTo(v)' \subseteq LeftTo(v)
      BY <1>5
    <3> QED BY <3>1, <3>2
  <2> QED BY <1>1, <1>2, <1>4, <2>1, <2>2 DEF Shares
<1>8. k \notin Done
  BY <1>1, <1>5 DEF Done
<1>9. ASSUME NEW m \in 0..(last - 1)
      PROVE  (\A v \in DOMAIN share : m \notin LeftTo(v)')
                 <=> m = k \/ \A v \in DOMAIN share : m \notin LeftTo(v)
  BY <1>1, <1>5, <1>6
<1>10. Done' = Done \union {k}
  BY <1>2, <1>3, <1>4, <1>9 DEF Done
<1> QED BY <1>2, <1>3, <1>7, <1>8, <1>10

LEMMA LoopOver ==
    ASSUME Shares, LoopDone
    PROVE  Done = 0..(last - 1)
<1>1. ASSUME NEW w \in DOMAIN share PROVE LeftTo(w) = {}
  <2>1. share[w].from = share[w].to /\ share[w].to \in Nat
    BY DEF Shares, LoopDone, Threads, Idle
  <2> QED BY <2>1 DEF LeftTo
<1> QED BY <1>1 DEF Done

LEMMA LoopSame ==
    ASSUME UNCHANGED <<cmd, share, undealt, last>>
    PROVE  Shares' = Shares /\ Done' = Done /\ LoopDone' = LoopDone
<1>1. nworkers' = nworkers
  BY SameArgs
<1> QED BY <1>1 DEF Shares, Done, LeftTo, LoopDone, Threads, Idle

----------------------------------------------------------------------------
\* The generator does not disturb the stage.

LEMMA StageSame ==
    ASSUME StageInv, gen # "ended" \/ UNCHANGED <<gen, chan>>,
           taken' = taken, UNCHANGED <<cmd, stageVars>>
    PROVE  StageInv'
<1>1. UNCHANGED <<stage, in, state, temp, sum, result, share, undealt, last>> /\ cmd' = cmd
  BY DEF stageVars, loopVars
<1>2. ASSUME InSvcEnd PROVE InSvcEnd'
  <2>1. gen' = gen /\ chan' = chan
    BY <1>2 DEF InSvcEnd
  <2>2. Before(streamlen)' = Before(streamlen) /\ Shares' = Shares /\ Done' = Done
    BY <1>1, SameArgs, LoopSame DEF Before
  <2> QED BY <1>1, <1>2, <2>1, <2>2 DEF InSvcEnd
<1>3. ASSUME BetweenTasks PROVE BetweenTasks'
  <2>1. Before(taken)' = Before(taken)
    BY <1>1, SameArgs DEF Before
  <2> QED BY <1>1, <1>3, <2>1 DEF BetweenTasks
<1>4. ASSUME InSvc PROVE InSvc'
  <2> DEFINE t == taken - 1
  <2>1. Shares' = Shares /\ Done' = Done /\ Rows(temp)' = Rows(temp) /\ Rows(sum)' = Rows(sum)
    BY <1>1, LoopSame DEF Rows
  <2>2. /\ IsMy' = IsMy /\ numrows' = numrows /\ AllRows' = AllRows
        /\ Met(t)' = Met(t) /\ Vector(t)' = Vector(t)
        /\ Earlier(taken)' = Earlier(taken) /\ Size(taken)' = Size(taken)
    BY <1>1, SameArgs DEF Met, Before, Vector, Earlier, Size
  <2> QED BY <1>1, <1>4, <2>1, <2>2 DEF InSvc
<1> QED BY <1>1, <1>2, <1>3, <1>4 DEF StageInv

LEMMA ChannelFacts ==
    ASSUME ChannelInv, MapArgs
    PROVE  /\ i \in Nat /\ taken \in Nat /\ Len(chan) \in Nat
           /\ DOMAIN chan = 1..Len(chan)
           /\ streamlen \in Nat /\ i <= streamlen
           /\ taken <= i /\ taken + Len(chan) = i + (IF Marked THEN 1 ELSE 0)
BY DEF ChannelInv, MapArgs, taken

\* A task is sent.
LEMMA SendChannel ==
    ASSUME ChannelInv, MapArgs, gen # "ended", i < streamlen, gen' \in {"loop", "fill"},
           chan' = Append(chan, i), i' = i + 1, cmd' = cmd, stage' = stage
    PROVE  ChannelInv' /\ taken' = taken
<1> DEFINE n == Len(chan)
<1>1. /\ i \in Nat /\ taken \in Nat /\ n \in Nat /\ DOMAIN chan = 1..n
      /\ streamlen \in Nat /\ taken <= i /\ taken + n = i
      /\ ~Marked /\ ~Marked' /\ streamlen' = streamlen
  BY ChannelFacts, SameArgs DEF Marked
<1>2. /\ chan' \in Seq(Nat \union {EOS}) /\ Len(chan') = n + 1 /\ DOMAIN chan' = 1..(n + 1)
      /\ \A k \in 1..n : chan'[k] = chan[k]
      /\ chan'[n + 1] = i
  <2>1. chan \in Seq(Nat \union {EOS}) /\ i \in Nat \union {EOS}
    BY <1>1 DEF ChannelInv
  <2> QED BY <2>1
<1>3. taken' = taken
  BY <1>1, <1>2 DEF taken
<1>4. \A k \in 1..(n + 1) : chan'[k] = taken + k - 1
  <2>1. \A k \in 1..n : chan[k] = taken + k - 1
    BY <1>1 DEF ChannelInv
  <2> QED BY <1>1, <1>2, <2>1
<1> QED BY <1>1, <1>2, <1>3, <1>4 DEF ChannelInv

LEMMA ChannelSame ==
    ASSUME ChannelInv, MapArgs, gen # "ended", gen' \in {"loop", "fill"},
           UNCHANGED <<cmd, i, chan, stage>>
    PROVE  ChannelInv' /\ taken' = taken
<1>1. ~Marked /\ ~Marked' /\ taken' = taken /\ streamlen' = streamlen
  BY SameArgs DEF Marked, taken
<1> QED BY <1>1 DEF ChannelInv

LEMMA NewTaskRun ==
    ASSUME RunInv, NewTask
    PROVE  RunInv'
<1>1. /\ gen = "loop" /\ i < streamlen /\ ~IsMy /\ gen' = "fill"
      /\ tasks' = [t \in DOMAIN tasks \union {i} |-> IF t = i THEN 0 ELSE tasks[t]]
      /\ Gen!StartLoop(2, 0, TaskSize, 0)
      /\ UNCHANGED <<cmd, i, chan, stageVars>> /\ stage' = stage /\ in' = in
  BY DEF NewTask, stageVars
<1>2. MapArgs /\ ChannelInv /\ TasksInv /\ StageInv
  BY DEF RunInv
<1>3. ChannelInv' /\ taken' = taken
  BY <1>1, <1>2, ChannelSame
<1>4. StageInv' /\ MapArgs' /\ Sent' = Sent /\ IsMy' = IsMy
  BY <1>1, <1>2, <1>3, StageSame, SameArgs DEF Sent
<1>5. TaskSize \in Nat /\ Half \in Nat /\ Half <= TaskSize
  BY <1>2, Sizes
<1>6. FillInv'
  <2>1. /\ Gen!EvenStart(2, 0, 0, TaskSize) = 0
        /\ Gen!EvenStart(2, 0 + 1, 0, TaskSize) = Half
        /\ Gen!EvenStart(2, 1, 0, TaskSize) = Half
        /\ Gen!EvenStart(2, 1 + 1, 0, TaskSize) = TaskSize
    <3>1. /\ TaskSize \div 2 \in Nat /\ TaskSize = (2 * (TaskSize \div 2)) + (TaskSize % 2)
          /\ TaskSize % 2 \in 0..1
          /\ Half = TaskSize - (TaskSize \div 2)
      BY <1>5, DivisionWithRemainder, 2 \in Nat \ {0} DEF Half
    <3> QED BY <1>5, <3>1 DEF Gen!EvenStart, Gen!Least
  <2>2. genShare' = [w \in 0..1 |-> [from |-> Gen!EvenStart(2, w, 0, TaskSize),
                                     to   |-> Gen!EvenStart(2, w + 1, 0, TaskSize)]]
    BY <1>1, <1>5 DEF Gen!StartLoop
  <2>3. /\ genShare'[0] = [from |-> 0, to |-> Half]
        /\ genShare'[1] = [from |-> Half, to |-> TaskSize]
    BY <2>1, <2>2
  <2>4. genShare' \in [0..1 -> [from : Nat, to : Nat]]
    <3>1. \A w \in 0..1 : genShare'[w] \in [from : Nat, to : Nat]
      BY <1>5, <2>3
    <3> QED BY <2>2, <3>1
  <2>5. i' < streamlen' /\ ~IsMy' /\ Half' = Half /\ TaskSize' = TaskSize
    BY <1>1, SameArgs
  <2> QED BY <1>5, <2>3, <2>4, <2>5 DEF FillInv
<1>7. TasksInv'
  <2>1. DOMAIN tasks = Sent /\ \A t \in Sent : tasks[t] \in {t + Half - 1, t + TaskSize - 1}
    BY <1>1, <1>2 DEF TasksInv
  <2>2. i \notin Sent
    <3>1. in \subseteq {taken - 1} /\ taken \in Nat /\ i \in Nat /\ taken <= i
      BY <1>2, ChannelFacts DEF StageInv, InSvc, BetweenTasks, InSvcEnd
    <3> QED BY <3>1 DEF Sent
  <2>3. Half' = Half /\ TaskSize' = TaskSize
    BY <1>1, SameArgs
  <2> QED BY <1>1, <1>4, <2>1, <2>2, <2>3 DEF TasksInv
<1> QED BY <1>3, <1>4, <1>6, <1>7 DEF RunInv

LEMMA FillRun ==
    ASSUME RunInv, NEW w \in DOMAIN genShare, Fill(w)
    PROVE  RunInv'
<1> DEFINE k == genShare[w].from
<1>1. /\ gen = "fill" /\ genShare[w].from # genShare[w].to
      /\ genShare' = [genShare EXCEPT ![w].from = @ + 1]
      /\ tasks' = [tasks EXCEPT ![i] = i + k]
      /\ UNCHANGED <<cmd, i, gen, chan, stageVars>> /\ stage' = stage /\ in' = in
  BY DEF Fill, Gen!Iterate, Gen!Idle, stageVars
<1>2. MapArgs /\ ChannelInv /\ FillInv /\ TasksInv /\ StageInv
  BY DEF RunInv
<1>3. ChannelInv' /\ taken' = taken
  BY <1>1, <1>2, ChannelSame
<1>4. StageInv' /\ MapArgs' /\ Sent' = Sent /\ IsMy' = IsMy
  BY <1>1, <1>2, <1>3, StageSame, SameArgs DEF Sent
<1>5. TaskSize \in Nat /\ Half \in Nat /\ Half' = Half /\ TaskSize' = TaskSize
      /\ streamlen' = streamlen
  BY <1>1, <1>2, Sizes, SameArgs
<1>6. /\ ~IsMy /\ i < streamlen /\ genShare \in [0..1 -> [from : Nat, to : Nat]]
      /\ genShare[0].to = Half /\ genShare[1].to = TaskSize
      /\ genShare[0].from <= Half
      /\ Half <= genShare[1].from /\ genShare[1].from <= TaskSize
  BY <1>1, <1>2 DEF FillInv
<1>7. w \in 0..1 /\ k \in Nat /\ k < genShare[w].to
  <2>1. w \in 0..1 /\ genShare[w] \in [from : Nat, to : Nat]
    BY <1>6
  <2>2. k <= genShare[w].to
    <3>1. w = 0 \/ w = 1
      BY <2>1
    <3> QED BY <1>6, <3>1
  <2> QED BY <1>1, <2>1, <2>2
<1>8. /\ genShare' \in [0..1 -> [from : Nat, to : Nat]]
      /\ genShare'[w].from = k + 1 /\ genShare'[w].to = genShare[w].to
      /\ \A v \in 0..1 : v # w => genShare'[v] = genShare[v]
  BY <1>1, <1>6, <1>7
<1>9. /\ DOMAIN tasks = Sent \union {i} /\ i \notin Sent
      /\ \A t \in Sent : tasks[t] \in {t + Half - 1, t + TaskSize - 1}
  <2>1. in \subseteq {taken - 1} /\ taken \in Nat /\ i \in Nat /\ taken <= i
    BY <1>2, ChannelFacts DEF StageInv, InSvc, BetweenTasks, InSvcEnd
  <2>2. i \notin Sent
    BY <2>1 DEF Sent
  <2> QED BY <1>1, <1>2, <1>6, <2>2 DEF TasksInv
<1>10. /\ DOMAIN tasks' = Sent \union {i} /\ tasks'[i] = i + k
       /\ \A t \in Sent : tasks'[t] = tasks[t]
  BY <1>1, <1>9
<1>11. FillInv'
  <2>1. i \in Nat /\ i' = i
    BY <1>1, <1>2, ChannelFacts
  <2>2. tasks'[i] = i + genShare'[w].from - 1
    BY <1>7, <1>8, <1>10, <2>1
  <2>3. /\ genShare'[0].to = Half /\ genShare'[1].to = TaskSize
        /\ genShare'[0].from <= Half
        /\ Half <= genShare'[1].from /\ genShare'[1].from <= TaskSize
    <3>1. CASE w = 0
      BY <1>5, <1>6, <1>7, <1>8, <3>1
    <3>2. CASE w = 1
      BY <1>5, <1>6, <1>7, <1>8, <3>2
    <3> QED BY <1>7, <3>1, <3>2
  <2> QED BY <1>1, <1>4, <1>5, <1>6, <1>7, <1>8, <2>1, <2>2, <2>3 DEF FillInv
<1>12. TasksInv'
  BY <1>1, <1>4, <1>5, <1>6, <1>9, <1>10 DEF TasksInv
<1> QED BY <1>3, <1>4, <1>11, <1>12 DEF RunInv

LEMMA SendTaskRun ==
    ASSUME RunInv, SendTask
    PROVE  RunInv'
<1>1. /\ gen = "fill" /\ Gen!LoopDone /\ gen' = "loop"
      /\ chan' = Append(chan, i) /\ i' = i + 1
      /\ UNCHANGED <<cmd, tasks, stageVars>> /\ stage' = stage /\ in' = in
  BY DEF SendTask, stageVars
<1>2. MapArgs /\ ChannelInv /\ FillInv /\ TasksInv /\ StageInv
  BY DEF RunInv
<1>3. ~IsMy /\ i < streamlen /\ streamlen <= TaskSize
  BY <1>1, <1>2 DEF FillInv, MapArgs
<1>4. ChannelInv' /\ taken' = taken
  BY <1>1, <1>2, <1>3, SendChannel
<1>5. /\ StageInv' /\ MapArgs' /\ IsMy' = IsMy /\ Half' = Half /\ TaskSize' = TaskSize
  BY <1>1, <1>2, <1>4, StageSame, SameArgs
<1>6. i \in Nat /\ taken \in Nat /\ taken <= i /\ TaskSize \in Nat /\ Half \in Nat
      /\ streamlen \in Nat
  BY <1>2, ChannelFacts, Sizes
<1>7. Sent' = Sent \union {i}
  <2>1. taken..((i + 1) - 1) = (taken..(i - 1)) \union {i}
    BY <1>6
  <2> QED BY <1>1, <1>4, <2>1 DEF Sent
<1>8. tasks[i] \in {i + Half - 1, i + TaskSize - 1}
  <2>1. genShare[0].from = Half /\ genShare[1].from = TaskSize
    <3>1. DOMAIN genShare = 0..1
      BY <1>1, <1>2 DEF FillInv
    <3>2. 0 \in DOMAIN genShare /\ 1 \in DOMAIN genShare
      BY <3>1
    <3> QED BY <1>1, <1>2, <3>2 DEF FillInv, Gen!LoopDone, Gen!Threads, Gen!Idle
  <2>2. ~(genShare[0].from = 0 /\ genShare[1].from = Half)
    BY <1>3, <1>6, <2>1
  <2>3. PICK w \in 0..1 : tasks[i] = i + genShare[w].from - 1
    BY <1>1, <1>2, <2>2 DEF FillInv
  <2>4. w = 0 \/ w = 1
    BY <2>3
  <2> QED BY <2>1, <2>3, <2>4
<1>9. TasksInv'
  BY <1>1, <1>2, <1>3, <1>5, <1>7, <1>8 DEF TasksInv
<1>10. FillInv'
  BY <1>1 DEF FillInv
<1> QED BY <1>4, <1>5, <1>9, <1>10 DEF RunInv

LEMMA SendMatrixRun ==
    ASSUME RunInv, SendMatrix
    PROVE  RunInv'
<1>1. /\ gen = "loop" /\ IsMy /\ i < streamlen
      /\ tasks' = [t \in DOMAIN tasks \union {i} |-> 0]
      /\ chan' = Append(chan, i) /\ i' = i + 1
      /\ UNCHANGED <<cmd, gen, stageVars>> /\ stage' = stage
  BY DEF SendMatrix, stageVars
<1>2. MapArgs /\ ChannelInv /\ FillInv /\ TasksInv /\ StageInv
  BY DEF RunInv
<1>3. ChannelInv' /\ taken' = taken
  BY <1>1, <1>2, SendChannel
<1>4. StageInv' /\ MapArgs' /\ IsMy' = IsMy
  BY <1>1, <1>2, <1>3, StageSame, SameArgs
<1>5. TasksInv'
  <2>1. i \in Nat
    BY <1>2, ChannelFacts
  <2>2. (0..(i - 1)) \union {i} = 0..((i + 1) - 1)
    BY <2>1
  <2> QED BY <1>1, <1>2, <1>4, <2>2 DEF TasksInv
<1> QED BY <1>1, <1>3, <1>4, <1>5 DEF RunInv, FillInv

LEMMA EndGeneratorRun ==
    ASSUME RunInv, EndGenerator
    PROVE  RunInv'
<1> DEFINE n == Len(chan)
<1>1. /\ gen = "loop" /\ i = streamlen /\ gen' = "ended"
      /\ chan' = Append(chan, EOS)
      /\ UNCHANGED <<cmd, i, tasks, stageVars>> /\ stage' = stage /\ in' = in
  BY DEF EndGenerator, stageVars
<1>2. MapArgs /\ ChannelInv /\ TasksInv /\ StageInv
  BY DEF RunInv
<1>3. stage \notin {"svc_end", "ended"}
  BY <1>1, <1>2 DEF StageInv, InSvcEnd
<1>4. /\ i \in Nat /\ taken \in Nat /\ n \in Nat /\ DOMAIN chan = 1..n
      /\ taken <= i /\ taken + n = i /\ ~Marked /\ Marked'
  BY <1>1, <1>2, <1>3, ChannelFacts DEF Marked
<1>5. /\ chan' \in Seq(Nat \union {EOS}) /\ Len(chan') = n + 1 /\ DOMAIN chan' = 1..(n + 1)
      /\ \A k \in 1..n : chan'[k] = chan[k]
      /\ chan'[n + 1] = EOS
  <2>1. chan \in Seq(Nat \union {EOS})
    BY <1>2 DEF ChannelInv
  <2> QED BY <1>1, <2>1
<1>6. taken' = taken
  BY <1>1, <1>4, <1>5 DEF taken
<1>7. StageInv' /\ MapArgs' /\ IsMy' = IsMy /\ Half' = Half /\ TaskSize' = TaskSize
      /\ streamlen' = streamlen /\ Sent' = Sent
  BY <1>1, <1>2, <1>6, StageSame, SameArgs DEF Sent
<1>8. ChannelInv'
  <2>1. \A k \in 1..n : chan[k] = taken + k - 1
    BY <1>2, <1>4 DEF ChannelInv
  <2>2. \A k \in 1..(n + 1) : chan'[k] = IF k = n + 1 THEN EOS ELSE taken + k - 1
    BY <1>4, <1>5, <2>1
  <2>3. chan' # <<>>
    BY <1>4, <1>5
  <2> QED BY <1>1, <1>4, <1>5, <1>6, <1>7, <2>2, <2>3 DEF ChannelInv
<1>9. TasksInv'
  BY <1>1, <1>2, <1>7 DEF TasksInv
<1> QED BY <1>1, <1>7, <1>8, <1>9 DEF RunInv, FillInv

----------------------------------------------------------------------------
\* The vector, as tasks leave it and as a task meets it.

\* The product of naturals, for the vector that grows with every task.
LEMMA Grown ==
    ASSUME NEW n \in Nat, NEW t \in Nat
    PROVE  /\ n * t \in Nat /\ n * (t + 1) = n * t + n
           /\ t >= 1 => n <= n * t
<1>1. n * (t + 1) = n * t + n /\ n * t \in Nat
  OBVIOUS
<1>2. ASSUME t >= 1 PROVE n <= n * t
  <2>1. n * t = n * (t - 1) + n /\ n * (t - 1) \in Nat
    BY <1>2
  <2> QED BY <1>1, <2>1
<1> QED BY <1>1, <1>2

LEMMA BeforeProperties ==
    ASSUME MapArgs, NEW t \in Nat
    PROVE  /\ Size(t) \in Nat
           /\ Before(t) = [j \in 1..Size(t) |->
                              IF IsMy /\ j > numrows THEN <<>> ELSE Earlier(t)]
           /\ Len(Before(t)) = Size(t) /\ DOMAIN Before(t) = 1..Size(t)
           /\ IsMy => Size(t + 1) = Size(t) + numrows
           /\ ~IsMy => Size(t + 1) = Size(t)
           /\ IsMy /\ t >= 1 => numrows <= Size(t)
           /\ IsMy /\ t = 0 => Size(t) = 0
<1>1. numrows \in Nat /\ columnsize \in Nat
  BY DEF MapArgs
<1>2. CASE IsMy
  <2>1. Size(t) = numrows * t /\ Size(t + 1) = numrows * (t + 1)
    BY <1>2 DEF Size
  <2>2. Before(t) = [j \in 1..(numrows * t) |-> IF j <= numrows THEN Earlier(t) ELSE <<>>]
    BY <1>2 DEF Before, Earlier
  <2>3. /\ Size(t) \in Nat /\ Size(t + 1) = Size(t) + numrows
        /\ t >= 1 => numrows <= Size(t)
    BY <1>1, <2>1, Grown
  <2>4. t = 0 => Size(t) = 0
    BY <1>1, <2>1
  <2>5. \A j \in 1..Size(t) : j > numrows <=> ~(j <= numrows)
    BY <1>1, <2>3
  <2>6. Before(t) = [j \in 1..Size(t) |-> IF IsMy /\ j > numrows THEN <<>> ELSE Earlier(t)]
    BY <1>2, <2>1, <2>2, <2>5
  <2> QED BY <1>2, <2>3, <2>4, <2>6
<1>3. CASE ~IsMy
  <2>1. Size(t) = columnsize /\ Size(t + 1) = columnsize
    BY <1>3 DEF Size
  <2>2. Before(t) = [j \in 1..Size(t) |-> IF IsMy /\ j > numrows THEN <<>> ELSE Earlier(t)]
    BY <1>3, <2>1 DEF Before, Earlier
  <2> QED BY <1>1, <1>3, <2>1, <2>2
<1> QED BY <1>2, <1>3

\* A task meets the vector its predecessors left, with ones behind it.
LEMMA VectorProperties ==
    ASSUME MapArgs, NEW t \in Nat
    PROVE  /\ IsMy => Before(t) \o [j \in 1..numrows |-> <<>>] = Vector(t)
           /\ ~IsMy => Before(t) = Vector(t)
<1>1. /\ numrows \in Nat /\ Size(t) \in Nat
      /\ Before(t) = [j \in 1..Size(t) |-> IF IsMy /\ j > numrows THEN <<>> ELSE Earlier(t)]
      /\ Len(Before(t)) = Size(t)
  BY BeforeProperties DEF MapArgs
<1>2. ASSUME IsMy PROVE Before(t) \o [j \in 1..numrows |-> <<>>] = Vector(t)
  <2> DEFINE ones == [j \in 1..numrows |-> <<>>]
             n == Size(t)
             b == Before(t)
  <2>1. Size(t + 1) = n + numrows /\ (t >= 1 => numrows <= n) /\ (t = 0 => n = 0)
    BY <1>2, BeforeProperties
  <2>2. b \o ones = [j \in 1..(n + numrows) |-> IF j <= n THEN b[j] ELSE ones[j - n]]
    <3> DEFINE S == {Earlier(t), <<>>}
    <3>1. b \in [1..n -> S] /\ ones \in [1..numrows -> S]
      BY <1>1
    <3> HIDE DEF b, ones, S, n
    <3>2. b \in Seq(S) /\ ones \in Seq(S) /\ Len(b) = n /\ Len(ones) = numrows
      BY <1>1, <3>1 DEF n
    <3>3. DOMAIN (b \o ones) = 1..(n + numrows)
      BY <3>2
    <3>4. \A j \in 1..(n + numrows) : (b \o ones)[j] = IF j <= n THEN b[j] ELSE ones[j - n]
      BY <3>2
    <3>5. b \o ones \in [1..(n + numrows) -> S]
      <4>1. b \o ones \in Seq(S) /\ Len(b \o ones) = n + numrows
        BY <3>2
      <4>2. \A u \in Seq(S) : u \in [1..Len(u) -> S]
        OBVIOUS
      <4> QED BY <4>1, <4>2, Zenon
    <3> QED BY <3>4, <3>5
  <2>3. ASSUME NEW j \in 1..(n + numrows)
        PROVE  (IF j <= n THEN b[j] ELSE ones[j - n])
                   = IF IsMy /\ j > numrows THEN <<>> ELSE Earlier(t)
    <3>1. CASE j <= n
      BY <1>1, <3>1
    <3>2. CASE j > n
      <4>1. ones[j - n] = <<>>
        BY <1>1, <3>2
      <4>2. CASE t >= 1
        BY <1>1, <1>2, <2>1, <3>2, <4>1, <4>2
      <4>3. CASE t = 0
        <5>1. Earlier(t) = <<>>
          BY <4>3 DEF Earlier
        <5> QED BY <1>1, <3>2, <4>1, <5>1
      <4> QED BY <4>2, <4>3
    <3> QED BY <1>1, <3>1, <3>2
  <2> HIDE DEF ones, n, b
  <2> QED BY <2>1, <2>2, <2>3 DEF Vector, n, b, ones
<1>3. ASSUME ~IsMy PROVE Before(t) = Vector(t)
  <2>1. Size(t + 1) = Size(t)
    BY <1>3, BeforeProperties
  <2> QED BY <1>1, <1>3, <2>1 DEF Vector
<1> QED BY <1>2, <1>3

\* What a row is combined with then.
LEMMA ElementsMet ==
    ASSUME MapArgs, NEW t \in Nat, state = Vector(t)
    PROVE  Elements = Met(t)
<1> DEFINE here == IF IsMy THEN Before(t + 1) ELSE Before(t)
<1>1. /\ numrows \in Nat /\ numcols \in Nat /\ t + 1 \in Nat
      /\ Size(t + 1) \in Nat
  BY BeforeProperties DEF MapArgs
<1>2. DOMAIN state = 1..Size(t + 1) /\ DOMAIN here = 1..Size(t + 1)
  <2>1. DOMAIN Before(t + 1) = 1..Size(t + 1) /\ DOMAIN Before(t) = 1..Size(t)
    BY <1>1, BeforeProperties
  <2>2. ~IsMy => Size(t + 1) = Size(t)
    BY BeforeProperties
  <2> QED BY <2>1, <2>2 DEF Vector
<1>3. ASSUME NEW j \in 1..numcols
      PROVE  (IF j \in DOMAIN state THEN state[j] ELSE Garbage)
               = IF j \notin DOMAIN here THEN Garbage
                 ELSE IF j <= numrows \/ ~IsMy THEN Earlier(t) ELSE <<>>
  <2>1. CASE j \in DOMAIN state
    <3>1. state[j] = IF IsMy /\ j > numrows THEN <<>> ELSE Earlier(t)
      BY <1>2, <2>1 DEF Vector
    <3>2. j > numrows <=> ~(j <= numrows)
      BY <1>1
    <3> QED BY <1>2, <2>1, <3>1, <3>2
  <2>2. CASE j \notin DOMAIN state
    BY <1>2, <2>2
  <2> QED BY <2>1, <2>2
<1> HIDE DEF here
<1>4. Met(t) = [j \in 1..numcols |->
                   IF j \notin DOMAIN here THEN Garbage
                   ELSE IF j <= numrows \/ ~IsMy THEN Earlier(t) ELSE <<>>]
  BY DEF Met, here, Earlier
<1> QED BY <1>3, <1>4 DEF Elements

----------------------------------------------------------------------------
\* The stage.

\* The stage does not disturb the generator.
LEMMA GeneratorSame ==
    ASSUME RunInv, UNCHANGED <<cmd, genVars, tasks, chan, in>>,
           stage' \in {"svc_end", "ended"} <=> stage \in {"svc_end", "ended"}
    PROVE  /\ MapArgs' /\ ChannelInv' /\ FillInv' /\ TasksInv'
           /\ taken' = taken /\ Marked' = Marked
<1>1. UNCHANGED <<i, genShare, gen>> /\ cmd' = cmd
  BY DEF genVars
<1>2. Marked' = Marked /\ taken' = taken /\ Sent' = Sent
  BY <1>1 DEF Marked, taken, Sent
<1> QED BY <1>1, <1>2, SameArgs DEF RunInv, ChannelInv, FillInv, TasksInv

\* Task t is in svc.
LEMMA SvcFacts ==
    ASSUME RunInv, stage \in {"multiply", "reduce", "update"}
    PROVE  /\ InSvc /\ Shares /\ taken \in Nat /\ taken >= 1 /\ in = {taken - 1}
           /\ taken - 1 \in Nat /\ MapArgs /\ numrows \in Nat /\ columnsize \in Nat
           /\ taken = (taken - 1) + 1 /\ result = {}
           /\ last \in Nat
<1>1. InSvc /\ MapArgs /\ ChannelInv /\ result = {}
  BY DEF RunInv, StageInv
<1>2. taken \in Nat
  BY <1>1, ChannelFacts
<1>3. Shares /\ taken >= 1 /\ in = {taken - 1}
  BY <1>1 DEF InSvc
<1>4. taken - 1 \in Nat /\ taken = (taken - 1) + 1
  BY <1>2, <1>3
<1>5. numrows \in Nat /\ columnsize \in Nat /\ last \in Nat
  BY <1>1, <1>3 DEF MapArgs, Shares
<1> QED BY <1>1, <1>2, <1>3, <1>4, <1>5

LEMMA SvcRun ==
    ASSUME RunInv, Svc
    PROVE  RunInv'
<1> DEFINE n == Len(chan)
<1>1. /\ stage = "svc" /\ chan # <<>> /\ Head(chan) # EOS
      /\ in' = {Head(chan)} /\ chan' = Tail(chan)
      /\ state' = IF IsMy THEN state \o [j \in 1..numrows |-> <<>>] ELSE state
      /\ temp' = {} /\ sum' = {} /\ stage' = "multiply"
      /\ StartLoop(nworkers, 0, numrows, 0)
      /\ UNCHANGED <<cmd, genVars, tasks, result>>
      /\ UNCHANGED <<i, genShare, gen>> /\ cmd' = cmd
  BY DEF Svc, genVars
<1>2. /\ MapArgs /\ ChannelInv /\ FillInv /\ TasksInv
      /\ in = {} /\ state = Before(taken) /\ result = {}
  BY <1>1 DEF RunInv, StageInv, BetweenTasks
<1>3. /\ i \in Nat /\ taken \in Nat /\ n \in Nat /\ n >= 1 /\ DOMAIN chan = 1..n
      /\ taken + n = i + (IF Marked THEN 1 ELSE 0)
      /\ Marked' = Marked
      /\ numrows \in Nat
  <2>1. chan \in Seq(Nat \union {EOS})
    BY <1>2 DEF ChannelInv
  <2>2. n >= 1
    BY <1>1, <2>1
  <2> QED BY <1>1, <1>2, <2>2, ChannelFacts DEF Marked, MapArgs
<1>4. /\ chan' \in Seq(Nat \union {EOS}) /\ Len(chan') = n - 1 /\ DOMAIN chan' = 1..(n - 1)
      /\ \A k \in 1..(n - 1) : chan'[k] = chan[k + 1]
      /\ Head(chan) = chan[1]
  <2>1. chan \in Seq(Nat \union {EOS})
    BY <1>2 DEF ChannelInv
  <2> QED BY <1>1, <2>1
<1>5. \A k \in 1..n : chan[k] = IF Marked /\ k = n THEN EOS ELSE taken + k - 1
  BY <1>2, <1>3 DEF ChannelInv
<1>6. /\ Head(chan) = taken /\ (Marked => n >= 2) /\ taken < i
  <2>1. chan[1] = IF Marked /\ 1 = n THEN EOS ELSE taken + 1 - 1
    <3>1. 1 \in 1..n
      BY <1>3
    <3> HIDE DEF n
    <3> QED BY <1>5, <3>1
  <2> QED BY <1>1, <1>3, <1>4, <2>1
<1>7. taken' = taken + 1
  BY <1>1, <1>3, <1>4 DEF taken
<1>8. ChannelInv'
  <2>1. ASSUME NEW k \in 1..(n - 1)
        PROVE  chan'[k] = IF Marked /\ k = n - 1 THEN EOS ELSE (taken + 1) + k - 1
    <3>1. k + 1 \in 1..n /\ (k + 1 = n <=> k = n - 1)
      BY <1>3
    <3>2. chan[k + 1] = IF Marked /\ k + 1 = n THEN EOS ELSE taken + (k + 1) - 1
      BY <1>5, <3>1
    <3>3. taken + (k + 1) - 1 = (taken + 1) + k - 1
      BY <1>3
    <3> QED BY <1>4, <3>1, <3>2, <3>3
  <2>2. Marked => chan' # <<>>
    BY <1>3, <1>4, <1>6
  <2>3. taken' \in 0..i
    BY <1>3, <1>6, <1>7
  <2> QED BY <1>1, <1>2, <1>3, <1>4, <1>7, <2>1, <2>2, <2>3, SameArgs DEF ChannelInv
<1>9. FillInv' /\ MapArgs'
  BY <1>1, <1>2, SameArgs DEF FillInv
<1>10. TasksInv'
  <2>1. taken..(i - 1) = {taken} \union ((taken + 1)..(i - 1))
    BY <1>3, <1>6
  <2>2. Sent' = Sent
    BY <1>1, <1>2, <1>6, <1>7, <2>1 DEF Sent
  <2> QED BY <1>1, <1>2, <2>2, SameArgs DEF TasksInv
<1>11. InSvc'
  <2>1. Shares' /\ last' = numrows /\ Done' = {}
    BY <1>1, <1>2, <1>3, LoopStart
  <2>2. state' = Vector(taken)
    BY <1>1, <1>2, <1>3, VectorProperties
  <2>3. Rows(temp)' = {} /\ Rows(sum)' = {}
    BY <1>1 DEF Rows
  <2>4. taken' - 1 = taken /\ taken' >= 1
    BY <1>3, <1>7
  <2>5. Vector(taken - 1)' = Vector(taken)
    <3>1. /\ IsMy' = IsMy /\ numrows' = numrows
          /\ Size(taken - 1 + 1)' = Size(taken + 1)
      BY <1>1, <2>4, SameArgs DEF Size
    <3>2. Earlier(taken - 1)' = Earlier(taken)
      BY <2>4 DEF Earlier
    <3> QED BY <3>1, <3>2 DEF Vector
  <2>6. numrows' = numrows /\ IsMy' = IsMy
    BY <1>1, SameArgs
  <2> QED BY <1>1, <1>6, <2>1, <2>2, <2>3, <2>4, <2>5, <2>6 DEF InSvc
<1>12. StageInv'
  BY <1>1, <1>2, <1>11 DEF StageInv
<1> QED BY <1>8, <1>9, <1>10, <1>12 DEF RunInv

LEMMA CombineRun ==
    ASSUME RunInv, NEW w \in Threads, Combine(w)
    PROVE  RunInv'
<1> DEFINE t == taken - 1
           k == share[w].from
           combined == [row |-> k, elems |-> Elements]
<1>1. /\ stage = "multiply" /\ Iterate(w) /\ stage' = stage
      /\ IF IsMy THEN temp' = temp \union {combined} /\ sum' = sum
                 ELSE sum' = sum \union {combined} /\ temp' = temp
      /\ UNCHANGED <<cmd, genVars, tasks, chan, in, state, result>>
  BY DEF Combine
<1>2. /\ InSvc /\ Shares /\ taken \in Nat /\ taken >= 1 /\ in = {t}
      /\ t \in Nat /\ MapArgs /\ result = {}
  BY <1>1, SvcFacts
<1>3. /\ MapArgs' /\ ChannelInv' /\ FillInv' /\ TasksInv'
      /\ taken' = taken
  BY <1>1, GeneratorSame
<1>4. Shares' /\ last' = last /\ Done' = Done \union {k}
  BY <1>1, <1>2, LoopIterate
<1>5. /\ \A c \in temp \union sum : c.elems = Met(t)
      /\ last = numrows /\ state = Vector(t)
      /\ IF IsMy THEN Rows(temp) = Done /\ sum = {} ELSE Rows(sum) = Done
  BY <1>1, <1>2 DEF InSvc
<1>6. combined.elems = Met(t) /\ combined.row = k
  <2>1. Elements = Met(t)
    BY <1>2, <1>5, ElementsMet
  <2> QED BY <2>1
<1> HIDE DEF combined
<1>7. \A c \in temp' \union sum' : c.elems = Met(t)
  BY <1>1, <1>5, <1>6
<1>8. IF IsMy THEN Rows(temp)' = Done' /\ sum' = {} ELSE Rows(sum)' = Done'
  <2>1. Rows(temp \union {combined}) = Rows(temp) \union {k}
    BY <1>6 DEF Rows
  <2>2. Rows(sum \union {combined}) = Rows(sum) \union {k}
    BY <1>6 DEF Rows
  <2>3. IsMy => Rows(temp)' = Rows(temp \union {combined}) /\ sum' = sum
    BY <1>1 DEF Rows
  <2>4. ~IsMy => Rows(sum)' = Rows(sum \union {combined})
    BY <1>1 DEF Rows
  <2> QED BY <1>4, <1>5, <2>1, <2>2, <2>3, <2>4
<1>9. InSvc'
  <2>1. Met(t)' = Met(t) /\ Vector(t)' = Vector(t) /\ IsMy' = IsMy /\ numrows' = numrows
    BY <1>1, <1>3, SameArgs DEF Met, Before, Vector, Size, Earlier
  <2> QED BY <1>1, <1>2, <1>3, <1>4, <1>5, <1>7, <1>8, <2>1 DEF InSvc
<1>10. StageInv'
  BY <1>1, <1>2, <1>9 DEF StageInv
<1> QED BY <1>3, <1>10 DEF RunInv

LEMMA ReduceRun ==
    ASSUME RunInv, NEW w \in Threads, Reduce(w)
    PROVE  RunInv'
<1> DEFINE t == taken - 1
           k == share[w].from
           more == {c \in temp : c.row = k}
<1>1. /\ stage = "reduce" /\ Iterate(w) /\ stage' = stage
      /\ sum' = sum \union more
      /\ UNCHANGED <<cmd, genVars, tasks, chan, in, state, temp, result>>
  BY DEF Reduce
<1>2. /\ InSvc /\ Shares /\ taken \in Nat /\ taken >= 1 /\ in = {t}
      /\ t \in Nat /\ MapArgs /\ result = {}
  BY <1>1, SvcFacts
<1>3. /\ MapArgs' /\ ChannelInv' /\ FillInv' /\ TasksInv'
      /\ taken' = taken
  BY <1>1, GeneratorSame
<1>4. Shares' /\ last' = last /\ Done' = Done \union {k} /\ k \in 0..(last - 1)
  BY <1>1, <1>2, LoopIterate
<1>5. /\ \A c \in temp \union sum : c.elems = Met(t)
      /\ last = numrows /\ state = Vector(t)
      /\ IsMy /\ Rows(temp) = AllRows /\ sum \subseteq temp /\ Rows(sum) = Done
  BY <1>1, <1>2 DEF InSvc
<1>6. Rows(sum)' = Done'
  <2>1. k \in Rows(temp)
    BY <1>4, <1>5 DEF AllRows
  <2>2. Rows(more) = {k}
    BY <2>1 DEF Rows
  <2>3. Rows(sum \union more) = Rows(sum) \union Rows(more)
    BY DEF Rows
  <2>4. Rows(sum)' = Rows(sum \union more)
    BY <1>1 DEF Rows
  <2> QED BY <1>4, <1>5, <2>2, <2>3, <2>4
<1>7. /\ sum' \subseteq temp /\ temp' = temp
      /\ \A c \in temp' \union sum' : c.elems = Met(t)
  BY <1>1, <1>5
<1>8. InSvc'
  <2>1. /\ Met(t)' = Met(t) /\ Vector(t)' = Vector(t) /\ IsMy' = IsMy /\ numrows' = numrows
        /\ AllRows' = AllRows /\ Rows(temp)' = Rows(temp)
    BY <1>1, <1>3, SameArgs DEF Met, Before, Vector, Size, Earlier, Rows
  <2> QED BY <1>1, <1>2, <1>3, <1>4, <1>5, <1>6, <1>7, <2>1 DEF InSvc
<1>9. StageInv'
  BY <1>1, <1>2, <1>8 DEF StageInv
<1> QED BY <1>3, <1>9 DEF RunInv

LEMMA UpdateRun ==
    ASSUME RunInv, NEW w \in Threads, Update(w)
    PROVE  RunInv'
<1> DEFINE t == taken - 1
           k == share[w].from
           n == Size(taken)
<1>1. /\ stage = "update" /\ Iterate(w) /\ stage' = stage
      /\ \E s \in in : state' = [state EXCEPT ![k + 1] = Append(@, s)]
      /\ UNCHANGED <<cmd, genVars, tasks, chan, in, temp, sum, result>>
  BY DEF Update
<1>2. /\ InSvc /\ Shares /\ taken \in Nat /\ taken >= 1 /\ in = {t}
      /\ t \in Nat /\ MapArgs /\ result = {} /\ numrows \in Nat /\ columnsize \in Nat
      /\ taken = t + 1
  BY <1>1, SvcFacts
<1>3. /\ MapArgs' /\ ChannelInv' /\ FillInv' /\ TasksInv'
      /\ taken' = taken
  BY <1>1, GeneratorSame
<1>4. /\ Shares' /\ last' = last /\ Done' = Done \union {k}
      /\ k \in 0..(last - 1) /\ k \notin Done /\ last \in Nat
  BY <1>1, <1>2, LoopIterate DEF Shares
<1>5. /\ \A c \in temp \union sum : c.elems = Met(t)
      /\ last = IF IsMy THEN numrows ELSE columnsize
      /\ Rows(sum) = AllRows
      /\ state = [j \in 1..n |-> IF j - 1 \in Done THEN Earlier(taken) ELSE Vector(t)[j]]
  BY <1>1, <1>2 DEF InSvc
<1>6. last <= n /\ n \in Nat
  <2>1. IsMy => numrows <= n
    BY <1>2, BeforeProperties
  <2>2. ~IsMy => n = columnsize
    BY DEF Size
  <2> QED BY <1>2, <1>5, <2>1, <2>2, BeforeProperties
<1> HIDE DEF n
<1>7. k + 1 \in 1..n /\ (k + 1) - 1 = k /\ k \in Nat
  BY <1>4, <1>6
<1>8. Vector(t)[k + 1] = Earlier(t)
  <2>1. k + 1 \in 1..Size(t + 1)
    BY <1>2, <1>7 DEF n
  <2>2. ~(IsMy /\ k + 1 > numrows)
    BY <1>2, <1>4, <1>5
  <2> QED BY <2>1, <2>2 DEF Vector
<1>9. Append(Earlier(t), t) = Earlier(taken)
  <2>1. Earlier(t) \in Seq(Nat) /\ Len(Earlier(t)) = t
    BY <1>2 DEF Earlier
  <2>2. Append(Earlier(t), t) \in [1..(t + 1) -> Nat] /\ DOMAIN Earlier(taken) = 1..(t + 1)
    <3>1. Append(Earlier(t), t) \in Seq(Nat) /\ Len(Append(Earlier(t), t)) = t + 1
      BY <1>2, <2>1
    <3>2. \A u \in Seq(Nat) : u \in [1..Len(u) -> Nat]
      OBVIOUS
    <3> QED BY <1>2, <3>1, <3>2 DEF Earlier
  <2>3. \A j \in 1..(t + 1) : Append(Earlier(t), t)[j] = j - 1
    <3>1. \A j \in 1..t : Append(Earlier(t), t)[j] = Earlier(t)[j] /\ Earlier(t)[j] = j - 1
      BY <1>2, <2>1 DEF Earlier
    <3>2. Append(Earlier(t), t)[t + 1] = t
      BY <1>2, <2>1
    <3> QED BY <1>2, <3>1, <3>2
  <2>4. Earlier(taken) = [j \in 1..(t + 1) |-> j - 1]
    BY <1>2 DEF Earlier
  <2> QED BY <2>2, <2>3, <2>4
<1>10. state' = [j \in 1..n |-> IF j - 1 \in Done' THEN Earlier(taken) ELSE Vector(t)[j]]
  <2>1. state' = [state EXCEPT ![k + 1] = Append(@, t)]
    BY <1>1, <1>2
  <2>2. state[k + 1] = Earlier(t)
    BY <1>4, <1>5, <1>7, <1>8
  <2>3. state' = [j \in 1..n |-> IF j = k + 1 THEN Earlier(taken) ELSE state[j]]
    BY <1>5, <1>7, <1>9, <2>1, <2>2
  <2>4. ASSUME NEW j \in 1..n
        PROVE  (IF j = k + 1 THEN Earlier(taken) ELSE state[j])
                 = IF j - 1 \in Done' THEN Earlier(taken) ELSE Vector(t)[j]
    <3>1. j - 1 \in Done' <=> j - 1 \in Done \/ j = k + 1
      BY <1>4, <1>6, <1>7
    <3> QED BY <1>5, <3>1
  <2> QED BY <2>3, <2>4
<1>11. InSvc'
  <2>1. /\ Met(t)' = Met(t) /\ Vector(t)' = Vector(t) /\ IsMy' = IsMy /\ numrows' = numrows
        /\ AllRows' = AllRows /\ Rows(sum)' = Rows(sum)
        /\ Size(taken)' = n /\ Earlier(taken)' = Earlier(taken)
    BY <1>1, <1>3, SameArgs DEF Met, Before, Vector, Size, Earlier, Rows, n
  <2> QED BY <1>1, <1>2, <1>3, <1>4, <1>5, <1>10, <2>1 DEF InSvc
<1>12. StageInv'
  BY <1>1, <1>2, <1>11 DEF StageInv
<1> QED BY <1>3, <1>12 DEF RunInv

\* The first loop is over when every row has been combined.
LEMMA EndMultiplyRun ==
    ASSUME RunInv, EndMultiply
    PROVE  RunInv'
<1> DEFINE t == taken - 1
           n == IF IsMy THEN numrows ELSE columnsize
<1>1. /\ stage = "multiply" /\ LoopDone
      /\ stage' = IF IsMy THEN "reduce" ELSE "update"
      /\ StartLoop(nworkers, 0, n, 0)
      /\ UNCHANGED <<cmd, genVars, tasks, chan, in, state, temp, sum, result>>
  BY DEF EndMultiply
<1>2. /\ InSvc /\ Shares /\ taken \in Nat /\ taken >= 1 /\ in = {t}
      /\ t \in Nat /\ MapArgs /\ result = {} /\ n \in Nat /\ taken = t + 1
  BY <1>1, SvcFacts
<1>3. /\ MapArgs' /\ ChannelInv' /\ FillInv' /\ TasksInv'
      /\ taken' = taken
  BY <1>1, GeneratorSame
<1>4. Shares' /\ last' = n /\ Done' = {}
  BY <1>1, <1>2, LoopStart
<1>5. /\ \A c \in temp \union sum : c.elems = Met(t)
      /\ last = numrows /\ state = Vector(t)
      /\ IF IsMy THEN Rows(temp) = Done /\ sum = {} ELSE Rows(sum) = Done
  BY <1>1, <1>2 DEF InSvc
<1>6. Done = AllRows
  BY <1>1, <1>2, <1>5, LoopOver DEF AllRows
<1>7. state = [j \in 1..Size(taken) |-> IF j - 1 \in {} THEN Earlier(taken) ELSE Vector(t)[j]]
  BY <1>2, <1>5 DEF Vector
<1>8. InSvc'
  <2>1. /\ Met(t)' = Met(t) /\ Vector(t)' = Vector(t) /\ IsMy' = IsMy /\ numrows' = numrows
        /\ AllRows' = AllRows /\ Rows(sum)' = Rows(sum) /\ Rows(temp)' = Rows(temp)
        /\ Size(taken)' = Size(taken) /\ Earlier(taken)' = Earlier(taken)
    BY <1>1, <1>3, SameArgs DEF Met, Before, Vector, Size, Earlier, Rows
  <2>2. CASE IsMy
    <3>1. Rows(sum) = {} /\ sum \subseteq temp /\ last' = numrows
      BY <1>4, <1>5, <2>2 DEF Rows
    <3> QED BY <1>1, <1>2, <1>3, <1>4, <1>5, <1>6, <2>1, <2>2, <3>1 DEF InSvc
  <2>3. CASE ~IsMy
    BY <1>1, <1>2, <1>3, <1>4, <1>5, <1>6, <1>7, <2>1, <2>3 DEF InSvc
  <2> QED BY <2>2, <2>3
<1>9. StageInv'
  BY <1>1, <1>2, <1>8 DEF StageInv
<1> QED BY <1>3, <1>9 DEF RunInv

LEMMA EndReduceRun ==
    ASSUME RunInv, EndReduce
    PROVE  RunInv'
<1> DEFINE t == taken - 1
<1>1. /\ stage = "reduce" /\ LoopDone /\ stage' = "update"
      /\ StartLoop(nworkers, 0, numrows, 0)
      /\ UNCHANGED <<cmd, genVars, tasks, chan, in, state, temp, sum, result>>
  BY DEF EndReduce
<1>2. /\ InSvc /\ Shares /\ taken \in Nat /\ taken >= 1 /\ in = {t}
      /\ t \in Nat /\ MapArgs /\ result = {} /\ numrows \in Nat /\ taken = t + 1
  BY <1>1, SvcFacts
<1>3. /\ MapArgs' /\ ChannelInv' /\ FillInv' /\ TasksInv'
      /\ taken' = taken
  BY <1>1, GeneratorSame
<1>4. Shares' /\ last' = numrows /\ Done' = {}
  BY <1>1, <1>2, LoopStart
<1>5. /\ \A c \in temp \union sum : c.elems = Met(t)
      /\ last = numrows /\ state = Vector(t)
      /\ IsMy /\ Rows(sum) = Done
  BY <1>1, <1>2 DEF InSvc
<1>6. Done = AllRows
  BY <1>1, <1>2, <1>5, LoopOver DEF AllRows
<1>7. state = [j \in 1..Size(taken) |-> IF j - 1 \in {} THEN Earlier(taken) ELSE Vector(t)[j]]
  BY <1>2, <1>5 DEF Vector
<1>8. InSvc'
  <2>1. /\ Met(t)' = Met(t) /\ Vector(t)' = Vector(t) /\ IsMy' = IsMy /\ numrows' = numrows
        /\ AllRows' = AllRows /\ Rows(sum)' = Rows(sum)
        /\ Size(taken)' = Size(taken) /\ Earlier(taken)' = Earlier(taken)
    BY <1>1, <1>3, SameArgs DEF Met, Before, Vector, Size, Earlier, Rows
  <2> QED BY <1>1, <1>2, <1>3, <1>4, <1>5, <1>6, <1>7, <2>1 DEF InSvc
<1>9. StageInv'
  BY <1>1, <1>2, <1>8 DEF StageInv
<1> QED BY <1>3, <1>9 DEF RunInv

\* Every element has been updated: the vector is the one the next task is to
\* meet.
LEMMA EndUpdateRun ==
    ASSUME RunInv, EndUpdate
    PROVE  RunInv'
<1> DEFINE t == taken - 1
           n == Size(taken)
<1>1. /\ stage = "update" /\ LoopDone /\ stage' = "svc" /\ in' = {}
      /\ tasks' = IF IsMy THEN tasks ELSE Restrict(tasks, DOMAIN tasks \ in)
      /\ UNCHANGED <<cmd, genVars, chan, state, result>>
      /\ UNCHANGED <<i, genShare, gen>> /\ cmd' = cmd
  BY DEF EndUpdate, genVars
<1>2. /\ InSvc /\ Shares /\ taken \in Nat /\ taken >= 1 /\ in = {t}
      /\ t \in Nat /\ MapArgs /\ result = {} /\ numrows \in Nat /\ columnsize \in Nat
      /\ taken = t + 1
  BY <1>1, SvcFacts
<1>3. Marked' = Marked /\ taken' = taken
  BY <1>1 DEF Marked, taken
<1>4. MapArgs' /\ ChannelInv'
  BY <1>1, <1>3, SameArgs DEF RunInv, ChannelInv
<1>5. i \in Nat /\ taken <= i
  BY ChannelFacts DEF RunInv
<1>6. Sent = Sent' \union {t} /\ t \notin Sent' /\ t # i
  BY <1>1, <1>2, <1>3, <1>5 DEF Sent
<1>7. TasksInv' /\ FillInv'
  <2>1. CASE IsMy
    BY <1>1, <2>1, SameArgs DEF RunInv, TasksInv, FillInv
  <2>2. CASE ~IsMy
    <3>1. /\ DOMAIN tasks = Sent \union (IF gen = "fill" THEN {i} ELSE {})
          /\ \A s \in Sent : tasks[s] \in {s + Half - 1, s + TaskSize - 1}
      BY <2>2 DEF RunInv, TasksInv
    <3>2. /\ tasks' = [s \in DOMAIN tasks \ {t} |-> tasks[s]]
          /\ ~IsMy' /\ Half' = Half /\ TaskSize' = TaskSize /\ streamlen' = streamlen
      BY <1>1, <1>2, <2>2, SameArgs DEF Restrict
    <3>3. DOMAIN tasks' = Sent' \union (IF gen = "fill" THEN {i} ELSE {})
      BY <1>6, <3>1, <3>2
    <3>4. TasksInv'
      BY <1>1, <1>6, <3>1, <3>2, <3>3 DEF TasksInv
    <3>5. gen = "fill" => tasks'[i] = tasks[i]
      BY <1>6, <3>1, <3>2
    <3>6. FillInv'
      BY <1>1, <3>2, <3>5 DEF RunInv, FillInv
    <3> QED BY <3>4, <3>6
  <2> QED BY <2>1, <2>2
<1>8. state = Before(taken)
  <2>1. /\ last = IF IsMy THEN numrows ELSE columnsize
        /\ state = [j \in 1..n |-> IF j - 1 \in Done THEN Earlier(taken) ELSE Vector(t)[j]]
    BY <1>1, <1>2 DEF InSvc
  <2>2. Done = 0..(last - 1)
    BY <1>1, <1>2, LoopOver
  <2>3. ASSUME NEW j \in 1..n
        PROVE  (IF j - 1 \in Done THEN Earlier(taken) ELSE Vector(t)[j])
                 = IF IsMy /\ j > numrows THEN <<>> ELSE Earlier(taken)
    <3>1. CASE IsMy
      <4>1. j - 1 \in Done <=> ~(j > numrows)
        BY <1>2, <2>1, <2>2, <3>1
      <4>2. j > numrows => Vector(t)[j] = <<>>
        BY <1>2, <3>1 DEF Vector
      <4> QED BY <3>1, <4>1, <4>2
    <3>2. CASE ~IsMy
      <4>1. n = columnsize
        BY <3>2 DEF Size
      <4> QED BY <1>2, <2>1, <2>2, <3>2, <4>1
    <3> QED BY <3>1, <3>2
  <2>4. Before(taken) = [j \in 1..n |-> IF IsMy /\ j > numrows THEN <<>> ELSE Earlier(taken)]
    BY <1>2, BeforeProperties
  <2> HIDE DEF n
  <2> QED BY <2>1, <2>3, <2>4
<1>9. BetweenTasks'
  <2>1. Before(taken)' = Before(taken)
    BY <1>1, <1>3, SameArgs DEF Before
  <2> QED BY <1>1, <1>8, <2>1 DEF BetweenTasks
<1>10. StageInv'
  BY <1>1, <1>2, <1>9 DEF StageInv
<1> QED BY <1>4, <1>7, <1>10 DEF RunInv

LEMMA EndStreamRun ==
    ASSUME RunInv, EndStream
    PROVE  RunInv'
<1> DEFINE n == Len(chan)
<1>1. /\ stage = "svc" /\ chan # <<>> /\ Head(chan) = EOS
      /\ chan' = Tail(chan) /\ stage' = "svc_end"
      /\ StartLoop(nworkers, 0, Len(state), 0)
      /\ UNCHANGED <<cmd, genVars, tasks, in, state, temp, sum, result>>
      /\ UNCHANGED <<i, genShare, gen>> /\ cmd' = cmd
  BY DEF EndStream, genVars
<1>2. /\ MapArgs /\ ChannelInv /\ FillInv /\ TasksInv
      /\ in = {} /\ state = Before(taken) /\ result = {}
  BY <1>1 DEF RunInv, StageInv, BetweenTasks
<1>3. /\ i \in Nat /\ taken \in Nat /\ n \in Nat /\ n >= 1 /\ DOMAIN chan = 1..n
      /\ taken + n = i + (IF Marked THEN 1 ELSE 0)
      /\ Head(chan) = chan[1]
  <2>1. chan \in Seq(Nat \union {EOS})
    BY <1>2 DEF ChannelInv
  <2>2. n >= 1 /\ Head(chan) = chan[1]
    BY <1>1, <2>1
  <2> QED BY <1>2, <2>2, ChannelFacts
<1>4. Marked /\ n = 1
  <2>1. 1 \in 1..n
    BY <1>3
  <2>2. chan[1] = IF Marked /\ 1 = n THEN EOS ELSE taken + 1 - 1
    <3> HIDE DEF n
    <3>1. \A k \in 1..n : chan[k] = IF Marked /\ k = n THEN EOS ELSE taken + k - 1
      BY <1>2, <1>3 DEF ChannelInv, n
    <3> QED BY <2>1, <3>1
  <2>3. taken + 1 - 1 # EOS
    <3>1. taken + 1 - 1 \in Nat
      BY <1>3
    <3> QED BY <3>1, EOSAssumption
  <2> QED BY <1>1, <1>3, <2>2, <2>3
<1>5. /\ chan' = <<>> /\ gen = "ended" /\ i = streamlen /\ taken = i
      /\ ~Marked' /\ taken' = i
  <2>1. gen = "ended" /\ i = streamlen
    BY <1>2, <1>4 DEF ChannelInv, Marked
  <2>2. chan' = <<>> /\ Len(chan') = 0
    <3>1. chan \in Seq(Nat \union {EOS})
      BY <1>2 DEF ChannelInv
    <3> QED BY <1>1, <1>4, <3>1
  <2>3. taken = i
    BY <1>3, <1>4
  <2>4. ~Marked'
    BY <1>1 DEF Marked
  <2> QED BY <1>1, <1>3, <2>1, <2>2, <2>3, <2>4 DEF taken
<1>6. ChannelInv'
  <2>1. chan' \in Seq(Nat \union {EOS}) /\ DOMAIN chan' = {}
    BY <1>5
  <2> QED BY <1>1, <1>2, <1>3, <1>5, <2>1, SameArgs DEF ChannelInv
<1>7. FillInv' /\ MapArgs' /\ TasksInv'
  <2>1. Sent' = Sent
    BY <1>1, <1>5 DEF Sent
  <2> QED BY <1>1, <1>2, <1>5, <2>1, SameArgs DEF FillInv, TasksInv
<1>8. InSvcEnd'
  <2>1. state = Before(streamlen) /\ Len(state) \in Nat
    BY <1>2, <1>3, <1>5, BeforeProperties
  <2>2. Shares' /\ last' = Len(state) /\ Done' = {}
    BY <1>1, <1>2, <2>1, LoopStart
  <2>3. Before(streamlen)' = Before(streamlen)
    BY <1>1, SameArgs DEF Before
  <2> QED BY <1>1, <1>2, <1>5, <2>1, <2>2, <2>3 DEF InSvcEnd
<1>9. StageInv'
  BY <1>1, <1>8 DEF StageInv
<1> QED BY <1>6, <1>7, <1>9 DEF RunInv

\* The sum over the vector.
LEMMA SvcEndFacts ==
    ASSUME RunInv, stage = "svc_end"
    PROVE  /\ gen = "ended" /\ chan = <<>> /\ in = {} /\ state = Before(streamlen)
           /\ Shares /\ last = Len(state) /\ result = {k + 1 : k \in Done}
           /\ cmd' = cmd => Before(streamlen)' = Before(streamlen)
           /\ DOMAIN state = 1..last /\ last \in Nat
<1>1. InSvcEnd /\ MapArgs
  BY DEF RunInv, StageInv
<1>2. cmd' = cmd => Before(streamlen)' = Before(streamlen)
  BY SameArgs DEF Before
<1>3. state = Before(streamlen) /\ streamlen \in Nat
  BY <1>1 DEF InSvcEnd, MapArgs
<1>4. DOMAIN state = 1..Len(state) /\ Len(state) \in Nat
  BY <1>1, <1>3, BeforeProperties
<1> QED BY <1>1, <1>2, <1>4 DEF InSvcEnd

LEMMA TotalRun ==
    ASSUME RunInv, NEW w \in Threads, Total(w)
    PROVE  RunInv'
<1> DEFINE k == share[w].from
<1>1. /\ stage = "svc_end" /\ Iterate(w) /\ stage' = stage
      /\ result' = result \union {k + 1}
      /\ UNCHANGED <<cmd, genVars, tasks, chan, in, state>>
      /\ UNCHANGED gen /\ cmd' = cmd
  BY DEF Total, genVars
<1>2. /\ MapArgs' /\ ChannelInv' /\ FillInv' /\ TasksInv'
  BY <1>1, GeneratorSame
<1>3. /\ gen = "ended" /\ chan = <<>> /\ in = {} /\ state = Before(streamlen)
      /\ Shares /\ last = Len(state) /\ result = {m + 1 : m \in Done}
      /\ Before(streamlen)' = Before(streamlen)
  BY <1>1, SvcEndFacts
<1>4. Shares' /\ last' = last /\ Done' = Done \union {k}
  BY <1>1, <1>3, LoopIterate
<1>5. result' = {m + 1 : m \in Done'}
  BY <1>1, <1>3, <1>4
<1>6. InSvcEnd'
  BY <1>1, <1>3, <1>4, <1>5 DEF InSvcEnd
<1>7. StageInv'
  BY <1>1, <1>6 DEF StageInv
<1> QED BY <1>2, <1>7 DEF RunInv

LEMMA EndTotalRun ==
    ASSUME RunInv, EndTotal
    PROVE  RunInv'
<1>1. /\ stage = "svc_end" /\ LoopDone /\ stage' = "ended"
      /\ UNCHANGED <<cmd, genVars, tasks, chan, in, state, result>>
      /\ UNCHANGED gen /\ cmd' = cmd
  BY DEF EndTotal, genVars
<1>2. /\ MapArgs' /\ ChannelInv' /\ FillInv' /\ TasksInv'
  BY <1>1, GeneratorSame
<1>3. /\ gen = "ended" /\ chan = <<>> /\ in = {} /\ state = Before(streamlen)
      /\ Shares /\ result = {m + 1 : m \in Done}
      /\ Before(streamlen)' = Before(streamlen)
      /\ DOMAIN state = 1..last /\ last \in Nat
  BY <1>1, SvcEndFacts
<1>4. result = DOMAIN state
  <2>1. Done = 0..(last - 1)
    BY <1>1, <1>3, LoopOver
  <2>2. \A j \in 1..last : j - 1 \in 0..(last - 1) /\ (j - 1) + 1 = j
    BY <1>3
  <2>3. \A m \in 0..(last - 1) : m + 1 \in 1..last
    BY <1>3
  <2> QED BY <1>3, <2>1, <2>2, <2>3
<1>5. InSvcEnd'
  BY <1>1, <1>3, <1>4 DEF InSvcEnd
<1>6. StageInv'
  BY <1>1, <1>5 DEF StageInv
<1> QED BY <1>2, <1>6 DEF RunInv

----------------------------------------------------------------------------
\* The whole program.

LEMMA InitMap == ASSUME Init PROVE MapInv
BY DEF Init, MapInv, Nothing

LEMMA MainMap ==
    ASSUME MapInv, Main
    PROVE  MapInv'
<1>1. /\ main = "parse" /\ cmd' = cmd /\ main' \in {"usage", "aborted", "running"}
      /\ main' = "running" => Len(args) >= IF IsMy THEN 4 ELSE 3
      /\ state' = IF ~IsMy /\ main' = "running" THEN [j \in 1..columnsize |-> <<>>] ELSE state
      /\ UNCHANGED <<genVars, tasks, chan, stage, in, temp, sum, result, loopVars>>
      /\ UNCHANGED <<i, genShare, gen>>
  <2>1. main' \in {"usage", "aborted", "running"}
    BY DEF Main
  <2>2. ASSUME main' = "running" PROVE ~(Len(args) < IF IsMy THEN 4 ELSE 3)
    BY <2>2 DEF Main
  <2>3. Len(args) \in Nat
    BY CommandLinesAssumption DEF MapInv, args
  <2>4. main' = "running" => Len(args) >= IF IsMy THEN 4 ELSE 3
    BY <2>2, <2>3
  <2> QED BY <2>1, <2>4 DEF Main, genVars
<1>2. Nothing /\ state = <<>> /\ cmd \in CommandLines
  BY <1>1 DEF MapInv
<1>3. Nothing'
  BY <1>1, <1>2 DEF Nothing
<1>4. CASE main' # "running"
  BY <1>1, <1>2, <1>3, <1>4 DEF MapInv
<1>5. CASE main' = "running"
  <2>1. MapArgs
    BY <1>1, <1>2, <1>5, MapArgsType
  <2>2. MapArgs' /\ IsMy' = IsMy /\ streamlen' = streamlen
    BY <1>1, <2>1, SameArgs
  <2>3. ~Marked' /\ Len(chan') = 0 /\ taken' = 0
    <3>1. ~Marked' /\ i' = 0 /\ chan' = <<>>
      BY <1>3 DEF Nothing, Marked
    <3>2. Len(chan') = 0
      BY <3>1
    <3>3. taken' = 0 - 0 + 0
      BY <3>1, <3>2 DEF taken
    <3> QED BY <3>1, <3>2, <3>3
  <2>4. ChannelInv'
    <3>1. streamlen \in Nat /\ 0 \in 0..streamlen /\ 0 \in 0..0
      BY <2>1 DEF MapArgs
    <3> QED BY <1>3, <2>2, <2>3, <3>1 DEF Nothing, ChannelInv
  <2>5. Sent' = {} /\ DOMAIN tasks' = {}
    <3>1. 0..(0 - 1) = {}
      OBVIOUS
    <3>2. DOMAIN tasks' = {}
      BY <1>3 DEF Nothing
    <3> QED BY <1>3, <2>3, <3>1, <3>2 DEF Nothing, Sent
  <2>6. TasksInv' /\ FillInv'
    BY <1>3, <2>5 DEF Nothing, TasksInv, FillInv
  <2>7. Earlier(0) = <<>>
    BY DEF Earlier
  <2>8. state' = Before(0)
    <3>1. CASE IsMy
      <4>1. Size(0) = 0 /\ DOMAIN Before(0) = 1..Size(0)
            /\ Before(0) = [j \in 1..Size(0) |->
                                IF IsMy /\ j > numrows THEN <<>> ELSE Earlier(0)]
        BY <2>1, <3>1, BeforeProperties
      <4>2. Before(0) = <<>>
        BY <4>1
      <4> QED BY <1>1, <1>2, <3>1, <4>2
    <3>2. CASE ~IsMy
      <4>1. Before(0) = [j \in 1..columnsize |-> Earlier(0)]
        BY <3>2 DEF Before, Earlier
      <4> QED BY <1>1, <1>5, <2>7, <3>2, <4>1
    <3> QED BY <3>1, <3>2
  <2>9. BetweenTasks'
    <3>1. Before(0)' = Before(0)
      BY <1>1, SameArgs DEF Before
    <3>2. Before(taken)' = Before(0)'
      BY <2>3
    <3> QED BY <1>3, <2>8, <3>1, <3>2 DEF BetweenTasks, Nothing
  <2>10. StageInv'
    BY <1>3, <2>9 DEF Nothing, StageInv
  <2> QED BY <1>1, <1>2, <1>5, <2>2, <2>4, <2>6, <2>10 DEF MapInv, RunInv
<1> QED BY <1>4, <1>5

\* Exit, and steps that change nothing.
LEMMA RunSame ==
    ASSUME RunInv, UNCHANGED <<cmd, genVars, tasks, chan, stageVars>>
    PROVE  RunInv'
<1>1. UNCHANGED <<stage, in, state, temp, sum, result, share, undealt, last, gen>>
      /\ cmd' = cmd
  BY DEF stageVars, loopVars, genVars
<1>2. MapArgs' /\ ChannelInv' /\ FillInv' /\ TasksInv' /\ taken' = taken
  BY <1>1, GeneratorSame
<1>3. StageInv'
  BY <1>1, <1>2, StageSame DEF RunInv
<1> QED BY <1>2, <1>3 DEF RunInv

LEMMA ExitMap ==
    ASSUME MapInv, Exit
    PROVE  MapInv'
<1>1. /\ main = "running" /\ main' = "exit" /\ stage = "ended" /\ stage' = stage /\ cmd' = cmd
      /\ UNCHANGED <<cmd, genVars, tasks, chan, stageVars>>
  BY DEF Exit, stageVars
<1>2. RunInv'
  BY <1>1, RunSame DEF MapInv
<1> QED BY <1>1, <1>2 DEF MapInv

LEMMA StutterMap ==
    ASSUME MapInv, UNCHANGED vars
    PROVE  MapInv'
<1>1. /\ main' = main /\ cmd' = cmd /\ UNCHANGED <<cmd, genVars, tasks, chan, stageVars>>
      /\ stage' = stage /\ state' = state
  BY DEF vars, stageVars
<1>2. RunInv => RunInv'
  BY <1>1, RunSame
<1>3. Nothing' = Nothing
  BY DEF vars, genVars, stageVars, Nothing
<1> QED BY <1>1, <1>2, <1>3 DEF MapInv

\* A step of the generator or of the stage.
LEMMA StepMap ==
    ASSUME MapInv, main = "running", main' = main, cmd' = cmd, RunInv'
    PROVE  MapInv'
BY DEF MapInv

LEMMA NextMap ==
    ASSUME MapInv, [Next]_vars
    PROVE  MapInv'
<1>1. CASE MainStep
  BY <1>1, MainMap, ExitMap DEF MainStep
<1>2. CASE GenStep
  <2>1. RunInv /\ main = "running" /\ (NewTask \/ SendTask \/ SendMatrix \/ EndGenerator)
    BY <1>2 DEF GenStep, MapInv
  <2>2. RunInv'
    BY <2>1, NewTaskRun, SendTaskRun, SendMatrixRun, EndGeneratorRun
  <2>3. main' = main /\ cmd' = cmd
    BY <2>1 DEF NewTask, SendTask, SendMatrix, EndGenerator
  <2> QED BY <2>1, <2>2, <2>3, StepMap
<1>3. CASE StageStep
  <2>1. /\ RunInv /\ main = "running"
        /\ Svc \/ EndMultiply \/ EndReduce \/ EndUpdate \/ EndStream \/ EndTotal
    BY <1>3 DEF StageStep, MapInv
  <2>2. RunInv'
    BY <2>1, SvcRun, EndMultiplyRun, EndReduceRun, EndUpdateRun, EndStreamRun, EndTotalRun
  <2>3. main' = main /\ cmd' = cmd
    BY <2>1 DEF Svc, EndMultiply, EndReduce, EndUpdate, EndStream, EndTotal
  <2> QED BY <2>1, <2>2, <2>3, StepMap
<1>4. ASSUME NEW w \in DOMAIN genShare, GenThread(w) PROVE MapInv'
  <2>1. RunInv /\ main = "running" /\ Fill(w)
    BY <1>4 DEF GenThread, MapInv
  <2>2. RunInv'
    BY <2>1, FillRun
  <2>3. main' = main /\ cmd' = cmd
    BY <2>1 DEF Fill
  <2> QED BY <2>1, <2>2, <2>3, StepMap
<1>5. ASSUME NEW w \in Threads, StageThread(w) PROVE MapInv'
  <2>1. RunInv /\ main = "running" /\ (Combine(w) \/ Reduce(w) \/ Update(w) \/ Total(w))
    BY <1>5 DEF StageThread, MapInv
  <2>2. RunInv'
    BY <2>1, CombineRun, ReduceRun, UpdateRun, TotalRun
  <2>3. main' = main /\ cmd' = cmd
    BY <2>1 DEF Combine, Reduce, Update, Total
  <2> QED BY <2>1, <2>2, <2>3, StepMap
<1>6. CASE Terminated \/ UNCHANGED vars
  BY <1>6, StutterMap DEF Terminated
<1> QED BY <1>1, <1>2, <1>3, <1>4, <1>5, <1>6 DEF Next

----------------------------------------------------------------------------
\* What the invariant gives.

LEMMA SequentialHere ==
    ASSUME MapInv
    PROVE  LikeSequential
<1>1. ASSUME NEW t \in in
      PROVE  /\ \A c \in temp \union sum : c.elems = Met(t)
             /\ stage = "update" => {c.row : c \in sum} = 0..(numrows - 1)
  <2>1. RunInv /\ stage \in {"multiply", "reduce", "update"}
    BY <1>1 DEF MapInv, Nothing, RunInv, StageInv, BetweenTasks, InSvcEnd
  <2>2. InSvc /\ in = {taken - 1}
    BY <2>1, SvcFacts
  <2> QED BY <1>1, <2>2 DEF InSvc, Rows, AllRows
<1>2. ASSUME main = "exit"
      PROVE  state = Before(streamlen) /\ result = DOMAIN state
  BY <1>2 DEF MapInv, RunInv, StageInv, InSvcEnd
<1> QED BY <1>1, <1>2 DEF LikeSequential

\* What is in the channel, besides EOS.
LEMMA InChannel ==
    ASSUME ChannelInv, MapArgs
    PROVE  {k \in 0..(i - 1) : \E j \in DOMAIN chan : chan[j] = k} = taken..(i - 1)
<1> DEFINE n == Len(chan)
<1>1. /\ i \in Nat /\ taken \in Nat /\ n \in Nat /\ DOMAIN chan = 1..n
      /\ taken <= i /\ taken + n = i + (IF Marked THEN 1 ELSE 0)
      /\ \A k \in 1..n : chan[k] = IF Marked /\ k = n THEN EOS ELSE taken + k - 1
      /\ EOS \notin Nat
  BY ChannelFacts, EOSAssumption DEF ChannelInv
<1> HIDE DEF n
<1>2. ASSUME NEW k \in 0..(i - 1), NEW j \in 1..n, chan[j] = k
      PROVE  k \in taken..(i - 1)
  BY <1>1, <1>2
<1>3. ASSUME NEW k \in taken..(i - 1)
      PROVE  k \in 0..(i - 1) /\ \E j \in 1..n : chan[j] = k
  <2>1. /\ k - taken + 1 \in 1..n /\ ~(Marked /\ k - taken + 1 = n)
        /\ taken + (k - taken + 1) - 1 = k /\ k \in 0..(i - 1)
    BY <1>1
  <2> QED BY <1>1, <2>1
<1> QED BY <1>1, <1>2, <1>3

LEMMA OwnershipHere ==
    ASSUME MapInv
    PROVE  Ownership
<1> DEFINE sent == {k \in 0..(i - 1) : \E j \in DOMAIN chan : chan[j] = k} \union in
           halves == {TaskSize - (TaskSize \div 2), TaskSize}
           Owned == /\ sent \subseteq DOMAIN tasks
                    /\ IF IsMy THEN DOMAIN tasks = 0..(i - 1)
                       ELSE /\ DOMAIN tasks \ sent \subseteq {i}
                            /\ \A t \in sent : tasks[t] \in {t + h - 1 : h \in halves}
<1>1. ASSUME RunInv PROVE Owned
  <2>1. MapArgs /\ ChannelInv /\ TasksInv
    BY <1>1 DEF RunInv
  <2>2. sent = Sent
    BY <2>1, InChannel DEF Sent
  <2>3. sent \subseteq DOMAIN tasks
    <3>1. CASE IsMy
      <4>1. taken..(i - 1) \subseteq 0..(i - 1)
        BY <2>1, ChannelFacts
      <4>2. in \subseteq 0..(i - 1)
        <5>1. StageInv
          BY <1>1 DEF RunInv
        <5>2. CASE stage \in {"multiply", "reduce", "update"}
          BY <1>1, <2>1, <5>2, SvcFacts, ChannelFacts
        <5>3. CASE stage \notin {"multiply", "reduce", "update"}
          BY <5>1, <5>3 DEF StageInv, BetweenTasks, InSvcEnd
        <5> QED BY <5>2, <5>3
      <4> QED BY <2>1, <2>2, <3>1, <4>1, <4>2 DEF TasksInv, Sent
    <3>2. CASE ~IsMy
      BY <2>1, <2>2, <3>2 DEF TasksInv
    <3> QED BY <3>1, <3>2
  <2>4. CASE IsMy
    <3>1. DOMAIN tasks = 0..(i - 1)
      BY <2>1, <2>4 DEF TasksInv
    <3> HIDE DEF sent
    <3> QED BY <2>3, <2>4, <3>1
  <2>5. CASE ~IsMy
    <3> HIDE DEF sent
    <3>1. DOMAIN tasks \ sent \subseteq {i}
      BY <2>1, <2>2, <2>5 DEF TasksInv
    <3>2. ASSUME NEW t \in sent PROVE tasks[t] \in {t + h - 1 : h \in halves}
      <4>1. tasks[t] \in {t + Half - 1, t + TaskSize - 1}
        BY <2>1, <2>2, <2>5 DEF TasksInv
      <4> QED BY <4>1 DEF Half
    <3> HIDE DEF halves
    <3> QED BY <2>3, <2>5, <3>1, <3>2
  <2> QED BY <2>4, <2>5
<1>2. ASSUME Nothing PROVE Owned
  <2>1. sent = {} /\ 0..(i - 1) = {}
    BY <1>2 DEF Nothing
  <2>2. DOMAIN tasks = {}
    BY <1>2 DEF Nothing
  <2>3. \A t \in sent : tasks[t] \in {t + h - 1 : h \in halves}
    BY <2>1
  <2> HIDE DEF sent, halves
  <2> QED BY <2>1, <2>2, <2>3
<1> HIDE DEF Owned
<1>3. Owned
  <2>1. RunInv \/ Nothing
    BY DEF MapInv
  <2> QED BY <1>1, <1>2, <2>1
<1> QED BY <1>3 DEF Ownership, Owned

----------------------------------------------------------------------------

LEMMA Invariance == Spec => []MapInv
<1> QED BY InitMap, NextMap, PTL DEF Spec

\* However the threads take turns, every task of ClassWork6 is combined with the
\* vector that the tasks before it have left, in all of its rows and with no
\* element that the task itself has updated already; and at the end the vector
\* and the total are those of a program without threads.
THEOREM StateLikeSequential == Spec => []LikeSequential
<1> QED BY Invariance, SequentialHere, PTL

\* A task that the stage has not finished is on the heap, and maponstream leaves
\* none there when it has: svc deletes it only after its last loop. Whichever of
\* the two threads of the generator writes the element last, it holds the last
\* number of that thread's half.
THEOREM TasksOwned == Spec => []Ownership
<1> QED BY Invariance, OwnershipHere, PTL
====
