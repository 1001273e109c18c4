---- MODULE MapOnStream ----
(***************************************************************************)
(* The programs of ClassWork6 that compute on a stream with a state:       *)
(*   "maponstream"   maponstream.cpp                                       *)
(*   "my"            my_maponstream.cpp                                    *)
(* A generator sends tasks (matrices) to a stage that keeps a vector. For  *)
(* each task the stage runs parallel loops one after the other: combine    *)
(* the rows with the vector, sum up, add the sum to the vector. The next   *)
(* task has to meet the vector the one before has left.                    *)
(*                                                                         *)
(* Numbers are symbolic. An element of the vector is the sequence of the   *)
(* tasks whose sums have been added to it; a sum is the set of the rows in *)
(* it, each with the elements it was combined with. Rounding and overflow  *)
(* are left out.                                                           *)
(***************************************************************************)
EXTENDS ParallelLoop, Channels, Functions

CONSTANTS
    CommandLines,   \* pairs <<program, arguments>>
    columnsize,     \* the length of a row of maponstream, 1024
    QueueLen        \* entries of the channel

\* The generator writes element i of task i, and the task must be that long.
ASSUME CommandLinesAssumption ==
    /\ columnsize \in Nat \ {0} /\ QueueLen \in Nat \ {0}
    /\ \A c \in CommandLines :
          /\ c[1] \in {"maponstream", "my"} /\ c[2] \in Seq(Nat)
          /\ c[1] = "maponstream" /\ Len(c[2]) >= 3 =>
                c[2][3] >= 1 /\ c[2][1] <= c[2][2] * columnsize
          /\ c[1] = "my" /\ Len(c[2]) >= 4 => c[2][4] >= 1

VARIABLES
    cmd,        \* the program and its arguments
    main,       \* "parse", "running", "exit", "usage" or "aborted"
    i,          \* the loop index of the generator
    tasks,      \* the tasks on the heap, each with the element written to it
    genShare, genUndealt, genLast,  \* the parallel loop of the generator
    gen,        \* the generator: "loop", "fill" or "ended"
    chan,       \* the channel to the stage
    stage,      \* the stage: "svc", "multiply", "reduce", "update", "svc_end" or "ended"
    in,         \* the task in svc, in a set
    state,      \* the vector: state, vstate
    temp,       \* temp_vector of my_maponstream, the rows that have been combined
    sum,
    result

genVars == <<i, genShare, genUndealt, genLast, gen>>
stageVars == <<stage, in, state, temp, sum, result, loopVars>>
vars == <<cmd, main, genVars, tasks, chan, stageVars>>

Gen == INSTANCE ParallelLoop WITH share <- genShare, undealt <- genUndealt, last <- genLast

args == cmd[2]
IsMy == cmd[1] = "my"

streamlen == IF IsMy THEN args[3] ELSE args[1]
numrows == IF IsMy THEN args[1] ELSE args[2]
numcols == IF IsMy THEN args[2] ELSE columnsize
nworkers == IF IsMy THEN args[4] ELSE args[3]
TaskSize == numrows * columnsize

Init ==
    /\ cmd \in CommandLines
    /\ main = "parse"
    /\ i = 0 /\ gen = "loop"
    /\ tasks = <<>>
    /\ genShare = <<>> /\ genUndealt = 0 /\ genLast = 0
    /\ chan = <<>>
    /\ stage = "svc"
    /\ in = {} /\ state = <<>> /\ temp = {} /\ sum = {} /\ result = {}
    /\ NoLoop

----------------------------------------------------------------------------
\* Mutants: plausible slips in the definitions that follow; no specification
\* uses them.

\* The rows are combined and the vector updated in the same parallel loop.
CombineAndUpdate(w) ==
    /\ stage = "multiply"
    /\ Iterate(w)
    /\ \E t \in in :
          LET j == share[w].from + 1
          IN /\ sum' = sum \union {[row |-> j - 1, elems |-> state]}
             /\ state' = IF j \in DOMAIN state THEN [state EXCEPT ![j] = Append(@, t)] ELSE state
    /\ UNCHANGED <<cmd, main, genVars, tasks, chan, stage, in, temp, result>>

\* The stage deletes its task before the update.
EndMultiplyDeletes ==
    /\ stage = "multiply" /\ LoopDone
    /\ stage' = IF IsMy THEN "reduce" ELSE "update"
    /\ StartLoop(nworkers, 0, IF IsMy THEN numrows ELSE columnsize, 0)
    /\ tasks' = Restrict(tasks, DOMAIN tasks \ in)
    /\ UNCHANGED <<cmd, main, genVars, chan, in, state, temp, sum, result>>

----------------------------------------------------------------------------

\* my_maponstream reads argv[5] with argc >= 5: a documented command line ends
\* there, and a std::string made of the null pointer throws.
Main ==
    /\ main = "parse"
    /\ LET needed == IF IsMy THEN 4 ELSE 3
       IN main' = IF Len(args) < needed THEN "usage"
                  ELSE IF IsMy /\ Len(args) = 4 THEN "aborted" ELSE "running"
    /\ state' = IF ~IsMy /\ main' = "running" THEN [j \in 1..columnsize |-> <<>>] ELSE state
    /\ UNCHANGED <<cmd, genVars, tasks, chan, stage, in, temp, sum, result, loopVars>>

Exit ==
    /\ main = "running" /\ gen = "ended" /\ stage = "ended"
    /\ main' = "exit"
    /\ UNCHANGED <<cmd, genVars, tasks, chan, stageVars>>

----------------------------------------------------------------------------
\* The first stage.

ChannelHasRoom == Len(chan) < QueueLen

\* Generator::svc, new Task(size*columnsize) and the start of its parallel loop
\* on two threads.
NewTask ==
    /\ gen = "loop" /\ i < streamlen /\ ~IsMy
    /\ tasks' = [t \in DOMAIN tasks \union {i} |-> IF t = i THEN 0 ELSE tasks[t]]
    /\ Gen!StartLoop(2, 0, TaskSize, 0)
    /\ gen' = "fill"
    /\ UNCHANGED <<cmd, main, i, chan, stageVars>>

\* task[i] = i+j: every iteration writes the same element, from either thread.
Fill(w) ==
    /\ gen = "fill"
    /\ Gen!Iterate(w)
    /\ tasks' = [tasks EXCEPT ![i] = i + genShare[w].from]
    /\ UNCHANGED <<cmd, main, i, gen, chan, stageVars>>

SendTask ==
    /\ gen = "fill" /\ Gen!LoopDone /\ ChannelHasRoom
    /\ chan' = Append(chan, i)
    /\ i' = i + 1
    /\ gen' = "loop"
    /\ UNCHANGED <<cmd, main, tasks, genShare, genUndealt, genLast, stageVars>>

\* Firststage::svc: new myTask(rows, cols), ff_send_out(matrix)
SendMatrix ==
    /\ gen = "loop" /\ i < streamlen /\ IsMy /\ ChannelHasRoom
    /\ tasks' = [t \in DOMAIN tasks \union {i} |-> 0]
    /\ chan' = Append(chan, i)
    /\ i' = i + 1
    /\ UNCHANGED <<cmd, main, genShare, genUndealt, genLast, gen, stageVars>>

EndGenerator ==
    /\ gen = "loop" /\ i = streamlen /\ ChannelHasRoom
    /\ chan' = Append(chan, EOS)
    /\ gen' = "ended"
    /\ UNCHANGED <<cmd, main, i, genShare, genUndealt, genLast, tasks, stageVars>>

----------------------------------------------------------------------------
\* The second stage. vstate of my_maponstream grows with every task; what lies
\* behind its end is garbage.

Garbage == <<-1>>

\* The elements of the vector a row is combined with.
Elements == [j \in 1..numcols |-> IF j \in DOMAIN state THEN state[j] ELSE Garbage]

Svc ==
    /\ stage = "svc" /\ chan # <<>> /\ Head(chan) # EOS
    /\ in' = {Head(chan)}
    /\ chan' = Tail(chan)
    /\ state' = IF IsMy THEN state \o [j \in 1..numrows |-> <<>>] ELSE state
    /\ temp' = {} /\ sum' = {}
    /\ stage' = "multiply"
    /\ StartLoop(nworkers, 0, numrows, 0)
    /\ UNCHANGED <<cmd, main, genVars, tasks, result>>

\* One row of the first parallel loop.
Combine(w) ==
    /\ stage = "multiply"
    /\ Iterate(w)
    /\ LET combined == [row |-> share[w].from, elems |-> Elements]
       IN IF IsMy THEN temp' = temp \union {combined} /\ UNCHANGED sum
                  ELSE sum' = sum \union {combined} /\ UNCHANGED temp
    /\ UNCHANGED <<cmd, main, genVars, tasks, chan, stage, in, state, result>>

\* sum += temp_vector.at(i), a loop of its own in my_maponstream.
Reduce(w) ==
    /\ stage = "reduce"
    /\ Iterate(w)
    /\ sum' = sum \union {c \in temp : c.row = share[w].from}
    /\ UNCHANGED <<cmd, main, genVars, tasks, chan, stage, in, state, temp, result>>

\* state[i] += sum
Update(w) ==
    /\ stage = "update"
    /\ Iterate(w)
    /\ \E t \in in : state' = [state EXCEPT ![share[w].from + 1] = Append(@, t)]
    /\ UNCHANGED <<cmd, main, genVars, tasks, chan, stage, in, temp, sum, result>>

\* The sum over the vector in svc_end.
Total(w) ==
    /\ stage = "svc_end"
    /\ Iterate(w)
    /\ result' = result \union {share[w].from + 1}
    /\ UNCHANGED <<cmd, main, genVars, tasks, chan, stage, in, state, temp, sum>>

\* Every loop is followed by a barrier, then the next one starts.
EndMultiply ==
    /\ stage = "multiply" /\ LoopDone
    /\ stage' = IF IsMy THEN "reduce" ELSE "update"
    /\ StartLoop(nworkers, 0, IF IsMy THEN numrows ELSE columnsize, 0)
    /\ UNCHANGED <<cmd, main, genVars, tasks, chan, in, state, temp, sum, result>>

EndReduce ==
    /\ stage = "reduce" /\ LoopDone
    /\ stage' = "update"
    /\ StartLoop(nworkers, 0, numrows, 0)
    /\ UNCHANGED <<cmd, main, genVars, tasks, chan, in, state, temp, sum, result>>

\* Only maponstream deletes its task.
EndUpdate ==
    /\ stage = "update" /\ LoopDone
    /\ stage' = "svc"
    /\ in' = {}
    /\ tasks' = IF IsMy THEN tasks ELSE Restrict(tasks, DOMAIN tasks \ in)
    /\ UNCHANGED <<cmd, main, genVars, chan, state, temp, sum, result, loopVars>>

EndStream ==
    /\ stage = "svc" /\ chan # <<>> /\ Head(chan) = EOS
    /\ chan' = Tail(chan)
    /\ stage' = "svc_end"
    /\ StartLoop(nworkers, 0, Len(state), 0)
    /\ UNCHANGED <<cmd, main, genVars, tasks, in, state, temp, sum, result>>

EndTotal ==
    /\ stage = "svc_end" /\ LoopDone
    /\ stage' = "ended"
    /\ UNCHANGED <<cmd, main, genVars, tasks, chan, in, state, temp, sum, result, loopVars>>

----------------------------------------------------------------------------

MainStep == Main \/ Exit
GenStep == main = "running" /\ (NewTask \/ SendTask \/ SendMatrix \/ EndGenerator)
GenThread(w) == main = "running" /\ Fill(w)
StageStep ==
    /\ main = "running"
    /\ Svc \/ EndMultiply \/ EndReduce \/ EndUpdate \/ EndStream \/ EndTotal
StageThread(w) == main = "running" /\ (Combine(w) \/ Reduce(w) \/ Update(w) \/ Total(w))

Stopped == main \in {"exit", "usage", "aborted"}
Terminated == Stopped /\ UNCHANGED vars

Next ==
    \/ MainStep \/ GenStep \/ StageStep \/ Terminated
    \/ \E w \in DOMAIN genShare : GenThread(w)
    \/ \E w \in Threads : StageThread(w)

Spec == Init /\ [][Next]_vars

----------------------------------------------------------------------------

\* The vector a sequential program has before task t: the sums of all earlier
\* tasks, in order, in every element; in my_maponstream only in the first
\* numrows elements, the others are ones that were pushed behind them.
Before(t) ==
    LET earlier == [k \in 1..t |-> k - 1]
    IN IF IsMy THEN [j \in 1..numrows * t |-> IF j <= numrows THEN earlier ELSE <<>>]
               ELSE [j \in 1..columnsize |-> earlier]

\* What a row of task t is combined with: my_maponstream has pushed its ones.
Met(t) ==
    LET here == IF IsMy THEN Before(t + 1) ELSE Before(t)
    IN [j \in 1..numcols |->
           IF j \notin DOMAIN here THEN Garbage
           ELSE IF j <= numrows \/ ~IsMy THEN [k \in 1..t |-> k - 1] ELSE <<>>]

\* On every interleaving of the threads, all rows of a task are combined with
\* the vector that its predecessors left, none with elements that the task
\* itself has updated already; the sum added to the vector has every row; and
\* at the end the vector and what is totalled of it are those of a sequential
\* program. Values are symbolic: this says which rows and elements enter a sum,
\* not what a sum of floats is once it is rounded (maponstream), nor that of
\* unsigned numbers once the sums of the threads have gone through an int
\* (my_maponstream.cpp:93 and 124).
LikeSequential ==
    /\ \A t \in in :
          /\ \A c \in temp \union sum : c.elems = Met(t)
          /\ stage = "update" => {c.row : c \in sum} = 0..numrows - 1
    /\ main = "exit" => state = Before(streamlen) /\ result = DOMAIN state

\* A task is in the channel, in svc or still with the generator, and is then
\* deleted: my_maponstream keeps every one to the end. The element that all
\* iterations of the generator write holds what one of the two threads wrote
\* last, so it differs from run to run.
Ownership ==
    LET sent == {k \in 0..i - 1 : \E j \in DOMAIN chan : chan[j] = k} \union in
        halves == {TaskSize - (TaskSize \div 2), TaskSize}
    IN /\ sent \subseteq DOMAIN tasks
       /\ IF IsMy THEN DOMAIN tasks = 0..i - 1
                  ELSE /\ DOMAIN tasks \ sent \subseteq {i}
                       /\ \A t \in sent : tasks[t] \in {t + h - 1 : h \in halves}
====
