---- MODULE Squares ----
(***************************************************************************)
(* The first FastFlow programs: the sum of the squares of 0, 1, 2 ...      *)
(*   "pipe_square", "my_pipe_square"   a pipeline of three stages          *)
(*   "farm_square", "my_farm_square"   with a farm for the second stage    *)
(* Each number is a task of its own, made by the first stage and deleted   *)
(* by the last. The authors' programs compute in float, the student's in   *)
(* long.                                                                   *)
(***************************************************************************)
EXTENDS StageNet, Integers, FiniteSetsExt

CONSTANTS
    CommandLines,   \* pairs <<program, arguments>>; farms get their workers first
    IntBits,        \* 32
    LongBits,       \* 64, also of size_t
    FloatBits       \* 24, the precision of a float

\* The square of a positive int is a long.
ASSUME WidthsAssumption ==
    /\ IntBits \in Nat \ {0} /\ FloatBits \in Nat \ {0}
    /\ 2 * (IntBits - 1) < LongBits

Pipes == {"pipe_square", "my_pipe_square"}
Farms == {"farm_square", "my_farm_square"}

\* A negative number of workers is more than farm_square has memory for.
ASSUME SquaresAssumption ==
    \A c \in CommandLines :
        /\ c[1] \in Pipes \union Farms /\ c[2] \in Seq(Int)
        /\ c[1] = "farm_square" /\ Len(c[2]) >= 2 => c[2][1] >= 0

VARIABLES
    cmd,    \* the program that runs and its arguments
    main,   \* "parse", "running", "exit", "usage", "error" or "aborted"
    i,      \* the loop index of the first stage
    tasks,  \* the tasks on the heap: of each number, what it has become
    sum,    \* of the last stage
    failed  \* the workers whose svc_init returned an error

vars == <<cmd, main, i, tasks, sum, failed, netVars>>

IsFarm == cmd[1] \in Farms
IsMy == cmd[1] \in {"my_pipe_square", "my_farm_square"}
args == cmd[2]
type == IF IsMy THEN "long" ELSE "float"

----------------------------------------------------------------------------
\* The machine's numbers. A float is represented by its value, which here is
\* always a whole number, or by infinity.

Infinity == 2 ^ (2 * LongBits)

\* Two's complement.
Signed(x, bits) == ((x + 2 ^ (bits - 1)) % 2 ^ bits) - 2 ^ (bits - 1)
Unsigned(x) == x % 2 ^ LongBits
IsLong(x) == Signed(x, LongBits) = x

\* The distance of a float from the next one.
Ulp(x) == 2 ^ Min({e \in 0..2 * LongBits : x < 2 ^ (FloatBits + e)})

\* To the nearest float, of two to the even one.
Round(x) ==
    LET q == x \div Ulp(x)
        r == 2 * (x % Ulp(x))
        up == r > Ulp(x) \/ (r = Ulp(x) /\ q % 2 = 1)
    IN IF x >= Infinity THEN Infinity ELSE Min({Infinity, (q + IF up THEN 1 ELSE 0) * Ulp(x)})

\* The result of an operation on floats, or on longs: where these overflow,
\* which C++ leaves undefined, the machine wraps.
Result(t, x) == IF t = "float" THEN Round(x) ELSE Signed(x, LongBits)

Plus(t, a, b) == Result(t, a + b)
Square(t, a) == Result(t, a * a)

----------------------------------------------------------------------------
\* Mutants: plausible slips in the definitions that follow; no specification
\* uses them.

\* The loop runs from 1 to n.
NumberFromOne == i + 1

\* The last stage does not delete its task.
AddUpLeaking(node) ==
    /\ IsSink(node)
    /\ \E j \in DOMAIN tasks :
          /\ Discard(node, j)
          /\ sum' = Plus(type, sum, tasks[j])
    /\ UNCHANGED <<cmd, main, i, tasks, failed>>

----------------------------------------------------------------------------
\* The command line. my_pipe_square does not look at argc, and std::string of
\* a null pointer throws; so does std::stol out of range.
Usage == cmd[1] # "my_pipe_square" /\ Len(args) < IF IsFarm THEN 2 ELSE 1

stol ==
    CASE cmd[1] \in Pipes -> {1}
      [] cmd[1] = "farm_square" -> {1, 2}
      [] cmd[1] = "my_farm_square" -> {2}

Throws == ~\A k \in stol : k \in DOMAIN args /\ IsLong(args[k])

\* The stream has a negative length where it is an int, and in pipe_square,
\* which makes a size_t of the int, nearly the greatest.
length ==
    CASE cmd[1] = "pipe_square" -> Unsigned(Signed(args[1], IntBits))
      [] cmd[1] = "my_pipe_square" -> Signed(args[1], IntBits)
      [] cmd[1] = "farm_square" -> Unsigned(args[2])
      [] cmd[1] = "my_farm_square" -> Signed(args[2], IntBits)

nworkers == IF IsMy THEN Signed(args[1], IntBits) ELSE args[1]

Layer(nodes, todo) == [nodes |-> nodes, ops |-> <<todo>>]

\* The emitter of the farm is FastFlow's; the collector is removed, and the
\* last stage has an input from each worker.
graph ==
    IF IsFarm THEN <<Layer(1, "new"), Layer(1, "emit"), Layer(nworkers, "square"), Layer(1, "sum")>>
    ELSE <<Layer(1, "new"), Layer(1, "square"), Layer(1, "sum")>>

Workers == {3} \X (1..nworkers)

Init ==
    /\ cmd \in CommandLines
    /\ main = "parse"
    /\ i = 0 /\ tasks = <<>> /\ sum = 0
    /\ failed = {}
    /\ NetInit

\* main up to run_and_wait_end(); a farm without workers cannot run. Worker's
\* svc_init in my_farm_square ends without a return: if what it returns is
\* negative, FastFlow ends the thread; or the call does not come back at all.
Main ==
    /\ main = "parse"
    /\ \/ Usage /\ main' = "usage" /\ UNCHANGED <<failed, netVars>>
       \/ ~Usage /\ Throws /\ main' = "aborted" /\ UNCHANGED <<failed, netVars>>
       \/ /\ ~Usage /\ ~Throws /\ IsFarm /\ nworkers <= 0
          /\ main' = "error" /\ UNCHANGED <<failed, netVars>>
       \/ /\ ~Usage /\ ~Throws /\ (IsFarm => nworkers > 0)
          /\ Launch(graph)
          /\ \/ main' = "running"
                /\ failed' \in IF IsMy /\ IsFarm THEN SUBSET Workers ELSE {{}}
             \/ main' = "aborted" /\ IsMy /\ IsFarm /\ UNCHANGED failed
    /\ UNCHANGED <<cmd, i, tasks, sum>>

\* The number a turn of the loop makes a task of.
Number == i

\* One turn of the loop of the first stage up to ff_send_out.
NewTask(node) ==
    /\ i < length
    /\ Produce(node, i)
    /\ tasks' = [j \in DOMAIN tasks \union {i} |-> IF j = i THEN Result(type, Number) ELSE tasks[j]]
    /\ i' = i + 1
    /\ UNCHANGED <<cmd, main, sum, failed>>

\* svc of a worker; the emitter only takes the task.
Take(node) ==
    /\ node \notin failed /\ ~IsSink(node)
    /\ \E j \in DOMAIN tasks :
          /\ Receive(node, j)
          /\ tasks' = IF ops(node) = <<"square">> THEN [tasks EXCEPT ![j] = Square(type, @)] ELSE tasks
    /\ UNCHANGED <<cmd, main, i, sum, failed>>

Forward(node) ==
    /\ PassOn(node)
    /\ UNCHANGED <<cmd, main, i, tasks, sum, failed>>

\* svc of the last stage: sum += t; delete task.
AddUp(node) ==
    /\ IsSink(node)
    /\ \E j \in DOMAIN tasks :
          /\ Discard(node, j)
          /\ sum' = Plus(type, sum, tasks[j])
          /\ tasks' = [k \in DOMAIN tasks \ {j} |-> tasks[k]]
    /\ UNCHANGED <<cmd, main, i, failed>>

EndOfStream(node) ==
    /\ node \notin failed
    /\ IsSource(node) => i >= length
    /\ EndNode(node)
    /\ UNCHANGED <<cmd, main, i, tasks, sum, failed>>

Exit ==
    /\ main = "running" /\ AllEnded
    /\ main' = "exit"
    /\ UNCHANGED <<cmd, i, tasks, sum, failed, netVars>>

MainStep == Main \/ Exit
NodeStep(node) ==
    /\ main = "running"
    /\ NewTask(node) \/ Take(node) \/ Forward(node) \/ AddUp(node) \/ EndOfStream(node)

\* Without one of its workers the farm waits for ever.
Terminated == (main \notin {"parse", "running"} \/ failed # {}) /\ UNCHANGED vars

Next == MainStep \/ (\E node \in Nodes : NodeStep(node)) \/ Terminated

\* main and every node are threads, kept running by the operating system.
MaxLayers == 4
MaxNodes == Max({1} \union {c[2][1] : c \in {x \in CommandLines : x[1] \in Farms /\ Len(x[2]) > 0}})
Fairness ==
    /\ WF_vars(MainStep)
    /\ \A node \in (1..MaxLayers) \X (1..MaxNodes) : WF_vars(node \in Nodes /\ NodeStep(node))

Spec == Init /\ [][Next]_vars /\ Fairness

----------------------------------------------------------------------------

\* Each number is squared and added once, when its task is deleted, by a
\* pipeline and by a farm of one worker in the order of the stream; each
\* program ends, whatever it takes for the length of the stream, unless a
\* worker is gone.
Sum == INSTANCE StreamSum WITH
    lanes  <- Max({1} \union {layers[l].nodes : l \in DOMAIN layers}),
    left   <- IF layers = <<>> THEN {} ELSE (i..length - 1) \union DOMAIN tasks,
    status <- CASE main = "parse" -> "new"
                [] main \in {"usage", "error", "aborted"} -> "failed"
                [] main = "running" /\ failed # {} -> "stuck"
                [] main = "running" /\ failed = {} -> "running"
                [] main = "exit" -> "ended"

SumSpec == Sum!LiveSpec

SquareOf(j) == Square(type, Result(type, j))
Exact == MapThenSumSet(SquareOf, 0..length - 1)

\* The sum that is printed: of longs it is exact, as far as a long goes,
\* whatever order the workers deliver in. Of floats it is exact only while it
\* is small; beyond, another order may give another sum, but each addition
\* costs no more than half of the last place.
SumPrinted ==
    main = "exit" =>
        CASE type = "long" -> sum = Signed(Exact, LongBits)
          [] sum < 2 ^ FloatBits -> sum = Exact
          [] sum < Infinity -> 2 * Max({sum - Exact, Exact - sum}) <= length * Ulp(sum)
          [] OTHER -> TRUE
====
