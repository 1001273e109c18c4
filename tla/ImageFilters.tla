---- MODULE ImageFilters ----
(***************************************************************************)
(* The image programs of ClassWork7. Each image named on the command line  *)
(* is read, filtered, and written under its last name to ./out:            *)
(*   imagesfilter   blurred and embossed, by eight programs with eight     *)
(*                  graphs of nodes, of which img.cpp is the sequential    *)
(*                  one;                                                   *)
(*   sobel          by sobel.cpp, ffsobel.cpp and ffsobel2.cpp. What their *)
(*                  parallel loops over the rows compute is left out.      *)
(*                                                                         *)
(* Images are numbered by the loop index of the program, tasks by their    *)
(* image. A step is one call of svc, split where another node may see the  *)
(* difference: an output file is created, and later complete. ImageMagick  *)
(* throws where it cannot read or write, nobody catches, and the process   *)
(* is gone with all its threads. OpenCV reports what it cannot read, and   *)
(* that image is skipped; the result of imwrite is not looked at.          *)
(***************************************************************************)
EXTENDS StageNet, CommandLine

CONSTANTS
    CommandLines,   \* pairs <<program, argv>>
    Readable        \* the paths of images that can be read

Magick == {"img", "img_pipe", "img_pipe2", "img_farm", "img_farm2", "img_farm3",
           "img_farm+pipe", "img_pipe+farm"}
Programs == Magick \union {"sobel", "ffsobel", "ffsobel2"}

ASSUME ImagesAssumption ==
    /\ CommandLines \subseteq Programs \X Seq(STRING)
    /\ \A c \in CommandLines : Len(c[2]) >= 1
    /\ Readable \subseteq DOMAIN BaseName

VARIABLES
    cmd,        \* the program that runs and its argv
    main,       \* "parse", "running", "exit", "usage", "error" or "aborted"
    i,          \* the loop index of Read::svc
    tasks,      \* the tasks on the heap: name, and what was done to the image
    skipped,    \* the images reported as unreadable
    writing,    \* the nodes with an output file open
    out         \* the directory ./out: the results that are in each file

vars == <<cmd, main, i, tasks, skipped, writing, out, netVars>>

argv == cmd[2]
argc == Len(argv)

----------------------------------------------------------------------------
\* The command line. Every option advances start and lowers argc by two.

Options == CASE cmd[1] \in {"img", "img_pipe", "img_pipe2"} -> {"-r", "-s"}
             [] cmd[1] = "img_pipe+farm" -> {"-r", "-s", "-n", "-m"}
             [] cmd[1] = "sobel" -> {}
             [] cmd[1] = "ffsobel" -> {"-m"}
             [] cmd[1] = "ffsobel2" -> {"-n", "-m"}
             [] OTHER -> {"-r", "-s", "-n"}

given == Cardinality({o \in Options : getOption(argv, o) # {}})
start == 1 + 2 * given
num_images == argc - 2 * given - 1
Wrks == Number(argv, "-n", 2)
embossWrk == Number(argv, "-m", 2)
Usage == argc < IF cmd[1] = "ffsobel2" THEN 3 ELSE 2

Images == 0..num_images - 1
Path(j) == argv[start + j + 1]

----------------------------------------------------------------------------

\* A layer of nodes that do the operations of todo to a task, and one whose
\* nodes then write its image.
Layer(nodes, todo) == [nodes |-> nodes, ops |-> todo, writes |-> FALSE]
Writers(nodes, todo) == [nodes |-> nodes, ops |-> todo, writes |-> TRUE]

\* Mutants: plausible slips in the definitions that follow; no specification
\* uses them.

\* The two filters change places.
img_pipe_swapped == <<Layer(1, <<"read">>), Layer(1, <<"emboss">>), Layer(1, <<"blur">>),
                      Writers(1, <<>>)>>

\* The image is written under its whole path.
WorkedByPath(task, node) == [task EXCEPT !.done = @ \o ops(node)]

----------------------------------------------------------------------------
\* The graphs, one per program.

img == <<Writers(1, <<"read", "blur", "emboss">>)>>

img_pipe == <<Layer(1, <<"read">>), Layer(1, <<"blur">>), Layer(1, <<"emboss">>),
              Writers(1, <<>>)>>

\* The caller of offload() takes the place of the first stage.
img_pipe2 == img_pipe

img_farm == <<Layer(1, <<"read">>), Layer(Wrks, <<"blur", "emboss">>), Writers(1, <<>>)>>

img_farm2 == <<Layer(1, <<"read">>), Writers(Wrks, <<"blur", "emboss">>)>>

img_farm3 == <<Layer(1, <<>>), Writers(Wrks, <<"read", "blur", "emboss">>)>>

\* Each worker of the farm is a pipeline of two.
img_farm_pipe == <<Layer(1, <<"read">>), Layer(1, <<>>), Layer(Wrks, <<"blur">>),
                   Layer(Wrks, <<"emboss">>), Writers(1, <<>>)>>

\* The emitter of the second farm collects from the workers of the first.
img_pipe_farm == <<Layer(1, <<"read">>), Layer(1, <<>>), Layer(Wrks, <<"blur">>),
                   Layer(1, <<>>), Layer(embossWrk, <<"emboss">>), Writers(1, <<>>)>>

\* The gradient is computed and thrown away: its assignment is commented out.
sobel == <<Writers(1, <<"read", "blank">>)>>

ffsobel == <<Layer(1, <<"read">>), Writers(1, <<"sobel">>)>>

ffsobel2 == <<Layer(1, <<>>), Writers(Wrks, <<"read", "sobel">>)>>

graph == CASE cmd[1] = "img" -> img
           [] cmd[1] = "img_pipe" -> img_pipe
           [] cmd[1] = "img_pipe2" -> img_pipe2
           [] cmd[1] = "img_farm" -> img_farm
           [] cmd[1] = "img_farm2" -> img_farm2
           [] cmd[1] = "img_farm3" -> img_farm3
           [] cmd[1] = "img_farm+pipe" -> img_farm_pipe
           [] cmd[1] = "img_pipe+farm" -> img_pipe_farm
           [] cmd[1] = "sobel" -> sobel
           [] cmd[1] = "ffsobel" -> ffsobel
           [] cmd[1] = "ffsobel2" -> ffsobel2

----------------------------------------------------------------------------
\* What a node does to a task.

\* Read::svc makes the task under its last name; Read of img_farm3, where the
\* task has the whole path, cuts the name.
Worked(task, node) ==
    [name |-> IF "read" \in ToSet(ops(node)) THEN BaseName[task.name] ELSE task.name,
     done |-> task.done \o ops(node)]

CanWork(j, node) == "read" \in ToSet(ops(node)) => Path(j) \in Readable

Writes(node) == layers[node[1]].writes

----------------------------------------------------------------------------
\* More mutants, of the actions.

\* The loop of Read::svc catches the exception and tries again.
ReadRetried(node) ==
    /\ cmd[1] \in Magick
    /\ \/ i < num_images /\ ~CanWork(i, node) /\ Free(node) /\ IsSource(node) /\ UNCHANGED vars
       \/ /\ \E j \in DOMAIN tasks : ~CanWork(j, node) /\ Receive(node, j)
          /\ main' = "aborted"
          /\ UNCHANGED <<cmd, i, tasks, skipped, writing, out>>

\* The file is complete, and the task not deleted.
CompleteFileNoDelete(node) ==
    /\ node \in writing
    /\ writing' = writing \ {node}
    /\ Finish(node)
    /\ UNCHANGED <<cmd, main, i, tasks, skipped, out>>

----------------------------------------------------------------------------

Init ==
    /\ cmd \in CommandLines
    /\ main = "parse"
    /\ i = 0
    /\ tasks = <<>>
    /\ skipped = {}
    /\ writing = {}
    /\ out = <<>>
    /\ NetInit

\* main() up to run_and_wait_end(). The assertion on num_images is compiled in
\* for the eight programs of imagesfilter; a farm without workers cannot run.
Main ==
    /\ main = "parse"
    /\ LET asserted == cmd[1] \in Magick => num_images >= 1
           runnable == \A l \in DOMAIN graph : graph[l].nodes >= 1
       IN \/ Usage /\ main' = "usage" /\ UNCHANGED netVars
          \/ ~Usage /\ ~asserted /\ main' = "aborted" /\ UNCHANGED netVars
          \/ ~Usage /\ asserted /\ ~runnable /\ main' = "error" /\ UNCHANGED netVars
          \/ ~Usage /\ asserted /\ runnable /\ main' = "running" /\ Launch(graph)
    /\ UNCHANGED <<cmd, i, tasks, skipped, writing, out>>

\* One turn of the loop of Read::svc up to ff_send_out.
NextImage(node) ==
    /\ i < num_images /\ CanWork(i, node)
    /\ Produce(node, i)
    /\ tasks' = [j \in DOMAIN tasks \union {i} |->
                    IF j = i THEN Worked([name |-> Path(i), done |-> <<>>], node) ELSE tasks[j]]
    /\ i' = i + 1
    /\ UNCHANGED <<cmd, main, skipped, writing, out>>

\* svc of the other nodes, as far as the filters.
Filter(node) ==
    /\ \E j \in DOMAIN tasks :
          /\ CanWork(j, node)
          /\ Receive(node, j)
          /\ tasks' = [tasks EXCEPT ![j] = Worked(@, node)]
    /\ UNCHANGED <<cmd, main, i, skipped, writing, out>>

\* image.read(filepath) throws.
ReadThrows(node) ==
    /\ cmd[1] \in Magick
    /\ \/ i < num_images /\ ~CanWork(i, node) /\ Produce(node, i)
       \/ \E j \in DOMAIN tasks : ~CanWork(j, node) /\ Receive(node, j)
    /\ main' = "aborted"
    /\ UNCHANGED <<cmd, i, tasks, skipped, writing, out>>

\* imread(filepath) gives an empty image: on to the next one. ffsobel2 has a
\* task by then, which is not deleted.
SkipImage(node) ==
    /\ cmd[1] \notin Magick
    /\ \/ /\ Free(node) /\ IsSource(node)
          /\ i < num_images /\ ~CanWork(i, node)
          /\ i' = i + 1 /\ skipped' = skipped \union {i}
          /\ UNCHANGED netVars
       \/ \E j \in DOMAIN tasks :
             /\ ~CanWork(j, node) /\ Discard(node, j)
             /\ skipped' = skipped \union {j}
             /\ UNCHANGED i
    /\ UNCHANGED <<cmd, main, tasks, writing, out>>

Forward(node) ==
    /\ PassOn(node)
    /\ UNCHANGED <<cmd, main, i, tasks, skipped, writing, out>>

\* image->write(outfile) empties a file of that name; what others are writing
\* to it at the same time is mixed with it. Without the directory it throws.
CreateFile(node) ==
    /\ Writes(node) /\ node \notin writing
    /\ \E j \in hand[node] :
          LET others == UNION {hand[n] : n \in writing}
              mixed == {k \in others : tasks[k].name = tasks[j].name}
              content == {<<k, tasks[k].done>> : k \in mixed \union {j}}
          IN \/ /\ out' = [f \in DOMAIN out \union {tasks[j].name} |->
                              IF f = tasks[j].name THEN content ELSE out[f]]
                /\ writing' = writing \union {node}
                /\ UNCHANGED main
             \/ /\ cmd[1] \in Magick /\ main' = "aborted"
                /\ UNCHANGED <<out, writing>>
    /\ UNCHANGED <<cmd, i, tasks, skipped, netVars>>

\* The file is complete, image and task are deleted -- or the write fails on
\* the way and throws.
CompleteFile(node) ==
    /\ node \in writing
    /\ \/ /\ tasks' = [j \in DOMAIN tasks \ hand[node] |-> tasks[j]]
          /\ writing' = writing \ {node}
          /\ Finish(node)
          /\ UNCHANGED main
       \/ /\ cmd[1] \in Magick /\ main' = "aborted"
          /\ UNCHANGED <<tasks, writing, netVars>>
    /\ UNCHANGED <<cmd, i, skipped, out>>

EndOfStream(node) ==
    /\ IsSource(node) => i >= num_images
    /\ EndNode(node)
    /\ UNCHANGED <<cmd, main, i, tasks, skipped, writing, out>>

Exit ==
    /\ main = "running" /\ AllEnded
    /\ main' = "exit"
    /\ UNCHANGED <<cmd, i, tasks, skipped, writing, out, netVars>>

MainStep == Main \/ Exit
NodeStep(node) ==
    /\ main = "running"
    /\ \/ NextImage(node)
       \/ Filter(node)
       \/ ReadThrows(node)
       \/ SkipImage(node)
       \/ Forward(node)
       \/ CreateFile(node)
       \/ CompleteFile(node)
       \/ EndOfStream(node)

Terminated == main \in {"exit", "usage", "error", "aborted"} /\ UNCHANGED vars

Next == MainStep \/ (\E node \in Nodes : NodeStep(node)) \/ Terminated

\* main and every node are threads, kept running by the operating system.
\* No graph has more layers than img_pipe_farm, and no row more nodes than
\* the command line can ask for.
MaxLayers == 6
MaxNodes == Max({Numeral[word] : word \in DOMAIN Numeral} \union {2})
Fairness ==
    /\ WF_vars(MainStep)
    /\ \A node \in (1..MaxLayers) \X (1..MaxNodes) : WF_vars(node \in Nodes /\ NodeStep(node))

Spec == Init /\ [][Next]_vars /\ Fairness

----------------------------------------------------------------------------

InHands == UNION {hand[node] : node \in Nodes}

\* Each task on the heap has one owner, a channel or a node, on any graph and
\* at any time until an exception ends the process, and only ffsobel2 leaves
\* tasks behind, those of images it could not read; when a node ends, all
\* that feeds it has ended before and nothing is left on the way to it.
Ownership ==
    main # "aborted" =>
        /\ DOMAIN tasks \ skipped = In(chan) \union InHands
        /\ DOMAIN tasks \intersect skipped # {} => cmd[1] = "ffsobel2"
        /\ NoCopies(chan) /\ In(chan) \intersect InHands = {}
        /\ \A m, n \in Nodes : m # n => hand[m] \intersect hand[n] = {}
        /\ \A e \in Edges :
              /\ EosAtEnd(chan[e])
              /\ To(e) \in ended => From(e) \in ended /\ chan[e] = <<>> /\ hand[To(e)] = {}

\* What the sequential program does to an image.
Filtered(j) == <<j, IF cmd[1] \in Magick THEN <<"read", "blur", "emboss">>
                    ELSE IF cmd[1] = "sobel" THEN <<"read", "blank">> ELSE <<"read", "sobel">>>>
Named(f) == {j \in Images \ skipped : BaseName[Path(j)] = f}

\* A file no node is writing holds the whole result of one image of its name,
\* filtered in the order of the sequential program -- but for two images of one name in a
\* graph where several nodes write: these two can be mixed.
WholeFiles ==
    \A f \in DOMAIN out :
        (\A n \in writing : \A j \in hand[n] : tasks[j].name # f) =>
            /\ out[f] \subseteq {Filtered(j) : j \in Named(f)}
            /\ \/ Cardinality(out[f]) = 1
               \/ Cardinality({n \in Nodes : Writes(n)}) > 1 /\ Cardinality(Named(f)) > 1

\* Whatever the graph, the program leaves in ./out what one loop over the
\* images leaves there: for each name the result of the last readable image
\* that has it. Only on a row of several nodes may an image overtake another
\* one of its name.
LikeSequential ==
    main = "exit" =>
        /\ DOMAIN out = {BaseName[Path(j)] : j \in Images \ skipped}
        /\ \A f \in DOMAIN out :
              \/ out[f] = {Filtered(Max(Named(f)))}
              \/ Cardinality(Named(f)) > 1 /\ \E l \in DOMAIN layers : layers[l].nodes > 1

\* The program ends on every schedule, by the end of the stream or by an
\* exception, although its channels are bounded.
Termination == <>(main \in {"exit", "usage", "error", "aborted"})
====
