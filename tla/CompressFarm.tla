---- MODULE CompressFarm ----
(***************************************************************************)
(* The file compressors of ClassWork3:                                     *)
(*   "seq"     simplecomp.cpp           one loop, without threads          *)
(*   "pipe"    simplecomp_pipe.cpp      Read -> Compressor -> Write        *)
(*   "farm"    simplecomp_farm.cpp      Read -> n Compressors -> Write     *)
(*   "my_farm" my_simplecomp_farm.cpp   the same as a pipeline around a    *)
(*                                      farm, whose default collector only *)
(*                                      forwards                           *)
(* Read maps each file named on the command line in memory and sends a     *)
(* task for it; Compressor compresses into a new buffer, hands the task    *)
(* on, and unmaps the file afterwards, while Write may already be at work  *)
(* on the task; Write writes ./out/<name>.zip and frees buffer and task.   *)
(*                                                                         *)
(* Inputs are numbered by the loop index i of Read::svc. Task i, its       *)
(* mapping and its buffer are named by that number.                        *)
(***************************************************************************)
EXTENDS Farm, CommandLine, Functions

CONSTANTS
    CommandLines,   \* pairs <<program, argv>>
    Kind            \* what a path names, for the paths that name something:
                    \* "regular", "special" or "empty"

ASSUME FilesAssumption ==
    /\ \A c \in CommandLines :
          c[1] \in {"seq", "pipe", "farm", "my_farm"} /\ c[2] \in Seq(STRING) /\ c[2] # <<>>
    /\ \A p \in DOMAIN Kind : Kind[p] \in {"regular", "special", "empty"}
    /\ DOMAIN Kind \subseteq DOMAIN BaseName

VARIABLES
    cmd,        \* the program that runs and its argv
    main,       \* "parse", "running", "exit", "usage" or "error"
    i,          \* loop index of Read::svc, and of main in simplecomp.cpp
    tasks,      \* the tasks on the heap, with what task->ptr points to
    maps,       \* the inputs mapped in memory
    bufs,       \* the inputs with a buffer of compressed data
    unmapping,  \* <<w, j>>: worker w has sent task j and not yet unmapped it
    fds,        \* descriptors never closed: <<"in", j>>, <<"out", j>>
    out,        \* the directory ./out: the input in each archive
    failed      \* the inputs reported as failed after they had been mapped

vars == <<cmd, main, i, tasks, maps, bufs, unmapping, fds, out, failed, farmVars>>
fileVars == <<fds, out, failed>>
memVars == <<tasks, maps, bufs, unmapping>>

argv == cmd[2]
argc == Len(argv)

----------------------------------------------------------------------------
\* The command line.

\* int start = 1; if (n) { nworkers = atoi(n); start+=2; argc-=2; }
\* long num_files = argc-start;
farmStart == IF getOption(argv, "-n") = {} THEN 1 ELSE 3
farmFiles == (IF getOption(argv, "-n") = {} THEN argc ELSE argc - 2) - farmStart
farmWorkers == Number(argv, "-n", 2)

start == IF cmd[1] = "farm" THEN farmStart ELSE 1
num_files == IF cmd[1] = "farm" THEN farmFiles ELSE argc - 1
nworkers == CASE cmd[1] = "seq" -> 0
              [] cmd[1] = "pipe" -> 1
              [] cmd[1] = "farm" -> farmWorkers
              [] cmd[1] = "my_farm" -> Atoi(argv[2])

\* argc < 3 in simplecomp_farm, argc < 2 in the others.
Usage == argc < IF cmd[1] = "farm" THEN 3 ELSE 2

\* The inputs, and the path of input j: filenames is &argv[start].
Inputs == IF Usage THEN {} ELSE 0..(num_files - 1)
Path(j) == argv[start + j + 1]
Mappable(j) == Path(j) \in DOMAIN Kind /\ Kind[Path(j)] = "regular"

----------------------------------------------------------------------------
\* Mutants: plausible slips in the definitions that follow; no specification
\* uses them.

\* Read stops at the last file before sending it.
EndReadEarly ==
    /\ i >= num_files - 1 /\ Close
    /\ UNCHANGED <<cmd, main, i, memVars, fileVars>>

\* The compressor reads task->ptr after it has sent the task: by then it is
\* the compressed buffer, or freed memory.
UnmapTaskPtr(w) ==
    /\ \E p \in unmapping :
          /\ p[1] = w
          /\ bufs' = IF p[2] \in DOMAIN tasks /\ tasks[p[2]] = "buf" THEN bufs \ {p[2]} ELSE bufs
          /\ unmapping' = unmapping \ {p}
    /\ UNCHANGED <<cmd, main, i, tasks, maps, fileVars, farmVars>>

\* The file is only unmapped when its compression succeeded.
CompressKeepsMap(w) ==
    /\ ~\E p \in unmapping : p[1] = w
    /\ \E j \in Arrived(toWorker, w) :
          /\ Take(w, j)
          /\ \/ /\ Give(w, j)
                /\ tasks' = [tasks EXCEPT ![j] = "buf"]
                /\ bufs' = bufs \union {j}
                /\ unmapping' = unmapping \union {<<w, j>>}
             \/ UNCHANGED <<fromWorker, tasks, bufs, unmapping>>
    /\ UNCHANGED <<cmd, main, i, maps, fileVars>>

\* The archive is named after the whole path.
writeFileByPath(j) ==
    LET holds == [n \in DOMAIN out \union {Path(j)} |-> IF n = Path(j) THEN j ELSE out[n]]
    IN \/ out' = out /\ failed' = failed \union {j} /\ UNCHANGED fds
       \/ out' = holds /\ failed' = failed \union {j} /\ fds' = fds \union {<<"out", j>>}
       \/ out' = holds /\ UNCHANGED <<fds, failed>>

----------------------------------------------------------------------------

Init ==
    /\ cmd \in CommandLines
    /\ main = "parse"
    /\ i = 0
    /\ tasks = <<>>
    /\ maps = {} /\ bufs = {} /\ unmapping = {}
    /\ fds = {} /\ out = <<>> /\ failed = {}
    /\ FarmInit

\* main() up to run_and_wait_end(), or to the loop of simplecomp.cpp. The
\* assertion on num_files is compiled out (-DNDEBUG); without workers there
\* is no farm to run.
Main ==
    /\ main = "parse"
    /\ \/ Usage /\ main' = "usage" /\ UNCHANGED farmVars
       \/ ~Usage /\ nworkers < 1 /\ cmd[1] # "seq" /\ main' = "error" /\ UNCHANGED farmVars
       \/ ~Usage /\ (nworkers >= 1 \/ cmd[1] = "seq") /\ main' = "running" /\ Start(1..nworkers)
    /\ UNCHANGED <<cmd, i, memVars, fileVars>>

\* mapFile() fails: a path that cannot be opened leaves nothing behind, but a
\* file that is not regular and a file mmap refuses (an empty one) keep their
\* descriptor open.
Skip ==
    /\ source = "sending"
    /\ i < num_files /\ ~Mappable(i)
    /\ fds' = IF Path(i) \in DOMAIN Kind THEN fds \union {<<"in", i>>} ELSE fds
    /\ i' = i + 1
    /\ UNCHANGED <<cmd, main, memVars, out, failed, farmVars>>

\* mapFile() succeeds and a task is made and sent.
Read ==
    /\ i < num_files /\ Mappable(i)
    /\ maps' = maps \union {i}
    /\ tasks' = [j \in DOMAIN tasks \union {i} |-> IF j = i THEN "map" ELSE tasks[j]]
    /\ Emit(i)
    /\ i' = i + 1
    /\ UNCHANGED <<cmd, main, bufs, unmapping, fileVars>>

EndRead ==
    /\ i >= num_files /\ Close
    /\ UNCHANGED <<cmd, main, i, memVars, fileVars>>

Idle(w) == ~\E p \in unmapping : p[1] = w

\* Compressor up to ff_send_out(task): on success the task leaves with the new
\* buffer, on failure the buffer is deleted and the task is forgotten.
Compress(w) ==
    /\ Idle(w)
    /\ \E j \in Arrived(toWorker, w) :
          /\ Take(w, j)
          /\ \/ /\ Give(w, j)
                /\ tasks' = [tasks EXCEPT ![j] = "buf"]
                /\ bufs' = bufs \union {j}
             \/ UNCHANGED <<fromWorker, tasks, bufs>>
          /\ unmapping' = unmapping \union {<<w, j>>}
    /\ UNCHANGED <<cmd, main, i, maps, fileVars>>

\* unmapFile(inPtr, inSize), with the pointer saved before the task was sent.
Unmap(w) ==
    /\ \E p \in unmapping :
          /\ p[1] = w
          /\ maps' = maps \ {p[2]}
          /\ unmapping' = unmapping \ {p}
    /\ UNCHANGED <<cmd, main, i, tasks, bufs, fileVars, farmVars>>

\* writeFile(): fopen fails; or fwrite comes up short and the stream stays
\* open; or fwrite accepts all the data, of which fclose, whose result nobody
\* reads, may still lose the end. "wb" empties an archive of that name.
writeFile(j) ==
    LET holds == [n \in DOMAIN out \union {BaseName[Path(j)]} |->
                     IF n = BaseName[Path(j)] THEN j ELSE out[n]]
    IN \/ out' = out /\ failed' = failed \union {j} /\ UNCHANGED fds
       \/ out' = holds /\ failed' = failed \union {j} /\ fds' = fds \union {<<"out", j>>}
       \/ out' = holds /\ UNCHANGED <<fds, failed>>

\* A turn of the loop of simplecomp.cpp: map, compress, unmap, write, delete.
CompressHere ==
    /\ cmd[1] = "seq" /\ source = "sending"
    /\ i < num_files /\ Mappable(i)
    /\ \/ failed' = failed \union {i} /\ UNCHANGED <<fds, out>>
       \/ writeFile(i)
    /\ i' = i + 1
    /\ UNCHANGED <<cmd, main, memVars, farmVars>>

\* Write: whatever writeFile did, buffer and task are deleted.
Write(w) ==
    /\ \E j \in Arrived(fromWorker, w) :
          /\ Gather(w, j)
          /\ writeFile(j)
          /\ bufs' = bufs \ {j}
          /\ tasks' = Restrict(tasks, DOMAIN tasks \ {j})
    /\ UNCHANGED <<cmd, main, i, maps, unmapping>>

Exit ==
    /\ main = "running" /\ Joined
    /\ main' = "exit"
    /\ UNCHANGED <<cmd, i, memVars, fileVars, farmVars>>

MainStep == Main \/ CompressHere \/ Exit
ReadStep ==
    \/ Skip
    \/ Read
    \/ EndRead
    \/ DeliverEos /\ UNCHANGED <<cmd, main, i, memVars, fileVars>>
CompressorStep(w) ==
    \/ Compress(w)
    \/ Unmap(w)
    \/ Idle(w) /\ EndWorker(w) /\ UNCHANGED <<cmd, main, i, memVars, fileVars>>
WriteStep ==
    \E w \in Nodes :
        \/ Write(w)
        \/ GatherEos(w) /\ UNCHANGED <<cmd, main, i, memVars, fileVars>>

Terminated == main \in {"exit", "usage", "error"} /\ UNCHANGED vars

Next ==
    MainStep \/ ReadStep \/ (\E w \in Nodes : CompressorStep(w)) \/ WriteStep \/ Terminated

\* main and every node are threads, kept running by the operating system.
\* Worker numbers do not exceed the numerals the command line can hold.
MaxWorkers == Max(Range(Numeral) \union {2})
Fairness ==
    /\ WF_vars(MainStep) /\ WF_vars(ReadStep) /\ WF_vars(WriteStep)
    /\ \A w \in 1..MaxWorkers : WF_vars(w \in Nodes /\ CompressorStep(w))

Spec == Init /\ [][Next]_vars /\ Fairness

----------------------------------------------------------------------------

\* Every pointer in a channel is to a live task whose ptr is live too, and has
\* one owner: the compressor and the writer of the same task never free the
\* same thing, and the compressor never unmaps what the writer frees. Nothing
\* is mapped or allocated that no task in flight and no compressor accounts for.
MemorySafe ==
    /\ NoCopies(toWorker) /\ NoCopies(fromWorker)
    /\ In(toWorker) \intersect In(fromWorker) = {}
    /\ In(toWorker) \union In(fromWorker) \subseteq DOMAIN tasks
    /\ \A j \in DOMAIN tasks : tasks[j] = IF j \in In(fromWorker) THEN "buf" ELSE "map"
    /\ bufs = In(fromWorker)
    /\ maps = In(toWorker) \union {p[2] : p \in unmapping}
    /\ \A p, q \in unmapping : p # q => p[2] # q[2]

\* Tasks no one will ever see again: their compression failed.
Forgotten == DOMAIN tasks \ (In(toWorker) \union In(fromWorker))
Delivered == {j \in Inputs : j < i /\ Mappable(j) /\ j \notin DOMAIN tasks}

\* An archive holds an input of its own name that was processed to the end,
\* and every input that was, and whose writing was not reported to fail, has
\* an archive of its name: its own or, names being cut to their last part,
\* that of another input which replaced it. Whether an archive is whole it
\* leaves open, as the program does with the result of fclose.
Archives ==
    /\ \A n \in DOMAIN out : BaseName[Path(out[n])] = n /\ out[n] \in Delivered
    /\ \A j \in Delivered \ failed : BaseName[Path(j)] \in DOMAIN out

\* When the program exits, every mapping and buffer has been released and all
\* that is lost is a task per failed compression and a descriptor per failed
\* input or output.
ExitClean ==
    main = "exit" =>
        /\ maps = {} /\ bufs = {}
        /\ DOMAIN tasks = Forgotten
        /\ \A d \in fds : IF d[1] = "in" THEN ~Mappable(d[2]) ELSE d[2] \in failed

\* Every input main hands to Read is settled once, and the program does not
\* exit before, but does on every schedule, with bounded channels and whatever
\* fails.
Job == INSTANCE StreamJob WITH
    pending   <- {j \in Inputs : j >= i} \union In(toWorker) \union In(fromWorker),
    delivered <- Delivered,
    dropped   <- {j \in Inputs : j < i /\ ~Mappable(j)} \union Forgotten,
    status    <- CASE main = "parse" -> "new"
                   [] main = "exit" -> "ended"
                   [] main \in {"usage", "error"} -> "refused"
                   [] OTHER -> "running"

JobSpec == Job!LiveSpec
====
