# Verification of the SPM class works

This directory holds TLA+ models of the programs of the SPM (Structured Parallel
Programming) class works, the TLC configurations that check them on small
instances, and proofs, checked by TLAPS, of what holds for every instance. The
programs are C++ over FastFlow, a library of pipelines, farms and parallel loops
that is not part of the repository.

## The system

Each class work is a set of independent programs, often several parallel versions
of one sequential program. What they share is the shape: a *stream* of tasks,
heap-allocated and passed by pointer through bounded channels between threads, an
end-of-stream mark (EOS), and a result that must be the one the sequential
program computes.

| Part | Source | State | Operations | Interaction | What makes it correct |
|---|---|---|---|---|---|
| Sequential prime search | `ClassWork4/primes.cpp`, `ClassWork5/primes.cpp` | cursor, results | `is_prime`, main's loop | none | only primes, in order, and all of [n1, n2] whose squares fit a word; `is_prime` ends on every word, main unless n2 is the last one |
| Master-worker on numbers | `ClassWork4/primes_master-worker.cpp` | emitter's `n1` and `results`, channels | `Emitter::svc`, `Worker::svc` | channels to workers, feedback channels, EOS | no prime lost or doubled on any schedule; the cycle of channels ends |
| Master-workers on ranges | `primes_master-worker2.cpp`, `my_primes_master_worker_map.cpp` | heap of tasks, results | partition, worker loop, merge | the same | the parts tile the range; the merged vector is sorted; each task deleted once |
| Master-worker with a first stage | `my_primes_master_worker.cpp` | tasks, channels, EOS count | `Stage0`, `Sched::svc`, `Sched::eosnotify`, `Worker::svc` | pipeline into a farm with feedback | primes printed once; EOS re-broadcast harms nothing |
| File compressors | `ClassWork3/simplecomp_{pipe,farm}.cpp`, `my_simplecomp_farm.cpp` | tasks, mappings, buffers, descriptors, `./out` | `Read`, `Compressor`, `Write`, `mapFile`, `writeFile` | emitter, workers, collector | one owner per resource; every input settled once; what a failure leaves behind |
| Sequential compressor | `ClassWork3/simplecomp.cpp` | the same, without threads | the same | none | the same |
| Block compressor | `ClassWork3/compdecomp.cpp` over `miniz.c` | two buffers, two files, the z_stream | `compressFile`, `decompressFile`, `mz_deflate`, `mz_inflate` | calls | every byte read is compressed and written once; the loops end; no text is lost by an error or between two calls |
| The coder below it | `ClassWork3/miniz.c` | circular dictionary, hash chains, the match kept back, items of the block; symbol counts, code sizes, codes, runs | `tdefl_compress_normal`, `tdefl_find_match`, `tdefl_flush_block`, `tdefl_optimize_huffman_table`, `tdefl_start_dynamic_block`, `tdefl_compress_lz_codes`; `tinfl_decompress` | calls, bits | the decoder gives back the text from the bits alone; no code is shorter; the limit of codes is met and the loop that meets it ends |
| ParallelFor searches | `ClassWork5/primes_parallelfor.cpp`, `my_primes_parallelfor.cpp` | one vector per worker | loop body, merge, sort | chunks of iterations, dealt out while the loop runs | as the sequential search |
| Data-parallel stream | `ClassWork6/*.cpp` | state vector carried between tasks | generator, map, reduce, update | a pipeline of two, barriers between parallel loops | each task meets the state the previous one left |
| Image filters | `ClassWork7/imagesfilter/*.cpp` | images in flight, output files | read, blur, emboss, write | eight arrangements of pipelines and farms | every image filtered once by both filters and written once |
| Distributed image filters | `ClassWork7/imagesfilter/img_d.cpp` | images on two hosts, messages in flight, callbacks | read, blur; emboss, write | messages in two parts, not copied; one callback frees the task | as above, and nothing is read after it is freed |
| Sobel | `ClassWork7/sobel/*.cpp` | images in flight, output files | read, stencil, write | a loop, a pipeline of two, a farm; parallel rows inside a stage | every readable image written once, the others reported and skipped |
| Sums of squares | `ClassWork1/{my_,}pipe_square.cpp`, `ClassWork2/{my_,}farm_square.cpp` | tasks, running sum | generator, square, sum | pipeline, farm | every number squared and added once; a sum of longs exact, one of floats as exact as its order of additions allows |
| Array sum | `ClassWork6/my_arraysum.cpp` | array, sum | fill, add up | one parallel loop | every element added once |

What is hard about them: threads interleave inside a single call of `svc` (the
emitter of a master-worker is still sending while its workers answer); channels
are bounded and, with feedback, form cycles; end-of-stream travels behind data
along several paths; pointers change owner when they are sent, and code runs on
after the send; results arrive in any order; resources outlive errors. There is
no persistence and no network except in `img_d.cpp`, so crash recovery and message
loss are no part of the system; there the transport is reliable, and what is hard is
when it is done with the memory it was lent.

## Modules

| Module | Models |
|---|---|
| `PrimeTest` | `is_prime`, the definition of primality, the outcome of `results.reserve` |
| `PrimeSearch` | abstract: what every prime search promises |
| `Primes`, `MCPrimes` | `primes.cpp`, loop by loop, on machine words |
| `Channels` | FIFO channels of a farm (external) |
| `FeedbackFarm` | a farm without collector and with feedback (external), and its end-of-stream protocol |
| `MasterWorker`, `MCMasterWorker` | `primes_master-worker.cpp` over `FeedbackFarm` |
| `RangeMasterWorker`, `MCRangeMasterWorker` | `primes_master-worker2.cpp` and `my_primes_master_worker_map.cpp` over `FeedbackFarm` |
| `Farm` | a farm with emitter, workers and collector (external) |
| `StreamJob` | abstract: what a program over a list of inputs promises |
| `CompressFarm`, `MCCompressFarm` | the three file compressors over `Farm`, and the sequential one |
| `SchedFarm`, `MCSchedFarm` | `my_primes_master_worker.cpp` over `Channels` |
| `Miniz` | the streaming interface of `miniz.c`: `deflate`, `inflate`, their loops and buffers |
| `Lz` | how `miniz.c` finds matches: dictionary, hash chains, lazy parser |
| `Huffman` | how it makes the codes of a block and packs their sizes, and its decoder |
| `Deflate`, `MCDeflate` | blocks, raw, static or dynamic, composed of `Lz` and `Huffman`, and the decoding of a whole text |
| `BlockCopy` | abstract: what a program that copies or transforms block by block promises |
| `CompDecomp`, `MCCompDecomp` | `compdecomp.cpp` over `Miniz` |
| `CommandLine` | `getOption` and `atoi`, shared by the compressors and the image filters |
| `StageNet` | layers of nodes: pipelines, farms without collector and their combinations (external) |
| `ImageFilters`, `MCImageFilters` | the eight local image programs and the three Sobel programs over `StageNet` |
| `ImgD`, `MCImgD` | `img_d.cpp`, both hosts and the transport between them, over `Channels` |
| `ParallelLoop` | parallel loops with even shares or chunks (external) |
| `ParallelSearch`, `MCParallelSearch` | `primes_parallelfor.cpp` and `my_primes_parallelfor.cpp` over `ParallelLoop` |
| `MapOnStream`, `MCMapOnStream` | `maponstream.cpp` and `my_maponstream.cpp` over two instances of `ParallelLoop` |
| `StreamSum` | abstract: what a sum over a stream promises, in any arithmetic |
| `Squares`, `MCSquares` | the four sums of squares over `StageNet` |
| `Shared_proofs` | lemmas and theorems on what the programs share |
| `Primes_proofs` | theorems on `Primes` and `ParallelSearch`, and their proofs |
| `MasterWorker_proofs`, `RangeMasterWorker_proofs`, `SchedFarm_proofs`, `CompressFarm_proofs`, `ImageFilters_proofs`, `MapOnStream_proofs` | theorems on the programs of that name, and their proofs; those on `ImgD` are in `ImageFilters_proofs` |

Every module with a program has a section of *mutants* in front of its actions:
plausible slips of the definitions below it (a dropped guard, an off-by-one, a
missing delete). No specification uses them. Putting one in the place of the
definition it mutates makes TLC report the property it is listed with in
`PROJECT.json`: that is how each property was shown to depend on the code.

### How state and actions correspond to the code

**Primes.** `args` is the command line, as `std::stoll` returns it; `start` and `n2`
are the words made of it by `ull`, so that a negative argument is in the upper half of
them. `n1`, `prime`, `i`, `results` are the variables of that name. `NextNumber` is one
evaluation of `while( (prime=n1++) <= n2 )`, `Screen` the tests of `is_prime` before its
loop, `Trial` one turn of the loop. All arithmetic is modulo `Modulus`. `Reserve` is the
vector's reservation, and `Return` the `push_back`, which throws when `Memory` numbers
are in the vector; nobody catches.

**FeedbackFarm.** `toWorker` and `toEmitter` are the channels. A step is one
message moved. `SendOut` and `Broadcast` are `ff_send_out` and
`broadcast_task(EOS)` on bounded channels; `Feedback` and `Svc` hand a message to
`svc` of emitter and worker; `EndWorker` and `CloseChannel` pass EOS on. The
emitter serves the feedback edge only after its first `svc` has returned, and ends
when every worker's EOS has come back, as the three programs rely on.

**MasterWorker.** `n1` and `results` are the emitter's members. The emitter's
first call of `svc` is one step per number sent, with the post-increment of the
loop condition in the step, because the workers run in between; other calls are
atomic, since they touch only state of their own thread and one channel.

**RangeMasterWorker.** `tasks` is the heap: a pointer is the loop index under which
its task was allocated. `args[1]` selects the program: `SendEven` is the partition
and `ff_send_out_to` of `primes_master-worker2.cpp`, `SendDelta` the one of
`my_primes_master_worker_map.cpp`. `Collect` is the merge and the delete.

**CompressFarm.** `tasks` maps each live task to what `task->ptr` points at (the
mapping or the compressed buffer); `maps`, `bufs` and `fds` are the resources held;
`unmapping` holds the task a compressor has sent but whose file it has not
unmapped, since Write may run in between; `out` is the directory `./out`. Each
failure (open, `S_ISREG`, mmap, compress, fopen, fwrite) is a disjunct of the
action it happens in. `cmd[1]` selects the program and `Main` parses its command
line the way that program does. `"seq"` is `simplecomp.cpp`: no farm is started, and
`CompressHere` is a turn of its loop.

**SchedFarm.** A task is named by the number `Stage0` allocated it for; `tasks` is
the heap. `FromStage0` and `Forward` split a call of `Sched::svc` from the send that
FastFlow does with its result: the task is in `held` in between. `NotifyStage0` and
`NotifyWorker` are `Sched::eosnotify`, `Broadcast` its `broadcast_task(EOS)`, one
worker at a time. Workers end on their first EOS, so the marks of the later
broadcasts stay unread in their channels.

**Miniz.** `next_in` and `s_outbuf` are the contents of the caller's two buffers;
`avail_in` and `avail_out` are read off their lengths. The stream is cut into units,
several to a block, and a unit carries what it decodes to: the coders are abstract,
the accounting is not. `comp` is what `tdefl_compress` keeps (text taken but not yet
in a block, output not yet flushed, `finishing`, `finished`), `decomp` what
`inflate_state` keeps (decoded text that did not fit, the dictionary with its
position, the last status). A step is one turn of a loop of `mz_deflate`,
`tdefl_flush_output_buffer` or `mz_inflate`. Damage is `"broken"`, which the decoder
meets at once, or `"wrong"`, which only the checksum at the end reveals.

**Lz.** `Miniz` takes a block for a unit; the next three modules look inside one. `dict`,
`hash`, `next`, `lookahead_pos`, `lookahead_size`, `dict_size` and the saved match are
the members of `tdefl_compressor` of that name; `text` is what the caller has given so far. A step is
one turn of a loop: `Insert` and `Refill` take bytes in and enter them in the chains,
`Probe` is one `TDEFL_PROBE` with the comparison behind it, `Parse` the choice between a
literal, a match and keeping the match back. The chains hold positions modulo
`PosSize`, so stale entries are followed, or not, as in the code. What the compressor's
memory holds before it is initialised is part of the input: `tdefl_init` does not clear
the dictionary.

**Huffman.** A step is one turn of a loop of `tdefl_optimize_huffman_table` and what it
calls (`Sort`, `Combine`, `Depths`, `Assign`, `CountSizes`, `Limit`, `SetSizes`,
`SetCodes`), run for the three tables in turn, or of `tdefl_start_dynamic_block`
(`StartPack`, `Pack`, `EndPack`). `A` is the array of keys that holds counts, then
parents, then depths; `pack` the runs of code sizes written and the one in work. The
tables of lengths and distances are constants; extra bits are one number each, cut to
their width.

**Deflate.** `Start`, `WriteCoded` and `WriteRaw` are `tdefl_flush_block`. `written` is
the output; its bits are numbers in a sequence, so how they are packed into bytes is left
out. Whether a coded block would be longer than its text is left open: `WriteRaw` may
replace it whenever the text is still in the dictionary. `Inflate` is the decoder, an
operator over the bits alone.

**Squares.** A task is named by the number it was made of; `tasks` says what is in it
now, and deleting it takes it out. `Main` is `main` up to the run: `Usage`, the
exceptions of `std::stol` (`Throws`), the conversions of the length on its way from `long`
to the loop (`length`), and the graph. `NewTask` and `Forward` are the generator's loop,
cut at its send; `Take` and `Forward` the worker's `svc`; `AddUp` the last stage. Numbers
are whole, and widths are parameters, with rounding to the nearest float, of two
to the even one. `svc_init` of `my_farm_square`'s worker (line 25) returns nothing: what
FastFlow sees is undefined, and the model takes three outcomes, a worker that runs, one
whose thread ends at once (`failed`), and a process that dies.

**CompDecomp.** `pc` is the place in `main`; `infile_size` and `infile_remaining` are
its variables. `written` is what `fwrite` has taken for the output file; `files` is
the disk, where it arrives when the file is closed, or in part when the process
stops. `jobs` are command lines joined with `&&`. `goal` (what the output has to be)
and `precious` (what the user must not lose) are history variables that no action
reads; `faults` records which system calls have failed, and also that `Open` has emptied the only
copy of the precious text, or was given one file for source and target. `MaxFile` is the
`INT_MAX` of lines 165 to 169. File names are sequences of
their dot-separated parts, because the program looks for `.zip` in them.

**StageNet, ImageFilters.** A program is a sequence of layers, one definition per
`main` (`img`, `img_pipe`, ... `img_pipe_farm`), each with the number of its nodes and
the calls a node makes on a task; a default emitter of a farm is a node that makes
none. `hand` is the task inside a call of `svc`. `NextImage` and `Filter` are `svc` up
to the filters, `CreateFile` and `CompleteFile` the two ends of `image->write`, because
in `img_farm2` and `img_farm3` several nodes write at once. `out` maps a file to the
results that are in it, `done` in a task to what was done to its image. An exception
of ImageMagick, which nothing catches, leads to `main = "aborted"`, where no thread
runs. The Sobel programs read with OpenCV, which does not throw: `SkipImage` is the
image reported and left out. `sobel.cpp` computes the gradient and then does not store
it (line 119 is commented out), so what it writes is `"blank"`, not `"sobel"`. The
parallel loops over the rows are one operation of the stage: each iteration writes its
own row of the new image and reads only the old one.

**ImgD.** A task is the index of its image; `heapA` and `heapB` are the tasks alive on
either host. `outbox` holds the message parts handed to the transport and not yet sent,
`wire` those that have arrived, `callbacks` the first parts that are sent but whose
callback has not run. `Blur` is `svc` and `prepare`, `Emboss` the unmarshalling and
`svc` of the other side. Only the first part has a callback argument, and its callback
deletes the task (`Callback`); the second part points at the name inside it. A name
part sent after that carries what is left there: the name or `Stale`.

**ParallelLoop, ParallelSearch.** `share` holds the iterations each thread still has to
do, `undealt` the first nobody has; `Deal` is a thread asking for its next chunk.
`ParallelSearch` adds the loop bodies (`Test`), and the merging loop and final sort of
the first program. `std::upper_bound` on a vector that is not sorted may answer any
place (`UpperBounds`); `R[i][0]` of an empty vector is a read of no element, which
crashes when it is compared with something.

**MapOnStream.** Two threads of the generator and the workers of the stage each run
their own `ParallelLoop`. Numbers are symbolic: an element of the state vector is the
sequence of tasks whose sums were added to it, and a sum is the set of the rows in it,
each with the elements it was combined with, so a row computed with the wrong state
shows. `stage` names the parallel loop that runs: `multiply`, `reduce` (only `"my"`),
`update`, and `svc_end` for the total. `my_maponstream.cpp` pushes new ones behind its vector
with every task and deletes none of its tasks; both are in the model.

## Runs

| Run | Question | Instance |
|---|---|---|
| `primes` | What does trial division answer on words of any size, what for negative arguments? Are the bounds inclusive, and when does the program end? | 8-bit words, signed arguments; ranges at both ends and across the middle of the words, empty, reversed and endless ones |
| `master_worker` | Is a prime lost, doubled, or stuck on some schedule? Does EOS stay last? | 3 workers, channels of 2, six ranges of up to 6 numbers |
| `range_master_worker` | Do both partitions tile the range, and does block merging keep the order? Is each task deleted once? | 3 workers, 36 ranges with each remainder, also shorter than the workers |
| `compress_farm` | Who owns task, mapping and buffer? Is every input settled once? What is left at exit? | all four programs, 1 to 3 workers, channels of 1, ten command lines with failing and homonymous files |
| `sched_farm` | Is a prime lost, printed twice or used after its delete? Does EOS, broadcast once per notification, do harm? | 3 workers, channels of 3; an empty and a negative range |
| `comp_decomp` | Does each byte pass once, in order, through input buffer, coder, dictionary and output buffer? Do the loops end? What is on disk after an error? | buffers of 3, dictionary of 2, blocks of up to 3; texts of up to 6; archives empty, sound, cut, damaged in both ways, followed by another; targets that are there already; a source that is too large |
| `deflate` | Does the decoder give every text back? Is what the coder compares and copies still in its place? Does the loop that shortens codes end, and is the code a shortest one? | a dictionary of 32 bytes, positions of 6 bits, matches of 3 to 6; 13 and 4 symbols, codes of at most 4 and 3 bits, runs of 4, 4 and 8; some 1700 texts of up to 100 bytes, given at once or in pieces, with each flag |
| `image_filters` | Does every graph leave what the sequential program leaves? What happens to files of one name, to files that cannot be read, and on exceptions? | all eleven programs, 1 to 3 workers per row, up to three images, channels of 1 |
| `parallel_for` | Do the threads find each prime once, for every way the iterations are dealt out, and is the output in order? | both programs, 1 to 3 threads, even shares and chunks of 1 and 2, ranges with shares without primes |
| `map_on_stream` | Does every row of every task meet the state its predecessors left? Who owns the task? | both programs, 1 to 3 threads, up to 3 tasks, a channel of 1 |
| `img_d` | Is a task deleted while the transport still needs it? Is every image written on the other host, and do both hosts end? | 1 or 2 workers per host, also unequal; up to 3 images; channels of 1 |
| `squares` | Is each number added once, and what is the sum worth? Does the program end for every length and every worker that fails? | words of 4 and 7 bits, floats of 3; lengths that fit, wrap or are refused; 0 to 3 workers, channels of 1 |

Bounds. `primes` needs no bound on the run, only on the words and on the memory. In 8
bits the squares fit for numbers up to 120, and 251 is a prime that `is_prime` rejects;
the arguments are those of 64 bits scaled down, positive ones below 128 and negative
ones above, up to the pair -7, -1, with which main goes round the words until the vector
has its 24 numbers. Three workers are enough
for two to race while a third is idle or has ended; channels of one or two entries
fill up, so every send has to wait on some schedule. Ranges contain primes,
composites and unordered remainders. In `sched_farm` a channel must hold a mark for
every worker, because nobody reads the channels of ended workers
(`QueueLenAssumption`; FastFlow's default channels are far longer). In `comp_decomp`
the buffer is deliberately no multiple of the dictionary. In the program it is
(1 MiB and 32 KiB), so there decoded text never has to wait in the dictionary for
the next call; with 3 and 2 it does, and the branch of `mz_inflate` that hands it out
(`InflateRest`) is checked too. Every call of the system may fail at every time. In
`deflate` the sizes are scaled so that their relations stay: the positions wrap after two
dictionaries, the code buffer fills before a block's text leaves the dictionary
(`LzAssumption`: 31K + 1 <= 32K - 258), and a code of the longest size has room for all
symbols. All sets of literals are tried, so a run of used or unused symbols has every
length up to the longest one and beyond, and starts and ends everywhere, also across the
two tables; some texts have counts that grow like the Fibonacci numbers, which makes
codes longer than the limit; some go round the dictionary and round the positions, so
that chains lead to stale entries, and a hash comes again when its position has nearly
come round. In `squares` 4, 7 and 3 bits stand for 32, 64 and 24: an int squared fits a
long, a float is exact only for the first few sums, and the sum of longs overflows for
lengths an int can hold. Nothing else is bounded: the state spaces are
finite by themselves.

Fairness. Every node of a FastFlow graph is a thread that blocks or spins on its
channel, and the operating system runs every thread that can run: weak fairness per
thread (`EmitterStep`, each `WorkerStep`, `ReadStep`, `WriteStep`), never per action,
so no choice inside a thread is forced. In particular, which worker is served, and
whether a compression fails, is free. `CompDecomp` is one process that always goes
on when it can: weak fairness of `Next`. In `ImgD` the network is one more actor that
goes on (`TransportStep`, `CallbackStep`). `MapOnStream` assumes no fairness: its
properties are about safety, and the loops it runs are counted.
`img_d` is checked without a deadlock check: a worker without a partner on the other
host really waits for ever, which `Termination` says. In `squares` a farm with a failed
worker does so too: `StreamSum` calls it stuck, and every other run ends.

`Deflate` is a single computation, checked for safety and for getting stuck.

Each property is stated with a comment where it is defined. In short: `Conserved`
says that no prime sent is lost at any moment (that it is in one place only,
`AtMostOnce`, is proved);
`EosIsLast` is the end-of-stream protocol; `Tiling`, `Sorted` and `Ownership` relate
the ranges on the heap, the merged vector and the channels; `MemorySafe` relates
channels, heap and resources; `OneOwner` and `HarmlessEos` do so for the farm with a
first stage; in `CompDecomp`, `Conserved` says that what is written, buffered, held in
the coder and still unread always make up the whole text, `NoFalseAlarm` that nothing
but a fault of the system, a bad archive or wrong use ends in an error, and
`NothingLost` that some file always holds the user's text. There are two exceptions,
which are part of the definition, and without either of which the run fails: `fclose`,
whose result the program ignores, has failed; and `fopen` has emptied a target that was
there already and had the only copy of the text, which may be the source itself. The
program asks for neither. In all other cases, also onto a target that has the same text
as the source or another one, no step and no error loses it.
One more danger lies outside: a failed compression leaves an archive cut short, and a
user who decompresses that in place loses the text it was made from. That is why the
jobs are joined with `&&`. Bytes that follow the end of an archive are dropped, and
are lost when the archive is removed; `good \o good` in the run is that case. For the
images, `Ownership` is the end-of-stream protocol of every graph, and `LikeSequential`
compares `./out` at exit with what a loop over the images leaves. Two images of one name are
excepted where workers may overtake each other: then the last to arrive stays, and in
`img_farm2` and `img_farm3` a file can mix both (`WholeFiles`). Without the exceptions
the run fails, so the cases are reached. In `ImgD` the exception is the name read
through a part that outlives its task: then an image may be written under any name.
In `MapOnStream`, `Ownership` also bounds what the generator's two threads, which
write the same element of a task, can leave there.
`Archives` and `ExitClean` say what failures leave; as in `compdecomp`, nobody reads the
result of `fclose`, and whether an archive is whole `Archives` does not say.
The farms on ranges search [n1, n2), unlike the other programs, and their `SearchSpec`
says so.
`Termination` is deadlock freedom and progress; `SearchSpec`, `JobSpec` and `SumSpec` are
the refinements of the abstract specifications, in `RangeMasterWorker`, `SchedFarm`,
`CompressFarm`, `ParallelSearch` and `Squares` with the promise that the program ends.
`SumSpec` says that one worker, or a pipeline, adds in the order of the stream, and more
workers in any order, each number once; `SumPrinted` what the printed sum is worth:
`farm_square 2 6` prints 48 or 56 in the run's floats of 3 bits, as the workers happen to
deliver. `PrintedInOrder` of `ParallelSearch` also says exactly when
`primes_parallelfor` dies at its merge. In `Deflate`, `Decodable` is the round trip
from text to bits and back, `Window` says that the dictionary, its mirrored start and the
text in the block hold what the coder takes them for, `LimitEnds` relates the counter of
the limiting loop to the codes it shortens, and `Optimal` compares with every binary tree. The type invariants of
`Primes` and `MasterWorker`, the loop invariant of `is_prime` (`TrialInvariant`), that no
number is in two places (`AtMostOnce`) and that the printed primes ascend are proved
below, and are in no run.

## Proofs

All theorems hold for every value of the constants that meets the named
assumptions.

* `Shared_proofs`. **IsPrimeCorrect**: `is_prime(n) <=> Prime(n)` for all n. A
  composite has a divisor whose square it reaches (`SmallDivisor`); modulo 6 that
  divisor is a multiple of 2 or 3 or one the loop tries (`Wheel`, `NoSmallDivisor`).
  **PrimesInOrder**: what a worker collects from any finite set of numbers. Then lemmas
  on sending and reading: which messages a family of channels holds, that the mark stays
  last, that no copy arises. `CycleProtocol` is about the farm with feedback. `EosIsLast`
  is not inductive: nothing follows EOS towards a worker because the broadcast serves
  each worker once, and nothing follows it back because a worker that has read it runs
  no more. `CycleProtocol` adds those facts, over the values of the farm's variables, and
  one lemma per operation (`CycleInit` to `CycleEnded`) shows that it is kept,
  whatever the messages are. The lemmas on numbers are for the parallel loops: the even
  shares of a range tile it (`EvenShares`).
* `Primes_proofs`. The machine, not the operator, for words of any size and every pair
  of arguments `std::stoll` can return. `i*i` wraps for numbers from negative arguments,
  so it cannot bound `i`; what does is the candidate itself, which is `i` or `i + 2`
  before `i` could pass it (`TrialInvariant`). So
  `Inv` is the loop invariant with the position of main in its range (`Position`), which
  is below the last word unless n2 is that word (`NotWrapped`), and the two halves of
  `ResultsExact`: what is in the vector is prime (`Sound`), and a prime tested is in it
  if its squares fit (`Complete`). Proved: **TypeCorrect**, **LoopCorrect**,
  **SearchExact**, **PrintedInOrder** and **ImplementsSearch**, the last one for the
  ranges the program can keep the promise for (`Covered`): on 64 bits, among others,
  all that are given without negative arguments and fit the memory.
  The second part is on `ParallelSearch`, both programs, every number of threads and
  every way the iterations are dealt out. `ParInv` says of a prime of the range that it
  is in a thread's vector, or its number is left to exactly one thread, or not dealt yet;
  that no number is in two vectors; and that with even shares every vector ascends and
  the vectors do so in the order of the threads, which is why `primes_parallelfor` gets
  along with one place per vector until it meets an empty one. Proved:
  **ParallelPrinted**, which is `PrintedInOrder` of that module, and
  **ParallelImplementsSearch**, the safety part of the refinement.
* `MasterWorker_proofs`. `Inv` = types, `FarmInv` (`CycleProtocol` of the state), `Loop`
  (how far the emitter's loop is) and `Conserved`. Proved: **TypeCorrect**,
  **NothingAfterEos**, **NoPrimeLost**, **NoPrimeTwice**, **PrimesComplete** (at the end the
  vector is exactly the primes) and **ImplementsSearch**, the refinement of `PrimeSearch`.
  The workers' verdict enters through **IsPrimeCorrect**.
* `RangeMasterWorker_proofs`, for both programs. `Tiling` is not inductive, since the
  next cut depends on where the last one ended: `Loop` gives the cursor after k cuts in
  closed form, and `CutProperties` shows for both partitions that the next range is
  cut off the rest whatever quotient and remainder are, the negative quotients of C++
  included. `Sorted` needs that the vector of a task is in order (**PrimesInOrder**) and
  inside the range of its task (`Heap`), which is disjoint from the others (`Tiling`):
  the merge puts it into a gap of the results. Proved: **TypeCorrect**, **RangeTiled**,
  **ResultsSorted**, **TaskOwned**, **PrimesComplete**, and **ImplementsSearch**, the
  safety part of the refinement.
* `SchedFarm_proofs`. No variable of the program says that Stage0 has ended;
  `Draining` recovers it: where a mark has gone to a worker, nothing is left of Stage0's
  stream, so no task is sent behind a mark. `Room` counts marks: a channel to a worker
  never holds more of them than there are workers, which is what **NeverStuck** needs and
  what the assumption on the length of a channel is for. Proved too: **TypeCorrect**,
  **BroadcastsHarmless**, **TaskOwned**, **PrimesComplete** (all primes of the range are
  printed; the tasks of the other numbers are exactly what is never deleted) and
  **ImplementsSearch**, as above.
* `CompressFarm_proofs`. `MemorySafe` is not inductive: a new task must not be one
  already on its way (`Heap`: tasks are of inputs before the loop index), the writer must
  leave nothing to a compressor that has handed a task on and not yet unmapped its file
  (`Heap` again), and at the end all is given back because a worker ends only with
  nothing left to read, and the collector after it (`EosProtocol`). Proved, whatever
  fails: **MemoryOwned**, **ArchivesTrue**, **NothingElseLost** and **ImplementsJob**,
  the safety part of the refinement of `StreamJob`.
* `ImageFilters_proofs`, for all eleven graphs, any number of workers in their rows and
  any length of the channels. None of the three invariants is inductive. `Staged` says of
  a graph what has been done to an image when it leaves each layer; that every program's
  graph is such (`GraphProperties`) is the only place where the graphs are told apart.
  The network comes next, with one lemma per step (`ReceiveStep` to `EndNodeStep`):
  `OneOwner`, `Drained` (marks are last, a node has one in each of its outputs exactly
  when it has ended and the receiver has not, and ends with nothing left for it) and
  `InLine`: where every layer has one node, the tasks in the network ascend from the
  sink to the source, so none overtakes another. `Located` gives the state of a task from its
  place, `GoneFirst` orders the images that have left before those that have not, and
  `Files` compares each file with all images ever opened under its name. Proved:
  **TasksOwned**, **FilesWhole**, **OutputLikeSequential** and **ImplementsJob**, where an
  image is delivered when its task is deleted behind the complete file, and dropped when
  it is skipped. **NeverStuck** is deadlock freedom: of the nodes with a task in hand or
  at the head of an input, one in the last such layer can go on, since what it waits for
  is room, and the channel it waits for would put a task before a node further on; if there is
  no such node, the first node that has not ended has its marks and room for its own.
  `CanStep` stands for `ENABLED NodeStep(node)`; TLC found the two equivalent in every
  state of the run where the program runs.
  The last part of the module is about `img_d`, as an instance `D` of `ImgD` over
  variables of its own, for any numbers of workers on the hosts and any images. `Ownership`
  needs that no part of a message is twice in the transport or on the wire (`OneHost`).
  `LikeSequential` needs `NamesKept`: behind an image on the wire is its name or the name
  read too late, and where nothing is behind it yet, the name is the next part that the
  transport of this connection sends, so no image is paired with another's name. It needs
  `Marked` too, which follows the end of the stream from the emitter through a worker, its
  transport and its partner to the collector: where it has come, nothing is left
  behind, so that of all images sent (`NothingLost`) none is under way when host B ends.
  Proved under `ImgDAssumption`: **HostTasksOwned** and **HostsLikeSequential**.
* `MapOnStream_proofs`, both programs, for any number of threads, rows, tasks and any
  length of the channel. Neither invariant is inductive. The lemmas on the loop
  (`LoopStart`, `LoopIterate`, `LoopOver`) say that the iterations left to the threads
  are disjoint and that, when all threads are idle, every iteration is done. `MapInv`
  adds what the channel holds (the tasks sent and not taken, in order, and EOS behind
  them, `ChannelInv`) and what the loops have made so far (`InSvc`): the rows combined or
  summed up, and the elements updated, are those whose iterations are done. So the
  vector is, element by element, that of the sequential program before the task or after
  it. Proved: **StateLikeSequential** and **TasksOwned**.

The inductive invariants were checked by TLC, as invariants of the same runs, before
they were proved. The theorems rest on the assumptions that the modules name, which
TLC evaluates in every run: that 25 is a word and half of the
words are negative numbers (`ModulusAssumption`), that the marks are no tasks (`EOSAssumption`, `TaskAssumption`),
that there is a finite number of workers, that `Numeral` gives integers
(`NumeralAssumption`), that a command line begins with the program's name and that
readable files have a last name (`ImagesAssumption`), that both hosts of `img_d` have
workers, its paths are strings and freed memory shows no name of an image
(`ImgDAssumption`), and what *Assumptions on the inputs* lists.
No theorem of `CompressFarm` and `ImageFilters` depends on how options and numbers are
parsed: whatever `getOption` and `atoi` make of the command line, some number of files
and workers results.

Only model-checked: that the programs end, and everything else under fairness, which is
out of reach of the prover; so `SearchSpec` of `RangeMasterWorker`, `SchedFarm` and
`ParallelSearch`, and `JobSpec` of `CompressFarm`, are proved without their last conjunct,
the promise to end. `Huffman` and `Deflate` have a recursive decoder,
which puts them out of reach; that their round trip gives back the text, and that a code is
a shortest one, are inductions over data besides. `Miniz` and `CompDecomp` follow the bytes
of a text through four buffers with folds over the units of a stream, and `Squares` adds up
by folds in an order the threads choose: what a fold computes for every input is an
induction over data too. The library's induction theorems cannot be used; such a proof has
to go by the least counterexample (`LeastNumber`), as `Primes_proofs` does for the
flattening of lists, and this is not done for them. `Lz` has no such obstacle; its
invariant `Window` is checked on the bounds of its run only.

## Met on the way

These disagreements are part of the models, and the properties are stated around them.
`primes_parallelfor` passes `R[i][0]` to `upper_bound` for every worker (line 85), also
for one whose share of the range has no prime: when an earlier worker has found some, as
with `2 10 3`, it crashes before it prints anything (`PrintedInOrder`). `simplecomp_farm`
with its documented option `-n` both advances `start` and lowers `argc` (line 154), and
line 155 subtracts one from the other, so the last two files named are never read;
`img_d` lets the
transport read a task's name after the callback for its image has deleted the task;
`my_maponstream` and `my_primes_parallelfor` read one argument past the end when they
are started as their usage lines say, and `std::string` throws; a negative
argument becomes a number near 2^64 in `primes`, where `is_prime` may reject a prime
(`ResultsExact`), and with `primes 0 -1` no number lies behind `n2`, so that main goes
round the words until memory is exhausted (`Termination`); `compdecomp` empties an
existing target without asking (`NothingLost`); `pipe_square` and
`farm_square` make nearly the greatest `size_t` of a negative length, where the student's
programs make an empty stream.

## Assumptions on the inputs

* `Primes`: none but that `std::stoll` accepts the arguments.
* `MasterWorker`: the arguments are not negative, and `number1` is not 0. Numbers travel as
  pointers: 0 would be a null task, whose treatment is FastFlow's, and -1, which
  `main` makes 2^64 - 1 of, is FastFlow's mark of the end of the stream. Numbers below
  2^63 do not wrap, nor do their squares in `is_prime`, so naturals are exact.
* `RangeMasterWorker`: no negative arguments, as above; at least one worker (the
  partition divides by their number);
  for `primes_master-worker2`, a reversed range only where its fate is defined.
* `SchedFarm`: channels hold at least one entry per worker, see *Bounds*.
* `Farm`: EOS is delivered to all workers in one step; with bounded channels this
  only delays workers that would be idle anyway.
* `ParallelSearch`: no negative arguments, as above (what a negative chunk means is
  FastFlow's to say); at least one worker. `number2` of
  `primes_parallelfor` is less than 2^63 - 1, since `n2 + 1` is computed in unsigned words
  and handed to the loop as a `long`.
* `MapOnStream`: at least one worker; the stream is no longer than a task has elements,
  because the generator writes element i of task i. Values are symbolic: `LikeSequential`
  says which rows and elements enter a sum. What the sum is worth is not modelled: in
  `maponstream` floats are rounded in the order of the threads, and in `my_maponstream` the
  sum of each thread goes through a `const int` (lines 93 and 124), so both can differ
  from the sequential program's.
* `Lz`, `Huffman`: a block ends before its text leaves the dictionary, and before a count
  or a sum of counts leaves its 16 bits (the code buffer has 64 K bytes, and every symbol
  takes more than one of them with its share of the flags); a code of the longest size has
  room for all symbols.
* `Squares`: `farm_square` is not given a negative number of workers, for which it has not
  the memory; arguments are numbers.
* `ImgD`: at least one worker on either host; the network loses and reorders nothing.

## Plan

1. (done) prime searches: `Primes`, `MasterWorker`, `RangeMasterWorker`.
2. (done) file compressors: `CompressFarm`.
3. (done) master-worker with a first stage: `SchedFarm`.
4. (done) `compdecomp.cpp` over `mz_deflate`/`mz_inflate`: `Miniz`, `CompDecomp`, with
   `BlockCopy` as the abstract specification.
5. (done) the local image filters and the Sobel programs: `StageNet`, `ImageFilters`.
6. (done) `img_d.cpp`: two hosts, messages in two parts, the callback that frees a
   task: `ImgD`.
7. (done) data-parallel programs: `MapOnStream`, and the ParallelFor searches refining
   `PrimeSearch`: `ParallelSearch`.
8. (done) the coder of `miniz.c`: `Huffman`, `Lz` and their composition `Deflate`.
9. (done) sums of squares over `StageNet`: `Squares`, refining `StreamSum`.

Proofs: done for the prime searches (`Primes`, `MasterWorker`, `RangeMasterWorker`,
`SchedFarm`, `ParallelSearch`), the compressors (`CompressFarm`), the local image filters
(`ImageFilters`), the two hosts (`ImgD`) and the stream with a state (`MapOnStream`).
Open, and within reach of the prover: `Lz` (`Window`).

## Not modelled

* Printing and timing, except where a program prints its result.
* Of `miniz.c` (vendored): the parser of level 1 (`tdefl_compress_fast`), since the
  programs compress at levels 6 and 9; the flush values other than none and finish, which
  they do not use, and the second attempt for a block that outgrows its buffer; bits in
  bytes, header and checksum below `Deflate` (the checksum's verdict is in `Miniz`); the
  one-call functions, which run the same loops, and the archive functions.
* `my_arraysum.cpp`: one parallel reduction over constant data, whose sums are exact in a
  double. `my_comp.cpp` and `my2_maponstream.cpp` do not compile; `prova.cpp` is an
  exercise on C++ references.
* What the loops over the rows of an image compute in the Sobel programs, and what
  ImageMagick's filters do.
* FastFlow, ImageMagick, OpenCV and 0mq themselves, but for what the programs rely on.
