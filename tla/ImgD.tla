---- MODULE ImgD ----
(***************************************************************************)
(* ClassWork7/imagesfilter/img_d.cpp: the image filters on two hosts.      *)
(*   host A   reads the images and blurs them, in a farm of nwA workers;   *)
(*   host B   embosses and writes them, in a farm of nwB workers.          *)
(* Worker w of A is connected with worker w of B. A task crosses in a      *)
(* message of two parts, the encoded image and its name, and neither part  *)
(* is copied when it is handed to the transport: the task must live until  *)
(* the transport is done with it, which it tells by a callback per part.   *)
(*                                                                         *)
(* FastFlow and 0mq are not part of the repository. A task is named by the *)
(* index of its image.                                                     *)
(***************************************************************************)
EXTENDS Channels, FiniteSetsExt, Functions

CONSTANTS
    CommandLines,   \* records [nwA, nwB, images]: both command lines
    Readable,       \* the paths of images that can be read
    BaseName,       \* path -> what follows its last "/"
    Stale,          \* a name read from memory that is no longer the task's
    QueueLen        \* entries of a channel

ASSUME ImgDAssumption ==
    /\ QueueLen \in Nat \ {0}
    /\ Readable \subseteq DOMAIN BaseName
    /\ Stale \notin {BaseName[p] : p \in DOMAIN BaseName}
    /\ \A c \in CommandLines :
          c.nwA \in Nat \ {0} /\ c.nwB \in Nat \ {0} /\ c.images \in Seq(STRING)

VARIABLES
    cmd,
    hostA, hostB,   \* "parse", "running", "exit", "usage" or "aborted"
    i,              \* how many images EmitterBlur has sent
    heapA,          \* the tasks alive on host A
    toBlur,         \* channels to the workers of A
    outbox,         \* per worker, the parts the transport has still to send
    callbacks,      \* the first parts that are sent and not yet called back
    wire,           \* per connection, the parts that have arrived at B
    heapB,          \* the tasks alive on host B, each with its name
    toCollector,    \* channels to CollectorEmboss
    eosSeen,        \* the workers of B the collector has seen end
    out             \* the directory ./out on B: the image in each file

varsA == <<hostA, i, heapA, toBlur, outbox, callbacks>>
varsB == <<hostB, heapB, toCollector, eosSeen, out>>
vars == <<cmd, varsA, varsB, wire>>

images == cmd.images
Name(j) == BaseName[images[j]]
WorkersA == DOMAIN toBlur
WorkersB == DOMAIN toCollector

Init ==
    /\ cmd \in CommandLines
    /\ hostA = "parse" /\ hostB = "parse"
    /\ i = 0
    /\ heapA = {} /\ heapB = <<>>
    /\ toBlur = <<>> /\ outbox = <<>> /\ toCollector = <<>>
    /\ callbacks = {}
    /\ wire = [w \in 1..Max({cmd.nwA, cmd.nwB}) |-> <<>>]
    /\ eosSeen = {}
    /\ out = <<>>

\* The parts of a message, and the mark that follows the last one.
ImagePart(j) == [kind |-> "image", task |-> j]
NamePart(j) == [kind |-> "name", task |-> j]
Mark == [kind |-> "eos", task |-> 0]

----------------------------------------------------------------------------
\* Mutants: plausible slips in the definitions that follow; no specification
\* uses them.

\* The loop over the images stops one short.
EmitEosShort ==
    /\ i = Len(images) - 1
    /\ \A w \in WorkersA : HasRoom(toBlur, w, QueueLen)
    /\ toBlur' = [w \in WorkersA |-> Append(toBlur[w], EOS)]
    /\ i' = i + 2
    /\ UNCHANGED <<cmd, hostA, heapA, outbox, callbacks, varsB, wire>>

\* The collector deletes nothing.
CollectKeeps(w) ==
    /\ hostB = "running"
    /\ \E j \in Arrived(toCollector, w) :
          out' = [f \in DOMAIN out \union {heapB[j]} |-> IF f = heapB[j] THEN j ELSE out[f]]
    /\ toCollector' = Drop(toCollector, w)
    /\ UNCHANGED <<cmd, varsA, hostB, heapB, eosSeen, wire>>

\* The loop over the workers of A begins with 1, not with 0.
MainAFewer ==
    /\ hostA = "parse"
    /\ IF images = <<>>
       THEN hostA' = "usage" /\ UNCHANGED <<toBlur, outbox>>
       ELSE /\ hostA' = "running"
            /\ toBlur' = [w \in 1..cmd.nwA - 1 |-> <<>>]
            /\ outbox' = [w \in 1..cmd.nwA - 1 |-> <<>>]
    /\ UNCHANGED <<cmd, i, heapA, callbacks, varsB, wire>>

----------------------------------------------------------------------------
\* Host A.

\* main with tag 0: without images (argc < 6) it prints its usage line.
MainA ==
    /\ hostA = "parse"
    /\ IF images = <<>>
       THEN hostA' = "usage" /\ UNCHANGED <<toBlur, outbox>>
       ELSE /\ hostA' = "running"
            /\ toBlur' = [w \in 1..cmd.nwA |-> <<>>]
            /\ outbox' = [w \in 1..cmd.nwA |-> <<>>]
    /\ UNCHANGED <<cmd, i, heapA, callbacks, varsB, wire>>

\* A turn of the loop of EmitterBlur::svc. Image::read throws, and nobody
\* catches.
Emit ==
    /\ i < Len(images)
    /\ \/ /\ images[i + 1] \in Readable
          /\ \E w \in WorkersA :
                HasRoom(toBlur, w, QueueLen) /\ toBlur' = Put(toBlur, w, i + 1)
          /\ heapA' = heapA \union {i + 1}
          /\ i' = i + 1
          /\ UNCHANGED hostA
       \/ /\ images[i + 1] \notin Readable
          /\ hostA' = "aborted"
          /\ UNCHANGED <<i, heapA, toBlur>>
    /\ UNCHANGED <<cmd, outbox, callbacks, varsB, wire>>

\* EmitterBlur::svc returns EOS, which goes to every worker. One beyond the
\* last image marks that it has.
EmitEos ==
    /\ i = Len(images)
    /\ \A w \in WorkersA : HasRoom(toBlur, w, QueueLen)
    /\ toBlur' = [w \in WorkersA |-> Append(toBlur[w], EOS)]
    /\ i' = i + 1
    /\ UNCHANGED <<cmd, hostA, heapA, outbox, callbacks, varsB, wire>>

\* prepare() pushes the blob and then the name of the task.
Parts(j) == <<ImagePart(j), NamePart(j)>>

\* WorkerBlur: svc, prepare, and the message is in the transport's hands.
Blur(w) ==
    /\ Len(outbox[w]) < 2 * QueueLen
    /\ \E j \in Arrived(toBlur, w) : outbox' = [outbox EXCEPT ![w] = @ \o Parts(j)]
    /\ toBlur' = Drop(toBlur, w)
    /\ UNCHANGED <<cmd, hostA, i, heapA, callbacks, varsB, wire>>

EndBlur(w) ==
    /\ Waiting(toBlur, w) /\ Head(toBlur[w]) = EOS
    /\ toBlur' = Drop(toBlur, w)
    /\ outbox' = [outbox EXCEPT ![w] = Append(@, Mark)]
    /\ UNCHANGED <<cmd, hostA, i, heapA, callbacks, varsB, wire>>

\* setCallbackArg(ptr) for the first part, nullptr for the second.
CallbackArg(part) == IF part.kind = "image" THEN {part.task} ELSE {}

\* What the transport finds where a part points: the name of a task that was
\* deleted may still be there or not.
Content(part) ==
    IF part.kind # "name" THEN {part}
    ELSE {[kind |-> "name", task |-> n] :
             n \in {Name(part.task)} \union (IF part.task \in heapA THEN {} ELSE {Stale})}

\* The transport sends a part to the partner, if there is one.
Transmit(w) ==
    /\ w \in WorkersB
    /\ outbox[w] # <<>> /\ Len(wire[w]) < 2 * QueueLen
    /\ \E sent \in Content(Head(outbox[w])) : wire' = Put(wire, w, sent)
    /\ callbacks' = callbacks \union CallbackArg(Head(outbox[w]))
    /\ outbox' = Drop(outbox, w)
    /\ UNCHANGED <<cmd, hostA, i, heapA, toBlur, varsB>>

\* callback(e, arg) of WorkerBlur, in a thread of the transport: delete task.
Callback(j) ==
    /\ j \in callbacks
    /\ callbacks' = callbacks \ {j}
    /\ heapA' = heapA \ {j}
    /\ UNCHANGED <<cmd, hostA, i, toBlur, outbox, varsB, wire>>

\* The farm has ended and closeTransport() has sent everything.
ExitA ==
    /\ i > Len(images)
    /\ \A w \in WorkersA : toBlur[w] = <<>> /\ outbox[w] = <<>>
    /\ callbacks = {}
    /\ hostA' = "exit"
    /\ UNCHANGED <<cmd, i, heapA, toBlur, outbox, callbacks, varsB, wire>>

----------------------------------------------------------------------------
\* Host B.

MainB ==
    /\ hostB = "parse"
    /\ hostB' = "running"
    /\ toCollector' = [w \in 1..cmd.nwB |-> <<>>]
    /\ UNCHANGED <<cmd, varsA, heapB, eosSeen, out, wire>>

\* WorkerEmboss: unmarshalling of both parts, svc, and on to the collector.
Emboss(w) ==
    /\ Len(wire[w]) >= 2 /\ wire[w][1].kind = "image"
    /\ HasRoom(toCollector, w, QueueLen)
    /\ LET j == wire[w][1].task
       IN /\ heapB' = [t \in DOMAIN heapB \union {j} |->
                          IF t = j THEN wire[w][2].task ELSE heapB[t]]
          /\ toCollector' = Put(toCollector, w, j)
    /\ wire' = Drop(Drop(wire, w), w)
    /\ UNCHANGED <<cmd, varsA, hostB, eosSeen, out>>

EndEmboss(w) ==
    /\ wire[w] # <<>> /\ Head(wire[w]) = Mark
    /\ HasRoom(toCollector, w, QueueLen)
    /\ toCollector' = Put(toCollector, w, EOS)
    /\ wire' = Drop(wire, w)
    /\ UNCHANGED <<cmd, varsA, hostB, heapB, eosSeen, out>>

\* CollectorEmboss::svc. Image::write may throw.
Collect(w) ==
    /\ hostB = "running"
    /\ \E j \in Arrived(toCollector, w) :
          \/ /\ out' = [f \in DOMAIN out \union {heapB[j]} |-> IF f = heapB[j] THEN j ELSE out[f]]
             /\ heapB' = Restrict(heapB, DOMAIN heapB \ {j})
             /\ UNCHANGED hostB
          \/ hostB' = "aborted" /\ UNCHANGED <<out, heapB>>
    /\ toCollector' = Drop(toCollector, w)
    /\ UNCHANGED <<cmd, varsA, eosSeen, wire>>

CollectEos(w) ==
    /\ Waiting(toCollector, w) /\ Head(toCollector[w]) = EOS
    /\ toCollector' = Drop(toCollector, w)
    /\ eosSeen' = eosSeen \union {w}
    /\ UNCHANGED <<cmd, varsA, hostB, heapB, out, wire>>

ExitB ==
    /\ eosSeen = WorkersB
    /\ hostB' = "exit"
    /\ UNCHANGED <<cmd, varsA, heapB, toCollector, eosSeen, out, wire>>

----------------------------------------------------------------------------

EmitterStep == MainA \/ (hostA = "running" /\ (Emit \/ EmitEos \/ ExitA))
BlurStep(w) == hostA = "running" /\ (Blur(w) \/ EndBlur(w))
TransportStep(w) == hostA = "running" /\ hostB = "running" /\ Transmit(w)
CallbackStep == hostA = "running" /\ \E j \in callbacks : Callback(j)
EmbossStep(w) == hostB = "running" /\ (Emboss(w) \/ EndEmboss(w))
CollectorStep ==
    \/ MainB
    \/ hostB = "running" /\ (ExitB \/ \E w \in WorkersB : Collect(w) \/ CollectEos(w))

Next ==
    \/ EmitterStep \/ CallbackStep \/ CollectorStep
    \/ \E w \in WorkersA : BlurStep(w) \/ TransportStep(w)
    \/ \E w \in WorkersB : EmbossStep(w)

\* The threads of both hosts are kept running by their operating systems, and
\* the network delivers what the transport sends.
MaxWorkers == Max({Max({c.nwA, c.nwB}) : c \in CommandLines})
Fairness ==
    /\ WF_vars(EmitterStep) /\ WF_vars(CallbackStep) /\ WF_vars(CollectorStep)
    /\ \A w \in 1..MaxWorkers :
          /\ WF_vars(w \in WorkersA /\ BlurStep(w))
          /\ WF_vars(w \in WorkersA /\ TransportStep(w))
          /\ WF_vars(w \in WorkersB /\ EmbossStep(w))

Spec == Init /\ [][Next]_vars /\ Fairness

----------------------------------------------------------------------------

PartsOf(ch, kind) == {p.task : p \in {q \in UNION {ToSet(ch[w]) : w \in DOMAIN ch} : q.kind = kind}}

\* While both hosts run, an image sent is in one place: on A in a channel or
\* with the transport, whose callback then deletes its task -- and not before
\* the encoded image has left --, on B in a connection, in a channel, or
\* collected; and every task on a heap belongs to one of them.
Ownership ==
    /\ hostA \in {"running", "exit"} =>
          /\ heapA = In(toBlur) \union PartsOf(outbox, "image") \union callbacks
          /\ NoCopies(toBlur)
          /\ In(toBlur) \intersect (PartsOf(outbox, "image") \union callbacks) = {}
          /\ PartsOf(outbox, "image") \intersect callbacks = {}
    /\ DOMAIN heapB = In(toCollector) \/ hostB = "aborted"
    /\ NoCopies(toCollector)
    /\ (In(toBlur) \union PartsOf(outbox, "image"))
          \intersect (PartsOf(wire, "image") \union DOMAIN heapB) = {}
    /\ PartsOf(wire, "image") \intersect DOMAIN heapB = {}

\* When host B has ended, ./out holds what img.cpp leaves there: for each name
\* an image that has it -- but for images whose name was read after their task
\* was deleted, which may be under any name. With fewer workers on B than on A,
\* the images of those without a partner are missing, and B ends all the same.
LikeSequential ==
    /\ \A f \in DOMAIN out : f # Stale => f = Name(out[f])
    /\ hostB = "exit" /\ Stale \notin DOMAIN out /\ cmd.nwA = cmd.nwB =>
          DOMAIN out = {Name(j) : j \in DOMAIN images}

\* Both hosts end, on every schedule of their threads and of the transport, if
\* they have as many workers as each other and neither gives up. Otherwise a
\* worker has no partner and waits for ever.
Termination ==
    <>(\/ hostA = "exit" /\ hostB = "exit"
       \/ {hostA, hostB} \intersect {"usage", "aborted"} # {}
       \/ cmd.nwA # cmd.nwB)
====
