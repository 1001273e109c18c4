---- MODULE ImageFilters_proofs ----
(***************************************************************************)
(* The image programs of ClassWork7 for every command line, every number   *)
(* of workers and images and every length of the channels, on each of the  *)
(* eleven graphs: who owns a task, what is in ./out at any moment and at   *)
(* the end, that no graph deadlocks although its channels are bounded, and *)
(* that every image is settled once, as StreamJob promises.                *)
(*                                                                         *)
(* Ownership, WholeFiles and LikeSequential are not inductive. What a file *)
(* holds depends on what has been done to the task a node writes: Located  *)
(* says, for every place a task can be at, that the layers before it have  *)
(* worked on it and no others, and Staged that this is the same for all    *)
(* programs when it comes to the last layer. That a node ends with nothing *)
(* left for it needs to know where marks are (Drained). That the file of a *)
(* name is the last image's needs the order of all tasks in the network:   *)
(* where no layer has two nodes none overtakes another (InLine), those     *)
(* that have left came before those that have not (GoneFirst), and Files   *)
(* compares a file with all images that were ever opened under its name.   *)
(*                                                                         *)
(* At the end, the same of img_d, the program in two processes: who owns a *)
(* task of either, and that its files are those of a sequential run.       *)
(***************************************************************************)
EXTENDS ImageFilters, Shared_proofs, SequenceTheorems, WellFoundedInduction

----------------------------------------------------------------------------
\* The command line and the sequences of the graphs.

LEMMA MaxOfTwo ==
    ASSUME NEW a \in Nat, NEW b \in Nat
    PROVE  /\ Max({a, b}) = IF a >= b THEN a ELSE b
           /\ Min({a, b}) = IF a <= b THEN a ELSE b
BY DEF Max, Min

\* What getOption and atoi make of an option is a number.
LEMMA NumberType ==
    ASSUME NEW line, NEW option, NEW default \in Int
    PROVE  Number(line, option, default) \in Int
<1> DEFINE words == getOption(line, option)
<1> HIDE DEF words
<1>1. ASSUME words # {} PROVE Atoi(CHOOSE n \in words : TRUE) \in Int
  BY NumeralAssumption DEF Atoi
<1> QED BY <1>1 DEF Number, words

LEMMA CommandLineType ==
    ASSUME cmd \in CommandLines
    PROVE  /\ cmd[1] \in Programs
           /\ Wrks \in Int /\ embossWrk \in Int
           /\ num_images \in Int
<1>1. cmd[1] \in Programs /\ cmd[2] \in Seq(STRING)
  BY ImagesAssumption
<1>2. argc \in Nat
  BY <1>1 DEF argc, argv
<1>3. Wrks \in Int /\ embossWrk \in Int
  BY NumberType DEF Wrks, embossWrk
<1> DEFINE all == {"-r", "-s", "-n", "-m"}
<1>4. IsFiniteSet(all)
  <2>1. IsFiniteSet({"-r"}) 
    BY FS_Singleton
  <2>2. IsFiniteSet({"-r"} \union {"-s"})
    BY <2>1, FS_AddElement
  <2>3. IsFiniteSet(({"-r"} \union {"-s"}) \union {"-n"})
    BY <2>2, FS_AddElement
  <2>4. IsFiniteSet((({"-r"} \union {"-s"}) \union {"-n"}) \union {"-m"})
    BY <2>3, FS_AddElement
  <2>5. all = (({"-r"} \union {"-s"}) \union {"-n"}) \union {"-m"}
    OBVIOUS
  <2> QED BY <2>4, <2>5
<1>5. Options \subseteq all
  BY DEF Options
<1> HIDE DEF all
<1>6. IsFiniteSet({o \in Options : getOption(argv, o) # {}})
  <2>1. {o \in Options : getOption(argv, o) # {}} \subseteq all
    BY <1>5
  <2> QED BY <1>4, <2>1, FS_Subset
<1>7. given \in Nat
  BY <1>6, FS_CardinalityType DEF given
<1> QED BY <1>1, <1>2, <1>3, <1>7 DEF num_images

----------------------------------------------------------------------------
\* The graphs.

Filters == IF cmd[1] \in Magick THEN <<"read", "blur", "emboss">>
           ELSE IF cmd[1] = "sobel" THEN <<"read", "blank">> ELSE <<"read", "sobel">>

\* What has been done to an image when it leaves layer l, for each graph.
Stage ==
    LET R == <<"read">>
        RB == <<"read", "blur">>
    IN CASE cmd[1] \in {"img", "sobel"} -> <<Filters>>
         [] cmd[1] \in {"img_pipe", "img_pipe2"} -> <<R, RB, Filters, Filters>>
         [] cmd[1] = "img_farm" -> <<R, Filters, Filters>>
         [] cmd[1] \in {"img_farm2", "ffsobel"} -> <<R, Filters>>
         [] cmd[1] \in {"img_farm3", "ffsobel2"} -> <<<<>>, Filters>>
         [] cmd[1] = "img_farm+pipe" -> <<R, R, RB, Filters, Filters>>
         [] cmd[1] = "img_pipe+farm" -> <<R, R, RB, RB, Filters, Filters>>

\* Of two neighbouring layers one has a single node, or both have the same
\* number; the first has one.
WellFormed(L) ==
    /\ Len(L) \in Nat \ {0} /\ DOMAIN L = 1..Len(L)
    /\ L[1].nodes = 1
    /\ \A l \in 1..Len(L) : L[l].nodes \in Nat \ {0}
    /\ \A l \in 1..Len(L) - 1 :
          L[l].nodes = 1 \/ L[l + 1].nodes = 1 \/ L[l].nodes = L[l + 1].nodes

\* Stage says what the layers do; only the last one writes, and an image is
\* read once.
Staged(L) ==
    /\ Stage[1] = L[1].ops /\ <<>> \o Stage[1] = Stage[1] /\ Stage[Len(L)] = Filters
    /\ \A l \in 1..Len(L) - 1 : Stage[l + 1] = Stage[l] \o L[l + 1].ops /\ Stage[l + 1] # <<>>
    /\ \A l \in 1..Len(L) : L[l].writes <=> l = Len(L)
    /\ "read" \in ToSet(L[1].ops) <=> Stage[1] # <<>>
    /\ \A l \in 1..Len(L) - 1 :
          /\ "read" \in ToSet(L[l + 1].ops) <=> Stage[l] = <<>>
          /\ "read" \in ToSet(L[l + 1].ops) => cmd[1] \in {"img_farm3", "ffsobel2"}

\* Concatenation, element by element.
LEMMA Concatenation ==
    ASSUME NEW S, NEW s \in Seq(S), NEW t \in Seq(S), NEW u \in Seq(S),
           Len(u) = Len(s) + Len(t),
           \A k \in 1..Len(u) : u[k] = IF k <= Len(s) THEN s[k] ELSE t[k - Len(s)]
    PROVE  s \o t = u
<1>1. /\ s \o t \in Seq(S) /\ Len(s \o t) = Len(u)
      /\ \A k \in 1..Len(u) : (s \o t)[k] = u[k]
  BY ConcatProperties
<1> QED BY <1>1, SeqEqual

LEMMA Words ==
    ASSUME NEW S, NEW a \in S, NEW b \in S, NEW c \in S
    PROVE  /\ <<a>> # <<>> /\ <<a, b>> # <<>> /\ <<a, b, c>> # <<>>
           /\ <<a>> \o <<b>> = <<a, b>>
           /\ <<a>> \o <<b, c>> = <<a, b, c>>
           /\ <<a, b>> \o <<c>> = <<a, b, c>>
           /\ \A s \in {<<>>, <<a>>, <<a, b>>, <<a, b, c>>} : s \o <<>> = s /\ <<>> \o s = s
           /\ ToSet(<<a>>) = {a} /\ ToSet(<<a, b>>) = {a, b} /\ ToSet(<<a, b, c>>) = {a, b, c}
<1>1. <<a>> \in Seq(S) /\ Len(<<a>>) = 1 /\ <<a>>[1] = a
  OBVIOUS
<1>2. <<b>> \in Seq(S) /\ Len(<<b>>) = 1 /\ <<b>>[1] = b
  OBVIOUS
<1>3. <<c>> \in Seq(S) /\ Len(<<c>>) = 1 /\ <<c>>[1] = c
  OBVIOUS
<1>4. <<a, b>> \in Seq(S) /\ Len(<<a, b>>) = 2 /\ <<a, b>>[1] = a /\ <<a, b>>[2] = b
  OBVIOUS
<1>5. <<b, c>> \in Seq(S) /\ Len(<<b, c>>) = 2 /\ <<b, c>>[1] = b /\ <<b, c>>[2] = c
  OBVIOUS
<1>6. /\ <<a, b, c>> \in Seq(S) /\ Len(<<a, b, c>>) = 3
      /\ <<a, b, c>>[1] = a /\ <<a, b, c>>[2] = b /\ <<a, b, c>>[3] = c
  OBVIOUS
<1> DEFINE A == <<a>>
           B == <<b>>
           C == <<c>>
           AB == <<a, b>>
           BC == <<b, c>>
           ABC == <<a, b, c>>
<1>7. /\ A \in Seq(S) /\ B \in Seq(S) /\ C \in Seq(S)
      /\ AB \in Seq(S) /\ BC \in Seq(S) /\ ABC \in Seq(S)
  BY <1>1, <1>2, <1>3, <1>4, <1>5, <1>6
<1>8. /\ Len(A) = 1 /\ Len(B) = 1 /\ Len(C) = 1 /\ Len(AB) = 2 /\ Len(BC) = 2 /\ Len(ABC) = 3
      /\ A[1] = a /\ B[1] = b /\ C[1] = c /\ AB[1] = a /\ AB[2] = b
      /\ BC[1] = b /\ BC[2] = c /\ ABC[1] = a /\ ABC[2] = b /\ ABC[3] = c
  BY <1>1, <1>2, <1>3, <1>4, <1>5, <1>6
<1> HIDE DEF A, B, C, AB, BC, ABC
<1>9. A \o B = AB
  <2>1. \A k \in 1..Len(AB) : AB[k] = IF k <= Len(A) THEN A[k] ELSE B[k - Len(A)]
    <3> SUFFICES ASSUME NEW k \in 1..2
                 PROVE  AB[k] = IF k <= 1 THEN A[k] ELSE B[k - 1]
      BY <1>8
    <3> QED BY <1>8, k = 1 \/ k = 2
  <2>2. Len(AB) = Len(A) + Len(B)
    BY <1>8
  <2> QED BY <1>7, <2>1, <2>2, Concatenation, Zenon
<1>10. A \o BC = ABC
  <2>1. \A k \in 1..Len(ABC) : ABC[k] = IF k <= Len(A) THEN A[k] ELSE BC[k - Len(A)]
    <3> SUFFICES ASSUME NEW k \in 1..3
                 PROVE  ABC[k] = IF k <= 1 THEN A[k] ELSE BC[k - 1]
      BY <1>8
    <3> QED BY <1>8, k = 1 \/ k = 2 \/ k = 3
  <2>2. Len(ABC) = Len(A) + Len(BC)
    BY <1>8
  <2> QED BY <1>7, <2>1, <2>2, Concatenation, Zenon
<1>11. AB \o C = ABC
  <2>1. \A k \in 1..Len(ABC) : ABC[k] = IF k <= Len(AB) THEN AB[k] ELSE C[k - Len(AB)]
    <3> SUFFICES ASSUME NEW k \in 1..3
                 PROVE  ABC[k] = IF k <= 2 THEN AB[k] ELSE C[k - 2]
      BY <1>8
    <3> QED BY <1>8, k = 1 \/ k = 2 \/ k = 3
  <2>2. Len(ABC) = Len(AB) + Len(C)
    BY <1>8
  <2> QED BY <1>7, <2>1, <2>2, Concatenation, Zenon
<1>12. A # <<>> /\ AB # <<>> /\ ABC # <<>>
  <2>1. Len(<<>>) = 0
    OBVIOUS
  <2> QED BY <1>8, <2>1
<1>13. \A s \in {<<>>, A, AB, ABC} : s \o <<>> = s /\ <<>> \o s = s
  BY <1>7, ConcatEmptySeq
<1>14. ToSet(A) = {a} /\ ToSet(AB) = {a, b} /\ ToSet(ABC) = {a, b, c}
  BY <1>7, <1>8 DEF ToSet
<1> QED BY <1>9, <1>10, <1>11, <1>12, <1>13, <1>14 DEF A, B, C, AB, BC, ABC

\* What the filters of a graph add up to.
LEMMA Operations ==
    LET R == <<"read">>
        RB == <<"read", "blur">>
        RBE == <<"read", "blur", "emboss">>
        RS == <<"read", "sobel">>
    IN /\ R # <<>> /\ RB # <<>> /\ RBE # <<>> /\ RS # <<>> /\ <<"read", "blank">> # <<>>
       /\ R \o <<"blur">> = RB /\ R \o <<"blur", "emboss">> = RBE /\ RB \o <<"emboss">> = RBE
       /\ R \o <<"sobel">> = RS
       /\ \A s \in {R, RB, RBE, RS} : s \o <<>> = s /\ <<>> \o s = s
       /\ \A s \in {<<>>, <<"read", "blank">>} : <<>> \o s = s
       /\ \A s \in {R, RBE, RS, <<"read", "blank">>} : "read" \in ToSet(s)
       /\ \A s \in {<<>>, <<"blur">>, <<"emboss">>, <<"blur", "emboss">>, <<"sobel">>} :
             "read" \notin ToSet(s)
<1> DEFINE Ops == {"read", "blur", "emboss", "sobel", "blank"}
           O(op) == op \in Ops
<1>1. O("read") /\ O("blur") /\ O("emboss") /\ O("sobel") /\ O("blank")
  OBVIOUS
<1> HIDE DEF Ops
<1>2. /\ "read" # "blur" /\ "read" # "emboss" /\ "read" # "sobel"
  OBVIOUS
<1>3. ToSet(<<>>) = {}
  BY ToSetOfEmpty
<1>4. /\ <<"read">> # <<>> /\ <<"read", "blur">> # <<>> /\ <<"read", "blur", "emboss">> # <<>>
      /\ <<"read">> \o <<"blur">> = <<"read", "blur">>
      /\ <<"read">> \o <<"blur", "emboss">> = <<"read", "blur", "emboss">>
      /\ <<"read", "blur">> \o <<"emboss">> = <<"read", "blur", "emboss">>
      /\ \A s \in {<<>>, <<"read">>, <<"read", "blur">>, <<"read", "blur", "emboss">>} :
            s \o <<>> = s /\ <<>> \o s = s
      /\ ToSet(<<"read">>) = {"read"}
      /\ ToSet(<<"read", "blur", "emboss">>) = {"read", "blur", "emboss"}
  BY <1>1, Words
<1>5. /\ <<"read">> # <<>> /\ <<"read", "sobel">> # <<>> /\ <<"read", "sobel", "blank">> # <<>>
      /\ <<"read">> \o <<"sobel">> = <<"read", "sobel">>
      /\ <<"read">> \o <<"sobel", "blank">> = <<"read", "sobel", "blank">>
      /\ <<"read", "sobel">> \o <<"blank">> = <<"read", "sobel", "blank">>
      /\ \A s \in {<<>>, <<"read">>, <<"read", "sobel">>, <<"read", "sobel", "blank">>} :
            s \o <<>> = s /\ <<>> \o s = s
      /\ /\ ToSet(<<"read">>) = {"read"} /\ ToSet(<<"read", "sobel">>) = {"read", "sobel"}
         /\ ToSet(<<"read", "sobel", "blank">>) = {"read", "sobel", "blank"}
  BY <1>1, Words
<1>6. <<"read", "blank">> # <<>> /\ ToSet(<<"read", "blank">>) = {"read", "blank"}
  BY <1>1, Words
<1>7. ToSet(<<"blur">>) = {"blur"} /\ ToSet(<<"blur", "emboss">>) = {"blur", "emboss"}
  BY DEF ToSet
<1>8. ToSet(<<"emboss">>) = {"emboss"} /\ ToSet(<<"sobel">>) = {"sobel"}
  BY <1>1, Words
<1>9. \A s \in {<<"read">>, <<"read", "blur">>, <<"read", "blur", "emboss">>, <<"read", "sobel">>} :
          s \o <<>> = s /\ <<>> \o s = s
  BY <1>4, <1>5, Zenon
<1>10. \A s \in {<<"read">>, <<"read", "blur", "emboss">>, <<"read", "sobel">>, <<"read", "blank">>} :
          "read" \in ToSet(s)
  BY <1>4, <1>5, <1>6, Zenon
<1>11. \A s \in {<<>>, <<"blur">>, <<"emboss">>, <<"blur", "emboss">>, <<"sobel">>} :
          "read" \notin ToSet(s)
  BY <1>2, <1>3, <1>7, <1>8, Zenon
<1>12. \A s \in {<<>>, <<"read", "blank">>} : <<>> \o s = s
  <2>1. \A s \in {<<>>, <<"read">>, <<"read", "blank">>, <<"read", "blank", "blur">>} :
            s \o <<>> = s /\ <<>> \o s = s
    BY <1>1, Words
  <2> QED BY <2>1, Zenon
<1> QED BY <1>4, <1>5, <1>6, <1>9, <1>10, <1>11, <1>12, Zenon

\* The step from layer l to layer m.
Leads(l, m) ==
    /\ Stage[m] = Stage[l] \o graph[m].ops /\ Stage[m] # <<>>
    /\ "read" \in ToSet(graph[m].ops) <=> Stage[l] = <<>>

\* A graph is staged when each of its steps is.
LEMMA StagedGraph ==
    ASSUME NEW n, Len(graph) = n,
           /\ Stage[1] = graph[1].ops /\ <<>> \o Stage[1] = Stage[1] /\ Stage[n] = Filters
           /\ "read" \in ToSet(graph[1].ops) <=> Stage[1] # <<>>
           /\ \A l \in 1..n : graph[l].writes <=> l = n,
           \A l \in 1..n - 1 : Leads(l, l + 1),
           (\A l \in 1..n - 1 : Stage[l] # <<>>) \/ cmd[1] \in {"img_farm3", "ffsobel2"}
    PROVE  Staged(graph)
<1>1. \A l \in 1..n - 1 : "read" \in ToSet(graph[l + 1].ops) => cmd[1] \in {"img_farm3", "ffsobel2"}
  BY Zenon DEF Leads
<1>2. Stage[Len(graph)] = Filters /\ \A l \in 1..Len(graph) : graph[l].writes <=> l = Len(graph)
  OBVIOUS
<1>3. \A l \in 1..Len(graph) - 1 : Leads(l, l + 1)
  OBVIOUS
<1> QED BY <1>1, <1>2, <1>3, Zenon DEF Staged, Leads

\* Every graph that can run is well formed and does the same to an image.
LEMMA GraphProperties ==
    ASSUME cmd \in CommandLines, \A l \in DOMAIN graph : graph[l].nodes >= 1
    PROVE  WellFormed(graph) /\ Staged(graph)
<1>1. cmd[1] \in Programs /\ Wrks \in Int /\ embossWrk \in Int
  BY CommandLineType
<1>2. CASE cmd[1] = "img"
  <2>1. graph = img
    BY <1>2 DEF graph
  <2>2. /\ Len(img) = 1 /\ DOMAIN img = 1..1
        /\ img[1] = [nodes |-> 1, ops |-> <<"read", "blur", "emboss">>, writes |-> TRUE]
    BY DEF img, Layer, Writers
  <2>3. Filters = <<"read", "blur", "emboss">>
    BY <1>2 DEF Filters, Magick
  <2>4. Stage[1] = Filters
    BY <1>2 DEF Stage
  <2>5. \A l \in 1..1 : img[l].nodes \in Nat \ {0}
    BY <1>1, <2>1, <2>2
  <2>6. WellFormed(graph)
    BY <2>1, <2>2, <2>5 DEF WellFormed
  <2>7. Staged(graph)
    BY <1>2, <2>1, <2>2, <2>3, <2>4, Operations DEF Staged
  <2> QED BY <2>6, <2>7
<1>3. CASE cmd[1] \in {"img_pipe", "img_pipe2"}
  <2>1. graph = img_pipe
    BY <1>3 DEF graph, img_pipe2
  <2>2. /\ Len(img_pipe) = 4 /\ DOMAIN img_pipe = 1..4
        /\ img_pipe[1] = [nodes |-> 1, ops |-> <<"read">>, writes |-> FALSE]
        /\ img_pipe[2] = [nodes |-> 1, ops |-> <<"blur">>, writes |-> FALSE]
        /\ img_pipe[3] = [nodes |-> 1, ops |-> <<"emboss">>, writes |-> FALSE]
        /\ img_pipe[4] = [nodes |-> 1, ops |-> <<>>, writes |-> TRUE]
    BY DEF img_pipe, Layer, Writers
  <2>3. Filters = <<"read", "blur", "emboss">>
    BY <1>3 DEF Filters, Magick
  <2>4. Stage[1] = <<"read">> /\ Stage[2] = <<"read", "blur">> /\ Stage[3] = Filters /\ Stage[4] = Filters
    BY <1>3 DEF Stage
  <2>5. \A l \in 1..4 : img_pipe[l].nodes \in Nat \ {0}
    BY <1>1, <2>1, <2>2
  <2>6. WellFormed(graph)
    BY <2>1, <2>2, <2>5 DEF WellFormed
  <2>7. /\ Stage[1] = graph[1].ops /\ <<>> \o Stage[1] = Stage[1] /\ Stage[4] = Filters
        /\ "read" \in ToSet(graph[1].ops) <=> Stage[1] # <<>>
        /\ \A l \in 1..4 : graph[l].writes <=> l = 4
    BY <2>1, <2>2, <2>3, <2>4, Operations
  <2>8. Leads(1, 2)
    BY <2>1, <2>2, <2>3, <2>4, Operations DEF Leads
  <2>9. Leads(2, 3)
    BY <2>1, <2>2, <2>3, <2>4, Operations DEF Leads
  <2>10. Leads(3, 4)
    BY <2>1, <2>2, <2>3, <2>4, Operations DEF Leads
  <2>11. \A l \in 1..4 - 1 : Leads(l, l + 1)
    BY <2>8, <2>9, <2>10
  <2>12. \A l \in 1..4 - 1 : Stage[l] # <<>>
    BY <1>3, <2>3, <2>4, Operations
  <2>13. Staged(graph)
    BY <2>1, <2>2, <2>7, <2>11, <2>12, StagedGraph
  <2> QED BY <2>6, <2>13
<1>4. CASE cmd[1] = "img_farm"
  <2>1. graph = img_farm
    BY <1>4 DEF graph
  <2>2. /\ Len(img_farm) = 3 /\ DOMAIN img_farm = 1..3
        /\ img_farm[1] = [nodes |-> 1, ops |-> <<"read">>, writes |-> FALSE]
        /\ img_farm[2] = [nodes |-> Wrks, ops |-> <<"blur", "emboss">>, writes |-> FALSE]
        /\ img_farm[3] = [nodes |-> 1, ops |-> <<>>, writes |-> TRUE]
    BY DEF img_farm, Layer, Writers
  <2>3. Filters = <<"read", "blur", "emboss">>
    BY <1>4 DEF Filters, Magick
  <2>4. Stage[1] = <<"read">> /\ Stage[2] = Filters /\ Stage[3] = Filters
    BY <1>4 DEF Stage
  <2>5. \A l \in 1..3 : img_farm[l].nodes \in Nat \ {0}
    BY <1>1, <2>1, <2>2
  <2>6. WellFormed(graph)
    BY <2>1, <2>2, <2>5 DEF WellFormed
  <2>7. /\ Stage[1] = graph[1].ops /\ <<>> \o Stage[1] = Stage[1] /\ Stage[3] = Filters
        /\ "read" \in ToSet(graph[1].ops) <=> Stage[1] # <<>>
        /\ \A l \in 1..3 : graph[l].writes <=> l = 3
    BY <2>1, <2>2, <2>3, <2>4, Operations
  <2>8. Leads(1, 2)
    BY <2>1, <2>2, <2>3, <2>4, Operations DEF Leads
  <2>9. Leads(2, 3)
    BY <2>1, <2>2, <2>3, <2>4, Operations DEF Leads
  <2>10. \A l \in 1..3 - 1 : Leads(l, l + 1)
    BY <2>8, <2>9
  <2>11. \A l \in 1..3 - 1 : Stage[l] # <<>>
    BY <1>4, <2>3, <2>4, Operations
  <2>12. Staged(graph)
    BY <2>1, <2>2, <2>7, <2>10, <2>11, StagedGraph
  <2> QED BY <2>6, <2>12
<1>5. CASE cmd[1] = "img_farm2"
  <2>1. graph = img_farm2
    BY <1>5 DEF graph
  <2>2. /\ Len(img_farm2) = 2 /\ DOMAIN img_farm2 = 1..2
        /\ img_farm2[1] = [nodes |-> 1, ops |-> <<"read">>, writes |-> FALSE]
        /\ img_farm2[2] = [nodes |-> Wrks, ops |-> <<"blur", "emboss">>, writes |-> TRUE]
    BY DEF img_farm2, Layer, Writers
  <2>3. Filters = <<"read", "blur", "emboss">>
    BY <1>5 DEF Filters, Magick
  <2>4. Stage[1] = <<"read">> /\ Stage[2] = Filters
    BY <1>5 DEF Stage
  <2>5. \A l \in 1..2 : img_farm2[l].nodes \in Nat \ {0}
    BY <1>1, <2>1, <2>2
  <2>6. WellFormed(graph)
    BY <2>1, <2>2, <2>5 DEF WellFormed
  <2>7. /\ Stage[1] = graph[1].ops /\ <<>> \o Stage[1] = Stage[1] /\ Stage[2] = Filters
        /\ "read" \in ToSet(graph[1].ops) <=> Stage[1] # <<>>
        /\ \A l \in 1..2 : graph[l].writes <=> l = 2
    BY <2>1, <2>2, <2>3, <2>4, Operations
  <2>8. Leads(1, 2)
    BY <2>1, <2>2, <2>3, <2>4, Operations DEF Leads
  <2>9. \A l \in 1..2 - 1 : Leads(l, l + 1)
    BY <2>8
  <2>10. \A l \in 1..2 - 1 : Stage[l] # <<>>
    BY <1>5, <2>3, <2>4, Operations
  <2>11. Staged(graph)
    BY <2>1, <2>2, <2>7, <2>9, <2>10, StagedGraph
  <2> QED BY <2>6, <2>11
<1>6. CASE cmd[1] = "img_farm3"
  <2>1. graph = img_farm3
    BY <1>6 DEF graph
  <2>2. /\ Len(img_farm3) = 2 /\ DOMAIN img_farm3 = 1..2
        /\ img_farm3[1] = [nodes |-> 1, ops |-> <<>>, writes |-> FALSE]
        /\ img_farm3[2] = [nodes |-> Wrks, ops |-> <<"read", "blur", "emboss">>, writes |-> TRUE]
    BY DEF img_farm3, Layer, Writers
  <2>3. Filters = <<"read", "blur", "emboss">>
    BY <1>6 DEF Filters, Magick
  <2>4. Stage[1] = <<>> /\ Stage[2] = Filters
    BY <1>6 DEF Stage
  <2>5. \A l \in 1..2 : img_farm3[l].nodes \in Nat \ {0}
    BY <1>1, <2>1, <2>2
  <2>6. WellFormed(graph)
    BY <2>1, <2>2, <2>5 DEF WellFormed
  <2>7. /\ Stage[1] = graph[1].ops /\ <<>> \o Stage[1] = Stage[1] /\ Stage[2] = Filters
        /\ "read" \in ToSet(graph[1].ops) <=> Stage[1] # <<>>
        /\ \A l \in 1..2 : graph[l].writes <=> l = 2
    BY <2>1, <2>2, <2>3, <2>4, Operations
  <2>8. Leads(1, 2)
    BY <2>1, <2>2, <2>3, <2>4, Operations DEF Leads
  <2>9. \A l \in 1..2 - 1 : Leads(l, l + 1)
    BY <2>8
  <2>10. cmd[1] \in {"img_farm3", "ffsobel2"}
    BY <1>6, <2>3, <2>4, Operations
  <2>11. Staged(graph)
    BY <2>1, <2>2, <2>7, <2>9, <2>10, StagedGraph
  <2> QED BY <2>6, <2>11
<1>7. CASE cmd[1] = "img_farm+pipe"
  <2>1. graph = img_farm_pipe
    BY <1>7 DEF graph
  <2>2. /\ Len(img_farm_pipe) = 5 /\ DOMAIN img_farm_pipe = 1..5
        /\ img_farm_pipe[1] = [nodes |-> 1, ops |-> <<"read">>, writes |-> FALSE]
        /\ img_farm_pipe[2] = [nodes |-> 1, ops |-> <<>>, writes |-> FALSE]
        /\ img_farm_pipe[3] = [nodes |-> Wrks, ops |-> <<"blur">>, writes |-> FALSE]
        /\ img_farm_pipe[4] = [nodes |-> Wrks, ops |-> <<"emboss">>, writes |-> FALSE]
        /\ img_farm_pipe[5] = [nodes |-> 1, ops |-> <<>>, writes |-> TRUE]
    BY DEF img_farm_pipe, Layer, Writers
  <2>3. Filters = <<"read", "blur", "emboss">>
    BY <1>7 DEF Filters, Magick
  <2>4. Stage[1] = <<"read">> /\ Stage[2] = <<"read">> /\ Stage[3] = <<"read", "blur">> /\ Stage[4] = Filters /\ Stage[5] = Filters
    BY <1>7 DEF Stage
  <2>5. \A l \in 1..5 : img_farm_pipe[l].nodes \in Nat \ {0}
    BY <1>1, <2>1, <2>2
  <2>6. WellFormed(graph)
    BY <2>1, <2>2, <2>5 DEF WellFormed
  <2>7. /\ Stage[1] = graph[1].ops /\ <<>> \o Stage[1] = Stage[1] /\ Stage[5] = Filters
        /\ "read" \in ToSet(graph[1].ops) <=> Stage[1] # <<>>
        /\ \A l \in 1..5 : graph[l].writes <=> l = 5
    BY <2>1, <2>2, <2>3, <2>4, Operations
  <2>8. Leads(1, 2)
    BY <2>1, <2>2, <2>3, <2>4, Operations DEF Leads
  <2>9. Leads(2, 3)
    BY <2>1, <2>2, <2>3, <2>4, Operations DEF Leads
  <2>10. Leads(3, 4)
    BY <2>1, <2>2, <2>3, <2>4, Operations DEF Leads
  <2>11. Leads(4, 5)
    BY <2>1, <2>2, <2>3, <2>4, Operations DEF Leads
  <2>12. \A l \in 1..5 - 1 : Leads(l, l + 1)
    BY <2>8, <2>9, <2>10, <2>11
  <2>13. \A l \in 1..5 - 1 : Stage[l] # <<>>
    BY <1>7, <2>3, <2>4, Operations
  <2>14. Staged(graph)
    BY <2>1, <2>2, <2>7, <2>12, <2>13, StagedGraph
  <2> QED BY <2>6, <2>14
<1>8. CASE cmd[1] = "img_pipe+farm"
  <2>1. graph = img_pipe_farm
    BY <1>8 DEF graph
  <2>2. /\ Len(img_pipe_farm) = 6 /\ DOMAIN img_pipe_farm = 1..6
        /\ img_pipe_farm[1] = [nodes |-> 1, ops |-> <<"read">>, writes |-> FALSE]
        /\ img_pipe_farm[2] = [nodes |-> 1, ops |-> <<>>, writes |-> FALSE]
        /\ img_pipe_farm[3] = [nodes |-> Wrks, ops |-> <<"blur">>, writes |-> FALSE]
        /\ img_pipe_farm[4] = [nodes |-> 1, ops |-> <<>>, writes |-> FALSE]
        /\ img_pipe_farm[5] = [nodes |-> embossWrk, ops |-> <<"emboss">>, writes |-> FALSE]
        /\ img_pipe_farm[6] = [nodes |-> 1, ops |-> <<>>, writes |-> TRUE]
    BY DEF img_pipe_farm, Layer, Writers
  <2>3. Filters = <<"read", "blur", "emboss">>
    BY <1>8 DEF Filters, Magick
  <2>4. Stage[1] = <<"read">> /\ Stage[2] = <<"read">> /\ Stage[3] = <<"read", "blur">> /\ Stage[4] = <<"read", "blur">> /\ Stage[5] = Filters /\ Stage[6] = Filters
    BY <1>8 DEF Stage
  <2>5. \A l \in 1..6 : img_pipe_farm[l].nodes \in Nat \ {0}
    BY <1>1, <2>1, <2>2
  <2>6. WellFormed(graph)
    BY <2>1, <2>2, <2>5 DEF WellFormed
  <2>7. /\ Stage[1] = graph[1].ops /\ <<>> \o Stage[1] = Stage[1] /\ Stage[6] = Filters
        /\ "read" \in ToSet(graph[1].ops) <=> Stage[1] # <<>>
        /\ \A l \in 1..6 : graph[l].writes <=> l = 6
    BY <2>1, <2>2, <2>3, <2>4, Operations
  <2>8. Leads(1, 2)
    BY <2>1, <2>2, <2>3, <2>4, Operations DEF Leads
  <2>9. Leads(2, 3)
    BY <2>1, <2>2, <2>3, <2>4, Operations DEF Leads
  <2>10. Leads(3, 4)
    BY <2>1, <2>2, <2>3, <2>4, Operations DEF Leads
  <2>11. Leads(4, 5)
    BY <2>1, <2>2, <2>3, <2>4, Operations DEF Leads
  <2>12. Leads(5, 6)
    BY <2>1, <2>2, <2>3, <2>4, Operations DEF Leads
  <2>13. \A l \in 1..6 - 1 : Leads(l, l + 1)
    BY <2>8, <2>9, <2>10, <2>11, <2>12
  <2>14. \A l \in 1..6 - 1 : Stage[l] # <<>>
    BY <1>8, <2>3, <2>4, Operations
  <2>15. Staged(graph)
    BY <2>1, <2>2, <2>7, <2>13, <2>14, StagedGraph
  <2> QED BY <2>6, <2>15
<1>9. CASE cmd[1] = "sobel"
  <2>1. graph = sobel
    BY <1>9 DEF graph
  <2>2. /\ Len(sobel) = 1 /\ DOMAIN sobel = 1..1
        /\ sobel[1] = [nodes |-> 1, ops |-> <<"read", "blank">>, writes |-> TRUE]
    BY DEF sobel, Layer, Writers
  <2>3. Filters = <<"read", "blank">>
    BY <1>9 DEF Filters, Magick
  <2>4. Stage[1] = Filters
    BY <1>9 DEF Stage
  <2>5. \A l \in 1..1 : sobel[l].nodes \in Nat \ {0}
    BY <1>1, <2>1, <2>2
  <2>6. WellFormed(graph)
    BY <2>1, <2>2, <2>5 DEF WellFormed
  <2>7. Staged(graph)
    BY <1>9, <2>1, <2>2, <2>3, <2>4, Operations DEF Staged
  <2> QED BY <2>6, <2>7
<1>10. CASE cmd[1] = "ffsobel"
  <2>1. graph = ffsobel
    BY <1>10 DEF graph
  <2>2. /\ Len(ffsobel) = 2 /\ DOMAIN ffsobel = 1..2
        /\ ffsobel[1] = [nodes |-> 1, ops |-> <<"read">>, writes |-> FALSE]
        /\ ffsobel[2] = [nodes |-> 1, ops |-> <<"sobel">>, writes |-> TRUE]
    BY DEF ffsobel, Layer, Writers
  <2>3. Filters = <<"read", "sobel">>
    BY <1>10 DEF Filters, Magick
  <2>4. Stage[1] = <<"read">> /\ Stage[2] = Filters
    BY <1>10 DEF Stage
  <2>5. \A l \in 1..2 : ffsobel[l].nodes \in Nat \ {0}
    BY <1>1, <2>1, <2>2
  <2>6. WellFormed(graph)
    BY <2>1, <2>2, <2>5 DEF WellFormed
  <2>7. /\ Stage[1] = graph[1].ops /\ <<>> \o Stage[1] = Stage[1] /\ Stage[2] = Filters
        /\ "read" \in ToSet(graph[1].ops) <=> Stage[1] # <<>>
        /\ \A l \in 1..2 : graph[l].writes <=> l = 2
    BY <2>1, <2>2, <2>3, <2>4, Operations
  <2>8. Leads(1, 2)
    BY <2>1, <2>2, <2>3, <2>4, Operations DEF Leads
  <2>9. \A l \in 1..2 - 1 : Leads(l, l + 1)
    BY <2>8
  <2>10. \A l \in 1..2 - 1 : Stage[l] # <<>>
    BY <1>10, <2>3, <2>4, Operations
  <2>11. Staged(graph)
    BY <2>1, <2>2, <2>7, <2>9, <2>10, StagedGraph
  <2> QED BY <2>6, <2>11
<1>11. CASE cmd[1] = "ffsobel2"
  <2>1. graph = ffsobel2
    BY <1>11 DEF graph
  <2>2. /\ Len(ffsobel2) = 2 /\ DOMAIN ffsobel2 = 1..2
        /\ ffsobel2[1] = [nodes |-> 1, ops |-> <<>>, writes |-> FALSE]
        /\ ffsobel2[2] = [nodes |-> Wrks, ops |-> <<"read", "sobel">>, writes |-> TRUE]
    BY DEF ffsobel2, Layer, Writers
  <2>3. Filters = <<"read", "sobel">>
    BY <1>11 DEF Filters, Magick
  <2>4. Stage[1] = <<>> /\ Stage[2] = Filters
    BY <1>11 DEF Stage
  <2>5. \A l \in 1..2 : ffsobel2[l].nodes \in Nat \ {0}
    BY <1>1, <2>1, <2>2
  <2>6. WellFormed(graph)
    BY <2>1, <2>2, <2>5 DEF WellFormed
  <2>7. /\ Stage[1] = graph[1].ops /\ <<>> \o Stage[1] = Stage[1] /\ Stage[2] = Filters
        /\ "read" \in ToSet(graph[1].ops) <=> Stage[1] # <<>>
        /\ \A l \in 1..2 : graph[l].writes <=> l = 2
    BY <2>1, <2>2, <2>3, <2>4, Operations
  <2>8. Leads(1, 2)
    BY <2>1, <2>2, <2>3, <2>4, Operations DEF Leads
  <2>9. \A l \in 1..2 - 1 : Leads(l, l + 1)
    BY <2>8
  <2>10. cmd[1] \in {"img_farm3", "ffsobel2"}
    BY <1>11, <2>3, <2>4, Operations
  <2>11. Staged(graph)
    BY <2>1, <2>2, <2>7, <2>9, <2>10, StagedGraph
  <2> QED BY <2>6, <2>11
<1> QED BY <1>1, <1>2, <1>3, <1>4, <1>5, <1>6, <1>7, <1>8, <1>9, <1>10, <1>11 DEF Programs, Magick

----------------------------------------------------------------------------
\* The network, on any graph: what a step of a node does to the channels and
\* to what the nodes have in hand.

Messages == Nat \union {EOS}

Single == \A l \in 1..Len(layers) : layers[l].nodes = 1

Carried(e) == ToSet(chan[e]) \ {EOS}

\* Where task j is: with a node of layer l, at place 2 * l, or in a channel
\* from there, at place 2 * l + 1.
Place(j, p) ==
    \/ \E n \in Nodes : j \in hand[n] /\ p = 2 * n[1]
    \/ \E e \in Edges : j \in Carried(e) /\ p = 2 * e[1] + 1

NetType ==
    /\ WellFormed(layers)
    /\ chan \in ChannelsOf(EdgesOf(layers), Messages)
    /\ hand \in [Nodes -> SUBSET Nat]
    /\ ended \in SUBSET Nodes

\* A task is in one channel, once, or in one hand.
OneOwner ==
    /\ NoCopies(chan)
    /\ In(chan) \intersect InHands = {}
    /\ \A m, n \in Nodes : \A j \in hand[m] : j \in hand[n] => m = n
    /\ \A n \in Nodes : \A j, k \in hand[n] : j = k

\* Marks are last, a node has none in its outputs until it ends, and ends with
\* nothing left in its inputs and in hand.
Drained ==
    /\ \A e \in Edges :
          /\ EosAtEnd(chan[e])
          /\ EOS \in ToSet(chan[e]) => From(e) \in ended
          /\ To(e) \in ended => From(e) \in ended /\ chan[e] = <<>>
          /\ From(e) \in ended /\ To(e) \notin ended => EOS \in ToSet(chan[e])
    /\ \A n \in ended : hand[n] = {}

Sorted(s) == \A a, b \in DOMAIN s : a < b /\ s[b] # EOS => s[a] < s[b]

InOrderOfPlaces == \A j, k, p, q \in Nat : Place(j, p) /\ Place(k, q) /\ p < q => k < j

\* Where no layer has two nodes, no task overtakes another.
InLine ==
    Single =>
        /\ InOrderOfPlaces
        /\ \A e \in Edges : Sorted(chan[e])

NetInv == NetType /\ OneOwner /\ Drained /\ InLine

LEMMA NodeProperties ==
    ASSUME WellFormed(layers)
    PROVE  /\ \A n \in Nodes : /\ n = <<n[1], n[2]>> /\ n[1] \in 1..Len(layers)
                               /\ n[2] \in 1..layers[n[1]].nodes
           /\ \A l \in 1..Len(layers) : \A k \in 1..layers[l].nodes : <<l, k>> \in Nodes
           /\ <<1, 1>> \in Nodes
           /\ \A n \in Nodes : IsSource(n) => n = <<1, 1>>
           /\ Single => \A n \in Nodes : n = <<n[1], 1>>
<1>1. DOMAIN layers = 1..Len(layers) /\ Len(layers) \in Nat \ {0} /\ layers[1].nodes = 1
  BY DEF WellFormed
<1>2. ASSUME NEW n \in Nodes
      PROVE  n = <<n[1], n[2]>> /\ n[1] \in 1..Len(layers) /\ n[2] \in 1..layers[n[1]].nodes
  <2>1. PICK l \in DOMAIN layers : n \in {l} \X (1..layers[l].nodes)
    BY DEF Nodes
  <2> QED BY <1>1, <2>1
<1>3. \A l \in 1..Len(layers) : \A k \in 1..layers[l].nodes : <<l, k>> \in Nodes
  BY <1>1 DEF Nodes
<1>4. <<1, 1>> \in Nodes
  BY <1>1, <1>3
<1>5. \A n \in Nodes : IsSource(n) => n = <<1, 1>>
  BY <1>1, <1>2 DEF IsSource
<1>6. Single => \A n \in Nodes : n = <<n[1], 1>>
  BY <1>1, <1>2 DEF Single
<1> QED BY <1>2, <1>3, <1>4, <1>5, <1>6

LEMMA EdgeProperties ==
    ASSUME WellFormed(layers), NEW e \in EdgesOf(layers)
    PROVE  /\ e[1] \in 1..Len(layers) - 1
           /\ From(e) \in Nodes /\ From(e)[1] = e[1]
           /\ To(e) \in Nodes /\ To(e)[1] = e[1] + 1
           /\ From(e) # To(e)
           /\ Single => e = <<e[1], 1>>
<1>1. PICK l \in 1..Len(layers) - 1 : e \in {l} \X (1..Max({layers[l].nodes, layers[l + 1].nodes}))
  BY DEF EdgesOf
<1>2. e[1] = l /\ e[2] \in 1..Max({layers[l].nodes, layers[l + 1].nodes}) /\ e = <<l, e[2]>>
  BY <1>1
<1>3. /\ l \in 1..Len(layers) /\ l + 1 \in 1..Len(layers)
      /\ layers[l].nodes \in Nat \ {0} /\ layers[l + 1].nodes \in Nat \ {0}
  BY DEF WellFormed
<1> DEFINE a == layers[l].nodes
           b == layers[l + 1].nodes
           k == e[2]
<1>4. /\ a \in Nat \ {0} /\ b \in Nat \ {0} /\ k \in 1..Max({a, b})
  BY <1>2, <1>3
<1>5. From(e) = <<l, Min({k, a})>> /\ To(e) = <<l + 1, Min({k, b})>>
  BY <1>2 DEF From, To
<1> HIDE DEF a, b, k
<1>6. k \in Nat \ {0} /\ Min({k, a}) \in 1..a /\ Min({k, b}) \in 1..b /\ (a = 1 /\ b = 1 => k = 1)
  <2>1. Max({a, b}) = IF a >= b THEN a ELSE b
    BY <1>4, MaxOfTwo
  <2>2. k \in Nat \ {0} /\ (a = 1 /\ b = 1 => k = 1)
    BY <1>4, <2>1
  <2>3. Min({k, a}) = IF k <= a THEN k ELSE a
    BY <1>4, <2>2, MaxOfTwo
  <2>4. Min({k, b}) = IF k <= b THEN k ELSE b
    BY <1>4, <2>2, MaxOfTwo
  <2> QED BY <1>4, <2>2, <2>3, <2>4
<1>7. From(e) \in Nodes /\ To(e) \in Nodes
  BY <1>3, <1>5, <1>6, NodeProperties DEF a, b
<1>8. From(e)[1] = l /\ To(e)[1] = l + 1
  BY <1>5
<1>9. Single => e = <<e[1], 1>>
  BY <1>2, <1>3, <1>6 DEF Single, a, b, k
<1> QED BY <1>2, <1>3, <1>7, <1>8, <1>9

LEMMA SortedTail ==
    ASSUME NEW s \in Seq(Messages), s # <<>>, Sorted(s)
    PROVE  /\ Sorted(Tail(s))
           /\ \A k \in ToSet(s) \ {EOS} : k # Head(s) => Head(s) < k
<1>1. /\ Len(s) \in Nat /\ Len(s) >= 1 /\ Head(s) = s[1] /\ DOMAIN s = 1..Len(s)
      /\ DOMAIN Tail(s) = 1..(Len(s) - 1)
      /\ \A k \in 1..(Len(s) - 1) : Tail(s)[k] = s[k + 1]
  OBVIOUS
<1>2. Sorted(Tail(s))
  <2> SUFFICES ASSUME NEW a \in 1..(Len(s) - 1), NEW b \in 1..(Len(s) - 1),
                      a < b, Tail(s)[b] # EOS
               PROVE  Tail(s)[a] < Tail(s)[b]
    BY <1>1 DEF Sorted
  <2>1. a + 1 \in DOMAIN s /\ b + 1 \in DOMAIN s /\ a + 1 < b + 1
    BY <1>1
  <2>2. Tail(s)[a] = s[a + 1] /\ Tail(s)[b] = s[b + 1]
    BY <1>1
  <2> QED BY <2>1, <2>2 DEF Sorted
<1>3. ASSUME NEW k \in ToSet(s) \ {EOS}, k # Head(s)
      PROVE  Head(s) < k
  <2>1. PICK b \in DOMAIN s : s[b] = k
    BY DEF ToSet
  <2>2. 1 \in DOMAIN s /\ 1 < b
    BY <1>1, <1>3, <2>1
  <2> QED BY <1>1, <1>3, <2>1, <2>2 DEF Sorted
<1> QED BY <1>2, <1>3

LEMMA SortedAppend ==
    ASSUME NEW s \in Seq(Messages), NEW m \in Messages, Sorted(s),
           m # EOS => \A k \in ToSet(s) : k < m
    PROVE  Sorted(Append(s, m))
<1>1. /\ Len(s) \in Nat /\ DOMAIN s = 1..Len(s) /\ DOMAIN Append(s, m) = 1..(Len(s) + 1)
      /\ \A k \in 1..Len(s) : Append(s, m)[k] = s[k]
      /\ Append(s, m)[Len(s) + 1] = m
  OBVIOUS
<1> SUFFICES ASSUME NEW a \in 1..(Len(s) + 1), NEW b \in 1..(Len(s) + 1),
                    a < b, Append(s, m)[b] # EOS
             PROVE  Append(s, m)[a] < Append(s, m)[b]
  BY <1>1 DEF Sorted
<1>2. a \in 1..Len(s) /\ Append(s, m)[a] = s[a] /\ s[a] \in ToSet(s)
  BY <1>1 DEF ToSet
<1>3. CASE b \in 1..Len(s)
  BY <1>1, <1>2, <1>3 DEF Sorted
<1>4. CASE b = Len(s) + 1
  BY <1>1, <1>2, <1>4
<1> QED BY <1>3, <1>4

\* What a step leaves alone when the graph stays what it is.
LEMMA Frame ==
    ASSUME NetType, UNCHANGED layers, chan' \in ChannelsOf(EdgesOf(layers), Messages)
    PROVE  /\ WellFormed(layers') /\ Nodes' = Nodes /\ Single' = Single
           /\ Edges = EdgesOf(layers) /\ Edges' = Edges
           /\ \A e \in Edges : From(e)' = From(e) /\ To(e)' = To(e)
           /\ chan' \in ChannelsOf(EdgesOf(layers)', Messages)
<1>1. WellFormed(layers') /\ Nodes' = Nodes /\ Single' = Single
  BY DEF NetType, Nodes, Single
<1>2. Edges = EdgesOf(layers) /\ Edges' = Edges
  BY ChannelProperties DEF NetType, Edges
<1>3. \A e \in Edges : From(e)' = From(e) /\ To(e)' = To(e)
  BY DEF From, To
<1>4. EdgesOf(layers)' = EdgesOf(layers)
  BY DEF EdgesOf
<1> QED BY <1>1, <1>2, <1>3, <1>4

\* A message is taken out of the channel it has arrived in.
LEMMA Taken ==
    ASSUME NetInv, NEW node \in Nodes, NEW e \in InEdges(node), NEW j \in Arrived(chan, e),
           chan' = Drop(chan, e), UNCHANGED layers
    PROVE  /\ e \in Edges /\ To(e) = node /\ node[1] = e[1] + 1
           /\ chan' \in ChannelsOf(EdgesOf(layers), Messages)
           /\ j \in Nat /\ j # EOS /\ j \in Carried(e)
           /\ In(chan) = In(chan') \union {j} /\ j \notin In(chan')
           /\ NoCopies(chan')
           /\ \A f \in Edges : /\ EosAtEnd(chan'[f])
                               /\ ToSet(chan'[f]) \subseteq ToSet(chan[f])
                               /\ ToSet(chan[f]) \subseteq ToSet(chan'[f]) \union {j}
                               /\ chan[f] = <<>> => chan'[f] = <<>>
           /\ Single => \A f \in Edges : Sorted(chan'[f])
           /\ Single => \A k \in Carried(e) : k # j => j < k
<1>1. /\ WellFormed(layers) /\ chan \in ChannelsOf(EdgesOf(layers), Messages)
      /\ Edges = EdgesOf(layers)
  BY ChannelProperties DEF NetInv, NetType, Edges
<1>2. e \in Edges /\ To(e) = node
  BY DEF InEdges
<1>3. node[1] = e[1] + 1
  BY <1>1, <1>2, EdgeProperties
<1>4. Waiting(chan, e) /\ Head(chan[e]) = j /\ j \in Nat /\ j # EOS
  <2>1. Waiting(chan, e) /\ Head(chan[e]) = j /\ j \in Messages /\ j # EOS
    BY <1>1, <1>2, ArrivedProperties
  <2> QED BY <2>1 DEF Messages
<1>5. /\ chan' \in ChannelsOf(EdgesOf(layers), Messages)
      /\ \A f \in Edges \ {e} : chan'[f] = chan[f]
      /\ ToSet(chan[e]) = ToSet(chan'[e]) \union {j}
      /\ EosAtEnd(chan[e]) => EosAtEnd(chan'[e])
      /\ In(chan) = In(chan') \union ({j} \ {EOS})
  BY <1>1, <1>2, <1>4, DropProperties
<1>6. NoCopies(chan') /\ j \notin In(chan')
  BY <1>1, <1>2, <1>4, DropNoCopies DEF NetInv, OneOwner
<1>7. \A f \in Edges : EosAtEnd(chan[f])
  BY DEF NetInv, Drained
<1>8. chan[e] # <<>> /\ chan[e] \in Seq(Messages) /\ chan'[e] = Tail(chan[e])
  BY <1>1, <1>2, <1>4, ChannelProperties DEF Waiting, Drop
<1>9. ASSUME Single
      PROVE  /\ \A f \in Edges : Sorted(chan'[f])
             /\ \A k \in Carried(e) : k # j => j < k
  <2>1. \A f \in Edges : Sorted(chan[f])
    BY <1>9 DEF NetInv, InLine
  <2> QED BY <1>2, <1>4, <1>5, <1>8, <2>1, SortedTail DEF Carried
<1>10. j \in Carried(e)
  BY <1>4, <1>5 DEF Carried
<1>11. \A f \in Edges : /\ EosAtEnd(chan'[f])
                        /\ ToSet(chan'[f]) \subseteq ToSet(chan[f])
                        /\ ToSet(chan[f]) \subseteq ToSet(chan'[f]) \union {j}
                        /\ chan[f] = <<>> => chan'[f] = <<>>
  BY <1>2, <1>5, <1>7, <1>8
<1>12. In(chan) = In(chan') \union {j}
  BY <1>4, <1>5
<1> QED BY <1>2, <1>3, <1>4, <1>5, <1>6, <1>9, <1>10, <1>11, <1>12

LEMMA PlaceTypes ==
    ASSUME NetType
    PROVE  /\ \A n \in Nodes : n[1] \in Nat /\ 2 * n[1] \in Nat /\ 2 * n[1] >= 2
           /\ \A e \in Edges : e[1] \in Nat /\ 2 * e[1] + 1 \in Nat /\ 2 * e[1] + 1 >= 2
<1>1. WellFormed(layers) /\ Len(layers) \in Nat /\ Edges = EdgesOf(layers)
  BY ChannelProperties DEF NetType, WellFormed, Edges
<1>2. \A n \in Nodes : n[1] \in Nat \ {0}
  BY <1>1, NodeProperties
<1>3. \A e \in Edges : e[1] \in Nat \ {0}
  BY <1>1, EdgeProperties
<1> QED BY <1>2, <1>3

\* A task moves on to the next place, those at its own place being behind it.
LEMMA MovedOn ==
    ASSUME InOrderOfPlaces, NEW j \in Nat, NEW p \in Nat, Place(j, p),
           \A x, q \in Nat : Place(x, q)' => IF x = j THEN q = p + 1 ELSE Place(x, q),
           \A x \in Nat : x # j /\ Place(x, p) => j < x
    PROVE  InOrderOfPlaces'
<1> SUFFICES ASSUME NEW x \in Nat, NEW y \in Nat, NEW q \in Nat, NEW r \in Nat,
                    Place(x, q)', Place(y, r)', q < r
             PROVE  y < x
  BY DEF InOrderOfPlaces
<1>1. /\ IF x = j THEN q = p + 1 ELSE Place(x, q)
      /\ IF y = j THEN r = p + 1 ELSE Place(y, r)
  OBVIOUS
<1>2. CASE x = j
  <2>1. y # j /\ Place(y, r) /\ p < r
    BY <1>1, <1>2
  <2> QED BY <1>2, <2>1 DEF InOrderOfPlaces
<1>3. CASE x # j /\ y = j
  <2>1. Place(x, q) /\ q <= p
    BY <1>1, <1>3
  <2>2. q < p => j < x
    BY <2>1 DEF InOrderOfPlaces
  <2> QED BY <1>3, <2>1, <2>2
<1>4. CASE x # j /\ y # j
  BY <1>1, <1>4 DEF InOrderOfPlaces
<1> QED BY <1>2, <1>3, <1>4

\* A place has one node or one channel.
LEMMA OnePlace ==
    ASSUME NetInv, Single
    PROVE  /\ \A n \in Nodes : \A x, q \in Nat : Place(x, q) /\ q = 2 * n[1] => x \in hand[n]
           /\ \A e \in Edges : \A x, q \in Nat : Place(x, q) /\ q = 2 * e[1] + 1 => x \in Carried(e)
<1>1. /\ WellFormed(layers) /\ Edges = EdgesOf(layers)
  BY ChannelProperties DEF NetInv, NetType, Edges
<1>2. \A n \in Nodes : n = <<n[1], 1>> /\ n[1] \in Nat
  BY <1>1, NodeProperties DEF WellFormed
<1>3. \A e \in Edges : e = <<e[1], 1>> /\ e[1] \in Nat
  BY <1>1, EdgeProperties DEF WellFormed
<1>4. ASSUME NEW n \in Nodes, NEW x \in Nat, NEW q \in Nat, Place(x, q), q = 2 * n[1]
      PROVE  x \in hand[n]
  <2>1. CASE \E m \in Nodes : x \in hand[m] /\ q = 2 * m[1]
    <3>1. PICK m \in Nodes : x \in hand[m] /\ q = 2 * m[1]
      BY <2>1
    <3>2. m[1] = n[1]
      BY <1>2, <1>4, <3>1
    <3> QED BY <1>2, <3>1, <3>2
  <2>2. ~\E e \in Edges : x \in Carried(e) /\ q = 2 * e[1] + 1
    BY <1>2, <1>3, <1>4
  <2> QED BY <1>4, <2>1, <2>2 DEF Place
<1>5. ASSUME NEW e \in Edges, NEW x \in Nat, NEW q \in Nat, Place(x, q), q = 2 * e[1] + 1
      PROVE  x \in Carried(e)
  <2>1. CASE \E f \in Edges : x \in Carried(f) /\ q = 2 * f[1] + 1
    <3>1. PICK f \in Edges : x \in Carried(f) /\ q = 2 * f[1] + 1
      BY <2>1
    <3>2. f[1] = e[1]
      BY <1>3, <1>5, <3>1
    <3> QED BY <1>3, <3>1, <3>2
  <2>2. ~\E n \in Nodes : x \in hand[n] /\ q = 2 * n[1]
    BY <1>2, <1>3, <1>5
  <2> QED BY <1>5, <2>1, <2>2 DEF Place
<1> QED BY <1>4, <1>5

\* What a node takes in hand, and what it has no more.
LEMMA HandFilled ==
    ASSUME NetType, Nodes' = Nodes, NEW node \in Nodes, hand[node] = {}, NEW j \in Nat,
           hand' = [hand EXCEPT ![node] = {j}]
    PROVE  /\ hand' \in [Nodes -> SUBSET Nat]
           /\ hand'[node] = {j} /\ \A n \in Nodes \ {node} : hand'[n] = hand[n]
           /\ InHands' = InHands \union {j}
<1>1. /\ hand' \in [Nodes -> SUBSET Nat]
      /\ hand'[node] = {j} /\ \A n \in Nodes \ {node} : hand'[n] = hand[n]
  BY DEF NetType
<1> QED BY <1>1 DEF InHands

LEMMA HandEmptied ==
    ASSUME NetInv, Nodes' = Nodes, NEW node \in Nodes, hand' = [hand EXCEPT ![node] = {}]
    PROVE  /\ hand' \in [Nodes -> SUBSET Nat]
           /\ hand'[node] = {} /\ \A n \in Nodes \ {node} : hand'[n] = hand[n]
           /\ InHands = InHands' \union hand[node] /\ InHands' \intersect hand[node] = {}
<1>1. /\ hand' \in [Nodes -> SUBSET Nat]
      /\ hand'[node] = {} /\ \A n \in Nodes \ {node} : hand'[n] = hand[n]
  BY DEF NetInv, NetType
<1>2. \A n \in Nodes \ {node} : hand[n] \intersect hand[node] = {}
  BY DEF NetInv, OneOwner
<1>3. InHands = InHands' \union hand[node]
  BY <1>1 DEF InHands
<1>4. InHands' \intersect hand[node] = {}
  BY <1>1, <1>2 DEF InHands
<1> QED BY <1>1, <1>3, <1>4

\* A node takes the first task of a channel in hand ...
LEMMA ReceiveStep ==
    ASSUME NetInv, NEW node \in Nodes, NEW j, Receive(node, j)
    PROVE  /\ NetInv' /\ UNCHANGED <<layers, ended>> /\ Nodes' = Nodes /\ node \notin ended
           /\ j \in Nat /\ hand[node] = {} /\ hand'[node] = {j}
           /\ \A n \in Nodes \ {node} : hand'[n] = hand[n]
           /\ In(chan) \union InHands = In(chan') \union InHands' /\ j \in In(chan)
           /\ \E e \in Edges : j \in Carried(e) /\ node[1] = e[1] + 1
           /\ Edges' = Edges /\ \A f \in Edges : Carried(f)' \subseteq Carried(f)
<1>1. PICK e \in InEdges(node) : j \in Arrived(chan, e) /\ chan' = Drop(chan, e)
  BY DEF Receive
<1>2. /\ UNCHANGED <<layers, ended>> /\ node \notin ended /\ hand[node] = {}
      /\ hand' = [hand EXCEPT ![node] = {j}]
  BY DEF Receive, Free
<1>3. /\ e \in Edges /\ To(e) = node /\ node[1] = e[1] + 1
      /\ chan' \in ChannelsOf(EdgesOf(layers), Messages)
      /\ j \in Nat /\ j # EOS /\ j \in Carried(e)
      /\ In(chan) = In(chan') \union {j} /\ j \notin In(chan')
      /\ NoCopies(chan')
      /\ \A f \in Edges : /\ EosAtEnd(chan'[f])
                          /\ ToSet(chan'[f]) \subseteq ToSet(chan[f])
                          /\ ToSet(chan[f]) \subseteq ToSet(chan'[f]) \union {j}
                          /\ chan[f] = <<>> => chan'[f] = <<>>
      /\ Single => \A f \in Edges : Sorted(chan'[f])
      /\ Single => \A k \in Carried(e) : k # j => j < k
  BY <1>1, <1>2, Taken
<1>4. /\ WellFormed(layers') /\ Nodes' = Nodes /\ Single' = Single /\ Edges' = Edges
      /\ \A f \in Edges : From(f)' = From(f) /\ To(f)' = To(f)
      /\ chan' \in ChannelsOf(EdgesOf(layers)', Messages)
  BY <1>2, <1>3, Frame DEF NetInv
<1>5. /\ hand' \in [Nodes -> SUBSET Nat]
      /\ hand'[node] = {j} /\ \A n \in Nodes \ {node} : hand'[n] = hand[n]
      /\ InHands' = InHands \union {j}
  BY <1>2, <1>3, <1>4, HandFilled DEF NetInv
<1>6. NetType'
  BY <1>2, <1>4, <1>5 DEF NetInv, NetType
<1>7. j \notin InHands
  BY <1>3 DEF NetInv, OneOwner
<1>8. OneOwner'
  <2>1. NoCopies(chan)' /\ (In(chan) \intersect InHands = {})'
    BY <1>3, <1>5, <1>7 DEF NetInv, OneOwner
  <2>2. \A n \in Nodes : j \notin hand[n]
    BY <1>7 DEF InHands
  <2>3. (\A m, n \in Nodes : \A k \in hand[m] : k \in hand[n] => m = n)'
    BY <1>4, <1>5, <2>2 DEF NetInv, OneOwner
  <2>4. (\A n \in Nodes : \A k, l \in hand[n] : k = l)'
    BY <1>4, <1>5 DEF NetInv, OneOwner
  <2> QED BY <2>1, <2>3, <2>4 DEF OneOwner
<1>9. Drained'
  <2>1. \A f \in Edges : /\ EosAtEnd(chan'[f])
                         /\ EOS \in ToSet(chan'[f]) => From(f) \in ended
                         /\ To(f) \in ended => From(f) \in ended /\ chan'[f] = <<>>
                         /\ From(f) \in ended /\ To(f) \notin ended => EOS \in ToSet(chan'[f])
    BY <1>3 DEF NetInv, Drained
  <2>2. \A n \in ended : hand'[n] = {}
    BY <1>2, <1>5 DEF NetInv, NetType, Drained
  <2> QED BY <1>2, <1>4, <2>1, <2>2 DEF Drained
<1>10. \A f \in Edges : Carried(f)' \subseteq Carried(f)
  BY <1>3 DEF Carried
<1>11. ASSUME Single PROVE InOrderOfPlaces'
  <2> DEFINE p == 2 * e[1] + 1
  <2>1. e[1] \in Nat /\ p \in Nat /\ 2 * node[1] = p + 1
    <3>1. e[1] \in Nat /\ p \in Nat
      BY <1>3, PlaceTypes DEF NetInv
    <3> QED BY <1>3, <3>1
  <2>2. Place(j, p)
    BY <1>3 DEF Place
  <2>3. \A x \in Nat : x # j /\ Place(x, p) => j < x
    BY <1>3, <1>11, <2>1, OnePlace
  <2>4. \A f \in Edges : j \notin Carried(f)'
    BY <1>3, <1>4 DEF Carried, In, Edges
  <2>5. \A x, q \in Nat : Place(x, q)' => IF x = j THEN q = p + 1 ELSE Place(x, q)
    <3> SUFFICES ASSUME NEW x \in Nat, NEW q \in Nat, Place(x, q)'
                 PROVE  IF x = j THEN q = p + 1 ELSE Place(x, q)
      OBVIOUS
    <3>1. CASE \E n \in Nodes : x \in hand'[n] /\ q = 2 * n[1]
      <4>1. PICK n \in Nodes : x \in hand'[n] /\ q = 2 * n[1]
        BY <3>1
      <4>2. n # node => x \in hand[n] /\ x # j
        BY <1>5, <1>7, <4>1 DEF InHands
      <4>3. n = node => x = j /\ q = p + 1
        BY <1>5, <2>1, <4>1
      <4> QED BY <4>1, <4>2, <4>3 DEF Place
    <3>2. CASE \E f \in Edges : x \in Carried(f)' /\ q = 2 * f[1] + 1
      BY <1>10, <2>4, <3>2 DEF Place
    <3> QED BY <1>4, <3>1, <3>2 DEF Place
  <2> HIDE DEF p
  <2>6. InOrderOfPlaces
    BY <1>11 DEF NetInv, InLine
  <2> QED BY <1>3, <2>1, <2>2, <2>3, <2>5, <2>6, MovedOn
<1>12. InLine'
  BY <1>3, <1>4, <1>11 DEF InLine
<1>13. NetInv'
  BY <1>6, <1>8, <1>9, <1>12 DEF NetInv
<1> QED BY <1>2, <1>3, <1>4, <1>5, <1>10, <1>13

\* ... or gives it up at once.
LEMMA DiscardStep ==
    ASSUME NetInv, NEW node \in Nodes, NEW j, Discard(node, j)
    PROVE  /\ NetInv' /\ UNCHANGED <<layers, hand, ended>> /\ Nodes' = Nodes
           /\ In(chan) = In(chan') \union {j} /\ j \notin In(chan') /\ InHands' = InHands
           /\ \E e \in Edges : j \in Carried(e) /\ node[1] = e[1] + 1
           /\ Edges' = Edges /\ \A f \in Edges : Carried(f)' \subseteq Carried(f)
<1>1. PICK e \in InEdges(node) : j \in Arrived(chan, e) /\ chan' = Drop(chan, e)
  BY DEF Discard
<1>2. UNCHANGED <<layers, hand, ended>>
  BY DEF Discard
<1>3. /\ e \in Edges /\ To(e) = node /\ node[1] = e[1] + 1
      /\ chan' \in ChannelsOf(EdgesOf(layers), Messages)
      /\ j # EOS /\ j \in Carried(e)
      /\ In(chan) = In(chan') \union {j} /\ j \notin In(chan')
      /\ NoCopies(chan')
      /\ \A f \in Edges : /\ EosAtEnd(chan'[f])
                          /\ ToSet(chan'[f]) \subseteq ToSet(chan[f])
                          /\ ToSet(chan[f]) \subseteq ToSet(chan'[f]) \union {j}
                          /\ chan[f] = <<>> => chan'[f] = <<>>
      /\ Single => \A f \in Edges : Sorted(chan'[f])
  BY <1>1, <1>2, Taken
<1>4. /\ WellFormed(layers') /\ Nodes' = Nodes /\ Single' = Single /\ Edges' = Edges
      /\ \A f \in Edges : From(f)' = From(f) /\ To(f)' = To(f)
      /\ chan' \in ChannelsOf(EdgesOf(layers)', Messages)
  BY <1>2, <1>3, Frame DEF NetInv
<1>5. InHands' = InHands
  BY <1>2, <1>4 DEF InHands
<1>6. NetType'
  BY <1>2, <1>4 DEF NetInv, NetType
<1>7. OneOwner'
  BY <1>2, <1>3, <1>4, <1>5 DEF NetInv, OneOwner
<1>8. Drained'
  <2>1. \A f \in Edges : /\ EosAtEnd(chan'[f])
                         /\ EOS \in ToSet(chan'[f]) => From(f) \in ended
                         /\ To(f) \in ended => From(f) \in ended /\ chan'[f] = <<>>
                         /\ From(f) \in ended /\ To(f) \notin ended => EOS \in ToSet(chan'[f])
    BY <1>3 DEF NetInv, Drained
  <2> QED BY <1>2, <1>4, <2>1 DEF NetInv, Drained
<1>9. \A f \in Edges : Carried(f)' \subseteq Carried(f)
  BY <1>3 DEF Carried
<1>10. \A x, q \in Nat : Place(x, q)' => Place(x, q)
  BY <1>2, <1>4, <1>9 DEF Place
<1>11. InLine'
  BY <1>3, <1>4, <1>10 DEF NetInv, InLine, InOrderOfPlaces
<1>12. NetInv'
  BY <1>6, <1>7, <1>8, <1>11 DEF NetInv
<1> QED BY <1>2, <1>3, <1>4, <1>5, <1>9, <1>12

\* The first node takes a task that is nowhere yet, behind all others.
LEMMA ProduceStep ==
    ASSUME NetInv, NEW node \in Nodes, NEW j \in Nat, Produce(node, j),
           j \notin In(chan) \union InHands,
           \A k \in In(chan) \union InHands : k < j
    PROVE  /\ NetInv' /\ UNCHANGED <<layers, chan, ended>> /\ Nodes' = Nodes /\ Edges' = Edges
           /\ node[1] = 1 /\ node \notin ended /\ hand[node] = {} /\ hand'[node] = {j}
           /\ \A n \in Nodes \ {node} : hand'[n] = hand[n]
           /\ In(chan') \union InHands' = In(chan) \union InHands \union {j}
<1>1. /\ UNCHANGED <<layers, chan, ended>> /\ node[1] = 1 /\ node \notin ended
      /\ hand[node] = {} /\ hand' = [hand EXCEPT ![node] = {j}]
  BY DEF Produce, Free, IsSource
<1>2. /\ WellFormed(layers') /\ Nodes' = Nodes /\ Single' = Single /\ Edges' = Edges
      /\ \A f \in Edges : From(f)' = From(f) /\ To(f)' = To(f)
      /\ chan' \in ChannelsOf(EdgesOf(layers)', Messages)
  <2>1. NetType /\ chan' \in ChannelsOf(EdgesOf(layers), Messages)
    BY <1>1 DEF NetInv, NetType
  <2> QED BY <1>1, <2>1, Frame
<1>3. /\ hand' \in [Nodes -> SUBSET Nat]
      /\ hand'[node] = {j} /\ \A n \in Nodes \ {node} : hand'[n] = hand[n]
      /\ InHands' = InHands \union {j}
  BY <1>1, <1>2, HandFilled DEF NetInv
<1>4. NetType'
  BY <1>1, <1>2, <1>3 DEF NetInv, NetType
<1>5. OneOwner'
  <2>1. NoCopies(chan)' /\ (In(chan) \intersect InHands = {})'
    BY <1>1, <1>3 DEF NetInv, OneOwner
  <2>2. \A n \in Nodes : j \notin hand[n]
    BY DEF InHands
  <2>3. (\A m, n \in Nodes : \A k \in hand[m] : k \in hand[n] => m = n)'
    BY <1>2, <1>3, <2>2 DEF NetInv, OneOwner
  <2>4. (\A n \in Nodes : \A k, l \in hand[n] : k = l)'
    BY <1>2, <1>3 DEF NetInv, OneOwner
  <2> QED BY <2>1, <2>3, <2>4 DEF OneOwner
<1>6. Drained'
  <2>1. \A n \in ended : hand'[n] = {}
    BY <1>1, <1>3 DEF NetInv, NetType, Drained
  <2> QED BY <1>1, <1>2, <2>1 DEF NetInv, Drained
<1>7. ASSUME Single PROVE InOrderOfPlaces'
  <2>1. \A x, q \in Nat : Place(x, q)' => IF x = j THEN q = 2 ELSE Place(x, q)
    <3> SUFFICES ASSUME NEW x \in Nat, NEW q \in Nat, Place(x, q)'
                 PROVE  IF x = j THEN q = 2 ELSE Place(x, q)
      OBVIOUS
    <3>1. CASE \E n \in Nodes : x \in hand'[n] /\ q = 2 * n[1]
      <4>1. PICK n \in Nodes : x \in hand'[n] /\ q = 2 * n[1]
        BY <3>1
      <4>2. n # node => x \in hand[n] /\ x # j
        BY <1>3, <4>1 DEF InHands
      <4>3. n = node => x = j /\ q = 2
        BY <1>1, <1>3, <4>1
      <4> QED BY <4>1, <4>2, <4>3 DEF Place
    <3>2. CASE \E f \in Edges : x \in Carried(f)' /\ q = 2 * f[1] + 1
      <4>1. PICK f \in Edges : x \in Carried(f) /\ q = 2 * f[1] + 1
        BY <1>1, <3>2 DEF Carried
      <4>2. x # j
        BY <4>1 DEF Carried, In, Edges
      <4> QED BY <4>1, <4>2 DEF Place
    <3> QED BY <1>2, <3>1, <3>2 DEF Place
  <2>2. \A x, q \in Nat : Place(x, q) => x < j /\ q >= 2
    <3> SUFFICES ASSUME NEW x \in Nat, NEW q \in Nat, Place(x, q)
                 PROVE  x < j /\ q >= 2
      OBVIOUS
    <3>1. x < j
      BY DEF Place, Carried, In, InHands, Edges
    <3>2. (\A n \in Nodes : 2 * n[1] >= 2) /\ (\A e \in Edges : 2 * e[1] + 1 >= 2)
      BY PlaceTypes DEF NetInv
    <3> QED BY <3>1, <3>2 DEF Place
  <2> SUFFICES ASSUME NEW x \in Nat, NEW y \in Nat, NEW q \in Nat, NEW r \in Nat,
                      Place(x, q)', Place(y, r)', q < r
               PROVE  y < x
    BY DEF InOrderOfPlaces
  <2>3. /\ IF x = j THEN q = 2 ELSE Place(x, q)
        /\ IF y = j THEN r = 2 ELSE Place(y, r)
    BY <2>1
  <2>4. y # j
    BY <2>2, <2>3
  <2> QED BY <1>7, <2>2, <2>3, <2>4 DEF NetInv, InLine, InOrderOfPlaces
<1>8. InLine'
  BY <1>1, <1>2, <1>7 DEF NetInv, InLine
<1>9. NetInv'
  BY <1>4, <1>5, <1>6, <1>8 DEF NetInv
<1> QED BY <1>1, <1>2, <1>3, <1>9

\* A node puts its task into one of its outputs.
LEMMA PassOnStep ==
    ASSUME NetInv, NEW node \in Nodes, PassOn(node)
    PROVE  /\ NetInv' /\ UNCHANGED <<layers, ended>> /\ Nodes' = Nodes /\ Edges' = Edges
           /\ hand'[node] = {} /\ \A n \in Nodes \ {node} : hand'[n] = hand[n]
           /\ In(chan') \union InHands' = In(chan) \union InHands
           /\ \A f \in Edges : \A j \in Carried(f)' :
                 j \in Carried(f) \/ (j \in hand[node] /\ f[1] = node[1])
<1>1. PICK j \in hand[node], e \in OutEdges(node) : chan' = Put(chan, e, j)
  BY DEF PassOn
<1>2. /\ UNCHANGED <<layers, ended>> /\ hand' = [hand EXCEPT ![node] = {}]
  BY DEF PassOn
<1>3. /\ WellFormed(layers) /\ chan \in ChannelsOf(EdgesOf(layers), Messages)
      /\ Edges = EdgesOf(layers)
  BY ChannelProperties DEF NetInv, NetType, Edges
<1>4. e \in Edges /\ From(e) = node
  BY <1>1 DEF OutEdges
<1>5. node[1] = e[1]
  BY <1>3, <1>4, EdgeProperties
<1>6. j \in Nat /\ j # EOS /\ j \in Messages /\ j \in InHands /\ j \notin In(chan)
  <2>1. j \in Nat /\ j \in InHands
    BY <1>1 DEF NetInv, NetType, InHands
  <2> QED BY <2>1, EOSAssumption DEF NetInv, OneOwner, Messages
<1>7. hand[node] = {j} /\ node \notin ended
  BY <1>1 DEF NetInv, OneOwner, Drained
<1>8. EOS \notin ToSet(chan[e])
  BY <1>4, <1>7 DEF NetInv, Drained
<1>9. /\ chan' \in ChannelsOf(EdgesOf(layers), Messages)
      /\ \A f \in Edges \ {e} : chan'[f] = chan[f]
      /\ ToSet(chan'[e]) = ToSet(chan[e]) \union {j}
      /\ EosAtEnd(chan'[e])
      /\ In(chan') = In(chan) \union {j}
  <2>1. /\ chan' \in ChannelsOf(EdgesOf(layers), Messages)
        /\ \A f \in Edges \ {e} : chan'[f] = chan[f]
        /\ ToSet(chan'[e]) = ToSet(chan[e]) \union {j}
        /\ EOS \notin ToSet(chan[e]) => EosAtEnd(chan'[e])
        /\ In(chan') = In(chan) \union ({j} \ {EOS})
    BY <1>1, <1>3, <1>4, <1>6, PutProperties
  <2> QED BY <1>6, <1>8, <2>1
<1>10. NoCopies(chan')
  BY <1>1, <1>3, <1>4, <1>6, PutNoCopies DEF NetInv, OneOwner
<1>11. /\ WellFormed(layers') /\ Nodes' = Nodes /\ Single' = Single /\ Edges' = Edges
       /\ \A f \in Edges : From(f)' = From(f) /\ To(f)' = To(f)
       /\ chan' \in ChannelsOf(EdgesOf(layers)', Messages)
  BY <1>2, <1>9, Frame DEF NetInv
<1>12. /\ hand' \in [Nodes -> SUBSET Nat]
       /\ hand'[node] = {} /\ \A n \in Nodes \ {node} : hand'[n] = hand[n]
       /\ InHands = InHands' \union hand[node] /\ InHands' \intersect hand[node] = {}
  BY <1>2, <1>11, HandEmptied
<1>13. NetType'
  BY <1>2, <1>11, <1>12 DEF NetInv, NetType
<1>14. OneOwner'
  <2>1. NoCopies(chan)' /\ (In(chan) \intersect InHands = {})'
    BY <1>7, <1>9, <1>10, <1>12 DEF NetInv, OneOwner
  <2>2. (\A m, n \in Nodes : \A k \in hand[m] : k \in hand[n] => m = n)'
    BY <1>11, <1>12 DEF NetInv, OneOwner
  <2>3. (\A n \in Nodes : \A k, l \in hand[n] : k = l)'
    BY <1>11, <1>12 DEF NetInv, OneOwner
  <2> QED BY <2>1, <2>2, <2>3 DEF OneOwner
<1>15. Drained'
  <2>1. \A f \in Edges : /\ EosAtEnd(chan'[f])
                         /\ EOS \in ToSet(chan'[f]) => From(f) \in ended
                         /\ To(f) \in ended => From(f) \in ended /\ chan'[f] = <<>>
                         /\ From(f) \in ended /\ To(f) \notin ended => EOS \in ToSet(chan'[f])
    <3> SUFFICES ASSUME NEW f \in Edges
                 PROVE  /\ EosAtEnd(chan'[f])
                        /\ EOS \in ToSet(chan'[f]) => From(f) \in ended
                        /\ To(f) \in ended => From(f) \in ended /\ chan'[f] = <<>>
                        /\ From(f) \in ended /\ To(f) \notin ended => EOS \in ToSet(chan'[f])
      OBVIOUS
    <3>1. CASE f = e
      BY <1>4, <1>6, <1>7, <1>8, <1>9, <3>1 DEF NetInv, Drained
    <3>2. CASE f # e
      BY <1>9, <3>2 DEF NetInv, Drained
    <3> QED BY <3>1, <3>2
  <2>2. \A n \in ended : hand'[n] = {}
    BY <1>12 DEF NetInv, NetType, Drained
  <2> QED BY <1>2, <1>11, <2>1, <2>2 DEF Drained
<1>16. \A f \in Edges : \A k \in Carried(f)' : k \in Carried(f) \/ (k = j /\ f = e)
  <2> SUFFICES ASSUME NEW f \in Edges, NEW k \in ToSet(chan'[f]) \ {EOS}
               PROVE  k \in ToSet(chan[f]) \/ (k = j /\ f = e)
    BY DEF Carried
  <2>1. CASE f = e
    <3>1. ToSet(chan'[f]) = ToSet(chan[f]) \union {j}
      BY <1>9, <2>1
    <3> QED BY <2>1, <3>1
  <2>2. CASE f # e
    <3>1. chan'[f] = chan[f]
      BY <1>9, <2>2
    <3>2. ToSet(chan'[f]) = ToSet(chan[f])
      BY <3>1, Zenon
    <3> QED BY <3>2, Zenon
  <2> QED BY <2>1, <2>2
<1>17. ASSUME Single
       PROVE  InOrderOfPlaces' /\ \A f \in Edges : Sorted(chan'[f])
  <2> DEFINE p == 2 * node[1]
  <2>1. p \in Nat /\ 2 * e[1] + 1 = p + 1 /\ \A n \in Nodes : 2 * n[1] \in Nat
    <3>1. node[1] \in Nat /\ \A n \in Nodes : 2 * n[1] \in Nat
      BY PlaceTypes DEF NetInv
    <3> QED BY <1>5, <3>1
  <2>2. Place(j, p)
    BY <1>1 DEF Place
  <2>3. \A x \in Nat : x # j /\ Place(x, p) => j < x
    BY <1>7, <1>17, <2>1, OnePlace
  <2>4. \A x, q \in Nat : Place(x, q)' => IF x = j THEN q = p + 1 ELSE Place(x, q)
    <3> SUFFICES ASSUME NEW x \in Nat, NEW q \in Nat, Place(x, q)'
                 PROVE  IF x = j THEN q = p + 1 ELSE Place(x, q)
      OBVIOUS
    <3>1. CASE \E n \in Nodes : x \in hand'[n] /\ q = 2 * n[1]
      <4>1. PICK n \in Nodes : x \in hand'[n] /\ q = 2 * n[1]
        BY <3>1
      <4>2. n # node /\ x \in hand[n] /\ x # j
        BY <1>7, <1>12, <4>1 DEF NetInv, OneOwner
      <4> QED BY <4>1, <4>2 DEF Place
    <3>2. CASE \E f \in Edges : x \in Carried(f)' /\ q = 2 * f[1] + 1
      <4>1. PICK f \in Edges : x \in Carried(f)' /\ q = 2 * f[1] + 1
        BY <3>2
      <4>2. CASE x = j
        <5>1. j \notin Carried(f)
          BY <1>6 DEF Carried, In, Edges
        <5>2. f = e
          BY <1>16, <4>1, <4>2, <5>1
        <5> QED BY <2>1, <4>1, <4>2, <5>2
      <4>3. CASE x # j
        BY <1>16, <4>1, <4>3 DEF Place
      <4> QED BY <4>2, <4>3
    <3> QED BY <1>11, <3>1, <3>2 DEF Place
  <2> HIDE DEF p
  <2>5. InOrderOfPlaces
    BY <1>17 DEF NetInv, InLine
  <2>6. InOrderOfPlaces'
    BY <1>6, <2>1, <2>2, <2>3, <2>4, <2>5, MovedOn
  <2>7. \A k \in ToSet(chan[e]) : k \in Nat /\ k < j
    <3> SUFFICES ASSUME NEW k \in ToSet(chan[e])
                 PROVE  k \in Nat /\ k < j
      OBVIOUS
    <3>1. k \in Nat /\ k \in Carried(e)
      BY <1>3, <1>4, <1>8, ChannelProperties, ToSetOfSeq DEF Carried, Messages
    <3>2. Place(k, p + 1) /\ p + 1 \in Nat
      BY <1>4, <2>1, <3>1 DEF Place
    <3> QED BY <1>6, <2>1, <2>2, <2>5, <3>1, <3>2 DEF InOrderOfPlaces
  <2>8. Sorted(chan'[e])
    <3>1. chan[e] \in Seq(Messages) /\ chan'[e] = Append(chan[e], j) /\ Sorted(chan[e])
      BY <1>1, <1>3, <1>4, <1>17, ChannelProperties DEF Put, NetInv, InLine, Edges
    <3> QED BY <1>6, <2>7, <3>1, SortedAppend
  <2> QED BY <1>9, <1>17, <2>6, <2>8 DEF NetInv, InLine
<1>18. InLine'
  BY <1>11, <1>17 DEF InLine
<1>19. NetInv'
  BY <1>13, <1>14, <1>15, <1>18 DEF NetInv
<1>20. \A f \in Edges : \A k \in Carried(f)' : k \in Carried(f) \/ (k \in hand[node] /\ f[1] = node[1])
  BY <1>1, <1>5, <1>16
<1> QED BY <1>2, <1>7, <1>9, <1>11, <1>12, <1>19, <1>20

\* The last node gives up its task.
LEMMA FinishStep ==
    ASSUME NetInv, NEW node \in Nodes, Finish(node)
    PROVE  /\ NetInv' /\ UNCHANGED <<layers, chan, ended>> /\ Nodes' = Nodes /\ Edges' = Edges
           /\ hand'[node] = {} /\ \A n \in Nodes \ {node} : hand'[n] = hand[n]
           /\ InHands = InHands' \union hand[node] /\ InHands' \intersect hand[node] = {}
<1>1. UNCHANGED <<layers, chan, ended>> /\ hand' = [hand EXCEPT ![node] = {}]
  BY DEF Finish
<1>2. /\ WellFormed(layers') /\ Nodes' = Nodes /\ Single' = Single /\ Edges' = Edges
      /\ \A f \in Edges : From(f)' = From(f) /\ To(f)' = To(f)
      /\ chan' \in ChannelsOf(EdgesOf(layers)', Messages)
  <2>1. NetType /\ chan' \in ChannelsOf(EdgesOf(layers), Messages)
    BY <1>1 DEF NetInv, NetType
  <2> QED BY <1>1, <2>1, Frame
<1>3. /\ hand' \in [Nodes -> SUBSET Nat]
      /\ hand'[node] = {} /\ \A n \in Nodes \ {node} : hand'[n] = hand[n]
      /\ InHands = InHands' \union hand[node] /\ InHands' \intersect hand[node] = {}
  BY <1>1, <1>2, HandEmptied
<1>4. NetType'
  BY <1>1, <1>2, <1>3 DEF NetInv, NetType
<1>5. OneOwner'
  <2>1. NoCopies(chan)' /\ (In(chan) \intersect InHands = {})'
    BY <1>1, <1>3 DEF NetInv, OneOwner
  <2>2. (\A m, n \in Nodes : \A k \in hand[m] : k \in hand[n] => m = n)'
    BY <1>2, <1>3 DEF NetInv, OneOwner
  <2>3. (\A n \in Nodes : \A k, l \in hand[n] : k = l)'
    BY <1>2, <1>3 DEF NetInv, OneOwner
  <2> QED BY <2>1, <2>2, <2>3 DEF OneOwner
<1>6. Drained'
  <2>1. \A n \in ended : hand'[n] = {}
    BY <1>3 DEF NetInv, NetType, Drained
  <2> QED BY <1>1, <1>2, <2>1 DEF NetInv, Drained
<1>7. \A x, q \in Nat : Place(x, q)' => Place(x, q)
  <2>1. \A n \in Nodes : hand'[n] \subseteq hand[n]
    BY <1>3
  <2>2. \A f \in Edges : Carried(f)' = Carried(f)
    BY <1>1 DEF Carried
  <2> QED BY <1>2, <2>1, <2>2 DEF Place
<1>8. InLine'
  BY <1>1, <1>2, <1>7 DEF NetInv, InLine, InOrderOfPlaces
<1>9. NetInv'
  BY <1>4, <1>5, <1>6, <1>8 DEF NetInv
<1> QED BY <1>1, <1>2, <1>3, <1>9

\* A node ends: the marks at the heads of its inputs are their last messages,
\* and each of its outputs gets one.
LEMMA EndNodeStep ==
    ASSUME NetInv, NEW node \in Nodes, EndNode(node)
    PROVE  /\ NetInv' /\ UNCHANGED <<layers, hand>> /\ Nodes' = Nodes /\ Edges' = Edges
           /\ ended' = ended \union {node}
           /\ In(chan') = In(chan) /\ InHands' = InHands
           /\ \A f \in Edges : Carried(f)' = Carried(f)
<1>1. /\ UNCHANGED <<layers, hand>> /\ ended' = ended \union {node}
      /\ node \in Nodes \ ended /\ hand[node] = {}
      /\ \A e \in InEdges(node) : chan[e] # <<>> /\ Head(chan[e]) = EOS
      /\ chan' = [e \in Edges |-> IF e \in InEdges(node) THEN Tail(chan[e])
                                  ELSE IF e \in OutEdges(node) THEN Append(chan[e], EOS)
                                  ELSE chan[e]]
  BY DEF EndNode, Free
<1>2. /\ WellFormed(layers) /\ chan \in ChannelsOf(EdgesOf(layers), Messages)
      /\ Edges = EdgesOf(layers)
  BY ChannelProperties DEF NetInv, NetType, Edges
<1>3. \A e \in Edges : chan[e] \in Seq(Messages) /\ EosAtEnd(chan[e])
  BY <1>2, ChannelProperties DEF NetInv, Drained
<1>4. EOS \in Messages
  BY DEF Messages
<1>5. ASSUME NEW e \in Edges, To(e) = node
      PROVE  /\ chan'[e] = <<>> /\ ToSet(chan[e]) = {EOS} /\ From(e) \in ended
             /\ From(e) # node
  <2>1. e \in InEdges(node) /\ chan[e] # <<>> /\ Head(chan[e]) = EOS
    BY <1>1, <1>5 DEF InEdges
  <2>2. chan'[e] = Tail(chan[e]) /\ Tail(chan[e]) = <<>>
    BY <1>1, <1>3, <2>1, EosAtEndOfTail
  <2>3. ToSet(chan[e]) = {EOS}
    BY <1>3, <2>1, <2>2, ToSetOfTail, ToSetOfEmpty
  <2>4. From(e) \in ended
    BY <2>3 DEF NetInv, Drained
  <2> QED BY <1>1, <2>2, <2>3, <2>4
<1>6. ASSUME NEW e \in Edges, From(e) = node
      PROVE  /\ chan'[e] = Append(chan[e], EOS) /\ EOS \notin ToSet(chan[e]) /\ To(e) \notin ended
             /\ To(e) # node /\ EOS \in ToSet(chan'[e])
  <2>1. e \in OutEdges(node) /\ e \notin InEdges(node) /\ To(e) # node
    BY <1>2, <1>6, EdgeProperties DEF OutEdges, InEdges
  <2>2. EOS \notin ToSet(chan[e]) /\ To(e) \notin ended
    BY <1>1, <1>6 DEF NetInv, Drained
  <2>3. chan'[e] = Append(chan[e], EOS)
    BY <1>1, <2>1
  <2>4. EOS \in ToSet(chan'[e])
    BY <1>3, <1>4, <2>3, ToSetOfAppend
  <2> QED BY <2>1, <2>2, <2>3, <2>4
<1>7. ASSUME NEW e \in Edges, To(e) # node, From(e) # node
      PROVE  chan'[e] = chan[e]
  BY <1>1, <1>7 DEF InEdges, OutEdges
<1>8. \A e \in Edges : /\ chan'[e] \in Seq(Messages) /\ EosAtEnd(chan'[e])
                       /\ ToSet(chan'[e]) \ {EOS} = ToSet(chan[e]) \ {EOS}
  <2> SUFFICES ASSUME NEW e \in Edges
               PROVE  /\ chan'[e] \in Seq(Messages) /\ EosAtEnd(chan'[e])
                      /\ ToSet(chan'[e]) \ {EOS} = ToSet(chan[e]) \ {EOS}
    OBVIOUS
  <2>1. CASE To(e) = node
    <3>1. <<>> \in Seq(Messages)
      OBVIOUS
    <3> QED BY <1>5, <2>1, <3>1, ToSetOfEmpty, EosAtEndOfEmpty
  <2>2. CASE From(e) = node
    <3>1. chan'[e] = Append(chan[e], EOS) /\ EOS \notin ToSet(chan[e])
      BY <1>6, <2>2
    <3>2. Append(chan[e], EOS) \in Seq(Messages)
      BY <1>3, <1>4
    <3> QED BY <1>3, <1>4, <3>1, <3>2, ToSetOfAppend, EosAtEndOfAppend
  <2>3. CASE To(e) # node /\ From(e) # node
    BY <1>3, <1>7, <2>3
  <2> QED BY <2>1, <2>2, <2>3
<1>9. DOMAIN chan' = Edges /\ chan' \in ChannelsOf(EdgesOf(layers), Messages)
  BY <1>1, <1>2, <1>8 DEF ChannelsOf
<1>10. /\ WellFormed(layers') /\ Nodes' = Nodes /\ Single' = Single /\ Edges' = Edges
       /\ \A f \in Edges : From(f)' = From(f) /\ To(f)' = To(f)
       /\ chan' \in ChannelsOf(EdgesOf(layers)', Messages)
  BY <1>1, <1>9, Frame DEF NetInv
<1>11. \A f \in Edges : Carried(f)' = Carried(f)
  BY <1>8 DEF Carried
<1>12. In(chan') = In(chan) /\ InHands' = InHands
  <2>1. \A k : k \in In(chan') <=> \E f \in Edges : k \in ToSet(chan'[f]) \ {EOS}
    BY <1>9 DEF In
  <2>2. \A k : k \in In(chan) <=> \E f \in Edges : k \in ToSet(chan[f]) \ {EOS}
    BY DEF In, Edges
  <2>3. \A f \in Edges : ToSet(chan'[f]) \ {EOS} = ToSet(chan[f]) \ {EOS}
    BY <1>8
  <2>4. \A k : k \in In(chan') <=> k \in In(chan)
    BY <2>1, <2>2, <2>3, Zenon
  <2>5. In(chan') = In(chan)
    BY <2>4
  <2>6. InHands' = InHands
    BY <1>1, <1>10 DEF InHands
  <2> QED BY <2>5, <2>6
<1>13. \A e \in Edges : \A k \in DOMAIN chan'[e] :
           chan'[e][k] # EOS => k \in DOMAIN chan[e] /\ chan'[e][k] = chan[e][k]
  <2> SUFFICES ASSUME NEW e \in Edges, NEW k \in DOMAIN chan'[e], chan'[e][k] # EOS
               PROVE  k \in DOMAIN chan[e] /\ chan'[e][k] = chan[e][k]
    OBVIOUS
  <2>1. To(e) # node
    BY <1>5
  <2>2. CASE From(e) = node
    BY <1>3, <1>4, <1>6, <2>2
  <2>3. CASE From(e) # node
    BY <1>7, <2>1, <2>3
  <2> QED BY <2>2, <2>3
<1>14. NetType'
  BY <1>1, <1>10 DEF NetInv, NetType
<1>15. NoCopies(chan')
  <2> SUFFICES ASSUME NEW v \in Edges, NEW w \in Edges,
                      NEW a \in DOMAIN chan'[v], NEW b \in DOMAIN chan'[w],
                      chan'[v][a] = chan'[w][b], chan'[v][a] # EOS
               PROVE  v = w /\ a = b
    BY <1>9 DEF NoCopies
  <2> QED BY <1>13 DEF NetInv, OneOwner, NoCopies, Edges
<1>16. OneOwner'
  BY <1>1, <1>10, <1>12, <1>15 DEF NetInv, OneOwner
<1>17. Drained'
  <2>1. \A f \in Edges : /\ EosAtEnd(chan'[f])
                         /\ EOS \in ToSet(chan'[f]) => From(f) \in ended'
                         /\ To(f) \in ended' => From(f) \in ended' /\ chan'[f] = <<>>
                         /\ From(f) \in ended' /\ To(f) \notin ended' => EOS \in ToSet(chan'[f])
    <3> SUFFICES ASSUME NEW f \in Edges
                 PROVE  /\ EosAtEnd(chan'[f])
                        /\ EOS \in ToSet(chan'[f]) => From(f) \in ended'
                        /\ To(f) \in ended' => From(f) \in ended' /\ chan'[f] = <<>>
                        /\ From(f) \in ended' /\ To(f) \notin ended' => EOS \in ToSet(chan'[f])
      OBVIOUS
    <3>1. CASE To(f) = node
      BY <1>1, <1>5, <1>8, <3>1
    <3>2. CASE From(f) = node
      BY <1>1, <1>6, <1>8, <3>2
    <3>3. CASE To(f) # node /\ From(f) # node
      BY <1>1, <1>7, <3>3 DEF NetInv, Drained
    <3> QED BY <3>1, <3>2, <3>3
  <2> QED BY <1>1, <1>10, <2>1 DEF NetInv, Drained
<1>18. ASSUME Single PROVE \A f \in Edges : Sorted(chan'[f])
  <2> SUFFICES ASSUME NEW f \in Edges, NEW a \in DOMAIN chan'[f], NEW b \in DOMAIN chan'[f],
                      a < b, chan'[f][b] # EOS
               PROVE  chan'[f][a] < chan'[f][b]
    BY DEF Sorted
  <2>1. chan'[f][a] # EOS
    <3>1. chan'[f] \in Seq(Messages) /\ EosAtEnd(chan'[f])
      BY <1>8
    <3>2. a # Len(chan'[f])
      BY <3>1
    <3> QED BY <3>1, <3>2 DEF EosAtEnd
  <2> QED BY <1>13, <1>18, <2>1 DEF NetInv, InLine, Sorted
<1>19. InLine'
  BY <1>1, <1>10, <1>11, <1>18 DEF NetInv, InLine, InOrderOfPlaces, Place
<1>20. NetInv'
  BY <1>14, <1>16, <1>17, <1>19 DEF NetInv
<1> QED BY <1>1, <1>10, <1>11, <1>12, <1>20

----------------------------------------------------------------------------
\* The program: what is on the heap, and what is in ./out.

\* Task j as it leaves layer l.
TaskAt(j, l) == [name |-> IF Stage[l] = <<>> THEN Path(j) ELSE BaseName[Path(j)],
                 done |-> Stage[l]]

ProgramType ==
    /\ cmd \in CommandLines
    /\ main \in {"parse", "running", "exit", "usage", "error", "aborted"}
    /\ i \in Nat /\ (i = 0 \/ i <= num_images)
    /\ DOMAIN tasks \subseteq 0..i - 1
    /\ skipped \subseteq 0..i - 1

Idle ==
    /\ layers = <<>> /\ chan = <<>> /\ hand = <<>> /\ ended = {}
    /\ i = 0 /\ tasks = <<>> /\ skipped = {} /\ writing = {} /\ out = <<>>

\* The heap has the tasks the network has, and what ffsobel2 leaks.
Heap ==
    /\ DOMAIN tasks \ skipped = In(chan) \union InHands
    /\ DOMAIN tasks \intersect skipped # {} => cmd[1] = "ffsobel2"
    /\ <<1, 1>> \in ended => i >= num_images

\* What has been done to a task depends on where it is.
Located ==
    /\ \A n \in Nodes : \A j \in hand[n] : tasks[j] = TaskAt(j, n[1])
    /\ \A e \in Edges : \A j \in Carried(e) : tasks[j] = TaskAt(j, e[1])

\* The images whose tasks have been written and deleted.
Gone == (0..i - 1) \ (skipped \union DOMAIN tasks)

\* Those were the first, where no task can overtake.
GoneFirst == Single => \A j \in Gone, k \in DOMAIN tasks \ skipped : j < k

WritersBusy == \A n \in writing : n \in Nodes /\ Writes(n) /\ hand[n] # {}

Live == Staged(layers) /\ NetInv /\ Heap /\ Located /\ GoneFirst /\ WritersBusy

\* The images whose files have been opened.
Written == Gone \union UNION {hand[n] : n \in writing}

NamedWritten(f) == {j \in Written : BaseName[Path(j)] = f}
SeveralWriters == Cardinality({n \in Nodes : Writes(n)}) > 1

\* A file holds results of images that were opened under its name: one, the
\* last image's where no image overtakes, or several only where several nodes
\* write.
Files ==
    /\ Written \subseteq Images \ skipped
    /\ DOMAIN out = {BaseName[Path(j)] : j \in Written}
    /\ \A f \in DOMAIN out :
          /\ out[f] # {} /\ out[f] \subseteq {Filtered(j) : j \in NamedWritten(f)}
          /\ Single => \A j \in NamedWritten(f), k \in Nat : Filtered(k) \in out[f] => j <= k
          /\ (\E x \in out[f] : out[f] = {x}) \/ SeveralWriters

Inv ==
    /\ ProgramType /\ Files
    /\ main \in {"parse", "usage", "error"} => Idle
    /\ main \in {"running", "exit"} => Live
    /\ main = "exit" => AllEnded

----------------------------------------------------------------------------

\* What depends on the command line only ...
LEMMA SameCommand ==
    ASSUME UNCHANGED cmd
    PROVE  /\ num_images' = num_images /\ Images' = Images /\ Stage' = Stage
           /\ \A j : Path(j)' = Path(j) /\ Filtered(j)' = Filtered(j)
           /\ \A j, l : TaskAt(j, l)' = TaskAt(j, l)
<1>1. argv' = argv /\ argc' = argc /\ Options' = Options
  BY DEF argc, argv, Options
<1>2. given' = given
  BY <1>1 DEF given
<1>3. num_images' = num_images /\ start' = start
  BY <1>1, <1>2 DEF num_images, start
<1>4. Images' = Images
  BY <1>3 DEF Images
<1>5. Filters' = Filters
  BY DEF Filters
<1>6. Stage' = Stage
  BY <1>5 DEF Stage
<1>7. \A j : Path(j)' = Path(j)
  BY <1>1, <1>3 DEF Path
<1>8. \A j : Filtered(j)' = Filtered(j)
  BY DEF Filtered
<1>9. \A j, l : TaskAt(j, l)' = TaskAt(j, l)
  BY <1>6, <1>7 DEF TaskAt
<1> QED BY <1>3, <1>4, <1>6, <1>7, <1>8, <1>9

\* ... and on the graph.
LEMMA SameGraph ==
    ASSUME UNCHANGED <<cmd, layers>>
    PROVE  /\ Staged(layers)' = Staged(layers) /\ Nodes' = Nodes /\ Single' = Single
           /\ SeveralWriters' = SeveralWriters
           /\ \A n : Writes(n)' = Writes(n) /\ IsSink(n)' = IsSink(n)
<1>1. Staged(layers)' = Staged(layers)
  BY SameCommand DEF Staged, Filters
<1>2. Nodes' = Nodes /\ Single' = Single
  BY DEF Nodes, Single
<1>3. \A n : Writes(n)' = Writes(n) /\ IsSink(n)' = IsSink(n)
  BY DEF Writes, IsSink
<1>4. SeveralWriters' = SeveralWriters
  BY <1>2, <1>3 DEF SeveralWriters
<1> QED BY <1>1, <1>2, <1>3, <1>4

\* What it takes for the files to be as they were.
LEMMA FilesKept ==
    ASSUME ProgramType, Files, UNCHANGED <<cmd, layers, out>>, Written' = Written,
           Written \intersect skipped' = {}
    PROVE  Files'
<1>1. /\ Images' = Images /\ Single' = Single /\ SeveralWriters' = SeveralWriters
      /\ \A j : Path(j)' = Path(j) /\ Filtered(j)' = Filtered(j)
  BY SameCommand, SameGraph
<1>2. \A f : NamedWritten(f)' = NamedWritten(f)
  BY <1>1 DEF NamedWritten
<1>3. (Written \subseteq Images \ skipped)'
  BY <1>1 DEF Files
<1>4. (DOMAIN out = {BaseName[Path(j)] : j \in Written})'
  BY <1>1 DEF Files
<1>5. ASSUME NEW f \in DOMAIN out
      PROVE  /\ out[f] # {} /\ out[f] \subseteq {Filtered(j)' : j \in NamedWritten(f)}
             /\ Single => \A j \in NamedWritten(f), k \in Nat : Filtered(k)' \in out[f] => j <= k
             /\ (\E x \in out[f] : out[f] = {x}) \/ SeveralWriters
  BY <1>1 DEF Files
<1> QED BY <1>1, <1>2, <1>3, <1>4, <1>5 DEF Files

\* An image is filtered when it is written, and only the last layer writes.
LEMMA WriterProperties ==
    ASSUME ProgramType, Live, NEW n \in Nodes, Writes(n)
    PROVE  /\ IsSink(n) /\ \A j \in hand[n] : /\ tasks[j].name = BaseName[Path(j)]
                                              /\ <<j, tasks[j].done>> = Filtered(j)
<1>1. n[1] = Len(layers) /\ n[1] \in 1..Len(layers)
  BY NodeProperties DEF Live, NetInv, NetType, Staged, Writes
<1>2. Stage[n[1]] = Filters
  BY <1>1 DEF Live, Staged
<1>3. Filters # <<>>
  <2>1. <<"read", "blur", "emboss">> # <<>> /\ <<"read", "sobel">> # <<>> /\ <<"read", "blank">> # <<>>
    BY Operations
  <2> QED BY <2>1 DEF Filters
<1>4. ASSUME NEW j \in hand[n]
      PROVE  tasks[j].name = BaseName[Path(j)] /\ <<j, tasks[j].done>> = Filtered(j)
  <2>1. tasks[j] = TaskAt(j, n[1])
    BY DEF Live, Located
  <2>2. tasks[j].name = BaseName[Path(j)] /\ tasks[j].done = Filters
    BY <1>2, <1>3, <2>1 DEF TaskAt
  <2> QED BY <2>2 DEF Filtered, Filters
<1> QED BY <1>1, <1>4 DEF IsSink

LEMMA FilteredInjective ==
    ASSUME NEW j, NEW k, Filtered(j) = Filtered(k)
    PROVE  j = k
BY DEF Filtered

\* What the invariant says of a running program, for the steps of its nodes.
Ready == ProgramType /\ Files /\ Live

\* A step of a node leads to a state of the running program, or to one in
\* which an exception has ended it.
LEMMA LiveStep ==
    ASSUME Inv, main = "running",
           \/ main' = "running" /\ ProgramType' /\ Files' /\ Live'
           \/ main' = "aborted" /\ ProgramType' /\ Files'
    PROVE  Inv'
BY DEF Inv

\* Tasks, and images skipped, are of the loop of Read so far.
LEMMA Bounds ==
    ASSUME ProgramType
    PROVE  /\ num_images \in Int /\ \A j \in 0..i - 1 : j \in Nat /\ j < i /\ j \in Images
           /\ DOMAIN tasks \subseteq 0..i - 1 /\ i \in Nat
<1>1. num_images \in Int
  BY CommandLineType DEF ProgramType
<1> QED BY <1>1 DEF ProgramType, Images

\* One lemma per step of a node.
LEMMA NextImageStep ==
    ASSUME Ready, main = "running", NEW node \in Nodes, NextImage(node)
    PROVE  main' = "running" /\ ProgramType' /\ Files' /\ Live'
<1>1. /\ i < num_images /\ CanWork(i, node) /\ Produce(node, i)
      /\ tasks' = [j \in DOMAIN tasks \union {i} |->
                      IF j = i THEN Worked([name |-> Path(i), done |-> <<>>], node) ELSE tasks[j]]
      /\ i' = i + 1
      /\ UNCHANGED <<cmd, main, skipped, writing, out>>
  BY DEF NextImage
<1>2. /\ ProgramType /\ Files /\ Staged(layers) /\ NetInv /\ Heap /\ Located /\ GoneFirst
      /\ WritersBusy
  BY DEF Ready, Live
<1>3. /\ num_images \in Int /\ \A j \in 0..i - 1 : j \in Nat /\ j < i /\ j \in Images
      /\ DOMAIN tasks \subseteq 0..i - 1 /\ i \in Nat /\ skipped \subseteq 0..i - 1
  BY <1>2, Bounds DEF ProgramType
<1>4. i \notin In(chan) \union InHands /\ \A k \in In(chan) \union InHands : k < i
  BY <1>2, <1>3 DEF Heap
<1>5. /\ NetInv' /\ UNCHANGED <<layers, chan, ended>> /\ Nodes' = Nodes /\ Edges' = Edges
      /\ node[1] = 1 /\ node \notin ended /\ hand[node] = {} /\ hand'[node] = {i}
      /\ \A n \in Nodes \ {node} : hand'[n] = hand[n]
      /\ In(chan') \union InHands' = In(chan) \union InHands \union {i}
  BY <1>1, <1>2, <1>3, <1>4, ProduceStep
<1>6. /\ num_images' = num_images /\ Stage' = Stage
      /\ \A j, l : TaskAt(j, l)' = TaskAt(j, l)
  BY <1>1, SameCommand
<1>7. /\ Staged(layers)' /\ Single' = Single /\ \A n : Writes(n)' = Writes(n)
  BY <1>1, <1>2, <1>5, SameGraph
<1>8. DOMAIN tasks' = DOMAIN tasks \union {i} /\ \A j \in DOMAIN tasks : tasks'[j] = tasks[j]
  BY <1>1, <1>3
<1>9. ProgramType'
  BY <1>1, <1>2, <1>3, <1>6, <1>8 DEF ProgramType
<1>10. Heap'
  <2>1. i \notin skipped
    BY <1>3
  <2>2. (DOMAIN tasks \ skipped = In(chan) \union InHands)'
    BY <1>1, <1>2, <1>5, <1>8, <2>1 DEF Heap
  <2>3. (DOMAIN tasks \intersect skipped # {} => cmd[1] = "ffsobel2")'
    BY <1>1, <1>2, <1>8, <2>1 DEF Heap
  <2>4. (<<1, 1>> \in ended => i >= num_images)'
    BY <1>1, <1>2, <1>3, <1>5, <1>6 DEF Heap
  <2> QED BY <2>2, <2>3, <2>4 DEF Heap
<1>11. tasks'[i] = TaskAt(i, 1)
  <2>1. tasks'[i] = [name |-> IF "read" \in ToSet(layers[1].ops) THEN BaseName[Path(i)] ELSE Path(i),
                     done |-> <<>> \o layers[1].ops]
    BY <1>1, <1>5 DEF Worked, ops
  <2>2. /\ layers[1].ops = Stage[1] /\ <<>> \o Stage[1] = Stage[1]
        /\ "read" \in ToSet(layers[1].ops) <=> Stage[1] # <<>>
    BY <1>2 DEF Staged
  <2> QED BY <2>1, <2>2 DEF TaskAt
<1>12. Located'
  <2>1. \A n \in Nodes : \A j \in hand'[n] : tasks'[j] = TaskAt(j, n[1])
    <3> SUFFICES ASSUME NEW n \in Nodes, NEW j \in hand'[n]
                 PROVE  tasks'[j] = TaskAt(j, n[1])
      OBVIOUS
    <3>1. CASE n = node
      BY <1>5, <1>11, <3>1
    <3>2. CASE n # node
      <4>1. j \in hand[n] /\ j \in DOMAIN tasks
        BY <1>2, <1>5, <3>2 DEF Heap, InHands
      <4> QED BY <1>2, <1>8, <4>1 DEF Located
    <3> QED BY <3>1, <3>2
  <2>2. \A e \in Edges : \A j \in Carried(e)' : tasks'[j] = TaskAt(j, e[1])
    <3> SUFFICES ASSUME NEW e \in Edges, NEW j \in Carried(e)
                 PROVE  tasks'[j] = TaskAt(j, e[1])
      BY <1>5 DEF Carried
    <3>1. j \in DOMAIN tasks
      BY <1>2 DEF Heap, Carried, In, Edges
    <3> QED BY <1>2, <1>8, <3>1 DEF Located
  <2> QED BY <1>5, <1>6, <2>1, <2>2 DEF Located
<1>13. Gone' = Gone
  BY <1>1, <1>3, <1>8 DEF Gone
<1>14. GoneFirst'
  <2>1. \A j \in Gone : j < i
    BY <1>3 DEF Gone
  <2> QED BY <1>1, <1>2, <1>7, <1>8, <1>13, <2>1 DEF GoneFirst
<1>15. WritersBusy'
  BY <1>1, <1>2, <1>5, <1>7 DEF WritersBusy
<1>16. Files'
  <2>1. \A n \in writing : hand'[n] = hand[n]
    BY <1>2, <1>5 DEF WritersBusy
  <2>2. Written' = Written
    BY <1>1, <1>13, <2>1 DEF Written
  <2>3. Written \intersect skipped' = {}
    BY <1>1, <1>2 DEF Files
  <2> QED BY <1>1, <1>2, <1>5, <2>2, <2>3, FilesKept
<1> QED BY <1>1, <1>5, <1>7, <1>9, <1>10, <1>12, <1>14, <1>15, <1>16 DEF Live

LEMMA FilterStep ==
    ASSUME Ready, main = "running", NEW node \in Nodes, Filter(node)
    PROVE  main' = "running" /\ ProgramType' /\ Files' /\ Live'
<1>1. PICK j \in DOMAIN tasks : /\ Receive(node, j)
                                /\ tasks' = [tasks EXCEPT ![j] = Worked(@, node)]
  BY DEF Filter
<1>2. UNCHANGED <<cmd, main, i, skipped, writing, out>>
  BY DEF Filter
<1>3. /\ ProgramType /\ Files /\ Staged(layers) /\ NetInv /\ Heap /\ Located /\ GoneFirst
      /\ WritersBusy
  BY DEF Ready, Live
<1>4. /\ NetInv' /\ UNCHANGED <<layers, ended>> /\ Nodes' = Nodes /\ node \notin ended
      /\ j \in Nat /\ hand[node] = {} /\ hand'[node] = {j}
      /\ \A n \in Nodes \ {node} : hand'[n] = hand[n]
      /\ In(chan) \union InHands = In(chan') \union InHands' /\ j \in In(chan)
      /\ \E e \in Edges : j \in Carried(e) /\ node[1] = e[1] + 1
      /\ Edges' = Edges /\ \A f \in Edges : Carried(f)' \subseteq Carried(f)
  BY <1>1, <1>3, ReceiveStep
<1>5. num_images' = num_images /\ \A k, l : TaskAt(k, l)' = TaskAt(k, l)
  BY <1>2, SameCommand
<1>6. /\ Staged(layers)' /\ Single' = Single /\ \A n : Writes(n)' = Writes(n)
  BY <1>2, <1>3, <1>4, SameGraph
<1>7. /\ DOMAIN tasks' = DOMAIN tasks /\ tasks'[j] = Worked(tasks[j], node)
      /\ \A k \in DOMAIN tasks \ {j} : tasks'[k] = tasks[k]
  BY <1>1
<1>8. ProgramType'
  BY <1>2, <1>3, <1>5, <1>7 DEF ProgramType
<1>9. Heap'
  BY <1>2, <1>3, <1>4, <1>5, <1>7 DEF Heap
<1>10. tasks'[j] = TaskAt(j, node[1])
  <2>1. PICK e \in Edges : j \in Carried(e) /\ node[1] = e[1] + 1
    BY <1>4
  <2> DEFINE l == e[1]
  <2>2. l \in 1..Len(layers) - 1 /\ Edges = EdgesOf(layers)
    BY <1>3, <2>1, EdgeProperties, ChannelProperties DEF NetInv, NetType, Edges
  <2>3. tasks[j] = TaskAt(j, l)
    BY <1>3, <2>1 DEF Located
  <2>4. node[1] = l + 1
    BY <2>1
  <2> HIDE DEF l
  <2>5. /\ Stage[l + 1] = Stage[l] \o layers[l + 1].ops /\ Stage[l + 1] # <<>>
        /\ "read" \in ToSet(layers[l + 1].ops) <=> Stage[l] = <<>>
    BY <1>3, <2>2 DEF Staged
  <2>6. tasks'[j] = [name |-> IF "read" \in ToSet(layers[l + 1].ops) THEN BaseName[tasks[j].name]
                              ELSE tasks[j].name,
                     done |-> tasks[j].done \o layers[l + 1].ops]
    BY <1>7, <2>4 DEF Worked, ops
  <2>7. tasks[j].done = Stage[l] /\ tasks[j].name = IF Stage[l] = <<>> THEN Path(j) ELSE BaseName[Path(j)]
    BY <2>3 DEF TaskAt
  <2>8. tasks'[j] = [name |-> BaseName[Path(j)], done |-> Stage[l + 1]]
    BY <2>5, <2>6, <2>7
  <2> QED BY <2>4, <2>5, <2>8 DEF TaskAt
<1>11. Located'
  <2>1. \A n \in Nodes : \A k \in hand'[n] : tasks'[k] = TaskAt(k, n[1])
    <3> SUFFICES ASSUME NEW n \in Nodes, NEW k \in hand'[n]
                 PROVE  tasks'[k] = TaskAt(k, n[1])
      OBVIOUS
    <3>1. CASE n = node
      BY <1>4, <1>10, <3>1
    <3>2. CASE n # node
      <4>1. k \in hand[n] /\ k \in InHands
        BY <1>4, <3>2 DEF InHands
      <4>2. k \in DOMAIN tasks /\ k # j
        BY <1>3, <1>4, <4>1 DEF Heap, NetInv, OneOwner
      <4> QED BY <1>3, <1>7, <4>1, <4>2 DEF Located
    <3> QED BY <3>1, <3>2
  <2>2. \A e \in Edges : \A k \in Carried(e)' : tasks'[k] = TaskAt(k, e[1])
    <3> SUFFICES ASSUME NEW e \in Edges, NEW k \in Carried(e)'
                 PROVE  tasks'[k] = TaskAt(k, e[1])
      OBVIOUS
    <3>1. k \in Carried(e)
      BY <1>4
    <3>2. k \in In(chan) /\ k \in In(chan')
      BY <1>4, <3>1 DEF Carried, In, Edges
    <3>3. j \in InHands'
      BY <1>4 DEF InHands
    <3>4. k # j
      BY <1>4, <3>2, <3>3 DEF NetInv, OneOwner
    <3>5. k \in DOMAIN tasks
      BY <1>3, <3>2 DEF Heap
    <3> QED BY <1>3, <1>7, <3>1, <3>4, <3>5 DEF Located
  <2> QED BY <1>4, <1>5, <2>1, <2>2 DEF Located
<1>12. Gone' = Gone
  BY <1>2, <1>7 DEF Gone
<1>13. GoneFirst'
  BY <1>2, <1>3, <1>6, <1>7, <1>12 DEF GoneFirst
<1>14. WritersBusy'
  BY <1>2, <1>3, <1>4, <1>6 DEF WritersBusy
<1>15. Files'
  <2>1. \A n \in writing : hand'[n] = hand[n]
    BY <1>3, <1>4 DEF WritersBusy
  <2>2. Written' = Written
    BY <1>2, <1>12, <2>1 DEF Written
  <2>3. Written \intersect skipped' = {}
    BY <1>2, <1>3 DEF Files
  <2> QED BY <1>2, <1>3, <1>4, <2>2, <2>3, FilesKept
<1> QED BY <1>2, <1>4, <1>6, <1>8, <1>9, <1>11, <1>13, <1>14, <1>15 DEF Live

LEMMA ReadThrowsStep ==
    ASSUME Ready, main = "running", NEW node \in Nodes, ReadThrows(node)
    PROVE  main' = "aborted" /\ ProgramType' /\ Files'
<1>1. main' = "aborted" /\ UNCHANGED <<cmd, i, tasks, skipped, writing, out>>
  BY DEF ReadThrows
<1>2. UNCHANGED layers /\ hand[node] = {} /\ \E j : hand' = [hand EXCEPT ![node] = {j}]
  BY DEF ReadThrows, Produce, Receive, Free
<1>3. \A n \in writing : hand'[n] = hand[n]
  BY <1>2 DEF Ready, Live, WritersBusy, NetInv, NetType
<1>4. num_images' = num_images
  BY <1>1, SameCommand
<1>5. ProgramType'
  BY <1>1, <1>4 DEF Ready, ProgramType
<1>6. Written' = Written
  <2>1. Gone' = Gone
    BY <1>1 DEF Gone
  <2> QED BY <1>1, <1>3, <2>1 DEF Written
<1>7. Written \intersect skipped' = {}
  BY <1>1 DEF Ready, Files
<1> QED BY <1>1, <1>2, <1>5, <1>6, <1>7, FilesKept DEF Ready

\* A step that leaves the network as it is leaves what is said of it.
LEMMA NetKept ==
    ASSUME NetInv, UNCHANGED netVars
    PROVE  /\ NetInv' /\ Nodes' = Nodes /\ Edges' = Edges /\ InHands' = InHands
           /\ \A e \in Edges : Carried(e)' = Carried(e)
<1>1. UNCHANGED <<layers, chan, hand, ended>>
  BY DEF netVars
<1>2. Nodes' = Nodes /\ Single' = Single
  BY <1>1 DEF Nodes, Single
<1>3. InHands' = InHands /\ Edges' = Edges /\ \A e \in Edges : Carried(e)' = Carried(e)
  BY <1>1, <1>2 DEF InHands, Edges, Carried
<1>4. EdgesOf(layers)' = EdgesOf(layers)
  BY <1>1 DEF EdgesOf
<1>5. NetType' /\ OneOwner'
  BY <1>1, <1>2, <1>3, <1>4 DEF NetInv, NetType, OneOwner, WellFormed
<1>6. Drained'
  BY <1>1, <1>3 DEF NetInv, Drained, From, To
<1>7. InLine'
  <2>1. \A j, p : Place(j, p)' = Place(j, p)
    BY <1>1, <1>2, <1>3 DEF Place
  <2>2. InOrderOfPlaces => InOrderOfPlaces'
    BY <2>1 DEF InOrderOfPlaces
  <2>3. (\A e \in Edges : Sorted(chan[e])) => (\A e \in Edges : Sorted(chan[e]))'
    BY <1>1, <1>3
  <2> QED BY <1>2, <2>2, <2>3 DEF NetInv, InLine
<1> QED BY <1>2, <1>3, <1>5, <1>6, <1>7 DEF NetInv

LEMMA SkipImageStep ==
    ASSUME Ready, main = "running", NEW node \in Nodes, SkipImage(node)
    PROVE  main' = "running" /\ ProgramType' /\ Files' /\ Live'
<1>1. cmd[1] \notin Magick /\ UNCHANGED <<cmd, main, tasks, writing, out>>
  BY DEF SkipImage
<1>2. /\ ProgramType /\ Files /\ Staged(layers) /\ NetInv /\ Heap /\ Located /\ GoneFirst
      /\ WritersBusy
  BY DEF Ready, Live
<1>3. /\ num_images \in Int /\ \A j \in 0..i - 1 : j \in Nat /\ j < i /\ j \in Images
      /\ DOMAIN tasks \subseteq 0..i - 1 /\ i \in Nat /\ skipped \subseteq 0..i - 1
  BY <1>2, Bounds DEF ProgramType
<1>4. num_images' = num_images /\ \A k, l : TaskAt(k, l)' = TaskAt(k, l)
  BY <1>1, SameCommand
<1>5. CASE i < num_images /\ i' = i + 1 /\ skipped' = skipped \union {i} /\ UNCHANGED netVars
  <2>1. UNCHANGED <<layers, chan, hand, ended>>
    BY <1>5 DEF netVars
  <2>2. Staged(layers)' /\ Nodes' = Nodes /\ Single' = Single /\ \A n : Writes(n)' = Writes(n)
    BY <1>1, <1>2, <2>1, SameGraph
  <2>3. /\ NetInv' /\ Edges' = Edges /\ InHands' = InHands
        /\ \A e \in Edges : Carried(e)' = Carried(e)
    BY <1>2, <1>5, NetKept
  <2>4. ProgramType'
    BY <1>1, <1>2, <1>3, <1>4, <1>5 DEF ProgramType
  <2>5. i \notin DOMAIN tasks
    BY <1>3
  <2>6. Heap'
    BY <1>1, <1>2, <1>3, <1>4, <1>5, <2>1, <2>3, <2>5 DEF Heap
  <2>7. Located'
    BY <1>1, <1>2, <1>4, <2>1, <2>2, <2>3 DEF Located
  <2>8. Gone' = Gone
    BY <1>1, <1>3, <1>5 DEF Gone
  <2>9. GoneFirst'
    BY <1>1, <1>2, <1>5, <2>2, <2>8 DEF GoneFirst
  <2>10. WritersBusy'
    BY <1>1, <1>2, <2>1, <2>2 DEF WritersBusy
  <2>11. Files'
    <3>1. Written' = Written
      BY <1>1, <2>1, <2>8 DEF Written
    <3>2. Written \subseteq 0..i - 1
      <4>1. \A n \in writing : hand[n] \subseteq DOMAIN tasks
        BY <1>2 DEF WritersBusy, Heap, InHands
      <4> QED BY <1>3, <4>1 DEF Written, Gone
    <3>3. Written \intersect skipped' = {}
      BY <1>2, <1>3, <1>5, <3>2 DEF Files
    <3> QED BY <1>1, <1>2, <2>1, <3>1, <3>3, FilesKept
  <2> QED BY <1>1, <2>2, <2>3, <2>4, <2>6, <2>7, <2>9, <2>10, <2>11 DEF Live
<1>6. CASE \E j \in DOMAIN tasks : /\ ~CanWork(j, node) /\ Discard(node, j)
                                   /\ skipped' = skipped \union {j} /\ UNCHANGED i
  <2>1. PICK j \in DOMAIN tasks : /\ ~CanWork(j, node) /\ Discard(node, j)
                                  /\ skipped' = skipped \union {j} /\ UNCHANGED i
    BY <1>6
  <2>2. /\ NetInv' /\ UNCHANGED <<layers, hand, ended>> /\ Nodes' = Nodes
        /\ In(chan) = In(chan') \union {j} /\ j \notin In(chan') /\ InHands' = InHands
        /\ \E e \in Edges : j \in Carried(e) /\ node[1] = e[1] + 1
        /\ Edges' = Edges /\ \A f \in Edges : Carried(f)' \subseteq Carried(f)
    BY <1>2, <2>1, DiscardStep
  <2>3. Staged(layers)' /\ Single' = Single /\ \A n : Writes(n)' = Writes(n)
    BY <1>1, <1>2, <2>2, SameGraph
  <2>4. ProgramType'
    BY <1>1, <1>2, <1>3, <1>4, <2>1 DEF ProgramType
  <2>5. cmd[1] = "ffsobel2"
    <3>1. PICK e \in Edges : node[1] = e[1] + 1
      BY <2>2
    <3>2. e[1] \in 1..Len(layers) - 1
      BY <1>2, <3>1, EdgeProperties, ChannelProperties DEF NetInv, NetType, Edges
    <3>3. "read" \in ToSet(layers[e[1] + 1].ops)
      BY <2>1, <3>1 DEF CanWork, ops
    <3>4. cmd[1] \in {"img_farm3", "ffsobel2"}
      BY <1>2, <3>2, <3>3 DEF Staged
    <3> QED BY <1>1, <3>4 DEF Magick
  <2>6. j \notin InHands
    BY <1>2, <2>2 DEF NetInv, OneOwner
  <2>7. Heap'
    BY <1>1, <1>2, <1>4, <2>1, <2>2, <2>5, <2>6 DEF Heap
  <2>8. Located'
    BY <1>1, <1>2, <1>4, <2>2 DEF Located
  <2>9. Gone' = Gone
    BY <1>1, <2>1 DEF Gone
  <2>10. GoneFirst'
    BY <1>1, <1>2, <2>1, <2>3, <2>9 DEF GoneFirst
  <2>11. WritersBusy'
    BY <1>1, <1>2, <2>2, <2>3 DEF WritersBusy
  <2>12. Files'
    <3>1. Written' = Written
      BY <1>1, <2>2, <2>9 DEF Written
    <3>2. j \notin Written
      <4>1. \A n \in writing : j \notin hand[n]
        BY <1>2, <2>6 DEF WritersBusy, InHands
      <4> QED BY <2>1, <4>1 DEF Written, Gone
    <3>3. Written \intersect skipped' = {}
      BY <1>2, <2>1, <3>2 DEF Files
    <3> QED BY <1>1, <1>2, <2>2, <3>1, <3>3, FilesKept
  <2> QED BY <1>1, <2>2, <2>3, <2>4, <2>7, <2>8, <2>10, <2>11, <2>12 DEF Live
<1> QED BY <1>5, <1>6 DEF SkipImage

LEMMA ForwardStep ==
    ASSUME Ready, main = "running", NEW node \in Nodes, Forward(node)
    PROVE  main' = "running" /\ ProgramType' /\ Files' /\ Live'
<1>1. PassOn(node) /\ UNCHANGED <<cmd, main, i, tasks, skipped, writing, out>>
  BY DEF Forward
<1>2. /\ ProgramType /\ Files /\ Staged(layers) /\ NetInv /\ Heap /\ Located /\ GoneFirst
      /\ WritersBusy
  BY DEF Ready, Live
<1>3. /\ NetInv' /\ UNCHANGED <<layers, ended>> /\ Nodes' = Nodes /\ Edges' = Edges
      /\ hand'[node] = {} /\ \A n \in Nodes \ {node} : hand'[n] = hand[n]
      /\ In(chan') \union InHands' = In(chan) \union InHands
      /\ \A f \in Edges : \A j \in Carried(f)' :
            j \in Carried(f) \/ (j \in hand[node] /\ f[1] = node[1])
  BY <1>1, <1>2, PassOnStep
<1>4. num_images' = num_images /\ \A k, l : TaskAt(k, l)' = TaskAt(k, l)
  BY <1>1, SameCommand
<1>5. Staged(layers)' /\ Single' = Single /\ \A n : Writes(n)' = Writes(n)
  BY <1>1, <1>2, <1>3, SameGraph
<1>6. ProgramType'
  BY <1>1, <1>2, <1>4 DEF ProgramType
<1>7. Heap'
  BY <1>1, <1>2, <1>3, <1>4 DEF Heap
<1>8. Located'
  <2>1. \A n \in Nodes : \A j \in hand'[n] : j \in hand[n]
    BY <1>3
  <2>2. \A n \in Nodes : \A j \in hand'[n] : tasks[j] = TaskAt(j, n[1])
    BY <1>2, <2>1 DEF Located
  <2>3. \A f \in Edges : \A j \in Carried(f)' : tasks[j] = TaskAt(j, f[1])
    BY <1>2, <1>3 DEF Located
  <2> QED BY <1>1, <1>3, <1>4, <2>2, <2>3 DEF Located
<1>9. Gone' = Gone
  BY <1>1 DEF Gone
<1>10. GoneFirst'
  BY <1>1, <1>2, <1>5, <1>9 DEF GoneFirst
<1>11. node \notin writing
  <2>1. ~IsSink(node)
    BY <1>1 DEF PassOn
  <2> QED BY <2>1, WriterProperties DEF Ready, Live, WritersBusy
<1>12. \A n \in writing : hand'[n] = hand[n]
  BY <1>2, <1>3, <1>11 DEF WritersBusy
<1>13. WritersBusy'
  BY <1>1, <1>2, <1>3, <1>5, <1>12 DEF WritersBusy
<1>14. Files'
  <2>1. Written' = Written
    BY <1>1, <1>9, <1>12 DEF Written
  <2>2. Written \intersect skipped' = {}
    BY <1>1, <1>2 DEF Files
  <2> QED BY <1>1, <1>2, <1>3, <2>1, <2>2, FilesKept
<1> QED BY <1>1, <1>3, <1>5, <1>6, <1>7, <1>8, <1>10, <1>13, <1>14 DEF Live

\* Writers are in the last layer: finitely many, and one where each layer has
\* one node.
LEMMA WritersFinite ==
    ASSUME Live
    PROVE  IsFiniteSet({n \in Nodes : Writes(n)})
<1> DEFINE L == Len(layers)
<1>1. WellFormed(layers) /\ L \in Nat \ {0} /\ layers[L].nodes \in Nat
  BY DEF Live, NetInv, NetType, WellFormed
<1>2. \A n \in Nodes : Writes(n) => n \in {L} \X (1..layers[L].nodes)
  BY <1>1, NodeProperties DEF Live, Staged, Writes
<1> HIDE DEF L
<1>3. \A k \in Nat : IsFiniteSet(1..k)
  BY FS_Interval
<1>4. IsFiniteSet({L} \X (1..layers[L].nodes))
  <2>1. IsFiniteSet({L}) /\ IsFiniteSet(1..layers[L].nodes)
    BY <1>1, <1>3, FS_Singleton
  <2> QED BY <2>1, FS_Product
<1>5. {n \in Nodes : Writes(n)} \subseteq {L} \X (1..layers[L].nodes)
  BY <1>2
<1> QED BY <1>4, <1>5, FS_Subset

LEMMA TwoElements ==
    ASSUME NEW S, IsFiniteSet(S), NEW a \in S, NEW b \in S, a # b
    PROVE  Cardinality(S) > 1
<1>1. IsFiniteSet({a}) /\ Cardinality({a}) = 1
  BY FS_Singleton
<1>2. {a} \subseteq S /\ {a} # S
  OBVIOUS
<1>3. Cardinality({a}) <= Cardinality(S) /\ Cardinality({a}) # Cardinality(S)
  BY <1>2, FS_Subset
<1> QED BY <1>1, <1>3, FS_CardinalityType

\* A file is created: its task was not in a file before, all its contents is
\* filtered, and there is more than one image in it only when another node
\* writes to it.
LEMMA Created ==
    ASSUME Ready, NEW node \in Nodes, Writes(node), node \notin writing, NEW j \in hand[node],
           UNCHANGED <<cmd, i, tasks, skipped, netVars>>,
           writing' = writing \union {node},
           LET others == UNION {hand[n] : n \in writing}
               mixed == {k \in others : tasks[k].name = tasks[j].name}
               content == {<<k, tasks[k].done>> : k \in mixed \union {j}}
           IN out' = [f \in DOMAIN out \union {tasks[j].name} |->
                         IF f = tasks[j].name THEN content ELSE out[f]]
    PROVE  Files'
<1> DEFINE others == UNION {hand[n] : n \in writing}
           name == BaseName[Path(j)]
           mixed == {k \in others : BaseName[Path(k)] = name}
           content == {Filtered(k) : k \in mixed \union {j}}
<1>1. /\ ProgramType /\ Files /\ Staged(layers) /\ NetInv /\ Heap /\ GoneFirst /\ WritersBusy /\ Live
  BY DEF Ready, Live
<1>2. /\ IsSink(node) /\ hand[node] = {j} /\ j \in Nat
      /\ tasks[j].name = name /\ <<j, tasks[j].done>> = Filtered(j)
  BY <1>1, WriterProperties DEF NetInv, NetType, OneOwner
<1>3. \A n \in writing : \A k \in hand[n] : /\ tasks[k].name = BaseName[Path(k)]
                                            /\ <<k, tasks[k].done>> = Filtered(k)
  BY <1>1, WriterProperties DEF WritersBusy
<1>4. \A k \in others : tasks[k].name = BaseName[Path(k)] /\ <<k, tasks[k].done>> = Filtered(k)
  BY <1>3
<1>5. /\ {k \in others : tasks[k].name = tasks[j].name} = mixed
      /\ {<<k, tasks[k].done>> : k \in mixed \union {j}} = content
  BY <1>2, <1>4
<1>6. out' = [f \in DOMAIN out \union {name} |-> IF f = name THEN content ELSE out[f]]
  BY <1>2, <1>5
<1>7. DOMAIN out' = DOMAIN out \union {name} /\ out'[name] = content
      /\ \A f \in DOMAIN out \ {name} : out'[f] = out[f]
  BY <1>6
<1>8. Written' = Written \union {j}
  <2>1. Gone' = Gone
    BY DEF Gone
  <2>2. hand' = hand
    BY DEF netVars
  <2> QED BY <1>2, <2>1, <2>2 DEF Written
<1>9. j \in DOMAIN tasks \ skipped /\ j \in Images
  <2>1. j \in DOMAIN tasks \ skipped
    BY <1>1, <1>2 DEF Heap, InHands
  <2> QED BY <1>1, <2>1, Bounds
<1>10. others \subseteq Written
  BY DEF Written
<1>11. /\ Images' = Images /\ \A k : Path(k)' = Path(k) /\ Filtered(k)' = Filtered(k)
  BY SameCommand
<1>12. Single' = Single /\ SeveralWriters' = SeveralWriters
  BY SameGraph DEF netVars
<1> HIDE DEF others, name, content
<1>13. \A f : NamedWritten(f)' = IF f = name THEN NamedWritten(f) \union {j} ELSE NamedWritten(f)
  BY <1>8, <1>11 DEF NamedWritten, name
<1>14. (Written \subseteq Images \ skipped)'
  BY <1>1, <1>8, <1>9, <1>11 DEF Files
<1>15. (DOMAIN out = {BaseName[Path(k)] : k \in Written})'
  BY <1>1, <1>7, <1>8, <1>11 DEF Files, name
<1>16. content # {} /\ content \subseteq {Filtered(k) : k \in NamedWritten(name) \union {j}}
  BY <1>10 DEF content, NamedWritten
<1>17. ASSUME Single
       PROVE  /\ mixed = {} /\ content = {Filtered(j)}
              /\ \A k \in NamedWritten(name) \union {j} : k <= j
  <2>1. WellFormed(layers)
    BY <1>1 DEF NetInv, NetType
  <2>2. \A n \in writing : n = node
    <3>1. \A n \in writing : n \in Nodes /\ IsSink(n)
      BY <1>1, WriterProperties DEF WritersBusy
    <3>2. \A n \in Nodes : n = <<n[1], 1>>
      BY <1>17, <2>1, NodeProperties
    <3> QED BY <1>2, <3>1, <3>2 DEF IsSink
  <2>3. others = {} /\ Written = Gone
    BY <2>2 DEF others, Written
  <2>4. \A k \in Gone : k < j
    BY <1>1, <1>9, <1>17 DEF GoneFirst
  <2>5. \A k \in Gone : k \in Nat
    BY <1>1 DEF Gone, ProgramType
  <2> QED BY <1>2, <2>3, <2>4, <2>5 DEF content, NamedWritten
<1>18. (\E x \in content : content = {x}) \/ SeveralWriters
  <2>1. CASE mixed = {}
    BY <2>1 DEF content
  <2>2. CASE mixed # {}
    <3>1. PICK n \in writing : TRUE
      BY <2>2 DEF others
    <3>2. n \in Nodes /\ Writes(n) /\ n # node
      BY <1>1, <3>1 DEF WritersBusy
    <3>3. n \in {m \in Nodes : Writes(m)} /\ node \in {m \in Nodes : Writes(m)}
      BY <3>2
    <3> QED BY <1>1, <3>2, <3>3, WritersFinite, TwoElements DEF SeveralWriters
  <2> QED BY <2>1, <2>2
<1>19. ASSUME NEW f \in DOMAIN out'
       PROVE  /\ out'[f] # {} /\ out'[f] \subseteq {Filtered(k) : k \in NamedWritten(f)'}
              /\ Single => \A l \in NamedWritten(f)', k \in Nat : Filtered(k) \in out'[f] => l <= k
              /\ (\E x \in out'[f] : out'[f] = {x}) \/ SeveralWriters
  <2>1. CASE f = name
    <3>1. NamedWritten(f)' = NamedWritten(name) \union {j} /\ out'[f] = content
      BY <1>7, <1>13, <2>1
    <3>2. Single => \A l \in NamedWritten(f)', k \in Nat : Filtered(k) \in content => l <= k
      <4> SUFFICES ASSUME Single, NEW l \in NamedWritten(f)', NEW k \in Nat, Filtered(k) \in content
                   PROVE  l <= k
        OBVIOUS
      <4>1. k = j
        BY <1>17, FilteredInjective
      <4> QED BY <1>17, <3>1, <4>1
    <3> QED BY <1>16, <1>18, <3>1, <3>2
  <2>2. CASE f # name
    <3>1. NamedWritten(f)' = NamedWritten(f) /\ out'[f] = out[f] /\ f \in DOMAIN out
      BY <1>7, <1>13, <2>2
    <3> QED BY <1>1, <3>1 DEF Files
  <2> QED BY <2>1, <2>2
<1>20. ASSUME NEW f \in DOMAIN out'
       PROVE  /\ out'[f] # {} /\ out'[f] \subseteq {Filtered(k)' : k \in NamedWritten(f)'}
              /\ Single' => \A l \in NamedWritten(f)', k \in Nat : Filtered(k)' \in out'[f] => l <= k
              /\ (\E x \in out'[f] : out'[f] = {x}) \/ SeveralWriters'
  <2>1. {Filtered(k)' : k \in NamedWritten(f)'} = {Filtered(k) : k \in NamedWritten(f)'}
    BY <1>11
  <2>2. \A k : Filtered(k)' = Filtered(k)
    BY <1>11
  <2> QED BY <1>12, <1>19, <2>1, <2>2
<1> QED BY <1>14, <1>15, <1>20 DEF Files

LEMMA CreateFileStep ==
    ASSUME Ready, main = "running", NEW node \in Nodes, CreateFile(node)
    PROVE  \/ main' = "running" /\ ProgramType' /\ Files' /\ Live'
           \/ main' = "aborted" /\ ProgramType' /\ Files'
<1> DEFINE Content(j) ==
              LET others == UNION {hand[n] : n \in writing}
                  mixed == {k \in others : tasks[k].name = tasks[j].name}
              IN {<<k, tasks[k].done>> : k \in mixed \union {j}}
           Opened(j) ==
              out' = [f \in DOMAIN out \union {tasks[j].name} |->
                         IF f = tasks[j].name THEN Content(j) ELSE out[f]]
<1>1. /\ Writes(node) /\ node \notin writing
      /\ UNCHANGED <<cmd, i, tasks, skipped, netVars>>
  BY DEF CreateFile
<1>2. PICK j \in hand[node] :
          \/ Opened(j) /\ writing' = writing \union {node} /\ UNCHANGED main
          \/ main' = "aborted" /\ UNCHANGED <<out, writing>>
  BY Zenon DEF CreateFile
<1>3. /\ ProgramType /\ Files /\ Staged(layers) /\ NetInv /\ Heap /\ Located /\ GoneFirst
      /\ WritersBusy
  BY DEF Ready, Live
<1>4. num_images' = num_images /\ \A k, l : TaskAt(k, l)' = TaskAt(k, l)
  BY <1>1, SameCommand
<1>5. ASSUME main' \in {"running", "aborted"} PROVE ProgramType'
  BY <1>1, <1>3, <1>4, <1>5 DEF ProgramType
<1>6. CASE Opened(j) /\ writing' = writing \union {node} /\ UNCHANGED main
  <2>1. Files'
    BY <1>1, <1>6, Created
  <2>2. /\ NetInv' /\ Nodes' = Nodes /\ Edges' = Edges /\ InHands' = InHands
        /\ \A e \in Edges : Carried(e)' = Carried(e)
    BY <1>1, <1>3, NetKept
  <2>3. UNCHANGED <<layers, chan, hand, ended>>
    BY <1>1 DEF netVars
  <2>4. Staged(layers)' /\ Single' = Single /\ \A n : Writes(n)' = Writes(n)
    BY <1>1, <1>3, <2>3, SameGraph
  <2>5. Heap'
    BY <1>1, <1>3, <1>4, <2>2, <2>3 DEF Heap
  <2>6. Located'
    BY <1>1, <1>3, <1>4, <2>2, <2>3 DEF Located
  <2>7. GoneFirst'
    BY <1>1, <1>3, <2>4 DEF GoneFirst, Gone
  <2>8. WritersBusy'
    BY <1>1, <1>2, <1>3, <1>6, <2>2, <2>3, <2>4 DEF WritersBusy
  <2> QED BY <1>5, <1>6, <2>1, <2>2, <2>4, <2>5, <2>6, <2>7, <2>8 DEF Live
<1>7. CASE main' = "aborted" /\ UNCHANGED <<out, writing>>
  <2>1. Written' = Written
    BY <1>1, <1>7 DEF Written, Gone, netVars
  <2>2. Written \intersect skipped' = {}
    BY <1>1, <1>3 DEF Files
  <2>3. Files'
    BY <1>1, <1>3, <1>7, <2>1, <2>2, FilesKept DEF netVars
  <2> QED BY <1>5, <1>7, <2>3
<1> HIDE DEF Opened
<1> QED BY <1>2, <1>6, <1>7

LEMMA CompleteFileStep ==
    ASSUME Ready, main = "running", NEW node \in Nodes, CompleteFile(node)
    PROVE  \/ main' = "running" /\ ProgramType' /\ Files' /\ Live'
           \/ main' = "aborted" /\ ProgramType' /\ Files'
<1>1. node \in writing /\ UNCHANGED <<cmd, i, skipped, out>>
  BY DEF CompleteFile
<1>2. /\ ProgramType /\ Files /\ Staged(layers) /\ NetInv /\ Heap /\ Located /\ GoneFirst
      /\ WritersBusy /\ Live
  BY DEF Ready, Live
<1>3. num_images' = num_images /\ \A k, l : TaskAt(k, l)' = TaskAt(k, l)
  BY <1>1, SameCommand
<1>4. CASE /\ tasks' = [j \in DOMAIN tasks \ hand[node] |-> tasks[j]]
           /\ writing' = writing \ {node} /\ Finish(node) /\ UNCHANGED main
  <2>1. /\ NetInv' /\ UNCHANGED <<layers, chan, ended>> /\ Nodes' = Nodes /\ Edges' = Edges
        /\ hand'[node] = {} /\ \A n \in Nodes \ {node} : hand'[n] = hand[n]
        /\ InHands = InHands' \union hand[node] /\ InHands' \intersect hand[node] = {}
    BY <1>2, <1>4, FinishStep
  <2>2. Staged(layers)' /\ Single' = Single /\ \A n : Writes(n)' = Writes(n)
    BY <1>1, <1>2, <2>1, SameGraph
  <2>3. PICK j \in hand[node] : hand[node] = {j}
    BY <1>1, <1>2 DEF WritersBusy, NetInv, OneOwner
  <2>4. /\ j \in Nat /\ j \in InHands /\ j \notin In(chan)
        /\ j \in DOMAIN tasks /\ j \notin skipped /\ j \in 0..i - 1
    <3>1. j \in Nat /\ j \in InHands
      BY <1>2, <2>3 DEF NetInv, NetType, InHands
    <3>2. j \in DOMAIN tasks /\ j \notin skipped
      BY <1>2, <3>1 DEF Heap
    <3> QED BY <1>2, <3>1, <3>2 DEF NetInv, OneOwner, ProgramType
  <2>5. DOMAIN tasks' = DOMAIN tasks \ {j} /\ \A k \in DOMAIN tasks \ {j} : tasks'[k] = tasks[k]
    BY <1>4, <2>3
  <2>6. ProgramType'
    BY <1>1, <1>2, <1>3, <1>4, <2>5 DEF ProgramType
  <2>7. Heap'
    BY <1>1, <1>2, <1>3, <2>1, <2>3, <2>4, <2>5 DEF Heap
  <2>8. Located'
    <3>1. \A n \in Nodes : \A k \in hand'[n] : tasks'[k] = TaskAt(k, n[1])
      <4> SUFFICES ASSUME NEW n \in Nodes, NEW k \in hand'[n]
                   PROVE  tasks'[k] = TaskAt(k, n[1])
        OBVIOUS
      <4>1. k \in hand[n] /\ n # node
        BY <2>1
      <4>2. k # j
        BY <1>2, <2>3, <4>1 DEF NetInv, OneOwner
      <4>3. k \in DOMAIN tasks
        BY <1>2, <4>1 DEF Heap, InHands
      <4> QED BY <1>2, <2>5, <4>1, <4>2, <4>3 DEF Located
    <3>2. \A e \in Edges : \A k \in Carried(e) : tasks'[k] = TaskAt(k, e[1])
      <4> SUFFICES ASSUME NEW e \in Edges, NEW k \in Carried(e)
                   PROVE  tasks'[k] = TaskAt(k, e[1])
        OBVIOUS
      <4>1. k \in In(chan)
        BY DEF Carried, In, Edges
      <4> QED BY <1>2, <2>4, <2>5, <4>1 DEF Located, Heap
    <3>3. \A e \in Edges : Carried(e)' = Carried(e)
      BY <2>1 DEF Carried
    <3> QED BY <1>3, <2>1, <3>1, <3>2, <3>3 DEF Located
  <2>9. Gone' = Gone \union {j}
    BY <1>1, <2>4, <2>5 DEF Gone
  <2>10. ASSUME Single, NEW k \in DOMAIN tasks \ skipped, k # j
         PROVE  j < k
    <3> DEFINE p == 2 * node[1]
    <3>1. InOrderOfPlaces
      BY <1>2, <2>10 DEF NetInv, InLine
    <3>2. Place(j, p) /\ p \in Nat
      BY <1>2, <2>3, PlaceTypes DEF Place, NetInv
    <3>3. k \in Nat
      BY <1>2, Bounds
    <3>4. node[1] = Len(layers) /\ WellFormed(layers)
      BY <1>1, <1>2, WriterProperties DEF WritersBusy, IsSink, NetInv, NetType
    <3>5. CASE k \in In(chan)
      <4>1. PICK e \in Edges : k \in Carried(e)
        BY <3>5 DEF Carried, In, Edges
      <4>2. e[1] \in 1..Len(layers) - 1
        BY <1>2, <3>4, EdgeProperties, ChannelProperties DEF NetInv, NetType, Edges
      <4>3. 2 * e[1] + 1 \in Nat /\ 2 * e[1] + 1 < p
        BY <3>4, <4>2 DEF WellFormed
      <4>4. Place(k, 2 * e[1] + 1)
        BY <4>1 DEF Place
      <4> QED BY <2>4, <3>1, <3>2, <3>3, <4>3, <4>4 DEF InOrderOfPlaces
    <3>6. CASE k \in InHands
      <4>1. PICK n \in Nodes : k \in hand[n]
        BY <3>6 DEF InHands
      <4>2. n # node
        BY <2>3, <2>10, <4>1
      <4>3. n[1] \in 1..Len(layers) /\ n = <<n[1], 1>> /\ node = <<node[1], 1>>
        BY <2>10, <3>4, NodeProperties
      <4>4. 2 * n[1] \in Nat /\ 2 * n[1] < p
        BY <3>4, <4>2, <4>3 DEF WellFormed
      <4>5. Place(k, 2 * n[1])
        BY <4>1 DEF Place
      <4> QED BY <2>4, <3>1, <3>2, <3>3, <4>4, <4>5 DEF InOrderOfPlaces
    <3> QED BY <1>2, <2>10, <3>5, <3>6 DEF Heap
  <2>11. GoneFirst'
    BY <1>1, <1>2, <2>2, <2>5, <2>9, <2>10 DEF GoneFirst
  <2>12. WritersBusy'
    BY <1>2, <1>4, <2>1, <2>2 DEF WritersBusy
  <2>13. Files'
    <3>1. Written' = Written
      <4>1. (UNION {hand'[n] : n \in writing'}) \union {j} = UNION {hand[n] : n \in writing}
        <5>1. \A n \in writing \ {node} : hand'[n] = hand[n]
          BY <1>2, <2>1 DEF WritersBusy
        <5> QED BY <1>1, <1>4, <2>3, <5>1
      <4> QED BY <2>9, <4>1 DEF Written
    <3>2. Written \intersect skipped' = {}
      BY <1>1, <1>2 DEF Files
    <3> QED BY <1>1, <1>2, <2>1, <3>1, <3>2, FilesKept
  <2> QED BY <1>4, <2>1, <2>2, <2>6, <2>7, <2>8, <2>11, <2>12, <2>13 DEF Live
<1>5. CASE main' = "aborted" /\ UNCHANGED <<tasks, writing, netVars>>
  <2>1. Written' = Written
    BY <1>1, <1>5 DEF Written, Gone, netVars
  <2>2. Written \intersect skipped' = {}
    BY <1>1, <1>2 DEF Files
  <2>3. Files'
    BY <1>1, <1>2, <1>5, <2>1, <2>2, FilesKept DEF netVars
  <2>4. ProgramType'
    BY <1>1, <1>2, <1>3, <1>5 DEF ProgramType
  <2> QED BY <1>5, <2>3, <2>4
<1> QED BY <1>4, <1>5 DEF CompleteFile

LEMMA EndOfStreamStep ==
    ASSUME Ready, main = "running", NEW node \in Nodes, EndOfStream(node)
    PROVE  main' = "running" /\ ProgramType' /\ Files' /\ Live'
<1>1. /\ IsSource(node) => i >= num_images
      /\ EndNode(node) /\ UNCHANGED <<cmd, main, i, tasks, skipped, writing, out>>
  BY DEF EndOfStream
<1>2. /\ ProgramType /\ Files /\ Staged(layers) /\ NetInv /\ Heap /\ Located /\ GoneFirst
      /\ WritersBusy
  BY DEF Ready, Live
<1>3. /\ NetInv' /\ UNCHANGED <<layers, hand>> /\ Nodes' = Nodes /\ Edges' = Edges
      /\ ended' = ended \union {node}
      /\ In(chan') = In(chan) /\ InHands' = InHands
      /\ \A f \in Edges : Carried(f)' = Carried(f)
  BY <1>1, <1>2, EndNodeStep
<1>4. num_images' = num_images /\ \A k, l : TaskAt(k, l)' = TaskAt(k, l)
  BY <1>1, SameCommand
<1>5. Staged(layers)' /\ Single' = Single /\ \A n : Writes(n)' = Writes(n)
  BY <1>1, <1>2, <1>3, SameGraph
<1>6. ProgramType'
  BY <1>1, <1>2, <1>4 DEF ProgramType
<1>7. Heap'
  BY <1>1, <1>2, <1>3, <1>4 DEF Heap, IsSource
<1>8. Located'
  BY <1>1, <1>2, <1>3, <1>4 DEF Located
<1>9. GoneFirst'
  BY <1>1, <1>2, <1>5 DEF GoneFirst, Gone
<1>10. WritersBusy'
  BY <1>1, <1>2, <1>3, <1>5 DEF WritersBusy
<1>11. Files'
  <2>1. Written' = Written
    BY <1>1, <1>3 DEF Written, Gone
  <2>2. Written \intersect skipped' = {}
    BY <1>1, <1>2 DEF Files
  <2> QED BY <1>1, <1>2, <1>3, <2>1, <2>2, FilesKept
<1> QED BY <1>1, <1>3, <1>5, <1>6, <1>7, <1>8, <1>9, <1>10, <1>11 DEF Live

\* run_and_wait_end() on a good graph.
LEMMA LaunchStep ==
    ASSUME NEW L, WellFormed(L), Launch(L), ended = {}
    PROVE  NetInv' /\ layers' = L /\ ended' = {} /\ In(chan') = {} /\ InHands' = {}
           /\ (\A n \in Nodes' : hand'[n] = {}) /\ (\A e \in Edges' : Carried(e)' = {})
<1>1. /\ layers' = L /\ ended' = {}
      /\ chan' = [e \in EdgesOf(L) |-> <<>>]
      /\ hand' = [n \in UNION {{l} \X (1..L[l].nodes) : l \in DOMAIN L} |-> {}]
  BY DEF Launch
<1>2. Nodes' = UNION {{l} \X (1..L[l].nodes) : l \in DOMAIN L}
  BY <1>1 DEF Nodes
<1>3. hand' = [n \in Nodes' |-> {}] /\ \A n \in Nodes' : hand'[n] = {}
  BY <1>1, <1>2
<1>4. EdgesOf(layers)' = EdgesOf(L) /\ Edges' = EdgesOf(L)
  BY <1>1 DEF EdgesOf, Edges
<1>5. \A e \in Edges' : chan'[e] = <<>> /\ ToSet(chan'[e]) = {}
  BY <1>1, <1>4, ToSetOfEmpty
<1>6. (\A e \in Edges : Carried(e) = {})'
  BY <1>5 DEF Carried
<1>7. In(chan') = {} /\ InHands' = {}
  BY <1>3, <1>5 DEF In, InHands, Edges
<1>8. NetType'
  <2>1. chan' \in ChannelsOf(EdgesOf(L), Messages)
    <3>1. <<>> \in Seq(Messages)
      OBVIOUS
    <3> QED BY <1>1, <3>1 DEF ChannelsOf
  <2>2. hand' \in [Nodes' -> SUBSET Nat]
    BY <1>3
  <2>3. WellFormed(layers)'
    BY <1>1 DEF WellFormed
  <2> QED BY <1>1, <1>4, <2>1, <2>2, <2>3 DEF NetType
<1>9. OneOwner'
  <2>1. NoCopies(chan')
    BY <1>1 DEF NoCopies
  <2> QED BY <1>3, <1>7, <2>1 DEF OneOwner
<1>10. Drained'
  BY <1>1, <1>5, EosAtEndOfEmpty DEF Drained
<1>11. InLine'
  <2>1. \A j, p : ~Place(j, p)'
    BY <1>3, <1>6 DEF Place
  <2>2. \A e \in Edges' : Sorted(chan'[e])
    BY <1>5 DEF Sorted
  <2> QED BY <2>1, <2>2 DEF InLine, InOrderOfPlaces
<1> QED BY <1>1, <1>3, <1>6, <1>7, <1>8, <1>9, <1>10, <1>11 DEF NetInv

LEMMA MainStarts ==
    ASSUME Inv, Main
    PROVE  Inv'
<1>1. main = "parse" /\ UNCHANGED <<cmd, i, tasks, skipped, writing, out>>
  BY DEF Main
<1>2. ProgramType /\ Files /\ Idle
  BY <1>1 DEF Inv
<1>3. num_images' = num_images /\ Images' = Images
      /\ \A j : Path(j)' = Path(j)
  BY <1>1, SameCommand
<1>4. ASSUME main' \in {"usage", "error", "aborted", "running"} PROVE ProgramType'
  BY <1>1, <1>2, <1>3, <1>4 DEF ProgramType
<1>5. Written = {} /\ Gone' = {} /\ Written' = {}
  BY <1>1, <1>2 DEF Written, Gone, Idle
<1>6. Files'
  <2>1. DOMAIN out' = {}
    BY <1>1, <1>2 DEF Idle
  <2> QED BY <1>5, <2>1 DEF Files
<1>7. CASE UNCHANGED netVars /\ main' \in {"usage", "error", "aborted"}
  <2>1. Idle'
    BY <1>1, <1>2, <1>7 DEF Idle, netVars
  <2> QED BY <1>4, <1>6, <1>7, <2>1 DEF Inv
<1>8. CASE (\A l \in DOMAIN graph : graph[l].nodes >= 1) /\ main' = "running" /\ Launch(graph)
  <2>1. WellFormed(graph) /\ Staged(graph)
    BY <1>2, <1>8, GraphProperties DEF ProgramType
  <2>2. NetInv' /\ layers' = graph /\ ended' = {} /\ In(chan') = {} /\ InHands' = {}
        /\ (\A n \in Nodes' : hand'[n] = {}) /\ (\A e \in Edges' : Carried(e)' = {})
    BY <1>2, <1>8, <2>1, LaunchStep DEF Idle
  <2>3. Staged(layers)'
    BY <1>1, <2>1, <2>2, SameCommand DEF Staged, Filters
  <2>4. Heap'
    BY <1>1, <1>2, <2>2 DEF Heap, Idle
  <2>5. Located'
    BY <2>2 DEF Located
  <2>6. GoneFirst'
    BY <1>5 DEF GoneFirst
  <2>7. WritersBusy'
    BY <1>1, <1>2 DEF WritersBusy, Idle
  <2>8. Live'
    BY <2>2, <2>3, <2>4, <2>5, <2>6, <2>7 DEF Live
  <2> QED BY <1>4, <1>6, <1>8, <2>8 DEF Inv
<1> QED BY <1>7, <1>8 DEF Main

LEMMA InitInv == Init => Inv
<1> SUFFICES ASSUME Init PROVE Inv
  OBVIOUS
<1>1. /\ cmd \in CommandLines /\ main = "parse" /\ Idle
  BY DEF Init, NetInit, Idle
<1>2. ProgramType
  BY <1>1 DEF ProgramType, Idle
<1>3. Written = {}
  BY <1>1 DEF Written, Gone, Idle
<1>4. Files
  BY <1>1, <1>3 DEF Files, Idle
<1> QED BY <1>1, <1>2, <1>4 DEF Inv

\* Nothing changes but the place of the main program.
LEMMA OnlyMain ==
    ASSUME Inv, UNCHANGED <<cmd, i, tasks, skipped, writing, out, netVars>>,
           \/ main' = main
           \/ main = "running" /\ main' = "exit" /\ AllEnded
    PROVE  Inv'
<1>1. UNCHANGED <<layers, chan, hand, ended>>
  BY DEF netVars
<1>2. num_images' = num_images /\ \A k, l : TaskAt(k, l)' = TaskAt(k, l)
  BY SameCommand
<1>3. ProgramType'
  BY <1>2 DEF Inv, ProgramType
<1>4. Files'
  <2>1. Written' = Written
    BY <1>1 DEF Written, Gone
  <2>2. Written \intersect skipped' = {}
    BY DEF Inv, Files
  <2> QED BY <1>1, <2>1, <2>2, FilesKept DEF Inv
<1>5. Idle => Idle'
  BY <1>1 DEF Idle
<1>6. Live => Live'
  <2> SUFFICES ASSUME Live PROVE Live'
    OBVIOUS
  <2>1. /\ NetInv' /\ Nodes' = Nodes /\ Edges' = Edges /\ InHands' = InHands
        /\ \A e \in Edges : Carried(e)' = Carried(e)
    BY NetKept DEF Live
  <2>2. Staged(layers)' /\ Single' = Single /\ \A n : Writes(n)' = Writes(n)
    BY <1>1, SameGraph DEF Live
  <2>3. Heap'
    BY <1>1, <1>2, <2>1 DEF Live, Heap
  <2>4. Located'
    BY <1>1, <1>2, <2>1 DEF Live, Located
  <2>5. GoneFirst'
    BY <2>2 DEF Live, GoneFirst, Gone
  <2>6. WritersBusy'
    BY <1>1, <2>1, <2>2 DEF Live, WritersBusy
  <2> QED BY <2>1, <2>2, <2>3, <2>4, <2>5, <2>6 DEF Live
<1>7. AllEnded => AllEnded'
  BY <1>1 DEF AllEnded, Nodes
<1> QED BY <1>3, <1>4, <1>5, <1>6, <1>7 DEF Inv

LEMMA NodeStepInv ==
    ASSUME Inv, NEW node \in Nodes, NodeStep(node)
    PROVE  Inv'
<1>1. main = "running" /\ Ready
  BY DEF NodeStep, Inv, Ready
<1>2. CASE NextImage(node)
  BY <1>1, <1>2, NextImageStep, LiveStep
<1>3. CASE Filter(node)
  BY <1>1, <1>3, FilterStep, LiveStep
<1>4. CASE ReadThrows(node)
  BY <1>1, <1>4, ReadThrowsStep, LiveStep
<1>5. CASE SkipImage(node)
  BY <1>1, <1>5, SkipImageStep, LiveStep
<1>6. CASE Forward(node)
  BY <1>1, <1>6, ForwardStep, LiveStep
<1>7. CASE CreateFile(node)
  BY <1>1, <1>7, CreateFileStep, LiveStep
<1>8. CASE CompleteFile(node)
  BY <1>1, <1>8, CompleteFileStep, LiveStep
<1>9. CASE EndOfStream(node)
  BY <1>1, <1>9, EndOfStreamStep, LiveStep
<1> QED BY <1>2, <1>3, <1>4, <1>5, <1>6, <1>7, <1>8, <1>9 DEF NodeStep

\* Inv is inductive and so holds in every state.
THEOREM Invariance == Spec => []Inv
<1>1. Inv /\ [Next]_vars => Inv'
  <2> SUFFICES ASSUME Inv, [Next]_vars PROVE Inv'
    OBVIOUS
  <2>1. CASE Main
    BY <2>1, MainStarts
  <2>2. CASE Exit
    BY <2>2, OnlyMain DEF Exit
  <2>3. ASSUME NEW node \in Nodes, NodeStep(node) PROVE Inv'
    BY <2>3, NodeStepInv
  <2>4. CASE Terminated
    BY <2>4, OnlyMain DEF Terminated, vars
  <2>5. CASE UNCHANGED vars
    BY <2>5, OnlyMain DEF vars
  <2> QED BY <2>1, <2>2, <2>3, <2>4, <2>5 DEF Next, MainStep
<1> QED BY InitInv, <1>1, PTL DEF Spec

\* Each task on the heap has one owner, on any graph and for any number of
\* workers and images; only ffsobel2 leaks; a node ends after all that feeds it.
THEOREM TasksOwned == Spec => []Ownership
<1>1. Inv => Ownership
  <2> SUFFICES ASSUME Inv, main # "aborted" PROVE Ownership
    BY DEF Ownership
  <2>1. CASE main \in {"parse", "usage", "error"}
    <3>1. layers = <<>> /\ chan = <<>> /\ tasks = <<>>
      BY <2>1 DEF Inv, Idle
    <3>2. Nodes = {} /\ Edges = {} /\ In(chan) = {} /\ NoCopies(chan)
      BY <3>1 DEF Nodes, Edges, In, NoCopies
    <3>3. InHands = {}
      BY <3>2 DEF InHands
    <3> QED BY <3>1, <3>2, <3>3 DEF Ownership
  <2>2. CASE main \in {"running", "exit"}
    <3>1. NetInv /\ Heap
      BY <2>2 DEF Inv, Live
    <3>2. \A m, n \in Nodes : m # n => hand[m] \intersect hand[n] = {}
      BY <3>1 DEF NetInv, OneOwner
    <3> QED BY <3>1, <3>2 DEF Ownership, Heap, NetInv, OneOwner, Drained
  <2> QED BY <2>1, <2>2 DEF Inv, ProgramType
<1> QED BY Invariance, <1>1, PTL

LEMMA NamedFinite ==
    ASSUME ProgramType, NEW f
    PROVE  IsFiniteSet(Named(f)) /\ Named(f) \subseteq Nat
<1>1. num_images \in Int
  BY CommandLineType DEF ProgramType
<1>2. IsFiniteSet(Images) /\ Images \subseteq Nat
  BY <1>1, FS_Interval DEF Images
<1>3. Named(f) \subseteq Images
  BY DEF Named
<1> QED BY <1>2, <1>3, FS_Subset

\* A file no node is writing is the whole result of an image of its name, on
\* any graph but one where several nodes write.
THEOREM FilesWhole == Spec => []WholeFiles
<1>1. Inv => WholeFiles
  <2> SUFFICES ASSUME Inv, NEW f \in DOMAIN out
               PROVE  /\ out[f] \subseteq {Filtered(j) : j \in Named(f)}
                      /\ \/ Cardinality(out[f]) = 1
                         \/ Cardinality({n \in Nodes : Writes(n)}) > 1 /\ Cardinality(Named(f)) > 1
    BY DEF WholeFiles
  <2>1. /\ out[f] # {} /\ out[f] \subseteq {Filtered(j) : j \in NamedWritten(f)}
        /\ (\E x \in out[f] : out[f] = {x}) \/ SeveralWriters
        /\ Written \subseteq Images \ skipped
    BY DEF Inv, Files
  <2>2. NamedWritten(f) \subseteq Named(f)
    BY <2>1 DEF NamedWritten, Named
  <2>3. CASE \E x \in out[f] : out[f] = {x}
    BY <2>1, <2>2, <2>3, FS_Singleton
  <2>4. CASE ~\E x \in out[f] : out[f] = {x}
    <3>1. PICK x \in out[f], y \in out[f] : x # y
      BY <2>1, <2>4
    <3>2. PICK j \in Named(f), k \in Named(f) : x = Filtered(j) /\ y = Filtered(k)
      BY <2>1, <2>2
    <3>3. j # k
      BY <3>1, <3>2
    <3>4. Cardinality(Named(f)) > 1
      BY <3>3, NamedFinite, TwoElements DEF Inv
    <3> QED BY <2>1, <2>2, <2>4, <3>4 DEF SeveralWriters
  <2> QED BY <2>3, <2>4
<1> QED BY Invariance, <1>1, PTL

\* When all nodes have ended every image has been written or skipped.
LEMMA AllWritten ==
    ASSUME ProgramType, Live, AllEnded
    PROVE  Gone = Images \ skipped /\ Written = Gone
<1>1. NetInv /\ Heap /\ WritersBusy /\ ended = Nodes
  BY DEF Live, AllEnded
<1>2. \A n \in Nodes : hand[n] = {}
  BY <1>1 DEF NetInv, Drained
<1>3. \A e \in Edges : chan[e] = <<>>
  BY <1>1, EdgeProperties, ChannelProperties DEF NetInv, NetType, Drained, Edges
<1>4. DOMAIN tasks \subseteq skipped
  <2>1. In(chan) = {}
    BY <1>3, ToSetOfEmpty DEF In, Edges
  <2> QED BY <1>1, <1>2, <2>1 DEF Heap, InHands
<1>5. 0..i - 1 = Images
  <2>1. i >= num_images
    BY <1>1, NodeProperties DEF NetInv, NetType, Heap
  <2>2. num_images \in Int
    BY CommandLineType DEF ProgramType
  <2> QED BY <2>1, <2>2 DEF ProgramType, Images
<1>6. writing = {}
  BY <1>1, <1>2 DEF WritersBusy
<1> QED BY <1>4, <1>5, <1>6 DEF Written, Gone

\* When the program ends, ./out is what one loop over the images leaves there,
\* whatever the graph; only where a row has several nodes may one of two
\* images of a name be kept in the place of the other.
THEOREM OutputLikeSequential == Spec => []LikeSequential
<1>1. Inv => LikeSequential
  <2> SUFFICES ASSUME Inv, main = "exit"
               PROVE  /\ DOMAIN out = {BaseName[Path(j)] : j \in Images \ skipped}
                      /\ \A f \in DOMAIN out :
                            \/ out[f] = {Filtered(Max(Named(f)))}
                            \/ Cardinality(Named(f)) > 1 /\ \E l \in DOMAIN layers : layers[l].nodes > 1
    BY DEF LikeSequential
  <2>1. ProgramType /\ Files /\ NetInv /\ Live
    BY DEF Inv, Live
  <2>7. Written = Images \ skipped
    BY <2>1, AllWritten DEF Inv
  <2>8. \A f : NamedWritten(f) = Named(f)
    BY <2>7 DEF NamedWritten, Named
  <2>9. DOMAIN out = {BaseName[Path(j)] : j \in Images \ skipped}
    BY <2>1, <2>7 DEF Files
  <2>10. ASSUME NEW f \in DOMAIN out
         PROVE  \/ out[f] = {Filtered(Max(Named(f)))}
                \/ Cardinality(Named(f)) > 1 /\ \E l \in DOMAIN layers : layers[l].nodes > 1
    <3>1. /\ out[f] # {} /\ out[f] \subseteq {Filtered(j) : j \in Named(f)}
          /\ Single => \A j \in Named(f), k \in Nat : Filtered(k) \in out[f] => j <= k
      BY <2>1, <2>8 DEF Files
    <3>2. IsFiniteSet(Named(f)) /\ Named(f) \subseteq Nat
      BY <2>1, NamedFinite
    <3>3. PICK j \in Named(f) : Filtered(j) \in out[f]
      BY <3>1
    <3>4. CASE \A k \in Named(f) : Filtered(k) \in out[f] => k = j
      <4>1. out[f] = {Filtered(j)}
        BY <3>1, <3>3, <3>4
      <4>2. CASE \A k \in Named(f) : k <= j
        <5>1. Max(Named(f)) = j
          BY <3>2, <4>2 DEF Max
        <5> QED BY <4>1, <5>1
      <4>3. CASE \E k \in Named(f) : ~(k <= j)
        <5>1. PICK k \in Named(f) : ~(k <= j)
          BY <4>3
        <5>2. k # j
          BY <3>2, <5>1
        <5>3. Cardinality(Named(f)) > 1
          BY <3>2, <5>2, TwoElements
        <5>4. ~Single
          BY <3>1, <3>2, <3>3, <5>1
        <5> QED BY <2>1, <5>3, <5>4 DEF Single, NetInv, NetType, WellFormed
      <4> QED BY <4>2, <4>3
    <3>5. CASE \E k \in Named(f) : Filtered(k) \in out[f] /\ k # j
      <4>1. PICK k \in Named(f) : Filtered(k) \in out[f] /\ k # j
        BY <3>5
      <4>2. Cardinality(Named(f)) > 1
        BY <3>2, <4>1, TwoElements
      <4>3. ~Single
        BY <3>1, <3>2, <3>3, <4>1
      <4> QED BY <2>1, <4>2, <4>3 DEF Single, NetInv, NetType, WellFormed
    <3> QED BY <3>4, <3>5
  <2> QED BY <2>9, <2>10
<1> QED BY Invariance, <1>1, PTL

----------------------------------------------------------------------------
\* The graphs do not deadlock, although their channels are bounded.

LEMMA Greatest ==
    ASSUME NEW n \in Nat, NEW T, T \subseteq 0..n, T # {}
    PROVE  \E x \in T : \A y \in T : y <= x
<1> DEFINE below == {n - x : x \in T}
<1>1. below \subseteq Nat
  OBVIOUS
<1>0. below # {}
  <2>1. PICK x \in T : TRUE
    OBVIOUS
  <2>2. n - x \in below
    BY <2>1
  <2> QED BY <2>2
<1>2. PICK b \in below : \A c \in below : b <= c
  <2> HIDE DEF below
  <2> QED BY <1>0, <1>1, LeastNumber
<1>3. PICK x \in T : b = n - x
  BY <1>2
<1>4. ASSUME NEW y \in T PROVE y <= x
  <2>1. b <= n - y
    BY <1>2
  <2> QED BY <1>3, <2>1
<1> QED BY <1>4

\* What node waits for is there: the guards of the actions.
CanStep(node) ==
    \/ Free(node) /\ IsSource(node) /\ i < num_images
    \/ Free(node) /\ \E e \in InEdges(node) : \E j \in DOMAIN tasks : j \in Arrived(chan, e)
    \/ hand[node] # {} /\ ~IsSink(node) /\ \E e \in OutEdges(node) : HasRoom(chan, e, QueueLen)
    \/ hand[node] # {} /\ Writes(node)
    \/ /\ Free(node)
       /\ IsSource(node) => i >= num_images
       /\ \A e \in InEdges(node) : chan[e] # <<>> /\ Head(chan[e]) = EOS
       /\ \A e \in OutEdges(node) : HasRoom(chan, e, QueueLen)

\* A channel has room, the mark at its head, or a task.
LEMMA ChannelStates ==
    ASSUME NetInv, NEW e \in Edges
    PROVE  \/ chan[e] = <<>> /\ HasRoom(chan, e, QueueLen)
           \/ chan[e] # <<>> /\ Head(chan[e]) = EOS /\ EOS \in ToSet(chan[e])
           \/ \E j \in Carried(e) : j \in Arrived(chan, e)
<1>1. chan[e] \in Seq(Messages)
  BY ChannelProperties DEF NetInv, NetType, Edges
<1>2. CASE chan[e] = <<>>
  BY <1>2, QueueLenAssumption DEF HasRoom
<1>3. CASE chan[e] # <<>>
  <2>1. Head(chan[e]) \in ToSet(chan[e])
    BY <1>1, <1>3, ToSetOfTail
  <2> QED BY <1>3, <2>1 DEF Arrived, Carried
<1> QED BY <1>2, <1>3

\* Every node but those of the last layer leads somewhere.
LEMMA Onward ==
    ASSUME WellFormed(layers), Edges = EdgesOf(layers), NEW n \in Nodes, ~IsSink(n)
    PROVE  \E e \in Edges : e \in OutEdges(n)
<1>1. /\ n = <<n[1], n[2]>> /\ n[1] \in 1..Len(layers) /\ n[2] \in 1..layers[n[1]].nodes
  BY NodeProperties
<1>2. n[1] \in 1..Len(layers) - 1 /\ n[1] + 1 \in 1..Len(layers)
  BY <1>1 DEF IsSink, WellFormed
<1> DEFINE l == n[1]
           k == n[2]
           a == layers[l].nodes
           b == layers[l + 1].nodes
<1>3. a \in Nat \ {0} /\ b \in Nat \ {0} /\ k \in 1..a
  BY <1>1, <1>2 DEF WellFormed
<1>4. l \in 1..Len(layers) - 1 /\ n = <<l, k>>
  BY <1>1, <1>2
<1>5. k \in 1..Max({a, b}) /\ Min({k, a}) = k
  <2> HIDE DEF a, b, k
  <2>1. Max({a, b}) = IF a >= b THEN a ELSE b
    BY <1>3, MaxOfTwo
  <2>2. Min({k, a}) = IF k <= a THEN k ELSE a
    BY <1>3, MaxOfTwo
  <2> QED BY <1>3, <2>1, <2>2
<1>6. <<l, k>> \in EdgesOf(layers)
  <2>1. <<l, k>> \in {l} \X (1..Max({layers[l].nodes, layers[l + 1].nodes}))
    BY <1>5
  <2> QED BY <1>4, <2>1 DEF EdgesOf
<1>7. From(<<l, k>>) = n
  BY <1>4, <1>5 DEF From
<1> QED BY <1>6, <1>7 DEF OutEdges

\* A node that holds a task, or could take one.
Loaded(n) == hand[n] # {} \/ \E e \in InEdges(n) : \E j \in Carried(e) : j \in Arrived(chan, e)

\* Of the nodes that are loaded, one in the last layer that has such nodes can
\* go on; if there is none, one in the first layer with nodes that have not
\* ended can end.
LEMMA SomeNodeCanStep ==
    ASSUME ProgramType, NetInv, Staged(layers), Heap, ended # Nodes
    PROVE  \E node \in Nodes : CanStep(node)
<1> SUFFICES ASSUME \A node \in Nodes : ~CanStep(node) PROVE FALSE
  OBVIOUS
<1>1. /\ WellFormed(layers) /\ Edges = EdgesOf(layers) /\ Len(layers) \in Nat
      /\ ended \subseteq Nodes
  BY ChannelProperties DEF NetInv, NetType, Edges, WellFormed
<1>2. \A n \in Nodes : n[1] \in 1..Len(layers)
  BY <1>1, NodeProperties
<1>3. \A e \in Edges : /\ From(e) \in Nodes /\ To(e) \in Nodes
                       /\ To(e)[1] = From(e)[1] + 1
  BY <1>1, EdgeProperties
<1>4. \A e \in Edges : \A j \in Carried(e) : j \in DOMAIN tasks
  BY DEF Heap, Carried, In, Edges
<1>5. ASSUME NEW n \in Nodes, Loaded(n)
      PROVE  n \notin ended /\ hand[n] # {} /\ ~IsSink(n)
  <2>1. n \notin ended
    <3>1. CASE hand[n] # {}
      BY <3>1 DEF NetInv, Drained
    <3>2. CASE \E e \in InEdges(n) : \E j \in Carried(e) : j \in Arrived(chan, e)
      <4>1. PICK e \in InEdges(n) : Arrived(chan, e) # {}
        BY <3>2
      <4>2. e \in Edges /\ To(e) = n /\ chan[e] # <<>>
        BY <4>1 DEF InEdges, Arrived
      <4> QED BY <4>2 DEF NetInv, Drained
    <3> QED BY <1>5, <3>1, <3>2 DEF Loaded
  <2>2. hand[n] # {}
    <3> SUFFICES ASSUME hand[n] = {} PROVE FALSE
      OBVIOUS
    <3>1. PICK e \in InEdges(n) : \E j \in Carried(e) : j \in Arrived(chan, e)
      BY <1>5 DEF Loaded
    <3>2. PICK j \in Carried(e) : j \in Arrived(chan, e)
      BY <3>1
    <3>3. j \in DOMAIN tasks
      BY <1>4, <3>2 DEF InEdges
    <3> QED BY <2>1, <3>2, <3>3 DEF CanStep, Free
  <2>3. ~Writes(n)
    BY <2>2 DEF CanStep
  <2>4. ~IsSink(n)
    BY <1>2, <2>3 DEF Staged, Writes, IsSink
  <2> QED BY <2>1, <2>2, <2>4
<1>6. \A n \in Nodes : ~Loaded(n)
  <2> SUFFICES ASSUME NEW m \in Nodes, Loaded(m) PROVE FALSE
    OBVIOUS
  <2> DEFINE T == {n[1] : n \in {x \in Nodes : Loaded(x)}}
  <2>1. T \subseteq 0..Len(layers) /\ T # {}
    BY <1>1, <1>2
  <2>2. PICK l \in T : \A k \in T : k <= l
    BY <1>1, <2>1, Greatest
  <2>3. PICK n \in Nodes : Loaded(n) /\ n[1] = l
    BY <2>2
  <2>4. n \notin ended /\ hand[n] # {} /\ ~IsSink(n)
    BY <1>5, <2>3
  <2>5. PICK e \in Edges : e \in OutEdges(n)
    BY <1>1, <2>4, Onward
  <2>6. ~HasRoom(chan, e, QueueLen)
    BY <2>4, <2>5 DEF CanStep
  <2>7. From(e) = n /\ EOS \notin ToSet(chan[e])
    BY <2>4, <2>5 DEF OutEdges, NetInv, Drained
  <2>8. \E j \in Carried(e) : j \in Arrived(chan, e)
    BY <2>6, <2>7, ChannelStates
  <2>9. To(e) \in Nodes /\ Loaded(To(e))
    BY <1>3, <2>8 DEF Loaded, InEdges
  <2>10. To(e)[1] \in T /\ To(e)[1] = l + 1 /\ l \in Nat
    BY <1>3, <2>1, <2>3, <2>7, <2>9
  <2> QED BY <2>2, <2>10
<1>7. \A e \in Edges : \A j \in Carried(e) : j \notin Arrived(chan, e)
  BY <1>3, <1>6 DEF Loaded, InEdges
<1> DEFINE U == {n[1] : n \in Nodes \ ended}
<1>8. U \subseteq Nat /\ U # {}
  <2>1. U \subseteq Nat
    BY <1>1, <1>2
  <2>2. PICK x \in Nodes : x \notin ended
    BY <1>1
  <2>3. x[1] \in U
    BY <2>2
  <2> QED BY <2>1, <2>3
<1>9. PICK l \in U : \A k \in U : l <= k
  BY <1>8, LeastNumber
<1>10. PICK n \in Nodes \ ended : n[1] = l
  BY <1>9
<1>11. Free(n)
  BY <1>6, <1>10 DEF Free, Loaded
<1>12. \A e \in InEdges(n) : chan[e] # <<>> /\ Head(chan[e]) = EOS
  <2> SUFFICES ASSUME NEW e \in InEdges(n) PROVE chan[e] # <<>> /\ Head(chan[e]) = EOS
    OBVIOUS
  <2>1. e \in Edges /\ To(e) = n
    BY DEF InEdges
  <2>2. From(e) \in Nodes /\ l = From(e)[1] + 1 /\ From(e)[1] \in Nat
    BY <1>2, <1>3, <1>10, <2>1
  <2>3. From(e) \in ended
    <3> SUFFICES ASSUME From(e) \notin ended PROVE FALSE
      OBVIOUS
    <3>1. From(e)[1] \in U
      BY <2>2
    <3>2. l <= From(e)[1]
      BY <1>9, <3>1
    <3> QED BY <2>2, <3>2
  <2>4. EOS \in ToSet(chan[e])
    BY <1>10, <2>1, <2>3 DEF NetInv, Drained
  <2>5. chan[e] # <<>>
    BY <2>4, ToSetOfEmpty
  <2> QED BY <1>7, <2>1, <2>5, ChannelStates
<1>13. \A e \in OutEdges(n) : HasRoom(chan, e, QueueLen)
  <2> SUFFICES ASSUME NEW e \in OutEdges(n) PROVE HasRoom(chan, e, QueueLen)
    OBVIOUS
  <2>1. e \in Edges /\ From(e) = n
    BY DEF OutEdges
  <2>2. EOS \notin ToSet(chan[e])
    BY <1>10, <2>1 DEF NetInv, Drained
  <2> QED BY <1>7, <2>1, <2>2, ChannelStates
<1>14. IsSource(n) => i >= num_images
  <2>1. ~(Free(n) /\ IsSource(n) /\ i < num_images)
    BY <1>10 DEF CanStep
  <2>2. num_images \in Int /\ i \in Int
    BY Bounds
  <2> QED BY <1>11, <2>1, <2>2
<1> QED BY <1>10, <1>11, <1>12, <1>13, <1>14 DEF CanStep

\* Until all nodes have ended one of them can go on, on any graph and however
\* short its channels: no node waits for a task, a mark or room that only a
\* node waiting for it could give.
THEOREM NeverStuck ==
    Spec => [](main = "running" /\ ~AllEnded => \E node \in Nodes : CanStep(node))
<1>1. Inv => (main = "running" /\ ~AllEnded => \E node \in Nodes : CanStep(node))
  <2> SUFFICES ASSUME Inv, main = "running", ~AllEnded
               PROVE  \E node \in Nodes : CanStep(node)
    OBVIOUS
  <2>1. ProgramType /\ NetInv /\ Staged(layers) /\ Heap
    BY DEF Inv, Live
  <2>2. layers # <<>>
    <3>1. Len(layers) # 0
      BY <2>1 DEF NetInv, NetType, WellFormed
    <3> QED BY <3>1
  <2> QED BY <2>1, <2>2, SomeNodeCanStep DEF AllEnded
<1> QED BY Invariance, <1>1, PTL

----------------------------------------------------------------------------
\* The job: every image is settled once, by its file or by being skipped.

Unsettled == Images \ (Gone \union skipped)
Status == CASE main = "parse" -> "new"
            [] main = "exit" -> "ended"
            [] OTHER -> IF layers = <<>> THEN "refused" ELSE "running"

Job == INSTANCE StreamJob WITH pending   <- Unsettled,
                               delivered <- Gone,
                               dropped   <- skipped,
                               status    <- Status

JobNext == [Job!Next]_<<Unsettled, Gone, skipped, Status>>

LEMMA JobSteps ==
    ASSUME \/ UNCHANGED <<Unsettled, Gone, skipped, Status>>
           \/ /\ Status = "new" /\ Status' \in {"running", "refused"}
              /\ UNCHANGED <<Unsettled, Gone, skipped>>
           \/ /\ Status = "running" /\ Unsettled = {} /\ Status' = "ended"
              /\ UNCHANGED <<Unsettled, Gone, skipped>>
           \/ /\ Status = "running" /\ Status' = "running"
              /\ \E j \in Unsettled :
                    /\ Unsettled' = Unsettled \ {j}
                    /\ \/ Gone' = Gone \union {j} /\ skipped' = skipped
                       \/ skipped' = skipped \union {j} /\ Gone' = Gone
    PROVE  JobNext
BY DEF JobNext, Job!Next, Job!Begin, Job!Deliver, Job!DropOne, Job!End

\* One image at most is settled.
Settles ==
    \/ Gone' = Gone /\ skipped' = skipped
    \/ \E j \in Unsettled : \/ Gone' = Gone \union {j} /\ skipped' = skipped
                            \/ skipped' = skipped \union {j} /\ Gone' = Gone

\* The tasks in channels and hands are those of images to be settled.
LEMMA Owned ==
    ASSUME ProgramType, Live, NEW j \in In(chan) \union InHands
    PROVE  j \in Unsettled /\ j \in DOMAIN tasks
<1>1. j \in DOMAIN tasks \ skipped
  BY DEF Live, Heap
<1>2. j \in Images
  BY <1>1, Bounds
<1> QED BY <1>1, <1>2 DEF Unsettled, Gone

LEMMA NodeStepSettles ==
    ASSUME Inv, NEW node \in Nodes, NodeStep(node)
    PROVE  UNCHANGED <<cmd, layers>> /\ Settles
<1>1. main = "running" /\ ProgramType /\ Live
  BY DEF NodeStep, Inv
<1>2. /\ num_images \in Int /\ i \in Nat
      /\ DOMAIN tasks \subseteq 0..i - 1 /\ skipped \subseteq 0..i - 1
  BY <1>1, Bounds DEF ProgramType
<1>3. CASE NextImage(node)
  <2>1. /\ UNCHANGED <<cmd, layers, skipped>> /\ i' = i + 1
        /\ DOMAIN tasks' = DOMAIN tasks \union {i}
    BY <1>3 DEF NextImage, Produce
  <2>2. Gone' = Gone
    BY <1>2, <2>1 DEF Gone
  <2> QED BY <2>1, <2>2 DEF Settles
<1>4. CASE Filter(node)
  <2>1. UNCHANGED <<cmd, layers, skipped, i>> /\ DOMAIN tasks' = DOMAIN tasks
    BY <1>4 DEF Filter, Receive
  <2> QED BY <2>1 DEF Settles, Gone
<1>5. CASE ReadThrows(node)
  BY <1>5 DEF ReadThrows, Produce, Receive, Settles, Gone
<1>6. CASE SkipImage(node)
  <2>1. UNCHANGED <<cmd, tasks>>
    BY <1>6 DEF SkipImage
  <2>2. CASE i < num_images /\ i' = i + 1 /\ skipped' = skipped \union {i} /\ UNCHANGED netVars
    <3>1. Gone' = Gone /\ UNCHANGED layers
      BY <1>2, <2>1, <2>2 DEF Gone, netVars
    <3>2. i \in Unsettled
      BY <1>2, <2>2 DEF Unsettled, Gone, Images
    <3> QED BY <2>1, <2>2, <3>1, <3>2 DEF Settles
  <2>3. CASE \E j \in DOMAIN tasks : Discard(node, j) /\ skipped' = skipped \union {j} /\ UNCHANGED i
    <3>1. PICK j \in DOMAIN tasks :
             Discard(node, j) /\ skipped' = skipped \union {j} /\ UNCHANGED i
      BY <2>3
    <3>2. j \in In(chan) /\ UNCHANGED layers
      BY <1>1, <3>1, DiscardStep DEF Live
    <3>3. Gone' = Gone
      BY <2>1, <3>1 DEF Gone
    <3> QED BY <1>1, <2>1, <3>1, <3>2, <3>3, Owned DEF Settles
  <2> QED BY <1>6, <2>2, <2>3 DEF SkipImage
<1>7. CASE Forward(node)
  BY <1>7 DEF Forward, PassOn, Settles, Gone
<1>8. CASE CreateFile(node)
  BY <1>8 DEF CreateFile, netVars, Settles, Gone
<1>9. CASE CompleteFile(node)
  <2>1. node \in writing /\ UNCHANGED <<cmd, i, skipped>>
    BY <1>9 DEF CompleteFile
  <2>2. CASE tasks' = [j \in DOMAIN tasks \ hand[node] |-> tasks[j]] /\ Finish(node)
    <3>1. PICK j \in hand[node] : hand[node] = {j}
      BY <1>1, <2>1 DEF Live, WritersBusy, NetInv, OneOwner
    <3>2. j \in Unsettled /\ j \in DOMAIN tasks
      BY <1>1, <3>1, Owned DEF InHands
    <3>3. DOMAIN tasks' = DOMAIN tasks \ {j} /\ UNCHANGED layers
      BY <2>2, <3>1 DEF Finish
    <3>4. j \notin skipped /\ j \in 0..i - 1
      BY <1>2, <3>2 DEF Unsettled
    <3>5. Gone' = Gone \union {j}
      BY <2>1, <3>2, <3>3, <3>4 DEF Gone
    <3> QED BY <2>1, <3>2, <3>3, <3>5 DEF Settles
  <2>3. CASE UNCHANGED <<tasks, netVars>>
    BY <2>1, <2>3 DEF netVars, Settles, Gone
  <2> QED BY <1>9, <2>2, <2>3 DEF CompleteFile
<1>10. CASE EndOfStream(node)
  BY <1>10 DEF EndOfStream, EndNode, Settles, Gone
<1> QED BY <1>3, <1>4, <1>5, <1>6, <1>7, <1>8, <1>9, <1>10 DEF NodeStep

\* Steps of the main program, and of no one.
LEMMA NothingSettled ==
    ASSUME UNCHANGED <<cmd, i, tasks, skipped>>
    PROVE  UNCHANGED <<Unsettled, Gone, skipped>>
<1>1. Images' = Images /\ Gone' = Gone
  BY SameCommand DEF Gone
<1> QED BY <1>1 DEF Unsettled

LEMMA JobStep ==
    ASSUME Inv, [Next]_vars
    PROVE  JobNext
<1>1. main \in {"running", "exit"} => layers # <<>>
  <2>1. ASSUME Live PROVE layers # <<>>
    <3>1. Len(layers) # 0
      BY <2>1 DEF Live, NetInv, NetType, WellFormed
    <3> QED BY <3>1
  <2> QED BY <2>1 DEF Inv
<1>2. main \in {"parse", "usage", "error"} => layers = <<>>
  BY DEF Inv, Idle
<1>3. CASE Main
  <2>1. main = "parse" /\ UNCHANGED <<cmd, i, tasks, skipped>>
    BY <1>3 DEF Main
  <2>2. main' \in {"usage", "error", "aborted", "running"}
    BY <1>3 DEF Main
  <2>3. Status = "new" /\ Status' \in {"running", "refused"}
    BY <2>1, <2>2 DEF Status
  <2> QED BY <2>1, <2>3, NothingSettled, JobSteps
<1>4. CASE Exit
  <2>1. /\ main = "running" /\ AllEnded /\ main' = "exit"
        /\ UNCHANGED <<cmd, i, tasks, skipped>>
    BY <1>4 DEF Exit
  <2>2. Unsettled = {}
    BY <2>1, AllWritten DEF Inv, Unsettled
  <2>3. Status = "running" /\ Status' = "ended"
    BY <1>1, <2>1 DEF Status
  <2> QED BY <2>1, <2>2, <2>3, NothingSettled, JobSteps
<1>5. ASSUME NEW node \in Nodes, NodeStep(node) PROVE JobNext
  <2>1. UNCHANGED <<cmd, layers>> /\ Settles /\ main = "running"
    BY <1>5, NodeStepSettles DEF NodeStep
  <2>2. main' \in {"running", "aborted"}
    BY <1>5, <2>1 DEF NodeStep, NextImage, Filter, ReadThrows, SkipImage, Forward, CreateFile,
                      CompleteFile, EndOfStream
  <2>3. Status = "running" /\ Status' = "running"
    BY <1>1, <2>1, <2>2 DEF Status
  <2>4. Images' = Images
    BY <2>1, SameCommand
  <2> QED BY <2>1, <2>3, <2>4, JobSteps DEF Settles, Unsettled
<1>6. CASE UNCHANGED vars
  <2>1. UNCHANGED <<cmd, main, i, tasks, skipped, layers>>
    BY <1>6 DEF vars, netVars
  <2>2. Status' = Status
    BY <2>1 DEF Status
  <2> QED BY <2>1, <2>2, NothingSettled, JobSteps
<1> QED BY <1>3, <1>4, <1>5, <1>6 DEF Next, MainStep, Terminated

\* The image programs do the safety part of the job StreamJob states: each
\* image is settled once, by a complete file or by being skipped, none when the
\* program has refused its command line or has ended, and it ends only when
\* none is pending. One that an exception ends stops on the way.
THEOREM ImplementsJob == Spec => Job!Spec
<1>1. Init => Job!Init
  <2> SUFFICES ASSUME Init PROVE Job!Init
    OBVIOUS
  <2>1. i = 0 /\ skipped = {} /\ main = "parse"
    BY DEF Init
  <2>2. Gone = {} /\ Status = "new"
    BY <2>1 DEF Gone, Status
  <2> QED BY <2>1, <2>2 DEF Job!Init
<1>2. Inv /\ [Next]_vars => JobNext
  BY JobStep
<1> QED BY <1>1, <1>2, Invariance, PTL DEF Spec, Job!Spec, JobNext

----------------------------------------------------------------------------
\* The distributed program. D is its module, over variables of its own; the two
\* programs have the names of images in common.

CONSTANTS HostLines, Stale

VARIABLES both, hostA, hostB, sent, heapA, toBlur, outbox, callbacks, wire, heapB,
          toCollector, eosSeen, outB

D == INSTANCE ImgD WITH CommandLines <- HostLines, cmd <- both, i <- sent, out <- outB

\* What EmitterBlur has sent, and the names of the images.
Sent == {j \in 1..Len(D!images) : j <= sent}
Names == [j \in Nat |-> D!Name(j)]

\* The connections, and the workers that have been started.
Ends == 1..D!Max({both.nwA, both.nwB})
StartedA == IF hostA \in {"parse", "usage"} THEN {} ELSE 1..both.nwA
StartedB == IF hostB = "parse" THEN {} ELSE 1..both.nwB

\* The parts of messages in work, about the tasks of S, whose names are in N.
Parts(S, N) ==
    {D!ImagePart(j) : j \in S} \union {D!NamePart(n) : n \in N} \union {D!Mark}

\* The images in a family of channels for parts; that none is there twice.
ImagesOf(ch) ==
    {j \in Nat : \E w \in DOMAIN ch : \E k \in DOMAIN ch[w] : ch[w][k] = D!ImagePart(j)}

SingleParts(ch) ==
    \A v, w \in DOMAIN ch : \A k \in DOMAIN ch[v], l \in DOMAIN ch[w] : \A j \in Nat :
        ch[v][k] = D!ImagePart(j) /\ ch[w][l] = D!ImagePart(j) => v = w /\ k = l

MarkAtEnd(s) == \A k \in DOMAIN s : s[k] = D!Mark => k = Len(s)

\* With the transport, an image is followed by its name. Behind an image that
\* has arrived is its name, or what was there when it was read; or else the
\* name is the next the transport sends.
NamesFollow(s) ==
    \A k \in DOMAIN s : \A j \in Nat :
        s[k] = D!ImagePart(j) => k + 1 \in DOMAIN s /\ s[k + 1] = D!NamePart(j)

NamesArrive(names, s, unsent) ==
    \A k \in DOMAIN s : \A j \in Nat :
        s[k] = D!ImagePart(j) =>
            IF k < Len(s) THEN s[k + 1] \in {D!NamePart(names[j]), D!NamePart(Stale)}
            ELSE unsent # <<>> /\ Head(unsent) = D!NamePart(j)

Unsent(w) == IF w \in StartedA THEN outbox[w] ELSE <<>>

\* How far the end of the stream has come at a worker of A and its partner.
Blurred(w) == w \in StartedA /\ sent > Len(D!images) /\ toBlur[w] = <<>>
Sending(w) == Blurred(w) /\ outbox[w] = <<>>
Crossed(w) == Sending(w) /\ wire[w] = <<>>

HostsType ==
    /\ both \in HostLines
    /\ sent \in 0..Len(D!images) + 1
    /\ toBlur \in ChannelsOf(StartedA, Sent \union {EOS})
    /\ outbox \in ChannelsOf(StartedA, Parts(Sent, Sent))
    /\ wire \in ChannelsOf(Ends, Parts(Sent, {Names[j] : j \in Sent} \union {Stale}))
    /\ toCollector \in ChannelsOf(StartedB, Sent \union {EOS})
    /\ callbacks \subseteq Sent /\ eosSeen \subseteq StartedB
    /\ \A j \in Sent : D!images[j] \in Readable
    /\ hostB = "exit" => eosSeen = StartedB

\* A task of A waits for a worker, or is in the transport: with its image unsent,
\* or until the callback. A task of B is in one channel to the collector; until
\* it is built, its image is on the wire, and not before A is through with it.
OneHost ==
    /\ heapA = In(toBlur) \union ImagesOf(outbox) \union callbacks
    /\ NoCopies(toBlur) /\ SingleParts(outbox) /\ SingleParts(wire) /\ NoCopies(toCollector)
    /\ In(toBlur) \intersect (ImagesOf(outbox) \union callbacks) = {}
    /\ ImagesOf(outbox) \intersect callbacks = {}
    /\ DOMAIN heapB \subseteq Sent
    /\ hostB # "aborted" => DOMAIN heapB = In(toCollector)
    /\ (In(toBlur) \union ImagesOf(outbox)) \intersect (ImagesOf(wire) \union DOMAIN heapB) = {}
    /\ ImagesOf(wire) \intersect DOMAIN heapB = {}

\* Every message, task of B and file has the name of its image, or Stale.
NamesKept ==
    /\ \A w \in StartedA : NamesFollow(outbox[w])
    /\ \A w \in Ends : NamesArrive(Names, wire[w], Unsent(w))
    /\ \A j \in DOMAIN heapB : heapB[j] \in {Names[j], Stale}
    /\ \A f \in DOMAIN outB : outB[f] \in Sent /\ f \in {Names[outB[f]], Stale}

\* Marks are last, and there is one only when all before it is through.
Marked ==
    /\ \A w \in StartedA :
          /\ EosAtEnd(toBlur[w]) /\ (EOS \in ToSet(toBlur[w]) => sent > Len(D!images))
          /\ MarkAtEnd(outbox[w]) /\ (D!Mark \in ToSet(outbox[w]) => Blurred(w))
    /\ \A w \in Ends : MarkAtEnd(wire[w]) /\ (D!Mark \in ToSet(wire[w]) => Sending(w))
    /\ \A w \in StartedB :
          EosAtEnd(toCollector[w]) /\ (EOS \in ToSet(toCollector[w]) => Crossed(w))
    /\ \A w \in eosSeen : Crossed(w) /\ toCollector[w] = <<>>

\* Until B aborts, an image sent is on its way or has left a file.
NothingLost ==
    hostB # "aborted" => \A j \in Sent :
        \/ j \in In(toBlur) \union ImagesOf(outbox) \union ImagesOf(wire) \union In(toCollector)
        \/ {Names[j], Stale} \intersect DOMAIN outB # {}

HostsInv == HostsType /\ OneHost /\ NamesKept /\ Marked /\ NothingLost

\* The operators of channels that D takes are those of this module.
LEMMA SameChannels ==
    ASSUME NEW ch, NEW w, NEW m
    PROVE  /\ D!Put(ch, w, m) = Put(ch, w, m) /\ D!Drop(ch, w) = Drop(ch, w)
           /\ D!Arrived(ch, w) = Arrived(ch, w) /\ D!Waiting(ch, w) = Waiting(ch, w)
           /\ D!In(ch) = In(ch) /\ D!NoCopies(ch) = NoCopies(ch)
           /\ D!ToSet(ch) = ToSet(ch)
BY DEF D!Put, Put, D!Drop, Drop, D!Arrived, Arrived, D!Waiting, Waiting, D!In, In,
       D!NoCopies, NoCopies, D!ToSet, ToSet

LEMMA PartsDiffer ==
    ASSUME NEW j, NEW n
    PROVE  /\ D!ImagePart(j) = D!ImagePart(n) => j = n
           /\ D!NamePart(j) = D!NamePart(n) => j = n
           /\ D!ImagePart(j) # D!NamePart(n)
           /\ D!ImagePart(j) # D!Mark /\ D!NamePart(j) # D!Mark
BY DEF D!ImagePart, D!NamePart, D!Mark

----------------------------------------------------------------------------
\* Sequences and channels of parts.

LEMMA AppendedPositions ==
    ASSUME NEW S, NEW s \in Seq(S), NEW m \in S
    PROVE  /\ Append(s, m) \in Seq(S) /\ Append(s, m) # <<>>
           /\ Len(Append(s, m)) = Len(s) + 1 /\ Append(s, m)[Len(s) + 1] = m
           /\ Len(s) \in Nat /\ DOMAIN s = 1..Len(s)
           /\ DOMAIN Append(s, m) = 1..(Len(s) + 1)
           /\ \A k \in 1..Len(s) : Append(s, m)[k] = s[k]
           /\ s # <<>> => Head(Append(s, m)) = Head(s)
<1>1. /\ Append(s, m) \in Seq(S)
      /\ Len(Append(s, m)) = Len(s) + 1 /\ Append(s, m)[Len(s) + 1] = m
      /\ Len(s) \in Nat /\ DOMAIN s = 1..Len(s)
      /\ DOMAIN Append(s, m) = 1..(Len(s) + 1)
      /\ \A k \in 1..Len(s) : Append(s, m)[k] = s[k]
  OBVIOUS
<1>2. Append(s, m) # <<>>
  BY <1>1
<1>3. s # <<>> => Head(Append(s, m)) = Head(s)
  BY <1>1
<1> QED BY <1>1, <1>2, <1>3

LEMMA TailPositions ==
    ASSUME NEW S, NEW s \in Seq(S), s # <<>>
    PROVE  /\ Tail(s) \in Seq(S)
           /\ Len(s) \in Nat \ {0} /\ DOMAIN s = 1..Len(s)
           /\ Len(Tail(s)) = Len(s) - 1 /\ DOMAIN Tail(s) = 1..(Len(s) - 1)
           /\ \A k \in 1..(Len(s) - 1) : Tail(s)[k] = s[k + 1]
           /\ Head(s) = s[1] /\ Head(s) \in S
           /\ Len(s) >= 2 => Tail(s) # <<>> /\ Head(Tail(s)) = s[2]
<1>1. /\ Tail(s) \in Seq(S)
      /\ Len(s) \in Nat \ {0} /\ DOMAIN s = 1..Len(s)
      /\ Len(Tail(s)) = Len(s) - 1 /\ DOMAIN Tail(s) = 1..(Len(s) - 1)
      /\ \A k \in 1..(Len(s) - 1) : Tail(s)[k] = s[k + 1]
      /\ Head(s) = s[1] /\ Head(s) \in S
  OBVIOUS
<1>2. ASSUME NEW t \in Seq(S), Len(t) >= 1 PROVE t # <<>> /\ Head(t) = t[1]
  BY <1>2
<1>3. ASSUME Len(s) >= 2 PROVE Tail(s) # <<>> /\ Head(Tail(s)) = s[2]
  <2>1. Len(Tail(s)) >= 1 /\ Tail(s)[1] = s[2]
    BY <1>1, <1>3
  <2> QED BY <1>1, <1>2, <2>1
<1> QED BY <1>1, <1>3

LEMMA PutPart ==
    ASSUME NEW W, NEW P, NEW ch \in ChannelsOf(W, P), NEW w \in W, NEW m \in P
    PROVE  /\ Put(ch, w, m) \in ChannelsOf(W, P)
           /\ Put(ch, w, m)[w] = Append(ch[w], m)
           /\ \A v \in W \ {w} : Put(ch, w, m)[v] = ch[v]
           /\ ImagesOf(Put(ch, w, m)) = ImagesOf(ch) \union {j \in Nat : m = D!ImagePart(j)}
           /\ SingleParts(ch) /\ (\A j \in ImagesOf(ch) : m # D!ImagePart(j))
                 => SingleParts(Put(ch, w, m))
<1> DEFINE c == Put(ch, w, m)
<1>1. /\ c \in ChannelsOf(W, P) /\ c[w] = Append(ch[w], m)
      /\ \A v \in W \ {w} : c[v] = ch[v]
      /\ DOMAIN ch = W /\ DOMAIN c = W
      /\ ch[w] \in Seq(P)
  BY DEF Put, ChannelsOf
<1> HIDE DEF c
<1>2. ASSUME NEW v \in W
      PROVE  /\ \A k \in DOMAIN ch[v] : k \in DOMAIN c[v] /\ c[v][k] = ch[v][k]
             /\ \A k \in DOMAIN c[v] : k \in DOMAIN ch[v] \/ (v = w /\ k = Len(ch[w]) + 1 /\ c[v][k] = m)
  <2>1. CASE v = w
    BY <1>1, <2>1, AppendedPositions
  <2>2. CASE v # w
    BY <1>1, <2>2
  <2> QED BY <2>1, <2>2
<1>3. Len(ch[w]) + 1 \in DOMAIN c[w] /\ c[w][Len(ch[w]) + 1] = m
  BY <1>1, AppendedPositions
<1>4. ImagesOf(c) = ImagesOf(ch) \union {j \in Nat : m = D!ImagePart(j)}
  <2>1. ImagesOf(c) \subseteq ImagesOf(ch) \union {j \in Nat : m = D!ImagePart(j)}
    BY <1>1, <1>2 DEF ImagesOf
  <2>2. ImagesOf(ch) \subseteq ImagesOf(c)
    BY <1>1, <1>2 DEF ImagesOf
  <2>3. \A j \in Nat : m = D!ImagePart(j) => j \in ImagesOf(c)
    BY <1>1, <1>3 DEF ImagesOf
  <2> QED BY <2>1, <2>2, <2>3
<1>5. ASSUME SingleParts(ch), \A j \in ImagesOf(ch) : m # D!ImagePart(j)
      PROVE  SingleParts(c)
  <2>1. ASSUME NEW v \in W, NEW k \in DOMAIN ch[v], NEW j \in Nat, m = D!ImagePart(j)
        PROVE  ch[v][k] # D!ImagePart(j)
    BY <1>1, <1>5, <2>1 DEF ImagesOf
  <2>2. ASSUME NEW u \in W, NEW v \in W, NEW k \in DOMAIN c[u], NEW l \in DOMAIN c[v],
               NEW j \in Nat, c[u][k] = D!ImagePart(j), c[v][l] = D!ImagePart(j)
        PROVE  u = v /\ k = l
    <3>1. CASE k \in DOMAIN ch[u] /\ l \in DOMAIN ch[v]
      BY <1>1, <1>2, <1>5, <2>2, <3>1 DEF SingleParts
    <3>2. CASE k \in DOMAIN ch[u] /\ l \notin DOMAIN ch[v]
      BY <1>2, <2>1, <2>2, <3>2
    <3>3. CASE k \notin DOMAIN ch[u] /\ l \in DOMAIN ch[v]
      BY <1>2, <2>1, <2>2, <3>3
    <3>4. CASE k \notin DOMAIN ch[u] /\ l \notin DOMAIN ch[v]
      BY <1>2, <3>4
    <3> QED BY <3>1, <3>2, <3>3, <3>4
  <2> QED BY <1>1, <2>2 DEF SingleParts
<1> QED BY <1>1, <1>4, <1>5 DEF c

LEMMA DropPart ==
    ASSUME NEW W, NEW P, NEW ch \in ChannelsOf(W, P), NEW w \in W, ch[w] # <<>>
    PROVE  /\ Drop(ch, w) \in ChannelsOf(W, P)
           /\ Drop(ch, w)[w] = Tail(ch[w])
           /\ \A v \in W \ {w} : Drop(ch, w)[v] = ch[v]
           /\ ImagesOf(ch) = ImagesOf(Drop(ch, w)) \union {j \in Nat : Head(ch[w]) = D!ImagePart(j)}
           /\ (\A j : Head(ch[w]) # D!ImagePart(j)) => ImagesOf(Drop(ch, w)) = ImagesOf(ch)
           /\ SingleParts(ch) =>
                 /\ SingleParts(Drop(ch, w))
                 /\ \A j \in ImagesOf(Drop(ch, w)) : Head(ch[w]) # D!ImagePart(j)
<1> DEFINE c == Drop(ch, w)
           at(v, k) == IF v = w THEN k + 1 ELSE k
<1>1. /\ c \in ChannelsOf(W, P) /\ c[w] = Tail(ch[w])
      /\ \A v \in W \ {w} : c[v] = ch[v]
      /\ DOMAIN ch = W /\ DOMAIN c = W
      /\ ch[w] \in Seq(P)
  BY DEF Drop, ChannelsOf
<1> HIDE DEF c
<1>2. ASSUME NEW v \in W, NEW k \in DOMAIN c[v]
      PROVE  /\ at(v, k) \in DOMAIN ch[v] /\ c[v][k] = ch[v][at(v, k)]
             /\ v = w => at(v, k) # 1 /\ k \in Nat
  <2>1. CASE v = w
    BY <1>1, <1>2, <2>1, TailPositions
  <2>2. CASE v # w
    BY <1>1, <1>2, <2>2
  <2> QED BY <2>1, <2>2
<1>3. ASSUME NEW v \in W, NEW k \in DOMAIN ch[v]
      PROVE  (v = w /\ k = 1 /\ ch[v][k] = Head(ch[w])) \/ \E l \in DOMAIN c[v] : c[v][l] = ch[v][k]
  <2>1. CASE v = w /\ k = 1
    BY <1>1, <2>1, TailPositions
  <2>2. CASE v = w /\ k # 1
    <3>1. k - 1 \in DOMAIN Tail(ch[w]) /\ Tail(ch[w])[k - 1] = ch[w][k]
      BY <1>1, <1>3, <2>2, TailPositions
    <3> QED BY <1>1, <2>2, <3>1
  <2>3. CASE v # w
    BY <1>1, <1>3, <2>3
  <2> QED BY <2>1, <2>2, <2>3
<1>4. 1 \in DOMAIN ch[w] /\ ch[w][1] = Head(ch[w])
  BY <1>1, TailPositions
<1>5. ImagesOf(ch) = ImagesOf(c) \union {j \in Nat : Head(ch[w]) = D!ImagePart(j)}
  <2>1. ImagesOf(ch) \subseteq ImagesOf(c) \union {j \in Nat : Head(ch[w]) = D!ImagePart(j)}
    BY <1>1, <1>3 DEF ImagesOf
  <2>2. ImagesOf(c) \subseteq ImagesOf(ch)
    <3> HIDE DEF at
    <3> QED BY <1>1, <1>2 DEF ImagesOf
  <2>3. \A j \in Nat : Head(ch[w]) = D!ImagePart(j) => j \in ImagesOf(ch)
    BY <1>1, <1>4 DEF ImagesOf
  <2> QED BY <2>1, <2>2, <2>3
<1>6. ASSUME SingleParts(ch) PROVE SingleParts(c)
  <2>1. ASSUME NEW u \in W, NEW v \in W, NEW k \in DOMAIN c[u], NEW l \in DOMAIN c[v],
               NEW j \in Nat, c[u][k] = D!ImagePart(j), c[v][l] = D!ImagePart(j)
        PROVE  u = v /\ k = l
    <3>1. u = v /\ at(u, k) = at(v, l)
      <4> HIDE DEF at
      <4> QED BY <1>1, <1>2, <1>6, <2>1 DEF SingleParts
    <3> QED BY <1>2, <3>1
  <2> QED BY <1>1, <2>1 DEF SingleParts
<1>7. ASSUME SingleParts(ch), NEW j \in ImagesOf(c) PROVE Head(ch[w]) # D!ImagePart(j)
  <2>1. PICK v \in W : \E k \in DOMAIN c[v] : c[v][k] = D!ImagePart(j)
    BY <1>1, <1>7 DEF ImagesOf
  <2>2. PICK k \in DOMAIN c[v] : c[v][k] = D!ImagePart(j)
    BY <2>1
  <2>3. j \in Nat
    BY <1>7 DEF ImagesOf
  <2>4. ASSUME Head(ch[w]) = D!ImagePart(j) PROVE v = w /\ at(v, k) = 1
    <3> HIDE DEF at
    <3> QED BY <1>1, <1>2, <1>4, <1>7, <2>2, <2>3, <2>4 DEF SingleParts
  <2> QED BY <1>2, <2>2, <2>4
<1>8. (\A j : Head(ch[w]) # D!ImagePart(j)) => ImagesOf(c) = ImagesOf(ch)
  BY <1>5
<1> QED BY <1>1, <1>5, <1>6, <1>7, <1>8 DEF c

\* Two parts are sent at once.
LEMMA PutTwoParts ==
    ASSUME NEW W, NEW P, NEW ch \in ChannelsOf(W, P), NEW w \in W, NEW j \in Nat,
           D!ImagePart(j) \in P, D!NamePart(j) \in P,
           SingleParts(ch), j \notin ImagesOf(ch),
           NEW c, c = Put(Put(ch, w, D!ImagePart(j)), w, D!NamePart(j))
    PROVE  /\ c \in ChannelsOf(W, P)
           /\ c[w] = Append(Append(ch[w], D!ImagePart(j)), D!NamePart(j))
           /\ Append(ch[w], D!ImagePart(j)) \in Seq(P)
           /\ \A v \in W \ {w} : c[v] = ch[v]
           /\ ToSet(c[w]) = ToSet(ch[w]) \union {D!ImagePart(j), D!NamePart(j)}
           /\ ImagesOf(c) = ImagesOf(ch) \union {j} /\ SingleParts(c)
<1> DEFINE a == Put(ch, w, D!ImagePart(j))
           b == Put(a, w, D!NamePart(j))
<1>1. ch[w] \in Seq(P) /\ DOMAIN ch = W
  BY DEF ChannelsOf
<1>2. /\ a \in ChannelsOf(W, P) /\ a[w] = Append(ch[w], D!ImagePart(j))
      /\ \A v \in W \ {w} : a[v] = ch[v]
      /\ ImagesOf(a) = ImagesOf(ch) \union {j} /\ SingleParts(a)
  <2>1. \A n : D!ImagePart(j) = D!ImagePart(n) <=> j = n
    BY PartsDiffer
  <2> QED BY <2>1, PutPart
<1>3. c = b
  OBVIOUS
<1> HIDE DEF a
<1>4. /\ b \in ChannelsOf(W, P) /\ b[w] = Append(a[w], D!NamePart(j))
      /\ \A v \in W \ {w} : b[v] = a[v]
      /\ ImagesOf(b) = ImagesOf(a) /\ SingleParts(b)
  <2>1. /\ {n \in Nat : D!NamePart(j) = D!ImagePart(n)} = {}
        /\ \A n \in ImagesOf(a) : D!NamePart(j) # D!ImagePart(n)
    BY PartsDiffer
  <2>2. /\ Put(a, w, D!NamePart(j)) \in ChannelsOf(W, P)
        /\ Put(a, w, D!NamePart(j))[w] = Append(a[w], D!NamePart(j))
        /\ \A v \in W \ {w} : Put(a, w, D!NamePart(j))[v] = a[v]
    BY <1>2, PutPart
  <2>3. /\ ImagesOf(Put(a, w, D!NamePart(j))) = ImagesOf(a) \union {}
        /\ SingleParts(Put(a, w, D!NamePart(j)))
    BY <1>2, <2>1, PutPart
  <2> QED BY <2>2, <2>3
<1>5. ToSet(b[w]) = ToSet(ch[w]) \union {D!ImagePart(j), D!NamePart(j)}
  <2>1. a[w] \in Seq(P) /\ ToSet(a[w]) = ToSet(ch[w]) \union {D!ImagePart(j)}
    BY <1>1, <1>2, ToSetOfAppend, AppendedPositions
  <2> QED BY <1>4, <2>1, ToSetOfAppend
<1>6. Append(ch[w], D!ImagePart(j)) \in Seq(P)
  BY <1>1
<1> QED BY <1>2, <1>3, <1>4, <1>5, <1>6

LEMMA MarkStaysLast ==
    ASSUME NEW S, NEW s \in Seq(S), MarkAtEnd(s)
    PROVE  /\ \A m \in S : D!Mark \notin ToSet(s) => MarkAtEnd(Append(s, m))
           /\ s # <<>> => MarkAtEnd(Tail(s)) /\ (Head(s) = D!Mark => Tail(s) = <<>>)
<1>1. ASSUME NEW m \in S, D!Mark \notin ToSet(s) PROVE MarkAtEnd(Append(s, m))
  BY <1>1, AppendedPositions DEF MarkAtEnd, ToSet
<1>2. ASSUME s # <<>> PROVE MarkAtEnd(Tail(s))
  BY <1>2, TailPositions DEF MarkAtEnd
<1>3. ASSUME s # <<>>, Head(s) = D!Mark PROVE Tail(s) = <<>>
  BY <1>3, TailPositions DEF MarkAtEnd
<1> QED BY <1>1, <1>2, <1>3

LEMMA NamesFollowOn ==
    ASSUME NEW S, NEW s \in Seq(S), NamesFollow(s)
    PROVE  /\ D!Mark \in S => NamesFollow(Append(s, D!Mark))
           /\ \A j : D!ImagePart(j) \in S /\ D!NamePart(j) \in S
                        => NamesFollow(Append(Append(s, D!ImagePart(j)), D!NamePart(j)))
           /\ s # <<>> => NamesFollow(Tail(s))
<1>1. ASSUME D!Mark \in S PROVE NamesFollow(Append(s, D!Mark))
  BY <1>1, AppendedPositions, PartsDiffer DEF NamesFollow
<1>2. ASSUME NEW j, D!ImagePart(j) \in S, D!NamePart(j) \in S
      PROVE  NamesFollow(Append(Append(s, D!ImagePart(j)), D!NamePart(j)))
  <2> DEFINE t == Append(s, D!ImagePart(j))
             u == Append(t, D!NamePart(j))
  <2>1. t \in Seq(S) /\ u \in Seq(S)
    BY <1>2, AppendedPositions
  <2>2. /\ Len(t) = Len(s) + 1 /\ t[Len(s) + 1] = D!ImagePart(j)
        /\ \A k \in 1..Len(s) : t[k] = s[k]
    BY <1>2, AppendedPositions
  <2>3. /\ DOMAIN u = 1..(Len(t) + 1) /\ u[Len(t) + 1] = D!NamePart(j)
        /\ \A k \in 1..Len(t) : u[k] = t[k]
    BY <1>2, <2>1, AppendedPositions
  <2>4. Len(s) \in Nat /\ DOMAIN s = 1..Len(s)
    OBVIOUS
  <2> HIDE DEF t, u
  <2>5. \A k \in DOMAIN u : k \in 1..Len(s) \/ k = Len(s) + 1 \/ k = Len(s) + 2
    BY <2>2, <2>3, <2>4
  <2>6. ASSUME NEW k \in DOMAIN u, NEW n \in Nat, u[k] = D!ImagePart(n)
        PROVE  k + 1 \in DOMAIN u /\ u[k + 1] = D!NamePart(n)
    <3>1. CASE k \in 1..Len(s)
      <4>1. s[k] = D!ImagePart(n)
        BY <2>2, <2>3, <2>4, <2>6, <3>1
      <4>2. k + 1 \in 1..Len(s) /\ s[k + 1] = D!NamePart(n)
        BY <2>4, <3>1, <4>1 DEF NamesFollow
      <4> QED BY <2>2, <2>3, <2>4, <4>2
    <3>2. CASE k = Len(s) + 1
      <4>1. u[k] = D!ImagePart(j) /\ u[k + 1] = D!NamePart(j) /\ k + 1 \in DOMAIN u
        BY <2>2, <2>3, <2>4, <3>2
      <4> QED BY <2>6, <4>1, PartsDiffer
    <3>3. CASE k = Len(s) + 2
      <4>1. u[k] = D!NamePart(j)
        BY <2>2, <2>3, <2>4, <3>3
      <4> QED BY <2>6, <4>1, PartsDiffer
    <3> QED BY <2>5, <3>1, <3>2, <3>3
  <2> QED BY <2>6 DEF NamesFollow, u, t
<1>3. ASSUME s # <<>> PROVE NamesFollow(Tail(s))
  <2>1. ASSUME NEW k \in DOMAIN Tail(s), NEW n \in Nat, Tail(s)[k] = D!ImagePart(n)
        PROVE  k + 1 \in DOMAIN Tail(s) /\ Tail(s)[k + 1] = D!NamePart(n)
    <3>1. k \in 1..(Len(s) - 1) /\ k + 1 \in DOMAIN s /\ s[k + 1] = D!ImagePart(n)
      BY <1>3, <2>1, TailPositions
    <3>2. k + 2 \in DOMAIN s /\ s[k + 2] = D!NamePart(n)
      BY <3>1 DEF NamesFollow
    <3>3. k + 1 \in 1..(Len(s) - 1)
      BY <1>3, <3>1, <3>2, TailPositions
    <3> QED BY <1>3, <3>2, <3>3, TailPositions
  <2> QED BY <2>1 DEF NamesFollow
<1> QED BY <1>1, <1>2, <1>3

\* More may be handed to the transport, and the partner may read.
LEMMA NamesArriveStill ==
    ASSUME NEW S, NEW T, NEW s \in Seq(S), NEW unsent \in Seq(T), NEW names,
           NamesArrive(names, s, unsent)
    PROVE  /\ \A m \in T : NamesArrive(names, s, Append(unsent, m))
           /\ s # <<>> => NamesArrive(names, Tail(s), unsent)
<1>1. ASSUME NEW m \in T PROVE NamesArrive(names, s, Append(unsent, m))
  BY AppendedPositions DEF NamesArrive
<1>2. ASSUME s # <<>> PROVE NamesArrive(names, Tail(s), unsent)
  <2>1. ASSUME NEW k \in DOMAIN Tail(s), NEW n \in Nat, Tail(s)[k] = D!ImagePart(n)
        PROVE  IF k < Len(Tail(s))
               THEN Tail(s)[k + 1] \in {D!NamePart(names[n]), D!NamePart(Stale)}
               ELSE unsent # <<>> /\ Head(unsent) = D!NamePart(n)
    <3>1. k \in 1..(Len(s) - 1) /\ k + 1 \in DOMAIN s /\ s[k + 1] = D!ImagePart(n)
      BY <1>2, <2>1, TailPositions
    <3>2. IF k + 1 < Len(s) THEN s[k + 2] \in {D!NamePart(names[n]), D!NamePart(Stale)}
          ELSE unsent # <<>> /\ Head(unsent) = D!NamePart(n)
      BY <3>1 DEF NamesArrive
    <3>3. k < Len(Tail(s)) <=> k + 1 < Len(s)
      BY <1>2, <3>1, TailPositions
    <3>4. k < Len(Tail(s)) => Tail(s)[k + 1] = s[k + 2]
      BY <1>2, <3>1, TailPositions
    <3> QED BY <3>2, <3>3, <3>4
  <2> QED BY <2>1 DEF NamesArrive
<1> QED BY <1>1, <1>2

\* The transport sends a part. If the last that has arrived is an image, it is
\* the image's name.
LEMMA NamesArriveNext ==
    ASSUME NEW S, NEW T, NEW s \in Seq(S), NEW unsent \in Seq(T), NEW names, NEW m \in S,
           NamesArrive(names, s, unsent), NamesFollow(unsent), unsent # <<>>,
           \A j : Head(unsent) = D!NamePart(j) =>
                      m \in {D!NamePart(names[j]), D!NamePart(Stale)},
           (\A j : Head(unsent) # D!NamePart(j)) => m = Head(unsent)
    PROVE  NamesArrive(names, Append(s, m), Tail(unsent))
<1> DEFINE t == Append(s, m)
<1>1. /\ Len(t) = Len(s) + 1 /\ t[Len(s) + 1] = m
      /\ DOMAIN t = 1..(Len(s) + 1) /\ Len(s) \in Nat
      /\ DOMAIN s = 1..Len(s)
      /\ \A k \in 1..Len(s) : t[k] = s[k]
  BY AppendedPositions
<1> HIDE DEF t
<1>2. ASSUME NEW k \in DOMAIN t, NEW n \in Nat, t[k] = D!ImagePart(n)
      PROVE  IF k < Len(t) THEN t[k + 1] \in {D!NamePart(names[n]), D!NamePart(Stale)}
             ELSE Tail(unsent) # <<>> /\ Head(Tail(unsent)) = D!NamePart(n)
  <2>1. CASE k < Len(s)
    <3>1. k \in DOMAIN s /\ s[k] = D!ImagePart(n) /\ t[k + 1] = s[k + 1] /\ k < Len(t)
      BY <1>1, <1>2, <2>1
    <3> QED BY <2>1, <3>1 DEF NamesArrive
  <2>2. CASE k = Len(s)
    <3>1. k \in DOMAIN s /\ s[k] = D!ImagePart(n) /\ t[k + 1] = m /\ k < Len(t)
      BY <1>1, <1>2, <2>2
    <3>2. Head(unsent) = D!NamePart(n)
      BY <1>1, <2>2, <3>1 DEF NamesArrive
    <3> QED BY <3>1, <3>2
  <2>3. CASE k = Len(s) + 1
    <3>1. m = D!ImagePart(n)
      BY <1>1, <1>2, <2>3
    <3>2. Head(unsent) = D!ImagePart(n)
      BY <3>1, PartsDiffer
    <3>3. 1 \in DOMAIN unsent /\ unsent[1] = D!ImagePart(n)
      BY <3>2, TailPositions
    <3>4. 1 + 1 \in DOMAIN unsent /\ unsent[1 + 1] = D!NamePart(n)
      BY <1>2, <3>3 DEF NamesFollow
    <3>5. Tail(unsent) # <<>> /\ Head(Tail(unsent)) = D!NamePart(n)
      BY <3>4, TailPositions
    <3>6. ~(k < Len(t))
      BY <1>1, <2>3
    <3> QED BY <3>5, <3>6
  <2> QED BY <1>1, <1>2, <2>1, <2>2, <2>3
<1> QED BY <1>2 DEF NamesArrive, t

\* EOS on every channel.
LEMMA EosOnEveryChannel ==
    ASSUME NEW W, NEW S, NEW ch \in ChannelsOf(W, S \union {EOS}), EOS \notin S
    PROVE  LET c == [w \in W |-> Append(ch[w], EOS)]
           IN  /\ c \in ChannelsOf(W, S \union {EOS})
               /\ \A w \in W : c[w] = Append(ch[w], EOS)
               /\ In(c) = In(ch)
               /\ NoCopies(ch) => NoCopies(c)
<1> DEFINE c == [w \in W |-> Append(ch[w], EOS)]
<1>1. /\ DOMAIN ch = W /\ DOMAIN c = W
      /\ c \in ChannelsOf(W, S \union {EOS})
      /\ \A w \in W : ch[w] \in Seq(S \union {EOS}) /\ c[w] = Append(ch[w], EOS)
  BY DEF ChannelsOf
<1> HIDE DEF c
<1>2. ASSUME NEW w \in W
      PROVE  /\ \A k \in DOMAIN c[w] : c[w][k] # EOS => k \in DOMAIN ch[w] /\ c[w][k] = ch[w][k]
             /\ ToSet(c[w]) = ToSet(ch[w]) \union {EOS}
  <2>1. ch[w] \in Seq(S \union {EOS}) /\ c[w] = Append(ch[w], EOS)
    BY <1>1
  <2> QED BY <2>1, AppendedPositions, ToSetOfAppend
<1>3. In(c) = In(ch)
  BY <1>1, <1>2 DEF In
<1>4. ASSUME NoCopies(ch) PROVE NoCopies(c)
  BY <1>1, <1>2, <1>4 DEF NoCopies
<1> QED BY <1>1, <1>3, <1>4 DEF c

----------------------------------------------------------------------------
\* Every step keeps HostsInv: first of all what the assumption says.

LEMMA MaxOfHosts ==
    ASSUME NEW a \in Nat, NEW b \in Nat
    PROVE  D!Max({a, b}) = IF a >= b THEN a ELSE b
BY DEF D!Max

LEMMA HostFacts ==
    ASSUME D!ImgDAssumption, HostsType
    PROVE  /\ both.nwA \in Nat \ {0} /\ both.nwB \in Nat \ {0}
           /\ StartedA \subseteq Ends /\ StartedB \subseteq Ends
           /\ Len(D!images) \in Nat /\ D!images \in Seq(STRING) /\ sent \in Nat
           /\ Sent \subseteq Nat /\ EOS \notin Sent
           /\ D!WorkersA = StartedA /\ D!WorkersB = StartedB
           /\ DOMAIN toBlur = StartedA /\ DOMAIN outbox = StartedA
           /\ DOMAIN wire = Ends /\ DOMAIN toCollector = StartedB
           /\ \A w \in StartedA : toBlur[w] \in Seq(Sent \union {EOS})
           /\ \A w \in StartedA : outbox[w] \in Seq(Parts(Sent, Sent))
           /\ \A w \in Ends : wire[w] \in Seq(Parts(Sent, {Names[j] : j \in Sent} \union {Stale}))
           /\ \A w \in StartedB : toCollector[w] \in Seq(Sent \union {EOS})
           /\ \A j \in Sent : Names[j] = D!Name(j)
<1>1. /\ both.nwA \in Nat \ {0} /\ both.nwB \in Nat \ {0} /\ D!images \in Seq(STRING)
  BY DEF D!ImgDAssumption, HostsType, D!images
<1>2. Len(D!images) \in Nat
  BY <1>1
<1>3. sent \in Nat /\ Sent \subseteq Nat /\ EOS \notin Sent
  BY <1>2, EOSAssumption DEF HostsType, Sent
<1>4. StartedA \subseteq Ends /\ StartedB \subseteq Ends
  BY <1>1, MaxOfHosts DEF StartedA, StartedB, Ends
<1>5. /\ D!WorkersA = StartedA /\ D!WorkersB = StartedB
      /\ DOMAIN toBlur = StartedA /\ DOMAIN outbox = StartedA
      /\ DOMAIN wire = Ends /\ DOMAIN toCollector = StartedB
      /\ \A w \in StartedA : toBlur[w] \in Seq(Sent \union {EOS})
      /\ \A w \in StartedA : outbox[w] \in Seq(Parts(Sent, Sent))
      /\ \A w \in Ends : wire[w] \in Seq(Parts(Sent, {Names[j] : j \in Sent} \union {Stale}))
      /\ \A w \in StartedB : toCollector[w] \in Seq(Sent \union {EOS})
  BY DEF HostsType, ChannelsOf, D!WorkersA, D!WorkersB
<1>6. \A j \in Sent : Names[j] = D!Name(j)
  BY <1>3 DEF Names
<1> QED BY <1>1, <1>2, <1>3, <1>4, <1>5, <1>6

\* A family without channels, or with empty ones.
LEMMA NothingThere ==
    ASSUME NEW W, NEW S, NEW ch \in ChannelsOf(W, S), \A w \in W : ch[w] = <<>>
    PROVE  /\ In(ch) = {} /\ ImagesOf(ch) = {}
           /\ NoCopies(ch) /\ SingleParts(ch)
<1>1. DOMAIN ch = W
  BY DEF ChannelsOf
<1>2. \A w \in W : ToSet(ch[w]) = {} /\ DOMAIN ch[w] = {}
  BY ToSetOfEmpty
<1>3. In(ch) = {}
  BY <1>1, <1>2 DEF In
<1>4. ImagesOf(ch) = {}
  BY <1>1, <1>2 DEF ImagesOf
<1>5. NoCopies(ch)
  BY <1>1, <1>2 DEF NoCopies
<1>6. SingleParts(ch)
  BY <1>1, <1>2 DEF SingleParts
<1> QED BY <1>3, <1>4, <1>5, <1>6

LEMMA TypedContents ==
    ASSUME NEW W, NEW S
    PROVE  /\ \A ch \in ChannelsOf(W, S \union {EOS}) : In(ch) \subseteq S
           /\ \A N : \A ch \in ChannelsOf(W, Parts(S, N)) : ImagesOf(ch) \subseteq S
<1>1. ASSUME NEW ch \in ChannelsOf(W, S \union {EOS}) PROVE In(ch) \subseteq S
  BY ToSetOfSeq DEF In, ChannelsOf
<1>2. ASSUME NEW N, NEW ch \in ChannelsOf(W, Parts(S, N)) PROVE ImagesOf(ch) \subseteq S
  <2>1. \A w \in DOMAIN ch : \A k \in DOMAIN ch[w] : ch[w][k] \in Parts(S, N)
    BY DEF ChannelsOf
  <2>2. \A n : D!ImagePart(n) \in Parts(S, N) => n \in S
    BY PartsDiffer DEF Parts
  <2> QED BY <2>1, <2>2 DEF ImagesOf
<1> QED BY <1>1, <1>2

LEMMA EmptyChannels ==
    ASSUME NEW W, NEW S
    PROVE  [w \in W |-> <<>>] \in ChannelsOf(W, S)
BY DEF ChannelsOf

LEMMA NoChannels == \A S : <<>> \in ChannelsOf({}, S)
BY DEF ChannelsOf

LEMMA HostsInit == ASSUME D!ImgDAssumption, D!Init PROVE HostsInv
<1>1. /\ both \in HostLines /\ sent = 0 /\ hostA = "parse" /\ hostB = "parse"
      /\ heapA = {} /\ callbacks = {} /\ eosSeen = {}
      /\ toBlur = <<>> /\ outbox = <<>> /\ toCollector = <<>> /\ heapB = <<>> /\ outB = <<>>
      /\ wire = [w \in Ends |-> <<>>]
  BY DEF D!Init, Ends
<1>2. Len(D!images) \in Nat
  BY <1>1 DEF D!ImgDAssumption, D!images
<1>3. Sent = {} /\ StartedA = {} /\ StartedB = {}
  BY <1>1, <1>2 DEF Sent, StartedA, StartedB
<1>4. HostsType
  BY <1>1, <1>2, <1>3, NoChannels, EmptyChannels DEF HostsType
<1>5. \A w \in Ends : wire[w] = <<>>
  BY <1>1
<1>6. DOMAIN heapB = {} /\ DOMAIN outB = {}
  BY <1>1
<1>7. \A w \in Ends : DOMAIN wire[w] = {} /\ ToSet(wire[w]) = {}
  BY <1>5, ToSetOfEmpty
<1>8. OneHost
  <2>1. In(toBlur) = {} /\ NoCopies(toBlur)
    BY <1>3, <1>4, NothingThere DEF HostsType
  <2>2. In(toCollector) = {} /\ NoCopies(toCollector)
    BY <1>3, <1>4, NothingThere DEF HostsType
  <2>3. ImagesOf(outbox) = {} /\ SingleParts(outbox)
    BY <1>3, <1>4, NothingThere DEF HostsType
  <2>4. ImagesOf(wire) = {} /\ SingleParts(wire)
    BY <1>4, <1>5, NothingThere DEF HostsType
  <2> QED BY <1>1, <1>6, <2>1, <2>2, <2>3, <2>4 DEF OneHost
<1>9. NamesKept
  BY <1>3, <1>6, <1>7 DEF NamesKept, NamesArrive
<1>10. Marked
  BY <1>1, <1>3, <1>7 DEF Marked, MarkAtEnd
<1>11. NothingLost
  BY <1>3 DEF NothingLost
<1> QED BY <1>4, <1>8, <1>9, <1>10, <1>11 DEF HostsInv

LEMMA MainAKeeps ==
    ASSUME D!ImgDAssumption, HostsInv, D!MainA
    PROVE  HostsInv'
<1>1. /\ hostA = "parse" /\ hostA' \in {"usage", "running"}
      /\ UNCHANGED <<both, sent, heapA, callbacks, hostB, heapB, toCollector, eosSeen, outB, wire>>
      /\ \/ hostA' = "usage" /\ UNCHANGED <<toBlur, outbox>>
         \/ /\ hostA' = "running"
            /\ toBlur' = [w \in 1..both.nwA |-> <<>>]
            /\ outbox' = [w \in 1..both.nwA |-> <<>>]
  BY DEF D!MainA, D!varsB
<1>2. HostsType
  BY DEF HostsInv
<1>3. StartedA = {} /\ UNCHANGED <<Sent, Ends, StartedB, D!images, Names>>
  BY <1>1 DEF StartedA, Sent, Ends, StartedB, D!images, Names, D!Name
<1>4. /\ toBlur' \in ChannelsOf(StartedA', Sent \union {EOS})
      /\ outbox' \in ChannelsOf(StartedA', Parts(Sent, Sent))
      /\ \A w \in StartedA' : toBlur'[w] = <<>> /\ outbox'[w] = <<>>
  <2>1. CASE hostA' = "usage"
    BY <1>1, <1>2, <1>3, <2>1 DEF HostsType, StartedA
  <2>2. CASE hostA' = "running"
    <3>1. StartedA' = 1..both.nwA
      BY <1>1, <2>2 DEF StartedA
    <3>2. toBlur' = [w \in StartedA' |-> <<>>] /\ outbox' = [w \in StartedA' |-> <<>>]
      BY <1>1, <2>2, <3>1
    <3> QED BY <3>2, EmptyChannels
  <2> QED BY <1>1, <2>1, <2>2
<1>5. HostsType'
  BY <1>1, <1>2, <1>3, <1>4 DEF HostsType
<1>6. /\ In(toBlur) = {} /\ ImagesOf(outbox) = {} 
      /\ In(toBlur)' = {} /\ ImagesOf(outbox)' = {} /\ NoCopies(toBlur)' /\ SingleParts(outbox)'
  <2>1. In(toBlur) = {}
    BY <1>2, <1>3, NothingThere DEF HostsType
  <2>2. ImagesOf(outbox) = {}
    BY <1>2, <1>3, NothingThere DEF HostsType
  <2>3. In(toBlur)' = {} /\ NoCopies(toBlur)'
    BY <1>4, NothingThere
  <2>4. ImagesOf(outbox)' = {} /\ SingleParts(outbox)'
    BY <1>4, NothingThere
  <2> QED BY <2>1, <2>2, <2>3, <2>4
<1>7. OneHost'
  <2>1. UNCHANGED <<ImagesOf(wire), In(toCollector), SingleParts(wire), NoCopies(toCollector)>>
    BY <1>1
  <2> QED BY <1>1, <1>3, <1>6, <2>1 DEF HostsInv, OneHost
<1>8. NamesKept'
  <2>1. \A w \in Ends : Unsent(w)' = Unsent(w)
    BY <1>3, <1>4 DEF Unsent
  <2>2. \A w \in StartedA' : NamesFollow(outbox[w])'
    BY <1>4 DEF NamesFollow
  <2>3. \A w \in Ends : NamesArrive(Names, wire[w], Unsent(w))'
    BY <1>1, <1>3, <2>1 DEF HostsInv, NamesKept
  <2> QED BY <1>1, <1>3, <2>2, <2>3 DEF HostsInv, NamesKept
<1>9. Marked'
  <2>1. \A w : ~Blurred(w) /\ ~Sending(w) /\ ~Crossed(w)
    BY <1>3 DEF Blurred, Sending, Crossed
  <2>2. \A w \in StartedA' : ToSet(toBlur'[w]) = {} /\ ToSet(outbox'[w]) = {}
    BY <1>4, ToSetOfEmpty
  <2>3. \A w \in StartedA' : EosAtEnd(toBlur'[w]) /\ MarkAtEnd(outbox'[w])
    BY <1>4, EosAtEndOfEmpty DEF MarkAtEnd
  <2> QED BY <1>1, <1>3, <2>1, <2>2, <2>3 DEF HostsInv, Marked
<1>10. NothingLost'
  <2>1. UNCHANGED <<ImagesOf(wire), In(toCollector)>>
    BY <1>1
  <2> QED BY <1>1, <1>3, <1>6, <2>1 DEF HostsInv, NothingLost
<1> QED BY <1>5, <1>7, <1>8, <1>9, <1>10 DEF HostsInv

LEMMA EmitKeeps ==
    ASSUME D!ImgDAssumption, HostsInv, hostA = "running", D!Emit
    PROVE  HostsInv'
<1> DEFINE j == sent + 1
<1>1. /\ sent < Len(D!images)
      /\ UNCHANGED <<both, outbox, callbacks, hostB, heapB, toCollector, eosSeen, outB, wire>>
      /\ \/ /\ D!images[j] \in Readable /\ hostA' = hostA
            /\ heapA' = heapA \union {j} /\ sent' = j
            /\ \E w \in D!WorkersA : toBlur' = Put(toBlur, w, j)
         \/ hostA' = "aborted" /\ UNCHANGED <<sent, heapA, toBlur>>
  BY SameChannels DEF D!Emit, D!varsB
<1>2. HostsType
  BY DEF HostsInv
<1>3. UNCHANGED <<StartedA, Ends, StartedB, D!images, Names>>
  BY <1>1 DEF StartedA, Ends, StartedB, D!images, Names, D!Name
<1>4. CASE hostA' = "aborted" /\ UNCHANGED <<sent, heapA, toBlur>>
  <2>1. UNCHANGED <<Sent, In(toBlur), ImagesOf(outbox), ImagesOf(wire), In(toCollector),
                    NoCopies(toBlur), SingleParts(outbox), SingleParts(wire), NoCopies(toCollector)>>
    BY <1>1, <1>3, <1>4 DEF Sent
  <2>2. \A w : /\ Unsent(w)' = Unsent(w) /\ Blurred(w)' = Blurred(w)
               /\ Sending(w)' = Sending(w) /\ Crossed(w)' = Crossed(w)
    BY <1>1, <1>3, <1>4 DEF Unsent, Blurred, Sending, Crossed
  <2>3. HostsType'
    BY <1>1, <1>2, <1>3, <1>4, <2>1 DEF HostsType
  <2>4. OneHost'
    BY <1>1, <1>4, <2>1 DEF HostsInv, OneHost
  <2>5. NamesKept'
    BY <1>1, <1>3, <2>1, <2>2 DEF HostsInv, NamesKept
  <2>6. Marked'
    BY <1>1, <1>3, <1>4, <2>2 DEF HostsInv, Marked
  <2>7. NothingLost'
    BY <1>1, <1>3, <2>1 DEF HostsInv, NothingLost
  <2> QED BY <2>3, <2>4, <2>5, <2>6, <2>7 DEF HostsInv
<1>5. ASSUME D!images[j] \in Readable, hostA' = hostA, heapA' = heapA \union {j}, sent' = j,
             NEW w \in D!WorkersA, toBlur' = Put(toBlur, w, j)
      PROVE  HostsInv'
  <2>1. /\ Sent' = Sent \union {j} /\ j \notin Sent /\ j \in Nat
        /\ w \in StartedA /\ EOS \notin Sent' /\ Len(D!images) \in Nat
        /\ ~(sent > Len(D!images)) /\ j <= Len(D!images)
    BY <1>1, <1>2, <1>3, <1>5, HostFacts, EOSAssumption DEF Sent
  <2>2. toBlur \in ChannelsOf(StartedA, Sent' \union {EOS})
    BY <1>2, <2>1 DEF HostsType, ChannelsOf
  <2>3. /\ outbox' \in ChannelsOf(StartedA, Parts(Sent', Sent'))
        /\ wire' \in ChannelsOf(Ends, Parts(Sent', {Names[n] : n \in Sent'} \union {Stale}))
        /\ toCollector' \in ChannelsOf(StartedB, Sent' \union {EOS})
    <3>1. Parts(Sent, Sent) \subseteq Parts(Sent', Sent')
      BY <2>1 DEF Parts
    <3>2. Parts(Sent, {Names[n] : n \in Sent} \union {Stale})
             \subseteq Parts(Sent', {Names[n] : n \in Sent'} \union {Stale})
      BY <2>1 DEF Parts
    <3>3. Sent \union {EOS} \subseteq Sent' \union {EOS}
      BY <2>1
    <3>4. \A W, S, T, ch : ch \in ChannelsOf(W, S) /\ S \subseteq T => ch \in ChannelsOf(W, T)
      BY DEF ChannelsOf
    <3> QED BY <1>1, <1>2, <3>1, <3>2, <3>3, <3>4 DEF HostsType
  <2>4. /\ toBlur' \in ChannelsOf(StartedA, Sent' \union {EOS})
        /\ In(toBlur') = In(toBlur) \union {j}
        /\ \A v \in StartedA \ {w} : toBlur'[v] = toBlur[v]
        /\ ToSet(toBlur'[w]) = ToSet(toBlur[w]) \union {j}
        /\ EOS \notin ToSet(toBlur[w]) => EosAtEnd(toBlur'[w])
    BY <1>5, <2>1, <2>2, PutProperties
  <2>5. /\ In(toBlur) \subseteq Sent /\ ImagesOf(outbox) \subseteq Sent /\ ImagesOf(wire) \subseteq Sent
        /\ DOMAIN heapB \subseteq Sent /\ callbacks \subseteq Sent
    <3>1. In(toBlur) \subseteq Sent
      BY <1>2, TypedContents DEF HostsType
    <3>2. ImagesOf(outbox) \subseteq Sent
      BY <1>2, TypedContents DEF HostsType
    <3>3. ImagesOf(wire) \subseteq Sent
      BY <1>2, TypedContents DEF HostsType
    <3> QED BY <1>2, <3>1, <3>2, <3>3 DEF HostsInv, OneHost, HostsType
  <2>6. NoCopies(toBlur')
    BY <1>5, <2>1, <2>2, <2>5, PutNoCopies DEF HostsInv, OneHost
  <2>7. UNCHANGED <<ImagesOf(outbox), ImagesOf(wire), In(toCollector),
                    SingleParts(outbox), SingleParts(wire), NoCopies(toCollector)>>
    BY <1>1
  <2>8. HostsType'
    <3>1. sent' \in 0..Len(D!images) + 1
      BY <1>1, <1>2, <1>5, <2>1
    <3>2. \A n \in Sent' : D!images[n] \in Readable
      BY <1>2, <1>5, <2>1 DEF HostsType
    <3> QED BY <1>1, <1>2, <1>3, <2>1, <2>3, <2>4, <3>1, <3>2 DEF HostsType
  <2>9. OneHost'
    BY <1>1, <1>5, <2>1, <2>4, <2>5, <2>6, <2>7 DEF HostsInv, OneHost
  <2>10. NamesKept'
    <3>1. \A v : Unsent(v)' = Unsent(v)
      BY <1>1, <1>3 DEF Unsent
    <3> QED BY <1>1, <1>3, <2>1, <3>1 DEF HostsInv, NamesKept
  <2>11. Marked'
    <3>1. \A v : ~Blurred(v) /\ ~Sending(v) /\ ~Crossed(v)
      BY <2>1 DEF Blurred, Sending, Crossed
    <3>2. EOS \notin ToSet(toBlur[w]) /\ EOS \notin ToSet(toBlur'[w]) /\ EosAtEnd(toBlur'[w])
      BY <2>1, <2>4, EOSAssumption DEF HostsInv, Marked
    <3>3. \A v \in StartedA : EosAtEnd(toBlur'[v]) /\ EOS \notin ToSet(toBlur'[v])
      BY <2>1, <2>4, <3>2 DEF HostsInv, Marked
    <3> QED BY <1>1, <1>3, <3>1, <3>3 DEF HostsInv, Marked
  <2>12. NothingLost'
    BY <1>1, <1>3, <2>1, <2>4, <2>7 DEF HostsInv, NothingLost
  <2> QED BY <2>8, <2>9, <2>10, <2>11, <2>12 DEF HostsInv
<1> QED BY <1>1, <1>4, <1>5

LEMMA EmitEosKeeps ==
    ASSUME D!ImgDAssumption, HostsInv, hostA = "running", D!EmitEos
    PROVE  HostsInv'
<1>1. /\ sent = Len(D!images) /\ sent' = sent + 1
      /\ toBlur' = [w \in StartedA |-> Append(toBlur[w], EOS)]
      /\ UNCHANGED <<both, hostA, heapA, outbox, callbacks, hostB, heapB, toCollector, eosSeen,
                     outB, wire>>
  BY HostFacts DEF D!EmitEos, D!varsB, HostsInv
<1>2. HostsType
  BY DEF HostsInv
<1>3. UNCHANGED <<StartedA, Ends, StartedB, D!images, Names>>
  BY <1>1 DEF StartedA, Ends, StartedB, D!images, Names, D!Name
<1>4. Len(D!images) \in Nat /\ UNCHANGED Sent
  BY <1>1, <1>2, <1>3, HostFacts DEF Sent
<1>5. /\ toBlur' \in ChannelsOf(StartedA, Sent \union {EOS})
      /\ \A w \in StartedA : toBlur'[w] = Append(toBlur[w], EOS)
      /\ In(toBlur') = In(toBlur) /\ NoCopies(toBlur')
  <2>1. toBlur \in ChannelsOf(StartedA, Sent \union {EOS}) /\ EOS \notin Sent
    BY <1>2, HostFacts DEF HostsType
  <2>2. NoCopies(toBlur)
    BY DEF HostsInv, OneHost
  <2> QED BY <1>1, <2>1, <2>2, EosOnEveryChannel
<1>6. UNCHANGED <<In(toBlur), ImagesOf(outbox), ImagesOf(wire), In(toCollector),
                  SingleParts(outbox), SingleParts(wire), NoCopies(toCollector)>>
  BY <1>1, <1>5
<1>7. HostsType'
  <2>1. sent' \in 0..Len(D!images) + 1
    BY <1>1, <1>4
  <2> QED BY <1>1, <1>2, <1>3, <1>4, <1>5, <2>1 DEF HostsType
<1>8. OneHost'
  BY <1>1, <1>4, <1>5, <1>6 DEF HostsInv, OneHost
<1>9. NamesKept'
  <2>1. \A v : Unsent(v)' = Unsent(v)
    BY <1>1, <1>3 DEF Unsent
  <2> QED BY <1>1, <1>3, <1>4, <2>1 DEF HostsInv, NamesKept
<1>10. Marked'
  <2>1. \A v : ~Blurred(v) /\ ~Sending(v) /\ ~Crossed(v)
    BY <1>1, <1>4 DEF Blurred, Sending, Crossed
  <2>2. sent' > Len(D!images)
    BY <1>1, <1>4
  <2>3. \A v \in StartedA : EosAtEnd(toBlur'[v])
    <3>1. TAKE v \in StartedA
    <3>2. EOS \notin ToSet(toBlur[v])
      BY <1>1, <1>4 DEF HostsInv, Marked
    <3>3. toBlur[v] \in Seq(Sent \union {EOS}) /\ EOS \in Sent \union {EOS}
      BY <1>2, HostFacts
    <3> QED BY <1>5, <3>2, <3>3, EosAtEndOfAppend
  <2> QED BY <1>1, <1>3, <2>1, <2>2, <2>3 DEF HostsInv, Marked
<1>11. NothingLost'
  BY <1>1, <1>3, <1>4, <1>6 DEF HostsInv, NothingLost
<1> QED BY <1>7, <1>8, <1>9, <1>10, <1>11 DEF HostsInv

LEMMA ExitAKeeps ==
    ASSUME D!ImgDAssumption, HostsInv, hostA = "running", D!ExitA
    PROVE  HostsInv'
<1>1. /\ hostA' = "exit"
      /\ UNCHANGED <<both, sent, heapA, toBlur, outbox, callbacks, hostB, heapB, toCollector,
                     eosSeen, outB, wire>>
  BY DEF D!ExitA, D!varsB
<1>2. UNCHANGED <<StartedA, Ends, StartedB, D!images, Names, Sent>>
  BY <1>1 DEF StartedA, Ends, StartedB, D!images, Names, D!Name, Sent
<1>3. \A w : /\ Unsent(w)' = Unsent(w) /\ Blurred(w)' = Blurred(w)
             /\ Sending(w)' = Sending(w) /\ Crossed(w)' = Crossed(w)
  BY <1>1, <1>2 DEF Unsent, Blurred, Sending, Crossed
<1>4. UNCHANGED <<In(toBlur), ImagesOf(outbox), ImagesOf(wire), In(toCollector),
                  NoCopies(toBlur), SingleParts(outbox), SingleParts(wire), NoCopies(toCollector)>>
  BY <1>1
<1>5. HostsType'
  BY <1>1, <1>2 DEF HostsInv, HostsType
<1>6. OneHost'
  BY <1>1, <1>2, <1>4 DEF HostsInv, OneHost
<1>7. NamesKept'
  BY <1>1, <1>2, <1>3 DEF HostsInv, NamesKept
<1>8. Marked'
  BY <1>1, <1>2, <1>3 DEF HostsInv, Marked
<1>9. NothingLost'
  BY <1>1, <1>2, <1>4 DEF HostsInv, NothingLost
<1> QED BY <1>5, <1>6, <1>7, <1>8, <1>9 DEF HostsInv

LEMMA BlurKeeps ==
    ASSUME D!ImgDAssumption, HostsInv, hostA = "running", NEW w \in D!WorkersA, D!Blur(w)
    PROVE  HostsInv'
<1>1. HostsType /\ w \in StartedA
  BY HostFacts DEF HostsInv
<1>2. PICK j \in Arrived(toBlur, w) : outbox' = [outbox EXCEPT ![w] = @ \o D!Parts(j)]
  BY SameChannels DEF D!Blur
<1>3. /\ toBlur' = Drop(toBlur, w)
      /\ UNCHANGED <<both, hostA, sent, heapA, callbacks, hostB, heapB, toCollector, eosSeen,
                     outB, wire>>
  BY SameChannels DEF D!Blur, D!varsB
<1>4. UNCHANGED <<StartedA, Ends, StartedB, D!images, Names, Sent>>
  BY <1>3 DEF StartedA, Ends, StartedB, D!images, Names, D!Name, Sent
<1> DEFINE OutParts == Parts(Sent, Sent)
<1>5. /\ Waiting(toBlur, w) /\ Head(toBlur[w]) = j /\ j # EOS /\ j \in Sent
      /\ j \in In(toBlur) /\ toBlur[w] # <<>>
  BY <1>1, <1>2, ArrivedProperties DEF HostsType, Waiting
<1>6. /\ D!ImagePart(j) \in OutParts /\ D!NamePart(j) \in OutParts /\ j \in Nat
      /\ outbox \in ChannelsOf(StartedA, OutParts) /\ outbox[w] \in Seq(OutParts)
  BY <1>1, <1>5, HostFacts DEF HostsType, Parts
<1>7. outbox' = Put(Put(outbox, w, D!ImagePart(j)), w, D!NamePart(j))
  <2>1. \A S : \A s \in Seq(S) : \A m, n \in S : s \o <<m, n>> = Append(Append(s, m), n)
    OBVIOUS
  <2>2. outbox[w] \o D!Parts(j) = Append(Append(outbox[w], D!ImagePart(j)), D!NamePart(j))
    BY <1>6, <2>1 DEF D!Parts
  <2> QED BY <1>2, <1>6, <2>2 DEF Put, ChannelsOf
<1>8. /\ toBlur' \in ChannelsOf(StartedA, Sent \union {EOS})
      /\ \A v \in StartedA \ {w} : toBlur'[v] = toBlur[v]
      /\ ToSet(toBlur'[w]) \subseteq ToSet(toBlur[w])
      /\ EosAtEnd(toBlur'[w])
      /\ In(toBlur) = In(toBlur') \union {j}
      /\ NoCopies(toBlur') /\ j \notin In(toBlur')
  <2>1. toBlur \in ChannelsOf(StartedA, Sent \union {EOS}) /\ EosAtEnd(toBlur[w]) /\ NoCopies(toBlur)
    BY <1>1 DEF HostsInv, HostsType, Marked, OneHost
  <2>2. NoCopies(toBlur') /\ j \notin In(toBlur')
    BY <1>1, <1>3, <1>5, <2>1, DropNoCopies
  <2>3. /\ toBlur' \in ChannelsOf(StartedA, Sent \union {EOS})
        /\ \A v \in StartedA \ {w} : toBlur'[v] = toBlur[v]
        /\ ToSet(toBlur'[w]) \subseteq ToSet(toBlur[w])
    BY <1>1, <1>3, <1>5, <2>1, DropProperties
  <2>4. EosAtEnd(toBlur'[w])
    BY <1>1, <1>3, <1>5, <2>1, DropProperties
  <2>5. In(toBlur) = In(toBlur') \union {j}
    BY <1>1, <1>3, <1>5, <2>1, DropProperties
  <2> QED BY <2>2, <2>3, <2>4, <2>5
<1>9. /\ outbox' \in ChannelsOf(StartedA, OutParts)
      /\ outbox'[w] = Append(Append(outbox[w], D!ImagePart(j)), D!NamePart(j))
      /\ Append(outbox[w], D!ImagePart(j)) \in Seq(OutParts)
      /\ \A v \in StartedA \ {w} : outbox'[v] = outbox[v]
      /\ ToSet(outbox'[w]) = ToSet(outbox[w]) \union {D!ImagePart(j), D!NamePart(j)}
      /\ ImagesOf(outbox') = ImagesOf(outbox) \union {j} /\ SingleParts(outbox')
  <2>1. SingleParts(outbox) /\ j \notin ImagesOf(outbox)
    BY <1>5 DEF HostsInv, OneHost
  <2> HIDE DEF OutParts
  <2>2. /\ outbox' \in ChannelsOf(StartedA, OutParts)
        /\ outbox'[w] = Append(Append(outbox[w], D!ImagePart(j)), D!NamePart(j))
        /\ Append(outbox[w], D!ImagePart(j)) \in Seq(OutParts)
        /\ \A v \in StartedA \ {w} : outbox'[v] = outbox[v]
    BY <1>1, <1>6, <1>7, <2>1, PutTwoParts
  <2>3. /\ ToSet(outbox'[w]) = ToSet(outbox[w]) \union {D!ImagePart(j), D!NamePart(j)}
        /\ ImagesOf(outbox') = ImagesOf(outbox) \union {j} /\ SingleParts(outbox')
    BY <1>1, <1>6, <1>7, <2>1, PutTwoParts
  <2> QED BY <2>2, <2>3
<1> HIDE DEF OutParts
<1>10. UNCHANGED <<ImagesOf(wire), In(toCollector), SingleParts(wire), NoCopies(toCollector)>>
  BY <1>3
<1>11. HostsType'
  BY <1>1, <1>3, <1>4, <1>8, <1>9 DEF HostsType, OutParts
<1>12. OneHost'
  BY <1>3, <1>4, <1>5, <1>8, <1>9, <1>10 DEF HostsInv, OneHost
<1>13. NamesKept'
  <2>1. NamesFollow(outbox'[w])
    BY <1>1, <1>6, <1>9, NamesFollowOn DEF HostsInv, NamesKept
  <2>2. NamesArrive(Names, wire[w], Unsent(w)')
    <3>1. NamesArrive(Names, wire[w], outbox[w]) /\ wire[w] \in Seq(Parts(Sent, {Names[n] : n \in Sent} \union {Stale}))
      BY <1>1, HostFacts DEF HostsInv, NamesKept, Unsent
    <3>2. Append(outbox[w], D!ImagePart(j)) \in Seq(OutParts)
      BY <1>9
    <3>3. NamesArrive(Names, wire[w], Append(outbox[w], D!ImagePart(j)))
      BY <1>6, <3>1, NamesArriveStill
    <3>4. NamesArrive(Names, wire[w], Append(Append(outbox[w], D!ImagePart(j)), D!NamePart(j)))
      <4>1. D!NamePart(j) \in OutParts
        BY <1>6
      <4> QED BY <3>1, <3>2, <3>3, <4>1, NamesArriveStill
    <3>5. NamesArrive(Names, wire[w], outbox'[w])
      BY <1>9, <3>4
    <3> QED BY <1>1, <1>4, <3>5 DEF Unsent
  <2>3. \A v : v # w => Unsent(v)' = Unsent(v)
    BY <1>4, <1>9 DEF Unsent
  <2> QED BY <1>3, <1>4, <1>9, <2>1, <2>2, <2>3 DEF HostsInv, NamesKept
<1>14. Marked'
  <2>1. ~Blurred(w) /\ ~Sending(w) /\ ~Crossed(w)
    BY <1>5 DEF Blurred, Sending, Crossed
  <2>2. \A v : v # w => /\ Blurred(v)' = Blurred(v) /\ Sending(v)' = Sending(v)
                        /\ Crossed(v)' = Crossed(v)
    BY <1>3, <1>4, <1>8, <1>9 DEF Blurred, Sending, Crossed
  <2>3. MarkAtEnd(outbox'[w]) /\ D!Mark \notin ToSet(outbox'[w])
    <3>1. D!Mark \notin ToSet(outbox[w])
      BY <1>1, <2>1 DEF HostsInv, Marked
    <3>2. D!Mark \notin ToSet(outbox'[w])
      BY <1>9, <3>1, PartsDiffer
    <3> QED BY <3>2 DEF MarkAtEnd, ToSet
  <2> QED BY <1>3, <1>4, <1>8, <1>9, <2>1, <2>2, <2>3 DEF HostsInv, Marked
<1>15. NothingLost'
  BY <1>3, <1>4, <1>8, <1>9, <1>10 DEF HostsInv, NothingLost
<1> QED BY <1>11, <1>12, <1>13, <1>14, <1>15 DEF HostsInv

LEMMA EndBlurKeeps ==
    ASSUME D!ImgDAssumption, HostsInv, hostA = "running", NEW w \in D!WorkersA, D!EndBlur(w)
    PROVE  HostsInv'
<1>1. HostsType /\ w \in StartedA
  BY HostFacts DEF HostsInv
<1>2. /\ Waiting(toBlur, w) /\ toBlur[w] # <<>> /\ Head(toBlur[w]) = EOS
      /\ toBlur' = Drop(toBlur, w)
      /\ outbox' = Put(outbox, w, D!Mark)
      /\ UNCHANGED <<both, hostA, sent, heapA, callbacks, hostB, heapB, toCollector, eosSeen,
                     outB, wire>>
  BY SameChannels DEF D!EndBlur, D!varsB, Put, Waiting
<1>3. UNCHANGED <<StartedA, Ends, StartedB, D!images, Names, Sent>>
  BY <1>2 DEF StartedA, Ends, StartedB, D!images, Names, D!Name, Sent
<1>4. /\ D!Mark \in Parts(Sent, Sent) /\ outbox \in ChannelsOf(StartedA, Parts(Sent, Sent))
      /\ outbox[w] \in Seq(Parts(Sent, Sent)) /\ toBlur[w] \in Seq(Sent \union {EOS})
  BY <1>1, HostFacts DEF HostsType, Parts
<1>5. /\ toBlur' \in ChannelsOf(StartedA, Sent \union {EOS})
      /\ \A v \in StartedA \ {w} : toBlur'[v] = toBlur[v]
      /\ toBlur'[w] = <<>>
      /\ In(toBlur') = In(toBlur)
      /\ NoCopies(toBlur')
  <2>1. toBlur \in ChannelsOf(StartedA, Sent \union {EOS}) /\ EosAtEnd(toBlur[w]) /\ NoCopies(toBlur)
    BY <1>1 DEF HostsInv, HostsType, Marked, OneHost
  <2>2. NoCopies(toBlur')
    BY <1>1, <1>2, <2>1, DropNoCopies
  <2>3. In(toBlur) = In(toBlur') \union ({EOS} \ {EOS})
    BY <1>1, <1>2, <2>1, DropProperties
  <2> QED BY <1>1, <1>2, <2>1, <2>2, <2>3, DropProperties
<1>6. /\ outbox' \in ChannelsOf(StartedA, Parts(Sent, Sent))
      /\ outbox'[w] = Append(outbox[w], D!Mark)
      /\ \A v \in StartedA \ {w} : outbox'[v] = outbox[v]
      /\ ImagesOf(outbox') = ImagesOf(outbox) /\ SingleParts(outbox')
  <2>1. \A n : D!Mark # D!ImagePart(n)
    BY PartsDiffer
  <2>2. SingleParts(outbox)
    BY DEF HostsInv, OneHost
  <2>3. /\ outbox' \in ChannelsOf(StartedA, Parts(Sent, Sent))
        /\ outbox'[w] = Append(outbox[w], D!Mark)
        /\ \A v \in StartedA \ {w} : outbox'[v] = outbox[v]
        /\ ImagesOf(outbox') = ImagesOf(outbox) \union {n \in Nat : D!Mark = D!ImagePart(n)}
        /\ SingleParts(outbox')
    BY <1>1, <1>2, <1>4, <2>1, <2>2, PutPart
  <2> QED BY <2>1, <2>3
<1>7. UNCHANGED <<In(toBlur), ImagesOf(outbox), ImagesOf(wire), In(toCollector),
                  SingleParts(wire), NoCopies(toCollector)>>
  BY <1>2, <1>5, <1>6
<1>8. HostsType'
  BY <1>1, <1>2, <1>3, <1>5, <1>6 DEF HostsType
<1>9. OneHost'
  BY <1>2, <1>3, <1>5, <1>6, <1>7 DEF HostsInv, OneHost
<1>10. NamesKept'
  <2>1. NamesFollow(outbox'[w])
    BY <1>1, <1>4, <1>6, NamesFollowOn DEF HostsInv, NamesKept
  <2>2. NamesArrive(Names, wire[w], Unsent(w)')
    <3>1. NamesArrive(Names, wire[w], outbox[w]) /\ wire[w] \in Seq(Parts(Sent, {Names[n] : n \in Sent} \union {Stale}))
      BY <1>1, HostFacts DEF HostsInv, NamesKept, Unsent
    <3>2. NamesArrive(Names, wire[w], outbox'[w])
      BY <1>4, <1>6, <3>1, NamesArriveStill
    <3> QED BY <1>1, <1>3, <3>2 DEF Unsent
  <2>3. \A v : v # w => Unsent(v)' = Unsent(v)
    BY <1>3, <1>6 DEF Unsent
  <2> QED BY <1>2, <1>3, <1>6, <2>1, <2>2, <2>3 DEF HostsInv, NamesKept
<1>11. Marked'
  <2>1. ~Blurred(w) /\ ~Sending(w) /\ ~Crossed(w)
    BY <1>2 DEF Blurred, Sending, Crossed
  <2>2. \A v : v # w => /\ Blurred(v)' = Blurred(v) /\ Sending(v)' = Sending(v)
                        /\ Crossed(v)' = Crossed(v)
    BY <1>2, <1>3, <1>5, <1>6 DEF Blurred, Sending, Crossed
  <2>3. Blurred(w)'
    <3>1. EOS \in ToSet(toBlur[w])
      BY <1>2, <1>4, ToSetOfTail
    <3>2. sent > Len(D!images)
      BY <1>1, <3>1 DEF HostsInv, Marked
    <3> QED BY <1>1, <1>2, <1>3, <1>5, <3>2 DEF Blurred
  <2>4. MarkAtEnd(outbox'[w])
    BY <1>1, <1>4, <1>6, <2>1, MarkStaysLast DEF HostsInv, Marked
  <2>5. EosAtEnd(toBlur'[w]) /\ ToSet(toBlur'[w]) = {}
    BY <1>5, EosAtEndOfEmpty, ToSetOfEmpty
  <2> QED BY <1>2, <1>3, <1>5, <1>6, <2>1, <2>2, <2>3, <2>4, <2>5 DEF HostsInv, Marked
<1>12. NothingLost'
  BY <1>2, <1>3, <1>7 DEF HostsInv, NothingLost
<1> QED BY <1>8, <1>9, <1>10, <1>11, <1>12 DEF HostsInv

\* The part that the transport takes, and what it sends.
LEMMA Transmitted ==
    ASSUME NEW part \in Parts(Sent, Sent), NEW m \in D!Content(part), Sent \subseteq Nat
    PROVE  \/ \E j \in Sent : /\ part = D!ImagePart(j) /\ m = part
                              /\ D!CallbackArg(part) = {j}
           \/ \E j \in Sent : /\ part = D!NamePart(j)
                              /\ m \in {D!NamePart(Names[j]), D!NamePart(Stale)}
                              /\ D!CallbackArg(part) = {}
           \/ part = D!Mark /\ m = part /\ D!CallbackArg(part) = {}
<1>1. CASE part \in {D!ImagePart(j) : j \in Sent}
  <2>1. PICK j \in Sent : part = D!ImagePart(j)
    BY <1>1
  <2>2. part.kind = "image" /\ part.task = j
    BY <2>1 DEF D!ImagePart
  <2> QED BY <2>1, <2>2 DEF D!Content, D!CallbackArg
<1>2. CASE part \in {D!NamePart(j) : j \in Sent}
  <2>1. PICK j \in Sent : part = D!NamePart(j)
    BY <1>2
  <2>2. part.kind = "name" /\ part.task = j
    BY <2>1 DEF D!NamePart
  <2>3. D!CallbackArg(part) = {}
    BY <2>2 DEF D!CallbackArg
  <2>4. PICK n \in {D!Name(j)} \union {Stale} : m = D!NamePart(n)
    BY <2>2 DEF D!Content, D!NamePart
  <2>5. Names[j] = D!Name(j)
    BY DEF Names
  <2> QED BY <2>1, <2>3, <2>4, <2>5
<1>3. CASE part = D!Mark
  <2>1. part.kind = "eos"
    BY <1>3 DEF D!Mark
  <2> QED BY <1>3, <2>1 DEF D!Content, D!CallbackArg
<1> QED BY <1>1, <1>2, <1>3 DEF Parts

LEMMA TransmitKeeps ==
    ASSUME D!ImgDAssumption, HostsInv, hostA = "running", hostB = "running",
           NEW w \in D!WorkersA, D!Transmit(w)
    PROVE  HostsInv'
<1> DEFINE part == Head(outbox[w])
           Q == Parts(Sent, {Names[j] : j \in Sent} \union {Stale})
           arg == D!CallbackArg(part)
<1>1. HostsType /\ w \in StartedA /\ w \in StartedB /\ w \in Ends
  BY HostFacts DEF HostsInv, D!Transmit
<1>2. PICK m \in D!Content(part) : wire' = Put(wire, w, m)
  BY SameChannels DEF D!Transmit
<1>3. /\ outbox[w] # <<>> /\ outbox' = Drop(outbox, w)
      /\ callbacks' = callbacks \union arg
      /\ UNCHANGED <<both, hostA, sent, heapA, toBlur, hostB, heapB, toCollector, eosSeen, outB>>
  BY SameChannels DEF D!Transmit, D!varsB
<1>4. UNCHANGED <<StartedA, Ends, StartedB, D!images, Names, Sent>>
  BY <1>3 DEF StartedA, Ends, StartedB, D!images, Names, D!Name, Sent
<1>5. /\ outbox[w] \in Seq(Parts(Sent, Sent)) /\ wire[w] \in Seq(Q)
      /\ part \in Parts(Sent, Sent) /\ Sent \subseteq Nat
      /\ part \in ToSet(outbox[w])
  BY <1>1, <1>3, HostFacts, ToSetOfTail
<1>6. \/ \E j \in Sent : part = D!ImagePart(j) /\ m = part /\ arg = {j}
      \/ \E j \in Sent : /\ part = D!NamePart(j) /\ arg = {}
                         /\ m \in {D!NamePart(Names[j]), D!NamePart(Stale)}
      \/ part = D!Mark /\ m = part /\ arg = {}
  BY <1>5, Transmitted
<1> HIDE DEF part, arg
<1>7. /\ m \in Q /\ arg \subseteq Sent
      /\ arg = {j \in Nat : part = D!ImagePart(j)}
      /\ arg = {j \in Nat : m = D!ImagePart(j)}
  <2>1. m \in Q /\ arg \subseteq Sent
    BY <1>6 DEF Parts
  <2>2. CASE \E j \in Sent : part = D!ImagePart(j) /\ m = part /\ arg = {j}
    BY <1>5, <2>1, <2>2, PartsDiffer
  <2>3. CASE \E j \in Sent : /\ part = D!NamePart(j) /\ arg = {}
                             /\ m \in {D!NamePart(Names[j]), D!NamePart(Stale)}
    BY <2>1, <2>3, PartsDiffer
  <2>4. CASE part = D!Mark /\ m = part /\ arg = {}
    BY <2>1, <2>4, PartsDiffer
  <2> QED BY <1>6, <2>2, <2>3, <2>4
<1>8. /\ outbox' \in ChannelsOf(StartedA, Parts(Sent, Sent))
      /\ outbox'[w] = Tail(outbox[w])
      /\ \A v \in StartedA \ {w} : outbox'[v] = outbox[v]
      /\ ImagesOf(outbox) = ImagesOf(outbox') \union arg
      /\ SingleParts(outbox') /\ ImagesOf(outbox') \intersect arg = {}
  <2>1. outbox \in ChannelsOf(StartedA, Parts(Sent, Sent)) /\ SingleParts(outbox)
    BY <1>1 DEF HostsInv, HostsType, OneHost
  <2> QED BY <1>1, <1>3, <1>7, <2>1, DropPart DEF part
<1>9. /\ wire' \in ChannelsOf(Ends, Q)
      /\ wire'[w] = Append(wire[w], m)
      /\ \A v \in Ends \ {w} : wire'[v] = wire[v]
      /\ ImagesOf(wire') = ImagesOf(wire) \union arg
      /\ SingleParts(wire')
  <2>1. wire \in ChannelsOf(Ends, Q) /\ SingleParts(wire)
    BY <1>1 DEF HostsInv, HostsType, OneHost
  <2>2. \A j \in ImagesOf(wire) : m # D!ImagePart(j)
    <3>1. arg \intersect ImagesOf(wire) = {}
      BY <1>8 DEF HostsInv, OneHost
    <3> QED BY <1>7, <3>1 DEF ImagesOf
  <2> HIDE DEF Q
  <2> QED BY <1>1, <1>2, <1>7, <2>1, <2>2, PutPart
<1>10. UNCHANGED <<In(toBlur), In(toCollector), NoCopies(toBlur), NoCopies(toCollector)>>
  BY <1>3
<1>11. HostsType'
  <2>1. /\ outbox' \in ChannelsOf(StartedA', Parts(Sent', Sent'))
        /\ wire' \in ChannelsOf(Ends', Parts(Sent', {Names'[j] : j \in Sent'} \union {Stale}))
    BY <1>4, <1>8, <1>9
  <2>2. callbacks' \subseteq Sent'
    BY <1>1, <1>3, <1>4, <1>7 DEF HostsType
  <2> HIDE DEF Q
  <2> QED BY <1>1, <1>3, <1>4, <2>1, <2>2 DEF HostsType
<1>12. OneHost'
  BY <1>3, <1>4, <1>8, <1>9, <1>10 DEF HostsInv, OneHost
<1>13. NamesKept'
  <2>1. NamesFollow(outbox[w]) /\ NamesFollow(outbox'[w])
    BY <1>1, <1>3, <1>5, <1>8, NamesFollowOn DEF HostsInv, NamesKept
  <2>2. NamesArrive(Names, wire'[w], Unsent(w)')
    <3>1. NamesArrive(Names, wire[w], outbox[w])
      BY <1>1 DEF HostsInv, NamesKept, Unsent
    <3>2. \A j : part = D!NamePart(j) => m \in {D!NamePart(Names[j]), D!NamePart(Stale)}
      BY <1>6, PartsDiffer
    <3>3. (\A j : part # D!NamePart(j)) => m = part
      BY <1>6
    <3>4. NamesArrive(Names, wire'[w], outbox'[w])
      <4> HIDE DEF Q
      <4> QED BY <1>3, <1>5, <1>7, <1>8, <1>9, <2>1, <3>1, <3>2, <3>3, NamesArriveNext DEF part
    <3> QED BY <1>1, <1>4, <3>4 DEF Unsent
  <2>3. \A v : v # w => Unsent(v)' = Unsent(v)
    BY <1>4, <1>8 DEF Unsent
  <2>4. \A v \in StartedA : NamesFollow(outbox'[v])
    BY <1>8, <2>1 DEF HostsInv, NamesKept
  <2>5. \A v \in Ends : NamesArrive(Names, wire'[v], Unsent(v)')
    <3>1. \A v \in Ends : NamesArrive(Names, wire[v], Unsent(v))
      BY DEF HostsInv, NamesKept
    <3> QED BY <1>9, <2>2, <2>3, <3>1
  <2> QED BY <1>3, <1>4, <2>4, <2>5 DEF HostsInv, NamesKept
<1>14. Marked'
  <2>1. ~Sending(w) /\ ~Crossed(w)
    BY <1>3 DEF Sending, Crossed
  <2>2. \A v : /\ Blurred(v)' = Blurred(v)
               /\ v # w => Sending(v)' = Sending(v)
    BY <1>3, <1>4, <1>8 DEF Blurred, Sending
  <2>3. \A v \in Ends : v # w => Crossed(v)' = Crossed(v)
    BY <1>9, <2>2 DEF Crossed
  <2>4. MarkAtEnd(outbox'[w]) /\ ToSet(outbox'[w]) \subseteq ToSet(outbox[w])
    <3>1. MarkAtEnd(outbox[w])
      BY <1>1 DEF HostsInv, Marked
    <3> QED BY <1>3, <1>5, <1>8, <3>1, MarkStaysLast, ToSetOfTail
  <2>5. D!Mark \notin ToSet(wire[w]) /\ MarkAtEnd(wire[w])
    BY <1>1, <2>1 DEF HostsInv, Marked
  <2>6. MarkAtEnd(wire'[w])
    BY <1>5, <1>7, <1>9, <2>5, MarkStaysLast
  <2>7. ASSUME D!Mark \in ToSet(wire'[w]) PROVE Sending(w)'
    <3>1. m = D!Mark
      BY <1>5, <1>7, <1>9, <2>5, <2>7, ToSetOfAppend
    <3>2. part = D!Mark
      BY <1>6, <3>1, PartsDiffer
    <3>3. Blurred(w) /\ MarkAtEnd(outbox[w])
      BY <1>1, <1>5, <3>2 DEF HostsInv, Marked
    <3>4. outbox'[w] = <<>>
      BY <1>3, <1>5, <1>8, <3>2, <3>3, MarkStaysLast DEF part
    <3> QED BY <2>2, <3>3, <3>4 DEF Sending
  <2>8. \A v \in StartedB : EOS \in ToSet(toCollector[v]) => v # w
    BY <2>1 DEF HostsInv, Marked
  <2>9. \A v \in eosSeen : v # w /\ v \in Ends
    BY <1>1, <2>1, HostFacts DEF HostsInv, Marked, HostsType
  <2>10. StartedB \subseteq Ends
    BY <1>1, HostFacts
  <2>11. \A v \in StartedA : /\ EosAtEnd(toBlur'[v]) /\ (EOS \in ToSet(toBlur'[v]) => sent' > Len(D!images))
                             /\ MarkAtEnd(outbox'[v]) /\ (D!Mark \in ToSet(outbox'[v]) => Blurred(v)')
    BY <1>3, <1>8, <2>2, <2>4 DEF HostsInv, Marked
  <2>12. \A v \in Ends : MarkAtEnd(wire'[v]) /\ (D!Mark \in ToSet(wire'[v]) => Sending(v)')
    BY <1>9, <2>2, <2>6, <2>7 DEF HostsInv, Marked
  <2>13. \A v \in StartedB : EosAtEnd(toCollector'[v]) /\ (EOS \in ToSet(toCollector'[v]) => Crossed(v)')
    BY <1>3, <2>3, <2>8, <2>10 DEF HostsInv, Marked
  <2>14. \A v \in eosSeen' : Crossed(v)' /\ toCollector'[v] = <<>>
    BY <1>3, <2>3, <2>9 DEF HostsInv, Marked
  <2> QED BY <1>4, <2>11, <2>12, <2>13, <2>14 DEF Marked
<1>15. NothingLost'
  BY <1>3, <1>4, <1>8, <1>9, <1>10 DEF HostsInv, NothingLost
<1> QED BY <1>11, <1>12, <1>13, <1>14, <1>15 DEF HostsInv

LEMMA CallbackKeeps ==
    ASSUME D!ImgDAssumption, HostsInv, hostA = "running", NEW j \in callbacks, D!Callback(j)
    PROVE  HostsInv'
<1>1. /\ callbacks' = callbacks \ {j} /\ heapA' = heapA \ {j}
      /\ UNCHANGED <<both, hostA, sent, toBlur, outbox, hostB, heapB, toCollector, eosSeen, outB, wire>>
  BY DEF D!Callback, D!varsB
<1>2. UNCHANGED <<StartedA, Ends, StartedB, D!images, Names, Sent>>
  BY <1>1 DEF StartedA, Ends, StartedB, D!images, Names, D!Name, Sent
<1>3. \A w : /\ Unsent(w)' = Unsent(w) /\ Blurred(w)' = Blurred(w)
             /\ Sending(w)' = Sending(w) /\ Crossed(w)' = Crossed(w)
  BY <1>1, <1>2 DEF Unsent, Blurred, Sending, Crossed
<1>4. UNCHANGED <<In(toBlur), ImagesOf(outbox), ImagesOf(wire), In(toCollector),
                  NoCopies(toBlur), SingleParts(outbox), SingleParts(wire), NoCopies(toCollector)>>
  BY <1>1
<1>5. HostsType'
  BY <1>1, <1>2 DEF HostsInv, HostsType
<1>6. OneHost'
  BY <1>1, <1>2, <1>4 DEF HostsInv, OneHost
<1>7. NamesKept'
  BY <1>1, <1>2, <1>3 DEF HostsInv, NamesKept
<1>8. Marked'
  BY <1>1, <1>2, <1>3 DEF HostsInv, Marked
<1>9. NothingLost'
  BY <1>1, <1>2, <1>4 DEF HostsInv, NothingLost
<1> QED BY <1>5, <1>6, <1>7, <1>8, <1>9 DEF HostsInv

LEMMA MainBKeeps ==
    ASSUME D!ImgDAssumption, HostsInv, D!MainB
    PROVE  HostsInv'
<1>1. /\ hostB = "parse" /\ hostB' = "running"
      /\ toCollector' = [w \in 1..both.nwB |-> <<>>]
      /\ UNCHANGED <<both, hostA, sent, heapA, toBlur, outbox, callbacks, heapB, eosSeen, outB, wire>>
  BY DEF D!MainB, D!varsA
<1>2. HostsType
  BY DEF HostsInv
<1>3. StartedB = {} /\ UNCHANGED <<StartedA, Ends, D!images, Names, Sent>>
  BY <1>1 DEF StartedA, StartedB, Ends, D!images, Names, D!Name, Sent
<1>4. \A w : /\ Unsent(w)' = Unsent(w) /\ Blurred(w)' = Blurred(w)
             /\ Sending(w)' = Sending(w) /\ Crossed(w)' = Crossed(w)
  BY <1>1, <1>3 DEF Unsent, Blurred, Sending, Crossed
<1>5. /\ toCollector' \in ChannelsOf(StartedB', Sent \union {EOS})
      /\ \A w \in StartedB' : toCollector'[w] = <<>>
  <2>1. StartedB' = 1..both.nwB
    BY <1>1 DEF StartedB
  <2>2. toCollector' = [w \in StartedB' |-> <<>>]
    BY <1>1, <2>1
  <2> QED BY <2>2, EmptyChannels
<1>6. In(toCollector) = {} /\ In(toCollector)' = {} /\ NoCopies(toCollector)'
  <2>1. In(toCollector) = {}
    BY <1>2, <1>3, NothingThere DEF HostsType
  <2> QED BY <1>5, <2>1, NothingThere
<1>7. UNCHANGED <<In(toBlur), ImagesOf(outbox), ImagesOf(wire),
                  NoCopies(toBlur), SingleParts(outbox), SingleParts(wire)>>
  BY <1>1
<1>8. eosSeen = {}
  BY <1>2, <1>3 DEF HostsType
<1>9. HostsType'
  BY <1>1, <1>2, <1>3, <1>5, <1>8 DEF HostsType
<1>10. OneHost'
  BY <1>1, <1>3, <1>6, <1>7 DEF HostsInv, OneHost
<1>11. NamesKept'
  BY <1>1, <1>3, <1>4 DEF HostsInv, NamesKept
<1>12. Marked'
  <2>1. \A w \in StartedB' : EosAtEnd(toCollector'[w]) /\ ToSet(toCollector'[w]) = {}
    BY <1>5, EosAtEndOfEmpty, ToSetOfEmpty
  <2> QED BY <1>1, <1>3, <1>4, <1>8, <2>1 DEF HostsInv, Marked
<1>13. NothingLost'
  BY <1>1, <1>3, <1>6, <1>7 DEF HostsInv, NothingLost
<1> QED BY <1>9, <1>10, <1>11, <1>12, <1>13 DEF HostsInv

LEMMA EmbossKeeps ==
    ASSUME D!ImgDAssumption, HostsInv, hostB = "running", NEW w \in D!WorkersB, D!Emboss(w)
    PROVE  HostsInv'
<1> DEFINE j == wire[w][1].task
           Arriving == Parts(Sent, {Names[n] : n \in Sent} \union {Stale})
<1>1. HostsType /\ w \in StartedB /\ w \in Ends
  BY HostFacts DEF HostsInv
<1>2. /\ Len(wire[w]) >= 2 /\ wire[w][1].kind = "image"
      /\ heapB' = [t \in DOMAIN heapB \union {j} |-> IF t = j THEN wire[w][2].task ELSE heapB[t]]
      /\ toCollector' = Put(toCollector, w, j)
      /\ wire' = Drop(Drop(wire, w), w)
      /\ UNCHANGED <<both, hostA, sent, heapA, toBlur, outbox, callbacks, hostB, eosSeen, outB>>
  BY SameChannels DEF D!Emboss, D!varsA
<1>3. UNCHANGED <<StartedA, Ends, StartedB, D!images, Names, Sent>>
  BY <1>2 DEF StartedA, Ends, StartedB, D!images, Names, D!Name, Sent
<1>4. /\ wire[w] \in Seq(Arriving) /\ wire[w] # <<>> /\ Tail(wire[w]) \in Seq(Arriving)
      /\ Tail(wire[w]) # <<>> /\ Head(wire[w]) = wire[w][1] /\ Head(Tail(wire[w])) = wire[w][2]
      /\ wire[w][1] \in Arriving /\ 1 \in DOMAIN wire[w] /\ 1 < Len(wire[w])
      /\ wire \in ChannelsOf(Ends, Arriving) /\ toCollector \in ChannelsOf(StartedB, Sent \union {EOS})
  <2>1. wire[w] \in Seq(Arriving)
    BY <1>1, HostFacts
  <2>2. wire[w] # <<>>
    BY <1>2
  <2> HIDE DEF Arriving
  <2>3. /\ Tail(wire[w]) \in Seq(Arriving) /\ Tail(wire[w]) # <<>>
        /\ Head(wire[w]) = wire[w][1] /\ Head(Tail(wire[w])) = wire[w][2]
        /\ wire[w][1] \in Arriving /\ 1 \in DOMAIN wire[w] /\ 1 < Len(wire[w])
    BY <1>2, <2>1, <2>2, TailPositions
  <2> QED BY <1>1, <2>1, <2>2, <2>3 DEF HostsType, Arriving
<1>5. j \in Sent /\ j \in Nat /\ j # EOS /\ wire[w][1] = D!ImagePart(j)
  <2>1. Sent \subseteq Nat /\ EOS \notin Sent
    BY <1>1, HostFacts
  <2>2. PICK n \in Sent : wire[w][1] = D!ImagePart(n)
    BY <1>2, <1>4 DEF Parts, D!NamePart, D!Mark
  <2>3. j = n
    BY <2>2 DEF D!ImagePart
  <2> QED BY <2>1, <2>2, <2>3
<1>6. \E n \in {Names[j], Stale} : wire[w][2] = D!NamePart(n) /\ wire[w][2].task = n
  <2>1. NamesArrive(Names, wire[w], Unsent(w))
    BY <1>1 DEF HostsInv, NamesKept
  <2>2. wire[w][1 + 1] \in {D!NamePart(Names[j]), D!NamePart(Stale)}
    BY <1>2, <1>4, <1>5, <2>1 DEF NamesArrive
  <2> QED BY <2>2 DEF D!NamePart
<1> HIDE DEF j, Arriving
<1>7. /\ wire' \in ChannelsOf(Ends, Arriving)
      /\ wire'[w] = Tail(Tail(wire[w]))
      /\ \A v \in Ends \ {w} : wire'[v] = wire[v]
      /\ ImagesOf(wire) = ImagesOf(wire') \union {j}
      /\ SingleParts(wire') /\ j \notin ImagesOf(wire')
  <2> DEFINE read == Drop(wire, w)
  <2>1. \A n \in Nat : D!ImagePart(j) = D!ImagePart(n) <=> j = n
    BY PartsDiffer
  <2>2. SingleParts(wire)
    BY DEF HostsInv, OneHost
  <2>3. /\ read \in ChannelsOf(Ends, Arriving) /\ read[w] = Tail(wire[w])
        /\ \A v \in Ends \ {w} : read[v] = wire[v]
        /\ ImagesOf(wire) = ImagesOf(read) \union {j}
        /\ SingleParts(read) /\ j \notin ImagesOf(read)
    BY <1>1, <1>4, <1>5, <2>1, <2>2, DropPart
  <2>4. \A n : D!ImagePart(n) # wire[w][2]
    BY <1>6, PartsDiffer
  <2> HIDE DEF read
  <2>5. wire' = Drop(read, w) /\ read[w] # <<>> /\ Head(read[w]) = wire[w][2]
    BY <1>2, <1>4, <2>3 DEF read
  <2>6. /\ wire' \in ChannelsOf(Ends, Arriving) /\ wire'[w] = Tail(read[w])
        /\ \A v \in Ends \ {w} : wire'[v] = read[v]
        /\ SingleParts(wire')
    <3>1. read \in ChannelsOf(Ends, Arriving) /\ w \in Ends /\ SingleParts(read)
      BY <1>1, <2>3
    <3> QED BY <2>5, <3>1, DropPart
  <2>7. ImagesOf(read) = ImagesOf(wire')
    <3>1. \A n : Head(read[w]) # D!ImagePart(n)
      BY <2>4, <2>5
    <3>2. read \in ChannelsOf(Ends, Arriving) /\ w \in Ends
      BY <1>1, <2>3
    <3> QED BY <2>5, <3>1, <3>2, DropPart
  <2> QED BY <2>3, <2>6, <2>7
<1>8. /\ DOMAIN heapB = In(toCollector) /\ j \in ImagesOf(wire)
      /\ j \notin DOMAIN heapB /\ j \notin In(toCollector)
      /\ DOMAIN heapB' = DOMAIN heapB \union {j}
  BY <1>2, <1>7 DEF HostsInv, OneHost
<1>9. /\ toCollector' \in ChannelsOf(StartedB, Sent \union {EOS})
      /\ \A v \in StartedB \ {w} : toCollector'[v] = toCollector[v]
      /\ ToSet(toCollector'[w]) = ToSet(toCollector[w]) \union {j}
      /\ EOS \notin ToSet(toCollector[w]) => EosAtEnd(toCollector'[w])
      /\ In(toCollector') = In(toCollector) \union {j}
      /\ NoCopies(toCollector')
  <2>1. NoCopies(toCollector)
    BY DEF HostsInv, OneHost
  <2>2. NoCopies(toCollector')
    BY <1>1, <1>2, <1>4, <1>5, <1>8, <2>1, PutNoCopies
  <2>3. In(toCollector') = In(toCollector) \union ({j} \ {EOS})
    <3>1. toCollector \in ChannelsOf(StartedB, Sent \union {EOS}) /\ w \in StartedB
      BY <1>1, <1>4
    <3>2. toCollector' = Put(toCollector, w, j) /\ j \in Sent \union {EOS}
      BY <1>2, <1>5
    <3> QED BY <3>1, <3>2, PutProperties
  <2>4. In(toCollector') = In(toCollector) \union {j}
    BY <1>5, <2>3
  <2>5. /\ toCollector' \in ChannelsOf(StartedB, Sent \union {EOS})
        /\ \A v \in StartedB \ {w} : toCollector'[v] = toCollector[v]
        /\ ToSet(toCollector'[w]) = ToSet(toCollector[w]) \union {j}
        /\ EOS \notin ToSet(toCollector[w]) => EosAtEnd(toCollector'[w])
    <3>1. toCollector \in ChannelsOf(StartedB, Sent \union {EOS}) /\ w \in StartedB
      BY <1>1, <1>4
    <3>2. toCollector' = Put(toCollector, w, j) /\ j \in Sent \union {EOS}
      BY <1>2, <1>5
    <3> QED BY <3>1, <3>2, PutProperties
  <2> QED BY <2>2, <2>4, <2>5
<1>10. UNCHANGED <<In(toBlur), ImagesOf(outbox), NoCopies(toBlur), SingleParts(outbox)>>
  BY <1>2
<1>11. HostsType'
  BY <1>1, <1>2, <1>3, <1>7, <1>9 DEF HostsType, Arriving
<1>12. OneHost'
  BY <1>2, <1>3, <1>5, <1>7, <1>8, <1>9, <1>10 DEF HostsInv, OneHost
<1>13. NamesKept'
  <2>1. \A v : Unsent(v)' = Unsent(v)
    BY <1>2, <1>3 DEF Unsent
  <2>2. NamesArrive(Names, wire'[w], Unsent(w))
    <3>1. NamesArrive(Names, wire[w], Unsent(w)) /\ Unsent(w) \in Seq(Parts(Sent, Sent))
      BY <1>1, HostFacts DEF HostsInv, NamesKept, Unsent
    <3>2. NamesArrive(Names, Tail(wire[w]), Unsent(w))
      BY <1>4, <3>1, NamesArriveStill
    <3>3. NamesArrive(Names, Tail(Tail(wire[w])), Unsent(w))
      BY <1>4, <3>1, <3>2, NamesArriveStill
    <3> QED BY <1>7, <3>3
  <2>3. \A n \in DOMAIN heapB' : heapB'[n] \in {Names[n], Stale}
    BY <1>2, <1>6, <1>8 DEF HostsInv, NamesKept
  <2>4. \A v \in Ends : NamesArrive(Names, wire'[v], Unsent(v))
    BY <1>7, <2>2 DEF HostsInv, NamesKept
  <2> QED BY <1>2, <1>3, <2>1, <2>3, <2>4 DEF HostsInv, NamesKept
<1>14. Marked'
  <2>1. ~Crossed(w)
    BY <1>4 DEF Crossed
  <2>2. \A v : Blurred(v)' = Blurred(v) /\ Sending(v)' = Sending(v)
    BY <1>2, <1>3 DEF Blurred, Sending
  <2>3. \A v \in Ends : v # w => Crossed(v)' = Crossed(v)
    BY <1>7, <2>2 DEF Crossed
  <2>4. MarkAtEnd(wire'[w]) /\ ToSet(wire'[w]) \subseteq ToSet(wire[w])
    <3>1. MarkAtEnd(wire[w])
      BY <1>1 DEF HostsInv, Marked
    <3>2. MarkAtEnd(Tail(wire[w])) /\ ToSet(Tail(wire[w])) \subseteq ToSet(wire[w])
      BY <1>4, <3>1, MarkStaysLast, ToSetOfTail
    <3>3. MarkAtEnd(Tail(Tail(wire[w]))) /\ ToSet(Tail(Tail(wire[w]))) \subseteq ToSet(Tail(wire[w]))
      BY <1>4, <3>2, MarkStaysLast, ToSetOfTail
    <3> QED BY <1>7, <3>2, <3>3
  <2>5. EOS \notin ToSet(toCollector[w])
    BY <1>1, <2>1 DEF HostsInv, Marked
  <2>6. EosAtEnd(toCollector'[w]) /\ EOS \notin ToSet(toCollector'[w])
    BY <1>5, <1>9, <2>5
  <2>7. \A v \in eosSeen : v # w /\ v \in StartedB
    BY <1>1, <2>1 DEF HostsInv, Marked, HostsType
  <2>8. StartedB \subseteq Ends
    BY <1>1, HostFacts
  <2>9. \A v \in Ends : MarkAtEnd(wire'[v]) /\ (D!Mark \in ToSet(wire'[v]) => Sending(v))
    BY <1>7, <2>4 DEF HostsInv, Marked
  <2>10. \A v \in StartedB : EosAtEnd(toCollector'[v]) /\ (EOS \in ToSet(toCollector'[v]) => Crossed(v)')
    BY <1>9, <2>3, <2>6, <2>8 DEF HostsInv, Marked
  <2>11. \A v \in eosSeen : Crossed(v)' /\ toCollector'[v] = <<>>
    BY <1>9, <2>3, <2>7, <2>8 DEF HostsInv, Marked
  <2> QED BY <1>2, <1>3, <2>2, <2>9, <2>10, <2>11 DEF HostsInv, Marked
<1>15. NothingLost'
  BY <1>2, <1>3, <1>7, <1>9, <1>10 DEF HostsInv, NothingLost
<1> QED BY <1>11, <1>12, <1>13, <1>14, <1>15 DEF HostsInv

LEMMA EndEmbossKeeps ==
    ASSUME D!ImgDAssumption, HostsInv, hostB = "running", NEW w \in D!WorkersB, D!EndEmboss(w)
    PROVE  HostsInv'
<1> DEFINE Arriving == Parts(Sent, {Names[n] : n \in Sent} \union {Stale})
<1>1. HostsType /\ w \in StartedB /\ w \in Ends
  BY HostFacts DEF HostsInv
<1>2. /\ wire[w] # <<>> /\ Head(wire[w]) = D!Mark
      /\ toCollector' = Put(toCollector, w, EOS)
      /\ wire' = Drop(wire, w)
      /\ UNCHANGED <<both, hostA, sent, heapA, toBlur, outbox, callbacks, hostB, heapB, eosSeen, outB>>
  BY SameChannels DEF D!EndEmboss, D!varsA
<1>3. UNCHANGED <<StartedA, Ends, StartedB, D!images, Names, Sent>>
  BY <1>2 DEF StartedA, Ends, StartedB, D!images, Names, D!Name, Sent
<1>4. /\ wire[w] \in Seq(Arriving) /\ wire \in ChannelsOf(Ends, Arriving)
      /\ toCollector \in ChannelsOf(StartedB, Sent \union {EOS})
  BY <1>1, HostFacts DEF HostsType
<1> HIDE DEF Arriving
<1>5. Sending(w) /\ MarkAtEnd(wire[w]) /\ Tail(wire[w]) = <<>>
  <2>1. D!Mark \in ToSet(wire[w])
    BY <1>2, <1>4, ToSetOfTail
  <2>2. Sending(w) /\ MarkAtEnd(wire[w])
    BY <1>1, <2>1 DEF HostsInv, Marked
  <2> QED BY <1>2, <1>4, <2>2, MarkStaysLast
<1>6. /\ wire' \in ChannelsOf(Ends, Arriving)
      /\ wire'[w] = <<>>
      /\ \A v \in Ends \ {w} : wire'[v] = wire[v]
      /\ ImagesOf(wire') = ImagesOf(wire)
      /\ SingleParts(wire')
  <2>1. \A n : D!Mark # D!ImagePart(n)
    BY PartsDiffer
  <2>2. SingleParts(wire)
    BY DEF HostsInv, OneHost
  <2>3. /\ wire' \in ChannelsOf(Ends, Arriving) /\ wire'[w] = Tail(wire[w])
        /\ \A v \in Ends \ {w} : wire'[v] = wire[v]
        /\ SingleParts(wire')
    BY <1>1, <1>2, <1>4, <2>2, DropPart
  <2>4. ImagesOf(wire') = ImagesOf(wire)
    BY <1>1, <1>2, <1>4, <2>1, DropPart
  <2> QED BY <1>5, <2>3, <2>4
<1>7. /\ toCollector' \in ChannelsOf(StartedB, Sent \union {EOS})
      /\ \A v \in StartedB \ {w} : toCollector'[v] = toCollector[v]
      /\ EosAtEnd(toCollector'[w])
      /\ In(toCollector') = In(toCollector)
      /\ NoCopies(toCollector')
  <2>1. NoCopies(toCollector) /\ EOS \notin In(toCollector)
    BY DEF HostsInv, OneHost, In
  <2>2. NoCopies(toCollector')
    BY <1>1, <1>2, <1>4, <2>1, PutNoCopies
  <2>3. EOS \notin ToSet(toCollector[w])
    BY <1>1, <1>2 DEF HostsInv, Marked, Crossed
  <2>4. In(toCollector') = In(toCollector) \union ({EOS} \ {EOS})
    BY <1>1, <1>2, <1>4, PutProperties
  <2> QED BY <1>1, <1>2, <1>4, <2>2, <2>3, <2>4, PutProperties
<1>8. UNCHANGED <<In(toBlur), ImagesOf(outbox), NoCopies(toBlur), SingleParts(outbox),
                  In(toCollector), ImagesOf(wire)>>
  BY <1>2, <1>6, <1>7
<1>9. HostsType'
  BY <1>1, <1>2, <1>3, <1>6, <1>7 DEF HostsType, Arriving
<1>10. OneHost'
  BY <1>2, <1>3, <1>6, <1>7, <1>8 DEF HostsInv, OneHost
<1>11. NamesKept'
  <2>1. \A v : Unsent(v)' = Unsent(v)
    BY <1>2, <1>3 DEF Unsent
  <2>2. \A v \in Ends : NamesArrive(Names, wire'[v], Unsent(v))
    BY <1>6 DEF HostsInv, NamesKept, NamesArrive
  <2> QED BY <1>2, <1>3, <2>1, <2>2 DEF HostsInv, NamesKept
<1>12. Marked'
  <2>1. \A v : Blurred(v)' = Blurred(v) /\ Sending(v)' = Sending(v)
    BY <1>2, <1>3 DEF Blurred, Sending
  <2>2. \A v \in Ends : v # w => Crossed(v)' = Crossed(v)
    BY <1>6, <2>1 DEF Crossed
  <2>3. Crossed(w)' /\ ~Crossed(w)
    BY <1>2, <1>5, <1>6, <2>1 DEF Crossed
  <2>4. MarkAtEnd(wire'[w]) /\ ToSet(wire'[w]) = {}
    BY <1>6, ToSetOfEmpty DEF MarkAtEnd
  <2>5. \A v \in eosSeen : v # w /\ v \in StartedB
    BY <1>1, <2>3 DEF HostsInv, Marked, HostsType
  <2>6. StartedB \subseteq Ends
    BY <1>1, HostFacts
  <2>7. \A v \in Ends : MarkAtEnd(wire'[v]) /\ (D!Mark \in ToSet(wire'[v]) => Sending(v))
    BY <1>6, <2>4 DEF HostsInv, Marked
  <2>8. \A v \in StartedB : EosAtEnd(toCollector'[v]) /\ (EOS \in ToSet(toCollector'[v]) => Crossed(v)')
    BY <1>7, <2>2, <2>3, <2>6 DEF HostsInv, Marked
  <2>9. \A v \in eosSeen : Crossed(v)' /\ toCollector'[v] = <<>>
    BY <1>7, <2>2, <2>5, <2>6 DEF HostsInv, Marked
  <2> QED BY <1>2, <1>3, <2>1, <2>7, <2>8, <2>9 DEF HostsInv, Marked
<1>13. NothingLost'
  BY <1>2, <1>3, <1>8 DEF HostsInv, NothingLost
<1> QED BY <1>9, <1>10, <1>11, <1>12, <1>13 DEF HostsInv

LEMMA CollectKeeps ==
    ASSUME D!ImgDAssumption, HostsInv, hostB = "running", NEW w \in D!WorkersB, D!Collect(w)
    PROVE  HostsInv'
<1>1. HostsType /\ w \in StartedB
  BY HostFacts DEF HostsInv
<1>2. PICK j \in Arrived(toCollector, w) :
          \/ /\ outB' = [f \in DOMAIN outB \union {heapB[j]} |-> IF f = heapB[j] THEN j ELSE outB[f]]
             /\ heapB' = [n \in DOMAIN heapB \ {j} |-> heapB[n]]
             /\ hostB' = hostB
          \/ hostB' = "aborted" /\ UNCHANGED <<outB, heapB>>
  BY SameChannels DEF D!Collect, D!Restrict
<1>3. /\ toCollector' = Drop(toCollector, w)
      /\ UNCHANGED <<both, hostA, sent, heapA, toBlur, outbox, callbacks, eosSeen, wire>>
  BY SameChannels DEF D!Collect, D!varsA
<1>4. UNCHANGED <<StartedA, Ends, StartedB, D!images, Names, Sent>>
  BY <1>2, <1>3 DEF StartedA, Ends, StartedB, D!images, Names, D!Name, Sent
<1>5. \A v : /\ Unsent(v)' = Unsent(v) /\ Blurred(v)' = Blurred(v)
             /\ Sending(v)' = Sending(v) /\ Crossed(v)' = Crossed(v)
  BY <1>3, <1>4 DEF Unsent, Blurred, Sending, Crossed
<1>6. /\ Waiting(toCollector, w) /\ toCollector[w] # <<>> /\ Head(toCollector[w]) = j
      /\ j # EOS /\ j \in Sent /\ j \in In(toCollector)
  BY <1>1, <1>2, ArrivedProperties DEF HostsType, Waiting
<1>7. /\ toCollector' \in ChannelsOf(StartedB, Sent \union {EOS})
      /\ \A v \in StartedB \ {w} : toCollector'[v] = toCollector[v]
      /\ ToSet(toCollector'[w]) \subseteq ToSet(toCollector[w])
      /\ EosAtEnd(toCollector'[w])
      /\ In(toCollector) = In(toCollector') \union {j}
      /\ NoCopies(toCollector') /\ j \notin In(toCollector')
  <2>1. /\ toCollector \in ChannelsOf(StartedB, Sent \union {EOS})
        /\ EosAtEnd(toCollector[w]) /\ NoCopies(toCollector)
    BY <1>1 DEF HostsInv, HostsType, Marked, OneHost
  <2>2. NoCopies(toCollector') /\ j \notin In(toCollector')
    BY <1>1, <1>3, <1>6, <2>1, DropNoCopies
  <2> QED BY <1>1, <1>3, <1>6, <2>1, <2>2, DropProperties
<1>8. DOMAIN heapB = In(toCollector) /\ heapB[j] \in {Names[j], Stale}
  BY <1>6 DEF HostsInv, OneHost, NamesKept
<1>9. UNCHANGED <<In(toBlur), ImagesOf(outbox), ImagesOf(wire),
                  NoCopies(toBlur), SingleParts(outbox), SingleParts(wire)>>
  BY <1>3
<1>10. HostsType'
  <2>1. hostB' # "exit"
    BY <1>2
  <2> QED BY <1>1, <1>3, <1>4, <1>7, <2>1 DEF HostsType
<1>11. Marked'
  <2>1. w \notin eosSeen
    BY <1>6 DEF HostsInv, Marked
  <2>2. \A v \in eosSeen : v \in StartedB
    BY <1>1 DEF HostsType
  <2>3. \A v \in StartedB : EosAtEnd(toCollector'[v]) /\ (EOS \in ToSet(toCollector'[v]) => Crossed(v))
    BY <1>7 DEF HostsInv, Marked
  <2>4. \A v \in eosSeen : Crossed(v) /\ toCollector'[v] = <<>>
    BY <1>7, <2>1, <2>2 DEF HostsInv, Marked
  <2> QED BY <1>3, <1>4, <1>5, <2>3, <2>4 DEF HostsInv, Marked
<1>12. CASE hostB' = "aborted" /\ UNCHANGED <<outB, heapB>>
  <2>1. OneHost'
    BY <1>3, <1>4, <1>7, <1>9, <1>12 DEF HostsInv, OneHost
  <2>2. NamesKept'
    BY <1>3, <1>4, <1>5, <1>12 DEF HostsInv, NamesKept
  <2>3. NothingLost'
    BY <1>12 DEF NothingLost
  <2> QED BY <1>10, <1>11, <2>1, <2>2, <2>3 DEF HostsInv
<1>13. CASE /\ outB' = [f \in DOMAIN outB \union {heapB[j]} |-> IF f = heapB[j] THEN j ELSE outB[f]]
            /\ heapB' = [n \in DOMAIN heapB \ {j} |-> heapB[n]]
            /\ hostB' = hostB
  <2>1. /\ DOMAIN heapB' = DOMAIN heapB \ {j}
        /\ \A n \in DOMAIN heapB' : heapB'[n] = heapB[n]
        /\ DOMAIN outB' = DOMAIN outB \union {heapB[j]}
        /\ \A f \in DOMAIN outB' : \/ f = heapB[j] /\ outB'[f] = j
                                   \/ f \in DOMAIN outB /\ outB'[f] = outB[f]
    BY <1>13
  <2>2. OneHost'
    BY <1>3, <1>4, <1>7, <1>8, <1>9, <1>13, <2>1 DEF HostsInv, OneHost
  <2>3. NamesKept'
    <3>1. \A f \in DOMAIN outB' : outB'[f] \in Sent /\ f \in {Names[outB'[f]], Stale}
      BY <1>6, <1>8, <2>1 DEF HostsInv, NamesKept
    <3>2. \A n \in DOMAIN heapB' : heapB'[n] \in {Names[n], Stale}
      BY <2>1 DEF HostsInv, NamesKept
    <3> QED BY <1>3, <1>4, <1>5, <3>1, <3>2 DEF HostsInv, NamesKept
  <2>4. NothingLost'
    BY <1>3, <1>4, <1>7, <1>8, <1>9, <1>13, <2>1 DEF HostsInv, NothingLost
  <2> QED BY <1>10, <1>11, <2>2, <2>3, <2>4 DEF HostsInv
<1> QED BY <1>2, <1>12, <1>13

LEMMA CollectEosKeeps ==
    ASSUME D!ImgDAssumption, HostsInv, hostB = "running", NEW w \in D!WorkersB, D!CollectEos(w)
    PROVE  HostsInv'
<1>1. HostsType /\ w \in StartedB
  BY HostFacts DEF HostsInv
<1>2. /\ Waiting(toCollector, w) /\ toCollector[w] # <<>> /\ Head(toCollector[w]) = EOS
      /\ toCollector' = Drop(toCollector, w) /\ eosSeen' = eosSeen \union {w}
      /\ UNCHANGED <<both, hostA, sent, heapA, toBlur, outbox, callbacks, hostB, heapB, outB, wire>>
  BY SameChannels DEF D!CollectEos, D!varsA, Waiting
<1>3. UNCHANGED <<StartedA, Ends, StartedB, D!images, Names, Sent>>
  BY <1>2 DEF StartedA, Ends, StartedB, D!images, Names, D!Name, Sent
<1>4. \A v : /\ Unsent(v)' = Unsent(v) /\ Blurred(v)' = Blurred(v)
             /\ Sending(v)' = Sending(v) /\ Crossed(v)' = Crossed(v)
  BY <1>2, <1>3 DEF Unsent, Blurred, Sending, Crossed
<1>5. /\ toCollector \in ChannelsOf(StartedB, Sent \union {EOS})
      /\ EosAtEnd(toCollector[w]) /\ NoCopies(toCollector)
      /\ EOS \in ToSet(toCollector[w])
  <2>1. toCollector[w] \in Seq(Sent \union {EOS})
    BY <1>1, HostFacts
  <2>2. EOS \in ToSet(toCollector[w])
    BY <1>2, <2>1, ToSetOfTail
  <2> QED BY <1>1, <2>2 DEF HostsInv, HostsType, Marked, OneHost
<1>6. /\ toCollector' \in ChannelsOf(StartedB, Sent \union {EOS})
      /\ \A v \in StartedB \ {w} : toCollector'[v] = toCollector[v]
      /\ toCollector'[w] = <<>>
      /\ In(toCollector') = In(toCollector) /\ NoCopies(toCollector')
  <2>1. NoCopies(toCollector')
    BY <1>1, <1>2, <1>5, DropNoCopies
  <2>2. In(toCollector) = In(toCollector') \union ({EOS} \ {EOS})
    BY <1>1, <1>2, <1>5, DropProperties
  <2> QED BY <1>1, <1>2, <1>5, <2>1, <2>2, DropProperties
<1>7. UNCHANGED <<In(toBlur), ImagesOf(outbox), ImagesOf(wire), In(toCollector),
                  NoCopies(toBlur), SingleParts(outbox), SingleParts(wire)>>
  BY <1>2, <1>6
<1>8. HostsType'
  BY <1>1, <1>2, <1>3, <1>6 DEF HostsType
<1>9. OneHost'
  BY <1>2, <1>3, <1>6, <1>7 DEF HostsInv, OneHost
<1>10. NamesKept'
  BY <1>2, <1>3, <1>4 DEF HostsInv, NamesKept
<1>11. Marked'
  <2>1. Crossed(w)
    BY <1>1, <1>5 DEF HostsInv, Marked
  <2>2. EosAtEnd(toCollector'[w]) /\ ToSet(toCollector'[w]) = {}
    BY <1>6, EosAtEndOfEmpty, ToSetOfEmpty
  <2>3. \A v \in StartedB : EosAtEnd(toCollector'[v]) /\ (EOS \in ToSet(toCollector'[v]) => Crossed(v))
    BY <1>6, <2>2 DEF HostsInv, Marked
  <2>4. \A v \in eosSeen' : Crossed(v) /\ toCollector'[v] = <<>>
    BY <1>1, <1>2, <1>6, <2>1 DEF HostsInv, Marked, HostsType
  <2> QED BY <1>2, <1>3, <1>4, <2>3, <2>4 DEF HostsInv, Marked
<1>12. NothingLost'
  BY <1>2, <1>3, <1>7 DEF HostsInv, NothingLost
<1> QED BY <1>8, <1>9, <1>10, <1>11, <1>12 DEF HostsInv

LEMMA ExitBKeeps ==
    ASSUME D!ImgDAssumption, HostsInv, hostB = "running", D!ExitB
    PROVE  HostsInv'
<1>1. /\ hostB' = "exit" /\ eosSeen = StartedB
      /\ UNCHANGED <<both, hostA, sent, heapA, toBlur, outbox, callbacks, heapB, toCollector,
                     eosSeen, outB, wire>>
  BY HostFacts DEF D!ExitB, D!varsA, HostsInv
<1>2. UNCHANGED <<StartedA, Ends, StartedB, D!images, Names, Sent>>
  BY <1>1 DEF StartedA, Ends, StartedB, D!images, Names, D!Name, Sent
<1>3. \A w : /\ Unsent(w)' = Unsent(w) /\ Blurred(w)' = Blurred(w)
             /\ Sending(w)' = Sending(w) /\ Crossed(w)' = Crossed(w)
  BY <1>1, <1>2 DEF Unsent, Blurred, Sending, Crossed
<1>4. UNCHANGED <<In(toBlur), ImagesOf(outbox), ImagesOf(wire), In(toCollector),
                  NoCopies(toBlur), SingleParts(outbox), SingleParts(wire), NoCopies(toCollector)>>
  BY <1>1
<1>5. HostsType'
  BY <1>1, <1>2 DEF HostsInv, HostsType
<1>6. OneHost'
  BY <1>1, <1>2, <1>4 DEF HostsInv, OneHost
<1>7. NamesKept'
  BY <1>1, <1>2, <1>3 DEF HostsInv, NamesKept
<1>8. Marked'
  BY <1>1, <1>2, <1>3 DEF HostsInv, Marked
<1>9. NothingLost'
  BY <1>1, <1>2, <1>4 DEF HostsInv, NothingLost
<1> QED BY <1>5, <1>6, <1>7, <1>8, <1>9 DEF HostsInv

LEMMA HostsUnchanged ==
    ASSUME HostsInv, UNCHANGED D!vars
    PROVE  HostsInv'
<1>1. UNCHANGED <<both, hostA, sent, heapA, toBlur, outbox, callbacks, hostB, heapB,
                  toCollector, eosSeen, outB, wire>>
  BY DEF D!vars, D!varsA, D!varsB
<1>2. UNCHANGED <<StartedA, Ends, StartedB, D!images, Names, Sent>>
  BY <1>1 DEF StartedA, Ends, StartedB, D!images, Names, D!Name, Sent
<1>3. \A w : /\ Unsent(w)' = Unsent(w) /\ Blurred(w)' = Blurred(w)
             /\ Sending(w)' = Sending(w) /\ Crossed(w)' = Crossed(w)
  BY <1>1, <1>2 DEF Unsent, Blurred, Sending, Crossed
<1>4. UNCHANGED <<In(toBlur), ImagesOf(outbox), ImagesOf(wire), In(toCollector),
                  NoCopies(toBlur), SingleParts(outbox), SingleParts(wire), NoCopies(toCollector)>>
  BY <1>1
<1>5. HostsType' /\ OneHost'
  BY <1>1, <1>2, <1>4 DEF HostsInv, HostsType, OneHost
<1>6. NamesKept' /\ Marked'
  BY <1>1, <1>2, <1>3 DEF HostsInv, NamesKept, Marked
<1>7. NothingLost'
  BY <1>1, <1>2, <1>4 DEF HostsInv, NothingLost
<1> QED BY <1>5, <1>6, <1>7 DEF HostsInv

LEMMA HostsInvariance == ASSUME D!ImgDAssumption PROVE D!Spec => []HostsInv
<1>1. D!Init => HostsInv
  BY HostsInit
<1>2. HostsInv /\ [D!Next]_D!vars => HostsInv'
  <2>1. SUFFICES ASSUME HostsInv, [D!Next]_D!vars PROVE HostsInv'
    OBVIOUS
  <2>2. CASE D!EmitterStep
    BY <2>1, <2>2, MainAKeeps, EmitKeeps, EmitEosKeeps, ExitAKeeps DEF D!EmitterStep
  <2>3. CASE D!CallbackStep
    BY <2>1, <2>3, CallbackKeeps DEF D!CallbackStep
  <2>4. CASE D!CollectorStep
    BY <2>1, <2>4, MainBKeeps, ExitBKeeps, CollectKeeps, CollectEosKeeps DEF D!CollectorStep
  <2>5. ASSUME NEW w \in D!WorkersA, D!BlurStep(w) PROVE HostsInv'
    BY <2>1, <2>5, BlurKeeps, EndBlurKeeps DEF D!BlurStep
  <2>6. ASSUME NEW w \in D!WorkersA, D!TransportStep(w) PROVE HostsInv'
    BY <2>1, <2>6, TransmitKeeps DEF D!TransportStep
  <2>7. ASSUME NEW w \in D!WorkersB, D!EmbossStep(w) PROVE HostsInv'
    BY <2>1, <2>7, EmbossKeeps, EndEmbossKeeps DEF D!EmbossStep
  <2>8. CASE UNCHANGED D!vars
    BY <2>1, <2>8, HostsUnchanged
  <2> QED BY <2>1, <2>2, <2>3, <2>4, <2>5, <2>6, <2>7, <2>8 DEF D!Next
<1> QED BY <1>1, <1>2, PTL DEF D!Spec

LEMMA PartsAreImages ==
    ASSUME NEW W, NEW S, NEW N, NEW ch \in ChannelsOf(W, Parts(S, N)), S \subseteq Nat
    PROVE  D!PartsOf(ch, "image") = ImagesOf(ch)
<1>1. DOMAIN ch = W /\ \A w \in W : \A k \in DOMAIN ch[w] : ch[w][k] \in Parts(S, N)
  BY DEF ChannelsOf
<1>2. \A p \in Parts(S, N) : p.kind = "image" => p.task \in Nat /\ p = D!ImagePart(p.task)
  BY DEF Parts, D!ImagePart, D!NamePart, D!Mark
<1>3. \A n : D!ImagePart(n).kind = "image" /\ D!ImagePart(n).task = n
  BY DEF D!ImagePart
<1> DEFINE all == UNION {D!ToSet(ch[w]) : w \in W}
<1>4. \A p : p \in all <=> \E w \in W : \E k \in DOMAIN ch[w] : p = ch[w][k]
  BY DEF D!ToSet
<1> HIDE DEF all
<1>5. D!PartsOf(ch, "image") = {p.task : p \in {q \in all : q.kind = "image"}}
  BY <1>1, Zenon DEF D!PartsOf, all
<1>6. ASSUME NEW p \in all, p.kind = "image" PROVE p.task \in ImagesOf(ch)
  BY <1>1, <1>2, <1>4, <1>6 DEF ImagesOf
<1>7. ASSUME NEW n \in ImagesOf(ch) PROVE \E p \in all : p.kind = "image" /\ p.task = n
  BY <1>1, <1>3, <1>4, <1>7 DEF ImagesOf
<1> QED BY <1>5, <1>6, <1>7

\* The transport's callback deletes a task when its image has left and not
\* before; on both hosts every task alive is in one place, and none is lost
\* from its heap or left on it.
THEOREM HostTasksOwned ==
    ASSUME D!ImgDAssumption
    PROVE  D!Spec => []D!Ownership
<1>1. HostsInv => D!Ownership
  <2>1. SUFFICES ASSUME HostsInv PROVE D!Ownership
    OBVIOUS
  <2>2. HostsType /\ OneHost
    BY <2>1 DEF HostsInv
  <2>3. Sent \subseteq Nat
    BY <2>2, HostFacts
  <2>4. D!PartsOf(outbox, "image") = ImagesOf(outbox)
    BY <2>2, <2>3, PartsAreImages DEF HostsType
  <2>5. D!PartsOf(wire, "image") = ImagesOf(wire)
    BY <2>2, <2>3, PartsAreImages DEF HostsType
  <2> QED BY <2>2, <2>4, <2>5, SameChannels DEF D!Ownership, OneHost
<1> QED BY <1>1, HostsInvariance, PTL

\* Each file of host B is an image of its name, or of a name that was read too
\* late; and when host B has ended, no image is missing unless such a name or a
\* missing partner is to blame.
THEOREM HostsLikeSequential ==
    ASSUME D!ImgDAssumption
    PROVE  D!Spec => []D!LikeSequential
<1>1. HostsInv => D!LikeSequential
  <2>1. SUFFICES ASSUME HostsInv PROVE D!LikeSequential
    OBVIOUS
  <2>2. HostsType
    BY <2>1 DEF HostsInv
  <2>3. \A j \in Sent : Names[j] = D!Name(j) /\ j \in DOMAIN D!images
    BY <2>2, HostFacts DEF Sent
  <2>4. \A f \in DOMAIN outB : outB[f] \in Sent /\ (f # Stale => f = D!Name(outB[f]))
    BY <2>1, <2>3 DEF HostsInv, NamesKept
  <2>5. ASSUME hostB = "exit", Stale \notin DOMAIN outB, both.nwA = both.nwB
        PROVE  DOMAIN outB = {D!Name(j) : j \in DOMAIN D!images}
    <3>1. eosSeen = StartedB /\ StartedB = 1..both.nwB /\ both.nwB \in Nat \ {0}
      BY <2>2, <2>5, HostFacts DEF HostsType, StartedB
    <3>2. \A w \in 1..both.nwB : Crossed(w) /\ toCollector[w] = <<>>
      BY <2>1, <3>1 DEF HostsInv, Marked
    <3>3. 1 \in 1..both.nwB
      BY <3>1
    <3>4. 1 \in StartedA /\ sent > Len(D!images)
      BY <3>2, <3>3 DEF Crossed, Sending, Blurred
    <3>5. StartedA = 1..both.nwB
      BY <2>5, <3>4 DEF StartedA
    <3>6. Ends = 1..both.nwB
      BY <2>2, <2>5, HostFacts, MaxOfHosts DEF Ends
    <3>7. \A w \in 1..both.nwB : /\ toBlur[w] = <<>> /\ outbox[w] = <<>> /\ wire[w] = <<>>
                                 /\ toCollector[w] = <<>>
      BY <3>2 DEF Crossed, Sending, Blurred
    <3>8. In(toBlur) = {} /\ In(toCollector) = {}
      BY <2>2, <3>1, <3>5, <3>7, NothingThere DEF HostsType
    <3>9. ImagesOf(outbox) = {} /\ ImagesOf(wire) = {}
      BY <2>2, <3>5, <3>6, <3>7, NothingThere DEF HostsType
    <3>10. Sent = DOMAIN D!images
      <4>1. DOMAIN D!images = 1..Len(D!images) /\ sent \in Nat /\ Len(D!images) \in Nat
        BY <2>2, HostFacts
      <4> QED BY <3>4, <4>1 DEF Sent
    <3>11. \A j \in Sent : D!Name(j) \in DOMAIN outB
      BY <2>1, <2>3, <2>5, <3>8, <3>9 DEF HostsInv, NothingLost
    <3> QED BY <2>4, <2>5, <3>10, <3>11
  <2> QED BY <2>4, <2>5 DEF D!LikeSequential
<1> QED BY <1>1, HostsInvariance, PTL
====
