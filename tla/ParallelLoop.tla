---- MODULE ParallelLoop ----
(***************************************************************************)
(* FastFlow's parallel loops (ParallelFor, ff_Map), as the programs of     *)
(* ClassWork5 and ClassWork6 use them. The iterations first..last-1 are    *)
(* dealt out to threads: one even share to each when the chunk is 0, else  *)
(* chunk after chunk to whoever asks. The caller goes on when all is done. *)
(***************************************************************************)
EXTENDS Integers

VARIABLES
    share,      \* per thread, the iterations from..to-1 it still has to do
    undealt,    \* the first iteration nobody has yet
    last        \* where the loop ends

loopVars == <<share, undealt, last>>

Least(a, b) == IF a <= b THEN a ELSE b

Threads == DOMAIN share

\* The start of the even share of thread w out of n.
EvenStart(n, w, first, end) ==
    first + w * ((end - first) \div n) + Least(w, (end - first) % n)

NoLoop == share = <<>> /\ undealt = 0 /\ last = 0

\* parallel_for(first, end, 1, chunk, ...) on n threads; an empty range does
\* nothing.
StartLoop(n, first, end, chunk) ==
    LET stop == IF end < first THEN first ELSE end
    IN /\ share' = [w \in 0..n - 1 |->
                       IF chunk = 0
                       THEN [from |-> EvenStart(n, w, first, stop),
                             to   |-> EvenStart(n, w + 1, first, stop)]
                       ELSE [from |-> first, to |-> first]]
       /\ undealt' = IF chunk = 0 THEN stop ELSE first
       /\ last' = stop

Idle(w) == share[w].from = share[w].to

\* An idle thread takes the next chunk.
Deal(w, chunk) ==
    /\ Idle(w) /\ undealt < last
    /\ share' = [share EXCEPT ![w] = [from |-> undealt, to |-> Least(undealt + chunk, last)]]
    /\ undealt' = Least(undealt + chunk, last)
    /\ UNCHANGED last

\* Thread w does iteration share[w].from.
Iterate(w) ==
    /\ ~Idle(w)
    /\ share' = [share EXCEPT ![w].from = @ + 1]
    /\ UNCHANGED <<undealt, last>>

LoopDone == undealt = last /\ \A w \in Threads : Idle(w)
====
