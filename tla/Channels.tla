---- MODULE Channels ----
(***************************************************************************)
(* The FastFlow channels of a farm, as the programs use them: one FIFO per *)
(* worker, from the emitter to the worker or from the worker back to the   *)
(* emitter. FastFlow itself is not part of the repository. A family of     *)
(* channels is a function from workers to sequences of messages; EOS is    *)
(* the mark a node sends when it will send nothing more.                   *)
(***************************************************************************)
EXTENDS Naturals, SequencesExt

CONSTANT EOS

\* FastFlow keeps the mark apart from tasks: no pointer, and no number cast
\* to a pointer from the range std::stoll returns, equals it.
ASSUME EOSAssumption == EOS \notin Nat

\* A channel for each worker of W, for the messages of S.
ChannelsOf(W, S) == [W -> Seq(S)]

Put(ch, w, m) == [ch EXCEPT ![w] = Append(@, m)]

Drop(ch, w) == [ch EXCEPT ![w] = Tail(@)]

Waiting(ch, w) == ch[w] # <<>>

\* The task at the head of a channel, if there is one.
Arrived(ch, w) == IF ch[w] = <<>> THEN {} ELSE {Head(ch[w])} \ {EOS}

\* ff_send_out and broadcast_task wait while a channel holds cap messages.
HasRoom(ch, w, cap) == Len(ch[w]) < cap

\* What properties say of channels: the messages in them, less the marks; that
\* no message but a mark is twice in them; that nothing follows the mark.
In(ch) == (UNION {ToSet(ch[w]) : w \in DOMAIN ch}) \ {EOS}

NoCopies(ch) ==
    \A v, w \in DOMAIN ch : \A j \in DOMAIN ch[v], k \in DOMAIN ch[w] :
        ch[v][j] = ch[w][k] /\ ch[v][j] # EOS => v = w /\ j = k

EosAtEnd(s) == \A k \in DOMAIN s : s[k] = EOS => k = Len(s)
====
