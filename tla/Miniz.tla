---- MODULE Miniz ----
(***************************************************************************)
(* The streaming interface of ClassWork3/miniz.c as a caller of deflate()  *)
(* and inflate(stream, Z_SYNC_FLUSH) sees it: a z_stream whose next_in and *)
(* next_out point into two fixed buffers, and the coders behind it with    *)
(* what they hold back: codes not yet in a block, a block that did not fit *)
(* into the output, decoded text still in the dictionary.                  *)
(*                                                                         *)
(* A block of the coded stream is cut into units. What a unit decodes to   *)
(* is in the unit, how long a block gets is free: Huffman and LZ coding    *)
(* are left out, and so is the caller's choice of flush for inflate.       *)
(*                                                                         *)
(* The sizes are parameters. With those of the program, where the buffer   *)
(* is a multiple of the dictionary, InflateRest is never needed.           *)
(***************************************************************************)
EXTENDS Integers, SequencesExt, FiniteSetsExt

CONSTANTS
    BufSize,    \* BUF_SIZE, the length of each buffer of the caller
    DictSize,   \* TINFL_LZ_DICT_SIZE
    MaxBlock    \* units of a block

ASSUME SizesAssumption == {BufSize, DictSize, MaxBlock} \subseteq Nat \ {0}

VARIABLES
    next_in,    \* what is left of the input buffer; its length is avail_in
    s_outbuf,   \* what is in the output buffer
    comp,       \* the tdefl_compressor
    decomp,     \* the inflate_state
    flush,      \* the argument of the current call of deflate
    orig,       \* avail_in and avail_out when the current call began
    zpc,        \* where the current call is; "ready" between calls
    zstatus     \* what the last call returned

streamVars == <<next_in, s_outbuf, comp, decomp, flush, orig, zpc, zstatus>>

avail_out == BufSize - Len(s_outbuf)
Progress == orig.in # Len(next_in) \/ orig.out # avail_out

----------------------------------------------------------------------------
\* The coded stream.

\* err is "wrong" for damage only the checksum reveals, "broken" for damage
\* the decoder stumbles over.
Unit(text, part, of, final, err) ==
    [text |-> text, part |-> part, of |-> of, final |-> final, err |-> err]

Block(text, of, final) == [j \in 1..of |-> Unit(text, j, of, final, "none")]

\* What a unit adds to the decoded text.
Share(u) == SubSeq(u.text, ((u.part - 1) * Len(u.text)) \div u.of + 1,
                           (u.part * Len(u.text)) \div u.of)

LastUnit(u) == u.final /\ u.part = u.of

Complete(units) == \E k \in DOMAIN units : LastUnit(units[k])

\* The text of a stream; what follows its last unit is no part of it.
Decode(units) ==
    LET n == SelectInSeq(units, LastUnit)
        stream == IF n = 0 THEN units ELSE SubSeq(units, 1, n)
    IN FlattenSeq([k \in 1..Len(stream) |-> Share(stream[k])])

----------------------------------------------------------------------------
\* Streams.

NewCompressor == [codes |-> <<>>, unsent |-> <<>>, finishing |-> FALSE, finished |-> FALSE]
NewDecompressor == [due |-> <<>>, wrong |-> FALSE, ended |-> FALSE,
                    dict |-> <<>>, ofs |-> 0, last |-> "NEEDS_MORE_INPUT"]

StreamInit ==
    /\ next_in = <<>> /\ s_outbuf = <<>>
    /\ comp = NewCompressor /\ decomp = NewDecompressor
    /\ flush = "Z_NO_FLUSH" /\ orig = [in |-> 0, out |-> 0]
    /\ zpc = "ready" /\ zstatus = "Z_OK"

\* memset of the z_stream and deflateInit or inflateInit.
StreamReset ==
    /\ next_in' = <<>> /\ s_outbuf' = <<>>
    /\ comp' = NewCompressor /\ decomp' = NewDecompressor
    /\ flush' = "Z_NO_FLUSH" /\ orig' = [in |-> 0, out |-> 0]
    /\ zpc' = "ready" /\ zstatus' = "Z_OK"

Called == orig' = [in |-> Len(next_in), out |-> avail_out]

Return(status) == zpc' = "ready" /\ zstatus' = status

----------------------------------------------------------------------------
\* Mutants: plausible slips in the definitions that follow; no specification
\* uses them.

\* Output the block could not place is forgotten.
EmitBlockTruncates(text, left, final) ==
    \E m \in 1..MaxBlock :
        LET block == Block(text, m, final)
            n == Min({m, avail_out})
        IN /\ s_outbuf' = s_outbuf \o SubSeq(block, 1, n)
           /\ comp' = [comp EXCEPT !.codes = left, !.unsent = <<>>, !.finished = final]

----------------------------------------------------------------------------
\* deflate(). A call of tdefl_compress first sends what is left of the last
\* block, and compresses only if nothing is.

Enter(c) == zpc' = IF c.unsent # <<>> \/ c.finished THEN "drain" ELSE "compress"

Done(c) == c.finished /\ c.unsent = <<>>

Deflate(f) ==
    /\ zpc = "ready"
    /\ Called
    /\ flush' = f
    /\ IF avail_out = 0 \/ Done(comp) \/ (comp.finishing /\ f # "Z_FINISH")
       THEN /\ Return(CASE avail_out = 0 -> "Z_BUF_ERROR"
                        [] avail_out # 0 /\ Done(comp) ->
                              IF f = "Z_FINISH" THEN "Z_STREAM_END" ELSE "Z_BUF_ERROR"
                        [] OTHER -> "Z_STREAM_ERROR")
            /\ UNCHANGED comp
       ELSE /\ comp' = [comp EXCEPT !.finishing = (f = "Z_FINISH")]
            /\ Enter(comp)
            /\ UNCHANGED zstatus
    /\ UNCHANGED <<next_in, s_outbuf, decomp>>

\* tdefl_compress_normal records a piece of the input as codes.
Record ==
    /\ zpc = "compress" /\ next_in # <<>>
    /\ comp' = [comp EXCEPT !.codes = Append(@, Head(next_in))]
    /\ next_in' = Tail(next_in)
    /\ UNCHANGED <<s_outbuf, decomp, flush, orig, zpc, zstatus>>

\* tdefl_flush_block: the codes of text leave as a block, to the output as
\* far as it fits and to m_output_buf for the rest.
EmitBlock(text, left, final) ==
    \E m \in 1..MaxBlock :
        LET block == Block(text, m, final)
            n == Min({m, avail_out})
        IN /\ s_outbuf' = s_outbuf \o SubSeq(block, 1, n)
           /\ comp' = [comp EXCEPT !.codes = left, !.unsent = SubSeq(block, n + 1, m),
                                   !.finished = final]

\* The buffer of codes is full; compression stops when the output is.
FlushBlock ==
    /\ zpc = "compress"
    /\ \E n \in 1..Len(comp.codes) :
          EmitBlock(SubSeq(comp.codes, 1, n), SubSeq(comp.codes, n + 1, Len(comp.codes)), FALSE)
    /\ zpc' = IF comp'.unsent # <<>> THEN "drain" ELSE "compress"
    /\ UNCHANGED <<next_in, decomp, flush, orig, zstatus>>

\* No input is left and more may come: the codes wait for the next call.
KeepCodes ==
    /\ zpc = "compress" /\ next_in = <<>> /\ flush = "Z_NO_FLUSH"
    /\ zpc' = "drain"
    /\ UNCHANGED <<next_in, s_outbuf, comp, decomp, flush, orig, zstatus>>

FinishBlock ==
    /\ zpc = "compress" /\ next_in = <<>> /\ flush = "Z_FINISH"
    /\ EmitBlock(comp.codes, <<>>, TRUE)
    /\ zpc' = "drain"
    /\ UNCHANGED <<next_in, decomp, flush, orig, zstatus>>

\* tdefl_flush_output_buffer, and the rest of a turn of mz_deflate's loop.
Drain ==
    /\ zpc = "drain"
    /\ UNCHANGED <<next_in, decomp, flush, orig>>
    /\ LET n == Min({Len(comp.unsent), avail_out})
       IN /\ s_outbuf' = s_outbuf \o SubSeq(comp.unsent, 1, n)
          /\ comp' = [comp EXCEPT !.unsent = SubSeq(@, n + 1, Len(@))]
    /\ CASE Done(comp') -> Return("Z_STREAM_END")
         [] ~Done(comp') /\ avail_out' = 0 -> Return("Z_OK")
         [] ~Done(comp') /\ avail_out' # 0 /\ next_in = <<>> /\ flush = "Z_NO_FLUSH" ->
               Return(IF Progress' THEN "Z_OK" ELSE "Z_BUF_ERROR")
         [] OTHER -> Enter(comp') /\ UNCHANGED zstatus

DeflateStep == Record \/ FlushBlock \/ KeepCodes \/ FinishBlock \/ Drain

----------------------------------------------------------------------------
\* inflate(). Text left in the dictionary by the last call goes first, alone.
InflateRest ==
    /\ zpc = "ready" /\ decomp.dict # <<>>
    /\ Called
    /\ LET n == Min({Len(decomp.dict), avail_out})
           left == SubSeq(decomp.dict, n + 1, Len(decomp.dict))
       IN /\ s_outbuf' = s_outbuf \o SubSeq(decomp.dict, 1, n)
          /\ decomp' = [decomp EXCEPT !.dict = left, !.ofs = (@ + n) % DictSize]
          /\ Return(IF decomp.last = "DONE" /\ left = <<>> THEN "Z_STREAM_END" ELSE "Z_OK")
    /\ UNCHANGED <<next_in, comp, flush>>

Inflate ==
    /\ zpc = "ready" /\ decomp.dict = <<>>
    /\ Called
    /\ IF decomp.last = "FAILED"
       THEN Return("Z_DATA_ERROR")
       ELSE zpc' = "decompress" /\ UNCHANGED zstatus
    /\ UNCHANGED <<next_in, s_outbuf, comp, decomp, flush>>

\* Room of the dictionary up to its end, where the output wraps.
Room == DictSize - decomp.ofs - Len(decomp.dict)

Broken == next_in # <<>> /\ Head(next_in).err = "broken"

\* tinfl_decompress reads on when the text of what it has read is in the
\* dictionary ...
Eat ==
    /\ zpc = "decompress"
    /\ decomp.due = <<>> /\ ~decomp.ended /\ next_in # <<>> /\ ~Broken
    /\ LET u == Head(next_in)
       IN decomp' = [decomp EXCEPT !.due = Share(u),
                                   !.ended = LastUnit(u),
                                   !.wrong = @ \/ u.err = "wrong"]
    /\ next_in' = Tail(next_in)
    /\ UNCHANGED <<s_outbuf, comp, flush, orig, zpc, zstatus>>

Copy ==
    /\ zpc = "decompress" /\ decomp.due # <<>> /\ Room > 0
    /\ LET n == Min({Len(decomp.due), Room})
       IN decomp' = [decomp EXCEPT !.dict = @ \o SubSeq(decomp.due, 1, n),
                                   !.due = SubSeq(@, n + 1, Len(@))]
    /\ UNCHANGED <<next_in, s_outbuf, comp, flush, orig, zpc, zstatus>>

\* ... and returns when it can do neither.
TinflStatus ==
    CASE decomp.due # <<>> -> "HAS_MORE_OUTPUT"
      [] decomp.due = <<>> /\ decomp.ended -> IF decomp.wrong THEN "FAILED" ELSE "DONE"
      [] decomp.due = <<>> /\ ~decomp.ended /\ Broken -> "FAILED"
      [] OTHER -> "NEEDS_MORE_INPUT"

\* The rest of a turn of mz_inflate's loop.
InflateTurn ==
    /\ zpc = "decompress"
    /\ \/ decomp.due # <<>> /\ Room = 0
       \/ decomp.due = <<>> /\ (decomp.ended \/ next_in = <<>> \/ Broken)
    /\ UNCHANGED <<next_in, comp, flush, orig>>
    /\ LET status == TinflStatus
           n == Min({Len(decomp.dict), avail_out})
           left == SubSeq(decomp.dict, n + 1, Len(decomp.dict))
       IN /\ s_outbuf' = s_outbuf \o SubSeq(decomp.dict, 1, n)
          /\ decomp' = [decomp EXCEPT !.dict = left, !.ofs = (@ + n) % DictSize,
                                      !.last = status]
          /\ IF status = "FAILED" THEN Return("Z_DATA_ERROR")
             ELSE IF status = "NEEDS_MORE_INPUT" /\ orig.in = 0 THEN Return("Z_BUF_ERROR")
             ELSE IF \/ status = "DONE"
                     \/ next_in = <<>>
                     \/ avail_out' = 0
                     \/ left # <<>>
             THEN Return(IF status = "DONE" /\ left = <<>> THEN "Z_STREAM_END" ELSE "Z_OK")
             ELSE UNCHANGED <<zpc, zstatus>>

InflateStep == Eat \/ Copy \/ InflateTurn
====
