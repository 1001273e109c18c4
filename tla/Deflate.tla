---- MODULE Deflate ----
(***************************************************************************)
(* The compressor of miniz.c from text to bits, and the decompressor back: *)
(* Lz records items; tdefl_flush_block writes them as a block, with        *)
(* Huffman codes made for it, with the fixed ones, or as it stands in the  *)
(* dictionary; tinfl_decompress knows only what was written.               *)
(*                                                                         *)
(* Left out are how bits are packed into bytes, the header and checksum of *)
(* the stream, and output that waits for room (see Miniz).                 *)
(***************************************************************************)
EXTENDS Lz, Huffman

CONSTANT
    SmallBlock  \* 48, below which fixed codes are taken

\* Counts and their sums stay below the size of a key.
ASSUME CountsAssumption == CodeBuf + 4 < KeySize

VARIABLES
    written,                \* the bits
    lz_code_buf_dict_pos    \* where the text of the block begins

vars == <<lzVars, huffmanVars, written, lz_code_buf_dict_pos>>

Init == LzInit /\ HuffmanIdle /\ written = <<>> /\ lz_code_buf_dict_pos = 0

----------------------------------------------------------------------------
\* tdefl_flush_block.

\* The text of the block is still in the dictionary.
RawPossible == lookahead_pos - lz_code_buf_dict_pos <= dict_size

UseStatic == input.static \/ total_lz_bytes < SmallBlock

Start ==
    /\ lz \in {"block", "last block"} /\ ~(input.raw /\ RawPossible)
    /\ IF UseStatic THEN StartStaticBlock(lz_codes) ELSE StartDynamicBlock(lz_codes)
    /\ UNCHANGED <<lzVars, written, lz_code_buf_dict_pos>>

Code == HuffmanStep /\ UNCHANGED <<lzVars, written, lz_code_buf_dict_pos>>

\* A block of type 0, 1 or 2; then the next one begins.
Write(type, bits) ==
    /\ written' = written \o <<IF lz = "last block" THEN 1 ELSE 0, type>> \o bits
    /\ lz_code_buf_dict_pos' = lz_code_buf_dict_pos + total_lz_bytes
    /\ lz_codes' = <<>>
    /\ lz' = IF lz = "last block" THEN "finished" ELSE "loop"
    /\ UNCHANGED <<textVars, dictVars, match, saved>>

NextBlock ==
    /\ block' = <<>> /\ table' = 0 /\ step' = "idle"
    /\ huff_count' = [t \in 0..2 |-> NoCodes(t)]
    /\ pSyms' = <<>> /\ A' = <<>> /\ loop' = <<>> /\ num_codes' = <<>> /\ total' = 0
    /\ code_sizes' = [t \in 0..2 |-> NoCodes(t)]
    /\ codes' = [t \in 0..2 |-> <<>>]
    /\ pack' = <<>>

WriteCoded ==
    /\ step = "done"
    /\ Write(IF UseStatic THEN 1 ELSE 2, (IF UseStatic THEN <<>> ELSE DynamicHeader) \o BlockBits)
    /\ NextBlock

\* Because the flags say so, or because the codes are longer than the text:
\* how long they are is left open.
WriteRaw ==
    /\ lz \in {"block", "last block"}
    /\ RawPossible
    /\ \/ step = "idle" /\ input.raw
       \/ step = "done" /\ total_lz_bytes > 0
    /\ Write(0, <<total_lz_bytes, PosSize - 1 - total_lz_bytes>>
                    \o [k \in 1..total_lz_bytes |-> dict[(lz_code_buf_dict_pos + k - 1) % DictSize]])
    /\ NextBlock

Terminated == lz = "finished" /\ UNCHANGED vars

Next ==
    \/ LzStep /\ UNCHANGED <<huffmanVars, written, lz_code_buf_dict_pos>>
    \/ Start \/ Code \/ WriteCoded \/ WriteRaw \/ Terminated

Spec == Init /\ [][Next]_vars

----------------------------------------------------------------------------
\* tinfl_decompress on what is written.

DecodeRaw(bits, got) ==
    IF bits[2] # PosSize - 1 - bits[1] THEN Damaged(got)
    ELSE [ok |-> TRUE, text |-> got \o SubSeq(bits, 3, 2 + bits[1]),
          rest |-> SubSeq(bits, 3 + bits[1], Len(bits))]

DecodeBlock(bits, got) ==
    LET body == SubSeq(bits, 3, Len(bits))
    IN CASE bits[2] = 0 -> DecodeRaw(body, got)
         [] bits[2] = 1 -> DecodeStatic(body, got)
         [] bits[2] = 2 -> DecodeDynamic(body, got)

RECURSIVE Inflate(_, _)
Inflate(bits, got) ==
    LET b == DecodeBlock(bits, got)
    IN IF bits = <<>> THEN Damaged(got)
       ELSE IF bits[1] = 1 \/ ~b.ok THEN b
       ELSE Inflate(b.rest, b.text)

\* The decoder, from the bits alone, finds every block where it begins and
\* gives the text back: no match reaches to where the decoder has something
\* else, whatever is stale in the chains and the dictionary; a raw block is
\* still the text of its items, also while a match is kept back; each code is
\* complete, and what is packed of its sizes is read alike.
Decodable ==
    lz = "finished" => Inflate(written, <<>>) = [ok |-> TRUE, text |-> text, rest |-> <<>>]
====
