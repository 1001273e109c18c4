---- MODULE Lz ----
(***************************************************************************)
(* How miniz.c finds repetitions in a text, tdefl_compress_normal: a       *)
(* circular dictionary of the last bytes, with a copy of its start behind  *)
(* its end, so that a comparison never wraps; hash chains of positions of  *)
(* 16 bits, which go stale; and a parser that keeps a match back in case   *)
(* the next byte begins a longer one.                                      *)
(*                                                                         *)
(* An item of the output is a literal <<byte>> or a match                  *)
(* <<length, distance>>. The sizes are parameters.                         *)
(***************************************************************************)
EXTENDS Integers, SequencesExt, FiniteSetsExt

CONSTANTS
    Inputs,     \* texts, how many bytes a call gives, and the flags:
                \* [text, chunk, probes, greedy, rle, filter, raw, static], and
                \* what the memory of the compressor holds before
    Bytes,
    DictSize,   \* TDEFL_LZ_DICT_SIZE, 2^15
    PosSize,    \* 2^16, for positions in the chains
    MaxMatch,   \* TDEFL_MAX_MATCH_LEN, 258
    TooFar,     \* 8K, from where the shortest match is not worth its distance
    LongMatch,  \* 128, a match that no other is waited for
    LongSaved,  \* 32, a saved match after which fewer probes are made
    FilterLen,  \* 5, the longest match the filter flag rejects
    CodeBuf,    \* 64K - 8, the room for items
    EarlyFlush, \* 31K, from where a text that does not shrink ends its block
    HashSize,
    Hash(_, _, _)   \* of three bytes

\* A raw block is taken from the dictionary: it must be there until the block
\* ends.
ASSUME LzAssumption ==
    /\ PosSize % DictSize = 0 /\ PosSize > DictSize
    /\ 3 < MaxMatch /\ EarlyFlush + 1 <= DictSize - MaxMatch
    /\ \A a, b, c \in Bytes : Hash(a, b, c) \in 0..HashSize - 1
    /\ \A i \in Inputs : i.text \in Seq(Bytes) /\ i.chunk > 0

VARIABLES
    input,
    given,          \* how many bytes the calls up to now have given
    src,            \* how many of these have been taken
    lookahead_pos,  \* the position of the next byte to be coded
    lookahead_size, \* how many bytes from there on are in the dictionary
    dict_size,      \* and how many before
    dict, hash, next,
    match,          \* the search in work
    saved,          \* the match kept back, and the byte before it
    lz_codes,       \* the items of the block
    lz              \* where tdefl_compress is

textVars == <<input, given>>
dictVars == <<src, lookahead_pos, lookahead_size, dict_size, dict, hash, next>>
lzVars == <<textVars, dictVars, match, saved, lz_codes, lz>>

MinMatch == 3

text == input.text

\* Calls give chunk bytes and the last one what is left, with TDEFL_FINISH.
flush == given = Len(text)

NoMatch == [len |-> 0, dist |-> 0, lit |-> 0]

\* tdefl_init. It clears the hash table; the bytes and the chains are what
\* malloc returns.
LzInit ==
    /\ input \in Inputs
    /\ given = 0 /\ src = 0
    /\ lookahead_pos = 0 /\ lookahead_size = 0 /\ dict_size = 0
    /\ dict = [k \in 0..DictSize + MaxMatch - 2 |-> input.memory]
    /\ next = [k \in 0..DictSize - 1 |-> input.memory]
    /\ hash = [h \in 0..HashSize - 1 |-> 0]
    /\ match = NoMatch /\ saved = NoMatch
    /\ lz_codes = <<>>
    /\ lz = "ready"

LengthOf(item) == IF Len(item) = 1 THEN 1 ELSE item[1]

TextSize(items) == MapThenSumSet(LAMBDA k : LengthOf(items[k]), DOMAIN items)
total_lz_bytes == TextSize(lz_codes)

----------------------------------------------------------------------------
\* Mutants: plausible slips in the definitions that follow; no specification
\* uses them.

\* A match is looked for in all of the dictionary.
InReachAlways(dist) == dist <= DictSize

\* What is before the lookahead keeps its size when the lookahead grows.
HistoryUncut(size) == dict_size

----------------------------------------------------------------------------

Call ==
    /\ lz = "ready"
    /\ given' = Min({given + input.chunk, Len(text)})
    /\ lz' = "loop"
    /\ UNCHANGED <<input, dictVars, match, saved, lz_codes>>

\* One more byte c behind the lookahead of s. As the dictionary has room for
\* MaxMatch - 1 bytes behind its end, the first ones are there twice. Two
\* bytes later a position enters the chain of its hash.
Insert(s, c) ==
    LET end == lookahead_pos + s.size
        d == [k \in DOMAIN dict |-> IF k % DictSize = end % DictSize THEN c ELSE s.dict[k]]
        ins_pos == end - 2
        h == Hash(d[ins_pos % DictSize], d[(ins_pos + 1) % DictSize], c)
        t == [s EXCEPT !.dict = d, !.size = @ + 1]
    IN IF t.size + dict_size < MinMatch THEN t
       ELSE [t EXCEPT !.next = [@ EXCEPT ![ins_pos % DictSize] = s.hash[h]],
                      !.hash = [@ EXCEPT ![h] = ins_pos % PosSize]]

\* What a lookahead of this size leaves of the bytes before it.
History(size) == Min({DictSize - size, dict_size})

\* --num_probes_left, at the start of up to three probes.
StartProbes(m) == match' = [m EXCEPT !.left = @ - 1, !.turn = 0]
                  /\ lz' = IF m.left = 1 THEN "parse" ELSE "probe"

\* The loop of tdefl_compress_normal: fill the lookahead; without flush it
\* must be full, or the bytes wait for the next call.
Refill ==
    /\ lz = "loop" /\ (src < given \/ (flush /\ lookahead_size > 0))
    /\ LET m == Min({given - src, MaxMatch - lookahead_size})
           s == FoldLeft(Insert,
                         [dict |-> dict, hash |-> hash, next |-> next, size |-> lookahead_size],
                         SubSeq(text, src + 1, src + m))
       IN /\ src' = src + m
          /\ dict' = s.dict /\ hash' = s.hash /\ next' = s.next
          /\ lookahead_size' = s.size
          /\ dict_size' = History(s.size)
    /\ lz' = IF ~flush /\ lookahead_size' < MaxMatch THEN "ready" ELSE "search"
    /\ UNCHANGED <<textVars, lookahead_pos, match, saved, lz_codes>>

\* Nothing is left to do in this call.
Return ==
    /\ lz = "loop" /\ src = given /\ (flush => lookahead_size = 0)
    /\ lz' = IF flush THEN "last block" ELSE "ready"
    /\ UNCHANGED <<textVars, dictVars, match, saved, lz_codes>>

----------------------------------------------------------------------------
\* The search. It has to find more than the match kept back.

pos == lookahead_pos % DictSize
Least == IF saved.len > 0 THEN saved.len ELSE MinMatch - 1
max_probes == 1 + ((IF Least >= LongSaved THEN input.probes \div 4 ELSE input.probes) + 2) \div 3

Searching == lz = "search" /\ UNCHANGED <<textVars, dictVars, saved, lz_codes>>

Found(len, dist) == lz' = "parse" /\ match' = [NoMatch EXCEPT !.len = len, !.dist = dist]

\* No search, or one for more than is left.
SearchNothing ==
    /\ Searching
    /\ input.raw \/ (IF input.rle THEN dict_size = 0 ELSE lookahead_size <= Least)
    /\ Found(Least, 0)

\* TDEFL_RLE_MATCHES: only a run of the byte before.
SearchRun ==
    /\ Searching
    /\ input.rle /\ ~input.raw /\ dict_size > 0
    /\ LET Same(k) == \A j \in 0..k - 1 : dict[pos + j] = dict[(pos - 1) % DictSize]
           len == Max({k \in 0..lookahead_size : Same(k)})
       IN IF len < MinMatch THEN Found(0, 0) ELSE Found(len, 1)

\* tdefl_find_match follows the chain from the position itself. Probes are
\* counted three at a time.
SearchChain ==
    /\ Searching
    /\ ~input.raw /\ ~input.rle /\ lookahead_size > Least
    /\ StartProbes([len |-> Least, dist |-> 0, at |-> pos, turn |-> 0, left |-> max_probes])

\* Entries stay in the chains when their positions have left the dictionary or
\* have come round in their 16 bits.
InReach(dist) == dist <= dict_size

\* The bytes that a match longer by one must have in common: the last two.
SameEnd(at) == \A k \in {match.len - 1, match.len} : dict[at + k] = dict[pos + k]

CommonLength(at) == Max({k \in 0..MaxMatch : \A j \in 0..k - 1 : dict[at + j] = dict[pos + j]})

\* TDEFL_PROBE, and what follows it.
Probe ==
    /\ lz = "probe"
    /\ UNCHANGED <<textVars, dictVars, saved, lz_codes>>
    /\ LET entry == next[match.at]
           dist == (lookahead_pos - entry) % PosSize
           at == entry % DictSize
           here == [match EXCEPT !.at = at]
           len == CommonLength(at)
           longer == [here EXCEPT !.dist = dist, !.len = Min({lookahead_size, len})]
       IN \/ /\ entry = 0 \/ ~InReach(dist)
             /\ Found(match.len, match.dist)
          \/ /\ entry # 0 /\ InReach(dist) /\ ~SameEnd(at)
             /\ IF match.turn = 2 THEN StartProbes(here)
                ELSE match' = [here EXCEPT !.turn = @ + 1] /\ lz' = lz
          \/ /\ entry # 0 /\ InReach(dist) /\ SameEnd(at) /\ dist = 0
             /\ Found(match.len, match.dist)
          \/ /\ entry # 0 /\ InReach(dist) /\ SameEnd(at) /\ dist # 0
             /\ IF len <= match.len THEN StartProbes(here)
                ELSE IF longer.len = lookahead_size THEN Found(longer.len, dist)
                ELSE StartProbes(longer)

----------------------------------------------------------------------------
\* The parser.

Rejected ==
    \/ match.len = MinMatch /\ match.dist >= TooFar
    \/ pos = match.dist
    \/ input.filter /\ match.len <= FilterLen

cur == IF Rejected THEN NoMatch ELSE match

\* How much of lz_code_buf items take: a flag byte for each eight of them.
CodeSize(items) ==
    1 + (Len(items) \div 8)
      + MapThenSumSet(LAMBDA k : IF Len(items[k]) = 1 THEN 1 ELSE 3, DOMAIN items)

FlushNow(items) ==
    \/ CodeSize(items) > CodeBuf
    \/ /\ TextSize(items) > EarlyFlush
       /\ input.raw \/ (CodeSize(items) * 115) \div 128 >= TextSize(items)

\* Items are recorded, a match is kept back or not, the lookahead moves on.
Parse(items, kept, len_to_move) ==
    /\ lz = "parse"
    /\ lz_codes' = lz_codes \o items
    /\ saved' = kept
    /\ lookahead_pos' = lookahead_pos + len_to_move
    /\ lookahead_size' = lookahead_size - len_to_move
    /\ dict_size' = Min({dict_size + len_to_move, DictSize})
    /\ lz' = IF FlushNow(lz_codes') THEN "block" ELSE "loop"
    /\ match' = NoMatch
    /\ UNCHANGED <<textVars, src, dict, hash, next>>

Lit == <<dict[pos]>>
Match(m) == <<m.len, m.dist>>
Kept == [cur EXCEPT !.lit = dict[pos]]

ParseLiteral == saved.len = 0 /\ cur.dist = 0 /\ Parse(<<Lit>>, NoMatch, 1)

AtOnce == input.greedy \/ input.rle \/ cur.len >= LongMatch

ParseMatch == saved.len = 0 /\ cur.dist # 0 /\ AtOnce /\ Parse(<<Match(cur)>>, NoMatch, cur.len)

KeepMatch == saved.len = 0 /\ cur.dist # 0 /\ ~AtOnce /\ Parse(<<>>, Kept, 1)

\* A longer match begins one byte later: the byte before it is a literal.
ParseLonger ==
    /\ saved.len > 0 /\ cur.len > saved.len
    /\ IF cur.len >= LongMatch THEN Parse(<<<<saved.lit>>, Match(cur)>>, NoMatch, cur.len)
       ELSE Parse(<<<<saved.lit>>>>, Kept, 1)

ParseSaved ==
    /\ saved.len > 0 /\ cur.len <= saved.len
    /\ Parse(<<Match(saved)>>, NoMatch, saved.len - 1)

LzStep ==
    \/ Call \/ Refill \/ Return \/ SearchNothing \/ SearchRun \/ SearchChain \/ Probe
    \/ ParseLiteral \/ ParseMatch \/ KeepMatch \/ ParseLonger \/ ParseSaved

----------------------------------------------------------------------------

\* The dictionary holds what the coder may look at, at its place and, at its
\* start, twice: the bytes of the lookahead and dict_size bytes before them,
\* whatever calls the text came in and however often the dictionary has gone
\* round. A match that is kept back lies within the lookahead.
Window ==
    /\ dict_size <= lookahead_pos /\ dict_size + lookahead_size <= DictSize
    /\ lookahead_pos + lookahead_size = src
    /\ \A p \in lookahead_pos - dict_size..src - 1, k \in DOMAIN dict :
          k % DictSize = p % DictSize => dict[k] = text[p + 1]
    /\ saved.len > 0 =>
          /\ saved.len - 1 <= lookahead_size
          /\ saved.dist \in 1..dict_size
====
