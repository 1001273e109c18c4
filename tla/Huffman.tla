---- MODULE Huffman ----
(***************************************************************************)
(* How miniz.c codes a block dynamically: it counts the symbols, computes  *)
(* a Huffman code for literals and lengths (table 0) and for distances     *)
(* (table 1), shortens codes that are too long, packs the code sizes as    *)
(* runs, codes these with a third Huffman code (table 2), and writes the   *)
(* sizes of that one as they are. The decoder knows only what is written.  *)
(*                                                                         *)
(* The sizes of the format are parameters. What is written is a sequence   *)
(* of bits and, for extra bits and the other fields, of numbers.           *)
(***************************************************************************)
EXTENDS Integers, SequencesExt, FiniteSetsExt

CONSTANTS
    Symbols,    \* how many symbols tables 0 and 1 have: 288, 32
    EndOfBlock, \* 256: literals are below, lengths above
    Lengths,    \* of each length symbol, its first length and its extra bits
    Distances,  \* and of each distance symbol
    StaticSizes,\* the code sizes of a static block, tables 0 and 1
    CodeLimit,  \* the longest code of tables 0 and 1, 15, and of table 2, 7
    RepMax,     \* the longest run of one code of equal sizes, 6
    FewZeros,   \* the longest run of zeros of the short code for them, 10
    ManyZeros,  \* and of the long one, 138
    Swizzle,    \* the order in which the sizes of table 2 are written
    KeySize     \* 2^16, for keys and counts

\* A limited code has room for every symbol, and the fields for their numbers.
ASSUME HuffmanAssumption ==
    /\ Symbols[1] <= 2 ^ CodeLimit[1] /\ Symbols[2] <= 2 ^ CodeLimit[1]
    /\ 3 < RepMax /\ 3 < FewZeros /\ FewZeros < ManyZeros
    /\ CodeLimit[1] + 4 <= 2 ^ CodeLimit[2]
    /\ ToSet(Swizzle) = 0..CodeLimit[1] + 3 /\ Len(Swizzle) = CodeLimit[1] + 4

\* The symbols of table 2 beside the sizes: 16, 17, 18.
RepeatCode == CodeLimit[1] + 1
ZerosCode == CodeLimit[1] + 2
ManyZerosCode == CodeLimit[1] + 3

table_len(t) == IF t = 2 THEN CodeLimit[1] + 4 ELSE Symbols[t + 1]
code_size_limit(t) == IF t = 2 THEN CodeLimit[2] ELSE CodeLimit[1]

VARIABLES
    block,      \* its items: literals <<byte>>, matches <<length, distance>>
    table,      \* the table in work
    step,       \* what is done next with it
    huff_count, \* per table, how often each symbol occurs
    pSyms,      \* the symbols that occur, the rarest first
    A,          \* their keys: counts, then parents, then depths
    loop,       \* the indices of the loop in work
    num_codes,  \* how many codes have each size
    total,      \* the room these codes take, in units of the longest
    code_sizes, codes,  \* per table
    pack        \* the runs written so far and the one in work

tableVars == <<pSyms, A, loop, num_codes, total>>
huffmanVars == <<block, table, step, huff_count, tableVars, code_sizes, codes, pack>>

n == Len(pSyms)

IsMatch(item) == Len(item) = 2

\* The place of a number in a table of first numbers.
CodeOf(tab, number) == Max({k \in DOMAIN tab : tab[k][1] <= number})

\* The symbol of an item in table t. Tables are numbered from 0.
SymbolOf(item, t) ==
    CASE t = 0 /\ IsMatch(item) -> EndOfBlock + CodeOf(Lengths, item[1])
      [] t = 0 /\ ~IsMatch(item) -> item[1]
      [] OTHER -> CodeOf(Distances, item[2]) - 1

\* tdefl_record_literal and tdefl_record_match count the symbols.
Occurrences(b, t) ==
    LET items == {k \in DOMAIN b : t = 0 \/ IsMatch(b[k])}
    IN [s \in 0..table_len(t) - 1 |->
           CASE t = 0 /\ s = EndOfBlock -> 1
             [] t = 2 -> 0
             [] OTHER -> Cardinality({k \in items : SymbolOf(b[k], t) = s})]

NoCodes(t) == [s \in 0..table_len(t) - 1 |-> 0]

\* No block is in work.
HuffmanIdle ==
    /\ block = <<>> /\ table = 0 /\ step = "idle"
    /\ huff_count = [t \in 0..2 |-> NoCodes(t)]
    /\ pSyms = <<>> /\ A = <<>> /\ loop = <<>> /\ num_codes = <<>> /\ total = 0
    /\ code_sizes = [t \in 0..2 |-> NoCodes(t)]
    /\ codes = [t \in 0..2 |-> <<>>]
    /\ pack = <<>>

StartDynamicBlock(b) ==
    /\ step = "idle"
    /\ block' = b /\ step' = "sort"
    /\ huff_count' = [t \in 0..2 |-> Occurrences(b, t)]
    /\ UNCHANGED <<table, tableVars, code_sizes, codes, pack>>

\* A run of code sizes: a symbol of table 2 and its extra bits.
Run(code, extra) == [code |-> code, extra |-> extra]
Single(code, times) == [k \in 1..times |-> Run(code, 0)]

\* The room that codes of these numbers take.
Room(counts, limit) == MapThenSumSet(LAMBDA l : counts[l] * 2 ^ (limit - l), 1..limit)

----------------------------------------------------------------------------
\* Mutants: plausible slips in the definitions that follow; no specification
\* uses them.

\* A tree is always taken before a leaf.
TreeIsNextAlways(s) == s.root < loop.next

\* The search for a code to lengthen begins at the limit itself.
LongerFromLimit == Max({j \in 1..code_size_limit(table) : num_codes[j] > 0})

----------------------------------------------------------------------------
\* tdefl_optimize_huffman_table.

LessFrequent(counts, a, b) == counts[a] < counts[b] \/ (counts[a] = counts[b] /\ a < b)

\* The symbols in use, in the order of a stable sort by their counts.
Sort ==
    /\ step = "sort"
    /\ LET counts == huff_count[table]
           used == SelectSeq([k \in 1..table_len(table) |-> k - 1], LAMBDA s : counts[s] > 0)
       IN /\ pSyms' = SortSeq(used, LAMBDA a, b : LessFrequent(counts, a, b))
          /\ A' = [k \in 0..Len(used) - 1 |-> IF Len(used) = 1 THEN 1 ELSE counts[pSyms'[k + 1]]]
          /\ step' = IF Len(used) < 2 THEN "count" ELSE "combine"
          /\ loop' = [next |-> 0, root |-> 0, leaf |-> 0]
    /\ UNCHANGED <<block, table, huff_count, num_codes, total, code_sizes, codes, pack>>

\* tdefl_calculate_minimum_redundancy works in the array of the keys. Its
\* first loop takes two of the smallest trees and leaves at a turn and makes
\* them children of a new tree, next; of a tree already used it keeps the
\* parent.
TreeIsNext(s) ==
    s.root < loop.next /\ (s.leaf >= n \/ s.keys[s.root] < s.keys[s.leaf])

TakeSmaller(s) ==
    IF TreeIsNext(s)
    THEN [s EXCEPT !.sum = (@ + s.keys[s.root]) % KeySize,
                   !.keys = [@ EXCEPT ![s.root] = loop.next], !.root = @ + 1]
    ELSE [s EXCEPT !.sum = (@ + s.keys[s.leaf]) % KeySize, !.leaf = @ + 1]

Combine ==
    /\ step = "combine" /\ loop.next < n - 1
    /\ LET s == TakeSmaller(TakeSmaller(
                    [keys |-> A, root |-> loop.root, leaf |-> loop.leaf, sum |-> 0]))
       IN /\ A' = [s.keys EXCEPT ![loop.next] = s.sum]
          /\ loop' = [next |-> loop.next + 1, root |-> s.root, leaf |-> s.leaf]
    /\ UNCHANGED <<block, table, step, huff_count, pSyms, num_codes, total,
                   code_sizes, codes, pack>>

\* The second loop: from parents to depths.
Depths ==
    /\ step = "combine" /\ loop.next = n - 1
    /\ LET depth[k \in 0..n - 2] == IF k = n - 2 THEN 0 ELSE depth[A[k]] + 1
       IN A' = [k \in 0..n - 1 |-> IF k = n - 1 THEN A[k] ELSE depth[k]]
    /\ loop' = [avbl |-> 1, dpth |-> 0, root |-> n - 2, next |-> n - 1]
    /\ step' = "assign"
    /\ UNCHANGED <<block, table, huff_count, pSyms, num_codes, total, code_sizes, codes, pack>>

\* The third loop: of the nodes that may be at a depth, those that are no
\* trees are leaves.
Assign ==
    /\ step = "assign" /\ loop.avbl > 0
    /\ LET used == Cardinality({k \in 0..loop.root : A[k] = loop.dpth})
           leaves == loop.avbl - used
       IN /\ A' = [k \in DOMAIN A |->
                      IF k \in loop.next - leaves + 1..loop.next THEN loop.dpth ELSE A[k]]
          /\ loop' = [avbl |-> 2 * used, dpth |-> loop.dpth + 1,
                      root |-> loop.root - used, next |-> loop.next - leaves]
    /\ UNCHANGED <<block, table, step, huff_count, pSyms, num_codes, total,
                   code_sizes, codes, pack>>

\* num_codes, and the start of tdefl_huffman_enforce_max_code_size: codes that
\* are too long are cut to the limit.
CountSizes ==
    /\ step = "count" \/ (step = "assign" /\ loop.avbl = 0)
    /\ LET limit == code_size_limit(table)
           Cut(size) == IF size > limit THEN limit ELSE size
       IN /\ num_codes' = [l \in 1..limit |-> Cardinality({k \in DOMAIN A : Cut(A[k]) = l})]
          /\ total' = Room(num_codes', limit)
    /\ step' = IF n > 1 THEN "limit" ELSE "sizes"
    /\ UNCHANGED <<block, table, huff_count, pSyms, A, loop, code_sizes, codes, pack>>

\* One turn of its loop: the longest code below the limit moves one down, with
\* a code of the limit beside it.
Longer == Max({0} \union {j \in 1..code_size_limit(table) - 1 : num_codes[j] > 0})

Limit ==
    /\ step = "limit" /\ total # 2 ^ code_size_limit(table)
    /\ LET limit == code_size_limit(table)
           Moved(l) == (IF l = limit THEN -1 ELSE 0)
                     + (IF l = Longer THEN -1 ELSE 0)
                     + (IF Longer > 0 /\ l = Longer + 1 THEN 2 ELSE 0)
       IN num_codes' = [l \in DOMAIN num_codes |-> num_codes[l] + Moved(l)]
    /\ total' = total - 1
    /\ UNCHANGED <<block, table, step, huff_count, pSyms, A, loop, code_sizes, codes, pack>>

\* The most frequent symbols get the shortest codes.
SetSizes ==
    /\ step = "sizes" \/ (step = "limit" /\ total = 2 ^ code_size_limit(table))
    /\ LET UpTo(l) == MapThenSumSet(LAMBDA j : num_codes[j], 1..l)
           SizeAt(k) == Min({l \in DOMAIN num_codes : UpTo(l) > n - k})
       IN code_sizes' = [code_sizes EXCEPT ![table] =
              [s \in DOMAIN @ |-> IF s \in ToSet(pSyms)
                                  THEN SizeAt(SelectInSeq(pSyms, LAMBDA x : x = s)) ELSE 0]]
    /\ step' = "codes"
    /\ UNCHANGED <<block, table, huff_count, tableVars, codes, pack>>

\* The most significant bit first: the codes are reversed in their words.
Bits(value, size) == [k \in 1..size |-> (value \div 2 ^ (size - k)) % 2]

\* next_code before the first symbol, for sizes with so many codes each.
FirstCode(counts) ==
    LET first[l \in DOMAIN counts] ==
            IF l = 1 THEN 0 ELSE (first[l - 1] + counts[l - 1]) * 2
    IN first

CanonicalCodes(sizes, counts) ==
    [s \in {x \in DOMAIN sizes : sizes[x] > 0} |->
        Bits(FirstCode(counts)[sizes[s]]
                 + Cardinality({x \in DOMAIN sizes : x < s /\ sizes[x] = sizes[s]}),
             sizes[s])]

SizeCounts(sizes) ==
    [l \in 1..CodeLimit[1] |-> Cardinality({s \in DOMAIN sizes : sizes[s] = l})]

\* The codes that follow from the sizes alone: with a static table, and in the
\* decoder.
CodesOf(sizes) == CanonicalCodes(sizes, SizeCounts(sizes))

SetCodes ==
    /\ step = "codes"
    /\ codes' = [codes EXCEPT ![table] = CanonicalCodes(code_sizes[table], num_codes)]
    /\ IF table = 0 THEN table' = 1 /\ step' = "sort"
       ELSE table' = table /\ step' = IF table = 1 THEN "runs" ELSE "done"
    /\ UNCHANGED <<block, huff_count, tableVars, code_sizes, pack>>

----------------------------------------------------------------------------
\* tdefl_start_dynamic_block.

UsedUpTo(t, least) == Max({least} \union {s + 1 : s \in {x \in DOMAIN code_sizes[t] : code_sizes[t][x] > 0}})
num_lit_codes == UsedUpTo(0, EndOfBlock + 1)
num_dist_codes == UsedUpTo(1, 1)

SizesToPack == [k \in 1..num_lit_codes + num_dist_codes |->
    IF k <= num_lit_codes THEN code_sizes[0][k - 1] ELSE code_sizes[1][k - num_lit_codes - 1]]

\* TDEFL_RLE_PREV_CODE_SIZE and TDEFL_RLE_ZERO_CODE_SIZE write the run in work.
FlushRepeat(p) ==
    [p EXCEPT !.repeat = 0,
              !.out = @ \o IF p.repeat < 3 THEN Single(p.prev, p.repeat)
                           ELSE <<Run(RepeatCode, p.repeat - 3)>>]

FlushZeros(p) ==
    [p EXCEPT !.zeros = 0,
              !.out = @ \o IF p.zeros < 3 THEN Single(0, p.zeros)
                           ELSE IF p.zeros <= FewZeros THEN <<Run(ZerosCode, p.zeros - 3)>>
                           ELSE <<Run(ManyZerosCode, p.zeros - FewZeros - 1)>>]

StartPack ==
    /\ step = "runs"
    /\ pack' = [out |-> <<>>, zeros |-> 0, repeat |-> 0, prev |-> -1]
    /\ loop' = [i |-> 0]
    /\ step' = "pack"
    /\ UNCHANGED <<block, table, huff_count, pSyms, A, num_codes, total, code_sizes, codes>>

\* A turn of the loop over the code sizes.
PackZero(p) ==
    LET q == [FlushRepeat(p) EXCEPT !.zeros = @ + 1]
    IN IF q.zeros = ManyZeros THEN FlushZeros(q) ELSE q

PackSize(p, size) ==
    LET q == FlushZeros(p)
        r == [q EXCEPT !.repeat = @ + 1]
    IN IF size # p.prev
       THEN [FlushRepeat(q) EXCEPT !.out = Append(@, Run(size, 0))]
       ELSE IF r.repeat = RepMax THEN FlushRepeat(r) ELSE r

Pack ==
    /\ step = "pack" /\ loop.i < Len(SizesToPack)
    /\ LET size == SizesToPack[loop.i + 1]
           p == IF size = 0 THEN PackZero(pack) ELSE PackSize(pack, size)
       IN pack' = [p EXCEPT !.prev = size]
    /\ loop' = [i |-> loop.i + 1]
    /\ UNCHANGED <<block, table, step, huff_count, pSyms, A, num_codes, total, code_sizes, codes>>

Count(out, code) == Cardinality({k \in DOMAIN out : out[k].code = code})

EndPack ==
    /\ step = "pack" /\ loop.i = Len(SizesToPack)
    /\ pack' = IF pack.repeat > 0 THEN FlushRepeat(pack) ELSE FlushZeros(pack)
    /\ huff_count' = [huff_count EXCEPT ![2] = [s \in DOMAIN @ |-> Count(pack'.out, s)]]
    /\ table' = 2 /\ step' = "sort"
    /\ UNCHANGED <<block, tableVars, code_sizes, codes>>

HuffmanStep ==
    \/ Sort \/ Combine \/ Depths \/ Assign \/ CountSizes \/ Limit \/ SetSizes \/ SetCodes
    \/ StartPack \/ Pack \/ EndPack

\* tdefl_start_static_block: the code sizes are given.
StartStaticBlock(b) ==
    /\ step = "idle"
    /\ block' = b /\ step' = "done"
    /\ code_sizes' = [t \in 0..2 |-> IF t = 2 THEN NoCodes(t) ELSE StaticSizes[t + 1]]
    /\ codes' = [t \in 0..2 |-> IF t = 2 THEN <<>> ELSE CodesOf(StaticSizes[t + 1])]
    /\ UNCHANGED <<table, huff_count, tableVars, pack>>

----------------------------------------------------------------------------
\* What is written: for a dynamic block how many code sizes follow, the sizes
\* of table 2 up to the last one in use and the runs; and the items.

num_bit_lengths == Max({4} \union {k \in DOMAIN Swizzle : code_sizes[2][Swizzle[k]] > 0})

bit_lengths == [k \in 1..num_bit_lengths |-> code_sizes[2][Swizzle[k]]]

\* So many bits of a number.
Field(number, bits) == IF bits = 0 THEN <<>> ELSE <<number % 2 ^ bits>>

Extra(run) ==
    CASE run.code < RepeatCode -> <<>>
      [] run.code = RepeatCode -> <<run.extra % (RepMax - 2)>>
      [] run.code = ZerosCode -> <<run.extra % (FewZeros - 2)>>
      [] OTHER -> <<run.extra % (ManyZeros - FewZeros)>>

RunBits == FlattenSeq([k \in DOMAIN pack.out |-> codes[2][pack.out[k].code] \o Extra(pack.out[k])])

DynamicHeader ==
    <<num_lit_codes - EndOfBlock - 1, num_dist_codes - 1, num_bit_lengths - 4>>
        \o bit_lengths \o RunBits

\* tdefl_compress_lz_codes. The extra bits are the last ones of length - 3 and
\* distance - 1, not of what exceeds the first number of the symbol.
Coded(item, t) ==
    LET tab == IF t = 0 THEN Lengths ELSE Distances
        extra == tab[CodeOf(tab, item[t + 1])][2]
    IN codes[t][SymbolOf(item, t)]
           \o IF IsMatch(item) THEN Field(item[t + 1] - tab[1][1], extra) ELSE <<>>

BlockBits ==
    FlattenSeq([k \in DOMAIN block |->
        Coded(block[k], 0) \o IF IsMatch(block[k]) THEN Coded(block[k], 1) ELSE <<>>])
    \o codes[0][EndOfBlock]

----------------------------------------------------------------------------
\* The decoder, tinfl_decompress.

Accepts(sizes) ==
    \/ Cardinality({s \in DOMAIN sizes : sizes[s] > 0}) <= 1
    \/ Room(SizeCounts(sizes), CodeLimit[1]) = 2 ^ CodeLimit[1]

\* The symbols whose code the bits can begin with.
Begin(tree, bits) == {s \in DOMAIN tree : IsPrefix(tree[s], bits)}

Behind(code, bits) == SubSeq(bits, Len(code) + 1, Len(bits))

\* So many code sizes, read from the bits; fewer if they are damaged.
RECURSIVE Unpack(_, _, _, _)
Unpack(tree, bits, want, got) ==
    IF Len(got) >= want \/ Cardinality(Begin(tree, bits)) # 1
    THEN [sizes |-> got, rest |-> bits]
    ELSE LET s == CHOOSE x \in Begin(tree, bits) : TRUE
             rest == Behind(tree[s], bits)
             times == rest[1] + (IF s = ManyZerosCode THEN FewZeros + 1 ELSE 3)
         IN IF s < RepeatCode THEN Unpack(tree, rest, want, Append(got, s))
            ELSE IF rest = <<>> \/ (s = RepeatCode /\ got = <<>>)
                 THEN [sizes |-> got, rest |-> bits]
            ELSE Unpack(tree, Tail(rest), want,
                        got \o [k \in 1..times |-> IF s = RepeatCode THEN Last(got) ELSE 0])

Damaged(got) == [ok |-> FALSE, text |-> got, rest |-> <<>>]

\* A length or distance: its symbol s in a table, and its extra bits.
Value(tab, s, rest) == tab[s][1] + IF tab[s][2] = 0 THEN 0 ELSE rest[1]
BehindValue(tab, s, rest) == IF tab[s][2] = 0 THEN rest ELSE Tail(rest)

\* Byte by byte, as a match may reach into what it writes.
Expand(got, len, dist) ==
    LET out[k \in 0..len] == IF k = 0 THEN got
                             ELSE Append(out[k - 1], out[k - 1][Len(out[k - 1]) + 1 - dist])
    IN out[len]

\* The items up to the end of the block.
RECURSIVE Decode(_, _, _, _)
Decode(lits, dists, bits, got) ==
    IF Cardinality(Begin(lits, bits)) # 1 THEN Damaged(got)
    ELSE LET s == CHOOSE x \in Begin(lits, bits) : TRUE
             rest == Behind(lits[s], bits)
             len == Value(Lengths, s - EndOfBlock, rest)
             bits2 == BehindValue(Lengths, s - EndOfBlock, rest)
             d == CHOOSE x \in Begin(dists, bits2) : TRUE
             rest2 == Behind(dists[d], bits2)
             dist == Value(Distances, d + 1, rest2)
         IN IF s = EndOfBlock THEN [ok |-> TRUE, text |-> got, rest |-> rest]
            ELSE IF s < EndOfBlock THEN Decode(lits, dists, rest, Append(got, s))
            ELSE IF Cardinality(Begin(dists, bits2)) # 1 \/ dist > Len(got) THEN Damaged(got)
            ELSE Decode(lits, dists, BehindValue(Distances, d + 1, rest2),
                        Expand(got, len, dist))

DecodeStatic(bits, got) ==
    Decode(CodesOf(StaticSizes[1]), CodesOf(StaticSizes[2]), bits, got)

DecodeDynamic(bits, got) ==
    LET lits == bits[1] + EndOfBlock + 1
        table_sizes == lits + bits[2] + 1
        sent == bits[3] + 4
        sizes2 == [s \in 0..table_len(2) - 1 |->
                      IF \E k \in 1..sent : Swizzle[k] = s
                      THEN bits[3 + SelectInSeq(Swizzle, LAMBDA x : x = s)] ELSE 0]
        runs == Unpack(CodesOf(sizes2), SubSeq(bits, 4 + sent, Len(bits)), table_sizes, <<>>)
        sizes0 == [s \in 0..lits - 1 |-> runs.sizes[s + 1]]
        sizes1 == [s \in 0..table_sizes - lits - 1 |-> runs.sizes[s + 1 + lits]]
    IN IF Accepts(sizes2) /\ Len(runs.sizes) = table_sizes /\ Accepts(sizes0) /\ Accepts(sizes1)
       THEN Decode(CodesOf(sizes0), CodesOf(sizes1), runs.rest, got)
       ELSE Damaged(got)

----------------------------------------------------------------------------

\* tdefl_huffman_enforce_max_code_size counts down to the full room, once a
\* turn, with no other way to stop: the count stays the room that the codes
\* take and never falls below the full room, and no code is lost.
LimitEnds ==
    step = "limit" =>
        LET limit == code_size_limit(table)
        IN /\ total = Room(num_codes, limit) /\ total >= 2 ^ limit
           /\ \A l \in DOMAIN num_codes : num_codes[l] >= 0
           /\ MapThenSumSet(LAMBDA l : num_codes[l], DOMAIN num_codes) = n

\* The depths of the leaves of all binary trees, the deepest first: a leaf
\* becomes two.
TreeDepths[m \in 1..Max({table_len(t) : t \in 0..2})] ==
    IF m = 1 THEN {<<0>>}
    ELSE UNION {{SortSeq(<<s[k] + 1, s[k] + 1>> \o RemoveAt(s, k), LAMBDA a, b : a > b) :
                    k \in DOMAIN s} : s \in TreeDepths[m - 1]}

\* Unless they had to be shortened, the code sizes give the shortest text of
\* all prefix codes: the sort, the two queues that share one array with the
\* depths, and the widths of the keys make no difference to a Huffman tree.
Optimal ==
    step = "codes" /\ n >= 2 /\ (\A k \in DOMAIN A : A[k] <= code_size_limit(table)) =>
        LET count(k) == huff_count[table][pSyms[k]]
            size(k) == code_sizes[table][pSyms[k]]
        IN \A s \in TreeDepths[n] :
              MapThenSumSet(LAMBDA k : count(k) * size(k), 1..n)
                  <= MapThenSumSet(LAMBDA k : count(k) * s[k], 1..n)
====
