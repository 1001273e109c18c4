---- MODULE MCDeflate ----
(* A dictionary of 32 bytes and positions of 6 bits; lengths of 3 to 6 and   *)
(* distances of 1 to 32 with extra bits; texts chosen for the coder (sets    *)
(* and counts of literals) and for the dictionary (repetitions, texts that   *)
(* go round it).                                                             *)
EXTENDS Deflate

MCSymbols == <<13, 4>>
MCCodeLimit == <<4, 3>>
MCSwizzle == <<5, 6, 7, 0, 3, 2, 4, 1>>
MCLengths == <<<<3, 1>>, <<5, 1>>, <<6, 0>>>>
MCDistances == <<<<1, 2>>, <<5, 2>>, <<9, 3>>, <<17, 4>>>>
MCStaticSizes == <<[s \in 0..12 |-> IF s \in 9..11 THEN 3 ELSE 4], [s \in 0..3 |-> 2]>>

MCBytes == 0..8
MCHash(a, b, c) == (2 * a + b + c) % 4

\* compress() of the programs; the other flags are deflateInit2's.
Default == [chunk |-> 100, probes |-> 128, greedy |-> FALSE, rle |-> FALSE, filter |-> FALSE,
            raw |-> FALSE, static |-> FALSE, memory |-> 3, text |-> <<>>]
HuffmanOnly == [Default EXCEPT !.probes = 0]
AllFlags == {Default, [Default EXCEPT !.greedy = TRUE, !.probes = 6], [Default EXCEPT !.rle = TRUE],
             [Default EXCEPT !.filter = TRUE], [Default EXCEPT !.raw = TRUE],
             [Default EXCEPT !.static = TRUE]}

Times(item, k) == [j \in 1..k |-> item]

\* A text in which byte b - 1 occurs counts[b] times.
TextOf(counts) == FlattenSeq([b \in DOMAIN counts |-> Times(b - 1, counts[b])])

Thrice(s) == s \o s \o s

\* Every set of literals, so that runs of code sizes have every length.
Sets == {[HuffmanOnly EXCEPT !.text = TextOf([b \in 1..9 |-> IF b - 1 \in S THEN 1 ELSE 0])] :
            S \in SUBSET (0..8)}

\* Counts that grow so fast that codes get too long.
Counts == {[HuffmanOnly EXCEPT !.text = TextOf(counts)] :
              counts \in {c \in [1..4 -> {1, 2, 4, 7}] : c[1] + c[2] + c[3] + c[4] <= 20}
                             \union {<<1, 2, 3, 5, 8>>, <<0, 0, 1, 1, 1, 2, 3, 5, 8>>}}

\* Matches at every distance.
Repeats == {[Default EXCEPT !.text = Thrice(TextOf([b \in 1..9 |-> IF b - 1 \in S THEN 1 ELSE 0]))] :
               S \in SUBSET (0..6)}

\* Words that begin and end alike; the last one has a match of three bytes and
\* one of four a byte later.
Words == {<<0, 0, 0>>, <<0, 1, 0, 1, 1>>, <<0, 1, 2, 3, 0, 1, 2>>, <<2, 3, 0, 1, 2, 0>>,
          <<7, 0, 1, 2, 1, 2, 3, 4, 0, 1, 2, 3, 4, 6>>}
Phrases == {[flags EXCEPT !.text = a \o b, !.chunk = k] :
               a, b \in Words, flags \in AllFlags, k \in {2, 9, 100}}

\* Texts that go round the dictionary and the positions.
Long == {[flags EXCEPT !.text = Thrice(a \o b) \o Thrice(b \o <<4, 0, 1>>) \o a, !.chunk = 7] :
            a \in Words, b \in {<<1, 2, 0>>, <<0, 0>>}, flags \in AllFlags}

\* A hash that comes again when the positions have come round, or nearly.
Stale == {[Default EXCEPT !.text = <<0, 1, 1>> \o Times(0, k) \o <<1, 1, 0, 2>>] : k \in 58..66}

MCInputs == Sets \union Counts \union Repeats \union Phrases \union Long \union Stale
====
