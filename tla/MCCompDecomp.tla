---- MODULE MCCompDecomp ----
(* Buffers of three units, a dictionary of two and texts of up to six: input, *)
(* output and dictionary fill up in the middle of blocks and exactly at their *)
(* ends. Archives are cut off, damaged in both ways, or followed by something *)
(* else; targets are new, or there already with another text or the same.     *)
EXTENDS CompDecomp

x == <<"x">>
zip == <<"x", "zip">>

c == [mode |-> "c", src |-> x, dst |-> <<>>]
d == [mode |-> "d", src |-> zip, dst |-> <<>>]

good == Block(<<1, 2, 3, 4, 5>>, 2, FALSE) \o Block(<<6>>, 2, TRUE)
wrong == <<[good[1] EXCEPT !.err = "wrong"]>> \o Tail(good)
broken == SubSeq(good, 1, 2) \o <<[good[3] EXCEPT !.err = "broken"]>>

other == <<1, 2>>

\* A text, compressed and decompressed in its place.
RoundTrip(text) == [files |-> (x :> text), jobs |-> <<c, d>>, precious |-> text]

\* An archive, decompressed by the command line j.
Unpack(archive, j) ==
    [files |-> (zip :> archive), jobs |-> <<j>>, precious |-> Decode(archive)]

\* The command line j with a target that is there already.
Onto(j, source, target, text) ==
    [files |-> (j.src :> source) @@ ((IF j = c THEN zip ELSE x) :> target),
     jobs |-> <<j>>, precious |-> text]

\* The user cares for the source, for the target, or for what both have.
Overwriting ==
    {Onto(c, <<6>>, Block(other, 2, TRUE), text) : text \in {<<6>>, other}}
        \union
    {Onto(d, Block(<<6>>, 2, TRUE), other, text) : text \in {<<6>>, other}}
        \union
    {Onto(d, Block(other, 2, TRUE), other, other)}

\* One longer than main accepts.
TooLarge == [i \in 1..MaxFile + 1 |-> 1]

MCSessions ==
    {RoundTrip(text) : text \in {<<>>, <<1>>, <<1, 2>>}}
        \union
    {Unpack(archive, d) : archive \in {<<>>, good, wrong, broken, Front(good), good \o good}}
        \union
    {Unpack(good, [mode |-> "", src |-> zip, dst |-> <<"y">>]),
     Unpack(good, [d EXCEPT !.src = <<"z">>]),
     Unpack(good, [d EXCEPT !.dst = zip]),
     Unpack(good, [d EXCEPT !.mode = "x"]),
     [files |-> (x :> <<1, 2, 3, 4>>), jobs |-> <<c>>, precious |-> <<1, 2, 3, 4>>],
     [files |-> (x :> TooLarge), jobs |-> <<c>>, precious |-> TooLarge]}
        \union
    Overwriting
====
