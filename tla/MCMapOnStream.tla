---- MODULE MCMapOnStream ----
(* Streams of up to three tasks with more, as many and fewer rows than      *)
(* threads; matrices wider than the vector; empty streams and short command *)
(* lines.                                                                   *)
EXTENDS MapOnStream

MCCommandLines == {
    <<"maponstream", <<2, 2, 2>>>>, <<"maponstream", <<3, 2, 1>>>>,
    <<"maponstream", <<3, 3, 3>>>>,
    <<"maponstream", <<0, 1, 2>>>>, <<"maponstream", <<2, 2>>>>,
    <<"my", <<2, 2, 3, 2, 1>>>>, <<"my", <<3, 2, 3, 3, 1>>>>, <<"my", <<1, 3, 3, 2, 1>>>>,
    <<"my", <<2, 2, 0, 1, 1>>>>, <<"my", <<2, 2, 2, 2>>>>, <<"my", <<2, 2, 2>>>>}
====
