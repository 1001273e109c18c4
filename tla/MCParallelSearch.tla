---- MODULE MCParallelSearch ----
(* Ranges with primes in every share, in some and in none; one to three      *)
(* threads, even shares and chunks of one and two; reversed and empty ranges *)
(* and short command lines.                                                  *)
EXTENDS ParallelSearch

MCCommandLines ==
    {<<"parallelfor", <<2, 11, w>>>> : w \in 1..3}
        \union
    {<<"parallelfor", <<2, 11, 3, c>>>> : c \in {1, 2}}
        \union
    {<<"parallelfor", <<8, 11, 2, 1, 1>>>>, <<"parallelfor", <<0, 7, 2, 2>>>>,
     <<"parallelfor", <<24, 28, 3>>>>, <<"parallelfor", <<2, 0, 2>>>>,
     <<"parallelfor", <<1, 5, 2>>>>, <<"parallelfor", <<9, 3, 2>>>>,
     <<"parallelfor", <<2, 5>>>>}
        \union
    {<<"my", <<2, 11, w, 1>>>> : w \in 1..3}
        \union
    {<<"my", <<7, 3, 2, 1>>>>, <<"my", <<2, 11, 2>>>>}
====
