---- MODULE MCRangeMasterWorker ----
(* Three workers; ranges shorter than the number of workers, multiples of it *)
(* and with each remainder, so that empty parts and uneven parts occur.      *)
EXTENDS RangeMasterWorker

MCWorkers == 0..2

MCRanges ==
    ({"mw2"} \X {0, 1, 2, 4} \X {4, 5, 6, 7, 11})
        \union {<<"mw2", 2, 20>>, <<"mw2", 7, 3>>}
        \union ({"map"} \X {0, 2} \X {1, 2, 3, 7, 9, 11, 13})
====
