---- MODULE MCSchedFarm ----
(* Three workers behind channels of three entries, the shortest that the EOS  *)
(* marks of all workers fit in; an empty and a negative range among others.   *)
EXTENDS SchedFarm

MCRanges == {<<-1, 3>>, <<2, 2>>, <<4, 7>>, <<9, 8>>}
====
