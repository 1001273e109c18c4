---- MODULE MCMasterWorker ----
(* Three workers behind channels of two entries: the emitter has to wait for *)
(* room, all workers hold numbers at once, and EOS overtakes nothing.        *)
EXTENDS MasterWorker

MCRanges == {<<1, 1>>, <<1, 4>>, <<2, 7>>, <<4, 9>>, <<8, 10>>, <<5, 4>>}
====
