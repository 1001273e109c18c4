---- MODULE PrimeSearch ----
(***************************************************************************)
(* What every prime-search program of ClassWork4 and ClassWork5 promises,  *)
(* whatever its parallel structure: out of a set of wanted numbers, fixed  *)
(* at the start, it finds some more from time to time, never forgets one,  *)
(* never finds a number that is not wanted, and stops only when it has     *)
(* found them all (or gives up before it has found any).                   *)
(***************************************************************************)
VARIABLES wanted, found, status

Init == found = {} /\ status = "running"

Find ==
    /\ status = "running"
    /\ found \subseteq found' /\ found' # found
    /\ found' \subseteq wanted
    /\ UNCHANGED <<wanted, status>>

Finish ==
    /\ status = "running"
    /\ found = wanted
    /\ status' = "finished"
    /\ UNCHANGED <<wanted, found>>

GiveUp ==
    /\ status = "running"
    /\ found = {}
    /\ status' = "aborted"
    /\ UNCHANGED <<wanted, found>>

Next == Find \/ Finish \/ GiveUp

Spec == Init /\ [][Next]_<<wanted, found, status>>

\* The search also comes to an end.
LiveSpec == Spec /\ <>(status # "running")
====
