---- MODULE StreamJob ----
(***************************************************************************)
(* What a stream program that processes a list of input files promises,    *)
(* whatever its stages: every input is settled exactly once, by delivering *)
(* a result or by dropping it, and the program ends when none is pending,  *)
(* and does end. It may refuse the whole job before it begins.             *)
(***************************************************************************)
VARIABLES
    pending, delivered, dropped,    \* inputs
    status                          \* "new", "running", "ended" or "refused"

Init == delivered = {} /\ dropped = {} /\ status = "new"

Begin ==
    /\ status = "new"
    /\ status' \in {"running", "refused"}
    /\ UNCHANGED <<pending, delivered, dropped>>

Deliver ==
    /\ status = "running"
    /\ \E x \in pending :
          /\ pending' = pending \ {x}
          /\ delivered' = delivered \union {x}
    /\ UNCHANGED <<dropped, status>>

DropOne ==
    /\ status = "running"
    /\ \E x \in pending :
          /\ pending' = pending \ {x}
          /\ dropped' = dropped \union {x}
    /\ UNCHANGED <<delivered, status>>

End ==
    /\ status = "running" /\ pending = {}
    /\ status' = "ended"
    /\ UNCHANGED <<pending, delivered, dropped>>

Next == Begin \/ Deliver \/ DropOne \/ End

Spec == Init /\ [][Next]_<<pending, delivered, dropped, status>>

LiveSpec == Spec /\ <>(status \in {"ended", "refused"})
====
