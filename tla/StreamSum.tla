---- MODULE StreamSum ----
(***************************************************************************)
(* What the programs of ClassWork1 and ClassWork2 promise: each number of  *)
(* a stream is squared and added to a sum once, in the order of the stream *)
(* unless several lanes are open to overtake in, and the program ends when *)
(* none is left. It may fail before it begins, or begin and be stuck.      *)
(***************************************************************************)
EXTENDS Integers, FiniteSetsExt

CONSTANTS
    Result(_, _),   \* a whole number, as a number of a type
    Plus(_, _, _), Square(_, _)

VARIABLES
    type,   \* of the numbers: "float" or "long"
    lanes,
    left,   \* the numbers not added yet
    sum,
    status  \* "new", "failed", "running", "stuck" or "ended"

Init == status = "new" /\ sum = 0

Begin ==
    /\ status = "new"
    /\ status' \in {"failed", "running", "stuck"}
    /\ left' = 0..Cardinality(left') - 1
    /\ UNCHANGED <<type, sum>>

Add ==
    /\ status \in {"running", "stuck"}
    /\ \E x \in left :
          /\ lanes = 1 => x = Min(left)
          /\ sum' = Plus(type, sum, Square(type, Result(type, x)))
          /\ left' = left \ {x}
    /\ UNCHANGED <<type, lanes, status>>

End ==
    /\ status = "running" /\ left = {}
    /\ status' = "ended"
    /\ UNCHANGED <<type, lanes, left, sum>>

Next == Begin \/ Add \/ End

\* Unless it is stuck, the program comes to an end.
LiveSpec ==
    Init /\ [][Next]_<<type, lanes, left, sum, status>> /\ <>(status \notin {"new", "running"})
====
