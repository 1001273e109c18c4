---- MODULE BlockCopy ----
(***************************************************************************)
(* What a program that transforms files block by block promises: job after *)
(* job, it puts out the text of the job from its beginning on, without a   *)
(* gap, and reports success only when the whole text is out. A job may     *)
(* fail at any time, and then nothing more is put out.                     *)
(***************************************************************************)
EXTENDS Sequences, Naturals

VARIABLES
    text,       \* the text of the current job
    out,        \* what of it has been put out
    outcome     \* "idle", "running", "ok" or "failed"

Init == outcome = "idle" /\ text = <<>> /\ out = <<>>

Begin ==
    /\ outcome = "idle"
    /\ outcome' \in {"running", "failed"}
    /\ out' = <<>>

Put ==
    /\ outcome = "running"
    /\ \E n \in Len(out)..Len(text) : out' = SubSeq(text, 1, n)
    /\ UNCHANGED <<text, outcome>>

End ==
    /\ outcome = "running"
    /\ outcome' = "failed" \/ (outcome' = "ok" /\ out = text)
    /\ UNCHANGED <<text, out>>

NextJob ==
    /\ outcome \in {"ok", "failed"}
    /\ outcome' = "idle"
    /\ text' = <<>> /\ out' = <<>>

Next == Begin \/ Put \/ End \/ NextJob

Spec == Init /\ [][Next]_<<text, out, outcome>>
====
