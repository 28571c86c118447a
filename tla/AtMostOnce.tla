----------------------------- MODULE AtMostOnce -----------------------------
(***************************************************************************)
(* What "reliable" means in PROTOCOL.md for one direction of the serial    *)
(* link: frames are numbered in the order they are issued, the receiver    *)
(* applies each at most once and never an older one after a newer one, and *)
(* a frame is confirmed to its sender only when its side effects are       *)
(* committed at the receiver.                                              *)
(***************************************************************************)
EXTENDS Naturals, Sequences

VARIABLES
    issued,     \* number of frames issued
    applied,    \* numbers of the frames applied, in order
    confirmed   \* numbers of the frames confirmed to their sender

Init == issued = 0 /\ applied = <<>> /\ confirmed = {}

Issue ==
    /\ issued' = issued + 1
    /\ UNCHANGED <<applied, confirmed>>

Apply(n) ==
    /\ \A i \in 1..Len(applied) : applied[i] < n
    /\ applied' = Append(applied, n)
    /\ UNCHANGED <<issued, confirmed>>

Confirm(n) ==
    /\ \E i \in 1..Len(applied) : applied[i] = n
    /\ confirmed' = confirmed \union {n}
    /\ UNCHANGED <<issued, applied>>

Next == Issue \/ \E n \in 1..issued : Apply(n) \/ Confirm(n)

Spec == Init /\ [][Next]_<<issued, applied, confirmed>>
=============================================================================
