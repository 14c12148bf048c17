------------------------------ MODULE Delivery ------------------------------
(***************************************************************************)
(* What the path from consensus to the consensus handler promises: the     *)
(* commits are numbered from 1, and each is applied once, in that order,   *)
(* whatever the node went through.                                         *)
(***************************************************************************)
EXTENDS Naturals, Sequences

VARIABLES
    committed,  \* the number of commits
    applied     \* the commits applied, in order

vars == <<committed, applied>>

Init == committed = 0 /\ applied = <<>>

Commit ==
    /\ committed' \in Nat
    /\ committed' > committed
    /\ UNCHANGED applied

Apply ==
    /\ Len(applied) < committed
    /\ applied' = Append(applied, Len(applied) + 1)
    /\ UNCHANGED committed

Next == Commit \/ Apply

Spec == Init /\ [][Next]_vars
=============================================================================
