---------------------------- MODULE CommitOrder ----------------------------
(***************************************************************************)
(* What consensus promises to those who execute its output: the sub-dags   *)
(* of an epoch are one sequence, whoever delivers them.  Each has the next *)
(* index, a leader of a later round and certificates that no other has.    *)
(***************************************************************************)
EXTENDS Integers

CONSTANT Primaries

VARIABLES
    decided,    \* the sub-dags of the sequence
    delivered   \* how many of them each primary has delivered

Init ==
    /\ decided = {}
    /\ delivered = [p \in Primaries |-> 0]

\* A sub-dag that continues the sequence.
Continues(s) ==
    \A t \in decided :
        /\ t.index < s.index
        /\ t.leader[1] < s.leader[1]
        /\ t.certificates \cap s.certificates = {}

\* A primary delivers the next sub-dag, which it is the first to decide or which
\* another has delivered before.
Deliver(p) ==
    /\ delivered' = [delivered EXCEPT ![p] = @ + 1]
    /\ \E s \in decided' :
           /\ s.index = delivered[p] + 1
           /\ decided' = decided \cup {s}
           /\ s \in decided \/ Continues(s)

Next == \E p \in Primaries : Deliver(p)

Spec == Init /\ [][Next]_<<decided, delivered>>
=============================================================================
