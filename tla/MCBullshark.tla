---------------------------- MODULE MCBullshark ----------------------------
(***************************************************************************)
(* Instances of Bullshark for TLC: three authorities, of which 2 is needed *)
(* for every quorum and supports a leader alone.  1 leads while it is not  *)
(* swapped; the first commit leads to a schedule that swaps it for 3.      *)
(***************************************************************************)
EXTENDS Bullshark, TLC

CONSTANTS p1, p2

Stake == [S \in SUBSET Authorities |-> 2 * Cardinality(S) + IF 2 \in S THEN 1 ELSE 0]

Leaders == [r \in 0..7 |-> 1]
Draws == [r \in 0..7 |-> r]

\* Every certificate has the whole round below as parents, but for what it omits.
Net(authors, omits(_, _)) ==
    [c \in {d \in (DOMAIN authors) \X Authorities : Origin(d) \in authors[Round(d)]} |->
        IF Round(c) = 1 THEN {} ELSE authors[Round(c) - 1] \ {omits(Round(c), Origin(c))}]

All == {1, 2, 3}

\* The leader of round 2 has the votes of 1 and 3, which can be missed until after
\* round 5.
LateVote ==
    Net(<<{1, 2}, All, All, All, {2}>>,
        LAMBDA r, a : CASE r = 3 /\ a = 2 -> 1
                        [] r = 4 -> 3
                        [] OTHER -> 0)

\* The same, with a leader of round 4 that has no support once the schedule changes.
Unsupported ==
    Net(<<{1, 2}, All, All, All, {2}>>,
        LAMBDA r, a : CASE r = 3 /\ a = 2 -> 1
                        [] r \in {4, 5} -> 3
                        [] OTHER -> 0)

\* The leader of round 2 has one vote, which the leader of round 4 has no path to,
\* and no one refers to a certificate of round 1: it can arrive after it is garbage
\* collected.
Skipped ==
    Net(<<All, All, All, {1, 2}, {2}>>,
        LAMBDA r, a : CASE r = 2 -> 3
                        [] r = 3 /\ a # 1 -> 1
                        [] r = 4 -> 1
                        [] OTHER -> 0)

\* Three leaders in turn, and the scores of a whole window of the schedule.
Long == Net(<<{1, 2}, All, {1, 2}, {2, 3}, {2, 3}, {2, 3}, {2, 3}>>, LAMBDA r, a : 0)

MCNetworks == {LateVote, Unsupported, Skipped, Long}

Symmetry == Permutations(Primaries)
=============================================================================
