--------------------------- MODULE MCSynchronizer ---------------------------
(***************************************************************************)
(* Instances of Synchronizer for TLC: a committee in which a alone is a    *)
(* quorum, so that a few certificates make a DAG whose rounds complete     *)
(* although others are missing.                                            *)
(***************************************************************************)
EXTENDS Synchronizer, FiniteSetsExt

CONSTANTS a, b, o,                 \* authorities; o is this primary
          a1, b1, a2, b2, o2, a3   \* author and round of a certificate

HeavyStake == [S \in SUBSET Authorities |-> Cardinality(S) + IF a \in S THEN 4 ELSE 0]

Round(c) == CASE c \in {a1, b1} -> 1 [] c \in {a2, b2, o2} -> 2 [] OTHER -> 3
Origin(c) == CASE c \in {a1, a2, a3} -> a [] c = o2 -> o [] OTHER -> b
Parents(c) == CASE c \in {a2, o2} -> {a1}
                [] c = b2 -> {a1, b1}
                [] c = a3 -> {a2, o2} \cap Certs
                [] OTHER -> {}

Rounds3 == [c \in Certs |-> Round(c)]
Origins3 == [c \in Certs |-> Origin(c)]
Parents3 == [c \in Certs |-> Parents(c)]
=============================================================================
