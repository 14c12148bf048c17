--------------------------- MODULE MCCertification ---------------------------
(***************************************************************************)
(* Instances of Certification for TLC.                                     *)
(***************************************************************************)
EXTENDS Certification, TLC

CONSTANTS a1, a2, a3, a4

\* Four authorities of equal stake.
EqualStake == [S \in SUBSET Authorities |-> Cardinality(S)]

\* a1 is a quorum with any other authority.
HeavyStake == [S \in SUBSET Authorities |-> Cardinality(S) + IF a1 \in S THEN 3 ELSE 0]

VoterSymmetry == Permutations(Authorities \ (Proposers \cup Faulty))
=============================================================================
