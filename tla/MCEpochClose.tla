---------------------------- MODULE MCEpochClose ----------------------------
(***************************************************************************)
(* Instances of EpochClose for TLC: a is a quorum alone, so that the epoch *)
(* ends while b may be at any point.                                       *)
(***************************************************************************)
EXTENDS EpochClose

CONSTANTS a, b,  \* validators
          t, u   \* transactions

HeavyStake == [S \in SUBSET Authorities |-> Cardinality(S) + IF a \in S THEN 2 ELSE 0]

\* Clients send every certificate to every validator, or to b alone.
OfferedToAll == [v \in Honest |-> Txs]
OfferedToB == [v \in Honest |-> IF v = b THEN Txs ELSE {}]
=============================================================================
