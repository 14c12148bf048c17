------------------------- MODULE MCConsensusOutput -------------------------
(***************************************************************************)
(* An instance of ConsensusOutput for TLC: the leaders of even rounds, one *)
(* of which was not committed.                                             *)
(***************************************************************************)
EXTENDS ConsensusOutput

EvenRounds == [i \in 1..MaxCommits |-> IF i = 1 THEN 2 ELSE 2 * i + 2]
=============================================================================
