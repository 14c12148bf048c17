------------------------------ MODULE Committee ------------------------------
(***************************************************************************)
(* The committee of an epoch (narwhal/config/src/committee.rs): a set of   *)
(* authorities with voting stake, and the two thresholds every protocol    *)
(* step of the primary compares a stake with.                              *)
(*                                                                         *)
(* The stake of a set of authorities is a constant measure, so that what   *)
(* is proved about it holds for every distribution of stake; the models    *)
(* instantiate it by summing stakes.                                       *)
(***************************************************************************)
EXTENDS Integers

CONSTANTS
    Authorities,   \* the members of the committee
    StakeOf,       \* total stake of every set of authorities
    Faulty         \* the members that may deviate from the protocol

\* Stake is additive, and every authority has some: Committee is built from
\* a map of authorities with their stake.
ASSUME StakeAssumption ==
    /\ StakeOf \in [SUBSET Authorities -> Nat]
    /\ StakeOf[{}] = 0
    /\ StakeOf[Authorities] > 0
    /\ \A S, T \in SUBSET Authorities :
           StakeOf[S \cup T] + StakeOf[S \cap T] = StakeOf[S] + StakeOf[T]

total_stake == StakeOf[Authorities]

\* A slip to be caught: one too low.
quorum_threshold_off_by_one == (2 * total_stake) \div 3

quorum_threshold == (2 * total_stake) \div 3 + 1

validity_threshold == (total_stake + 2) \div 3

reached_quorum(S) == StakeOf[S] >= quorum_threshold

reached_validity(S) == StakeOf[S] >= validity_threshold

\* The fault model of the protocol: less than f + 1 stake is faulty.
ASSUME FaultAssumption ==
    /\ Faulty \subseteq Authorities
    /\ StakeOf[Faulty] < validity_threshold

Honest == Authorities \ Faulty
=============================================================================
