--------------------------- MODULE LeaderSchedule ---------------------------
(***************************************************************************)
(* Who leads a round: primary/consensus/leader_schedule.rs.                *)
(*                                                                         *)
(* The committee elects a leader for every even round from a seed that is  *)
(* the round alone.  A swap table, made from the reputation scores of a    *)
(* window of commits, replaces the worst scorers by the best ones.         *)
(***************************************************************************)
EXTENDS Committee, FiniteSets

CONSTANTS
    BaseLeader,             \* Committee::leader, by round
    Draw,                   \* what the generator seeded with a round draws
    BadNodesStakeThreshold  \* consensus_bad_nodes_stake_threshold, in percent

\* AuthorityIdentifier is a number: ties of scores are decided by it.  The committee
\* elects one of its members, and LeaderSwapTable::new asserts the threshold.
ASSUME ScheduleAssumption ==
    /\ Authorities \subseteq Nat
    /\ IsFiniteSet(Authorities)
    /\ \A r \in DOMAIN BaseLeader : BaseLeader[r] \in Authorities /\ Draw[r] \in Nat
    /\ BadNodesStakeThreshold \in 0..33

\* ReputationScores::authorities_by_score_desc: a comes before b.
Precedes(scores, a, b) ==
    \/ scores[a] > scores[b]
    \/ scores[a] = scores[b] /\ a > b

\* The authorities whose stake, with that of those ranked before them, is within
\* the threshold.
retrieve_first_nodes(upTo) ==
    {a \in Authorities : StakeOf[upTo[a]] <= (BadNodesStakeThreshold * total_stake) \div 100}

\* A slip to be caught: the good nodes are taken from the reversed order too.
LeaderSwapTable_reversed(scores) ==
    LET last == retrieve_first_nodes(
                    [a \in Authorities |-> {b \in Authorities : ~ Precedes(scores, b, a)}])
    IN  [good_nodes |-> last, bad_nodes |-> last, scores |-> scores]

LeaderSwapTable(scores) ==
    [good_nodes |-> retrieve_first_nodes(
                        [a \in Authorities |-> {b \in Authorities : ~ Precedes(scores, a, b)}]),
     bad_nodes  |-> retrieve_first_nodes(
                        [a \in Authorities |-> {b \in Authorities : ~ Precedes(scores, b, a)}]),
     scores     |-> scores]

NoScores == [a \in Authorities |-> 0]

NoSwaps == [good_nodes |-> {}, bad_nodes |-> {}, scores |-> NoScores]

\* The good node at a place of the order of scores.
Ranked(table, n) ==
    CHOOSE a \in table.good_nodes :
        Cardinality({b \in table.good_nodes : Precedes(table.scores, b, a)}) = n

\* LeaderSwapTable::swap and LeaderSchedule::leader.
leader(table, round) ==
    IF BaseLeader[round] \in table.bad_nodes
    THEN Ranked(table, Draw[round] % Cardinality(table.good_nodes))
    ELSE BaseLeader[round]
=============================================================================
