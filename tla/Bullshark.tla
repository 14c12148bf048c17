------------------------------ MODULE Bullshark ------------------------------
(***************************************************************************)
(* How primaries order the DAG: primary/consensus/bullshark.rs, with the   *)
(* state of consensus (state.rs), order_dag (utils.rs) and what is written *)
(* to and recovered from the consensus store.                              *)
(*                                                                         *)
(* A certificate is its round and its author: there is one for each        *)
(* (Certification!CertificateUniqueness).  The DAG of the network gives    *)
(* each certificate the authors of its parents, which are of the round     *)
(* below; it is any one of Networks.  The primaries take its certificates  *)
(* in different orders, and each may stop and recover from its store.      *)
(***************************************************************************)
EXTENDS LeaderSchedule

CONSTANTS
    Primaries,               \* the primaries observed
    Networks,                \* the DAGs considered
    GcDepth,                 \* rounds kept below the last committed one
    NumSubDagsPerSchedule,   \* commits between changes of the leader schedule
    ChannelCapacity,         \* bound: certificates on their way to consensus
    MaxRestarts              \* bound: restarts

Round(c) == c[1]
Origin(c) == c[2]

Parents(N, c) == {<<Round(c) - 1, a>> : a \in N[c]}

\* A header has a quorum of parents (Synchronizer!ParentsAreQuorum); those of
\* round 1 are the genesis certificates, which no DAG holds.
WellFormed(N) ==
    /\ DOMAIN N \subseteq (Nat \ {0}) \X Authorities
    /\ \A c \in DOMAIN N :
           /\ N[c] \subseteq Authorities
           /\ Round(c) > 1 => /\ Parents(N, c) \subseteq DOMAIN N
                              /\ reached_quorum(N[c])

ASSUME NetworkAssumption == \A N \in Networks : WellFormed(N)

ASSUME BullsharkAssumption ==
    /\ GcDepth \in Nat \ {0}
    /\ NumSubDagsPerSchedule \in Nat \ {0}
    /\ ChannelCapacity \in Nat
    /\ MaxRestarts \in Nat

VARIABLES
    network,               \* the DAG the network builds
    certificate_store,     \* certificates each primary has accepted, on disk
    new_certificates,      \* those on their way to consensus
    dag,                   \* ConsensusState::dag
    last_committed,        \* ConsensusState::last_committed, by author
    committed_round,       \* ConsensusState::last_round
    last_sub_dag,          \* ConsensusState::last_committed_sub_dag
    swap_table,            \* LeaderSchedule::leader_swap_table
    leader_round,          \* the round whose leader is being committed
    leaders_to_commit,     \* the leaders commit_leader has yet to commit
    stored_last_committed, \* ConsensusStore: last_committed
    sub_dags,              \* ConsensusStore: committed sub-dags by index
    restarts

memory == <<dag, last_committed, committed_round, last_sub_dag, swap_table,
            leader_round, leaders_to_commit>>
disk == <<certificate_store, stored_last_committed, sub_dags>>
vars == <<network, memory, disk, new_certificates, restarts>>

highest(S) == CHOOSE m \in S : \A n \in S : n <= m

\* utils.rs gc_round, with a subtraction that saturates.
gc_round(round) == highest({round - GcDepth, 0})

-----------------------------------------------------------------------------
\* The leaders to commit.

leader_certificate(table, round) == <<round, leader(table, round)>>

\* A path of parents from a certificate down to another, through D.
linked(N, D, from, to) ==
    \E path \in [Round(to)..Round(from) -> Authorities] :
        /\ path[Round(from)] = Origin(from)
        /\ path[Round(to)] = Origin(to)
        /\ \A r \in Round(to)..(Round(from) - 1) : <<r, path[r]>> \in D
        /\ \A r \in Round(to)..(Round(from) - 1) : path[r] \in N[<<r + 1, path[r + 1]>>]

\* The leaders of the even rounds above the last committed one, up to a round.
leaders(table, committed, round) ==
    {leader_certificate(table, r) : r \in {s \in (committed + 2)..round : s % 2 = 0}}

\* A slip to be caught: every earlier leader is collected, linked or not.
order_leaders_unlinked(N, D, table, committed, top, C) ==
    C = D \cap leaders(table, committed, Round(top))

\* C is what order_leaders collects: from `top' down to the last committed round,
\* each leader linked to the one collected before it.
order_leaders(N, D, table, committed, top, C) ==
    /\ C \subseteq D \cap leaders(table, committed, Round(top))
    /\ top \in C
    /\ \A l \in D \cap leaders(table, committed, Round(top) - 2) :
           l \in C <=> \E m \in C :
                           /\ Round(l) < Round(m)
                           /\ \A k \in C : Round(l) < Round(k) => Round(m) <= Round(k)
                           /\ linked(N, D, m, l)

\* A slip to be caught: the votes are not counted.
supported_unchecked(N, D, top) == top \in D

\* The first half of commit_leader: the leader is there with f + 1 support.
supported(N, D, top) ==
    /\ top \in D
    /\ reached_validity({a \in Authorities : /\ <<Round(top) + 1, a>> \in D
                                             /\ Origin(top) \in N[<<Round(top) + 1, a>>]})

\* What commit_leader is to commit for the leader of `round': nothing when it has
\* no certificate or no support.
elected(N, D, table, committed, round, C) ==
    LET top == leader_certificate(table, round)
    IN  IF supported(N, D, top)
        THEN order_leaders(N, D, table, committed, top, C)
        ELSE C = {}

-----------------------------------------------------------------------------
\* The sub-dag of a leader.

\* A slip to be caught: what is committed is not left out.
order_dag_again(N, committed, top) ==
    {c \in DOMAIN N : /\ Round(c) \in (gc_round(Round(top)) + 1)..Round(top)
                      /\ linked(N, DOMAIN N, top, c)}

\* A slip to be caught: the walk stops one round early.
order_dag_short(N, committed, top) ==
    LET uncommitted == {c \in DOMAIN N : Round(c) > committed[Origin(c)]}
    IN  {c \in DOMAIN N : /\ Round(c) \in (gc_round(Round(top)) + 2)..Round(top)
                          /\ linked(N, uncommitted, top, c)}

\* The certificates a leader commits: those it reaches, down to the round above the
\* garbage collected ones, through what its author has not committed or passed.
order_dag(N, committed, top) ==
    LET uncommitted == {c \in DOMAIN N : Round(c) > committed[Origin(c)]}
    IN  {c \in DOMAIN N : /\ Round(c) \in (gc_round(Round(top)) + 1)..Round(top)
                          /\ linked(N, uncommitted, top, c)}

\* ConsensusState::update, for all the certificates of a sub-dag.
update(committed, certificates) ==
    [a \in Authorities |->
        highest({committed[a]} \cup {Round(c) : c \in {x \in certificates : Origin(x) = a}})]

NoSubDag == [index |-> 0, leader |-> <<0, 0>>, certificates |-> {},
             scores |-> NoScores, final_of_schedule |-> FALSE]

\* One point for each certificate that has the previous leader as a parent; the
\* points of a schedule's window add up.
resolve_reputation_score(N, previous, certificates, index) ==
    [a \in Authorities |->
        (IF index = 1 \/ index % NumSubDagsPerSchedule = 0 THEN 0 ELSE previous.scores[a])
            + Cardinality({c \in certificates : Origin(c) = a /\ previous.leader \in Parents(N, c)})]

CommittedSubDag(N, previous, committed, top) ==
    LET index == previous.index + 1
        certificates == order_dag(N, committed, top)
    IN  [index             |-> index,
         leader            |-> top,
         certificates      |-> certificates,
         scores            |-> resolve_reputation_score(N, previous, certificates, index),
         final_of_schedule |-> (index + 1) % NumSubDagsPerSchedule = 0]

\* Bullshark::update_leader_schedule
update_leader_schedule(table, sub_dag) ==
    IF sub_dag.final_of_schedule THEN LeaderSwapTable(sub_dag.scores) ELSE table

-----------------------------------------------------------------------------
Init ==
    /\ network \in Networks
    /\ certificate_store = [p \in Primaries |-> {}]
    /\ new_certificates = [p \in Primaries |-> {}]
    /\ dag = [p \in Primaries |-> {}]
    /\ last_committed = [p \in Primaries |-> [a \in Authorities |-> 0]]
    /\ committed_round = [p \in Primaries |-> 0]
    /\ last_sub_dag = [p \in Primaries |-> NoSubDag]
    /\ swap_table = [p \in Primaries |-> NoSwaps]
    /\ leader_round = [p \in Primaries |-> 0]
    /\ leaders_to_commit = [p \in Primaries |-> {}]
    /\ stored_last_committed = [p \in Primaries |-> [a \in Authorities |-> 0]]
    /\ sub_dags = [p \in Primaries |-> <<>>]
    /\ restarts = 0

\* The synchronizer stores a certificate and sends it to consensus, after its
\* parents unless they are garbage collected (Synchronizer!CausalHistory).
accept_certificate(p, c) ==
    /\ c \in DOMAIN network \ certificate_store[p]
    /\ Round(c) > gc_round(committed_round[p])
    /\ \/ Round(c) <= gc_round(committed_round[p]) + 1
       \/ Parents(network, c) \subseteq certificate_store[p]
    /\ Cardinality(new_certificates[p]) < ChannelCapacity
    /\ certificate_store' = [certificate_store EXCEPT ![p] = @ \cup {c}]
    /\ new_certificates' = [new_certificates EXCEPT ![p] = @ \cup {c}]
    /\ UNCHANGED <<network, memory, stored_last_committed, sub_dags, restarts>>

\* Consensus takes a certificate; they come in the order they were accepted in.
receive(p, c) ==
    /\ leaders_to_commit[p] = {}
    /\ Parents(network, c) \cap new_certificates[p] = {}
    /\ new_certificates' = [new_certificates EXCEPT ![p] = @ \ {c}]

\* A slip to be caught: the parents of the first round kept are required.
check_parents_below(p, c) ==
    \/ Round(c) <= gc_round(committed_round[p])
    \/ Parents(network, c) \subseteq dag[p]

\* ConsensusState::check_parents
check_parents(p, c) ==
    \/ Round(c) <= gc_round(committed_round[p]) + 1
    \/ Parents(network, c) \subseteq dag[p]

\* Whether a certificate put in the DAG can commit the leader below it.
elects(p, c) ==
    /\ Round(c) > last_committed[p][Origin(c)]
    /\ (Round(c) - 1) % 2 = 0
    /\ Round(c) - 1 >= 2
    /\ Round(c) - 1 > committed_round[p]

\* A slip to be caught: a certificate that comes too late is not dropped.
process_collected_inserts(p, c) ==
    /\ receive(p, c)
    /\ Round(c) <= gc_round(committed_round[p])
    /\ dag' = [dag EXCEPT ![p] = @ \cup {c}]
    /\ UNCHANGED <<network, last_committed, committed_round, last_sub_dag, swap_table,
                   leader_round, leaders_to_commit, disk, restarts>>

\* process_certificate, for a certificate at or below the garbage collected round,
process_collected(p, c) ==
    /\ receive(p, c)
    /\ Round(c) <= gc_round(committed_round[p])
    /\ UNCHANGED <<network, memory, disk, restarts>>

\* for one that is added to the DAG and commits nothing by itself,
process_inserted(p, c) ==
    /\ receive(p, c)
    /\ Round(c) > gc_round(committed_round[p])
    /\ check_parents(p, c)
    /\ ~ elects(p, c)
    /\ dag' = [dag EXCEPT ![p] = @ \cup {c}]
    /\ UNCHANGED <<network, last_committed, committed_round, last_sub_dag, swap_table,
                   leader_round, leaders_to_commit, disk, restarts>>

\* and for one that may complete the support of a leader.
process_elects(p, c) ==
    /\ receive(p, c)
    /\ Round(c) > gc_round(committed_round[p])
    /\ check_parents(p, c)
    /\ elects(p, c)
    /\ dag' = [dag EXCEPT ![p] = @ \cup {c}]
    /\ leader_round' = [leader_round EXCEPT ![p] = Round(c) - 1]
    /\ \E C \in SUBSET leaders(swap_table[p], committed_round[p], Round(c) - 1) :
           /\ elected(network, dag'[p], swap_table[p], committed_round[p], Round(c) - 1, C)
           /\ leaders_to_commit' = [leaders_to_commit EXCEPT ![p] = C]
    /\ UNCHANGED <<network, last_committed, committed_round, last_sub_dag, swap_table,
                   disk, restarts>>

\* One turn of the loop of commit_leader.  The sub-dag is written with the rounds
\* it commits; when it changes the schedule and leaders remain, the election of
\* leader_round is repeated with the new one.
commit_leader(p) ==
    /\ leaders_to_commit[p] # {}
    /\ \E top \in leaders_to_commit[p] :
       LET rest == leaders_to_commit[p] \ {top}
           sub_dag == CommittedSubDag(network, last_sub_dag[p], last_committed[p], top)
           committed == highest({committed_round[p], Round(top)})
           table == update_leader_schedule(swap_table[p], sub_dag)
       IN  /\ \A l \in rest : Round(top) < Round(l)
           /\ last_committed' = [last_committed EXCEPT ![p] = update(@, sub_dag.certificates)]
           /\ committed_round' = [committed_round EXCEPT ![p] = committed]
           /\ dag' = [dag EXCEPT ![p] = {c \in @ : Round(c) > gc_round(committed)}]
           /\ last_sub_dag' = [last_sub_dag EXCEPT ![p] = sub_dag]
           /\ stored_last_committed' = [stored_last_committed EXCEPT ![p] = last_committed'[p]]
           /\ sub_dags' = [sub_dags EXCEPT ![p] =
                  [i \in DOMAIN @ \cup {sub_dag.index} |-> IF i = sub_dag.index THEN sub_dag ELSE @[i]]]
           /\ swap_table' = [swap_table EXCEPT ![p] = table]
           /\ \E C \in SUBSET (rest \cup leaders(table, committed, leader_round[p])) :
                  /\ IF sub_dag.final_of_schedule /\ rest # {}
                     THEN elected(network, dag'[p], table, committed, leader_round[p], C)
                     ELSE C = rest
                  /\ leaders_to_commit' = [leaders_to_commit EXCEPT ![p] = C]
    /\ UNCHANGED <<network, certificate_store, leader_round, new_certificates, restarts>>

\* ConsensusStore::get_latest_sub_dag
get_latest_sub_dag(p) ==
    IF DOMAIN sub_dags[p] = {} THEN NoSubDag ELSE sub_dags[p][highest(DOMAIN sub_dags[p])]

\* A slip to be caught: the last commit makes the schedule, final or not.
from_store_latest(p) ==
    IF DOMAIN sub_dags[p] = {} THEN NoSwaps ELSE LeaderSwapTable(get_latest_sub_dag(p).scores)

\* LeaderSchedule::from_store
from_store(p) ==
    LET finals == {i \in DOMAIN sub_dags[p] : sub_dags[p][i].final_of_schedule}
    IN  IF finals = {} THEN NoSwaps ELSE LeaderSwapTable(sub_dags[p][highest(finals)].scores)

\* Consensus::spawn: the last round committed by any author.
recovered_round(p) ==
    highest({stored_last_committed[p][a] : a \in Authorities})

\* A restart: what is in memory is lost, and rebuilt from the stores.  Certificates
\* of the store go back to the DAG and none of them elects a leader again.
restart(p) ==
    /\ restarts < MaxRestarts
    /\ restarts' = restarts + 1
    /\ new_certificates' = [new_certificates EXCEPT ![p] = {}]
    /\ last_committed' = [last_committed EXCEPT ![p] = stored_last_committed[p]]
    /\ committed_round' = [committed_round EXCEPT ![p] = recovered_round(p)]
    /\ dag' = [dag EXCEPT ![p] = {c \in certificate_store[p] : Round(c) > gc_round(recovered_round(p))}]
    /\ last_sub_dag' = [last_sub_dag EXCEPT ![p] = get_latest_sub_dag(p)]
    /\ swap_table' = [swap_table EXCEPT ![p] = from_store(p)]
    /\ leader_round' = [leader_round EXCEPT ![p] = 0]
    /\ leaders_to_commit' = [leaders_to_commit EXCEPT ![p] = {}]
    /\ UNCHANGED <<network, disk>>

Next ==
    \/ \E p \in Primaries : \E c \in DOMAIN network : accept_certificate(p, c)
    \/ \E p \in Primaries : \E c \in new_certificates[p] : process_collected(p, c)
    \/ \E p \in Primaries : \E c \in new_certificates[p] : process_inserted(p, c)
    \/ \E p \in Primaries : \E c \in new_certificates[p] : process_elects(p, c)
    \/ \E p \in Primaries : commit_leader(p)
    \/ \E p \in Primaries : restart(p)

Spec == Init /\ [][Next]_vars
-----------------------------------------------------------------------------
SubDags ==
    [index : Nat, leader : Nat \X Nat, certificates : SUBSET DOMAIN network,
     scores : [Authorities -> Nat], final_of_schedule : BOOLEAN]

SwapTables ==
    [good_nodes : SUBSET Authorities, bad_nodes : SUBSET Authorities, scores : [Authorities -> Nat]]

\* The types, and the memory that ConsensusState::update bounds: no round of the DAG
\* is at or below the garbage collected one.
TypeOK ==
    /\ network \in Networks
    /\ certificate_store \in [Primaries -> SUBSET DOMAIN network]
    /\ new_certificates \in [Primaries -> SUBSET DOMAIN network]
    /\ dag \in [Primaries -> SUBSET DOMAIN network]
    /\ last_committed \in [Primaries -> [Authorities -> Nat]]
    /\ committed_round \in [Primaries -> Nat]
    /\ last_sub_dag \in [Primaries -> SubDags]
    /\ swap_table \in [Primaries -> SwapTables]
    /\ leader_round \in [Primaries -> Nat]
    /\ leaders_to_commit \in [Primaries -> SUBSET DOMAIN network]
    /\ stored_last_committed \in [Primaries -> [Authorities -> Nat]]
    /\ DOMAIN sub_dags = Primaries
    /\ restarts \in 0..MaxRestarts
    /\ \A p \in Primaries :
           /\ \A c \in dag[p] : Round(c) > gc_round(committed_round[p])
           /\ DOMAIN sub_dags[p] = 1..last_sub_dag[p].index
           /\ \A i \in DOMAIN sub_dags[p] : sub_dags[p][i] \in SubDags

\* The primaries commit the same sub-dags in the same order: what two of them have
\* written at an index is equal, scores included, whatever order they took the
\* certificates in, and however many leaders each committed at once.
Agreement ==
    \A p, q \in Primaries : \A i \in DOMAIN sub_dags[p] \cap DOMAIN sub_dags[q] :
        sub_dags[p][i] = sub_dags[q][i]

\* No certificate is in two sub-dags of a primary, whatever it recovered from:
\* order_dag leaves out what last_committed covers.
CommittedOnce ==
    \A p \in Primaries : \A i, j \in DOMAIN sub_dags[p] :
        i # j => sub_dags[p][i].certificates \cap sub_dags[p][j].certificates = {}

\* The panics of check_parents and of order_dag do not happen: consensus has the
\* parents of what it is given, and of what a leader commits.
HistoryPresent ==
    \A p \in Primaries :
        /\ \A c \in new_certificates[p] :
               /\ leaders_to_commit[p] = {}
               /\ Parents(network, c) \cap new_certificates[p] = {}
               /\ Round(c) > gc_round(committed_round[p])
               => check_parents(p, c)
        /\ \A top \in leaders_to_commit[p] :
               \A c \in order_dag(network, last_committed[p], top) :
                   c \in dag[p] /\ (Round(c) > gc_round(Round(top)) + 1 => Parents(network, c) \subseteq dag[p])

\* What a certificate refers to is committed with it or before it, unless it is
\* garbage collected or its author committed a later one.
CausalOrder ==
    \A p \in Primaries : \A i \in DOMAIN sub_dags[p] : \A c \in sub_dags[p][i].certificates :
        \A x \in Parents(network, c) :
            \/ Round(x) <= gc_round(Round(sub_dags[p][i].leader))
            \/ \E j \in DOMAIN sub_dags[p] : j <= i /\ \E y \in sub_dags[p][j].certificates :
                   Origin(y) = Origin(x) /\ Round(y) >= Round(x)

\* A restart loses no decision: what would be recovered from the store is what
\* consensus has in memory, the leader schedule included, and the assertion of
\* Consensus::spawn holds.
Recoverable ==
    \A p \in Primaries :
        /\ last_committed[p] = stored_last_committed[p]
        /\ committed_round[p] = recovered_round(p)
        /\ last_sub_dag[p] = get_latest_sub_dag(p)
        /\ swap_table[p] = from_store(p)
        /\ get_latest_sub_dag(p).leader[1] = recovered_round(p)

\* The swap does what it is for: while there are good nodes, every round is led by a
\* member of the committee that is not one of the worst scorers.  It rests on the
\* threshold, which keeps the first and the last of the order of scores apart.
LeadersInGoodStanding ==
    \A p \in Primaries : swap_table[p].good_nodes # {} =>
        \A r \in DOMAIN BaseLeader : leader(swap_table[p], r) \in Authorities \ swap_table[p].bad_nodes

\* What the primaries promise together is CommitOrder: one sequence of sub-dags, of
\* which each has committed a beginning.
Order == INSTANCE CommitOrder
    WITH decided <- UNION {{sub_dags[p][i] : i \in DOMAIN sub_dags[p]} : p \in Primaries},
         delivered <- [p \in Primaries |-> last_sub_dag[p].index]

CommitsInOrder == Order!Spec
=============================================================================
