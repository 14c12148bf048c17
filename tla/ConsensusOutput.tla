-------------------------- MODULE ConsensusOutput --------------------------
(***************************************************************************)
(* The way of a committed sub-dag from consensus to the handler that       *)
(* applies it, in one node that may crash at any point                     *)
(* (narwhal/primary/src/consensus/state.rs, narwhal/executor/src,          *)
(* narwhal/node/src/primary_node.rs and                                    *)
(* crates/mgo-core/src/consensus_handler.rs).                              *)
(*                                                                         *)
(* Consensus persists the sub-dags a certificate commits and sends them to *)
(* the subscriber, which fetches their batches, several at a time, and     *)
(* hands them on in order.  The handler applies a sub-dag and records how  *)
(* far it is in one batch of the epoch store.  After a crash the node      *)
(* reads the sub-dags from there on from the consensus store again.        *)
(*                                                                         *)
(* A sub-dag is its sub_dag_index.  The integrity hash of the handler,     *)
(* which absorbs every transaction applied, is the sequence of sub-dags.   *)
(***************************************************************************)
EXTENDS Naturals, Sequences

CONSTANTS
    LeaderRound,           \* the round of each sub-dag's leader
    MaxCommits,            \* bound: sub-dags
    MaxLeaders,            \* bound: sub-dags committed by one certificate
    CHANNEL_CAPACITY,
    MAX_PENDING_PAYLOADS,
    MaxRestarts            \* bound: crashes

\* Leaders are committed in the order of their rounds; round 0 is genesis.
ASSUME OutputAssumption ==
    /\ MaxCommits \in Nat /\ MaxLeaders \in Nat /\ MaxRestarts \in Nat
    /\ CHANNEL_CAPACITY \in Nat /\ MAX_PENDING_PAYLOADS \in Nat
    /\ LeaderRound \in [1..MaxCommits -> Nat]
    /\ \A i \in 1..MaxCommits : LeaderRound[i] > 0
    /\ \A i, j \in 1..MaxCommits : i < j => LeaderRound[i] < LeaderRound[j]

VARIABLES
    stored,                \* sub-dags 1..stored are in the consensus store
    sent,                  \* consensus has sent 1..sent on
    rx_sequence,           \* channel from consensus to the subscriber
    waiting,               \* the subscriber's futures, in order
    rx_notify,             \* channel from the subscriber to the handler
    stats,                 \* the handler's last_consensus_stats
    last_consensus_stats,  \* the same on disk
    restarts

vars == <<stored, sent, rx_sequence, waiting, rx_notify, stats, last_consensus_stats, restarts>>

SubDags == 1..MaxCommits

Payloads == [sub_dag : SubDags, fetched : BOOLEAN]

Stats == [sub_dag_index : 0..MaxCommits, last_committed_round : Nat, hash : Seq(SubDags)]

NoStats == [sub_dag_index |-> 0, last_committed_round |-> 0, hash |-> <<>>]

Init ==
    /\ stored = 0 /\ sent = 0
    /\ rx_sequence = <<>> /\ waiting = <<>> /\ rx_notify = <<>>
    /\ stats = NoStats /\ last_consensus_stats = NoStats
    /\ restarts = 0

-----------------------------------------------------------------------------
(***************************************************************************)
(* Consensus.                                                              *)
(***************************************************************************)

\* A certificate commits n leaders: each sub-dag is persisted.  The previous
\* ones have all been sent.
process_certificate(n) ==
    /\ sent = stored
    /\ stored + n <= MaxCommits
    /\ stored' = stored + n
    /\ UNCHANGED <<sent, rx_sequence, waiting, rx_notify, stats, last_consensus_stats, restarts>>

\* Mutant: consensus sends what it is about to persist.
send_sequence_early ==
    /\ sent < MaxCommits
    /\ Len(rx_sequence) < CHANNEL_CAPACITY
    /\ rx_sequence' = Append(rx_sequence, sent + 1)
    /\ sent' = sent + 1
    /\ UNCHANGED <<stored, waiting, rx_notify, stats, last_consensus_stats, restarts>>

send_sequence ==
    /\ sent < stored
    /\ Len(rx_sequence) < CHANNEL_CAPACITY
    /\ rx_sequence' = Append(rx_sequence, sent + 1)
    /\ sent' = sent + 1
    /\ UNCHANGED <<stored, waiting, rx_notify, stats, last_consensus_stats, restarts>>

-----------------------------------------------------------------------------
(***************************************************************************)
(* The subscriber.                                                         *)
(***************************************************************************)

Future(i) == [sub_dag |-> i, fetched |-> FALSE]

receive_sequence ==
    /\ rx_sequence # <<>>
    /\ Len(waiting) < MAX_PENDING_PAYLOADS
    /\ waiting' = Append(waiting, Future(Head(rx_sequence)))
    /\ rx_sequence' = Tail(rx_sequence)
    /\ UNCHANGED <<stored, sent, rx_notify, stats, last_consensus_stats, restarts>>

\* All batches of a sub-dag are there, after as many retries as it takes.
fetch_batches(i) ==
    /\ ~waiting[i].fetched
    /\ waiting' = [waiting EXCEPT ![i].fetched = TRUE]
    /\ UNCHANGED <<stored, sent, rx_sequence, rx_notify, stats, last_consensus_stats, restarts>>

\* Mutant: outputs are handed on as they become ready.
send_output_unordered ==
    \E i \in DOMAIN waiting :
        /\ waiting[i].fetched
        /\ Len(rx_notify) < CHANNEL_CAPACITY
        /\ rx_notify' = Append(rx_notify, waiting[i].sub_dag)
        /\ waiting' = SubSeq(waiting, 1, i - 1) \o SubSeq(waiting, i + 1, Len(waiting))
        /\ UNCHANGED <<stored, sent, rx_sequence, stats, last_consensus_stats, restarts>>

\* Mutant: the limit on pending payloads holds back both branches of the loop.
send_output_limited ==
    /\ waiting # <<>>
    /\ Len(waiting) < MAX_PENDING_PAYLOADS
    /\ Head(waiting).fetched
    /\ Len(rx_notify) < CHANNEL_CAPACITY
    /\ rx_notify' = Append(rx_notify, Head(waiting).sub_dag)
    /\ waiting' = Tail(waiting)
    /\ UNCHANGED <<stored, sent, rx_sequence, stats, last_consensus_stats, restarts>>

\* FuturesOrdered: the first one is waited for, however many are done.
send_output ==
    /\ waiting # <<>>
    /\ Head(waiting).fetched
    /\ Len(rx_notify) < CHANNEL_CAPACITY
    /\ rx_notify' = Append(rx_notify, Head(waiting).sub_dag)
    /\ waiting' = Tail(waiting)
    /\ UNCHANGED <<stored, sent, rx_sequence, stats, last_consensus_stats, restarts>>

-----------------------------------------------------------------------------
(***************************************************************************)
(* The handler.  It works on one sub-dag at a time: its memory is ahead of *)
(* the disk until the batch is written.                                    *)
(***************************************************************************)

not_before(i) == LeaderRound[i] >= stats.last_committed_round

\* Mutant: a sub-dag handed over again is not recognised.
already_committed_never(i) == FALSE

already_committed(i) == LeaderRound[i] = stats.last_committed_round

\* The sub-dag's first transaction, the commit prologue, is always new, so
\* the indices move even if all others were seen.
update_index_and_hash(i) ==
    [sub_dag_index |-> i,
     last_committed_round |-> LeaderRound[i],
     hash |-> Append(stats.hash, i)]

handle_consensus_output ==
    /\ rx_notify # <<>>
    /\ stats = last_consensus_stats
    /\ not_before(Head(rx_notify))
    /\ stats' = IF already_committed(Head(rx_notify)) THEN stats
                ELSE update_index_and_hash(Head(rx_notify))
    /\ rx_notify' = Tail(rx_notify)
    /\ UNCHANGED <<stored, sent, rx_sequence, waiting, last_consensus_stats, restarts>>

\* Mutant: the indices are written before the transactions, on their own, and
\* the hash with the next sub-dag.
process_consensus_transactions_and_commit_boundary_split ==
    /\ stats # last_consensus_stats
    /\ last_consensus_stats' =
           IF stats.sub_dag_index # last_consensus_stats.sub_dag_index
           THEN [stats EXCEPT !.hash = last_consensus_stats.hash]
           ELSE stats
    /\ UNCHANGED <<stored, sent, rx_sequence, waiting, rx_notify, stats, restarts>>

\* Everything the sub-dag changes is written, and how far the handler is.
process_consensus_transactions_and_commit_boundary ==
    /\ stats # last_consensus_stats
    /\ last_consensus_stats' = stats
    /\ UNCHANGED <<stored, sent, rx_sequence, waiting, rx_notify, stats, restarts>>

-----------------------------------------------------------------------------
\* Mutant: the sub-dags after the index, and not the next one.
read_committed_sub_dags_from_skipping(index) ==
    [i \in 1..(IF stored > index THEN stored - index - 1 ELSE 0) |-> Future(i + index + 1)]

\* What the consensus store has from an index on, that one included.
read_committed_sub_dags_from(index) ==
    LET first == IF index = 0 THEN 1 ELSE index
    IN [i \in 1..(stored + 1 - first) |-> Future(i + first - 1)]

\* The node comes up again: what the handler may have missed goes before
\* anything consensus will send.
Restart ==
    /\ restarts < MaxRestarts
    /\ restarts' = restarts + 1
    /\ stats' = last_consensus_stats
    /\ waiting' = read_committed_sub_dags_from(last_consensus_stats.sub_dag_index)
    /\ sent' = stored
    /\ rx_sequence' = <<>>
    /\ rx_notify' = <<>>
    /\ UNCHANGED <<stored, last_consensus_stats>>

-----------------------------------------------------------------------------
Fetch == \E i \in DOMAIN waiting : fetch_batches(i)

Next ==
    \/ \E n \in 1..MaxLeaders : process_certificate(n)
    \/ send_sequence
    \/ receive_sequence
    \/ Fetch
    \/ send_output
    \/ handle_consensus_output
    \/ process_consensus_transactions_and_commit_boundary
    \/ Restart

Spec == Init /\ [][Next]_vars

\* The tasks run, and the workers find every batch: a quorum has it.
LiveSpec ==
    /\ Spec
    /\ WF_vars(send_sequence)
    /\ WF_vars(receive_sequence)
    /\ WF_vars(Fetch)
    /\ WF_vars(send_output)
    /\ WF_vars(handle_consensus_output \/ process_consensus_transactions_and_commit_boundary)

-----------------------------------------------------------------------------
(***************************************************************************)
(* Properties.                                                             *)
(***************************************************************************)

TypeOK ==
    /\ stored \in 0..MaxCommits /\ sent \in 0..stored
    /\ rx_sequence \in Seq(SubDags)
    /\ waiting \in Seq(Payloads)
    /\ rx_notify \in Seq(SubDags)
    /\ stats \in Stats /\ last_consensus_stats \in Stats
    /\ restarts \in 0..MaxRestarts

\* What was applied, in memory and on disk, is the sub-dags up to the last
\* one applied: none twice although a restart hands the last one over again,
\* none left out, and none before an earlier one although their batches are
\* fetched side by side.
AppliedInOrder ==
    \A s \in {stats, last_consensus_stats} :
        s.hash = [i \in 1..s.sub_dag_index |-> i]

\* The assertion of handle_consensus_output_internal holds of whatever comes
\* next: its round is not below the last committed one.
HandlerNeverPanics ==
    rx_notify # <<>> => not_before(Head(rx_notify))

\* A persisted sub-dag that is not applied is still with consensus, or on its
\* way: with the subscriber or in a channel.
NoneLost ==
    \A i \in (stats.sub_dag_index + 1)..stored :
        \/ i > sent
        \/ \E k \in DOMAIN rx_sequence : rx_sequence[k] = i
        \/ \E k \in DOMAIN waiting : waiting[k].sub_dag = i
        \/ \E k \in DOMAIN rx_notify : rx_notify[k] = i

\* Every persisted sub-dag is applied in the end, and that is on disk.
EveryCommitApplied == []<>(last_consensus_stats.sub_dag_index = stored)

\* The handler's record on disk is what Delivery promises.
D == INSTANCE Delivery WITH committed <- stored, applied <- last_consensus_stats.hash

DeliversInOrder == D!Spec
=============================================================================
