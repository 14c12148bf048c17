---------------------------- MODULE Synchronizer ----------------------------
(***************************************************************************)
(* How one primary takes certificates into its DAG: primary/synchronizer.rs*)
(* with the part of consensus it feeds (consensus/state.rs).               *)
(*                                                                         *)
(* Three tasks share the primary's state.  The acceptor takes certificates *)
(* out of a channel, suspends those with missing parents and accepts the   *)
(* others; garbage collection releases what waits for parents that no      *)
(* longer matter; recovery, after a restart, hands the proposer the last   *)
(* certificates of the store.  `lock' is the mutex of State; gc_round, the *)
(* certificate store and the aggregators are not behind it.                *)
(*                                                                         *)
(* The DAG the network builds is a constant: which certificates there are, *)
(* their rounds, origins and parents.  A digest is its certificate.        *)
(***************************************************************************)
EXTENDS Committee, Sequences, FiniteSets

CONSTANTS
    Certs,             \* the certificates of the network, genesis left out
    RoundOf,           \* their rounds,
    OriginOf,          \* authors
    ParentsOf,         \* and parents; those of round 1 are genesis
    Own,               \* the certificates this primary makes
    GcDepth,           \* rounds kept below the last committed one
    NEW_CERTIFICATE_ROUND_LIMIT,
    BatchSize,         \* bound: certificates in a fetch response
    ConsensusCapacity, \* bound: certificates on their way to consensus
    MaxRestarts        \* bound: restarts

\* A header has one author and round, and its parents are of the round below.
ASSUME DagAssumption ==
    /\ RoundOf \in [Certs -> Nat \ {0}]
    /\ OriginOf \in [Certs -> Authorities]
    /\ ParentsOf \in [Certs -> SUBSET Certs]
    /\ \A c \in Certs : \A p \in ParentsOf[c] : RoundOf[c] = RoundOf[p] + 1
    /\ Own \subseteq Certs

ASSUME BoundAssumption ==
    /\ GcDepth \in Nat
    /\ NEW_CERTIFICATE_ROUND_LIMIT \in Nat \ {0}
    /\ BatchSize \in Nat
    /\ ConsensusCapacity \in Nat
    /\ MaxRestarts \in Nat

VARIABLES
    certificate_store,    \* accepted certificates, on disk
    suspended,            \* State: certificates waiting for parents,
    missing_parents,      \* the parents each of them waits for,
    missing,              \* and, for each parent, those waiting for it
    lock,                 \* the task holding the State mutex
    accepting,            \* what the lock holder has yet to accept
    rx_acceptor,          \* the channel into the acceptor
    batch,                \* what the acceptor has yet to look at
    gc_round,             \* Inner::gc_round
    gc_task,              \* where the garbage collection task stands
    aggregators,          \* certificates seen by each round's aggregator
    parents,              \* parents the proposer has been given, by round
    recovering,           \* the recovery task: certificates left to append,
    recovered,            \* and drained parents it has yet to send
    new_certificates,     \* the channel into consensus
    dag,                  \* ConsensusState::dag
    consensus_gc,         \* gc_round of the last commit, on disk
    restarts

state_vars == <<suspended, missing_parents, missing>>
acceptor_vars == <<rx_acceptor, batch>>
proposer_vars == <<aggregators, parents>>
recovery_vars == <<recovering, recovered>>
consensus_vars == <<dag, consensus_gc>>
vars == <<certificate_store, state_vars, lock, accepting, acceptor_vars,
          gc_round, gc_task, proposer_vars, recovery_vars, new_certificates,
          consensus_vars, restarts>>

Rounds == {RoundOf[c] : c \in Certs}
of_round(S, r) == {c \in S : RoundOf[c] = r}
lowest(S) == {c \in S : \A d \in S : RoundOf[c] <= RoundOf[d]}

Messages == [certs : SUBSET Certs, early_suspend : BOOLEAN, own : BOOLEAN]
Idle == [certs |-> {}, early_suspend |-> FALSE, own |-> FALSE]

Init ==
    /\ certificate_store = {}
    /\ suspended = {}
    /\ missing_parents = [c \in Certs |-> {}]
    /\ missing = [c \in Certs |-> {}]
    /\ lock = "free"
    /\ accepting = {}
    /\ rx_acceptor = <<>>
    /\ batch = Idle
    /\ gc_round = 0
    /\ gc_task = "waiting"
    /\ aggregators = [r \in Rounds |-> {}]
    /\ parents = [r \in Rounds |-> {}]
    /\ recovering = {}
    /\ recovered = {}
    /\ new_certificates = <<>>
    /\ dag = {}
    /\ consensus_gc = 0
    /\ restarts = 0

-----------------------------------------------------------------------------
(***************************************************************************)
(* Certificates arrive, from peers, from a fetch or from this primary's    *)
(* certifier, and wait in the acceptor's channel.  A certificate too far   *)
(* above the processed rounds, or garbage collected, is dropped here.  A   *)
(* peer can hold a certificate over one of ours only once ours is stored,  *)
(* as it is broadcast after that.                                          *)
(***************************************************************************)
published(c) == c \notin Own /\ ParentsOf[c] \cap Own \subseteq certificate_store

not_too_new(c) ==
    \/ RoundOf[c] <= NEW_CERTIFICATE_ROUND_LIMIT
    \/ \E d \in certificate_store :
           RoundOf[c] <= RoundOf[d] + NEW_CERTIFICATE_ROUND_LIMIT

sanitize_certificate(c) == gc_round < RoundOf[c]

submit(message) ==
    /\ rx_acceptor = <<>>
    /\ rx_acceptor' = <<message>>
    /\ UNCHANGED <<certificate_store, state_vars, lock, accepting, batch,
                   gc_round, gc_task, proposer_vars, recovery_vars,
                   new_certificates, consensus_vars, restarts>>

try_accept_certificate(c) ==
    /\ published(c)
    /\ c \notin certificate_store
    /\ lock = "free" /\ c \notin suspended
    /\ sanitize_certificate(c)
    /\ not_too_new(c)
    /\ submit([certs |-> {c}, early_suspend |-> TRUE, own |-> FALSE])

\* Only the leaves of a fetch response are sanitized.
try_accept_fetched_certificates(certs) ==
    /\ certs # {}
    /\ \A c \in certs : published(c) /\ not_too_new(c)
    /\ \A c \in certs \ UNION {ParentsOf[d] : d \in certs} :
           sanitize_certificate(c)
    /\ submit([certs |-> certs, early_suspend |-> FALSE, own |-> FALSE])

\* A slip to be caught: a certificate over parents that are not here yet.
accept_own_certificate_unchecked(c) ==
    /\ c \in Own
    /\ c \notin certificate_store
    /\ submit([certs |-> {c}, early_suspend |-> FALSE, own |-> TRUE])

\* The parents of an own certificate come from this primary's aggregators.
accept_own_certificate(c) ==
    /\ c \in Own
    /\ ParentsOf[c] \subseteq certificate_store
    /\ c \notin certificate_store
    /\ submit([certs |-> {c}, early_suspend |-> FALSE, own |-> TRUE])

-----------------------------------------------------------------------------
(***************************************************************************)
(* State: accept_children.  The traversal starts from an accepted          *)
(* certificate, and a waiting child is reached once its last missing       *)
(* parent is: what it reaches is the least set closed under that.          *)
(***************************************************************************)
closed(D) ==
    \A d \in suspended : (\E p \in D : d \in missing[p]) /\ missing_parents[d] \subseteq D
                             => d \in D

reached(c) ==
    {c} \cup {d \in suspended : \A D \in SUBSET suspended : closed({c} \cup D) => d \in D}

accept_children(c) ==
    LET done == reached(c)
        touched == UNION {missing[p] : p \in done}
    IN  /\ suspended' = suspended \ done
        /\ missing' = [p \in Certs |-> IF p \in done THEN {} ELSE missing[p]]
        /\ missing_parents' =
               [d \in Certs |-> IF d \in done THEN {}
                                ELSE IF d \in touched
                                THEN missing_parents[d] \ done
                                ELSE missing_parents[d]]

\* Asserted on the way: every child the traversal meets is suspended.
index_agrees(c) == UNION {missing[p] : p \in reached(c)} \subseteq suspended

\* A slip to be caught: only one of the missing parents is indexed.
insert_one_parent(c, lacking) ==
    /\ suspended' = suspended \cup {c}
    /\ missing_parents' = [missing_parents EXCEPT ![c] = lacking]
    /\ missing' = [missing EXCEPT ![CHOOSE p \in lacking : TRUE] = @ \cup {c}]

\* State: insert.
insert(c, lacking) ==
    /\ suspended' = suspended \cup {c}
    /\ missing_parents' = [missing_parents EXCEPT ![c] = lacking]
    /\ missing' = [p \in Certs |-> IF p \in lacking THEN missing[p] \cup {c}
                                                 ELSE missing[p]]

-----------------------------------------------------------------------------
(***************************************************************************)
(* The acceptor.                                                           *)
(***************************************************************************)
\* Takes a message; certificates already stored are dropped before the lock
\* is taken.
TakeMessage ==
    /\ rx_acceptor # <<>>
    /\ batch.certs = {}
    /\ lock # "acceptor"
    /\ LET message == Head(rx_acceptor)
       IN  batch' = [message EXCEPT !.certs = message.certs \ certificate_store]
    /\ rx_acceptor' = Tail(rx_acceptor)
    /\ UNCHANGED <<certificate_store, state_vars, lock, accepting, gc_round,
                   gc_task, proposer_vars, recovery_vars, new_certificates,
                   consensus_vars, restarts>>

\* A slip to be caught: the state is used without its lock.
LockState_shared ==
    /\ batch.certs # {}
    /\ lock' = "acceptor"
    /\ UNCHANGED <<certificate_store, state_vars, accepting, acceptor_vars,
                   gc_round, gc_task, proposer_vars, recovery_vars,
                   new_certificates, consensus_vars, restarts>>

LockState ==
    /\ batch.certs # {}
    /\ lock = "free"
    /\ lock' = "acceptor"
    /\ UNCHANGED <<certificate_store, state_vars, accepting, acceptor_vars,
                   gc_round, gc_task, proposer_vars, recovery_vars,
                   new_certificates, consensus_vars, restarts>>

get_missing_parents(c) == ParentsOf[c] \ certificate_store

\* A slip to be caught: one round too many passes unchecked.
must_wait_above(c) == RoundOf[c] > gc_round + 2 /\ get_missing_parents(c) # {}

must_wait(c) == RoundOf[c] > gc_round + 1 /\ get_missing_parents(c) # {}

\* What the code asserts on the way, and panics without: an own certificate
\* is not suspended, one suspended again misses the same parents, one to be
\* accepted is not suspended.
checks_pass(c) ==
    \/ batch.early_suspend /\ c \in suspended
    \/ must_wait(c) /\ ~batch.own
       /\ IF c \in suspended
          THEN missing_parents[c] = get_missing_parents(c)
          ELSE \A p \in get_missing_parents(c) : c \notin missing[p]
    \/ ~must_wait(c) /\ c \notin suspended /\ index_agrees(c)

\* A certificate with missing parents above the garbage collected rounds is
\* suspended.  Any other is to be accepted, with the suspended certificates
\* it releases.
process_certificate(c) ==
    /\ lock = "acceptor"
    /\ accepting = {}
    /\ c \in batch.certs
    /\ batch' = [batch EXCEPT !.certs = batch.certs \ {c}]
    /\ checks_pass(c)
    /\ \/ /\ c \in suspended
          /\ UNCHANGED <<state_vars, accepting>>
       \/ /\ c \notin suspended /\ must_wait(c)
          /\ insert(c, get_missing_parents(c))
          /\ UNCHANGED accepting
       \/ /\ c \notin suspended /\ ~must_wait(c)
          /\ accepting' = reached(c)
          /\ accept_children(c)
    /\ UNCHANGED <<certificate_store, lock, rx_acceptor, gc_round, gc_task,
                   proposer_vars, recovery_vars, new_certificates,
                   consensus_vars, restarts>>

UnlockState ==
    /\ lock = "acceptor"
    /\ accepting = {} /\ batch.certs = {}
    /\ lock' = "free"
    /\ UNCHANGED <<certificate_store, state_vars, accepting, acceptor_vars,
                   gc_round, gc_task, proposer_vars, recovery_vars,
                   new_certificates, consensus_vars, restarts>>

-----------------------------------------------------------------------------
(***************************************************************************)
(* Accepting, under the lock: the certificate is stored, counted for the   *)
(* proposer and sent to consensus.                                         *)
(***************************************************************************)
\* The certificates that appending c drains from the aggregator of its round:
\* all of them with the one that completes a quorum, then each on its own.
drained(c) ==
    LET used == aggregators[RoundOf[c]]
        origins(S) == {OriginOf[d] : d \in S}
    IN  IF OriginOf[c] \in origins(used) \/ ~reached_quorum(origins(used \cup {c}))
        THEN {}
        ELSE IF reached_quorum(origins(used)) THEN {c} ELSE used \cup {c}

append_certificate_in_aggregator(c) ==
    aggregators' = [aggregators EXCEPT ![RoundOf[c]] =
                        IF OriginOf[c] \in {OriginOf[d] : d \in @} THEN @ ELSE @ \cup {c}]

send_parents(S) == parents' = [r \in Rounds |-> parents[r] \cup of_round(S, r)]

\* Asserted again before the certificate is written.
parents_found(c) ==
    RoundOf[c] > gc_round + 1 => ParentsOf[c] \subseteq certificate_store

accept_certificate_internal(c) ==
    /\ lock # "free"
    /\ c \in lowest(accepting)
    /\ Len(new_certificates) < ConsensusCapacity
    /\ accepting' = accepting \ {c}
    /\ parents_found(c)
    /\ certificate_store' = certificate_store \cup {c}
    /\ append_certificate_in_aggregator(c)
    /\ send_parents(drained(c))
    /\ new_certificates' = Append(new_certificates, c)
    /\ UNCHANGED <<state_vars, lock, acceptor_vars, gc_round, gc_task,
                   recovery_vars, consensus_vars, restarts>>

-----------------------------------------------------------------------------
(***************************************************************************)
(* Garbage collection.  The new round is visible to the acceptor before    *)
(* the lock is taken and the suspended certificates are released.          *)
(***************************************************************************)
StoreGcRound ==
    /\ gc_task = "waiting"
    /\ consensus_gc > gc_round
    /\ gc_round' = consensus_gc
    /\ aggregators' = [r \in Rounds |-> IF r > consensus_gc THEN aggregators[r] ELSE {}]
    /\ gc_task' = "locking"
    /\ UNCHANGED <<certificate_store, state_vars, lock, accepting,
                   acceptor_vars, parents, recovery_vars, new_certificates,
                   consensus_vars, restarts>>

LockForGc ==
    /\ gc_task = "locking"
    /\ lock = "free"
    /\ lock' = "gc"
    /\ gc_task' = "releasing"
    /\ UNCHANGED <<certificate_store, state_vars, accepting, acceptor_vars,
                   gc_round, proposer_vars, recovery_vars, new_certificates,
                   consensus_vars, restarts>>

awaited == {p \in Certs : missing[p] # {}}

\* A slip to be caught: the garbage collected round itself is left.
collectable_below == {p \in lowest(awaited) : RoundOf[p] < gc_round}

collectable == {p \in lowest(awaited) : RoundOf[p] <= gc_round}

\* The first missing certificate at or below gc_round: it is accepted if it
\* is itself suspended, and so are the certificates it releases.
run_gc_once(p) ==
    /\ gc_task = "releasing"
    /\ accepting = {}
    /\ p \in collectable
    /\ index_agrees(p)
    /\ accepting' = reached(p) \cap suspended
    /\ accept_children(p)
    /\ UNCHANGED <<certificate_store, lock, acceptor_vars, gc_round, gc_task,
                   proposer_vars, recovery_vars, new_certificates,
                   consensus_vars, restarts>>

UnlockAfterGc ==
    /\ gc_task = "releasing"
    /\ accepting = {} /\ collectable = {}
    /\ lock' = "free"
    /\ gc_task' = "waiting"
    /\ UNCHANGED <<certificate_store, state_vars, accepting, acceptor_vars,
                   gc_round, proposer_vars, recovery_vars, new_certificates,
                   consensus_vars, restarts>>

-----------------------------------------------------------------------------
(***************************************************************************)
(* Consensus inserts what it receives in its DAG, and commits.  A commit   *)
(* of round r is on disk before anyone hears of it, and lets go of the     *)
(* rounds up to r - GcDepth.  Leaders are of even rounds and commit with   *)
(* f + 1 of the next; which authority leads is not modelled here.          *)
(***************************************************************************)
\* check_parents: panics unless the parents are in the DAG.
dag_has_parents(c) ==
    RoundOf[c] > consensus_gc + 1 => ParentsOf[c] \subseteq dag

ConsensusInsert ==
    /\ new_certificates # <<>>
    /\ LET c == Head(new_certificates)
       IN  \/ /\ RoundOf[c] <= consensus_gc
              /\ UNCHANGED dag
           \/ /\ RoundOf[c] > consensus_gc
              /\ dag_has_parents(c)
              /\ dag' = dag \cup {c}
    /\ new_certificates' = Tail(new_certificates)
    /\ UNCHANGED <<certificate_store, state_vars, lock, accepting,
                   acceptor_vars, gc_round, gc_task, proposer_vars,
                   recovery_vars, consensus_gc, restarts>>

Commit(c) ==
    /\ c \in dag
    /\ RoundOf[c] % 2 = 0
    /\ reached_validity({OriginOf[d] : d \in {e \in dag : c \in ParentsOf[e]}})
    /\ RoundOf[c] > consensus_gc + GcDepth
    /\ consensus_gc' = RoundOf[c] - GcDepth
    /\ dag' = {d \in dag : RoundOf[d] > consensus_gc'}
    /\ UNCHANGED <<certificate_store, state_vars, lock, accepting,
                   acceptor_vars, gc_round, gc_task, proposer_vars,
                   recovery_vars, new_certificates, restarts>>

-----------------------------------------------------------------------------
(***************************************************************************)
(* A restart loses everything that is not on disk.  Consensus rebuilds its *)
(* DAG from the store, and the recovery task hands the certificates of the *)
(* last two rounds to the aggregators, beside the acceptor.                *)
(***************************************************************************)
last_two_rounds_certs ==
    {c \in certificate_store : \A d \in certificate_store : RoundOf[c] >= RoundOf[d] - 1}

\* A slip to be caught: consensus starts from an empty DAG.
construct_dag_from_nothing == {}

construct_dag_from_cert_store ==
    {c \in certificate_store : RoundOf[c] > consensus_gc}

Restart ==
    /\ restarts < MaxRestarts
    /\ restarts' = restarts + 1
    /\ suspended' = {}
    /\ missing_parents' = [c \in Certs |-> {}]
    /\ missing' = [c \in Certs |-> {}]
    /\ lock' = "free"
    /\ accepting' = {}
    /\ rx_acceptor' = <<>>
    /\ batch' = Idle
    /\ gc_round' = consensus_gc
    /\ gc_task' = "waiting"
    /\ aggregators' = [r \in Rounds |-> {}]
    /\ parents' = [r \in Rounds |-> {}]
    /\ recovering' = last_two_rounds_certs
    /\ recovered' = {}
    /\ new_certificates' = <<>>
    /\ dag' = construct_dag_from_cert_store
    /\ UNCHANGED <<certificate_store, consensus_gc>>

\* A slip to be caught: what appending drains is not sent.
RecoverCertificate_unsent(c) ==
    /\ recovered = {}
    /\ c \in recovering
    /\ \A d \in recovering : RoundOf[d] <= RoundOf[c]
    /\ recovering' = recovering \ {c}
    /\ append_certificate_in_aggregator(c)
    /\ UNCHANGED <<certificate_store, state_vars, lock, accepting,
                   acceptor_vars, gc_round, gc_task, parents, recovered,
                   new_certificates, consensus_vars, restarts>>

\* From the highest round down; what appending drains is sent afterwards.
RecoverCertificate(c) ==
    /\ recovered = {}
    /\ c \in recovering
    /\ \A d \in recovering : RoundOf[d] <= RoundOf[c]
    /\ recovering' = recovering \ {c}
    /\ append_certificate_in_aggregator(c)
    /\ recovered' = drained(c)
    /\ UNCHANGED <<certificate_store, state_vars, lock, accepting,
                   acceptor_vars, gc_round, gc_task, parents,
                   new_certificates, consensus_vars, restarts>>

SendRecovered ==
    /\ recovered # {}
    /\ send_parents(recovered)
    /\ recovered' = {}
    /\ UNCHANGED <<certificate_store, state_vars, lock, accepting,
                   acceptor_vars, gc_round, gc_task, aggregators, recovering,
                   new_certificates, consensus_vars, restarts>>

-----------------------------------------------------------------------------
Receive(c) ==
    \/ try_accept_certificate(c)
    \/ accept_own_certificate(c)

FetchResponse ==
    \E certs \in SUBSET Certs :
        Cardinality(certs) <= BatchSize /\ try_accept_fetched_certificates(certs)

ProcessBatch ==
    \/ \E c \in Certs : process_certificate(c)
    \/ UnlockState

ReleaseCollected ==
    \/ LockForGc
    \/ \E p \in Certs : run_gc_once(p)
    \/ UnlockAfterGc

Recovery ==
    \/ \E c \in Certs : RecoverCertificate(c)
    \/ SendRecovered

\* What does not depend on how a new garbage collection round is stored.
OtherSteps ==
    \/ \E c \in Certs : Receive(c)
    \/ FetchResponse
    \/ TakeMessage
    \/ ProcessBatch
    \/ \E c \in Certs : accept_certificate_internal(c)
    \/ ReleaseCollected
    \/ Recovery
    \/ ConsensusInsert
    \/ \E c \in Certs : Commit(c)
    \/ Restart

Next ==
    \/ OtherSteps
    \/ LockState
    \/ StoreGcRound

Spec == Init /\ [][Next]_vars

\* A new garbage collection round is stored and applied under one hold of the
\* lock; the code stores it first.
LockBetweenGc == gc_task # "locking" /\ LockState

StoreGcBetweenBatches == lock # "acceptor" /\ StoreGcRound

AtomicGcNext ==
    \/ OtherSteps
    \/ LockBetweenGc
    \/ StoreGcBetweenBatches

AtomicGcSpec == Init /\ [][AtomicGcNext]_vars

\* The tasks run, consensus drains its channel, and the certificate fetcher
\* asks for missing certificates until it has them: some response brings one
\* that is not here yet.
FetchMissing ==
    \E certs \in SUBSET Certs :
        /\ certs \cap (awaited \ suspended) # {}
        /\ Cardinality(certs) <= BatchSize
        /\ try_accept_fetched_certificates(certs)

LiveSpec ==
    /\ AtomicGcSpec
    /\ WF_vars(TakeMessage \/ LockBetweenGc \/ ProcessBatch)
    /\ WF_vars(\E c \in Certs : accept_certificate_internal(c))
    /\ WF_vars(StoreGcBetweenBatches \/ ReleaseCollected)
    /\ WF_vars(ConsensusInsert)
    /\ SF_vars(FetchMissing)

-----------------------------------------------------------------------------
(***************************************************************************)
(* Properties.                                                             *)
(***************************************************************************)
\* The mutex of State has one holder, and what is being accepted is its.
TypeOK ==
    /\ certificate_store \subseteq Certs
    /\ suspended \subseteq Certs
    /\ missing_parents \in [Certs -> SUBSET Certs]
    /\ missing \in [Certs -> SUBSET Certs]
    /\ lock \in {"free", "acceptor", "gc"}
    /\ accepting \subseteq Certs
    /\ rx_acceptor \in Seq(Messages)
    /\ batch \in Messages
    /\ gc_round \in Nat /\ consensus_gc \in Nat /\ restarts \in Nat
    /\ gc_task \in {"waiting", "locking", "releasing"}
    /\ gc_task = "releasing" <=> lock = "gc"
    /\ lock = "free" => accepting = {}
    /\ aggregators \in [Rounds -> SUBSET Certs]
    /\ parents \in [Rounds -> SUBSET Certs]
    /\ recovering \subseteq Certs
    /\ recovered \subseteq Certs
    /\ new_certificates \in Seq(Certs)
    /\ dag \subseteq Certs

\* The assertions of process_certificates_with_lock, State::insert and
\* State::accept_children hold whatever certificate is processed next.
AcceptorNeverPanics ==
    /\ lock = "acceptor" /\ accepting = {} => \A c \in batch.certs : checks_pass(c)
    /\ lock = "gc" /\ accepting = {} => \A p \in collectable : index_agrees(p)

\* "Validate that certificates are accepted in causal order": the store has
\* the parents of every certificate it has, and of the one to be written
\* next, except below the garbage collected rounds - after any restart too.
CausalHistory ==
    \A c \in certificate_store \cup lowest(accepting) : parents_found(c)

\* Consensus finds in its DAG the parents of whatever it receives next:
\* check_parents does not panic, though the DAG has been rebuilt from the
\* store and pruned by commits the synchronizer has not heard of.
ConsensusFindsParents ==
    new_certificates # <<>> =>
        LET c == Head(new_certificates)
        IN  RoundOf[c] > consensus_gc => dag_has_parents(c)

\* A suspended certificate waits for exactly the parents that are not stored,
\* there is one, and each of them knows who waits for it: nothing is left
\* suspended that no certificate will release.
NoneForgotten ==
    lock = "free" =>
        /\ \A c \in suspended : /\ missing_parents[c] = ParentsOf[c] \ certificate_store
                                /\ missing_parents[c] # {}
        /\ \A p \in Certs : missing[p] = {c \in suspended : p \in missing_parents[c]}

\* Once garbage collection has run, nothing at or below gc_round + 1 is left
\* suspended: its parents will never be accepted.
CollectedAreReleased ==
    gc_task = "waiting" => \A c \in suspended : RoundOf[c] > gc_round + 1

\* What the proposer has been given of a round is a quorum.
is_quorum(r) == reached_quorum({OriginOf[c] : c \in parents[r]})

\* Only the recovery task leaves the proposer short: unless it has drained
\* parents of a round that it has yet to send, those the proposer was given are
\* a quorum - after any restart, whatever the acceptor and recovery append to
\* the aggregators in turn.
ParentsAreQuorum ==
    \A r \in Rounds : parents[r] # {} /\ of_round(recovered, r) = {} => is_quorum(r)

\* "The core gives us the parents the first time they are enough to form a
\* quorum. Then it keeps giving us all the extra parents", says the proposer,
\* which proposes on any: whatever parents of a round it has, they are a quorum.
FirstParentsAreQuorum == \A r \in Rounds : parents[r] # {} => is_quorum(r)

\* Suspended certificates are accepted in the end: their missing ancestors are
\* fetched and released in turn, or are garbage collected.
SuspendedAreAccepted == []<>(suspended \subseteq certificate_store)
=============================================================================
