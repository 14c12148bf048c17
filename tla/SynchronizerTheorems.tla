------------------------ MODULE SynchronizerTheorems ------------------------
(***************************************************************************)
(* Proofs about Synchronizer, for every committee, DAG, depth of garbage   *)
(* collection and number of restarts.                                      *)
(***************************************************************************)
EXTENDS Synchronizer, CommitteeTheorems, SequenceTheorems

\* A round of which the parents are kept.
kept(c) == RoundOf[c] > gc_round + 1

\* Causal history, of what is stored, about to be stored, and waiting: the
\* parents are stored, about to be, or known to be missing.
Ordered ==
    /\ gc_round <= consensus_gc
    /\ \A c \in certificate_store : kept(c) => ParentsOf[c] \subseteq certificate_store
    /\ \A c \in accepting : kept(c) => ParentsOf[c] \subseteq certificate_store \cup accepting
    /\ \A c \in suspended :
           kept(c) => ParentsOf[c] \subseteq certificate_store \cup accepting \cup missing_parents[c]

\* What is stored and not collected is in the DAG of consensus or on its way
\* there, and no certificate is on its way before its parents.
Fed ==
    /\ \A c \in certificate_store :
           RoundOf[c] > consensus_gc =>
               c \in dag \/ \E i \in 1..Len(new_certificates) : new_certificates[i] = c
    /\ \A i \in 1..Len(new_certificates) :
           RoundOf[new_certificates[i]] > consensus_gc + 1 =>
               \A p \in ParentsOf[new_certificates[i]] :
                   p \in dag \/ \E j \in 1..(i - 1) : new_certificates[j] = p

HistoryInv == TypeOK /\ Ordered /\ Fed

\* The index agrees with the suspended certificates, and each of them misses
\* what is neither stored nor about to be; what garbage collection let go of
\* is at or below its round.
Indexed ==
    /\ \A p \in Certs : missing[p] = {c \in suspended : p \in missing_parents[c]}
    /\ \A c \in suspended :
           /\ missing_parents[c] # {}
           /\ missing_parents[c] \subseteq ParentsOf[c] \ (certificate_store \cup accepting)
           /\ \A p \in ParentsOf[c] \ (certificate_store \cup accepting \cup missing_parents[c]) :
                  lock = "gc" /\ RoundOf[p] <= gc_round

\* The own certificates on their way to the acceptor have their parents stored.
OwnReady ==
    /\ batch.own => \A c \in batch.certs : ParentsOf[c] \subseteq certificate_store
    /\ \A i \in 1..Len(rx_acceptor) :
           rx_acceptor[i].own => \A c \in rx_acceptor[i].certs : ParentsOf[c] \subseteq certificate_store

\* The acceptor works between two rounds of garbage collection, which leave
\* nothing they collected suspended.
Exclusive ==
    /\ lock = "acceptor" => gc_task = "waiting"
    /\ gc_task = "waiting" => \A c \in suspended : kept(c)

AcceptorInv == TypeOK /\ Indexed /\ Exclusive /\ OwnReady

\* The parents of a round the proposer has been given, with those recovery is about
\* to send: they are a quorum or none, and if the aggregator of the round has a
\* quorum they are one.
given(r) == parents[r] \cup of_round(recovered, r)

GivenAreQuorum ==
    \A r \in Rounds : given(r) # {} => reached_quorum({OriginOf[c] : c \in given(r)})

Aggregated ==
    \A r \in Rounds :
        /\ \A c \in aggregators[r] : RoundOf[c] = r
        /\ reached_quorum({OriginOf[c] : c \in aggregators[r]}) =>
               reached_quorum({OriginOf[c] : c \in given(r)})

AggregatorInv == TypeOK /\ Aggregated /\ GivenAreQuorum

-----------------------------------------------------------------------------
(***************************************************************************)
(* The traversal of accept_children.                                       *)
(***************************************************************************)

LEMMA RoundsType ==
    ASSUME NEW c \in Certs
    PROVE  /\ RoundOf[c] \in Nat \ {0} /\ RoundOf[c] \in Rounds /\ Rounds \subseteq Nat
           /\ OriginOf[c] \in Authorities
           /\ ParentsOf[c] \subseteq Certs
           /\ \A p \in ParentsOf[c] : RoundOf[p] \in Nat /\ RoundOf[c] = RoundOf[p] + 1
BY DagAssumption, Zenon DEF Rounds

LEMMA ReachedSuspended ==
    ASSUME NEW c
    PROVE  c \in reached(c) /\ \A d \in reached(c) : d = c \/ d \in suspended
BY Zenon DEF reached

\* What is reached is closed: a waiting child of it that misses nothing else is
\* reached too.
LEMMA ReachedClosed ==
    ASSUME NEW c
    PROVE  closed(reached(c))
<1> SUFFICES ASSUME NEW d \in suspended, NEW p \in reached(c), d \in missing[p],
                    missing_parents[d] \subseteq reached(c)
             PROVE  d \in reached(c)
    BY Zenon DEF closed
<1>1. ASSUME NEW D \in SUBSET suspended, closed({c} \cup D), d # c
      PROVE  d \in D
    <2>1. reached(c) \subseteq {c} \cup D
        BY <1>1, Zenon DEF reached
    <2>2. p \in {c} \cup D /\ missing_parents[d] \subseteq {c} \cup D
        BY <2>1, Zenon
    <2>3. d \in {c} \cup D
        BY <1>1, <2>2, Zenon DEF closed
    <2> QED
        BY <1>1, <2>3, Zenon
<1> QED
    BY <1>1, Zenon DEF reached

\* And it is the least such set: whatever is reached misses nothing else.
LEMMA ReachedLeast ==
    ASSUME NEW c, NEW d \in reached(c), d # c
    PROVE  missing_parents[d] \subseteq reached(c)
<1> DEFINE D == {e \in suspended : e \in reached(c) /\ missing_parents[e] \subseteq reached(c)}
<1>1. {c} \cup D \subseteq reached(c)
    BY ReachedSuspended, Zenon
<1>2. closed({c} \cup D)
    <2> SUFFICES ASSUME NEW e \in suspended, NEW p \in {c} \cup D, e \in missing[p],
                        missing_parents[e] \subseteq {c} \cup D
                 PROVE  e \in {c} \cup D
        BY Zenon DEF closed
    <2>1. missing_parents[e] \subseteq reached(c) /\ p \in reached(c)
        BY <1>1, Zenon
    <2>2. e \in reached(c)
        BY <2>1, ReachedClosed, Zenon DEF closed
    <2> QED
        BY <2>1, <2>2, Zenon
<1>3. D \in SUBSET suspended
    BY Zenon
<1>4. d \in D
    BY <1>2, <1>3, Zenon DEF reached
<1> QED
    BY <1>4, Zenon

LEMMA ChildrenType ==
    ASSUME TypeOK, NEW c \in Certs, accept_children(c)
    PROVE  /\ suspended' \subseteq Certs
           /\ missing_parents' \in [Certs -> SUBSET Certs]
           /\ missing' \in [Certs -> SUBSET Certs]
           /\ reached(c) \subseteq Certs
<1>1. /\ suspended \subseteq Certs
      /\ missing_parents \in [Certs -> SUBSET Certs]
      /\ missing \in [Certs -> SUBSET Certs]
    BY Zenon DEF TypeOK
<1>2. reached(c) \subseteq Certs
    BY <1>1, ReachedSuspended, Zenon
<1> DEFINE done == reached(c)
           touched == UNION {missing[p] : p \in done}
<1>3. /\ suspended' = suspended \ done
      /\ missing' = [p \in Certs |-> IF p \in done THEN {} ELSE missing[p]]
      /\ missing_parents' = [d \in Certs |-> IF d \in done THEN {}
                                ELSE IF d \in touched THEN missing_parents[d] \ done
                                ELSE missing_parents[d]]
    BY Zenon DEF accept_children
<1> HIDE DEF done, touched
<1> QED
    BY <1>1, <1>2, <1>3, Zenon DEF done

-----------------------------------------------------------------------------
(***************************************************************************)
(* Types.                                                                  *)
(***************************************************************************)

LEMMA InitType == Init => TypeOK
BY EmptySeq DEF Init, TypeOK, Messages, Idle

LEMMA SubmitType ==
    ASSUME TypeOK, NEW m \in Messages, submit(m)
    PROVE  TypeOK'
BY DEF TypeOK, submit, state_vars, proposer_vars, recovery_vars, consensus_vars

LEMMA ReceiveType ==
    ASSUME TypeOK, (\E c \in Certs : Receive(c)) \/ FetchResponse
    PROVE  TypeOK'
<1>1. ASSUME NEW certs \in SUBSET Certs, NEW b \in BOOLEAN, NEW o \in BOOLEAN
      PROVE  [certs |-> certs, early_suspend |-> b, own |-> o] \in Messages
    BY Zenon DEF Messages
<1>2. \E certs \in SUBSET Certs, b \in BOOLEAN, o \in BOOLEAN :
          submit([certs |-> certs, early_suspend |-> b, own |-> o])
    BY Zenon DEF Receive, FetchResponse, try_accept_certificate, accept_own_certificate,
           try_accept_fetched_certificates
<1> QED
    BY <1>1, <1>2, SubmitType, Zenon

LEMMA AcceptorType ==
    ASSUME TypeOK, \/ TakeMessage \/ LockState \/ ProcessBatch
    PROVE  TypeOK'
<1> USE DEF state_vars, acceptor_vars, proposer_vars, recovery_vars, consensus_vars
<1>1. CASE TakeMessage
    <2>1. Head(rx_acceptor) \in Messages /\ rx_acceptor' \in Seq(Messages)
        BY <1>1, HeadTailProperties, Zenon DEF TakeMessage, TypeOK
    <2>2. batch' \in Messages
        BY <1>1, <2>1, Zenon DEF TakeMessage, TypeOK, Messages
    <2> QED
        BY <1>1, <2>1, <2>2, Zenon DEF TakeMessage, TypeOK
<1>2. CASE LockState
    BY <1>2, Zenon DEF LockState, TypeOK
<1>3. CASE UnlockState
    BY <1>3, Zenon DEF UnlockState, TypeOK
<1>4. ASSUME NEW c \in Certs, process_certificate(c)
      PROVE  TypeOK'
    <2>1. batch' \in Messages
        BY <1>4, Zenon DEF process_certificate, TypeOK, Messages
    <2>2. /\ suspended' \subseteq Certs /\ accepting' \subseteq Certs
          /\ missing_parents' \in [Certs -> SUBSET Certs]
          /\ missing' \in [Certs -> SUBSET Certs]
        <3>1. CASE UNCHANGED <<state_vars, accepting>>
            BY <3>1, Zenon DEF TypeOK
        <3>2. CASE insert(c, get_missing_parents(c)) /\ UNCHANGED accepting
            BY <3>2, RoundsType, Zenon DEF TypeOK, insert, get_missing_parents
        <3>3. CASE accepting' = reached(c) /\ accept_children(c)
            BY <3>3, ChildrenType, Zenon
        <3> QED
            BY <1>4, <3>1, <3>2, <3>3, Zenon DEF process_certificate
    <2>3. /\ lock = "acceptor"
          /\ UNCHANGED <<certificate_store, lock, rx_acceptor, gc_round, gc_task,
                         proposer_vars, recovery_vars, new_certificates, consensus_vars, restarts>>
        BY <1>4, Zenon DEF process_certificate
    <2> QED
        BY <2>1, <2>2, <2>3, Zenon DEF TypeOK
<1> QED
    BY <1>1, <1>2, <1>3, <1>4, Zenon DEF ProcessBatch

LEMMA AggregatorType ==
    ASSUME TypeOK, NEW c \in Certs, append_certificate_in_aggregator(c)
    PROVE  aggregators' \in [Rounds -> SUBSET Certs] /\ drained(c) \subseteq Certs
<1>1. aggregators[RoundOf[c]] \subseteq Certs
    BY RoundsType, Zenon DEF TypeOK
<1>2. aggregators' \in [Rounds -> SUBSET Certs]
    BY <1>1, RoundsType DEF TypeOK, append_certificate_in_aggregator
<1>3. drained(c) \subseteq Certs
    BY <1>1, Zenon DEF drained
<1> QED
    BY <1>2, <1>3, Zenon

LEMMA ParentsType ==
    ASSUME TypeOK, NEW S \in SUBSET Certs, send_parents(S)
    PROVE  parents' \in [Rounds -> SUBSET Certs]
BY Zenon DEF TypeOK, send_parents, of_round

LEMMA AcceptType ==
    ASSUME TypeOK, NEW c \in Certs, accept_certificate_internal(c)
    PROVE  TypeOK'
<1> USE DEF state_vars, acceptor_vars, recovery_vars, consensus_vars
<1>1. aggregators' \in [Rounds -> SUBSET Certs] /\ parents' \in [Rounds -> SUBSET Certs]
    BY AggregatorType, ParentsType, Zenon DEF accept_certificate_internal
<1>2. new_certificates' \in Seq(Certs)
    BY AppendProperties, Zenon DEF accept_certificate_internal, TypeOK
<1>3. /\ lock # "free" /\ accepting' = accepting \ {c}
      /\ certificate_store' = certificate_store \cup {c}
      /\ UNCHANGED <<state_vars, lock, acceptor_vars, gc_round, gc_task,
                     recovery_vars, consensus_vars, restarts>>
    BY Zenon DEF accept_certificate_internal
<1> QED
    BY <1>1, <1>2, <1>3, Zenon DEF TypeOK

LEMMA CollectType ==
    ASSUME TypeOK, \/ StoreGcRound \/ ReleaseCollected
    PROVE  TypeOK'
<1> USE DEF state_vars, acceptor_vars, proposer_vars, recovery_vars, consensus_vars
<1>1. CASE StoreGcRound
    <2>1. aggregators' \in [Rounds -> SUBSET Certs]
        BY <1>1, Zenon DEF StoreGcRound, TypeOK
    <2> QED
        BY <1>1, <2>1, Zenon DEF StoreGcRound, TypeOK
<1>2. CASE LockForGc
    BY <1>2, Zenon DEF LockForGc, TypeOK
<1>3. CASE UnlockAfterGc
    BY <1>3, Zenon DEF UnlockAfterGc, TypeOK
<1>4. ASSUME NEW p \in Certs, run_gc_once(p)
      PROVE  TypeOK'
    <2>1. /\ suspended' \subseteq Certs
          /\ missing_parents' \in [Certs -> SUBSET Certs]
          /\ missing' \in [Certs -> SUBSET Certs]
        BY <1>4, ChildrenType, Zenon DEF run_gc_once
    <2>2. /\ gc_task = "releasing" /\ accepting' = reached(p) \cap suspended
          /\ UNCHANGED <<certificate_store, lock, acceptor_vars, gc_round, gc_task,
                         proposer_vars, recovery_vars, new_certificates, consensus_vars, restarts>>
        BY <1>4, Zenon DEF run_gc_once
    <2> QED
        BY <2>1, <2>2, Zenon DEF TypeOK
<1> QED
    BY <1>1, <1>2, <1>3, <1>4, Zenon DEF ReleaseCollected

LEMMA ConsensusType ==
    ASSUME TypeOK, \/ ConsensusInsert \/ \E c \in Certs : Commit(c)
    PROVE  TypeOK'
<1> USE DEF state_vars, acceptor_vars, proposer_vars, recovery_vars, consensus_vars
<1>1. CASE ConsensusInsert
    <2>1. Head(new_certificates) \in Certs /\ new_certificates' \in Seq(Certs)
        BY <1>1, HeadTailProperties, Zenon DEF ConsensusInsert, TypeOK
    <2>2. dag' \subseteq Certs
        BY <1>1, <2>1, Zenon DEF ConsensusInsert, TypeOK
    <2> QED
        BY <1>1, <2>1, <2>2, Zenon DEF ConsensusInsert, TypeOK
<1>2. ASSUME NEW c \in Certs, Commit(c)
      PROVE  TypeOK'
    <2>1. consensus_gc' \in Nat
        BY <1>2, RoundsType, BoundAssumption DEF Commit, TypeOK
    <2>2. dag' \subseteq Certs
        BY <1>2, Zenon DEF Commit, TypeOK
    <2> QED
        BY <1>2, <2>1, <2>2, Zenon DEF Commit, TypeOK
<1> QED
    BY <1>1, <1>2, Zenon

LEMMA RestartType ==
    ASSUME TypeOK, \/ Restart \/ Recovery
    PROVE  TypeOK'
<1> USE DEF state_vars, acceptor_vars, proposer_vars, recovery_vars, consensus_vars
<1>1. CASE Restart
    <2>1. /\ rx_acceptor' \in Seq(Messages) /\ new_certificates' \in Seq(Certs)
          /\ batch' \in Messages
        BY <1>1, EmptySeq, Zenon DEF Restart, Messages, Idle
    <2> QED
        BY <1>1, <2>1 DEF Restart, TypeOK, last_two_rounds_certs, construct_dag_from_cert_store
<1>2. ASSUME NEW c \in Certs, RecoverCertificate(c)
      PROVE  TypeOK'
    <2>1. aggregators' \in [Rounds -> SUBSET Certs] /\ recovered' \subseteq Certs
        BY <1>2, AggregatorType, Zenon DEF RecoverCertificate
    <2> QED
        BY <1>2, <2>1, Zenon DEF RecoverCertificate, TypeOK
<1>3. CASE SendRecovered
    <2>1. parents' \in [Rounds -> SUBSET Certs]
        BY <1>3, ParentsType, Zenon DEF SendRecovered, TypeOK
    <2> QED
        BY <1>3, <2>1, Zenon DEF SendRecovered, TypeOK
<1> QED
    BY <1>1, <1>2, <1>3, Zenon DEF Recovery

LEMMA NextType == TypeOK /\ [Next]_vars => TypeOK'
<1> SUFFICES ASSUME TypeOK, [Next]_vars PROVE TypeOK'
    BY Zenon
<1>1. CASE UNCHANGED vars
    BY <1>1, Zenon DEF vars, TypeOK, state_vars, acceptor_vars, proposer_vars, recovery_vars,
                consensus_vars
<1>2. CASE Next
    BY <1>2, ReceiveType, AcceptorType, AcceptType, CollectType, ConsensusType, RestartType, Zenon
       DEF Next, OtherSteps
<1> QED
    BY <1>1, <1>2, Zenon

\* Every variable keeps its type, and the mutex of State its one holder.
THEOREM TypeCorrect == Spec => []TypeOK
<1>1. Init => TypeOK
    BY InitType, Zenon
<1>2. TypeOK /\ [Next]_vars => TypeOK'
    BY NextType, Zenon
<1> QED
    BY <1>1, <1>2, PTL DEF Spec

-----------------------------------------------------------------------------
(***************************************************************************)
(* Causal history.                                                         *)
(***************************************************************************)

LEMMA InitHistory == Init => HistoryInv
<1> SUFFICES ASSUME Init PROVE HistoryInv
    BY Zenon
<1>1. TypeOK
    BY InitType, Zenon
<1>2. Ordered
    BY DEF Init, Ordered
<1>3. Fed
    <2>1. Len(new_certificates) = 0 /\ certificate_store = {}
        BY EmptySeq, Zenon DEF Init
    <2> QED
        BY <2>1 DEF Fed
<1> QED
    BY <1>1, <1>2, <1>3, Zenon DEF HistoryInv

ordered_vars ==
    <<certificate_store, accepting, suspended, missing_parents, gc_round, consensus_gc>>

LEMMA SameOrdered ==
    ASSUME Ordered, UNCHANGED ordered_vars
    PROVE  Ordered'
BY Zenon DEF Ordered, ordered_vars, kept

\* A certificate to be accepted takes with it what waits for nothing else.
LEMMA ProcessOrdered ==
    ASSUME TypeOK, Ordered, NEW c \in Certs, process_certificate(c)
    PROVE  Ordered'
<1> USE DEF Ordered
<1>1. /\ UNCHANGED <<certificate_store, gc_round, consensus_gc>> /\ accepting = {}
      /\ \A d \in Certs : kept(d)' <=> kept(d)
    BY Zenon DEF process_certificate, consensus_vars, kept
<1>2. CASE UNCHANGED <<state_vars, accepting>>
    BY <1>1, <1>2, SameOrdered, Zenon DEF ordered_vars, state_vars
<1>3. CASE insert(c, get_missing_parents(c)) /\ UNCHANGED accepting
    <2>1. \A d \in suspended' :
              missing_parents'[d] = IF d = c THEN ParentsOf[c] \ certificate_store
                                    ELSE missing_parents[d]
        BY <1>3, Zenon DEF insert, get_missing_parents, TypeOK
    <2>2. suspended' = suspended \cup {c} /\ suspended \subseteq Certs
        BY <1>3, Zenon DEF insert, TypeOK
    <2>3. ASSUME NEW d \in suspended', kept(d)'
          PROVE  ParentsOf[d] \subseteq (certificate_store \cup accepting \cup missing_parents[d])'
        BY <1>1, <1>3, <2>1, <2>2, <2>3, Zenon
    <2> QED
        BY <1>1, <1>3, <2>3, Zenon DEF TypeOK
<1>4. CASE ~must_wait(c) /\ accepting' = reached(c) /\ accept_children(c)
    <2> DEFINE done == reached(c)
    <2>1. done \subseteq Certs /\ suspended \subseteq Certs /\ suspended' = suspended \ done
        BY <1>4, ChildrenType, Zenon DEF accept_children, TypeOK
    <2>2. \A d \in suspended' : missing_parents[d] \subseteq missing_parents'[d] \cup done
        BY <1>4, <2>1, Zenon DEF accept_children
    <2>3. ASSUME NEW d \in done, kept(d)
          PROVE  ParentsOf[d] \subseteq certificate_store \cup done
        <3>1. CASE d = c
            BY <1>4, <2>3, <3>1, Zenon DEF must_wait, kept, get_missing_parents
        <3>2. CASE d # c
            BY <1>1, <2>3, <3>2, ReachedLeast, ReachedSuspended, Zenon
        <3> QED
            BY <3>1, <3>2, Zenon
    <2>4. ASSUME NEW d \in suspended', kept(d)
          PROVE  ParentsOf[d] \subseteq certificate_store \cup done \cup missing_parents'[d]
        BY <1>1, <2>1, <2>2, <2>4, Zenon
    <2> HIDE DEF done
    <2> QED
        BY <1>1, <1>4, <2>1, <2>3, <2>4, Zenon DEF TypeOK, done
<1> QED
    BY <1>2, <1>3, <1>4, Zenon DEF process_certificate

\* Garbage collection lets go of parents that nothing kept needs.
LEMMA CollectOrdered ==
    ASSUME TypeOK, Ordered, NEW p \in Certs, run_gc_once(p)
    PROVE  Ordered'
<1> USE DEF Ordered
<1> DEFINE done == reached(p)
<1>1. /\ UNCHANGED <<certificate_store, gc_round, consensus_gc>> /\ accepting = {}
      /\ \A d \in Certs : kept(d)' <=> kept(d)
      /\ accepting' = done \cap suspended /\ accept_children(p) /\ RoundOf[p] <= gc_round
    BY Zenon DEF run_gc_once, consensus_vars, kept, collectable
<1>2. done \subseteq Certs /\ suspended \subseteq Certs /\ suspended' = suspended \ done
    BY <1>1, ChildrenType, Zenon DEF accept_children, TypeOK
<1>3. \A d \in suspended' : missing_parents[d] \subseteq missing_parents'[d] \cup done
    BY <1>1, <1>2, Zenon DEF accept_children
<1>4. ASSUME NEW d \in Certs, kept(d)
      PROVE  d # p /\ p \notin ParentsOf[d]
    BY <1>1, <1>4, RoundsType DEF kept, TypeOK
<1>5. \A d \in done : d = p \/ d \in suspended
    BY ReachedSuspended, Zenon
<1>6. ASSUME NEW d \in accepting', kept(d)
      PROVE  ParentsOf[d] \subseteq certificate_store \cup accepting'
    <2>1. d \in suspended /\ d \in done /\ d # p /\ p \notin ParentsOf[d]
        BY <1>1, <1>2, <1>4, <1>6, Zenon
    <2>2. missing_parents[d] \subseteq done
        BY <2>1, ReachedLeast, Zenon
    <2> QED
        BY <1>1, <1>2, <1>5, <1>6, <2>1, <2>2, Zenon
<1>7. ASSUME NEW d \in suspended', kept(d)
      PROVE  ParentsOf[d] \subseteq certificate_store \cup accepting' \cup missing_parents'[d]
    <2>1. d \in suspended /\ p \notin ParentsOf[d] /\ d \in Certs
        BY <1>2, <1>4, <1>7, Zenon
    <2> QED
        BY <1>1, <1>3, <1>5, <1>7, <2>1, Zenon
<1> HIDE DEF done
<1> QED
    BY <1>1, <1>2, <1>6, <1>7, Zenon DEF TypeOK

LEMMA AcceptOrdered ==
    ASSUME TypeOK, Ordered, NEW c \in Certs, accept_certificate_internal(c)
    PROVE  Ordered'
<1> USE DEF Ordered
<1>1. /\ UNCHANGED <<suspended, missing_parents, gc_round, consensus_gc>>
      /\ \A d \in Certs : kept(d)' <=> kept(d)
      /\ certificate_store' = certificate_store \cup {c}
      /\ accepting' = accepting \ {c} /\ c \in accepting
      /\ kept(c) => ParentsOf[c] \subseteq certificate_store
    BY Zenon DEF accept_certificate_internal, state_vars, consensus_vars, kept, parents_found, lowest
<1>2. certificate_store' \cup accepting' = certificate_store \cup accepting
    BY <1>1, Zenon
<1> QED
    BY <1>1, <1>2, Zenon DEF TypeOK

LEMMA StoreGcOrdered ==
    ASSUME TypeOK, Ordered, StoreGcRound
    PROVE  Ordered'
<1>1. /\ UNCHANGED <<certificate_store, accepting, suspended, missing_parents, consensus_gc>>
      /\ gc_round' = consensus_gc /\ gc_round' > gc_round
    BY Zenon DEF StoreGcRound, state_vars, consensus_vars
<1>2. ASSUME NEW c \in Certs, kept(c)'
      PROVE  kept(c)
    BY <1>1, <1>2, RoundsType DEF kept, TypeOK
<1>3. gc_round' <= consensus_gc'
    BY <1>1 DEF TypeOK
<1> QED
    BY <1>1, <1>2, <1>3, Zenon DEF Ordered, TypeOK

LEMMA RestartOrdered ==
    ASSUME TypeOK, Ordered, Restart
    PROVE  Ordered'
<1>1. /\ UNCHANGED <<certificate_store, consensus_gc>>
      /\ gc_round' = consensus_gc /\ gc_round' >= gc_round
      /\ accepting' = {} /\ suspended' = {}
    BY Zenon DEF Restart, Ordered, TypeOK
<1>2. ASSUME NEW c \in Certs, kept(c)'
      PROVE  kept(c)
    BY <1>1, <1>2, RoundsType DEF kept, TypeOK
<1>3. gc_round' <= consensus_gc'
    BY <1>1 DEF TypeOK
<1> QED
    BY <1>1, <1>2, <1>3, Zenon DEF Ordered, TypeOK

LEMMA CommitOrdered ==
    ASSUME TypeOK, Ordered, NEW c \in Certs, Commit(c)
    PROVE  Ordered'
<1>1. /\ UNCHANGED <<certificate_store, accepting, suspended, missing_parents, gc_round>>
      /\ consensus_gc' = RoundOf[c] - GcDepth /\ RoundOf[c] > consensus_gc + GcDepth
    BY Zenon DEF Commit, state_vars
<1>2. gc_round' <= consensus_gc'
    BY <1>1, RoundsType, BoundAssumption DEF Ordered, TypeOK
<1> QED
    BY <1>1, <1>2, Zenon DEF Ordered, kept

LEMMA NextOrdered == TypeOK /\ Ordered /\ [Next]_vars => Ordered'
<1> SUFFICES ASSUME TypeOK, Ordered, [Next]_vars PROVE Ordered'
    BY Zenon
<1> USE DEF ordered_vars, state_vars, consensus_vars
<1>1. CASE UNCHANGED vars
    BY <1>1, SameOrdered, Zenon DEF vars
<1>2. ASSUME NEW c \in Certs, Receive(c) PROVE Ordered'
    BY <1>2, SameOrdered, Zenon DEF Receive, try_accept_certificate, accept_own_certificate, submit
<1>3. CASE FetchResponse
    BY <1>3, SameOrdered, Zenon DEF FetchResponse, try_accept_fetched_certificates, submit
<1>4. CASE \/ TakeMessage \/ LockState \/ UnlockState \/ LockForGc \/ UnlockAfterGc
           \/ ConsensusInsert \/ Recovery
    BY <1>4, SameOrdered, Zenon DEF TakeMessage, LockState, UnlockState, LockForGc, UnlockAfterGc,
       ConsensusInsert, Recovery, RecoverCertificate, SendRecovered
<1>5. CASE ProcessBatch
    BY <1>4, <1>5, ProcessOrdered, Zenon DEF ProcessBatch
<1>6. CASE ReleaseCollected
    BY <1>4, <1>6, CollectOrdered, Zenon DEF ReleaseCollected
<1> QED
    BY <1>1, <1>2, <1>3, <1>4, <1>5, <1>6, AcceptOrdered, StoreGcOrdered, RestartOrdered,
       CommitOrdered, Zenon DEF Next, OtherSteps

fed_vars == <<certificate_store, dag, new_certificates, consensus_gc>>

LEMMA SameFed ==
    ASSUME Fed, UNCHANGED fed_vars
    PROVE  Fed'
BY DEF Fed, fed_vars

\* A certificate is sent after it is stored, and after its parents.
LEMMA AcceptFed ==
    ASSUME TypeOK, Ordered, Fed, NEW c \in Certs, accept_certificate_internal(c)
    PROVE  Fed'
<1> DEFINE n == Len(new_certificates)
<1>1. /\ UNCHANGED <<dag, consensus_gc>>
      /\ certificate_store' = certificate_store \cup {c}
      /\ new_certificates' = Append(new_certificates, c)
      /\ parents_found(c)
    BY Zenon DEF accept_certificate_internal, consensus_vars
<1>2. /\ n \in Nat /\ Len(new_certificates') = n + 1
      /\ new_certificates'[n + 1] = c
      /\ \A i \in 1..n : new_certificates'[i] = new_certificates[i]
    BY <1>1, AppendProperties, LenProperties DEF TypeOK
<1> HIDE DEF n
<1>3. ASSUME NEW d \in certificate_store', RoundOf[d] > consensus_gc'
      PROVE  d \in dag' \/ \E i \in 1..Len(new_certificates') : new_certificates'[i] = d
    <2>1. CASE d = c
        <3>1. n + 1 \in 1..Len(new_certificates')
            BY <1>2
        <3> QED
            BY <2>1, <3>1, <1>2, Zenon
    <2>2. CASE d # c
        <3>1. d \in dag \/ \E i \in 1..n : new_certificates[i] = d
            BY <1>1, <1>3, <2>2, Zenon DEF Fed, n
        <3>2. 1..n \subseteq 1..Len(new_certificates')
            BY <1>2
        <3> QED
            BY <1>1, <1>2, <3>1, <3>2, Zenon
    <2> QED
        BY <2>1, <2>2, Zenon
<1>4. ASSUME NEW i \in 1..Len(new_certificates'),
             RoundOf[new_certificates'[i]] > consensus_gc' + 1,
             NEW p \in ParentsOf[new_certificates'[i]]
      PROVE  p \in dag' \/ \E j \in 1..(i - 1) : new_certificates'[j] = p
    <2>1. CASE i \in 1..n
        <3>1. p \in dag \/ \E j \in 1..(i - 1) : new_certificates[j] = p
            BY <1>1, <1>2, <1>4, <2>1, Zenon DEF Fed, n
        <3>2. 1..(i - 1) \subseteq 1..n
            BY <1>2, <2>1
        <3> QED
            BY <1>1, <1>2, <3>1, <3>2, Zenon
    <2>2. CASE i = n + 1
        <3>1. p \in ParentsOf[c] /\ RoundOf[c] > consensus_gc + 1
            BY <1>1, <1>2, <1>4, <2>2, Zenon
        <3>2. p \in certificate_store /\ RoundOf[p] > consensus_gc
            <4>1. RoundOf[c] > gc_round + 1
                BY <3>1, RoundsType DEF Ordered, TypeOK
            <4> QED
                BY <1>1, <3>1, <4>1, RoundsType DEF parents_found, TypeOK
        <3>3. p \in dag \/ \E j \in 1..n : new_certificates[j] = p
            BY <3>2, Zenon DEF Fed, n
        <3>4. i - 1 = n
            BY <1>2, <2>2
        <3> QED
            BY <1>1, <1>2, <3>3, <3>4, Zenon
    <2> QED
        BY <1>2, <1>4, <2>1, <2>2
<1> QED
    BY <1>3, <1>4, Zenon DEF Fed

\* What leaves the channel is in the DAG, unless it is collected.
LEMMA InsertFed ==
    ASSUME TypeOK, Fed, ConsensusInsert
    PROVE  Fed'
<1> DEFINE n == Len(new_certificates)
           first == new_certificates[1]
<1>1. /\ UNCHANGED <<certificate_store, consensus_gc>>
      /\ new_certificates' = Tail(new_certificates) /\ new_certificates # <<>>
      /\ dag \subseteq dag'
    BY Zenon DEF ConsensusInsert
<1>2. /\ n \in Nat /\ n > 0 /\ Len(new_certificates') = n - 1
      /\ \A i \in 1..(n - 1) : new_certificates'[i] = new_certificates[i + 1]
      /\ first = Head(new_certificates) /\ first \in Certs
    BY <1>1, HeadTailProperties, LenProperties, EmptySeq, ElementOfSeq DEF TypeOK
<1>3. RoundOf[first] > consensus_gc => first \in dag'
    BY <1>2, RoundsType DEF ConsensusInsert, TypeOK
<1> HIDE DEF n, first
<1>4. ASSUME NEW d, NEW m \in 1..n, RoundOf[d] > consensus_gc,
             \E i \in 1..m : new_certificates[i] = d
      PROVE  d \in dag' \/ \E i \in 1..(m - 1) : new_certificates'[i] = d
    <2>1. PICK i \in 1..m : new_certificates[i] = d
        BY <1>4, Zenon
    <2>2. CASE i = 1
        BY <1>3, <1>4, <2>1, <2>2, Zenon DEF first
    <2>3. CASE i # 1
        <3>1. i - 1 \in 1..(m - 1) /\ i - 1 \in 1..(n - 1) /\ (i - 1) + 1 = i
            BY <1>2, <2>1, <2>3
        <3> QED
            BY <1>2, <2>1, <3>1, Zenon
    <2> QED
        BY <2>2, <2>3, Zenon
<1>5. ASSUME NEW d \in certificate_store', RoundOf[d] > consensus_gc'
      PROVE  d \in dag' \/ \E i \in 1..Len(new_certificates') : new_certificates'[i] = d
    <2>1. d \in dag \/ \E i \in 1..n : new_certificates[i] = d
        BY <1>1, <1>5, Zenon DEF Fed, n
    <2>2. n \in 1..n
        BY <1>2
    <2> QED
        BY <1>1, <1>2, <1>4, <1>5, <2>1, <2>2
<1>6. ASSUME NEW i \in 1..Len(new_certificates'),
             RoundOf[new_certificates'[i]] > consensus_gc' + 1,
             NEW p \in ParentsOf[new_certificates'[i]]
      PROVE  p \in dag' \/ \E j \in 1..(i - 1) : new_certificates'[j] = p
    <2>1. i \in 1..(n - 1) /\ i + 1 \in 1..n /\ i \in 1..n /\ (i + 1) - 1 = i
        BY <1>2
    <2>2. new_certificates'[i] = new_certificates[i + 1] /\ new_certificates[i + 1] \in Certs
        BY <1>2, <2>1, ElementOfSeq, Zenon DEF TypeOK, n
    <2>3. p \in dag \/ \E j \in 1..i : new_certificates[j] = p
        <3>1. /\ RoundOf[new_certificates[i + 1]] > consensus_gc + 1
              /\ p \in ParentsOf[new_certificates[i + 1]]
            BY <1>1, <1>6, <2>2, Zenon
        <3>2. p \in dag \/ \E j \in 1..((i + 1) - 1) : new_certificates[j] = p
            BY <2>1, <3>1, Zenon DEF Fed, n
        <3> QED
            BY <2>1, <3>2, Zenon
    <2>4. RoundOf[p] > consensus_gc
        BY <1>1, <1>6, <2>2, RoundsType DEF TypeOK
    <2> QED
        BY <1>1, <1>4, <2>1, <2>3, <2>4, Zenon
<1> QED
    BY <1>5, <1>6, Zenon DEF Fed

\* A commit prunes only what it collects.
LEMMA CommitFed ==
    ASSUME TypeOK, Fed, NEW c \in Certs, Commit(c)
    PROVE  Fed'
<1>1. /\ UNCHANGED <<certificate_store, new_certificates>>
      /\ consensus_gc' \in Nat /\ consensus_gc' > consensus_gc
      /\ dag' = {d \in dag : RoundOf[d] > consensus_gc'}
    BY RoundsType, BoundAssumption DEF Commit, TypeOK
<1>2. ASSUME NEW d \in Certs, RoundOf[d] > consensus_gc'
      PROVE  RoundOf[d] > consensus_gc /\ (d \in dag => d \in dag')
    BY <1>1, <1>2, RoundsType DEF TypeOK
<1>3. ASSUME NEW d \in certificate_store', RoundOf[d] > consensus_gc'
      PROVE  d \in dag' \/ \E i \in 1..Len(new_certificates') : new_certificates'[i] = d
    BY <1>1, <1>2, <1>3, Zenon DEF Fed, TypeOK
<1>4. ASSUME NEW i \in 1..Len(new_certificates'),
             RoundOf[new_certificates'[i]] > consensus_gc' + 1,
             NEW p \in ParentsOf[new_certificates'[i]]
      PROVE  p \in dag' \/ \E j \in 1..(i - 1) : new_certificates'[j] = p
    <2>1. new_certificates[i] \in Certs
        BY <1>1, ElementOfSeq, Zenon DEF TypeOK
    <2>2. p \in Certs /\ RoundOf[p] > consensus_gc' /\ RoundOf[new_certificates[i]] > consensus_gc + 1
        BY <1>1, <1>4, <2>1, RoundsType DEF TypeOK
    <2>3. p \in dag \/ \E j \in 1..(i - 1) : new_certificates[j] = p
        BY <1>1, <1>4, <2>2, Zenon DEF Fed
    <2> QED
        BY <1>1, <1>2, <2>2, <2>3, Zenon
<1> QED
    BY <1>3, <1>4, Zenon DEF Fed

LEMMA RestartFed ==
    ASSUME TypeOK, Restart
    PROVE  Fed'
<1>1. /\ Len(new_certificates') = 0 /\ UNCHANGED <<certificate_store, consensus_gc>>
      /\ dag' = {c \in certificate_store : RoundOf[c] > consensus_gc}
    BY EmptySeq, Zenon DEF Restart, construct_dag_from_cert_store
<1> QED
    BY <1>1 DEF Fed

LEMMA NextFed == TypeOK /\ Ordered /\ Fed /\ [Next]_vars => Fed'
<1> SUFFICES ASSUME TypeOK, Ordered, Fed, [Next]_vars PROVE Fed'
    BY Zenon
<1> USE DEF fed_vars, state_vars, consensus_vars
<1>1. CASE UNCHANGED vars
    BY <1>1, SameFed, Zenon DEF vars
<1>2. ASSUME NEW c \in Certs, Receive(c) PROVE Fed'
    BY <1>2, SameFed, Zenon DEF Receive, try_accept_certificate, accept_own_certificate, submit
<1>3. CASE FetchResponse
    BY <1>3, SameFed, Zenon DEF FetchResponse, try_accept_fetched_certificates, submit
<1>4. CASE \/ TakeMessage \/ LockState \/ StoreGcRound \/ Recovery
    BY <1>4, SameFed, Zenon DEF TakeMessage, LockState, StoreGcRound, Recovery, RecoverCertificate,
       SendRecovered
<1>5. CASE ProcessBatch
    BY <1>5, SameFed, Zenon DEF ProcessBatch, process_certificate, UnlockState
<1>6. CASE ReleaseCollected
    BY <1>6, SameFed, Zenon DEF ReleaseCollected, LockForGc, run_gc_once, UnlockAfterGc
<1> QED
    BY <1>1, <1>2, <1>3, <1>4, <1>5, <1>6, AcceptFed, InsertFed, CommitFed, RestartFed, Zenon
       DEF Next, OtherSteps

\* The inductive invariant of the causal history.
THEOREM HistoryKept == Spec => []HistoryInv
<1>1. Init => HistoryInv
    BY InitHistory
<1>2. HistoryInv /\ [Next]_vars => HistoryInv'
    BY NextType, NextOrdered, NextFed, Zenon DEF HistoryInv
<1> QED
    BY <1>1, <1>2, PTL DEF Spec

\* Certificates are stored in causal order, and the check of the parents that
\* precedes the write succeeds, whatever is lost in restarts.
THEOREM CausalOrderKept == Spec => []CausalHistory
<1>1. HistoryInv => CausalHistory
    <2> SUFFICES ASSUME HistoryInv, NEW c \in certificate_store \cup lowest(accepting), kept(c)
                 PROVE  ParentsOf[c] \subseteq certificate_store
        BY Zenon DEF CausalHistory, parents_found, kept
    <2>1. CASE c \in certificate_store
        BY <2>1, Zenon DEF HistoryInv, Ordered
    <2>2. CASE c \in lowest(accepting)
        <3>1. c \in accepting /\ c \in Certs /\ ParentsOf[c] \subseteq certificate_store \cup accepting
            BY <2>2, Zenon DEF HistoryInv, Ordered, lowest, TypeOK
        <3>2. \A p \in ParentsOf[c] : p \notin accepting
            BY <2>2, <3>1, RoundsType DEF lowest
        <3> QED
            BY <3>1, <3>2, Zenon
    <2> QED
        BY <2>1, <2>2, Zenon
<1> QED
    BY <1>1, HistoryKept, PTL

\* Consensus never misses a parent of the next certificate it receives, with
\* any delay between its garbage collection and the synchronizer's.
THEOREM ConsensusNeverPanics == Spec => []ConsensusFindsParents
<1>1. HistoryInv => ConsensusFindsParents
    <2> SUFFICES ASSUME HistoryInv, new_certificates # <<>>,
                        RoundOf[Head(new_certificates)] > consensus_gc + 1
                 PROVE  ParentsOf[Head(new_certificates)] \subseteq dag
        BY Zenon DEF ConsensusFindsParents, dag_has_parents
    <2>1. 1 \in 1..Len(new_certificates) /\ Head(new_certificates) = new_certificates[1]
        BY HeadTailProperties, LenProperties, EmptySeq DEF HistoryInv, TypeOK
    <2>2. \A j \in 1..(1 - 1) : FALSE
        OBVIOUS
    <2> QED
        BY <2>1, <2>2, Zenon DEF HistoryInv, Fed
<1> QED
    BY <1>1, HistoryKept, PTL

-----------------------------------------------------------------------------
(***************************************************************************)
(* The index of suspended certificates, when a garbage collection round is *)
(* stored and applied under one hold of the lock.                          *)
(***************************************************************************)

LEMMA LowestExists ==
    ASSUME NEW S \in SUBSET Certs, NEW q \in S
    PROVE  \E c \in lowest(S) : RoundOf[c] <= RoundOf[q]
<1> DEFINE R == {RoundOf[c] : c \in S}
<1>1. R \in SUBSET Nat /\ RoundOf[q] \in R
    BY RoundsType, Zenon
<1>2. PICK r \in R : \A t \in R : r <= t
    <2> HIDE DEF R
    <2> QED
        BY <1>1, Least, Zenon
<1>3. PICK c \in S : RoundOf[c] = r
    BY <1>2, Zenon
<1> QED
    BY <1>1, <1>2, <1>3, Zenon DEF lowest

LEMMA InitAcceptor == Init => AcceptorInv
<1> SUFFICES ASSUME Init PROVE AcceptorInv
    OBVIOUS
<1>1. TypeOK
    BY InitType
<1>2. Indexed
    BY Zenon DEF Init, Indexed
<1>3. Exclusive /\ OwnReady
    <2>1. Len(rx_acceptor) = 0 /\ suspended = {} /\ batch.certs = {} /\ lock # "acceptor"
        BY EmptySeq, Zenon DEF Init, Idle
    <2> QED
        BY <2>1 DEF Exclusive, OwnReady
<1> QED
    BY <1>1, <1>2, <1>3, Zenon DEF AcceptorInv

\* From a certificate that is not suspended, the traversal removes itself from
\* what the others miss, and leaves none missing nothing.
LEMMA ChildrenIndexed ==
    ASSUME TypeOK, Indexed, NEW c \in Certs, c \notin suspended, accept_children(c)
    PROVE  /\ \A d \in suspended' :
                  /\ missing_parents'[d] = missing_parents[d] \ reached(c)
                  /\ missing_parents'[d] # {}
           /\ \A p \in Certs : missing'[p] = {d \in suspended' : p \in missing_parents'[d]}
<1> DEFINE done == reached(c)
           touched == UNION {missing[p] : p \in done}
<1>1. /\ suspended \subseteq Certs /\ done \subseteq Certs
      /\ missing_parents \in [Certs -> SUBSET Certs]
    BY ChildrenType, Zenon DEF TypeOK
<1>2. /\ suspended' = suspended \ done
      /\ missing' = [p \in Certs |-> IF p \in done THEN {} ELSE missing[p]]
      /\ missing_parents' = [d \in Certs |-> IF d \in done THEN {}
                                ELSE IF d \in touched THEN missing_parents[d] \ done
                                ELSE missing_parents[d]]
    BY Zenon DEF accept_children
<1>3. \A p \in Certs : missing[p] = {d \in suspended : p \in missing_parents[d]}
    BY Zenon DEF Indexed
<1>4. \A d \in suspended \ touched : missing_parents[d] \cap done = {}
    BY <1>1, <1>3, Zenon
<1>5. \A d \in done \cap suspended : missing_parents[d] \subseteq done
    BY ReachedLeast, Zenon
<1>6. ASSUME NEW d \in suspended \ done
      PROVE  ~(missing_parents[d] \subseteq done)
    <2>1. PICK p \in missing_parents[d] : TRUE
        BY <1>6, Zenon DEF Indexed
    <2>2. p \in done => d \in missing[p]
        BY <1>1, <1>3, <1>6, <2>1, Zenon
    <2> QED
        BY <1>6, <2>1, <2>2, ReachedClosed, Zenon DEF closed
<1> HIDE DEF done, touched
<1>7. ASSUME NEW d \in suspended'
      PROVE  missing_parents'[d] = missing_parents[d] \ done /\ missing_parents'[d] # {}
    <2>1. d \in suspended \ done /\ d \in Certs
        BY <1>1, <1>2, Zenon
    <2>2. missing_parents'[d] = missing_parents[d] \ done
        BY <1>2, <1>4, <2>1, Zenon
    <2> QED
        BY <1>6, <2>1, <2>2, Zenon
<1>8. ASSUME NEW p \in Certs
      PROVE  missing'[p] = {d \in suspended' : p \in missing_parents'[d]}
    <2>1. CASE p \in done
        BY <1>2, <1>7, <2>1, Zenon
    <2>2. CASE p \notin done
        <3>1. missing'[p] = {d \in suspended : p \in missing_parents[d]}
            BY <1>2, <1>3, <2>2, Zenon
        <3>2. \A d \in suspended' : p \in missing_parents'[d] <=> p \in missing_parents[d]
            BY <1>7, <2>2, Zenon
        <3>3. \A d \in suspended : p \in missing_parents[d] => d \in suspended'
            BY <1>2, <1>5, <2>2, Zenon
        <3>4. suspended' \subseteq suspended
            BY <1>2, Zenon
        <3> QED
            BY <3>1, <3>2, <3>3, <3>4, Zenon
    <2> QED
        BY <2>1, <2>2, Zenon
<1> QED
    BY <1>7, <1>8, Zenon DEF done

LEMMA SameIndexed ==
    ASSUME Indexed, UNCHANGED <<certificate_store, accepting, state_vars>>,
           lock = "gc" => lock' = "gc" /\ gc_round' = gc_round
    PROVE  Indexed'
BY DEF Indexed, state_vars

LEMMA ProcessIndexed ==
    ASSUME AcceptorInv, NEW c \in Certs, process_certificate(c)
    PROVE  Indexed'
<1>1. /\ UNCHANGED <<certificate_store, lock, gc_round>> /\ accepting = {} /\ lock = "acceptor"
      /\ TypeOK /\ Indexed
    BY Zenon DEF process_certificate, AcceptorInv
<1>2. CASE UNCHANGED <<state_vars, accepting>>
    BY <1>1, <1>2, SameIndexed, Zenon
<1>3. CASE /\ c \notin suspended /\ must_wait(c)
           /\ insert(c, get_missing_parents(c)) /\ UNCHANGED accepting
    <2> DEFINE lacking == ParentsOf[c] \ certificate_store
    <2>1. /\ suspended' = suspended \cup {c} /\ suspended \subseteq Certs
          /\ missing_parents' = [missing_parents EXCEPT ![c] = lacking]
          /\ missing' = [p \in Certs |-> IF p \in lacking THEN missing[p] \cup {c} ELSE missing[p]]
          /\ missing_parents \in [Certs -> SUBSET Certs]
          /\ lacking # {}
        BY <1>1, <1>3, Zenon DEF insert, get_missing_parents, TypeOK, must_wait
    <2> HIDE DEF lacking
    <2>2. /\ missing_parents'[c] = lacking
          /\ \A d \in suspended : d # c /\ missing_parents'[d] = missing_parents[d]
        BY <1>3, <2>1, Zenon
    <2>3. \A p \in Certs : missing'[p] = {d \in suspended' : p \in missing_parents'[d]}
        <3> TAKE p \in Certs
        <3>1. missing[p] = {d \in suspended : p \in missing_parents[d]}
            BY <1>1, Zenon DEF Indexed
        <3> QED
            BY <2>1, <2>2, <3>1, Zenon
    <2>4. \A d \in suspended' :
              /\ missing_parents'[d] # {}
              /\ missing_parents'[d] \subseteq ParentsOf[d] \ certificate_store
              /\ ParentsOf[d] \subseteq certificate_store \cup missing_parents'[d]
        <3> TAKE d \in suspended'
        <3>1. CASE d = c
            BY <2>1, <2>2, <3>1, Zenon DEF lacking
        <3>2. CASE d \in suspended
            BY <1>1, <2>2, <3>2, Zenon DEF Indexed
        <3> QED
            BY <2>1, <3>1, <3>2, Zenon
    <2> QED
        BY <1>1, <1>3, <2>3, <2>4, Zenon DEF Indexed
<1>4. CASE c \notin suspended /\ accepting' = reached(c) /\ accept_children(c)
    <2>1. \A d \in suspended : /\ missing_parents[d] \subseteq ParentsOf[d] \ certificate_store
                               /\ ParentsOf[d] \subseteq certificate_store \cup missing_parents[d]
        BY <1>1, Zenon DEF Indexed
    <2>2. suspended' \subseteq suspended
        BY <1>4, Zenon DEF accept_children
    <2>3. \A d \in suspended' :
              /\ missing_parents'[d] = missing_parents[d] \ reached(c)
              /\ missing_parents'[d] # {}
        BY <1>1, <1>4, ChildrenIndexed, Zenon
    <2>4. \A p \in Certs : missing'[p] = {d \in suspended' : p \in missing_parents'[d]}
        BY <1>1, <1>4, ChildrenIndexed, Zenon
    <2>5. \A d \in suspended' :
              /\ missing_parents'[d] \subseteq ParentsOf[d] \ (certificate_store \cup accepting')
              /\ ParentsOf[d] \subseteq certificate_store \cup accepting' \cup missing_parents'[d]
        BY <1>4, <2>1, <2>2, <2>3, Zenon
    <2> QED
        BY <1>1, <2>3, <2>4, <2>5, Zenon DEF Indexed
<1> QED
    BY <1>2, <1>3, <1>4, Zenon DEF process_certificate

LEMMA CollectIndexed ==
    ASSUME AcceptorInv, NEW p \in Certs, run_gc_once(p)
    PROVE  Indexed'
<1>1. /\ UNCHANGED <<certificate_store, lock, gc_round>> /\ accepting = {} /\ lock = "gc"
      /\ accepting' = reached(p) \cap suspended /\ accept_children(p)
      /\ p \in lowest(awaited) /\ RoundOf[p] <= gc_round
      /\ TypeOK /\ Indexed
    BY Zenon DEF run_gc_once, collectable, AcceptorInv, TypeOK
<1>2. p \notin suspended
    <2> SUFFICES ASSUME p \in suspended PROVE FALSE
        BY Zenon
    <2>1. PICK q \in ParentsOf[p] : q \in missing_parents[p]
        BY <1>1, Zenon DEF Indexed
    <2>2. q \in Certs /\ p \in missing[q]
        BY <1>1, <2>1, RoundsType DEF Indexed
    <2>3. q \in awaited
        BY <2>2, Zenon DEF awaited
    <2> QED
        BY <1>1, <2>1, <2>3, RoundsType DEF lowest
<1>3. \A d \in suspended :
          /\ missing_parents[d] \subseteq ParentsOf[d] \ certificate_store
          /\ \A q \in ParentsOf[d] \ (certificate_store \cup missing_parents[d]) : RoundOf[q] <= gc_round
    BY <1>1, Zenon DEF Indexed
<1>4. suspended' \subseteq suspended
    BY <1>1, Zenon DEF accept_children
<1>5. \A d \in suspended' :
          /\ missing_parents'[d] = missing_parents[d] \ reached(p)
          /\ missing_parents'[d] # {}
    BY <1>1, <1>2, ChildrenIndexed, Zenon
<1>6. \A q \in Certs : missing'[q] = {d \in suspended' : q \in missing_parents'[d]}
    BY <1>1, <1>2, ChildrenIndexed, Zenon
<1>7. \A q \in reached(p) : q = p \/ q \in accepting'
    BY <1>1, ReachedSuspended, Zenon
<1>8. \A d \in suspended' :
          /\ missing_parents'[d] \subseteq ParentsOf[d] \ (certificate_store \cup accepting')
          /\ \A q \in ParentsOf[d] \ (certificate_store \cup accepting' \cup missing_parents'[d]) :
                 RoundOf[q] <= gc_round
    BY <1>1, <1>3, <1>4, <1>5, <1>7, Zenon
<1> QED
    BY <1>1, <1>5, <1>6, <1>8, Zenon DEF Indexed

\* Garbage collection ends when nothing at or below its round is awaited: what
\* is still suspended is above.
LEMMA CollectedKept ==
    ASSUME AcceptorInv, collectable = {}
    PROVE  \A c \in suspended : kept(c)
<1> SUFFICES ASSUME NEW c \in suspended, ~kept(c)
             PROVE  FALSE
    BY Zenon
<1>1. TypeOK /\ Indexed /\ c \in Certs
    BY Zenon DEF AcceptorInv, TypeOK
<1>2. PICK q \in ParentsOf[c] : q \in missing_parents[c]
    BY <1>1, Zenon DEF Indexed
<1>3. q \in Certs /\ RoundOf[q] <= gc_round
    BY <1>1, <1>2, RoundsType DEF kept, TypeOK
<1>4. q \in awaited
    BY <1>1, <1>2, <1>3, Zenon DEF Indexed, awaited
<1>5. PICK p \in lowest(awaited) : RoundOf[p] <= RoundOf[q]
    BY <1>4, LowestExists, Zenon DEF awaited
<1>6. p \in Certs
    BY <1>5, Zenon DEF lowest, awaited
<1>7. RoundOf[p] <= gc_round
    BY <1>1, <1>3, <1>5, <1>6, RoundsType DEF TypeOK
<1> QED
    BY <1>5, <1>7, Zenon DEF collectable

LEMMA NextIndexed == AcceptorInv /\ [AtomicGcNext]_vars => Indexed'
<1> SUFFICES ASSUME AcceptorInv, [AtomicGcNext]_vars PROVE Indexed'
    BY Zenon
<1>0. TypeOK /\ Indexed
    BY Zenon DEF AcceptorInv
<1> USE <1>0
<1>1. CASE UNCHANGED vars
    BY <1>1, SameIndexed, Zenon DEF vars
<1>2. ASSUME NEW c \in Certs, Receive(c) PROVE Indexed'
    BY <1>2, SameIndexed, Zenon DEF Receive, try_accept_certificate, accept_own_certificate, submit
<1>3. CASE FetchResponse
    BY <1>3, SameIndexed, Zenon DEF FetchResponse, try_accept_fetched_certificates, submit
<1>4. CASE \/ TakeMessage \/ Recovery \/ ConsensusInsert \/ \E c \in Certs : Commit(c)
    BY <1>4, SameIndexed, Zenon DEF TakeMessage, Recovery, RecoverCertificate, SendRecovered,
       ConsensusInsert, Commit
<1>5. CASE LockBetweenGc
    BY <1>5, SameIndexed, Zenon DEF LockBetweenGc, LockState
<1>6. CASE StoreGcBetweenBatches
    BY <1>6, SameIndexed, Zenon DEF StoreGcBetweenBatches, StoreGcRound, TypeOK
<1>7. CASE ProcessBatch
    <2>1. CASE UnlockState
        BY <2>1, SameIndexed, Zenon DEF UnlockState
    <2> QED
        BY <1>7, <2>1, ProcessIndexed, Zenon DEF ProcessBatch
<1>8. CASE ReleaseCollected
    <2>1. CASE LockForGc
        BY <2>1, SameIndexed, Zenon DEF LockForGc
    <2>2. CASE UnlockAfterGc
        <3>1. /\ UNCHANGED <<certificate_store, accepting, suspended, missing_parents, missing, gc_round>>
              /\ \A c \in suspended : kept(c)
            BY <2>2, CollectedKept, Zenon DEF UnlockAfterGc, state_vars
        <3>2. \A c \in suspended, p \in Certs : p \in ParentsOf[c] => ~(RoundOf[p] <= gc_round)
            BY <3>1, RoundsType DEF kept, TypeOK
        <3>3. \A c \in suspended : ParentsOf[c] \subseteq Certs
            BY RoundsType, Zenon DEF TypeOK
        <3> QED
            BY <3>1, <3>2, <3>3, Zenon DEF Indexed
    <2> QED
        BY <1>8, <2>1, <2>2, CollectIndexed, Zenon DEF ReleaseCollected
<1>9. ASSUME NEW c \in Certs, accept_certificate_internal(c) PROVE Indexed'
    <2>1. /\ UNCHANGED <<suspended, missing, missing_parents, lock, gc_round>>
          /\ certificate_store' \cup accepting' = certificate_store \cup accepting
        BY <1>9, Zenon DEF accept_certificate_internal, state_vars, lowest
    <2> QED
        BY <2>1, Zenon DEF Indexed
<1>10. CASE Restart
    BY <1>10, Zenon DEF Restart, Indexed
<1> QED
    BY <1>1, <1>2, <1>3, <1>4, <1>5, <1>6, <1>7, <1>8, <1>9, <1>10, Zenon DEF AtomicGcNext, OtherSteps

LEMMA SubmitReady ==
    ASSUME OwnReady, NEW m, submit(m),
           m.own => \A c \in m.certs : ParentsOf[c] \subseteq certificate_store
    PROVE  OwnReady'
<1>1. /\ rx_acceptor' = <<m>> /\ UNCHANGED <<batch, certificate_store>>
    BY Zenon DEF submit
<1>2. Len(rx_acceptor') = 1 /\ rx_acceptor'[1] = m
    BY <1>1, Zenon
<1> QED
    BY <1>1, <1>2 DEF OwnReady

LEMMA NextReady == TypeOK /\ OwnReady /\ [Next]_vars => OwnReady'
<1> SUFFICES ASSUME TypeOK, OwnReady, [Next]_vars PROVE OwnReady'
    OBVIOUS
<1> USE DEF acceptor_vars
<1>1. ASSUME UNCHANGED rx_acceptor, certificate_store \subseteq certificate_store',
             batch'.own = batch.own, batch'.certs \subseteq batch.certs
      PROVE  OwnReady'
    BY <1>1, Zenon DEF OwnReady
<1>2. CASE UNCHANGED vars
    BY <1>1, <1>2, Zenon DEF vars
<1>3. ASSUME NEW c \in Certs, Receive(c) PROVE OwnReady'
    BY <1>3, SubmitReady, Zenon DEF Receive, try_accept_certificate, accept_own_certificate
<1>4. CASE FetchResponse
    BY <1>4, SubmitReady, Zenon DEF FetchResponse, try_accept_fetched_certificates
<1>5. CASE TakeMessage
    <2> DEFINE m == Head(rx_acceptor)
    <2>1. /\ rx_acceptor # <<>> /\ rx_acceptor' = Tail(rx_acceptor)
          /\ UNCHANGED certificate_store
          /\ batch' = [m EXCEPT !.certs = m.certs \ certificate_store]
        BY <1>5, Zenon DEF TakeMessage
    <2>2. /\ 1 \in 1..Len(rx_acceptor) /\ m = rx_acceptor[1] /\ m \in Messages
          /\ Len(rx_acceptor') = Len(rx_acceptor) - 1 /\ Len(rx_acceptor) \in Nat
          /\ \A i \in 1..(Len(rx_acceptor) - 1) : rx_acceptor'[i] = rx_acceptor[i + 1]
        BY <2>1, HeadTailProperties, LenProperties, EmptySeq DEF TypeOK
    <2> HIDE DEF m
    <2>3. batch'.own = m.own /\ batch'.certs \subseteq m.certs
        BY <2>1, <2>2, Zenon DEF Messages
    <2>4. batch'.own => \A c \in batch'.certs : ParentsOf[c] \subseteq certificate_store
        BY <2>2, <2>3, Zenon DEF OwnReady
    <2>5. \A i \in 1..Len(rx_acceptor') : /\ rx_acceptor'[i] = rx_acceptor[i + 1]
                                          /\ i + 1 \in 1..Len(rx_acceptor)
        BY <2>2
    <2> QED
        BY <2>1, <2>4, <2>5, Zenon DEF OwnReady
<1>6. CASE ProcessBatch
    <2>1. UNCHANGED <<rx_acceptor, certificate_store>>
        BY <1>6, Zenon DEF ProcessBatch, process_certificate, UnlockState
    <2>2. batch'.own = batch.own /\ batch'.certs \subseteq batch.certs
        BY <1>6, Zenon DEF ProcessBatch, process_certificate, UnlockState, TypeOK, Messages
    <2> QED
        BY <1>1, <2>1, <2>2, Zenon
<1>7. CASE Restart
    <2>1. Len(rx_acceptor') = 0 /\ batch'.certs = {}
        BY <1>7, EmptySeq, Zenon DEF Restart, Idle
    <2> QED
        BY <2>1 DEF OwnReady
<1>8. CASE \/ ReleaseCollected \/ Recovery \/ LockState \/ StoreGcRound
    BY <1>1, <1>8, Zenon DEF ReleaseCollected, LockForGc, run_gc_once, UnlockAfterGc, Recovery,
       RecoverCertificate, SendRecovered, LockState, StoreGcRound
<1>9. CASE \/ ConsensusInsert \/ (\E c \in Certs : Commit(c) \/ accept_certificate_internal(c))
    BY <1>1, <1>9, Zenon DEF ConsensusInsert, Commit, accept_certificate_internal
<1> QED
    BY <1>2, <1>3, <1>4, <1>5, <1>6, <1>7, <1>8, <1>9, Zenon DEF Next, OtherSteps

LEMMA AtomicGcSteps == [AtomicGcNext]_vars => [Next]_vars
BY Zenon DEF AtomicGcNext, Next, LockBetweenGc, StoreGcBetweenBatches

LEMMA NextExclusive == AcceptorInv /\ [AtomicGcNext]_vars => Exclusive'
<1> SUFFICES ASSUME AcceptorInv, [AtomicGcNext]_vars PROVE Exclusive'
    OBVIOUS
<1>0. TypeOK /\ Exclusive
    BY Zenon DEF AcceptorInv
<1> USE <1>0
<1>1. ASSUME UNCHANGED <<lock, gc_task, gc_round>>, suspended' \subseteq suspended
      PROVE  Exclusive'
    BY <1>1, Zenon DEF Exclusive, kept
<1> USE DEF state_vars
<1>2. CASE UNCHANGED vars
    BY <1>1, <1>2, Zenon DEF vars
<1>3. ASSUME NEW c \in Certs, Receive(c) PROVE Exclusive'
    BY <1>1, <1>3, Zenon DEF Receive, try_accept_certificate, accept_own_certificate, submit
<1>4. CASE FetchResponse
    BY <1>1, <1>4, Zenon DEF FetchResponse, try_accept_fetched_certificates, submit
<1>5. CASE \/ TakeMessage \/ Recovery \/ ConsensusInsert
           \/ (\E c \in Certs : Commit(c) \/ accept_certificate_internal(c))
    BY <1>1, <1>5, Zenon DEF TakeMessage, Recovery, RecoverCertificate, SendRecovered,
       ConsensusInsert, Commit, accept_certificate_internal
<1>6. CASE LockBetweenGc
    BY <1>6, Zenon DEF LockBetweenGc, LockState, TypeOK, Exclusive, kept
<1>7. CASE StoreGcBetweenBatches
    BY <1>7, Zenon DEF StoreGcBetweenBatches, StoreGcRound, Exclusive
<1>8. CASE UnlockState \/ LockForGc
    BY <1>8, Zenon DEF UnlockState, LockForGc, Exclusive, kept
<1>9. ASSUME NEW c \in Certs, process_certificate(c) PROVE Exclusive'
    <2>1. UNCHANGED <<lock, gc_task, gc_round>>
        BY <1>9, Zenon DEF process_certificate
    <2>2. \A d \in suspended' : d \in suspended \/ kept(d)
        BY <1>9, Zenon DEF process_certificate, insert, accept_children, must_wait, kept
    <2> QED
        BY <2>1, <2>2, Zenon DEF Exclusive, kept
<1>10. ASSUME NEW p \in Certs, run_gc_once(p) PROVE Exclusive'
    BY <1>1, <1>10, Zenon DEF run_gc_once, accept_children
<1>11. CASE UnlockAfterGc
    <2>1. \A c \in suspended : kept(c)
        BY <1>11, CollectedKept, Zenon DEF UnlockAfterGc
    <2> QED
        BY <1>11, <2>1, Zenon DEF UnlockAfterGc, Exclusive, kept
<1>12. CASE Restart
    BY <1>12, Zenon DEF Restart, Exclusive
<1> QED
    BY <1>2, <1>3, <1>4, <1>5, <1>6, <1>7, <1>8, <1>9, <1>10, <1>11, <1>12, Zenon
       DEF AtomicGcNext, OtherSteps, ProcessBatch, ReleaseCollected

\* The inductive invariant of the acceptor and the garbage collection.
THEOREM IndexKept == AtomicGcSpec => []AcceptorInv
<1>1. Init => AcceptorInv
    BY InitAcceptor
<1>2. AcceptorInv /\ [AtomicGcNext]_vars => AcceptorInv'
    BY AtomicGcSteps, NextType, NextIndexed, NextExclusive, NextReady, Zenon DEF AcceptorInv
<1> QED
    BY <1>1, <1>2, PTL DEF AtomicGcSpec

\* No assertion of the acceptor, of State::insert or of State::accept_children
\* fails when garbage collection rounds are stored under the lock.
THEOREM NoPanic == AtomicGcSpec => []AcceptorNeverPanics
<1>1. AcceptorInv => AcceptorNeverPanics
    <2> SUFFICES ASSUME AcceptorInv PROVE AcceptorNeverPanics
        BY Zenon
    <2>1. TypeOK /\ Indexed /\ Exclusive /\ OwnReady
        BY Zenon DEF AcceptorInv
    <2>2. \A c \in Certs, p \in Certs : c \in missing[p] => c \in suspended
        BY <2>1, Zenon DEF Indexed
    <2>3. ASSUME NEW c \in Certs PROVE reached(c) \subseteq Certs /\ index_agrees(c)
        <3>1. reached(c) \subseteq Certs
            BY <2>1, ReachedSuspended, Zenon DEF TypeOK
        <3>2. \A p \in Certs : missing[p] \subseteq suspended
            BY <2>1, Zenon DEF Indexed
        <3> QED
            BY <3>1, <3>2, Zenon DEF index_agrees
    <2>4. ASSUME lock = "acceptor", accepting = {}, NEW c \in batch.certs
          PROVE  checks_pass(c)
        <3>1. c \in Certs
            BY <2>1, Zenon DEF TypeOK, Messages
        <3>2. c \in suspended => /\ missing_parents[c] = get_missing_parents(c)
                                 /\ missing_parents[c] # {} /\ kept(c)
            BY <2>1, <2>4, Zenon DEF Indexed, Exclusive, get_missing_parents
        <3>3. CASE must_wait(c)
            <4>1. ~batch.own
                BY <2>1, <3>3, Zenon DEF OwnReady, must_wait, get_missing_parents
            <4>2. \A p \in get_missing_parents(c) : p \in Certs
                BY <3>1, RoundsType, Zenon DEF get_missing_parents
            <4> QED
                BY <2>2, <3>1, <3>2, <3>3, <4>1, <4>2, Zenon DEF checks_pass
        <3>4. CASE ~must_wait(c)
            BY <2>3, <3>1, <3>2, <3>4, Zenon DEF checks_pass, must_wait, kept
        <3> QED
            BY <3>3, <3>4, Zenon
    <2>5. \A p \in collectable : index_agrees(p)
        BY <2>3, Zenon DEF collectable, lowest, awaited
    <2> QED
        BY <2>4, <2>5, Zenon DEF AcceptorNeverPanics
<1> QED
    BY <1>1, IndexKept, PTL

\* Whenever the lock of State is free, every suspended certificate waits for
\* exactly the parents that are not stored, and they know of it.
THEOREM NobodyForgotten == AtomicGcSpec => []NoneForgotten
<1>1. AcceptorInv => NoneForgotten
    <2> SUFFICES ASSUME AcceptorInv, lock = "free"
                 PROVE  /\ \A c \in suspended :
                               /\ missing_parents[c] = ParentsOf[c] \ certificate_store
                               /\ missing_parents[c] # {}
                        /\ \A p \in Certs : missing[p] = {c \in suspended : p \in missing_parents[c]}
        BY Zenon DEF NoneForgotten
    <2>1. accepting = {} /\ Indexed
        BY Zenon DEF AcceptorInv, TypeOK
    <2> QED
        BY <2>1, Zenon DEF Indexed
<1> QED
    BY <1>1, IndexKept, PTL

\* Between two rounds of garbage collection nothing is suspended that the last
\* one should have released.
THEOREM EveryCollectedReleased == AtomicGcSpec => []CollectedAreReleased
<1>1. AcceptorInv => CollectedAreReleased
    BY Zenon DEF AcceptorInv, Exclusive, kept, CollectedAreReleased
<1> QED
    BY <1>1, IndexKept, PTL

-----------------------------------------------------------------------------
(***************************************************************************)
(* The parents the proposer is given, by the acceptor and by recovery.     *)
(***************************************************************************)
origins(S) == {OriginOf[c] : c \in S}

LEMMA QuorumGrows ==
    ASSUME NEW S \in SUBSET Certs, NEW T \in SUBSET Certs, S \subseteq T,
           reached_quorum(origins(S))
    PROVE  reached_quorum(origins(T))
<1>1. origins(S) \subseteq origins(T) /\ origins(T) \subseteq Authorities
    BY DagAssumption, Zenon DEF origins
<1>2. /\ StakeOf[origins(S)] \in Nat /\ StakeOf[origins(T)] \in Nat
      /\ StakeOf[origins(S)] <= StakeOf[origins(T)]
    BY <1>1, StakeMonotone, Zenon
<1>3. quorum_threshold \in Nat /\ StakeOf[origins(S)] >= quorum_threshold
    BY ThresholdArithmetic, Zenon DEF reached_quorum
<1>4. StakeOf[origins(T)] >= quorum_threshold
    BY <1>2, <1>3
<1> QED
    BY <1>4, Zenon DEF reached_quorum

\* Appending a certificate, by either task, keeps the quorums whole: what it drains
\* joins what the proposer is given.
LEMMA AppendAggregated ==
    ASSUME AggregatorInv, NEW c \in Certs, append_certificate_in_aggregator(c),
           \A r \in Rounds : given(r)' = given(r) \cup of_round(drained(c), r)
    PROVE  Aggregated' /\ GivenAreQuorum'
<1> DEFINE used == aggregators[RoundOf[c]]
           R == RoundOf[c]
<1>1. TypeOK /\ Aggregated /\ GivenAreQuorum /\ R \in Rounds
    BY RoundsType, Zenon DEF AggregatorInv
<1>2. used \subseteq Certs /\ \A d \in used \cup {c} : RoundOf[d] = R
    BY <1>1, Zenon DEF TypeOK, Aggregated
<1>3. \A d \in drained(c) : d \in used \cup {c}
    BY Zenon DEF drained
<1>4. ASSUME NEW r \in Rounds, r # R
      PROVE  aggregators'[r] = aggregators[r] /\ given(r)' = given(r)
    <2>1. of_round(drained(c), r) = {}
        BY <1>2, <1>3, <1>4, Zenon DEF of_round
    <2>2. given(r)' = given(r)
        BY <2>1, Zenon
    <2> QED
        BY <1>1, <1>4, <2>2, Zenon DEF append_certificate_in_aggregator, TypeOK
<1>5. given(R)' = given(R) \cup drained(c)
    <2>1. of_round(drained(c), R) = drained(c)
        BY <1>2, <1>3, Zenon DEF of_round
    <2> QED
        BY <1>1, <2>1, Zenon
<1>6. aggregators'[R] = IF OriginOf[c] \in origins(used) THEN used ELSE used \cup {c}
    BY <1>1, Zenon DEF append_certificate_in_aggregator, TypeOK, origins
<1>7. drained(c) = IF OriginOf[c] \in origins(used) \/ ~reached_quorum(origins(used \cup {c}))
                   THEN {}
                   ELSE IF reached_quorum(origins(used)) THEN {c} ELSE used \cup {c}
    BY Zenon DEF drained, origins
<1>8. given(R) \subseteq Certs /\ given(R) \cup drained(c) \subseteq Certs
    BY <1>1, <1>2, <1>3, Zenon DEF TypeOK, given, of_round
<1>9. /\ reached_quorum(origins(used)) => reached_quorum(origins(given(R)))
      /\ given(R) # {} => reached_quorum(origins(given(R)))
    BY <1>1, Zenon DEF Aggregated, GivenAreQuorum, origins
<1> HIDE DEF used
<1>10. /\ reached_quorum(origins(aggregators'[R])) => reached_quorum(origins(given(R)'))
       /\ given(R)' # {} => reached_quorum(origins(given(R)'))
    <2>1. CASE OriginOf[c] \in origins(used)
        <3>1. given(R)' = given(R) /\ aggregators'[R] = used
            BY <1>5, <1>6, <1>7, <2>1, Zenon
        <3> QED
            BY <1>9, <3>1, Zenon
    <2>2. CASE OriginOf[c] \notin origins(used) /\ ~reached_quorum(origins(used \cup {c}))
        <3>1. given(R)' = given(R) /\ aggregators'[R] = used \cup {c}
            BY <1>5, <1>6, <1>7, <2>2, Zenon
        <3> QED
            BY <1>9, <2>2, <3>1, Zenon
    <2>3. CASE OriginOf[c] \notin origins(used) /\ reached_quorum(origins(used \cup {c}))
        <3>1. CASE reached_quorum(origins(used))
            BY <1>5, <1>8, <1>9, <3>1, QuorumGrows, Zenon
        <3>2. CASE ~reached_quorum(origins(used))
            <4>1. drained(c) = used \cup {c}
                BY <1>7, <2>3, <3>2, Zenon
            <4>2. used \cup {c} \subseteq given(R) \cup drained(c)
                BY <4>1, Zenon
            <4> QED
                BY <1>2, <1>5, <1>8, <2>3, <4>2, QuorumGrows, Zenon
        <3> QED
            BY <3>1, <3>2, Zenon
    <2> QED
        BY <2>1, <2>2, <2>3, Zenon
<1>11. \A d \in aggregators'[R] : RoundOf[d] = R
    BY <1>2, <1>6, Zenon
<1>12. Aggregated'
    BY <1>1, <1>4, <1>10, <1>11, Zenon DEF Aggregated, origins
<1>13. GivenAreQuorum'
    BY <1>1, <1>4, <1>10, Zenon DEF GivenAreQuorum, origins
<1> QED
    BY <1>12, <1>13, Zenon

\* The acceptor appends and sends under the lock,
LEMMA AcceptAggregated ==
    ASSUME AggregatorInv, NEW c \in Certs, accept_certificate_internal(c)
    PROVE  Aggregated' /\ GivenAreQuorum'
<1>1. append_certificate_in_aggregator(c) /\ send_parents(drained(c)) /\ recovered' = recovered
    BY Zenon DEF accept_certificate_internal, recovery_vars
<1>2. ASSUME NEW r \in Rounds
      PROVE  given(r)' = given(r) \cup of_round(drained(c), r)
    <2>1. parents'[r] = parents[r] \cup of_round(drained(c), r)
        BY <1>1, Zenon DEF send_parents
    <2> QED
        BY <1>1, <2>1, Zenon DEF given, of_round
<1> QED
    BY <1>1, <1>2, AppendAggregated, Zenon

\* recovery appends first and sends afterwards.
LEMMA RecoveryAggregated ==
    ASSUME AggregatorInv, Recovery
    PROVE  Aggregated' /\ GivenAreQuorum'
<1>1. ASSUME NEW c \in Certs, RecoverCertificate(c)
      PROVE  Aggregated' /\ GivenAreQuorum'
    <2>1. /\ append_certificate_in_aggregator(c)
          /\ recovered = {} /\ recovered' = drained(c) /\ parents' = parents
        BY <1>1, Zenon DEF RecoverCertificate
    <2>2. ASSUME NEW r \in Rounds
          PROVE  given(r)' = given(r) \cup of_round(drained(c), r)
        BY <2>1, Zenon DEF given, of_round
    <2> QED
        BY <2>1, <2>2, AppendAggregated, Zenon
<1>2. CASE SendRecovered
    <2>1. send_parents(recovered) /\ recovered' = {} /\ aggregators' = aggregators
        BY <1>2, Zenon DEF SendRecovered
    <2>2. ASSUME NEW r \in Rounds
          PROVE  given(r)' = given(r)
        <3>1. parents'[r] = parents[r] \cup of_round(recovered, r)
            BY <2>1, Zenon DEF send_parents
        <3> QED
            BY <2>1, <3>1, Zenon DEF given, of_round
    <2> QED
        BY <2>1, <2>2, Zenon DEF AggregatorInv, Aggregated, GivenAreQuorum
<1> QED
    BY <1>1, <1>2, Zenon DEF Recovery

\* The other steps append nothing; a new garbage collection round and a restart empty
\* aggregators.
LEMMA NextAggregated ==
    ASSUME AggregatorInv, [Next]_vars
    PROVE  Aggregated' /\ GivenAreQuorum'
<1>0. TypeOK /\ Aggregated /\ GivenAreQuorum
    BY Zenon DEF AggregatorInv
<1> USE <1>0 DEF proposer_vars, recovery_vars
<1>1. ASSUME UNCHANGED <<aggregators, parents, recovered>>
      PROVE  Aggregated' /\ GivenAreQuorum'
    BY <1>1, Zenon DEF Aggregated, GivenAreQuorum, given
<1>2. CASE UNCHANGED vars
    BY <1>1, <1>2, Zenon DEF vars
<1>3. ASSUME NEW c \in Certs, Receive(c) PROVE Aggregated' /\ GivenAreQuorum'
    BY <1>1, <1>3, Zenon DEF Receive, try_accept_certificate, accept_own_certificate, submit
<1>4. CASE FetchResponse
    BY <1>1, <1>4, Zenon DEF FetchResponse, try_accept_fetched_certificates, submit
<1>5. CASE \/ TakeMessage \/ ProcessBatch \/ LockState \/ ReleaseCollected
           \/ ConsensusInsert \/ (\E c \in Certs : Commit(c))
    BY <1>1, <1>5, Zenon DEF TakeMessage, ProcessBatch, process_certificate, UnlockState, LockState,
       ReleaseCollected, LockForGc, run_gc_once, UnlockAfterGc, ConsensusInsert, Commit
<1>6. ASSUME \A r \in Rounds : given(r)' = given(r) /\ (aggregators'[r] = aggregators[r] \/ aggregators'[r] = {})
      PROVE  Aggregated' /\ GivenAreQuorum'
    <2>1. ASSUME NEW r \in Rounds, reached_quorum(origins(aggregators'[r]))
          PROVE  reached_quorum(origins(given(r)'))
        <3>1. CASE aggregators'[r] = aggregators[r]
            BY <1>6, <2>1, <3>1, Zenon DEF Aggregated, origins
        <3>2. CASE aggregators'[r] = {}
            <4>1. given(r) \subseteq Certs
                BY Zenon DEF TypeOK, given, of_round
            <4> QED
                BY <1>6, <2>1, <3>2, <4>1, QuorumGrows, Zenon
        <3> QED
            BY <1>6, <3>1, <3>2, Zenon
    <2>2. \A r \in Rounds : \A c \in aggregators'[r] : RoundOf[c] = r
        BY <1>6, Zenon DEF Aggregated
    <2>3. Aggregated'
        BY <2>1, <2>2, Zenon DEF Aggregated, origins
    <2>4. GivenAreQuorum'
        BY <1>6, Zenon DEF GivenAreQuorum
    <2> QED
        BY <2>3, <2>4, Zenon
<1>7. CASE Restart
    <2>1. \A r \in Rounds : aggregators'[r] = {} /\ given(r)' = {}
        BY <1>7, Zenon DEF Restart, given, of_round
    <2>2. ~ reached_quorum({})
        BY ThresholdArithmetic, StakeAssumption DEF reached_quorum, quorum_threshold
    <2>3. \A r \in Rounds : {OriginOf[c] : c \in aggregators'[r]} = {}
        BY <2>1, Zenon
    <2> QED
        BY <2>1, <2>2, <2>3, Zenon DEF Aggregated, GivenAreQuorum
<1>8. CASE StoreGcRound
    <2>1. /\ UNCHANGED <<parents, recovered>>
          /\ \A r \in Rounds : aggregators'[r] = aggregators[r] \/ aggregators'[r] = {}
        BY <1>8, Zenon DEF StoreGcRound
    <2> QED
        BY <1>6, <2>1, Zenon DEF given
<1>9. CASE Recovery
    BY <1>9, RecoveryAggregated, Zenon
<1> QED
    BY <1>2, <1>3, <1>4, <1>5, <1>7, <1>8, <1>9, AcceptAggregated, Zenon DEF Next, OtherSteps

\* A primary gives its proposer the parents of a round when they are a quorum, and
\* keeps adding to them: if it has fewer, then because the acceptor overtook the
\* recovery task, which has drained the quorum of that round and not sent it.
THEOREM ProposerHasQuorum == Spec => []ParentsAreQuorum
<1>1. Init => AggregatorInv
    <2> SUFFICES ASSUME Init PROVE AggregatorInv
        BY Zenon
    <2>1. \A r \in Rounds : aggregators[r] = {} /\ given(r) = {}
        BY Zenon DEF Init, given, of_round
    <2>2. ~ reached_quorum({})
        BY ThresholdArithmetic, StakeAssumption DEF reached_quorum, quorum_threshold
    <2>3. \A r \in Rounds : {OriginOf[c] : c \in aggregators[r]} = {}
        BY <2>1, Zenon
    <2>4. Aggregated /\ GivenAreQuorum
        BY <2>1, <2>2, <2>3, Zenon DEF Aggregated, GivenAreQuorum
    <2> QED
        BY <2>4, InitType, Zenon DEF AggregatorInv
<1>2. AggregatorInv /\ [Next]_vars => AggregatorInv'
    BY NextType, NextAggregated, Zenon DEF AggregatorInv
<1>3. AggregatorInv => ParentsAreQuorum
    <2>1. ASSUME NEW r \in Rounds, of_round(recovered, r) = {}
          PROVE  given(r) = parents[r]
        BY <2>1, Zenon DEF given
    <2> QED
        BY <2>1, Zenon DEF AggregatorInv, GivenAreQuorum, ParentsAreQuorum, is_quorum
<1> QED
    BY <1>1, <1>2, <1>3, PTL DEF Spec

\* There is nothing to recover before the first restart: until then the proposer has
\* a quorum of parents whenever it has any, as its comment says.
THEOREM ProposerHasQuorumAtFirst == Spec => [](restarts = 0 => FirstParentsAreQuorum)
<1> DEFINE Fresh == restarts = 0 => recovering = {} /\ recovered = {}
<1>1. Init => TypeOK /\ Fresh
    BY InitType, Zenon DEF Init
<1>2. TypeOK /\ Fresh /\ [Next]_vars => TypeOK' /\ Fresh'
    <2> SUFFICES ASSUME TypeOK, Fresh, [Next]_vars
                 PROVE  Fresh'
        BY NextType, Zenon
    <2>1. CASE Restart
        BY <2>1 DEF Restart, TypeOK
    <2>2. CASE Recovery
        BY <2>2, Zenon DEF Recovery, RecoverCertificate, SendRecovered
    <2>3. CASE UNCHANGED <<recovering, recovered, restarts>>
        BY <2>3, Zenon
    <2>4. ASSUME NEW c \in Certs, Receive(c) PROVE UNCHANGED <<recovering, recovered, restarts>>
        BY <2>4, Zenon DEF Receive, try_accept_certificate, accept_own_certificate, submit,
           recovery_vars
    <2>5. FetchResponse => UNCHANGED <<recovering, recovered, restarts>>
        BY Zenon DEF FetchResponse, try_accept_fetched_certificates, submit, recovery_vars
    <2>6. TakeMessage \/ ProcessBatch \/ LockState => UNCHANGED <<recovering, recovered, restarts>>
        BY Zenon DEF TakeMessage, ProcessBatch, process_certificate, UnlockState, LockState,
           recovery_vars
    <2>7. StoreGcRound \/ ReleaseCollected => UNCHANGED <<recovering, recovered, restarts>>
        BY Zenon DEF StoreGcRound, ReleaseCollected, LockForGc, run_gc_once, UnlockAfterGc,
           recovery_vars
    <2>8. ASSUME NEW c \in Certs, accept_certificate_internal(c) \/ Commit(c)
          PROVE  UNCHANGED <<recovering, recovered, restarts>>
        BY <2>8, Zenon DEF accept_certificate_internal, Commit, recovery_vars
    <2>9. ConsensusInsert \/ UNCHANGED vars => UNCHANGED <<recovering, recovered, restarts>>
        BY Zenon DEF ConsensusInsert, vars, recovery_vars
    <2> HIDE DEF Fresh
    <2> QED
        BY <2>1, <2>2, <2>3, <2>4, <2>5, <2>6, <2>7, <2>8, <2>9, Zenon DEF Next, OtherSteps
<1>3. Fresh /\ ParentsAreQuorum => (restarts = 0 => FirstParentsAreQuorum)
    BY Zenon DEF ParentsAreQuorum, FirstParentsAreQuorum, of_round
<1> HIDE DEF Fresh
<1> QED
    BY <1>1, <1>2, <1>3, ProposerHasQuorum, PTL DEF Spec
=============================================================================
