------------------------- MODULE EpochCloseOutcome --------------------------
(***************************************************************************)
(* Proofs about what a validator of EpochClose does by itself, for every   *)
(* committee, set of transactions and number of restarts: the types, its   *)
(* EndOfPublish, and the outcome that handling a commit makes of the one   *)
(* before, in which no transaction is scheduled twice and, if none comes   *)
(* late, which commits alone determine, and nothing that was accepted is   *)
(* left out.                                                               *)
(***************************************************************************)
EXTENDS EpochClose, CommitteeTheorems, SequenceTheorems, FiniteSetTheorems

Certified == {m \in Messages : m.key \in Txs}

Batches == [messages : Seq(Messages), beacon : BOOLEAN]

\* The variables that commits change,
CommitTypes ==
    /\ deferred \in [Honest -> SUBSET [message : Certified, future_round : Nat]]
    /\ beacon_round \in [Honest -> Nat] /\ randomness \in Nat
    /\ scheduled \in [Honest -> Seq(SUBSET Txs)]
    /\ commits \in [Honest -> Seq(Batches)]

\* and the others.
TableTypes ==
    /\ reconfig \in [Honest -> CertStatus]
    /\ pending \in [Honest -> SUBSET Keys] /\ processed \in [Honest -> SUBSET Keys]
    /\ end_of_publish \in [Honest -> SUBSET Authorities]
    /\ executed \in [Honest -> SUBSET Txs] /\ reverted \in [Honest -> SUBSET Txs]
    /\ roots \in [Honest -> SUBSET Txs] /\ requests \in [Honest -> SUBSET Txs]
    /\ late \in [Honest -> SUBSET Messages]
    /\ processed_cache \in [Honest -> SUBSET Keys]
    /\ tasks \in [Honest -> SUBSET (Keys \X Stages)]
    /\ sending \in [Honest -> BOOLEAN] /\ ended \in [Honest -> BOOLEAN]
    /\ in_flight \subseteq Messages
    /\ restarts \in 0..MaxRestarts

Types == CommitTypes /\ TableTypes

\* The randomness updates a validator has yet to handle.
beacons(s) == {i \in 1..Len(s) : s[i].beacon}

\* No validator is ahead of the beacon, and what it deferred is due later.
InTime ==
    \A v \in Honest :
        /\ beacon_round[v] + Cardinality(beacons(commits[v])) <= randomness
        /\ \A d \in deferred[v] : d.future_round \in (beacon_round[v] + 1)..(beacon_round[v] + 2)
        /\ reconfig[v] = "RejectAllTx" => deferred[v] = {}

\* The handler's view of a commit, as handle_consensus_output names it.
sequenced(v, c) == Certificates(v, c) \cup PreviouslyDeferred(v, c)
accepted(v, c) == {m \in sequenced(v, c) : ~Ignored(v, c, m)}
postponed(v, c) == {m \in accepted(v, c) : should_defer(v, c, m)}
transactions(v, c) == {m.key : m \in accepted(v, c) \ postponed(v, c)}
ends(v, c) == {c.messages[i].key : i \in EndsOfPublish(v, c)}
closing(v, c) == process_end_of_publish(v, c)
status(v, c) == advance_reconfig(v, closing(v, c).status, postponed(v, c) # {})
entries(v, c) ==
    {[message |-> m, future_round |-> last_randomness_round(v, c) + 2] : m \in postponed(v, c)}

-----------------------------------------------------------------------------
(***************************************************************************)
(* The handler.                                                            *)
(***************************************************************************)

\* What the handler does to the tables of v with a commit.
Effect(v, c) ==
    /\ ~ended[v] /\ commits[v] # <<>>
    /\ commits' = [commits EXCEPT ![v] = Tail(@)]
    /\ reconfig' = [reconfig EXCEPT ![v] = status(v, c)]
    /\ processed' = [processed EXCEPT ![v] = @ \cup {m.key : m \in accepted(v, c)} \cup ends(v, c)]
    /\ end_of_publish' = [end_of_publish EXCEPT ![v] = closing(v, c).authorities]
    /\ deferred' = [deferred EXCEPT ![v] =
           (@ \ load_deferred_transactions(v, c)) \cup entries(v, c)]
    /\ beacon_round' = [beacon_round EXCEPT ![v] =
           IF should_accept_tx(v) THEN last_randomness_round(v, c) ELSE @]
    /\ scheduled' = [scheduled EXCEPT ![v] =
           IF transactions(v, c) = {} THEN @ ELSE Append(@, transactions(v, c))]
    /\ roots' = [roots EXCEPT ![v] = @ \cup
           IF status(v, c) # "RejectAllTx" \/ status(v, c) # closing(v, c).status
           THEN {m.key : m \in Certificates(v, c)} ELSE {}]
    /\ late' = [late EXCEPT ![v] =
           @ \cup {m \in sequenced(v, c) : SentAfterEndOfPublish(v, m)}]
    /\ processed_cache' = [processed_cache EXCEPT ![v] =
           @ \cup {c.messages[i].key : i \in DOMAIN c.messages}]
    /\ tasks' = [tasks EXCEPT ![v] =
           {IF k[1] \in transactions(v, c) \cup ends(v, c) /\ k[2] \in {"submitting", "sequenced"}
            THEN <<k[1], "processed">> ELSE k : k \in @}]
    /\ UNCHANGED <<pending, executed, requests, sending, ended, reverted, in_flight,
                   randomness, restarts>>

LEMMA HandlerEffect ==
    ASSUME NEW v, handle_consensus_output(v)
    PROVE  Effect(v, Head(commits[v]))
BY Zenon DEF handle_consensus_output, Effect, sequenced, accepted, postponed, transactions, ends,
       closing, status, entries

LEMMA BatchType ==
    ASSUME NEW c \in Batches
    PROVE  /\ c.messages \in Seq(Messages) /\ Len(c.messages) \in Nat /\ c.beacon \in BOOLEAN
           /\ DOMAIN c.messages = 1..Len(c.messages)
           /\ \A i \in DOMAIN c.messages : c.messages[i] \in Messages /\ c.messages[i].key \in Keys
<1>1. c.messages \in Seq(Messages) /\ c.beacon \in BOOLEAN
    BY Zenon DEF Batches
<1>2. Len(c.messages) \in Nat /\ DOMAIN c.messages = 1..Len(c.messages)
    BY <1>1, LenProperties, Zenon
<1>3. \A i \in DOMAIN c.messages : c.messages[i] \in Messages
    BY <1>1, <1>2, ElementOfSeq, Zenon
<1> QED
    BY <1>1, <1>2, <1>3, Zenon DEF Messages

LEMMA HeadBatch ==
    ASSUME Types, NEW v \in Honest, commits[v] # <<>>
    PROVE  /\ Head(commits[v]) \in Batches /\ Tail(commits[v]) \in Seq(Batches)
           /\ commits[v] \in Seq(Batches)
BY HeadTailProperties, Zenon DEF Types, CommitTypes

\* What the handler makes of a commit has the types of the tables.
LEMMA HandlerSets ==
    ASSUME Types, NEW v \in Honest, NEW c \in Batches
    PROVE  /\ Certificates(v, c) \subseteq Certified /\ PreviouslyDeferred(v, c) \subseteq Certified
           /\ sequenced(v, c) \subseteq Certified /\ accepted(v, c) \subseteq Certified
           /\ postponed(v, c) \subseteq Certified
           /\ transactions(v, c) \subseteq Txs /\ ends(v, c) \subseteq Authorities
           /\ last_randomness_round(v, c) \in Nat
           /\ entries(v, c) \subseteq [message : Certified, future_round : Nat]
<1>1. Certificates(v, c) \subseteq Certified
    BY BatchType, Zenon DEF Certificates, Verified, Certified
<1>2. PreviouslyDeferred(v, c) \subseteq Certified
    BY DEF PreviouslyDeferred, load_deferred_transactions, Types, CommitTypes
<1>3. sequenced(v, c) \subseteq Certified /\ accepted(v, c) \subseteq Certified
      /\ postponed(v, c) \subseteq Certified
    BY <1>1, <1>2, Zenon DEF sequenced, accepted, postponed
<1>4. transactions(v, c) \subseteq Txs
    BY <1>3, Zenon DEF transactions, Certified
<1>5. ends(v, c) \subseteq Authorities
    BY Zenon DEF ends, EndsOfPublish
<1>6. last_randomness_round(v, c) \in Nat
    BY DEF last_randomness_round, Types, CommitTypes
<1>7. entries(v, c) \subseteq [message : Certified, future_round : Nat]
    BY <1>3, <1>6 DEF entries
<1> QED
    BY <1>1, <1>2, <1>3, <1>4, <1>5, <1>6, <1>7, Zenon

LEMMA CollectedType ==
    ASSUME Types, NEW v \in Honest, NEW c \in Batches
    PROVE  /\ closing(v, c).authorities \subseteq Authorities
           /\ closing(v, c).status \in {reconfig[v], "RejectAllCerts"}
           /\ status(v, c) \in {reconfig[v], "RejectAllCerts", "RejectAllTx"}
<1>1. \A n : Collected(v, c, n) \subseteq Authorities
    BY Zenon DEF Collected, EndsOfPublish, Types, TableTypes
<1>2. end_of_publish[v] \subseteq Authorities
    BY Zenon DEF Types, TableTypes
<1>3. /\ closing(v, c).authorities \subseteq Authorities
      /\ closing(v, c).status \in {reconfig[v], "RejectAllCerts"}
    BY <1>1, <1>2, Zenon DEF closing, process_end_of_publish
<1> QED
    BY <1>3, Zenon DEF status, advance_reconfig

-----------------------------------------------------------------------------
(***************************************************************************)
(* Types.                                                                  *)
(***************************************************************************)
LEMMA HonestMember ==
    /\ Honest \subseteq Authorities /\ Faulty \subseteq Authorities
    /\ Txs \subseteq Keys /\ Authorities \subseteq Keys /\ MaxRestarts \in Nat
BY FaultAssumption, EpochAssumption, Zenon DEF Honest, Keys

LEMMA TaskType ==
    ASSUME NEW v, NEW key \in Keys
    PROVE  Task(v, key) \in Keys \X Stages
BY Zenon DEF Task, Stages

LEMMA BooleanUpdate ==
    ASSUME NEW f \in [Honest -> BOOLEAN], NEW v \in Honest, NEW x \in BOOLEAN
    PROVE  [f EXCEPT ![v] = x] \in [Honest -> BOOLEAN]
BY Zenon

LEMMA InitTypes == Init => Types
<1> SUFFICES ASSUME Init PROVE Types
    BY Zenon
<1>1. CommitTypes
    BY EmptySeq, Zenon DEF Init, CommitTypes
<1>2. in_flight \subseteq Messages
    BY HonestMember DEF Init, Messages
<1>3. TableTypes
    BY <1>2, HonestMember DEF Init, TableTypes, CertStatus
<1> QED
    BY <1>1, <1>3, Zenon DEF Types

LEMMA AdapterTypes ==
    ASSUME Types, NEW v \in Honest,
           \/ \E t \in Txs : \/ handle_certificate(v, t) \/ execute_certificate(v, t)
                             \/ decide_end_of_publish(v, t)
           \/ \E key \in Keys : remove_pending_consensus_transaction(v, key)
           \/ submit_end_of_publish(v) \/ close_epoch(v) \/ Restart(v)
    PROVE  Types'
<1> USE HonestMember DEF handled, store, memory, consensus
<1>1. \A key \in Keys : Task(v, key) \in Keys \X Stages
    BY TaskType, Zenon
<1>2. v \in Keys
    BY Zenon
<1>3. CommitTypes'
    <2>1. UNCHANGED <<deferred, beacon_round, randomness, scheduled, commits>>
        BY Zenon DEF handle_certificate, execute_certificate, decide_end_of_publish,
           remove_pending_consensus_transaction, submit_end_of_publish, close_epoch, Restart
    <2> QED
        BY <2>1, Zenon DEF Types, CommitTypes
<1>4. TableTypes
    BY Zenon DEF Types
<1>5. ASSUME NEW t \in Txs, handle_certificate(v, t) PROVE TableTypes'
    BY <1>1, <1>4, <1>5 DEF handle_certificate, TableTypes
<1>6. ASSUME NEW t \in Txs, execute_certificate(v, t) PROVE TableTypes'
    BY <1>4, <1>6, Zenon DEF execute_certificate, TableTypes
<1>7. ASSUME NEW t \in Txs, decide_end_of_publish(v, t) PROVE TableTypes'
    BY <1>1, <1>2, <1>4, <1>7 DEF decide_end_of_publish, TableTypes
<1>8. ASSUME NEW key \in Keys, remove_pending_consensus_transaction(v, key) PROVE TableTypes'
    <2>1. <<key, "removed">> \in Keys \X Stages
        BY Zenon DEF Stages
    <2> QED
        BY <1>4, <1>8, <2>1, Zenon DEF remove_pending_consensus_transaction, TableTypes
<1>9. ASSUME submit_end_of_publish(v) PROVE TableTypes'
    <2>1. sending' \in [Honest -> BOOLEAN]
        BY <1>4, <1>9, BooleanUpdate, Zenon DEF submit_end_of_publish, TableTypes
    <2>2. /\ pending' = [pending EXCEPT ![v] = @ \cup {v}]
          /\ tasks' = [tasks EXCEPT ![v] = @ \cup {Task(v, v)}]
          /\ UNCHANGED <<reconfig, handled, executed, processed_cache, requests, ended, reverted,
                         in_flight, restarts>>
        BY <1>9, Zenon DEF submit_end_of_publish
    <2> QED
        BY <1>1, <1>2, <1>4, <2>1, <2>2 DEF TableTypes
<1>10. ASSUME close_epoch(v) PROVE TableTypes'
    <2>1. sending' \in [Honest -> BOOLEAN]
        BY <1>4, <1>10, BooleanUpdate, Zenon DEF close_epoch, TableTypes
    <2>2. /\ reconfig' = [reconfig EXCEPT ![v] = "RejectUserCerts"]
          /\ UNCHANGED <<pending, handled, executed, processed_cache, requests, tasks, ended,
                         reverted, in_flight, restarts>>
        BY <1>10, Zenon DEF close_epoch
    <2> QED
        BY <1>4, <2>1, <2>2, Zenon DEF TableTypes, CertStatus
<1>11. ASSUME Restart(v) PROVE TableTypes'
    <2>1. submit_recovered(v) \subseteq Keys
        BY <1>2, <1>4, Zenon DEF submit_recovered, TableTypes
    <2>2. {Task(v, key) : key \in submit_recovered(v)} \subseteq Keys \X Stages
        BY <1>1, <2>1, Zenon
    <2>3. in_flight' \subseteq Messages
        BY <1>4, <1>11 DEF Restart, TableTypes, submit_to_consensus, Messages
    <2>4. restarts' \in 0..MaxRestarts
        BY <1>4, <1>11 DEF Restart, TableTypes
    <2>5. sending' \in [Honest -> BOOLEAN]
        BY <1>4, <1>11, BooleanUpdate, Zenon DEF Restart, TableTypes
    <2>6. /\ processed_cache' = [processed_cache EXCEPT ![v] = {}]
          /\ requests' = [requests EXCEPT ![v] = {}]
          /\ tasks' = [tasks EXCEPT ![v] = {Task(v, key) : key \in submit_recovered(v)}]
          /\ UNCHANGED <<store, ended, reverted>>
        BY <1>11, Zenon DEF Restart
    <2> QED
        BY <1>4, <2>2, <2>3, <2>4, <2>5, <2>6, Zenon DEF TableTypes
<1> QED
    BY <1>3, <1>5, <1>6, <1>7, <1>8, <1>9, <1>10, <1>11, Zenon DEF Types

LEMMA ReconfigureTypes ==
    ASSUME Types, NEW v \in Honest, reconfigure(v)
    PROVE  Types'
<1> USE DEF handled
<1>1. commits' = [commits EXCEPT ![v] = <<>>] /\ UNCHANGED <<deferred, beacon_round, randomness, scheduled>>
    BY Zenon DEF reconfigure
<1>2. CommitTypes'
    BY <1>1, EmptySeq, Zenon DEF Types, CommitTypes
<1>3. PICK w \in Concluded :
          /\ reverted' = [reverted EXCEPT ![v] = revert_uncommitted_epoch_transactions(v, roots[w])]
          /\ executed' = [executed EXCEPT ![v] = (@ \cup roots[w]) \ reverted'[v]]
    BY Zenon DEF reconfigure
<1>4. w \in Honest
    BY Zenon DEF Concluded
<1>5. reverted' \in [Honest -> SUBSET Txs] /\ executed' \in [Honest -> SUBSET Txs]
    BY <1>3, <1>4, Zenon DEF Types, TableTypes, revert_uncommitted_epoch_transactions
<1>6. TableTypes'
    BY <1>5, Zenon DEF reconfigure, Types, TableTypes, CertStatus
<1> QED
    BY <1>2, <1>6, Zenon DEF Types

LEMMA HandlerTypes ==
    ASSUME Types, NEW v \in Honest, handle_consensus_output(v)
    PROVE  Types'
<1> DEFINE c == Head(commits[v])
<1>1. commits[v] # <<>>
    BY Zenon DEF handle_consensus_output
<1>2. c \in Batches /\ Tail(commits[v]) \in Seq(Batches)
    BY <1>1, HeadBatch, Zenon
<1> HIDE DEF c
<1>3. Effect(v, c)
    BY HandlerEffect, Zenon DEF c
<1>4. CommitTypes'
    <2>1. commits' \in [Honest -> Seq(Batches)]
        BY <1>2, <1>3, Zenon DEF Effect, Types, CommitTypes
    <2>2. deferred' \in [Honest -> SUBSET [message : Certified, future_round : Nat]]
        <3>1. entries(v, c) \subseteq [message : Certified, future_round : Nat]
            BY <1>2, HandlerSets, Zenon
        <3> QED
            BY <1>3, <3>1, Zenon DEF Effect, Types, CommitTypes
    <2>3. beacon_round' \in [Honest -> Nat] /\ randomness' \in Nat
        <3>1. last_randomness_round(v, c) \in Nat
            BY <1>2, HandlerSets, Zenon
        <3> QED
            BY <1>3, <3>1, Zenon DEF Effect, Types, CommitTypes
    <2>4. scheduled' \in [Honest -> Seq(SUBSET Txs)]
        <3>1. transactions(v, c) \in SUBSET Txs
            BY <1>2, HandlerSets, Zenon
        <3>2. Append(scheduled[v], transactions(v, c)) \in Seq(SUBSET Txs)
            BY <3>1, AppendProperties, Zenon DEF Types, CommitTypes
        <3> QED
            BY <1>3, <3>2, Zenon DEF Effect, Types, CommitTypes
    <2> QED
        BY <2>1, <2>2, <2>3, <2>4, Zenon DEF CommitTypes
<1>5. TableTypes
    BY Zenon DEF Types
<1>6. /\ {m.key : m \in accepted(v, c)} \subseteq Keys /\ ends(v, c) \subseteq Keys
      /\ {m.key : m \in Certificates(v, c)} \subseteq Txs /\ sequenced(v, c) \subseteq Messages
      /\ {c.messages[i].key : i \in DOMAIN c.messages} \subseteq Keys
    BY <1>2, HandlerSets, BatchType, Zenon DEF Certified, Keys
<1>7. reconfig' \in [Honest -> CertStatus] /\ end_of_publish' \in [Honest -> SUBSET Authorities]
    BY <1>2, <1>3, <1>5, CollectedType, Zenon DEF Effect, TableTypes, CertStatus
<1>8. processed' \in [Honest -> SUBSET Keys] /\ processed_cache' \in [Honest -> SUBSET Keys]
    BY <1>3, <1>5, <1>6, Zenon DEF Effect, TableTypes
<1>9. roots' \in [Honest -> SUBSET Txs] /\ late' \in [Honest -> SUBSET Messages]
    BY <1>3, <1>5, <1>6, Zenon DEF Effect, TableTypes
<1>10. tasks' \in [Honest -> SUBSET (Keys \X Stages)]
    BY <1>3, <1>5 DEF Effect, TableTypes, Stages
<1> QED
    BY <1>3, <1>4, <1>5, <1>7, <1>8, <1>9, <1>10, Zenon DEF Effect, Types, TableTypes

LEMMA SubmittedType ==
    ASSUME Types
    PROVE  Submitted \subseteq Messages
<1>1. ASSUME NEW v \in Honest PROVE submit_to_consensus(v) \subseteq Messages
    BY HonestMember DEF submit_to_consensus, Messages, Types, TableTypes
<1> QED
    BY <1>1, Zenon DEF Submitted, Types, TableTypes

\* A commit of consensus, as it reaches the validators.
LEMMA CommitEffect ==
    ASSUME Types, Commit
    PROVE  \E c \in Batches :
               /\ \A i \in DOMAIN c.messages : c.messages[i] \in Submitted
               /\ commits' = [v \in Honest |-> Append(commits[v], c)]
               /\ randomness' = IF c.beacon THEN randomness + 1 ELSE randomness
<1>1. PICK messages \in Seqs(Submitted), beacon \in BOOLEAN :
          /\ commits' = [v \in Honest |->
                 Append(commits[v], [messages |-> messages, beacon |-> beacon])]
          /\ randomness' = IF beacon THEN randomness + 1 ELSE randomness
    BY Zenon DEF Commit
<1>2. PICK n \in 0..CommitSize : messages \in [1..n -> Submitted]
    BY Zenon DEF Seqs
<1>3. messages \in Seq(Messages)
    <2>1. n \in Nat /\ messages \in [1..n -> Messages]
        BY <1>2, SubmittedType, EpochAssumption
    <2> QED
        BY <2>1, SeqDef, Zenon
<1>4. [messages |-> messages, beacon |-> beacon] \in Batches
    BY <1>3, Zenon DEF Batches
<1>5. \A i \in DOMAIN messages : messages[i] \in Submitted
    BY <1>2, Zenon
<1> QED
    BY <1>1, <1>4, <1>5, Zenon

LEMMA CommitStepTypes ==
    ASSUME Types, Commit
    PROVE  Types'
<1>1. PICK c \in Batches :
          /\ commits' = [v \in Honest |-> Append(commits[v], c)]
          /\ randomness' = IF c.beacon THEN randomness + 1 ELSE randomness
    BY CommitEffect, Zenon
<1>2. \A v \in Honest : Append(commits[v], c) \in Seq(Batches)
    BY AppendProperties, Zenon DEF Types, CommitTypes
<1>3. UNCHANGED <<store, processed_cache, requests, sending, ended, reverted, restarts>>
    BY Zenon DEF Commit
<1>4. CommitTypes'
    BY <1>1, <1>2, <1>3 DEF Types, CommitTypes, store, handled
<1>5. PICK messages \in Seqs(Submitted), beacon \in BOOLEAN :
          LET sequenced_messages == {messages[i] : i \in DOMAIN messages}
          IN  /\ in_flight' = in_flight \ sequenced_messages
              /\ tasks' = [v \in Honest |->
                     {IF k[2] = "submitting" /\ [author |-> v, key |-> k[1]] \in sequenced_messages
                      THEN <<k[1], "sequenced">> ELSE k : k \in tasks[v]}]
    BY Zenon DEF Commit
<1> DEFINE sent(v, k) == k[2] = "submitting"
                         /\ [author |-> v, key |-> k[1]] \in {messages[i] : i \in DOMAIN messages}
<1>6. tasks' \in [Honest -> SUBSET (Keys \X Stages)]
    <2>1. tasks' = [v \in Honest |->
                       {IF sent(v, k) THEN <<k[1], "sequenced">> ELSE k : k \in tasks[v]}]
        BY <1>5, Zenon
    <2> HIDE DEF sent
    <2> QED
        BY <2>1 DEF Types, TableTypes, Stages
<1>7. in_flight' \subseteq Messages
    BY <1>5, Zenon DEF Types, TableTypes
<1>8. TableTypes'
    BY <1>3, <1>6, <1>7, Zenon DEF Types, TableTypes, store, handled
<1> QED
    BY <1>4, <1>8, Zenon DEF Types

LEMMA NextTypes == Types /\ [Next]_vars => Types'
<1> SUFFICES ASSUME Types, [Next]_vars PROVE Types'
    BY Zenon
<1>1. CASE UNCHANGED vars
    BY <1>1, Zenon DEF vars, store, handled, memory, consensus, Types, CommitTypes, TableTypes
<1>2. CASE Next
    BY <1>2, CommitStepTypes, AdapterTypes, HandlerTypes, ReconfigureTypes, Zenon DEF Next, Progress
<1> QED
    BY <1>1, <1>2, Zenon

-----------------------------------------------------------------------------
(***************************************************************************)
(* The beacon and what is deferred.                                        *)
(***************************************************************************)
LEMMA BeaconsFinite ==
    ASSUME NEW s \in Seq(Batches)
    PROVE  /\ IsFiniteSet(beacons(s)) /\ Cardinality(beacons(s)) \in Nat
           /\ Len(s) \in Nat /\ beacons(s) \subseteq 1..Len(s)
<1>1. Len(s) \in Nat
    BY LenProperties, Zenon
<1>2. beacons(s) \subseteq 1..Len(s)
    BY Zenon DEF beacons
<1>3. IsFiniteSet(1..Len(s))
    BY <1>1, FS_Interval
<1>4. IsFiniteSet(beacons(s))
    BY <1>2, <1>3, FS_Subset, Zenon
<1> QED
    BY <1>1, <1>2, <1>4, FS_CardinalityType, Zenon

LEMMA BeaconsAppend ==
    ASSUME NEW s \in Seq(Batches), NEW c \in Batches
    PROVE  Cardinality(beacons(Append(s, c))) <=
               Cardinality(beacons(s)) + (IF c.beacon THEN 1 ELSE 0)
<1> DEFINE n == Len(s)
<1>1. /\ n \in Nat /\ Len(Append(s, c)) = n + 1 /\ Append(s, c)[n + 1] = c
      /\ \A i \in 1..n : Append(s, c)[i] = s[i]
    BY AppendProperties, LenProperties
<1>2. \A i \in 1..(n + 1) : i \in 1..n \/ i = n + 1
    BY <1>1
<1>3. CASE c.beacon
    <2>1. beacons(Append(s, c)) \subseteq beacons(s) \cup {n + 1}
        BY <1>1, <1>2, Zenon DEF beacons
    <2>2. IsFiniteSet(beacons(s) \cup {n + 1})
          /\ Cardinality(beacons(s) \cup {n + 1}) <= Cardinality(beacons(s)) + 1
        <3>1. IsFiniteSet(beacons(s)) /\ Cardinality(beacons(s)) \in Nat
            BY BeaconsFinite, Zenon
        <3>2. /\ IsFiniteSet(beacons(s) \cup {n + 1})
              /\ Cardinality(beacons(s) \cup {n + 1}) =
                     IF n + 1 \in beacons(s) THEN Cardinality(beacons(s)) ELSE Cardinality(beacons(s)) + 1
            BY <3>1, FS_AddElement, Zenon
        <3> QED
            BY <3>1, <3>2
    <2>3. Cardinality(beacons(Append(s, c))) <= Cardinality(beacons(s) \cup {n + 1})
        BY <2>1, <2>2, FS_Subset, Zenon
    <2>4. Append(s, c) \in Seq(Batches)
        BY AppendProperties, Zenon
    <2>5. /\ Cardinality(beacons(Append(s, c))) \in Nat /\ Cardinality(beacons(s)) \in Nat
          /\ Cardinality(beacons(s) \cup {n + 1}) \in Nat
        BY <2>2, <2>4, BeaconsFinite, FS_CardinalityType, Zenon
    <2> QED
        BY <1>3, <2>2, <2>3, <2>5
<1>4. CASE ~c.beacon
    <2>1. beacons(Append(s, c)) = beacons(s)
        <3>1. 1..n \subseteq 1..(n + 1)
            BY <1>1
        <3> QED
            BY <1>1, <1>2, <1>4, <3>1, Zenon DEF beacons
    <2> QED
        BY <1>4, <2>1, BeaconsFinite
<1> QED
    BY <1>3, <1>4, Zenon

LEMMA BeaconsTail ==
    ASSUME NEW s \in Seq(Batches), s # <<>>
    PROVE  Cardinality(beacons(Tail(s))) + (IF Head(s).beacon THEN 1 ELSE 0) <= Cardinality(beacons(s))
<1> DEFINE B == beacons(s) \ {1}
           f == [i \in beacons(Tail(s)) |-> i + 1]
<1>1. /\ Len(s) \in Nat \ {0} /\ Tail(s) \in Seq(Batches) /\ Len(Tail(s)) = Len(s) - 1
      /\ \A i \in 1..Len(Tail(s)) : Tail(s)[i] = s[i + 1]
      /\ Head(s) = s[1]
    BY HeadTailProperties, EmptySeq
<1>2. f \in Injection(beacons(Tail(s)), B)
    <2>1. ASSUME NEW i \in beacons(Tail(s)) PROVE i + 1 \in B /\ i \in Nat
        <3>1. i \in 1..Len(Tail(s)) /\ Tail(s)[i].beacon
            BY Zenon DEF beacons
        <3>2. i + 1 \in 1..Len(s) /\ s[i + 1].beacon /\ i + 1 # 1 /\ i \in Nat
            BY <1>1, <3>1
        <3> QED
            BY <3>2, Zenon DEF beacons
    <2>2. \A i, j \in beacons(Tail(s)) : i + 1 = j + 1 => i = j
        BY <2>1
    <2> QED
        BY <2>1, <2>2, Zenon DEF Injection, IsInjective
<1>3. /\ IsFiniteSet(B)
      /\ Cardinality(B) = IF 1 \in beacons(s) THEN Cardinality(beacons(s)) - 1 ELSE Cardinality(beacons(s))
    BY BeaconsFinite, FS_RemoveElement, Zenon
<1>4. Cardinality(beacons(Tail(s))) <= Cardinality(B)
    BY <1>2, <1>3, FS_Injection, Zenon
<1>5. Head(s).beacon => 1 \in beacons(s)
    BY <1>1 DEF beacons
<1>6. Cardinality(beacons(Tail(s))) \in Nat /\ Cardinality(beacons(s)) \in Nat
    BY <1>1, BeaconsFinite, Zenon
<1> HIDE DEF B
<1> QED
    BY <1>3, <1>4, <1>5, <1>6

LEMMA InitInTime == Init => InTime
<1> SUFFICES ASSUME Init, NEW v \in Honest
             PROVE  /\ beacon_round[v] + Cardinality(beacons(commits[v])) <= randomness
                    /\ deferred[v] = {}
    BY Zenon DEF InTime
<1>1. beacons(<<>>) = {}
    BY EmptySeq DEF beacons
<1>2. Cardinality(beacons(<<>>)) = 0
    BY <1>1, FS_EmptySet, Zenon
<1> QED
    BY <1>2 DEF Init

LEMMA SameInTime ==
    ASSUME Types, InTime, UNCHANGED <<beacon_round, randomness, commits, deferred>>,
           \A v \in Honest : reconfig'[v] = "RejectAllTx" => reconfig[v] = "RejectAllTx"
    PROVE  InTime'
BY Zenon DEF InTime

LEMMA CommitInTime ==
    ASSUME Types, InTime, Commit
    PROVE  InTime'
<1>1. PICK c \in Batches :
          /\ commits' = [v \in Honest |-> Append(commits[v], c)]
          /\ randomness' = IF c.beacon THEN randomness + 1 ELSE randomness
    BY CommitEffect, Zenon
<1>2. UNCHANGED <<beacon_round, deferred, reconfig>>
    BY Zenon DEF Commit, store, handled
<1>3. ASSUME NEW v \in Honest
      PROVE  beacon_round[v] + Cardinality(beacons(Append(commits[v], c))) <= randomness'
    <2>1. commits[v] \in Seq(Batches) /\ Append(commits[v], c) \in Seq(Batches)
        BY AppendProperties, Zenon DEF Types, CommitTypes
    <2>2. Cardinality(beacons(Append(commits[v], c))) <=
              Cardinality(beacons(commits[v])) + (IF c.beacon THEN 1 ELSE 0)
        BY <2>1, BeaconsAppend, Zenon
    <2>3. Cardinality(beacons(Append(commits[v], c))) \in Nat /\ Cardinality(beacons(commits[v])) \in Nat
        BY <2>1, BeaconsFinite, Zenon
    <2>4. /\ beacon_round[v] + Cardinality(beacons(commits[v])) <= randomness
          /\ beacon_round[v] \in Nat /\ randomness \in Nat
        BY Zenon DEF InTime, Types, CommitTypes
    <2> QED
        BY <1>1, <2>2, <2>3, <2>4
<1> QED
    BY <1>1, <1>2, <1>3, Zenon DEF InTime

\* Every commit takes what is due out of the table, and what it adds is due in
\* two rounds; the last commit of the epoch finds the table empty.
LEMMA HandlerInTime ==
    ASSUME Types, InTime, NEW v \in Honest, handle_consensus_output(v)
    PROVE  InTime'
<1> DEFINE c == Head(commits[v])
           last == last_randomness_round(v, c)
<1>1. commits[v] # <<>>
    BY Zenon DEF handle_consensus_output
<1>2. c \in Batches /\ commits[v] \in Seq(Batches) /\ Tail(commits[v]) \in Seq(Batches)
    BY <1>1, HeadBatch, Zenon
<1>3. Effect(v, c)
    BY HandlerEffect, Zenon
<1>4. /\ last = beacon_round[v] + (IF c.beacon THEN 1 ELSE 0)
      /\ beacon_round[v] \in Nat /\ last \in Nat /\ randomness \in Nat
    BY <1>2, HandlerSets, Zenon DEF last_randomness_round, Types, CommitTypes
<1>5. /\ commits' = [commits EXCEPT ![v] = Tail(@)]
      /\ deferred' = [deferred EXCEPT ![v] = (@ \ load_deferred_transactions(v, c)) \cup entries(v, c)]
      /\ beacon_round' = [beacon_round EXCEPT ![v] = IF should_accept_tx(v) THEN last ELSE @]
      /\ reconfig' = [reconfig EXCEPT ![v] = status(v, c)]
      /\ UNCHANGED randomness
    BY <1>3, Zenon DEF Effect
<1>6. /\ Cardinality(beacons(Tail(commits[v]))) + (IF c.beacon THEN 1 ELSE 0)
             <= Cardinality(beacons(commits[v]))
      /\ Cardinality(beacons(Tail(commits[v]))) \in Nat /\ Cardinality(beacons(commits[v])) \in Nat
    BY <1>1, <1>2, BeaconsTail, BeaconsFinite, Zenon
<1>7. \A d \in deferred[v] : d.future_round \in (beacon_round[v] + 1)..(beacon_round[v] + 2)
    BY Zenon DEF InTime
<1>8. \A d \in entries(v, c) : d.future_round = last + 2
    BY DEF entries
<1>9. \A d \in deferred[v] \ load_deferred_transactions(v, c) : d.future_round # last
    BY Zenon DEF load_deferred_transactions
<1> HIDE DEF c, last
<1>10. beacon_round'[v] + Cardinality(beacons(commits'[v])) <= randomness'
    <2>1. beacon_round[v] + Cardinality(beacons(commits[v])) <= randomness
        BY Zenon DEF InTime
    <2>2. beacon_round'[v] <= last /\ beacon_round'[v] \in Nat /\ commits'[v] = Tail(commits[v])
        BY <1>4, <1>5 DEF Types, CommitTypes
    <2> QED
        BY <1>4, <1>5, <1>6, <2>1, <2>2
<1>11. reconfig[v] = "RejectAllTx" => deferred[v] = {} /\ entries(v, c) = {}
    <2> SUFFICES ASSUME reconfig[v] = "RejectAllTx" PROVE deferred[v] = {} /\ entries(v, c) = {}
        BY Zenon
    <2>1. deferred[v] = {}
        BY Zenon DEF InTime
    <2>2. PreviouslyDeferred(v, c) = {}
        BY <2>1, Zenon DEF PreviouslyDeferred, load_deferred_transactions
    <2>3. accepted(v, c) = {}
        BY <2>2, Zenon DEF accepted, sequenced, Ignored, should_accept_consensus_certs
    <2> QED
        BY <2>1, <2>3, Zenon DEF entries, postponed
<1>12. ASSUME NEW d \in deferred'[v]
       PROVE  d.future_round \in (beacon_round'[v] + 1)..(beacon_round'[v] + 2)
    <2>1. d \in deferred[v] \ load_deferred_transactions(v, c) \/ d \in entries(v, c)
        BY <1>5, <1>12, Zenon DEF Types, CommitTypes
    <2>2. beacon_round'[v] = last
        BY <1>5, <1>11, <2>1, Zenon DEF should_accept_tx, Types, CommitTypes
    <2>3. CASE d \in entries(v, c)
        BY <1>4, <1>8, <2>2, <2>3
    <2>4. CASE d \in deferred[v] \ load_deferred_transactions(v, c)
        BY <1>4, <1>7, <1>9, <2>2, <2>4
    <2> QED
        BY <2>1, <2>3, <2>4, Zenon
<1>13. ASSUME reconfig'[v] = "RejectAllTx"
       PROVE  deferred'[v] = {}
    <2>1. status(v, c) = "RejectAllTx"
        BY <1>5, <1>13, Zenon DEF Types, TableTypes
    <2>2. CASE reconfig[v] = "RejectAllTx"
        BY <1>5, <1>11, <2>2, Zenon DEF Types, CommitTypes
    <2>3. CASE reconfig[v] # "RejectAllTx"
        <3>1. closing(v, c).status # "RejectAllTx"
            BY <1>2, <2>3, CollectedType, Zenon
        <3>2. deferred[v] = {} /\ postponed(v, c) = {}
            BY <2>1, <3>1, Zenon DEF status, advance_reconfig
        <3> QED
            BY <1>5, <3>2, Zenon DEF entries, Types, CommitTypes
    <2> QED
        BY <2>2, <2>3, Zenon
<1>14. ASSUME NEW w \in Honest, w # v
       PROVE  /\ beacon_round'[w] = beacon_round[w] /\ commits'[w] = commits[w]
              /\ deferred'[w] = deferred[w] /\ reconfig'[w] = reconfig[w]
    BY <1>5, <1>14, Zenon DEF Types, CommitTypes, TableTypes
<1> QED
    BY <1>5, <1>10, <1>12, <1>13, <1>14, Zenon DEF InTime

LEMMA NextInTime == Types /\ InTime /\ [Next]_vars => InTime'
<1> SUFFICES ASSUME Types, InTime, [Next]_vars PROVE InTime'
    BY Zenon
<1> USE DEF store, handled, consensus
<1>1. CASE UNCHANGED vars
    BY <1>1, SameInTime, Zenon DEF vars
<1>2. CASE Commit
    BY <1>2, CommitInTime, Zenon
<1>3. ASSUME NEW v \in Honest,
             \/ \E t \in Txs : \/ handle_certificate(v, t) \/ execute_certificate(v, t)
                               \/ decide_end_of_publish(v, t)
             \/ \E key \in Keys : remove_pending_consensus_transaction(v, key)
             \/ submit_end_of_publish(v) \/ Restart(v)
      PROVE  InTime'
    <2>1. UNCHANGED <<beacon_round, randomness, commits, deferred, reconfig>>
        BY <1>3, Zenon DEF handle_certificate, execute_certificate, decide_end_of_publish,
           remove_pending_consensus_transaction, submit_end_of_publish, Restart
    <2> QED
        BY <2>1, SameInTime, Zenon
<1>4. ASSUME NEW v \in Honest, close_epoch(v) PROVE InTime'
    <2>1. UNCHANGED <<beacon_round, randomness, commits, deferred>>
          /\ reconfig' = [reconfig EXCEPT ![v] = "RejectUserCerts"]
        BY <1>4, Zenon DEF close_epoch
    <2>2. \A w \in Honest : reconfig'[w] = "RejectAllTx" => reconfig[w] = "RejectAllTx"
        BY <2>1, Zenon DEF Types, TableTypes
    <2> QED
        BY <2>1, <2>2, SameInTime, Zenon
<1>5. ASSUME NEW v \in Honest, reconfigure(v) PROVE InTime'
    <2>1. /\ UNCHANGED <<beacon_round, randomness, deferred>>
          /\ commits' = [commits EXCEPT ![v] = <<>>]
          /\ reconfig' = [reconfig EXCEPT ![v] =
                 IF should_accept_user_certs(v) THEN "RejectUserCerts" ELSE @]
        BY <1>5, Zenon DEF reconfigure
    <2>2. \A w \in Honest : reconfig'[w] = "RejectAllTx" => reconfig[w] = "RejectAllTx"
        BY <2>1, Zenon DEF Types, TableTypes
    <2>3. ASSUME NEW w \in Honest
          PROVE  beacon_round[w] + Cardinality(beacons(commits'[w])) <= randomness
        <3>1. /\ beacon_round[w] + Cardinality(beacons(commits[w])) <= randomness
              /\ beacon_round[w] \in Nat /\ randomness \in Nat
              /\ Cardinality(beacons(commits[w])) \in Nat
            BY BeaconsFinite, Zenon DEF InTime, Types, CommitTypes
        <3>2. CASE w = v
            <4>1. beacons(<<>>) = {}
                BY EmptySeq DEF beacons
            <4>2. commits'[w] = <<>> /\ Cardinality(beacons(<<>>)) = 0
                BY <2>1, <3>2, <4>1, FS_EmptySet, Zenon DEF Types, CommitTypes
            <4> QED
                BY <3>1, <4>2
        <3>3. CASE w # v
            BY <2>1, <3>1, <3>3, Zenon DEF Types, CommitTypes
        <3> QED
            BY <3>2, <3>3, Zenon
    <2> QED
        BY <2>1, <2>2, <2>3, Zenon DEF InTime
<1> QED
    BY <1>1, <1>2, <1>3, <1>4, <1>5, HandlerInTime, Zenon DEF Next, Progress

\* Every table keeps its type; no validator is ahead of the randomness beacon,
\* and every deferred transaction is due within two of its rounds.
THEOREM TypeCorrect == Spec => []TypeOK
<1>1. Init => Types /\ InTime
    BY InitTypes, InitInTime, Zenon
<1>2. Types /\ InTime /\ [Next]_vars => (Types /\ InTime)'
    BY NextTypes, NextInTime, Zenon
<1>3. Types /\ InTime => TypeOK
    <2> SUFFICES ASSUME Types, InTime PROVE TypeOK
        BY Zenon
    <2>1. ASSUME NEW v \in Honest PROVE beacon_round[v] \in 0..randomness
        <3>1. /\ beacon_round[v] + Cardinality(beacons(commits[v])) <= randomness
              /\ beacon_round[v] \in Nat /\ randomness \in Nat
              /\ Cardinality(beacons(commits[v])) \in Nat
            BY BeaconsFinite, Zenon DEF InTime, Types, CommitTypes
        <3> QED
            BY <3>1
    <2>2. ASSUME NEW v \in Honest, NEW d \in deferred[v]
          PROVE  d.message \in Messages /\ d.future_round \in beacon_round[v]..(beacon_round[v] + 2)
        BY <2>2 DEF InTime, Types, CommitTypes, Certified
    <2>3. ASSUME NEW v \in Honest PROVE Scheduled(v) \subseteq Txs
        <3>1. \A i \in DOMAIN scheduled[v] : scheduled[v][i] \subseteq Txs
            BY ElementOfSeq, LenProperties DEF Types, CommitTypes
        <3> QED
            BY <3>1, Zenon DEF Scheduled
    <2> QED
        BY <2>1, <2>2, <2>3, Zenon DEF Types, TableTypes, TypeOK
<1> QED
    BY <1>1, <1>2, <1>3, PTL DEF Spec
-----------------------------------------------------------------------------
(***************************************************************************)
(* EndOfPublish is sent.                                                   *)
(***************************************************************************)

\* A task hears that consensus processed its transaction after it did.
TasksTell == \A v \in Honest : \A k \in tasks[v] : k[2] = "processed" => k[1] \in processed[v]

\* While no validator has restarted.
Reintroduced == restarts = 0 => EndOfPublishReintroduced

SentInv == Types /\ TasksTell /\ Reintroduced

\* What EndOfPublishReintroduced says of one validator.
Sends(v) ==
    (reconfig[v] = "RejectUserCerts" /\ pending_consensus_certificates(v) = {} /\ ~ended[v])
        => \/ v \in pending[v] \cup processed[v]
           \/ sending[v]
           \/ \E t \in Txs : <<t, "removed">> \in tasks[v]

LEMMA HandlerSends ==
    ASSUME SentInv, NEW v \in Honest, handle_consensus_output(v)
    PROVE  TasksTell' /\ Reintroduced'
<1> DEFINE c == Head(commits[v])
           told == transactions(v, c) \cup ends(v, c)
           heard(k) == IF k[1] \in told /\ k[2] \in {"submitting", "sequenced"}
                       THEN <<k[1], "processed">> ELSE k
<1>1. commits[v] # <<>> /\ Types /\ TasksTell /\ Reintroduced
    BY Zenon DEF handle_consensus_output, SentInv
<1>2. Effect(v, c)
    BY HandlerEffect, Zenon
<1>3. /\ processed'[v] = processed[v] \cup {m.key : m \in accepted(v, c)} \cup ends(v, c)
      /\ tasks'[v] = {heard(k) : k \in tasks[v]}
      /\ reconfig'[v] = status(v, c)
      /\ \A w \in Honest \ {v} : /\ processed'[w] = processed[w] /\ tasks'[w] = tasks[w]
                                 /\ reconfig'[w] = reconfig[w]
      /\ pending' = pending /\ sending' = sending /\ ended' = ended /\ restarts' = restarts
    BY <1>1, <1>2, Zenon DEF Effect, Types, TableTypes
<1>4. told \subseteq processed'[v]
    <2>1. transactions(v, c) \subseteq {m.key : m \in accepted(v, c)}
        BY Zenon DEF transactions
    <2> QED
        BY <1>3, <2>1, Zenon
<1>5. \A k \in tasks[v] : k \in Keys \X Stages
    BY <1>1, Zenon DEF Types, TableTypes
<1>6. status(v, c) = "RejectUserCerts" => reconfig[v] = "RejectUserCerts"
    BY Zenon DEF status, closing, advance_reconfig, process_end_of_publish
<1> HIDE DEF c, told
<1>7. \A k \in tasks'[v] : k[2] = "processed" => k[1] \in processed'[v]
    <2> SUFFICES ASSUME NEW k \in tasks[v], heard(k)[2] = "processed"
                 PROVE  heard(k)[1] \in processed'[v]
        BY <1>3, Zenon
    <2>1. CASE k[1] \in told /\ k[2] \in {"submitting", "sequenced"}
        BY <1>4, <2>1, Zenon
    <2>2. CASE ~(k[1] \in told /\ k[2] \in {"submitting", "sequenced"})
        BY <1>1, <1>3, <2>2, Zenon DEF TasksTell
    <2> QED
        BY <2>1, <2>2, Zenon
<1>8. TasksTell'
    BY <1>1, <1>3, <1>7, Zenon DEF TasksTell
<1>9. \A t : <<t, "removed">> \in tasks[v] => <<t, "removed">> \in tasks'[v]
    <2> SUFFICES ASSUME NEW t, <<t, "removed">> \in tasks[v] PROVE <<t, "removed">> \in tasks'[v]
        BY Zenon
    <2>1. heard(<<t, "removed">>) = <<t, "removed">>
        BY Zenon
    <2> HIDE DEF heard
    <2> QED
        BY <1>3, <2>1, Zenon
<1>10. ASSUME NEW w \in Honest, Sends(w) PROVE Sends(w)'
    BY <1>3, <1>6, <1>9, <1>10, Zenon DEF Sends, pending_consensus_certificates
<1>11. Reintroduced'
    BY <1>1, <1>3, <1>10, Zenon DEF Reintroduced, EndOfPublishReintroduced, Sends
<1> QED
    BY <1>8, <1>11, Zenon

LEMMA CommitSends ==
    ASSUME SentInv, Commit
    PROVE  TasksTell' /\ Reintroduced'
<1> DEFINE moved(v, S) == {IF k[2] = "submitting" /\ [author |-> v, key |-> k[1]] \in S
                           THEN <<k[1], "sequenced">> ELSE k : k \in tasks[v]}
<1>1. \E S : tasks' = [v \in Honest |-> moved(v, S)]
    <2>1. PICK messages \in Seqs(Submitted), beacon \in BOOLEAN :
              LET sequenced_messages == {messages[i] : i \in DOMAIN messages}
              IN  tasks' = [v \in Honest |->
                      {IF k[2] = "submitting" /\ [author |-> v, key |-> k[1]] \in sequenced_messages
                       THEN <<k[1], "sequenced">> ELSE k : k \in tasks[v]}]
        BY Zenon DEF Commit
    <2> QED
        BY <2>1, Zenon
<1>2. UNCHANGED <<reconfig, pending, processed, sending, ended, restarts>>
    BY Zenon DEF Commit, store, handled
<1>3. \A v \in Honest : \A k \in tasks'[v] : k[2] = "processed" => k \in tasks[v]
    <2> SUFFICES ASSUME NEW v \in Honest, NEW k \in tasks'[v], k[2] = "processed"
                 PROVE  k \in tasks[v]
        BY Zenon
    <2>1. PICK S : tasks'[v] = moved(v, S)
        BY <1>1, Zenon
    <2>2. PICK l \in tasks[v] : k = l \/ k = <<l[1], "sequenced">>
        BY <2>1, Zenon
    <2>3. <<l[1], "sequenced">>[2] # "processed"
        BY Zenon
    <2> QED
        BY <2>2, <2>3, Zenon
<1>4. ASSUME NEW v \in Honest, NEW t, <<t, "removed">> \in tasks[v]
      PROVE  <<t, "removed">> \in tasks'[v]
    <2>1. PICK S : tasks'[v] = moved(v, S)
        BY <1>1, Zenon
    <2>2. <<t, "removed">>[2] # "submitting"
        BY Zenon
    <2> QED
        BY <1>4, <2>1, <2>2, Zenon
<1>5. TasksTell'
    BY <1>2, <1>3, Zenon DEF SentInv, TasksTell
<1>6. Reintroduced'
    BY <1>2, <1>4, Zenon DEF SentInv, Reintroduced, EndOfPublishReintroduced, pending_consensus_certificates
<1> QED
    BY <1>5, <1>6, Zenon

LEMMA AdapterSends ==
    ASSUME SentInv, NEW v \in Honest,
           \/ \E t \in Txs : \/ handle_certificate(v, t) \/ execute_certificate(v, t)
                             \/ decide_end_of_publish(v, t)
           \/ \E key \in Keys : remove_pending_consensus_transaction(v, key)
           \/ submit_end_of_publish(v) \/ close_epoch(v)
    PROVE  TasksTell' /\ Reintroduced'
<1> USE DEF SentInv, handled
<1> DEFINE others == \A w \in Honest \ {v} :
                         /\ tasks'[w] = tasks[w] /\ pending'[w] = pending[w]
                         /\ reconfig'[w] = reconfig[w] /\ sending'[w] = sending[w]
<1>0. others
    <2> USE DEF Types, TableTypes
    <2>1. ASSUME NEW t \in Txs, handle_certificate(v, t) PROVE others
        BY <2>1, Zenon DEF handle_certificate
    <2>2. ASSUME NEW t \in Txs, execute_certificate(v, t) PROVE others
        BY <2>2, Zenon DEF execute_certificate
    <2>3. ASSUME NEW t \in Txs, decide_end_of_publish(v, t) PROVE others
        BY <2>3, Zenon DEF decide_end_of_publish
    <2>4. ASSUME NEW key \in Keys, remove_pending_consensus_transaction(v, key) PROVE others
        BY <2>4, Zenon DEF remove_pending_consensus_transaction
    <2>5. ASSUME submit_end_of_publish(v) \/ close_epoch(v) PROVE others
        BY <2>5, Zenon DEF submit_end_of_publish, close_epoch
    <2> QED
        BY <2>1, <2>2, <2>3, <2>4, <2>5, Zenon
<1>1. /\ processed' = processed /\ restarts' = restarts /\ ended' = ended
      /\ \A w \in Honest \ {v} : /\ tasks'[w] = tasks[w] /\ pending'[w] = pending[w]
                                 /\ reconfig'[w] = reconfig[w] /\ sending'[w] = sending[w]
    BY <1>0, Zenon DEF handle_certificate, execute_certificate, decide_end_of_publish, close_epoch,
       remove_pending_consensus_transaction, submit_end_of_publish
<1>2. \A key : Task(v, key)[1] = key /\ (Task(v, key)[2] = "processed" => key \in processed[v])
    BY Zenon DEF Task
<1>3. \A k \in tasks[v] : k[2] = "processed" => k[1] \in processed[v]
    BY Zenon DEF TasksTell
<1>4. \A w \in Honest \ {v} : Sends(w) => Sends(w)'
    BY <1>1, Zenon DEF Sends, pending_consensus_certificates
<1>5. ASSUME \A k \in tasks'[v] : k[2] = "processed" => k[1] \in processed[v], Sends(v) => Sends(v)'
      PROVE  TasksTell' /\ Reintroduced'
    <2>1. TasksTell'
        BY <1>1, <1>5, Zenon DEF TasksTell
    <2>2. Reintroduced'
        BY <1>1, <1>4, <1>5, ZenonT(30) DEF Reintroduced, EndOfPublishReintroduced, Sends
    <2> QED
        BY <2>1, <2>2, Zenon
<1>6. ASSUME NEW t \in Txs, handle_certificate(v, t) PROVE TasksTell' /\ Reintroduced'
    <2>1. tasks'[v] \subseteq tasks[v] \cup {Task(v, t)}
        BY <1>6, Zenon DEF handle_certificate, Types, TableTypes
    <2>2. reconfig'[v] # "RejectUserCerts"
        BY <1>6, Zenon DEF handle_certificate, should_accept_user_certs
    <2> QED
        BY <1>2, <1>3, <1>5, <2>1, <2>2 DEF Sends
<1>7. ASSUME NEW t \in Txs, execute_certificate(v, t) PROVE TasksTell' /\ Reintroduced'
    <2>1. UNCHANGED <<tasks, pending, processed, sending, reconfig, ended>>
        BY <1>7, Zenon DEF execute_certificate
    <2> QED
        BY <1>3, <1>5, <2>1, Zenon DEF Sends, pending_consensus_certificates
<1>8. ASSUME NEW t \in Txs, decide_end_of_publish(v, t) PROVE TasksTell' /\ Reintroduced'
    <2>1. tasks'[v] \subseteq tasks[v] \cup {Task(v, v)} /\ reconfig' = reconfig
        BY <1>8 DEF decide_end_of_publish, Types, TableTypes
    <2>2. \/ v \in pending'[v]
          \/ pending' = pending /\ ~(reconfig[v] = "RejectUserCerts" /\ pending_consensus_certificates(v) = {})
        BY <1>8 DEF decide_end_of_publish, Types, TableTypes
    <2>3. Sends(v)'
        BY <2>1, <2>2, Zenon DEF Sends, pending_consensus_certificates
    <2> QED
        BY <1>2, <1>3, <1>5, <2>1, <2>3, Zenon
<1>9. ASSUME NEW key \in Keys, remove_pending_consensus_transaction(v, key)
      PROVE  TasksTell' /\ Reintroduced'
    <2>1. /\ pending'[v] = pending[v] \ {key}
          /\ tasks'[v] = (tasks[v] \ {<<key, "processed">>}) \cup (IF key \in Txs THEN {<<key, "removed">>} ELSE {})
          /\ reconfig' = reconfig /\ sending' = sending
          /\ <<key, "processed">> \in tasks[v]
        BY <1>9, Zenon DEF remove_pending_consensus_transaction, Types, TableTypes
    <2>2. \A k \in tasks'[v] : k[2] = "processed" => k[1] \in processed[v]
        BY <1>3, <2>1
    <2>3. key \in processed[v]
        BY <1>3, <2>1, Zenon
    <2>4. ASSUME key \notin Txs
          PROVE  /\ pending_consensus_certificates(v)' = pending_consensus_certificates(v)
                 /\ \A t : <<t, "removed">> \in tasks[v] => <<t, "removed">> \in tasks'[v]
        BY <2>1, <2>4, Zenon DEF pending_consensus_certificates
    <2>5. ASSUME key \in Txs PROVE Sends(v)'
        BY <2>1, <2>5, Zenon DEF Sends
    <2>6. ASSUME key \notin Txs, Sends(v) PROVE Sends(v)'
        BY <1>1, <2>1, <2>3, <2>4, <2>6, Zenon DEF Sends
    <2> QED
        BY <1>5, <2>2, <2>5, <2>6, Zenon
<1>10. ASSUME submit_end_of_publish(v) PROVE TasksTell' /\ Reintroduced'
    <2>1. tasks'[v] = tasks[v] \cup {Task(v, v)} /\ v \in pending'[v]
        BY <1>10, Zenon DEF submit_end_of_publish, Types, TableTypes
    <2> QED
        BY <1>2, <1>3, <1>5, <2>1, Zenon DEF Sends
<1>11. ASSUME close_epoch(v) PROVE TasksTell' /\ Reintroduced'
    <2>1. tasks' = tasks /\ pending' = pending
        BY <1>11, Zenon DEF close_epoch
    <2>2. sending'[v] = (pending_consensus_certificates(v) = {})
        BY <1>11, Zenon DEF close_epoch, Types, TableTypes
    <2> QED
        BY <1>3, <1>5, <2>1, <2>2, Zenon DEF Sends, pending_consensus_certificates
<1> QED
    BY <1>6, <1>7, <1>8, <1>9, <1>10, <1>11, Zenon

LEMMA NextSends == SentInv /\ [Next]_vars => SentInv'
<1> SUFFICES ASSUME SentInv, [Next]_vars PROVE TasksTell' /\ Reintroduced'
    BY NextTypes, Zenon DEF SentInv
<1>1. CASE UNCHANGED vars
    BY <1>1, Zenon DEF vars, store, memory, handled, SentInv, TasksTell, Reintroduced,
       EndOfPublishReintroduced, pending_consensus_certificates
<1>2. ASSUME NEW v \in Honest, Restart(v) PROVE TasksTell' /\ Reintroduced'
    <2>1. /\ processed' = processed /\ restarts' = restarts + 1
          /\ tasks' = [tasks EXCEPT ![v] = {Task(v, key) : key \in submit_recovered(v)}]
        BY <1>2, Zenon DEF Restart, store, handled
    <2>2. /\ tasks'[v] = {Task(v, key) : key \in submit_recovered(v)}
          /\ \A w \in Honest \ {v} : tasks'[w] = tasks[w]
        BY <2>1, Zenon DEF SentInv, Types, TableTypes
    <2>3. \A key : Task(v, key)[1] = key /\ (Task(v, key)[2] = "processed" => key \in processed[v])
        BY Zenon DEF Task
    <2>4. TasksTell'
        BY <2>1, <2>2, <2>3 DEF SentInv, TasksTell
    <2>5. restarts' # 0
        BY <2>1 DEF SentInv, Types, TableTypes
    <2> QED
        BY <2>4, <2>5, Zenon DEF Reintroduced
<1>3. ASSUME NEW v \in Honest, reconfigure(v) PROVE TasksTell' /\ Reintroduced'
    <2>1. /\ \A w \in Honest \ {v} : /\ tasks'[w] = tasks[w] /\ reconfig'[w] = reconfig[w]
                                     /\ sending'[w] = sending[w] /\ ended'[w] = ended[w]
          /\ tasks'[v] = {} /\ ended'[v]
          /\ processed' = processed /\ pending' = pending /\ restarts' = restarts
        BY <1>3, Zenon DEF reconfigure, handled, SentInv, Types, TableTypes
    <2>2. TasksTell'
        BY <2>1, Zenon DEF SentInv, TasksTell
    <2>3. \A w \in Honest : Sends(w) => Sends(w)'
        BY <2>1, Zenon DEF Sends, pending_consensus_certificates
    <2>4. Reintroduced'
        BY <2>1, <2>3, Zenon DEF SentInv, Reintroduced, EndOfPublishReintroduced, Sends
    <2> QED
        BY <2>2, <2>4, Zenon
<1> QED
    BY <1>1, <1>2, <1>3, HandlerSends, CommitSends, AdapterSends, Zenon DEF Next, Progress

\* Until the first restart, a validator that takes no more certificates and
\* has none pending has sent its EndOfPublish or is about to: of close_epoch
\* and the tasks of the pending certificates, one finds the list drained,
\* whatever the order in which they look.
THEOREM EndOfPublishSent == Spec => [](restarts = 0 => EndOfPublishReintroduced)
<1>1. Init => SentInv
    <2> SUFFICES ASSUME Init PROVE TasksTell /\ Reintroduced
        BY InitTypes, Zenon DEF SentInv
    <2>1. \A v \in Honest : tasks[v] = {} /\ reconfig[v] = "AcceptAllCerts"
        BY Zenon DEF Init
    <2> QED
        BY <2>1, Zenon DEF TasksTell, Reintroduced, EndOfPublishReintroduced
<1>2. SentInv /\ [Next]_vars => SentInv'
    BY NextSends, Zenon
<1>3. SentInv => (restarts = 0 => EndOfPublishReintroduced)
    BY Zenon DEF SentInv, Reintroduced
<1> QED
    BY <1>1, <1>2, <1>3, PTL DEF Spec
-----------------------------------------------------------------------------
(***************************************************************************)
(* Validators that handled the same commits agree.  What a validator makes *)
(* of the commits is a function of the commits, and of nothing it took     *)
(* from its users: After restates the handler as that function.            *)
(***************************************************************************)

\* Whether a validator still takes certificates from users is its own affair.
consensus_status(v) ==
    IF should_accept_consensus_certs(v) THEN "AcceptConsensusCerts" ELSE reconfig[v]

Outcome(v) ==
    [status |-> consensus_status(v), processed |-> processed[v], cache |-> processed_cache[v],
     end_of_publish |-> end_of_publish[v], deferred |-> deferred[v],
     beacon_round |-> beacon_round[v], scheduled |-> scheduled[v], roots |-> roots[v]]

VerifiedOf(o, c) ==
    {i \in DOMAIN c.messages :
        /\ c.messages[i].key \notin o.cache \cup o.processed
        /\ \A j \in 1..(i - 1) : c.messages[j].key # c.messages[i].key}
CertificatesOf(o, c) == {c.messages[i] : i \in {j \in VerifiedOf(o, c) : c.messages[j].key \in Txs}}
EndsOfPublishOf(o, c) == {i \in VerifiedOf(o, c) : c.messages[i].key \in Authorities}
RoundOf(o, c) == o.beacon_round + (IF c.beacon THEN 1 ELSE 0)
LoadedOf(o, c) == {d \in o.deferred : d.future_round = RoundOf(o, c)}
PreviouslyOf(o, c) == {d.message : d \in LoadedOf(o, c)}
AcceptedOf(o, c) ==
    {m \in CertificatesOf(o, c) \cup PreviouslyOf(o, c) :
        ~(\/ m.author \in o.end_of_publish
          \/ o.status # "AcceptConsensusCerts" /\ m \notin PreviouslyOf(o, c))}
PostponedOf(o, c) == {m \in AcceptedOf(o, c) : m.key \in Randomised /\ m \notin PreviouslyOf(o, c)}
TransactionsOf(o, c) == {m.key : m \in AcceptedOf(o, c) \ PostponedOf(o, c)}
CollectedOf(o, c, n) ==
    o.end_of_publish \cup {c.messages[i].key : i \in {j \in EndsOfPublishOf(o, c) : j <= n}}
QuorumsOf(o, c) == {n \in DOMAIN c.messages : reached_quorum(CollectedOf(o, c, n))}
AuthoritiesOf(o, c) ==
    IF o.status # "AcceptConsensusCerts" THEN o.end_of_publish
    ELSE IF QuorumsOf(o, c) = {} THEN CollectedOf(o, c, Len(c.messages))
    ELSE CollectedOf(o, c, CHOOSE n \in QuorumsOf(o, c) : \A m \in QuorumsOf(o, c) : n <= m)
ClosingOf(o, c) ==
    IF o.status = "AcceptConsensusCerts" /\ QuorumsOf(o, c) # {} THEN "RejectAllCerts" ELSE o.status
StatusOf(o, c) ==
    IF ClosingOf(o, c) = "RejectAllCerts" /\ o.deferred = {} /\ PostponedOf(o, c) = {}
    THEN "RejectAllTx" ELSE ClosingOf(o, c)

After(o, c) ==
    [status |-> StatusOf(o, c),
     processed |-> o.processed \cup {m.key : m \in AcceptedOf(o, c)}
                       \cup {c.messages[i].key : i \in EndsOfPublishOf(o, c)},
     cache |-> o.cache \cup {c.messages[i].key : i \in DOMAIN c.messages},
     end_of_publish |-> AuthoritiesOf(o, c),
     deferred |-> (o.deferred \ LoadedOf(o, c))
                      \cup {[message |-> m, future_round |-> RoundOf(o, c) + 2] : m \in PostponedOf(o, c)},
     beacon_round |-> IF o.status # "RejectAllTx" THEN RoundOf(o, c) ELSE o.beacon_round,
     scheduled |-> IF TransactionsOf(o, c) = {} THEN o.scheduled
                   ELSE Append(o.scheduled, TransactionsOf(o, c)),
     roots |-> o.roots \cup IF StatusOf(o, c) # "RejectAllTx" \/ StatusOf(o, c) # ClosingOf(o, c)
                            THEN {m.key : m \in CertificatesOf(o, c)} ELSE {}]

LEMMA ViewOf ==
    ASSUME Types, NEW v \in Honest, NEW c
    PROVE  /\ Certificates(v, c) = CertificatesOf(Outcome(v), c)
           /\ EndsOfPublish(v, c) = EndsOfPublishOf(Outcome(v), c)
           /\ last_randomness_round(v, c) = RoundOf(Outcome(v), c)
           /\ load_deferred_transactions(v, c) = LoadedOf(Outcome(v), c)
           /\ accepted(v, c) = AcceptedOf(Outcome(v), c)
           /\ postponed(v, c) = PostponedOf(Outcome(v), c)
           /\ transactions(v, c) = TransactionsOf(Outcome(v), c)
<1> DEFINE o == Outcome(v)
<1>1. /\ o.processed = processed[v] /\ o.cache = processed_cache[v]
      /\ o.end_of_publish = end_of_publish[v] /\ o.deferred = deferred[v]
      /\ o.beacon_round = beacon_round[v] /\ o.status = consensus_status(v)
    BY Zenon DEF Outcome
<1> HIDE DEF o
<1>2. Verified(v, c) = VerifiedOf(o, c)
    BY <1>1, Zenon DEF Verified, VerifiedOf
<1>3. Certificates(v, c) = CertificatesOf(o, c) /\ EndsOfPublish(v, c) = EndsOfPublishOf(o, c)
    BY <1>2, Zenon DEF Certificates, CertificatesOf, EndsOfPublish, EndsOfPublishOf
<1>4. last_randomness_round(v, c) = RoundOf(o, c)
    BY <1>1, Zenon DEF last_randomness_round, RoundOf
<1>5. load_deferred_transactions(v, c) = LoadedOf(o, c)
    BY <1>1, <1>4, Zenon DEF load_deferred_transactions, LoadedOf
<1>6. PreviouslyDeferred(v, c) = PreviouslyOf(o, c)
    BY <1>5, Zenon DEF PreviouslyDeferred, PreviouslyOf
<1>7. o.status # "AcceptConsensusCerts" <=> ~should_accept_consensus_certs(v)
    BY <1>1, Zenon DEF consensus_status, should_accept_consensus_certs, Types, TableTypes, CertStatus
<1>8. \A m : Ignored(v, c, m) <=> \/ m.author \in o.end_of_publish
                                  \/ o.status # "AcceptConsensusCerts" /\ m \notin PreviouslyOf(o, c)
    BY <1>1, <1>6, <1>7, Zenon DEF Ignored, SentAfterEndOfPublish
<1>9. accepted(v, c) = AcceptedOf(o, c)
    BY <1>3, <1>6, <1>8, Zenon DEF accepted, sequenced, AcceptedOf
<1>10. postponed(v, c) = PostponedOf(o, c)
    BY <1>6, <1>9, Zenon DEF postponed, should_defer, PostponedOf
<1>11. transactions(v, c) = TransactionsOf(o, c)
    BY <1>9, <1>10, Zenon DEF transactions, TransactionsOf
<1> QED
    BY <1>3, <1>4, <1>5, <1>9, <1>10, <1>11, Zenon DEF o

LEMMA ClosingView ==
    ASSUME Types, NEW v \in Honest, NEW c
    PROVE  LET o == Outcome(v)
           IN  /\ closing(v, c).authorities = AuthoritiesOf(o, c)
               /\ (IF status(v, c) \in {"AcceptAllCerts", "RejectUserCerts"}
                   THEN "AcceptConsensusCerts" ELSE status(v, c)) = StatusOf(o, c)
               /\ (status(v, c) # "RejectAllTx" \/ status(v, c) # closing(v, c).status)
                      <=> (StatusOf(o, c) # "RejectAllTx" \/ StatusOf(o, c) # ClosingOf(o, c))
<1> DEFINE o == Outcome(v)
           Q == {n \in DOMAIN c.messages : reached_quorum(Collected(v, c, n))}
           folded(s) == IF s \in {"AcceptAllCerts", "RejectUserCerts"}
                        THEN "AcceptConsensusCerts" ELSE s
<1>1. /\ o.end_of_publish = end_of_publish[v] /\ o.deferred = deferred[v]
      /\ o.status = folded(reconfig[v])
    BY Zenon DEF Outcome, consensus_status, should_accept_consensus_certs
<1>2. /\ EndsOfPublish(v, c) = EndsOfPublishOf(o, c)
      /\ postponed(v, c) = PostponedOf(o, c)
    BY ViewOf, Zenon
<1> HIDE DEF o
<1>3. \A n : Collected(v, c, n) = CollectedOf(o, c, n)
    BY <1>1, <1>2, Zenon DEF Collected, CollectedOf
<1>4. Q = QuorumsOf(o, c)
    BY <1>3 DEF QuorumsOf
<1>5. reconfig[v] \in CertStatus
    BY Zenon DEF Types, TableTypes
<1>6. should_accept_consensus_certs(v) <=> o.status = "AcceptConsensusCerts"
    BY <1>1, <1>5, Zenon DEF should_accept_consensus_certs, CertStatus
<1>7. closing(v, c) = IF ~should_accept_consensus_certs(v)
                      THEN [authorities |-> end_of_publish[v], status |-> reconfig[v]]
                      ELSE IF Q = {}
                      THEN [authorities |-> Collected(v, c, Len(c.messages)), status |-> reconfig[v]]
                      ELSE [authorities |-> Collected(v, c, CHOOSE n \in Q : \A m \in Q : n <= m),
                            status |-> "RejectAllCerts"]
    BY Zenon DEF closing, process_end_of_publish
<1> HIDE DEF Q
<1>8. closing(v, c).authorities = AuthoritiesOf(o, c)
    BY <1>1, <1>3, <1>4, <1>6, <1>7, SMTT(30) DEF AuthoritiesOf
<1>9. /\ closing(v, c).status = IF should_accept_consensus_certs(v) /\ Q # {}
                                THEN "RejectAllCerts" ELSE reconfig[v]
      /\ folded(closing(v, c).status) = ClosingOf(o, c)
    BY <1>1, <1>4, <1>6, <1>7 DEF ClosingOf
<1>10. closing(v, c).status \in CertStatus
    BY <1>5, <1>9, Zenon DEF CertStatus
<1>11. status(v, c) = IF /\ closing(v, c).status = "RejectAllCerts"
                         /\ deferred[v] = {} /\ ~(postponed(v, c) # {})
                      THEN "RejectAllTx" ELSE closing(v, c).status
    BY Zenon DEF status, advance_reconfig
<1> DEFINE z == closing(v, c).status
           idle == o.deferred = {} /\ PostponedOf(o, c) = {}
<1>12. /\ status(v, c) = IF z = "RejectAllCerts" /\ idle THEN "RejectAllTx" ELSE z
       /\ StatusOf(o, c) = IF folded(z) = "RejectAllCerts" /\ idle THEN "RejectAllTx" ELSE folded(z)
       /\ ClosingOf(o, c) = folded(z)
    BY <1>1, <1>2, <1>9, <1>11, Zenon DEF StatusOf
<1> HIDE DEF z, idle
<1>13. /\ folded(status(v, c)) = StatusOf(o, c)
       /\ (status(v, c) # "RejectAllTx" \/ status(v, c) # z)
              <=> (StatusOf(o, c) # "RejectAllTx" \/ StatusOf(o, c) # ClosingOf(o, c))
    <2>1. z \in CertStatus
        BY <1>10, Zenon DEF z
    <2> QED
        BY <1>12, <2>1, Zenon DEF CertStatus
<1> QED
    BY <1>8, <1>13, Zenon DEF o, z

\* The handler is After.
LEMMA HandlerAfter ==
    ASSUME Types, NEW v \in Honest, handle_consensus_output(v)
    PROVE  Outcome(v)' = After(Outcome(v), Head(commits[v]))
<1> DEFINE c == Head(commits[v])
           o == Outcome(v)
           folded(s) == IF s \in {"AcceptAllCerts", "RejectUserCerts"}
                        THEN "AcceptConsensusCerts" ELSE s
<1>1. Effect(v, c)
    BY HandlerEffect
<1>2. /\ reconfig'[v] = status(v, c)
      /\ processed'[v] = processed[v] \cup {m.key : m \in accepted(v, c)} \cup ends(v, c)
      /\ end_of_publish'[v] = closing(v, c).authorities
      /\ processed_cache'[v] = processed_cache[v] \cup {c.messages[i].key : i \in DOMAIN c.messages}
      /\ roots'[v] = roots[v] \cup
             IF status(v, c) # "RejectAllTx" \/ status(v, c) # closing(v, c).status
             THEN {m.key : m \in Certificates(v, c)} ELSE {}
    BY <1>1, Zenon DEF Effect, Types, TableTypes
<1>3. /\ deferred'[v] = (deferred[v] \ load_deferred_transactions(v, c)) \cup entries(v, c)
      /\ beacon_round'[v] = IF should_accept_tx(v) THEN last_randomness_round(v, c) ELSE beacon_round[v]
      /\ scheduled'[v] = IF transactions(v, c) = {} THEN scheduled[v]
                         ELSE Append(scheduled[v], transactions(v, c))
    BY <1>1, Zenon DEF Effect, Types, CommitTypes
<1>4. /\ o.processed = processed[v] /\ o.cache = processed_cache[v] /\ o.deferred = deferred[v]
      /\ o.beacon_round = beacon_round[v] /\ o.scheduled = scheduled[v] /\ o.roots = roots[v]
      /\ o.status # "RejectAllTx" <=> should_accept_tx(v)
    BY Zenon DEF Outcome, consensus_status, should_accept_consensus_certs, should_accept_tx
<1>5. /\ Certificates(v, c) = CertificatesOf(o, c)
      /\ EndsOfPublish(v, c) = EndsOfPublishOf(o, c)
      /\ last_randomness_round(v, c) = RoundOf(o, c)
      /\ load_deferred_transactions(v, c) = LoadedOf(o, c)
      /\ accepted(v, c) = AcceptedOf(o, c)
      /\ postponed(v, c) = PostponedOf(o, c)
      /\ transactions(v, c) = TransactionsOf(o, c)
    BY ViewOf, Zenon
<1>6. /\ closing(v, c).authorities = AuthoritiesOf(o, c)
      /\ folded(status(v, c)) = StatusOf(o, c)
      /\ (status(v, c) # "RejectAllTx" \/ status(v, c) # closing(v, c).status)
             <=> (StatusOf(o, c) # "RejectAllTx" \/ StatusOf(o, c) # ClosingOf(o, c))
    BY ClosingView, Zenon
<1>7. consensus_status(v)' = folded(status(v, c))
    BY <1>2, Zenon DEF consensus_status, should_accept_consensus_certs
<1>8. Outcome(v)' = [status |-> consensus_status(v)', processed |-> processed'[v],
                     cache |-> processed_cache'[v], end_of_publish |-> end_of_publish'[v],
                     deferred |-> deferred'[v], beacon_round |-> beacon_round'[v],
                     scheduled |-> scheduled'[v], roots |-> roots'[v]]
    BY Zenon DEF Outcome
<1>9. ends(v, c) = {c.messages[i].key : i \in EndsOfPublishOf(o, c)}
    BY <1>5, Zenon DEF ends
<1>10. entries(v, c) = {[message |-> m, future_round |-> RoundOf(o, c) + 2] : m \in PostponedOf(o, c)}
    BY <1>5, Zenon DEF entries
<1> HIDE DEF o, c
<1>11. consensus_status(v)' = After(o, c).status
    BY <1>6, <1>7, Zenon DEF After
<1>12. processed'[v] = After(o, c).processed
    BY <1>2, <1>4, <1>5, <1>9, Zenon DEF After
<1>13. processed_cache'[v] = After(o, c).cache
    BY <1>2, <1>4, Zenon DEF After
<1>14. end_of_publish'[v] = After(o, c).end_of_publish
    BY <1>2, <1>6, Zenon DEF After
<1>15. deferred'[v] = After(o, c).deferred
    BY <1>3, <1>4, <1>5, <1>10, Zenon DEF After
<1>16. beacon_round'[v] = After(o, c).beacon_round
    BY <1>3, <1>4, <1>5, Zenon DEF After
<1>17. scheduled'[v] = After(o, c).scheduled
    BY <1>3, <1>4, <1>5, Zenon DEF After
<1>18. roots'[v] = After(o, c).roots
    BY <1>2, <1>4, <1>5, <1>6, Zenon DEF After
<1>19. After(o, c) = [status |-> After(o, c).status, processed |-> After(o, c).processed,
                      cache |-> After(o, c).cache, end_of_publish |-> After(o, c).end_of_publish,
                      deferred |-> After(o, c).deferred, beacon_round |-> After(o, c).beacon_round,
                      scheduled |-> After(o, c).scheduled, roots |-> After(o, c).roots]
    BY Zenon DEF After
<1>20. Outcome(v)' = After(o, c)
    BY <1>8, <1>11, <1>12, <1>13, <1>14, <1>15, <1>16, <1>17, <1>18, <1>19, Zenon
<1> QED
    BY <1>20, Zenon DEF o, c

-----------------------------------------------------------------------------
(***************************************************************************)
(* What After keeps.                                                       *)
(***************************************************************************)

Entries == [message : Certified, future_round : Nat]

OutcomeTypes ==
    [status : {"AcceptConsensusCerts", "RejectAllCerts", "RejectAllTx"},
     processed : SUBSET Keys, cache : SUBSET Keys, end_of_publish : SUBSET Authorities,
     deferred : SUBSET Entries, beacon_round : Nat, scheduled : Seq(SUBSET Txs), roots : SUBSET Txs]

ScheduledOf(o) == UNION {o.scheduled[i] : i \in DOMAIN o.scheduled}

EndsOf(o, c) == {c.messages[i].key : i \in EndsOfPublishOf(o, c)}

EntriesOf(o, c) == {[message |-> m, future_round |-> RoundOf(o, c) + 2] : m \in PostponedOf(o, c)}

LEMMA OutcomeType ==
    ASSUME Types, NEW v \in Honest
    PROVE  Outcome(v) \in OutcomeTypes
<1>1. consensus_status(v) \in {"AcceptConsensusCerts", "RejectAllCerts", "RejectAllTx"}
    BY Zenon DEF consensus_status, should_accept_consensus_certs, Types, TableTypes, CertStatus
<1> QED
    BY <1>1, Zenon DEF Outcome, OutcomeTypes, Entries, Types, TableTypes, CommitTypes

LEMMA OutcomeFields ==
    ASSUME NEW o \in OutcomeTypes
    PROVE  /\ o.status \in {"AcceptConsensusCerts", "RejectAllCerts", "RejectAllTx"}
           /\ o.processed \subseteq Keys /\ o.cache \subseteq Keys
           /\ o.end_of_publish \subseteq Authorities
           /\ o.deferred \subseteq Entries /\ o.beacon_round \in Nat
           /\ o.scheduled \in Seq(SUBSET Txs) /\ o.roots \subseteq Txs
BY Zenon DEF OutcomeTypes

LEMMA AfterFields ==
    ASSUME NEW o, NEW c
    PROVE  /\ After(o, c).status = StatusOf(o, c)
           /\ After(o, c).processed = o.processed \cup {m.key : m \in AcceptedOf(o, c)} \cup EndsOf(o, c)
           /\ After(o, c).cache = o.cache \cup {c.messages[i].key : i \in DOMAIN c.messages}
           /\ After(o, c).end_of_publish = AuthoritiesOf(o, c)
           /\ After(o, c).deferred = (o.deferred \ LoadedOf(o, c)) \cup EntriesOf(o, c)
           /\ After(o, c).beacon_round = IF o.status # "RejectAllTx" THEN RoundOf(o, c) ELSE o.beacon_round
           /\ After(o, c).scheduled = IF TransactionsOf(o, c) = {} THEN o.scheduled
                                      ELSE Append(o.scheduled, TransactionsOf(o, c))
           /\ After(o, c).roots = o.roots \cup
                  IF StatusOf(o, c) # "RejectAllTx" \/ StatusOf(o, c) # ClosingOf(o, c)
                  THEN {m.key : m \in CertificatesOf(o, c)} ELSE {}
BY Zenon DEF After, EndsOf, EntriesOf

LEMMA SetsOf ==
    ASSUME NEW o \in OutcomeTypes, NEW c \in Batches
    PROVE  /\ CertificatesOf(o, c) \subseteq Certified /\ PreviouslyOf(o, c) \subseteq Certified
           /\ AcceptedOf(o, c) \subseteq CertificatesOf(o, c) \cup PreviouslyOf(o, c)
           /\ PostponedOf(o, c) \subseteq AcceptedOf(o, c) \cap CertificatesOf(o, c)
           /\ TransactionsOf(o, c) \subseteq {m.key : m \in AcceptedOf(o, c)}
           /\ TransactionsOf(o, c) \subseteq Txs
           /\ EndsOf(o, c) \subseteq Authorities
           /\ RoundOf(o, c) \in Nat /\ LoadedOf(o, c) \subseteq o.deferred
           /\ EntriesOf(o, c) \subseteq Entries
           /\ \A d \in EntriesOf(o, c) : d.message \in PostponedOf(o, c)
           /\ \A d, e \in EntriesOf(o, c) : d.message = e.message => d = e
           /\ \A m \in CertificatesOf(o, c) : m.key \notin o.processed \cup o.cache
           /\ \A m, n \in CertificatesOf(o, c) : m.key = n.key => m = n
<1>1. CertificatesOf(o, c) \subseteq Certified
    BY BatchType, Zenon DEF CertificatesOf, VerifiedOf, Certified
<1>2. LoadedOf(o, c) \subseteq o.deferred /\ PreviouslyOf(o, c) \subseteq Certified
    BY OutcomeFields, Zenon DEF PreviouslyOf, LoadedOf, Entries
<1>3. AcceptedOf(o, c) \subseteq CertificatesOf(o, c) \cup PreviouslyOf(o, c)
    BY Zenon DEF AcceptedOf
<1>4. PostponedOf(o, c) \subseteq AcceptedOf(o, c) \cap CertificatesOf(o, c)
    BY <1>3, Zenon DEF PostponedOf
<1>5. TransactionsOf(o, c) \subseteq {m.key : m \in AcceptedOf(o, c)}
    BY Zenon DEF TransactionsOf
<1>6. TransactionsOf(o, c) \subseteq Txs
    BY <1>1, <1>2, <1>3, <1>5, Zenon DEF Certified
<1>7. EndsOf(o, c) \subseteq Authorities
    BY Zenon DEF EndsOf, EndsOfPublishOf
<1>8. RoundOf(o, c) \in Nat
    BY OutcomeFields DEF RoundOf
<1>9. EntriesOf(o, c) \subseteq Entries
    BY <1>1, <1>4, <1>8 DEF EntriesOf, Entries
<1>10. /\ \A d \in EntriesOf(o, c) : d.message \in PostponedOf(o, c)
       /\ \A d, e \in EntriesOf(o, c) : d.message = e.message => d = e
    BY DEF EntriesOf
<1>11. \A m \in CertificatesOf(o, c) : m.key \notin o.processed \cup o.cache
    BY Zenon DEF CertificatesOf, VerifiedOf
<1>12. ASSUME NEW i \in VerifiedOf(o, c), NEW j \in VerifiedOf(o, c), c.messages[i].key = c.messages[j].key
       PROVE  i = j
    <2>1. i \in 1..Len(c.messages) /\ j \in 1..Len(c.messages) /\ Len(c.messages) \in Nat
        BY BatchType, Zenon DEF VerifiedOf
    <2>2. ~(j \in 1..(i - 1)) /\ ~(i \in 1..(j - 1))
        BY <1>12, Zenon DEF VerifiedOf
    <2> QED
        BY <2>1, <2>2
<1>13. \A m, n \in CertificatesOf(o, c) : m.key = n.key => m = n
    BY <1>12, Zenon DEF CertificatesOf
<1> QED
    BY <1>1, <1>2, <1>3, <1>4, <1>5, <1>6, <1>7, <1>8, <1>9, <1>10, <1>11, <1>13, Zenon

LEMMA StatusType ==
    ASSUME NEW o \in OutcomeTypes, NEW c
    PROVE  /\ ClosingOf(o, c) \in {"AcceptConsensusCerts", "RejectAllCerts", "RejectAllTx"}
           /\ StatusOf(o, c) \in {"AcceptConsensusCerts", "RejectAllCerts", "RejectAllTx"}
BY OutcomeFields, Zenon DEF ClosingOf, StatusOf

LEMMA CollectedOfType ==
    ASSUME NEW o \in OutcomeTypes, NEW c
    PROVE  /\ \E n : AuthoritiesOf(o, c) = CollectedOf(o, c, n) \/ AuthoritiesOf(o, c) = o.end_of_publish
           /\ AuthoritiesOf(o, c) \subseteq o.end_of_publish \cup EndsOf(o, c)
           /\ o.end_of_publish \subseteq AuthoritiesOf(o, c)
<1>1. \A n : /\ CollectedOf(o, c, n) \subseteq o.end_of_publish \cup EndsOf(o, c)
             /\ o.end_of_publish \subseteq CollectedOf(o, c, n)
    BY Zenon DEF CollectedOf, EndsOf
<1>2. \E n : AuthoritiesOf(o, c) = CollectedOf(o, c, n) \/ AuthoritiesOf(o, c) = o.end_of_publish
    BY Zenon DEF AuthoritiesOf
<1> QED
    BY <1>1, <1>2, Zenon

LEMMA AfterType ==
    ASSUME NEW o \in OutcomeTypes, NEW c \in Batches
    PROVE  After(o, c) \in OutcomeTypes
<1> DEFINE a == After(o, c)
<1>1. {c.messages[i].key : i \in DOMAIN c.messages} \subseteq Keys
    BY BatchType, Zenon
<1>2. {m.key : m \in AcceptedOf(o, c)} \subseteq Txs /\ {m.key : m \in CertificatesOf(o, c)} \subseteq Txs
    BY SetsOf DEF Certified
<1>3. Txs \subseteq Keys /\ Authorities \subseteq Keys
    BY Zenon DEF Keys
<1>4. a.status \in {"AcceptConsensusCerts", "RejectAllCerts", "RejectAllTx"}
    BY AfterFields, StatusType, SMTT(30)
<1>5. a.processed \subseteq Keys
    BY <1>2, <1>3, AfterFields, OutcomeFields, SetsOf, SMTT(30), Zenon
<1>6. a.cache \subseteq Keys
    BY <1>1, AfterFields, OutcomeFields, SMTT(30), Zenon
<1>7. a.end_of_publish \subseteq Authorities
    BY AfterFields, OutcomeFields, SetsOf, CollectedOfType, SMTT(30), Zenon
<1>8. a.deferred \subseteq Entries
    BY AfterFields, OutcomeFields, SetsOf, SMTT(30), Zenon
<1>9. a.beacon_round \in Nat
    BY AfterFields, OutcomeFields, SetsOf
<1>10. a.scheduled \in Seq(SUBSET Txs)
    <2>1. o.scheduled \in Seq(SUBSET Txs) /\ TransactionsOf(o, c) \in SUBSET Txs
        BY OutcomeFields, SetsOf, Zenon
    <2>2. Append(o.scheduled, TransactionsOf(o, c)) \in Seq(SUBSET Txs)
        BY <2>1, AppendProperties, ZenonT(30)
    <2> QED
        BY <2>1, <2>2, AfterFields, Zenon
<1>11. a.roots \subseteq Txs
    BY <1>2, AfterFields, OutcomeFields
<1>12. a = [status |-> a.status, processed |-> a.processed, cache |-> a.cache,
            end_of_publish |-> a.end_of_publish, deferred |-> a.deferred,
            beacon_round |-> a.beacon_round, scheduled |-> a.scheduled, roots |-> a.roots]
    BY Zenon DEF After
<1> HIDE DEF a
<1>13. a \in OutcomeTypes
    BY <1>4, <1>5, <1>6, <1>7, <1>8, <1>9, <1>10, <1>11, <1>12, Zenon DEF OutcomeTypes
<1> QED
    BY <1>13, Zenon DEF a

LEMMA AppendScheduled ==
    ASSUME NEW o \in OutcomeTypes, NEW c \in Batches
    PROVE  LET s == o.scheduled
               t == After(o, c).scheduled
               T == TransactionsOf(o, c)
           IN  /\ ScheduledOf(After(o, c)) = ScheduledOf(o) \cup T
               /\ \A i \in DOMAIN t : \/ i \in DOMAIN s /\ t[i] = s[i]
                                      \/ i = Len(s) + 1 /\ t[i] = T
<1> DEFINE s == o.scheduled
           t == After(o, c).scheduled
           T == TransactionsOf(o, c)
           n == Len(s)
<1>1. s \in Seq(SUBSET Txs) /\ T \in SUBSET Txs
    BY OutcomeFields, SetsOf, Zenon
<1>2. n \in Nat /\ DOMAIN s = 1..n
    BY <1>1, LenProperties, Zenon
<1>3. t = IF T = {} THEN s ELSE Append(s, T)
    BY AfterFields, Zenon
<1>4. CASE T = {}
    BY <1>3, <1>4, Zenon DEF ScheduledOf
<1>5. CASE T # {}
    <2>1. t = Append(s, T)
        BY <1>3, <1>5, Zenon
    <2> HIDE DEF s, t, T
    <2>2. /\ t \in Seq(SUBSET Txs) /\ Len(t) = n + 1
          /\ \A i \in 1..n : t[i] = s[i]
          /\ t[n + 1] = T
        BY <1>1, <2>1, AppendProperties
    <2>3. DOMAIN t = 1..(n + 1)
        BY <2>2, LenProperties, Zenon
    <2> HIDE DEF n
    <2>4. /\ \A i \in 1..(n + 1) : i \in 1..n \/ i = n + 1
          /\ 1..n \subseteq 1..(n + 1) /\ n + 1 \in 1..(n + 1)
        BY <1>2
    <2>5. ASSUME NEW x
          PROVE  (\E i \in 1..(n + 1) : x \in t[i]) <=> (\E i \in 1..n : x \in s[i]) \/ x \in T
        BY <2>2, <2>4, Zenon
    <2>6. ScheduledOf(After(o, c)) = ScheduledOf(o) \cup T
        <3>1. ASSUME NEW x PROVE x \in ScheduledOf(o) <=> \E i \in 1..n : x \in s[i]
            BY <1>2, Zenon DEF ScheduledOf, s
        <3>2. ASSUME NEW x PROVE x \in ScheduledOf(After(o, c)) <=> \E i \in 1..(n + 1) : x \in t[i]
            BY <2>3, Zenon DEF ScheduledOf, t
        <3>3. ASSUME NEW x PROVE x \in ScheduledOf(After(o, c)) <=> x \in ScheduledOf(o) \/ x \in T
            BY <2>5, <3>1, <3>2, Zenon
        <3> QED
            BY <3>3, Zenon
    <2>7. ASSUME NEW i \in DOMAIN t
          PROVE  (i \in DOMAIN s /\ t[i] = s[i]) \/ (i = n + 1 /\ t[i] = T)
        <3>1. i \in 1..n \/ i = n + 1
            BY <2>3, <2>4, ZenonT(30)
        <3> QED
            BY <1>2, <2>2, <3>1, Zenon
    <2> QED
        BY <2>6, <2>7, Zenon DEF s, t, T, n
<1> QED
    BY <1>4, <1>5, Zenon

\* A transaction is scheduled or deferred once consensus has processed it,
\* and not both, and not twice, and it is a root of a checkpoint.  At first
\* only those that read the randomness object are not scheduled.
OnceOf(o) ==
    /\ ScheduledOf(o) \subseteq o.processed
    /\ \A d \in o.deferred : d.message.key \in o.processed /\ d.message.key \notin ScheduledOf(o)
    /\ \A d, e \in o.deferred : d.message.key = e.message.key => d = e
    /\ \A i, j \in DOMAIN o.scheduled : i # j => o.scheduled[i] \cap o.scheduled[j] = {}
    /\ o.processed \cap Txs \subseteq ScheduledOf(o) \cup Randomised
    /\ ScheduledOf(o) \subseteq o.roots /\ \A d \in o.deferred : d.message.key \in o.roots

LEMMA OnceNext ==
    ASSUME NEW v, NEW w, w = v, NEW o, Outcome(v)' = o, OnceOf(o)
    PROVE  OnceOf(Outcome(w))'
<1>1. Outcome(w)' = o
    BY Zenon
<1>2. ScheduledOf(Outcome(w))' = ScheduledOf(o)
    BY <1>1, Zenon DEF ScheduledOf
<1> QED
    BY <1>1, <1>2, ZenonT(30) DEF OnceOf

LEMMA AfterOnce ==
    ASSUME NEW o \in OutcomeTypes, NEW c \in Batches, OnceOf(o)
    PROVE  OnceOf(After(o, c))
<1> DEFINE a == After(o, c)
           T == TransactionsOf(o, c)
           S == ScheduledOf(o)
           loaded == LoadedOf(o, c)
           certificates == CertificatesOf(o, c)
           accept == AcceptedOf(o, c)
           postpone == PostponedOf(o, c)
           new == EntriesOf(o, c)
<1>1. /\ \A m \in certificates : m.key \notin o.processed
      /\ \A m, n \in certificates : m.key = n.key => m = n
      /\ postpone \subseteq certificates /\ postpone \subseteq accept
      /\ loaded \subseteq o.deferred
      /\ T \subseteq {m.key : m \in accept}
      /\ \A d \in new : d.message \in postpone
      /\ \A d, e \in new : d.message = e.message => d = e
    BY SetsOf, Zenon
<1>2. /\ S \subseteq o.processed
      /\ \A d \in o.deferred : d.message.key \in o.processed /\ d.message.key \notin S
      /\ \A d, e \in o.deferred : d.message.key = e.message.key => d = e
      /\ \A i, j \in DOMAIN o.scheduled : i # j => o.scheduled[i] \cap o.scheduled[j] = {}
      /\ o.processed \cap Txs \subseteq S \cup Randomised
      /\ S \subseteq o.roots /\ \A d \in o.deferred : d.message.key \in o.roots
    BY Zenon DEF OnceOf
<1>3. \A x \in T : \E m \in accept \ postpone :
          m.key = x /\ (m \in certificates \/ \E d \in loaded : d.message = m)
    BY Zenon DEF TransactionsOf, AcceptedOf, PreviouslyOf
<1>4. /\ a.processed = o.processed \cup {m.key : m \in accept} \cup EndsOf(o, c)
      /\ a.deferred = (o.deferred \ loaded) \cup new
    BY AfterFields, Zenon
<1>5. /\ ScheduledOf(a) = S \cup T
      /\ \A i \in DOMAIN a.scheduled :
              \/ i \in DOMAIN o.scheduled /\ a.scheduled[i] = o.scheduled[i]
              \/ i = Len(o.scheduled) + 1 /\ a.scheduled[i] = T
    BY AppendScheduled, Zenon
<1>6. \A k \in DOMAIN o.scheduled : o.scheduled[k] \subseteq S
    BY Zenon DEF ScheduledOf
<1>a. /\ EndsOf(o, c) \cap Txs = {}
      /\ \A m \in accept : m.key \in T \/ m.key \in Randomised
    BY SetsOf, EpochAssumption, SMTT(30), Zenon DEF TransactionsOf, PostponedOf
<1>c. o.roots \subseteq a.roots /\ \A m \in accept : m.key \in a.roots
    <2>1. a.roots = o.roots \cup
              IF StatusOf(o, c) # "RejectAllTx" \/ StatusOf(o, c) # ClosingOf(o, c)
              THEN {m.key : m \in CertificatesOf(o, c)} ELSE {}
        BY AfterFields, Zenon
    <2>2. o.roots \subseteq a.roots
        BY <2>1, Zenon
    <2>3. ASSUME NEW m \in accept PROVE m.key \in a.roots
        <3>1. CASE m \in PreviouslyOf(o, c)
            BY <1>1, <1>2, <2>2, <3>1, Zenon DEF PreviouslyOf
        <3>2. CASE m \notin PreviouslyOf(o, c)
            <4>1. m \in CertificatesOf(o, c) /\ o.status = "AcceptConsensusCerts"
                BY <3>2, Zenon DEF AcceptedOf
            <4>2. ClosingOf(o, c) # "RejectAllTx"
                BY <4>1, Zenon DEF ClosingOf
            <4>3. StatusOf(o, c) # "RejectAllTx" \/ StatusOf(o, c) # ClosingOf(o, c)
                BY <4>2, Zenon
            <4> QED
                BY <2>1, <4>1, <4>3, Zenon
        <3> QED
            BY <3>1, <3>2, Zenon
    <2> QED
        BY <2>2, <2>3, Zenon
<1> HIDE DEF a, T, S, loaded, certificates, accept, postpone, new
<1>d. S \cup T \subseteq a.roots
    <2>1. T \subseteq {m.key : m \in accept} /\ S \subseteq o.roots
        BY <1>1, <1>2, Zenon
    <2> QED
        BY <1>c, <2>1, Zenon
<1>e. ASSUME NEW d \in a.deferred PROVE d.message.key \in a.roots
    <2>1. CASE d \in o.deferred
        BY <1>2, <1>c, <2>1, Zenon
    <2>2. CASE d \in new
        BY <1>1, <1>c, <2>2, Zenon
    <2> QED
        BY <1>4, <1>e, <2>1, <2>2, Zenon
<1>b. a.processed \cap Txs \subseteq (S \cup T) \cup Randomised
    <2>1. o.processed \cap Txs \subseteq S \cup Randomised
        BY <1>2, Zenon
    <2> QED
        BY <1>4, <1>a, <2>1, Zenon
<1>7. T \cap S = {}
    BY <1>1, <1>2, <1>3
<1>8. \A d \in o.deferred \ loaded : d.message.key \notin T
    <2> SUFFICES ASSUME NEW d \in o.deferred \ loaded, d.message.key \in T PROVE FALSE
        BY Zenon
    <2>1. PICK m \in accept : m.key = d.message.key /\ (m \in certificates \/ \E e \in loaded : e.message = m)
        BY <1>3, Zenon
    <2> QED
        BY <1>1, <1>2, <2>1, Zenon
<1>9. \A m \in postpone : m.key \notin T
    <2> SUFFICES ASSUME NEW m \in postpone, m.key \in T PROVE FALSE
        BY Zenon
    <2>1. PICK n \in accept \ postpone :
              n.key = m.key /\ (n \in certificates \/ \E e \in loaded : e.message = n)
        BY <1>3, Zenon
    <2> QED
        BY <1>1, <1>2, <2>1, Zenon
<1>10. S \cup T \subseteq a.processed
    BY <1>1, <1>2, <1>4, Zenon
<1>11. ASSUME NEW d \in a.deferred
       PROVE  d.message.key \in a.processed /\ d.message.key \notin S \cup T
    <2>1. CASE d \in o.deferred \ loaded
        BY <1>2, <1>4, <1>8, <2>1, Zenon
    <2>2. CASE d \in new
        BY <1>1, <1>2, <1>4, <1>9, <2>2, Zenon
    <2> QED
        BY <1>4, <1>11, <2>1, <2>2, Zenon
<1>12. \A d, e \in a.deferred : d.message.key = e.message.key => d = e
    BY <1>1, <1>2, <1>4, Zenon
<1>13. ASSUME NEW i \in DOMAIN a.scheduled, NEW j \in DOMAIN a.scheduled, i # j
       PROVE  a.scheduled[i] \cap a.scheduled[j] = {}
    <2>1. CASE i \in DOMAIN o.scheduled /\ a.scheduled[i] = o.scheduled[i]
        BY <1>2, <1>5, <1>6, <1>7, <1>13, <2>1, Zenon
    <2>2. CASE i = Len(o.scheduled) + 1 /\ a.scheduled[i] = T
        BY <1>5, <1>6, <1>7, <1>13, <2>2, SMTT(30), Zenon
    <2> QED
        BY <1>5, <1>13, <2>1, <2>2, Zenon
<1>14. OnceOf(a)
    BY <1>5, <1>10, <1>11, <1>12, <1>13, <1>b, <1>d, <1>e, Zenon DEF OnceOf
<1> QED
    BY <1>14, Zenon DEF a

-----------------------------------------------------------------------------
(***************************************************************************)
(* A transaction is scheduled once.                                        *)
(***************************************************************************)

OnceInv == Types /\ \A v \in Honest : OnceOf(Outcome(v))

LEMMA SameOnce ==
    ASSUME NEW v, processed'[v] = processed[v], deferred'[v] = deferred[v],
           scheduled'[v] = scheduled[v], roots'[v] = roots[v], OnceOf(Outcome(v))
    PROVE  OnceOf(Outcome(v))'
<1>1. /\ Outcome(v).processed = processed[v] /\ Outcome(v).deferred = deferred[v]
      /\ Outcome(v).scheduled = scheduled[v] /\ Outcome(v).roots = roots[v]
    BY Zenon DEF Outcome
<1>2. /\ Outcome(v)'.processed = processed'[v] /\ Outcome(v)'.deferred = deferred'[v]
      /\ Outcome(v)'.scheduled = scheduled'[v] /\ Outcome(v)'.roots = roots'[v]
    BY Zenon DEF Outcome
<1> QED
    BY <1>1, <1>2 DEF OnceOf, ScheduledOf

LEMMA NextOnce == OnceInv /\ [Next]_vars => OnceInv'
<1> SUFFICES ASSUME OnceInv, [Next]_vars, NEW w \in Honest PROVE OnceOf(Outcome(w))'
    BY NextTypes, Zenon DEF OnceInv
<1> USE DEF store, handled
<1>1. ASSUME UNCHANGED <<processed, deferred, scheduled, roots>> PROVE OnceOf(Outcome(w))'
    BY <1>1, SameOnce, Zenon DEF OnceInv
<1>2. CASE UNCHANGED vars
    BY <1>1, <1>2, Zenon DEF vars
<1>3. CASE Commit
    BY <1>1, <1>3, Zenon DEF Commit
<1>4. ASSUME NEW v \in Honest,
             \/ \E t \in Txs : \/ handle_certificate(v, t) \/ execute_certificate(v, t)
                               \/ decide_end_of_publish(v, t)
             \/ \E key \in Keys : remove_pending_consensus_transaction(v, key)
             \/ submit_end_of_publish(v) \/ close_epoch(v) \/ Restart(v) \/ reconfigure(v)
      PROVE  OnceOf(Outcome(w))'
    <2>1. UNCHANGED <<processed, deferred, scheduled, roots>>
        BY <1>4, Zenon DEF handle_certificate, execute_certificate, decide_end_of_publish,
           remove_pending_consensus_transaction, submit_end_of_publish, close_epoch, Restart,
           reconfigure
    <2> QED
        BY <1>1, <2>1, Zenon
<1>5. ASSUME NEW v \in Honest, handle_consensus_output(v) PROVE OnceOf(Outcome(w))'
    <2> DEFINE c == Head(commits[v])
    <2>1. Types /\ commits[v] # <<>> /\ OnceOf(Outcome(v)) /\ OnceOf(Outcome(w))
        BY <1>5, Zenon DEF OnceInv, handle_consensus_output
    <2>2. c \in Batches /\ Outcome(v) \in OutcomeTypes
        BY <2>1, HeadBatch, OutcomeType, Zenon
    <2>3. CASE w = v
        <3>1. Outcome(v)' = After(Outcome(v), c)
            BY <1>5, <2>1, HandlerAfter, Zenon
        <3>2. OnceOf(After(Outcome(v), c))
            BY <2>1, <2>2, AfterOnce, Zenon
        <3> QED
            BY <2>3, <3>1, <3>2, OnceNext, Zenon
    <2>4. CASE w # v
        <3>1. /\ processed'[w] = processed[w] /\ deferred'[w] = deferred[w]
              /\ scheduled'[w] = scheduled[w] /\ roots'[w] = roots[w]
            <4>1. Effect(v, c)
                BY <1>5, HandlerEffect, Zenon
            <4> QED
                BY <2>1, <2>4, <4>1, Zenon DEF Effect, Types, CommitTypes, TableTypes
        <3> QED
            BY <2>1, <3>1, SameOnce, Zenon
    <2> QED
        BY <2>3, <2>4, Zenon
<1> QED
    BY <1>2, <1>3, <1>4, <1>5, Zenon DEF Next, Progress

LEMMA InitOnce == Init => OnceInv
<1> SUFFICES ASSUME Init, NEW v \in Honest PROVE OnceOf(Outcome(v))
    BY InitTypes, Zenon DEF OnceInv
<1>1. scheduled[v] = <<>> /\ deferred[v] = {} /\ processed[v] = {}
    BY Zenon DEF Init
<1>2. DOMAIN scheduled[v] = {}
    BY <1>1
<1> QED
    BY <1>1, <1>2, Zenon DEF OnceOf, ScheduledOf, Outcome

\* No transaction is scheduled for execution twice, however often validators
\* submit it, defer it and restart.
THEOREM EachScheduledOnce == Spec => []ScheduledOnce
<1>1. Init => OnceInv
    BY InitOnce, Zenon
<1>2. OnceInv /\ [Next]_vars => OnceInv'
    BY NextOnce
<1>3. OnceInv => ScheduledOnce
    <2> SUFFICES ASSUME OnceInv, NEW v \in Honest, NEW i \in DOMAIN scheduled[v],
                        NEW j \in DOMAIN scheduled[v], i # j
                 PROVE  scheduled[v][i] \cap scheduled[v][j] = {}
        BY Zenon DEF ScheduledOnce
    <2>1. OnceOf(Outcome(v)) /\ Outcome(v).scheduled = scheduled[v]
        BY Zenon DEF OnceInv, Outcome
    <2> QED
        BY <2>1, Zenon DEF OnceOf
<1> QED
    BY <1>1, <1>2, <1>3, PTL DEF Spec

-----------------------------------------------------------------------------
(***************************************************************************)
(* Sound outcomes: those of a history in which no certificate comes late.  *)
(***************************************************************************)

\* No author of a commit, or of what is deferred, ended its publishing before.
NoLate(o, c) ==
    /\ \A i \in DOMAIN c.messages :
           (c.messages[i].key \in Txs /\ c.messages[i].author \in o.end_of_publish)
               => c.messages[i].key \in o.processed
    /\ \A d \in o.deferred : d.message.author \notin o.end_of_publish

\* What was seen and not processed was seen too late to be scheduled, and is a
\* root of a checkpoint all the same, or there was none to make any more.
Stale(o) == (o.cache \ o.processed) \cap Txs

Sound(o) ==
    /\ o \in OutcomeTypes
    /\ OnceOf(o)
    /\ o.cache \cap Authorities \subseteq o.processed
    /\ Stale(o) # {} => o.status # "AcceptConsensusCerts"
    /\ Stale(o) \subseteq o.roots \/ o.status = "RejectAllTx"
    /\ o.status = "RejectAllTx" => o.deferred = {}
    /\ o.status # "AcceptConsensusCerts" => reached_quorum(o.end_of_publish)

\* The last checkpoint of the epoch is the last: no root comes after it.
Before(p, q) ==
    /\ ScheduledOf(p) \subseteq ScheduledOf(q) /\ p.roots \subseteq q.roots
    /\ p.status = "RejectAllTx" => q.status = "RejectAllTx" /\ q.roots = p.roots

\* A validator that restarted has forgotten some of what it has seen.
Agrees(p, q) ==
    /\ p.cache \subseteq q.cache
    /\ p.status = q.status /\ p.processed = q.processed /\ p.end_of_publish = q.end_of_publish
    /\ p.deferred = q.deferred /\ p.beacon_round = q.beacon_round
    /\ p.scheduled = q.scheduled /\ p.roots = q.roots

\* Of the messages of a commit with one key the first counts.
LEMMA FirstSeen ==
    ASSUME NEW o, NEW c \in Batches, NEW i \in DOMAIN c.messages,
           c.messages[i].key \notin o.cache \cup o.processed
    PROVE  \E j \in VerifiedOf(o, c) : c.messages[j].key = c.messages[i].key
<1> DEFINE k == c.messages[i].key
           S == {j \in DOMAIN c.messages : c.messages[j].key = k}
<1>1. DOMAIN c.messages = 1..Len(c.messages) /\ Len(c.messages) \in Nat
    BY BatchType, Zenon
<1>2. S \in SUBSET Nat /\ S # {}
    BY <1>1
<1>3. PICK j \in S : \A l \in S : j <= l
    <2> HIDE DEF S
    <2> QED
        BY <1>2, Least, Zenon
<1>4. j \in DOMAIN c.messages /\ c.messages[j].key = k
    BY <1>3, Zenon
<1>5. ASSUME NEW l \in 1..(j - 1) PROVE c.messages[l].key # k
    <2>1. l \in DOMAIN c.messages /\ ~(j <= l)
        BY <1>1, <1>4
    <2> QED
        BY <1>3, <2>1, Zenon
<1> QED
    BY <1>4, <1>5, Zenon DEF VerifiedOf

\* Nothing of the commit is ignored because of its author.
LEMMA NoneLate ==
    ASSUME NEW o \in OutcomeTypes, NEW c \in Batches, NoLate(o, c)
    PROVE  /\ \A m \in CertificatesOf(o, c) \cup PreviouslyOf(o, c) : m.author \notin o.end_of_publish
           /\ o.status = "AcceptConsensusCerts" => CertificatesOf(o, c) \subseteq AcceptedOf(o, c)
<1>1. ASSUME NEW m \in CertificatesOf(o, c) PROVE m.author \notin o.end_of_publish
    <2>1. PICK i \in VerifiedOf(o, c) : c.messages[i] = m /\ m.key \in Txs
        BY Zenon DEF CertificatesOf
    <2>2. i \in DOMAIN c.messages /\ m.key \notin o.processed
        BY <2>1, Zenon DEF VerifiedOf
    <2> QED
        BY <2>1, <2>2, Zenon DEF NoLate
<1>2. ASSUME NEW m \in PreviouslyOf(o, c) PROVE m.author \notin o.end_of_publish
    BY Zenon DEF PreviouslyOf, LoadedOf, NoLate
<1> QED
    BY <1>1, <1>2, Zenon DEF AcceptedOf

\* What a commit changes about the end of the epoch.
LEMMA AfterStatus ==
    ASSUME NEW o, NEW c, Sound(o)
    PROVE  /\ o.status # "AcceptConsensusCerts" =>
                  ClosingOf(o, c) = o.status /\ PostponedOf(o, c) = {} /\ AuthoritiesOf(o, c) = o.end_of_publish
           /\ o.status # "AcceptConsensusCerts" => StatusOf(o, c) # "AcceptConsensusCerts"
           /\ o.status = "RejectAllTx" =>
                  /\ StatusOf(o, c) = "RejectAllTx"
                  /\ LoadedOf(o, c) = {} /\ AcceptedOf(o, c) = {} /\ TransactionsOf(o, c) = {}
<1>1. o.status # "AcceptConsensusCerts" =>
          ClosingOf(o, c) = o.status /\ AuthoritiesOf(o, c) = o.end_of_publish
    BY Zenon DEF ClosingOf, AuthoritiesOf
<1>2. o.status # "AcceptConsensusCerts" => PostponedOf(o, c) = {}
    BY Zenon DEF PostponedOf, AcceptedOf
<1>3. o.status # "AcceptConsensusCerts" => StatusOf(o, c) # "AcceptConsensusCerts"
    BY <1>1, Zenon DEF StatusOf
<1>4. ASSUME o.status = "RejectAllTx"
      PROVE  /\ StatusOf(o, c) = "RejectAllTx"
             /\ LoadedOf(o, c) = {} /\ AcceptedOf(o, c) = {} /\ TransactionsOf(o, c) = {}
    <2>1. StatusOf(o, c) = "RejectAllTx"
        BY <1>1, <1>4, Zenon DEF StatusOf
    <2>2. LoadedOf(o, c) = {}
        BY <1>4, Zenon DEF Sound, LoadedOf
    <2>3. PreviouslyOf(o, c) = {}
        BY <2>2, Zenon DEF PreviouslyOf
    <2>4. AcceptedOf(o, c) = {}
        BY <1>4, <2>3, Zenon DEF AcceptedOf
    <2> QED
        BY <2>1, <2>2, <2>4, Zenon DEF TransactionsOf
<1> QED
    BY <1>1, <1>2, <1>3, <1>4, Zenon

LEMMA AfterBefore ==
    ASSUME NEW o, NEW c \in Batches, Sound(o)
    PROVE  Before(o, After(o, c))
<1>1. /\ After(o, c).status = StatusOf(o, c)
      /\ After(o, c).roots = o.roots \cup
             IF StatusOf(o, c) # "RejectAllTx" \/ StatusOf(o, c) # ClosingOf(o, c)
             THEN {m.key : m \in CertificatesOf(o, c)} ELSE {}
    BY AfterFields, Zenon
<1>2. ASSUME o.status = "RejectAllTx"
      PROVE  StatusOf(o, c) = "RejectAllTx" /\ ClosingOf(o, c) = "RejectAllTx"
    BY <1>2, AfterStatus, Zenon
<1>3. o.status = "RejectAllTx" => After(o, c).roots = o.roots
    BY <1>1, <1>2, Zenon
<1>4. ScheduledOf(After(o, c)) = ScheduledOf(o) \cup TransactionsOf(o, c)
    BY AppendScheduled, Zenon DEF Sound
<1> QED
    BY <1>1, <1>2, <1>3, <1>4, Zenon DEF Before

\* The quorum that ends the epoch is there when it ends.
LEMMA AfterQuorum ==
    ASSUME NEW o, NEW c \in Batches, Sound(o), StatusOf(o, c) # "AcceptConsensusCerts"
    PROVE  reached_quorum(AuthoritiesOf(o, c))
<1>1. CASE o.status # "AcceptConsensusCerts"
    BY <1>1, AfterStatus, Zenon DEF Sound
<1>2. CASE o.status = "AcceptConsensusCerts"
    <2> DEFINE Q == QuorumsOf(o, c)
    <2>1. Q # {}
        BY <1>2, Zenon DEF StatusOf, ClosingOf
    <2>2. Q \in SUBSET Nat
        BY BatchType DEF QuorumsOf
    <2>3. \A n \in Q : reached_quorum(CollectedOf(o, c, n))
        BY Zenon DEF QuorumsOf
    <2>4. AuthoritiesOf(o, c) = CollectedOf(o, c, CHOOSE n \in Q : \A m \in Q : n <= m)
        BY <1>2, <2>1, Zenon DEF AuthoritiesOf
    <2> HIDE DEF Q
    <2>5. \E n \in Q : \A m \in Q : n <= m
        BY <2>1, <2>2, Least, Zenon
    <2>6. (CHOOSE n \in Q : \A m \in Q : n <= m) \in Q
        BY <2>5, Zenon
    <2> QED
        BY <2>3, <2>4, <2>6, Zenon
<1> QED
    BY <1>1, <1>2, Zenon

\* Whoever is seen is processed, or seen too late.
LEMMA AfterSeen ==
    ASSUME NEW o, NEW c \in Batches, Sound(o), NoLate(o, c)
    PROVE  LET a == After(o, c)
           IN  /\ a.cache \cap Authorities \subseteq a.processed
               /\ Stale(a) # {} => o.status # "AcceptConsensusCerts"
               /\ Stale(a) \subseteq a.roots \/ o.status = "RejectAllTx"
<1> DEFINE a == After(o, c)
<1>1. /\ o \in OutcomeTypes /\ o.cache \cap Authorities \subseteq o.processed
      /\ Stale(o) # {} => o.status # "AcceptConsensusCerts"
      /\ Stale(o) \subseteq o.roots \/ o.status = "RejectAllTx"
      /\ o.status \in {"AcceptConsensusCerts", "RejectAllCerts", "RejectAllTx"}
    BY OutcomeFields, ZenonT(30) DEF Sound
<1>2. /\ a.processed = o.processed \cup {m.key : m \in AcceptedOf(o, c)} \cup EndsOf(o, c)
      /\ a.cache = o.cache \cup {c.messages[i].key : i \in DOMAIN c.messages}
      /\ a.roots = o.roots \cup
             IF StatusOf(o, c) # "RejectAllTx" \/ StatusOf(o, c) # ClosingOf(o, c)
             THEN {m.key : m \in CertificatesOf(o, c)} ELSE {}
    BY AfterFields
<1>3. ASSUME NEW k \in a.cache, k \notin o.cache, k \notin o.processed
      PROVE  /\ k \in Authorities => k \in EndsOf(o, c)
             /\ k \in Txs => \E m \in CertificatesOf(o, c) : m.key = k
    <2>1. PICK i \in DOMAIN c.messages : c.messages[i].key = k
        BY <1>2, <1>3, Zenon
    <2>2. PICK j \in VerifiedOf(o, c) : c.messages[j].key = k
        BY <1>3, <2>1, FirstSeen, Zenon
    <2> QED
        BY <2>2, Zenon DEF EndsOf, EndsOfPublishOf, CertificatesOf
<1>4. o.status = "AcceptConsensusCerts" => CertificatesOf(o, c) \subseteq AcceptedOf(o, c)
    BY <1>1, NoneLate, Zenon
<1>5. o.status = "RejectAllCerts" => StatusOf(o, c) # "RejectAllTx" \/ StatusOf(o, c) # ClosingOf(o, c)
    BY AfterStatus, Zenon
<1> HIDE DEF a
<1>6. a.cache \cap Authorities \subseteq a.processed
    BY <1>1, <1>2, <1>3, Zenon
<1>7. ASSUME NEW k \in Stale(a)
      PROVE  k \in Stale(o) \/ \E m \in CertificatesOf(o, c) : m.key = k /\ m \notin AcceptedOf(o, c)
    <2>1. k \in a.cache /\ k \notin a.processed /\ k \in Txs
        BY Zenon DEF Stale
    <2>2. k \notin o.processed /\ \A m \in AcceptedOf(o, c) : m.key # k
        BY <1>2, <2>1, Zenon
    <2>3. CASE k \in o.cache
        BY <2>1, <2>2, <2>3, Zenon DEF Stale
    <2>4. CASE k \notin o.cache
        BY <1>3, <2>1, <2>2, <2>4, Zenon
    <2> QED
        BY <2>3, <2>4, Zenon
<1>8. Stale(a) # {} => o.status # "AcceptConsensusCerts"
    BY <1>1, <1>4, <1>7, Zenon
<1>9. Stale(a) \subseteq a.roots \/ o.status = "RejectAllTx"
    <2> SUFFICES ASSUME o.status # "RejectAllTx", NEW k \in Stale(a) PROVE k \in a.roots
        BY Zenon
    <2>1. o.status = "RejectAllCerts"
        BY <1>1, <1>8, Zenon
    <2>2. k \in o.roots \/ \E m \in CertificatesOf(o, c) : m.key = k
        BY <1>1, <1>7, Zenon
    <2>3. a.roots = o.roots \cup {m.key : m \in CertificatesOf(o, c)}
        BY <1>2, <1>5, <2>1, Zenon
    <2> QED
        BY <2>2, <2>3, Zenon
<1> QED
    BY <1>6, <1>8, <1>9, Zenon DEF a

LEMMA AfterSound ==
    ASSUME NEW o, NEW c \in Batches, Sound(o), NoLate(o, c)
    PROVE  Sound(After(o, c))
<1> DEFINE a == After(o, c)
<1>1. a \in OutcomeTypes /\ OnceOf(a)
    BY AfterType, AfterOnce, Zenon DEF Sound
<1>2. /\ a.cache \cap Authorities \subseteq a.processed
      /\ Stale(a) # {} => o.status # "AcceptConsensusCerts"
      /\ Stale(a) \subseteq a.roots \/ o.status = "RejectAllTx"
    BY AfterSeen, Zenon
<1>3. /\ a.status = StatusOf(o, c) /\ a.end_of_publish = AuthoritiesOf(o, c)
      /\ a.deferred = (o.deferred \ LoadedOf(o, c)) \cup EntriesOf(o, c)
    BY AfterFields, Zenon
<1>4. /\ o.status # "AcceptConsensusCerts" => a.status # "AcceptConsensusCerts"
      /\ o.status = "RejectAllTx" => a.status = "RejectAllTx"
    BY <1>3, AfterStatus, Zenon
<1>5. a.status # "AcceptConsensusCerts" => reached_quorum(a.end_of_publish)
    BY <1>3, AfterQuorum, Zenon
<1>6. ASSUME a.status = "RejectAllTx" PROVE a.deferred = {}
    <2>1. o.deferred = {} /\ PostponedOf(o, c) = {}
        <3>1. CASE o.status = "RejectAllTx"
            BY <3>1, AfterStatus, Zenon DEF Sound
        <3>2. CASE o.status # "RejectAllTx"
            BY <1>3, <1>6, <3>2, ZenonT(30) DEF StatusOf, ClosingOf
        <3> QED
            BY <3>1, <3>2, Zenon
    <2> QED
        BY <1>3, <2>1, Zenon DEF EntriesOf
<1> HIDE DEF a
<1>7. Sound(a)
    BY <1>1, <1>2, <1>4, <1>5, <1>6, Zenon DEF Sound
<1> QED
    BY <1>7, Zenon DEF a

\* Forgetting what was seen changes nothing that a commit does.
LEMMA AfterAgrees ==
    ASSUME NEW p, NEW q, NEW c \in Batches, Agrees(p, q), Sound(q), NoLate(q, c)
    PROVE  Agrees(After(p, c), After(q, c))
<1>1. /\ q \in OutcomeTypes /\ q.cache \cap Authorities \subseteq q.processed
      /\ Stale(q) # {} => q.status # "AcceptConsensusCerts"
      /\ Stale(q) \subseteq q.roots \/ q.status = "RejectAllTx"
    BY Zenon DEF Sound
<1>2. /\ p.cache \subseteq q.cache
      /\ p.status = q.status /\ p.processed = q.processed /\ p.end_of_publish = q.end_of_publish
      /\ p.deferred = q.deferred /\ p.beacon_round = q.beacon_round
      /\ p.scheduled = q.scheduled /\ p.roots = q.roots
    BY Zenon DEF Agrees
<1>3. /\ VerifiedOf(q, c) \subseteq VerifiedOf(p, c)
      /\ \A i \in VerifiedOf(p, c) :
             i \in VerifiedOf(q, c) \/ c.messages[i].key \in q.cache \ q.processed
    BY <1>2, Zenon DEF VerifiedOf
<1>4. EndsOfPublishOf(p, c) = EndsOfPublishOf(q, c)
    BY <1>1, <1>3, Zenon DEF EndsOfPublishOf
<1>5. /\ CertificatesOf(q, c) \subseteq CertificatesOf(p, c)
      /\ \A m \in CertificatesOf(p, c) : m \in CertificatesOf(q, c) \/ m.key \in Stale(q)
    BY <1>3, Zenon DEF CertificatesOf, Stale
<1>6. RoundOf(p, c) = RoundOf(q, c)
    BY <1>2, Zenon DEF RoundOf
<1>7. LoadedOf(p, c) = LoadedOf(q, c)
    BY <1>2, <1>6, Zenon DEF LoadedOf
<1>8. PreviouslyOf(p, c) = PreviouslyOf(q, c)
    BY <1>7, Zenon DEF PreviouslyOf
<1>9. AcceptedOf(p, c) = AcceptedOf(q, c)
    <2>1. AcceptedOf(q, c) \subseteq AcceptedOf(p, c)
        BY <1>2, <1>5, <1>8, Zenon DEF AcceptedOf
    <2>2. ASSUME NEW m \in AcceptedOf(p, c) PROVE m \in AcceptedOf(q, c)
        <3>1. /\ m \in CertificatesOf(p, c) \cup PreviouslyOf(q, c)
              /\ m.author \notin q.end_of_publish
              /\ q.status = "AcceptConsensusCerts" \/ m \in PreviouslyOf(q, c)
            BY <1>2, <1>8, Zenon DEF AcceptedOf
        <3>2. m \in CertificatesOf(q, c) \cup PreviouslyOf(q, c)
            BY <1>1, <1>5, <3>1, Zenon
        <3> QED
            BY <3>1, <3>2, Zenon DEF AcceptedOf
    <2> QED
        BY <2>1, <2>2, Zenon
<1>10. PostponedOf(p, c) = PostponedOf(q, c)
    BY <1>8, <1>9, Zenon DEF PostponedOf
<1>11. TransactionsOf(p, c) = TransactionsOf(q, c)
    BY <1>9, <1>10, Zenon DEF TransactionsOf
<1>12. \A n : CollectedOf(p, c, n) = CollectedOf(q, c, n)
    BY <1>2, <1>4, Zenon DEF CollectedOf
<1>13. QuorumsOf(p, c) = QuorumsOf(q, c)
    BY <1>12, SMTT(30) DEF QuorumsOf
<1>14. AuthoritiesOf(p, c) = AuthoritiesOf(q, c)
    BY <1>2, <1>12, <1>13 DEF AuthoritiesOf
<1>15. ClosingOf(p, c) = ClosingOf(q, c)
    BY <1>2, <1>13, Zenon DEF ClosingOf
<1>16. StatusOf(p, c) = StatusOf(q, c)
    BY <1>2, <1>10, <1>15, Zenon DEF StatusOf
<1>17. EndsOf(p, c) = EndsOf(q, c) /\ EntriesOf(p, c) = EntriesOf(q, c)
    BY <1>4, <1>6, <1>10, Zenon DEF EndsOf, EntriesOf
<1>18. After(p, c).roots = After(q, c).roots
    <2> DEFINE counts == StatusOf(q, c) # "RejectAllTx" \/ StatusOf(q, c) # ClosingOf(q, c)
    <2>1. /\ After(p, c).roots = q.roots \cup IF counts THEN {m.key : m \in CertificatesOf(p, c)} ELSE {}
          /\ After(q, c).roots = q.roots \cup IF counts THEN {m.key : m \in CertificatesOf(q, c)} ELSE {}
        <3>1. After(p, c).roots = p.roots \cup
                  IF StatusOf(p, c) # "RejectAllTx" \/ StatusOf(p, c) # ClosingOf(p, c)
                  THEN {m.key : m \in CertificatesOf(p, c)} ELSE {}
            BY AfterFields, ZenonT(30)
        <3>2. After(q, c).roots = q.roots \cup IF counts THEN {m.key : m \in CertificatesOf(q, c)} ELSE {}
            BY AfterFields, ZenonT(30)
        <3>3. counts <=> (StatusOf(p, c) # "RejectAllTx" \/ StatusOf(p, c) # ClosingOf(p, c))
            BY <1>15, <1>16, ZenonT(30)
        <3> HIDE DEF counts
        <3> QED
            BY <1>2, <3>1, <3>2, <3>3, ZenonT(30)
    <2>2. counts => q.status # "RejectAllTx"
        BY AfterStatus, Zenon
    <2> HIDE DEF counts
    <2>3. CASE counts
        <3>1. Stale(q) \subseteq q.roots
            BY <1>1, <2>2, <2>3, Zenon
        <3>2. q.roots \cup {m.key : m \in CertificatesOf(p, c)}
                  = q.roots \cup {m.key : m \in CertificatesOf(q, c)}
            BY <1>5, <3>1, Zenon
        <3> QED
            BY <2>1, <2>3, <3>2, Zenon
    <2>4. CASE ~counts
        BY <2>1, <2>4, ZenonT(30)
    <2> QED
        BY <2>3, <2>4, ZenonT(30)
<1>19. After(p, c).cache \subseteq After(q, c).cache
    BY <1>2, AfterFields
<1>20. ASSUME NEW r \in {p, q}
       PROVE  /\ After(r, c).status = StatusOf(q, c)
              /\ After(r, c).processed = q.processed \cup {m.key : m \in AcceptedOf(q, c)} \cup EndsOf(q, c)
              /\ After(r, c).end_of_publish = AuthoritiesOf(q, c)
              /\ After(r, c).deferred = (q.deferred \ LoadedOf(q, c)) \cup EntriesOf(q, c)
    <2>1. /\ After(r, c).status = StatusOf(r, c)
          /\ After(r, c).processed = r.processed \cup {m.key : m \in AcceptedOf(r, c)} \cup EndsOf(r, c)
          /\ After(r, c).end_of_publish = AuthoritiesOf(r, c)
          /\ After(r, c).deferred = (r.deferred \ LoadedOf(r, c)) \cup EntriesOf(r, c)
        BY AfterFields, Zenon
    <2>2. CASE r = q
        BY <2>1, <2>2, Zenon
    <2>3. CASE r = p
        BY <1>2, <1>7, <1>9, <1>14, <1>16, <1>17, <2>1, <2>3, Zenon
    <2> QED
        BY <2>2, <2>3, ZenonT(30)
<1>21. /\ After(p, c).beacon_round = After(q, c).beacon_round
       /\ After(p, c).scheduled = After(q, c).scheduled
    BY <1>2, <1>6, <1>11, AfterFields, SMTT(30)
<1> QED
    BY <1>18, <1>19, <1>20, <1>21, Zenon DEF Agrees

\* Where what a commit adds comes from.
LEMMA AfterOrigin ==
    ASSUME NEW o \in OutcomeTypes, NEW c \in Batches
    PROVE  /\ \A d \in After(o, c).deferred :
                  d \in o.deferred \/ \E i \in DOMAIN c.messages : d.message = c.messages[i]
           /\ \A a \in After(o, c).end_of_publish :
                  a \in o.end_of_publish
                      \/ \E i \in DOMAIN c.messages : c.messages[i].key = a /\ a \in Authorities
<1>1. \A m \in CertificatesOf(o, c) : \E i \in DOMAIN c.messages : m = c.messages[i]
    BY Zenon DEF CertificatesOf, VerifiedOf
<1>2. \A a \in EndsOf(o, c) : \E i \in DOMAIN c.messages : c.messages[i].key = a /\ a \in Authorities
    BY Zenon DEF EndsOf, EndsOfPublishOf, VerifiedOf
<1>3. /\ After(o, c).deferred = (o.deferred \ LoadedOf(o, c)) \cup EntriesOf(o, c)
      /\ After(o, c).end_of_publish = AuthoritiesOf(o, c)
    BY AfterFields, Zenon
<1>4. /\ \A d \in EntriesOf(o, c) : d.message \in CertificatesOf(o, c)
      /\ AuthoritiesOf(o, c) \subseteq o.end_of_publish \cup EndsOf(o, c)
    BY SetsOf, CollectedOfType, Zenon
<1> QED
    BY <1>1, <1>2, <1>3, <1>4, Zenon

-----------------------------------------------------------------------------
(***************************************************************************)
(* What is accepted is scheduled in the end.                               *)
(***************************************************************************)

\* What is scheduled, in the state and in its outcome,
LEMMA ScheduledSame ==
    ASSUME NEW v
    PROVE  ScheduledOf(Outcome(v)) = Scheduled(v)
BY Zenon DEF ScheduledOf, Scheduled, Outcome

\* and what the handler adds to it.
LEMMA HandlerScheduled ==
    ASSUME Types, NEW v \in Honest, handle_consensus_output(v)
    PROVE  Scheduled(v)' = Scheduled(v) \cup transactions(v, Head(commits[v]))
<1> DEFINE c == Head(commits[v])
           o == Outcome(v)
<1>1. c \in Batches /\ o \in OutcomeTypes
    BY HeadBatch, OutcomeType, Zenon DEF handle_consensus_output
<1>2. ScheduledOf(After(o, c)) = ScheduledOf(o) \cup TransactionsOf(o, c)
    BY <1>1, AppendScheduled, Zenon
<1>3. transactions(v, c) = TransactionsOf(o, c)
    BY ViewOf, Zenon
<1>4. Outcome(v)' = After(o, c)
    BY HandlerAfter, Zenon
<1>5. Scheduled(v)' = ScheduledOf(Outcome(v)')
    BY Zenon DEF Scheduled, ScheduledOf, Outcome
<1> QED
    BY <1>2, <1>3, <1>4, <1>5, ScheduledSame, Zenon

\* What a validator took from consensus is scheduled or deferred, and nothing
\* is deferred when the epoch has its last checkpoint.
Accounted(v) ==
    /\ processed[v] \cap Txs \subseteq Scheduled(v) \cup {d.message.key : d \in deferred[v]}
    /\ reconfig[v] = "RejectAllTx" => deferred[v] = {}

\* What the handler makes of a commit in which nothing comes after the
\* EndOfPublish of its author: deferred transactions that are due are scheduled,
\* and a certificate it accepts is scheduled or deferred.
LEMMA HandlerTakes ==
    ASSUME OnceInv, NEW v \in Honest, NEW c \in Batches, Effect(v, c), late'[v] = {}
    PROVE  /\ \A d \in load_deferred_transactions(v, c) : d.message.key \in transactions(v, c)
           /\ ~should_accept_consensus_certs(v) => postponed(v, c) = {}
           /\ \A m \in accepted(v, c) : m \in postponed(v, c) \/ m.key \in transactions(v, c)
<1>1. \A m \in sequenced(v, c) : ~SentAfterEndOfPublish(v, m)
    BY Zenon DEF Effect, OnceInv, Types, TableTypes
<1>2. \A m \in PreviouslyDeferred(v, c) : m \in accepted(v, c) \ postponed(v, c)
    BY <1>1, Zenon DEF accepted, postponed, sequenced, Ignored, should_defer
<1>3. \A d \in load_deferred_transactions(v, c) : d.message.key \in transactions(v, c)
    BY <1>2, Zenon DEF transactions, PreviouslyDeferred
<1>4. ~should_accept_consensus_certs(v) => postponed(v, c) = {}
    BY Zenon DEF accepted, postponed, Ignored, should_defer
<1>5. \A m \in accepted(v, c) : m \in postponed(v, c) \/ m.key \in transactions(v, c)
    BY Zenon DEF transactions
<1> QED
    BY <1>3, <1>4, <1>5, Zenon

\* The handler's step: what it takes is scheduled or deferred with it.
LEMMA HandlerAccounts ==
    ASSUME OnceInv, NEW v \in Honest, Accounted(v), handle_consensus_output(v), late'[v] = {}
    PROVE  Accounted(v)'
<1>1. PICK c \in Batches : c = Head(commits[v])
    BY HeadBatch, Zenon DEF handle_consensus_output, OnceInv
<1>2. Effect(v, c)
    BY <1>1, HandlerEffect, Zenon
<1>3. /\ \A d \in load_deferred_transactions(v, c) : d.message.key \in transactions(v, c)
      /\ ~should_accept_consensus_certs(v) => postponed(v, c) = {}
      /\ \A m \in accepted(v, c) : m \in postponed(v, c) \/ m.key \in transactions(v, c)
    BY <1>2, HandlerTakes, Zenon
<1>4. Scheduled(v)' = Scheduled(v) \cup transactions(v, c)
    BY <1>1, HandlerScheduled, Zenon DEF OnceInv
<1>5. /\ reconfig'[v] = status(v, c)
      /\ processed'[v] = processed[v] \cup {m.key : m \in accepted(v, c)} \cup ends(v, c)
      /\ deferred'[v] = (deferred[v] \ load_deferred_transactions(v, c)) \cup entries(v, c)
    BY <1>2, Zenon DEF Effect, OnceInv, Types, TableTypes, CommitTypes
<1>6. postponed(v, c) = {} => entries(v, c) = {}
    BY Zenon DEF entries
<1>7. ASSUME NEW m \in postponed(v, c)
      PROVE  \E d \in entries(v, c) : d.message = m
    <2> DEFINE d == [message |-> m, future_round |-> last_randomness_round(v, c) + 2]
    <2>1. d \in entries(v, c) /\ d.message = m
        BY Zenon DEF entries
    <2> QED
        BY <2>1, Zenon
<1>8. ends(v, c) \cap Txs = {}
    BY HandlerSets, EpochAssumption, Zenon DEF OnceInv
<1>9. ASSUME NEW k \in processed'[v] \cap Txs
      PROVE  k \in Scheduled(v)' \cup {d.message.key : d \in deferred'[v]}
    <2>1. CASE \E m \in accepted(v, c) : m.key = k
        <3>1. PICK m \in accepted(v, c) : m.key = k
            BY <2>1, Zenon
        <3>2. CASE m \in postponed(v, c)
            <4>1. PICK d \in entries(v, c) : d.message = m
                BY <1>7, <3>2, Zenon
            <4> QED
                BY <1>5, <3>1, <4>1, Zenon
        <3>3. CASE m.key \in transactions(v, c)
            BY <1>4, <3>1, <3>3, Zenon
        <3> QED
            BY <1>3, <3>2, <3>3, Zenon
    <2>2. CASE k \in processed[v]
        <3>1. CASE k \in Scheduled(v)
            BY <1>4, <3>1, Zenon
        <3>2. CASE \E d \in deferred[v] : k = d.message.key
            BY <1>3, <1>4, <1>5, <3>2, Zenon
        <3> QED
            BY <2>2, <3>1, <3>2, Zenon DEF Accounted
    <2> QED
        BY <1>5, <1>8, <2>1, <2>2, Zenon
<1>10. ASSUME reconfig'[v] = "RejectAllTx" PROVE deferred'[v] = {}
    <2>1. \/ reconfig[v] = "RejectAllTx"
          \/ deferred[v] = {} /\ postponed(v, c) = {}
        BY <1>5, <1>10, ZenonT(30) DEF status, advance_reconfig, closing, process_end_of_publish
    <2>2. deferred[v] = {} /\ postponed(v, c) = {}
        BY <1>3, <2>1, Zenon DEF Accounted, should_accept_consensus_certs
    <2> QED
        BY <1>5, <1>6, <2>2, Zenon
<1> QED
    BY <1>9, <1>10, Zenon DEF Accounted

\* Steps that handle no commit.
LEMMA SameAccounted ==
    ASSUME NEW v \in Honest, Accounted(v), UNCHANGED <<scheduled, deferred, processed>>,
           consensus_status(v)' = consensus_status(v)
    PROVE  Accounted(v)'
<1>1. Scheduled(v)' = Scheduled(v)
    BY Zenon DEF Scheduled
<1>2. reconfig'[v] = "RejectAllTx" => reconfig[v] = "RejectAllTx"
    BY Zenon DEF consensus_status, should_accept_consensus_certs
<1> QED
    BY <1>1, <1>2, Zenon DEF Accounted
=============================================================================
