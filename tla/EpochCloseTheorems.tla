------------------------- MODULE EpochCloseTheorems -------------------------
(***************************************************************************)
(* Proofs about what the validators of EpochClose do together, for every   *)
(* committee, set of transactions and number of restarts: they move along  *)
(* one history of commits, in which nothing comes after the EndOfPublish   *)
(* of its author and nothing that is final is left out.                    *)
(***************************************************************************)
EXTENDS EpochCloseOutcome

-----------------------------------------------------------------------------
(***************************************************************************)
(* What validators submit.                                                 *)
(***************************************************************************)

\* No transaction waits for randomness, as on the main and the test network,
\* or nobody has lost what the tasks were waiting for.
Settled == restarts = 0 \/ Randomised = {}

\* The validator has sent all its certificates.
Over(v) == pending_consensus_certificates(v) = {} /\ reconfig[v] # "AcceptAllCerts"

\* A correct validator stands behind a certificate until consensus has
\* scheduled it, and behind EndOfPublish for ever.
Vouched(m) ==
    IF m.key \in Txs
    THEN m.author \in Honest /\ m.key \in pending[m.author] \cup Scheduled(m.author)
    ELSE m.key = m.author /\ (m.author \in Honest => Over(m.author))

Submits(v) ==
    /\ \A k \in tasks[v] : /\ Vouched([author |-> v, key |-> k[1]])
                           /\ k[2] = "processed" /\ k[1] \in Txs => k[1] \in Scheduled(v)
    /\ pending[v] \subseteq Txs \cup {v}
    /\ v \in pending[v] \/ sending[v] => Over(v)
    /\ requests[v] \cap Owned \subseteq pending[v] \cup Scheduled(v)

Submission == (\A m \in in_flight : Vouched(m)) /\ \A v \in Honest : Submits(v)

\* What a step may not take back,
Keeps(v) ==
    /\ pending[v] \cap Txs \subseteq (pending[v] \cup Scheduled(v))'
    /\ Scheduled(v) \subseteq Scheduled(v)'
    /\ Over(v) => Over(v)'

\* and what it may add.
Adds(v) ==
    /\ \A k \in tasks'[v] :
           /\ (\E l \in tasks[v] : l[1] = k[1]) \/ Vouched([author |-> v, key |-> k[1]])'
           /\ (k[2] = "processed" /\ k[1] \in Txs) => k \in tasks[v] \/ k[1] \in Scheduled(v)'
    /\ pending'[v] \subseteq pending[v] \cup Txs \cup {v}
    /\ (v \in pending'[v] \/ sending'[v]) => v \in pending[v] \/ sending[v] \/ Over(v)'
    /\ requests'[v] \cap Owned \subseteq requests[v] \cup (pending[v] \cup Scheduled(v))'

Moves ==
    /\ \A v \in Honest : Keeps(v) /\ Adds(v)
    /\ \A m \in in_flight' : m \in in_flight \/ Vouched(m)

LEMMA StillVouched ==
    ASSUME NEW m, Vouched(m), \A v \in Honest : Keeps(v)
    PROVE  Vouched(m)'
BY Zenon DEF Vouched, Keeps

LEMMA StillSubmits ==
    ASSUME Submission, Moves
    PROVE  Submission'
<1>1. \A m \in in_flight' : Vouched(m)'
    BY StillVouched, Zenon DEF Submission, Moves
<1>2. ASSUME NEW v \in Honest PROVE Submits(v)'
    <2>1. Submits(v) /\ Keeps(v) /\ Adds(v)
        BY Zenon DEF Submission, Moves
    <2>2. ASSUME NEW k \in tasks'[v] PROVE Vouched([author |-> v, key |-> k[1]])'
        <3>1. CASE \E l \in tasks[v] : l[1] = k[1]
            <4>1. Vouched([author |-> v, key |-> k[1]])
                BY <2>1, <3>1, Zenon DEF Submits
            <4> QED
                BY <4>1, StillVouched, Zenon DEF Moves
        <3>2. CASE Vouched([author |-> v, key |-> k[1]])'
            BY <3>2, Zenon
        <3> QED
            BY <2>1, <3>1, <3>2, Zenon DEF Adds
    <2>3. ASSUME NEW k \in tasks'[v], k[2] = "processed", k[1] \in Txs PROVE k[1] \in Scheduled(v)'
        BY <2>1, <2>3, Zenon DEF Adds, Submits, Keeps
    <2>4. pending'[v] \subseteq Txs \cup {v}
        BY <2>1, Zenon DEF Adds, Submits
    <2>5. v \in pending'[v] \/ sending'[v] => Over(v)'
        BY <2>1, Zenon DEF Adds, Submits, Keeps
    <2>6. requests'[v] \cap Owned \subseteq (pending[v] \cup Scheduled(v))'
        <3>1. ASSUME NEW t \in requests'[v] \cap Owned, t \in requests[v]
              PROVE  t \in (pending[v] \cup Scheduled(v))'
            <4>1. t \in Txs /\ t \in pending[v] \cup Scheduled(v)
                BY <2>1, <3>1, EpochAssumption, Zenon DEF Submits
            <4> QED
                BY <2>1, <4>1, Zenon DEF Keeps
        <3> QED
            BY <2>1, <3>1, Zenon DEF Adds
    <2> QED
        BY <2>2, <2>3, <2>4, <2>5, <2>6, Zenon DEF Submits
<1> QED
    BY <1>1, <1>2, Zenon DEF Submission

LEMMA Unmoved ==
    ASSUME NEW v, tasks'[v] = tasks[v], pending'[v] = pending[v], sending'[v] = sending[v],
           requests'[v] = requests[v], scheduled'[v] = scheduled[v], reconfig'[v] = reconfig[v]
    PROVE  Keeps(v) /\ Adds(v)
<1>1. Scheduled(v)' = Scheduled(v)
    BY Zenon DEF Scheduled
<1>2. Over(v) => Over(v)'
    BY Zenon DEF Over, pending_consensus_certificates
<1>3. Keeps(v)
    BY <1>1, <1>2, Zenon DEF Keeps
<1>4. Adds(v)
    BY Zenon DEF Adds
<1> QED
    BY <1>3, <1>4, Zenon

\* A step of v leaves the other validators alone.
Alone(v) ==
    \A w \in Honest \ {v} :
        /\ tasks'[w] = tasks[w] /\ pending'[w] = pending[w] /\ sending'[w] = sending[w]
        /\ requests'[w] = requests[w] /\ scheduled'[w] = scheduled[w] /\ reconfig'[w] = reconfig[w]

LEMMA MovesAlone ==
    ASSUME NEW v \in Honest, Alone(v), Keeps(v), Adds(v), \A m \in in_flight' : m \in in_flight \/ Vouched(m)
    PROVE  Moves
BY Unmoved, Zenon DEF Alone, Moves

LEMMA AloneSteps ==
    ASSUME Types, NEW v \in Honest,
           \/ \E t \in Txs : \/ handle_certificate(v, t) \/ execute_certificate(v, t)
                             \/ decide_end_of_publish(v, t)
           \/ \E key \in Keys : remove_pending_consensus_transaction(v, key)
           \/ submit_end_of_publish(v) \/ close_epoch(v) \/ reconfigure(v) \/ Restart(v)
           \/ handle_consensus_output(v)
    PROVE  Alone(v)
<1> USE DEF Alone, Types, TableTypes, CommitTypes, handled, store
<1>1. CASE \E t \in Txs : handle_certificate(v, t)
    BY <1>1 DEF handle_certificate
<1>2. CASE \E t \in Txs : execute_certificate(v, t)
    BY <1>2, Zenon DEF execute_certificate
<1>3. CASE \E t \in Txs : decide_end_of_publish(v, t)
    BY <1>3 DEF decide_end_of_publish
<1>4. CASE \E key \in Keys : remove_pending_consensus_transaction(v, key)
    BY <1>4, Zenon DEF remove_pending_consensus_transaction
<1>5. CASE submit_end_of_publish(v)
    BY <1>5, Zenon DEF submit_end_of_publish
<1>6. CASE close_epoch(v)
    BY <1>6, Zenon DEF close_epoch
<1>7. CASE reconfigure(v)
    BY <1>7, Zenon DEF reconfigure
<1>8. CASE Restart(v)
    BY <1>8, Zenon DEF Restart
<1>9. CASE handle_consensus_output(v)
    <2>1. Effect(v, Head(commits[v]))
        BY <1>9, HandlerEffect, Zenon
    <2> QED
        BY <2>1, Zenon DEF Effect
<1> QED
    BY <1>1, <1>2, <1>3, <1>4, <1>5, <1>6, <1>7, <1>8, <1>9, Zenon

LEMMA SameScheduled ==
    ASSUME NEW v, scheduled'[v] = scheduled[v]
    PROVE  Scheduled(v)' = Scheduled(v)
BY Zenon DEF Scheduled

\* What consensus processed was scheduled at once, unless it reads the
\* randomness object.
LEMMA ProcessedScheduled ==
    ASSUME OnceInv, NEW v \in Honest, NEW t \in processed[v] \cap Txs, t \notin Randomised
    PROVE  t \in Scheduled(v)
<1>1. OnceOf(Outcome(v)) /\ Outcome(v).processed = processed[v]
    BY Zenon DEF OnceInv, Outcome
<1> QED
    BY <1>1, ScheduledSame, Zenon DEF OnceOf

LEMMA CertificateMoves ==
    ASSUME OnceInv, Submission, NEW v \in Honest, NEW t \in Txs, handle_certificate(v, t)
    PROVE  Moves
<1>1. Types /\ Submits(v) /\ Alone(v)
    BY AloneSteps, Zenon DEF OnceInv, Submission
<1>2. /\ scheduled'[v] = scheduled[v] /\ reconfig[v] = "AcceptAllCerts" /\ in_flight' = in_flight
      /\ sending'[v] = sending[v] /\ requests'[v] = requests[v] \cup {t}
      /\ \/ /\ t \in processed[v]
            /\ pending'[v] = pending[v] /\ tasks'[v] = tasks[v]
         \/ /\ pending'[v] = pending[v] \cup {t}
            /\ tasks'[v] = tasks[v] \cup {<<t, "submitting">>}
    BY <1>1, Zenon DEF handle_certificate, Types, TableTypes, handled, consensus,
       should_accept_user_certs, Task
<1>3. Scheduled(v)' = Scheduled(v)
    BY <1>2, SameScheduled, Zenon
<1>4. Keeps(v)
    BY <1>2, <1>3, Zenon DEF Keeps, Over
<1>5. t \in Owned => t \in (pending[v] \cup Scheduled(v))'
    BY <1>2, <1>3, ProcessedScheduled, EpochAssumption, Zenon
<1>6. ASSUME NEW k \in tasks'[v], k \notin tasks[v]
      PROVE  Vouched([author |-> v, key |-> k[1]])' /\ k[2] # "processed"
    <2>1. k = <<t, "submitting">> /\ pending'[v] = pending[v] \cup {t}
        BY <1>2, <1>6, Zenon
    <2>2. k[1] = t /\ k[2] = "submitting"
        BY <2>1, Zenon
    <2> QED
        BY <2>1, <2>2, Zenon DEF Vouched
<1>7. v \notin pending'[v] \/ v \in pending[v]
    BY <1>2, EpochAssumption, HonestMember, Zenon
<1>8. Adds(v)
    BY <1>2, <1>5, <1>6, <1>7, Zenon DEF Adds
<1> QED
    BY <1>1, <1>2, <1>4, <1>8, MovesAlone, Zenon

LEMMA RemoveMoves ==
    ASSUME OnceInv, Submission, NEW v \in Honest, NEW key \in Keys,
           remove_pending_consensus_transaction(v, key)
    PROVE  Moves
<1>1. Types /\ Submits(v) /\ Alone(v)
    BY AloneSteps, Zenon DEF OnceInv, Submission
<1>2. /\ scheduled'[v] = scheduled[v] /\ reconfig'[v] = reconfig[v] /\ in_flight' = in_flight
      /\ sending'[v] = sending[v] /\ requests'[v] = requests[v]
      /\ <<key, "processed">> \in tasks[v]
      /\ pending'[v] = pending[v] \ {key}
      /\ \A k \in tasks'[v] : k \in tasks[v] \/ k = <<key, "removed">>
    BY <1>1, Zenon DEF remove_pending_consensus_transaction, Types, TableTypes, handled, consensus
<1>3. Scheduled(v)' = Scheduled(v)
    BY <1>2, SameScheduled, Zenon
<1>4. key \in Txs => key \in Scheduled(v)
    BY <1>1, <1>2, Zenon DEF Submits
<1>5. Keeps(v)
    BY <1>2, <1>3, <1>4, Zenon DEF Keeps, Over, pending_consensus_certificates
<1>6. \A k \in tasks'[v] : (\E l \in tasks[v] : l[1] = k[1]) /\ (k[2] = "processed" => k \in tasks[v])
    BY <1>2
<1>7. Adds(v)
    BY <1>2, <1>6, Zenon DEF Adds
<1> QED
    BY <1>1, <1>2, <1>5, <1>7, MovesAlone, Zenon

\* EndOfPublish is sent when the validator has sent its certificates.
LEMMA EndMoves ==
    ASSUME OnceInv, Submission, NEW v \in Honest,
           (\E key \in Txs : decide_end_of_publish(v, key)) \/ submit_end_of_publish(v)
    PROVE  Moves
<1>1. Types /\ Submits(v) /\ Alone(v)
    BY AloneSteps, Zenon DEF OnceInv, Submission
<1>2. /\ scheduled'[v] = scheduled[v] /\ reconfig'[v] = reconfig[v] /\ in_flight' = in_flight
      /\ requests'[v] = requests[v] /\ (sending'[v] => sending[v])
      /\ \/ pending'[v] = pending[v] /\ tasks'[v] \subseteq tasks[v]
         \/ /\ Over(v)
            /\ pending'[v] = pending[v] \cup {v}
            /\ \A k \in tasks'[v] : k \in tasks[v] \/ k[1] = v
    <2>1. CASE submit_end_of_publish(v)
        <3>1. Over(v)
            BY <1>1, <2>1, Zenon DEF submit_end_of_publish, Submits
        <3>2. \A k \in tasks'[v] : k \in tasks[v] \/ k = Task(v, v)
            BY <1>1, <2>1, Zenon DEF submit_end_of_publish, Types, TableTypes
        <3>3. Task(v, v)[1] = v
            BY Zenon DEF Task
        <3> QED
            BY <1>1, <2>1, <3>1, <3>2, <3>3, Zenon
            DEF submit_end_of_publish, Types, TableTypes, handled, consensus
    <2>2. ASSUME NEW key \in Txs, decide_end_of_publish(v, key)
          PROVE  /\ scheduled'[v] = scheduled[v] /\ reconfig'[v] = reconfig[v] /\ in_flight' = in_flight
                 /\ requests'[v] = requests[v] /\ (sending'[v] => sending[v])
                 /\ \/ pending'[v] = pending[v] /\ tasks'[v] \subseteq tasks[v]
                    \/ /\ Over(v)
                       /\ pending'[v] = pending[v] \cup {v}
                       /\ \A k \in tasks'[v] : k \in tasks[v] \/ k[1] = v
        <3>1. Task(v, v)[1] = v
            BY Zenon DEF Task
        <3>2. /\ scheduled' = scheduled /\ reconfig' = reconfig /\ in_flight' = in_flight
              /\ requests' = requests /\ sending' = sending
            BY <2>2, Zenon DEF decide_end_of_publish, handled, consensus
        <3>3. \/ pending'[v] = pending[v] /\ tasks'[v] = tasks[v] \ {<<key, "removed">>}
              \/ /\ reconfig[v] = "RejectUserCerts" /\ pending_consensus_certificates(v) = {}
                 /\ pending'[v] = pending[v] \cup {v}
                 /\ tasks'[v] = (tasks[v] \ {<<key, "removed">>}) \cup {Task(v, v)}
            BY <1>1, <2>2, Zenon DEF decide_end_of_publish, Types, TableTypes
        <3> QED
            BY <3>1, <3>2, <3>3, Zenon DEF Over
    <2> QED
        BY <2>1, <2>2, Zenon
<1>3. Scheduled(v)' = Scheduled(v)
    BY <1>2, SameScheduled, Zenon
<1>4. v \notin Txs
    BY EpochAssumption, HonestMember, Zenon
<1>5. pending'[v] \cap Txs = pending[v] \cap Txs
    BY <1>2, <1>4, Zenon
<1>6. Over(v)' <=> Over(v)
    BY <1>2, <1>5, Zenon DEF Over, pending_consensus_certificates
<1>7. Keeps(v)
    BY <1>3, <1>5, <1>6, Zenon DEF Keeps
<1>8. ASSUME NEW k \in tasks'[v], k \notin tasks[v]
      PROVE  Vouched([author |-> v, key |-> k[1]])' /\ k[1] \notin Txs
    BY <1>2, <1>4, <1>6, <1>8, Zenon DEF Vouched
<1>9. Adds(v)
    BY <1>2, <1>6, <1>8, Zenon DEF Adds
<1> QED
    BY <1>1, <1>2, <1>7, <1>9, MovesAlone, Zenon

\* These take on no obligation.
LEMMA PlainMoves ==
    ASSUME OnceInv, Submission, NEW v \in Honest,
           (\E t \in Txs : execute_certificate(v, t)) \/ close_epoch(v) \/ reconfigure(v)
    PROVE  Moves
<1>1. Types /\ Submits(v) /\ Alone(v)
    BY AloneSteps, Zenon DEF OnceInv, Submission
<1>2. /\ scheduled'[v] = scheduled[v] /\ in_flight' = in_flight /\ pending'[v] = pending[v]
      /\ reconfig'[v] = reconfig[v] \/ reconfig'[v] = "RejectUserCerts"
      /\ requests'[v] \subseteq requests[v] /\ tasks'[v] \subseteq tasks[v]
      /\ sending'[v] => sending[v] \/ (reconfig'[v] = "RejectUserCerts" /\ pending[v] \cap Txs = {})
    <2>1. CASE \E t \in Txs : execute_certificate(v, t)
        BY <1>1, <2>1 DEF execute_certificate, Types, TableTypes, handled, consensus
    <2>2. CASE close_epoch(v)
        BY <1>1, <2>2, Zenon DEF close_epoch, Types, TableTypes, handled, consensus,
           pending_consensus_certificates
    <2>3. CASE reconfigure(v)
        BY <1>1, <2>3, Zenon DEF reconfigure, Types, TableTypes, handled
    <2> QED
        BY <2>1, <2>2, <2>3, ZenonT(30)
<1>3. Scheduled(v)' = Scheduled(v)
    BY <1>2, SameScheduled, Zenon
<1>4. Over(v) => Over(v)'
    BY <1>2, Zenon DEF Over, pending_consensus_certificates
<1>5. sending'[v] => sending[v] \/ Over(v)'
    BY <1>2, Zenon DEF Over, pending_consensus_certificates
<1>6. Keeps(v)
    BY <1>2, <1>3, <1>4, Zenon DEF Keeps
<1>7. Adds(v)
    BY <1>2, <1>5, Zenon DEF Adds
<1> QED
    BY <1>1, <1>2, <1>6, <1>7, MovesAlone, Zenon

LEMMA HandlerMoves ==
    ASSUME OnceInv, Submission, NEW v \in Honest, handle_consensus_output(v)
    PROVE  Moves
<1> DEFINE c == Head(commits[v])
           heard(k) == IF k[1] \in transactions(v, c) \cup ends(v, c) /\ k[2] \in {"submitting", "sequenced"}
                       THEN <<k[1], "processed">> ELSE k
<1>1. Types /\ Submits(v) /\ Alone(v)
    BY AloneSteps, Zenon DEF OnceInv, Submission
<1>2. Effect(v, c) /\ c \in Batches
    BY <1>1, HandlerEffect, HeadBatch, Zenon DEF handle_consensus_output
<1>3. /\ pending'[v] = pending[v] /\ sending'[v] = sending[v] /\ requests'[v] = requests[v]
      /\ in_flight' = in_flight /\ reconfig'[v] = status(v, c)
      /\ tasks'[v] = {heard(k) : k \in tasks[v]}
    BY <1>1, <1>2, Zenon DEF Effect, Types, TableTypes
<1>4. Scheduled(v)' = Scheduled(v) \cup transactions(v, c)
    BY <1>1, HandlerScheduled, Zenon
<1>5. reconfig[v] # "AcceptAllCerts" => status(v, c) # "AcceptAllCerts"
    BY Zenon DEF status, advance_reconfig, closing, process_end_of_publish
<1>6. Over(v) => Over(v)'
    BY <1>3, <1>5, Zenon DEF Over, pending_consensus_certificates
<1>7. Keeps(v)
    BY <1>3, <1>4, <1>6, Zenon DEF Keeps
<1>8. ends(v, c) \cap Txs = {}
    BY <1>1, <1>2, HandlerSets, EpochAssumption, Zenon
<1>9. ASSUME NEW k \in tasks'[v]
      PROVE  /\ \E l \in tasks[v] : l[1] = k[1]
             /\ k[2] = "processed" /\ k[1] \in Txs => k \in tasks[v] \/ k[1] \in Scheduled(v)'
    <2>1. PICK l \in tasks[v] : k = heard(l)
        BY <1>3, Zenon
    <2>2. CASE k = l
        BY <2>2, Zenon
    <2>3. CASE k = <<l[1], "processed">> /\ l[1] \in transactions(v, c) \cup ends(v, c)
        BY <1>4, <1>8, <2>3, Zenon
    <2> QED
        BY <2>1, <2>2, <2>3, Zenon
<1> HIDE DEF c
<1>10. Adds(v)
    BY <1>3, <1>9, Zenon DEF Adds
<1> QED
    BY <1>1, <1>3, <1>7, <1>10, MovesAlone, Zenon

\* After a crash what is pending is submitted again.
LEMMA RestartMoves ==
    ASSUME OnceInv, Submission, Randomised = {}, NEW v \in Honest, Restart(v)
    PROVE  Moves
<1>1. Types /\ Submits(v) /\ Alone(v)
    BY AloneSteps, Zenon DEF OnceInv, Submission
<1>2. /\ scheduled'[v] = scheduled[v] /\ pending'[v] = pending[v] /\ reconfig'[v] = reconfig[v]
      /\ requests'[v] = {} /\ sending'[v] = FALSE
      /\ in_flight' \subseteq in_flight \cup submit_to_consensus(v)
      /\ tasks'[v] = {Task(v, key) : key \in submit_recovered(v)}
    BY <1>1, Zenon DEF Restart, Types, TableTypes, store, handled
<1>3. Scheduled(v)' = Scheduled(v)
    BY <1>2, SameScheduled, Zenon
<1>4. Over(v)' <=> Over(v)
    BY <1>2, Zenon DEF Over, pending_consensus_certificates
<1>5. Keeps(v)
    BY <1>2, <1>3, <1>4, Zenon DEF Keeps
<1>6. submit_recovered(v) \subseteq pending[v]
    BY Zenon DEF submit_recovered
<1>7. \A key \in submit_recovered(v) : Vouched([author |-> v, key |-> key])'
    <2>1. \A key \in pending[v] : key \notin Txs => key = v
        BY <1>1, Zenon DEF Submits
    <2>2. v \in pending[v] => Over(v)'
        BY <1>1, <1>4, Zenon DEF Submits
    <2> QED
        BY <1>2, <1>6, <2>1, <2>2, Zenon DEF Vouched
<1>8. ASSUME NEW k \in tasks'[v]
      PROVE  /\ Vouched([author |-> v, key |-> k[1]])'
             /\ k[2] = "processed" /\ k[1] \in Txs => k[1] \in Scheduled(v)'
    <2>1. PICK key \in submit_recovered(v) : k = Task(v, key)
        BY <1>2, Zenon
    <2>2. k[1] = key /\ (k[2] = "processed" => key \in processed[v])
        BY <2>1, Zenon DEF Task
    <2>3. key \in processed[v] \cap Txs => key \in Scheduled(v)
        BY ProcessedScheduled, Zenon
    <2> QED
        BY <1>3, <1>7, <2>2, <2>3, Zenon
<1>9. Adds(v)
    BY <1>2, <1>8, Zenon DEF Adds
<1>10. \A m \in in_flight' : m \in in_flight \/ Vouched(m)
    BY <1>1, <1>2, Zenon DEF submit_to_consensus, Submits
<1> QED
    BY <1>1, <1>5, <1>9, <1>10, MovesAlone, Zenon

LEMMA CommitMoves ==
    ASSUME OnceInv, Submission, Commit
    PROVE  Moves
<1>1. UNCHANGED <<store, requests, sending>>
    BY Zenon DEF Commit
<1>a. PICK messages \in Seqs(Submitted) :
          LET S == {messages[i] : i \in DOMAIN messages}
          IN  /\ in_flight' = in_flight \ S
              /\ tasks' = [v \in Honest |->
                     {IF k[2] = "submitting" /\ [author |-> v, key |-> k[1]] \in S
                      THEN <<k[1], "sequenced">> ELSE k : k \in tasks[v]}]
    BY Zenon DEF Commit
<1> DEFINE S == {messages[i] : i \in DOMAIN messages}
<1>2. /\ in_flight' = in_flight \ S
      /\ tasks' = [v \in Honest |->
             {IF k[2] = "submitting" /\ [author |-> v, key |-> k[1]] \in S
              THEN <<k[1], "sequenced">> ELSE k : k \in tasks[v]}]
    BY <1>a, Zenon
<1> HIDE DEF S
<1>3. ASSUME NEW v \in Honest PROVE Keeps(v) /\ Adds(v)
    <2>1. /\ pending'[v] = pending[v] /\ sending'[v] = sending[v] /\ requests'[v] = requests[v]
          /\ scheduled'[v] = scheduled[v] /\ reconfig'[v] = reconfig[v]
        BY <1>1, Zenon DEF store, handled
    <2>2. Scheduled(v)' = Scheduled(v) /\ (Over(v) => Over(v)')
        BY <2>1, SameScheduled, Zenon DEF Over, pending_consensus_certificates
    <2>3. Keeps(v)
        BY <2>1, <2>2, Zenon DEF Keeps
    <2>4. ASSUME NEW k \in tasks'[v]
          PROVE  (\E l \in tasks[v] : l[1] = k[1]) /\ (k[2] = "processed" => k \in tasks[v])
        <3>1. PICK l \in tasks[v] : k = l \/ k = <<l[1], "sequenced">>
            BY <1>2, Zenon
        <3> QED
            BY <3>1
    <2>5. Adds(v)
        BY <2>1, <2>4, Zenon DEF Adds
    <2> QED
        BY <2>3, <2>5, Zenon
<1> QED
    BY <1>2, <1>3, Zenon DEF Moves

LEMMA NextMoves ==
    ASSUME OnceInv, Submission, Settled', [Next]_vars
    PROVE  Moves
<1>1. CASE UNCHANGED vars
    BY <1>1, Unmoved, Zenon DEF Moves, vars, store, handled, memory, consensus
<1>2. CASE Commit
    BY <1>2, CommitMoves, Zenon
<1>3. ASSUME NEW v \in Honest, \E t \in Txs : handle_certificate(v, t) PROVE Moves
    BY <1>3, CertificateMoves, Zenon
<1>4. ASSUME NEW v \in Honest, \E t \in Txs : execute_certificate(v, t) PROVE Moves
    BY <1>4, PlainMoves, Zenon
<1>5. ASSUME NEW v \in Honest, Progress(v) PROVE Moves
    BY <1>5, RemoveMoves, EndMoves, PlainMoves, HandlerMoves, Zenon DEF Progress
<1>6. ASSUME NEW v \in Honest, Restart(v) PROVE Moves
    <2>1. restarts' = restarts + 1 /\ restarts \in Nat
        BY <1>6, HonestMember DEF Restart, OnceInv, Types, TableTypes
    <2>2. Randomised = {}
        BY <2>1 DEF Settled
    <2> QED
        BY <1>6, <2>2, RestartMoves, Zenon
<1> QED
    BY <1>1, <1>2, <1>3, <1>4, <1>5, <1>6, Zenon DEF Next

\* While nothing was lost nothing had been lost before.
LEMMA StaysSettled ==
    ASSUME Types, [Next]_vars, Settled'
    PROVE  Settled
<1>1. restarts' = restarts \/ \E v \in Honest : Restart(v)
    <2>1. CASE UNCHANGED vars
        BY <2>1, Zenon DEF vars
    <2>2. CASE Commit
        BY <2>2, Zenon DEF Commit
    <2>3. ASSUME NEW v \in Honest, NEW t \in Txs, handle_certificate(v, t) \/ execute_certificate(v, t)
          PROVE  restarts' = restarts
        BY <2>3, Zenon DEF handle_certificate, execute_certificate
    <2>4. ASSUME NEW v \in Honest, Progress(v) PROVE restarts' = restarts
        <3>1. CASE \E key \in Keys : remove_pending_consensus_transaction(v, key)
            BY <3>1, Zenon DEF remove_pending_consensus_transaction
        <3>2. CASE \E key \in Txs : decide_end_of_publish(v, key)
            BY <3>2, Zenon DEF decide_end_of_publish
        <3>3. CASE submit_end_of_publish(v) \/ close_epoch(v) \/ reconfigure(v)
            BY <3>3, Zenon DEF submit_end_of_publish, close_epoch, reconfigure
        <3>4. CASE handle_consensus_output(v)
            BY <3>4, Zenon DEF handle_consensus_output
        <3> QED
            BY <2>4, <3>1, <3>2, <3>3, <3>4, Zenon DEF Progress
    <2> QED
        BY <2>1, <2>2, <2>3, <2>4, Zenon DEF Next
<1>2. ASSUME NEW v \in Honest, Restart(v) PROVE restarts \in Nat /\ restarts' = restarts + 1
    BY <1>2, HonestMember DEF Restart, Types, TableTypes
<1> QED
    BY <1>1, <1>2 DEF Settled

LEMMA InitSubmission ==
    ASSUME Init
    PROVE  Submission
<1>1. \A f \in Faulty : f \notin Txs /\ f \notin Honest
    BY EpochAssumption, HonestMember, Zenon DEF Honest
<1>2. \A m \in in_flight : Vouched(m)
    BY <1>1 DEF Init, Vouched
<1>3. \A v \in Honest : Submits(v)
    BY Zenon DEF Init, Submits
<1> QED
    BY <1>2, <1>3, Zenon DEF Submission

-----------------------------------------------------------------------------
(***************************************************************************)
(* The history of the epoch.  There are the commits made so far and an     *)
(* outcome after each, every validator is somewhere along them, and        *)
(* nothing in them came after the EndOfPublish of its author.              *)
(***************************************************************************)

Chain(h, o) ==
    \A n \in 0..Len(h) :
        /\ Sound(o[n]) /\ Before(o[n], o[Len(h)])
        /\ n > 0 => o[n] = After(o[n - 1], h[n]) /\ NoLate(o[n - 1], h[n])

\* Correct validators stand behind what is deferred, and those that ended
\* their publishing have nothing pending.
Grounded(q) ==
    /\ \A d \in q.deferred : Vouched(d.message)
    /\ \A a \in q.end_of_publish \cap Honest : Over(a)

\* A validator that left the epoch stays at the commit it had reached.
Follows(v, h, o) ==
    \E n \in 0..Len(h) :
        /\ Agrees(Outcome(v), o[n])
        /\ ~ended[v] => /\ n + Len(commits[v]) = Len(h)
                        /\ \A i \in 1..Len(commits[v]) : commits[v][i] = h[n + i]

\* What a validator executed is a root of a checkpoint, or it has it pending;
\* what it undid the checkpoints of the epoch left out.
Final(v, q) ==
    /\ executed[v] \cup reverted[v] \subseteq q.roots \cup (Owned \cap pending[v])
    /\ reverted[v] # {} => /\ ended[v] /\ q.status = "RejectAllTx"
                           /\ reverted[v] \cap q.roots = {}

Shared(h, o) ==
    /\ Chain(h, o) /\ Grounded(o[Len(h)])
    /\ \A v \in Honest : late[v] = {} /\ Follows(v, h, o) /\ Final(v, o[Len(h)])

History == \E h \in Seq(Batches) : \E o : Shared(h, o)

EpochInv == OnceInv /\ (Settled => Submission /\ History)

\* The last outcome of the history has all that a validator scheduled, as
\* roots too, and the roots of one that made the last checkpoint.
LEMMA Latest ==
    ASSUME NEW h \in Seq(Batches), NEW o, Shared(h, o), NEW v \in Honest
    PROVE  /\ Sound(o[Len(h)]) /\ Scheduled(v) \subseteq ScheduledOf(o[Len(h)]) \cap o[Len(h)].roots
           /\ reconfig[v] = "RejectAllTx" => /\ o[Len(h)].status = "RejectAllTx"
                                             /\ roots[v] = o[Len(h)].roots
<1> DEFINE q == o[Len(h)]
<1>1. Len(h) \in Nat /\ Len(h) \in 0..Len(h)
    BY LenProperties
<1>2. PICK n \in 0..Len(h) : Agrees(Outcome(v), o[n])
    BY Zenon DEF Shared, Follows
<1>3. Before(o[n], q) /\ Sound(q)
    BY <1>1, Zenon DEF Shared, Chain
<1> HIDE DEF q
<1>4. /\ Outcome(v).scheduled = scheduled[v] /\ Outcome(v).roots = roots[v]
      /\ Outcome(v).status = consensus_status(v)
    BY Zenon DEF Outcome
<1>5. /\ o[n].scheduled = scheduled[v] /\ o[n].roots = roots[v]
      /\ o[n].status = consensus_status(v)
    BY <1>2, <1>4, Zenon DEF Agrees
<1>6. ScheduledOf(o[n]) = Scheduled(v)
    BY <1>5, Zenon DEF ScheduledOf, Scheduled
<1>7. Scheduled(v) \subseteq ScheduledOf(q) /\ ScheduledOf(q) \subseteq q.roots
    BY <1>3, <1>6, Zenon DEF Before, Sound, OnceOf
<1>8. reconfig[v] = "RejectAllTx" => o[n].status = "RejectAllTx"
    BY <1>5, Zenon DEF consensus_status, should_accept_consensus_certs
<1> QED
    BY <1>3, <1>5, <1>7, <1>8, Zenon DEF Before, q

LEMMA StillGrounded ==
    ASSUME NEW q, Grounded(q), Moves
    PROVE  Grounded(q)'
<1>1. \A d \in q.deferred : Vouched(d.message)'
    BY StillVouched, Zenon DEF Grounded, Moves
<1>2. \A a \in q.end_of_publish \cap Honest : Over(a)'
    BY Zenon DEF Grounded, Moves, Keeps
<1> QED
    BY <1>1, <1>2, Zenon DEF Grounded

LEMMA StillFollows ==
    ASSUME NEW v, NEW h, NEW o, Follows(v, h, o), Agrees(Outcome(v)', Outcome(v)),
           ~ended'[v] => ~ended[v] /\ commits'[v] = commits[v]
    PROVE  Follows(v, h, o)'
<1>1. PICK n \in 0..Len(h) :
          /\ Agrees(Outcome(v), o[n])
          /\ ~ended[v] => /\ n + Len(commits[v]) = Len(h)
                          /\ \A i \in 1..Len(commits[v]) : commits[v][i] = h[n + i]
    BY Zenon DEF Follows
<1>2. Agrees(Outcome(v)', o[n])
    BY <1>1, Zenon DEF Agrees
<1>3. ~ended'[v] => /\ n + Len(commits'[v]) = Len(h)
                    /\ \A i \in 1..Len(commits'[v]) : commits'[v][i] = h[n + i]
    BY <1>1, Zenon
<1> QED
    BY <1>2, <1>3, Zenon DEF Follows

LEMMA StillFinal ==
    ASSUME NEW h \in Seq(Batches), NEW o, Shared(h, o), Moves, NEW v \in Honest,
           executed'[v] = executed[v], reverted'[v] = reverted[v], ended[v] => ended'[v],
           pending'[v] = pending[v] \/ scheduled'[v] = scheduled[v]
    PROVE  Final(v, o[Len(h)])'
<1> DEFINE q == o[Len(h)]
<1>1. Final(v, q) /\ Keeps(v) /\ Scheduled(v) \subseteq q.roots
    BY Latest, Zenon DEF Shared, Moves
<1> HIDE DEF q
<1>2. ASSUME NEW t \in Owned \cap pending[v] PROVE t \in q.roots \cup (Owned \cap pending'[v])
    <2>1. CASE pending'[v] = pending[v]
        BY <2>1, Zenon
    <2>2. CASE scheduled'[v] = scheduled[v]
        BY <1>1, <2>2, SameScheduled, EpochAssumption, Zenon DEF Keeps
    <2> QED
        BY <2>1, <2>2, Zenon
<1>3. Final(v, q)'
    BY <1>1, <1>2, ZenonT(30) DEF Final
<1> QED
    BY <1>3, Zenon DEF q

LEMMA SameAgrees ==
    ASSUME NEW v, processed'[v] = processed[v], end_of_publish'[v] = end_of_publish[v],
           deferred'[v] = deferred[v], beacon_round'[v] = beacon_round[v],
           scheduled'[v] = scheduled[v], roots'[v] = roots[v],
           processed_cache'[v] \subseteq processed_cache[v],
           consensus_status(v)' = consensus_status(v)
    PROVE  Agrees(Outcome(v)', Outcome(v))
<1>1. /\ Outcome(v).status = consensus_status(v) /\ Outcome(v).processed = processed[v]
      /\ Outcome(v).cache = processed_cache[v] /\ Outcome(v).end_of_publish = end_of_publish[v]
      /\ Outcome(v).deferred = deferred[v] /\ Outcome(v).beacon_round = beacon_round[v]
      /\ Outcome(v).scheduled = scheduled[v] /\ Outcome(v).roots = roots[v]
    BY Zenon DEF Outcome
<1>2. /\ Outcome(v)'.status = consensus_status(v)' /\ Outcome(v)'.processed = processed'[v]
      /\ Outcome(v)'.cache = processed_cache'[v] /\ Outcome(v)'.end_of_publish = end_of_publish'[v]
      /\ Outcome(v)'.deferred = deferred'[v] /\ Outcome(v)'.beacon_round = beacon_round'[v]
      /\ Outcome(v)'.scheduled = scheduled'[v] /\ Outcome(v)'.roots = roots'[v]
    BY Zenon DEF Outcome
<1> QED
    BY <1>1, <1>2, Zenon DEF Agrees

\* A step that handles no commit leaves the outcomes.
LEMMA QuietSteps ==
    ASSUME Types, NEW v \in Honest, NEW w \in Honest,
           \/ \E t \in Txs : \/ handle_certificate(v, t) \/ execute_certificate(v, t)
                             \/ decide_end_of_publish(v, t)
           \/ \E key \in Keys : remove_pending_consensus_transaction(v, key)
           \/ submit_end_of_publish(v) \/ close_epoch(v) \/ reconfigure(v) \/ Restart(v)
    PROVE  /\ Agrees(Outcome(w)', Outcome(w)) /\ late'[w] = late[w] /\ scheduled'[w] = scheduled[w]
           /\ ended[w] => ended'[w]
           /\ ~ended'[w] => ~ended[w] /\ commits'[w] = commits[w]
<1>1. UNCHANGED handled
    BY Zenon DEF handle_certificate, execute_certificate, decide_end_of_publish,
       remove_pending_consensus_transaction, submit_end_of_publish, close_epoch, reconfigure,
       Restart, store
<1>2. /\ processed_cache'[w] \subseteq processed_cache[w]
      /\ ended[w] => ended'[w]
      /\ ~ended'[w] => ~ended[w] /\ commits'[w] = commits[w]
    <2>1. CASE reconfigure(v)
        BY <2>1, Zenon DEF reconfigure, Types, TableTypes, CommitTypes
    <2>2. CASE Restart(v)
        BY <2>2, Zenon DEF Restart, Types, TableTypes
    <2>3. CASE ~reconfigure(v) /\ ~Restart(v)
        <3>1. UNCHANGED <<processed_cache, ended, commits>>
            BY <2>3, Zenon DEF handle_certificate, execute_certificate, decide_end_of_publish,
               remove_pending_consensus_transaction, submit_end_of_publish, close_epoch, consensus
        <3> QED
            BY <3>1, Zenon
    <2> QED
        BY <2>1, <2>2, <2>3, SMTT(30), Zenon
<1>3. consensus_status(w)' = consensus_status(w)
    <2>1. CASE reconfigure(v)
        BY <2>1, Zenon DEF reconfigure, Types, TableTypes, consensus_status, should_accept_consensus_certs,
           should_accept_user_certs
    <2>2. CASE close_epoch(v)
        BY <2>2, Zenon DEF close_epoch, Types, TableTypes, consensus_status, should_accept_consensus_certs,
           should_accept_user_certs
    <2>3. CASE ~reconfigure(v) /\ ~close_epoch(v)
        <3>1. UNCHANGED reconfig
            BY <2>3, Zenon DEF handle_certificate, execute_certificate, decide_end_of_publish,
               remove_pending_consensus_transaction, submit_end_of_publish, Restart, store
        <3> QED
            BY <3>1, Zenon DEF consensus_status, should_accept_consensus_certs
    <2> QED
        BY <2>1, <2>2, <2>3, Zenon
<1>4. /\ processed'[w] = processed[w] /\ end_of_publish'[w] = end_of_publish[w]
      /\ deferred'[w] = deferred[w] /\ beacon_round'[w] = beacon_round[w]
      /\ scheduled'[w] = scheduled[w] /\ roots'[w] = roots[w] /\ late'[w] = late[w]
    BY <1>1, ZenonT(30) DEF handled
<1>5. Agrees(Outcome(w)', Outcome(w))
    BY <1>2, <1>3, <1>4, SameAgrees, Zenon
<1> QED
    BY <1>2, <1>4, <1>5, Zenon

LEMMA StillShared ==
    ASSUME NEW h \in Seq(Batches), NEW o, Shared(h, o), Moves,
           \A v \in Honest : late'[v] = {} /\ Follows(v, h, o)' /\ Final(v, o[Len(h)])'
    PROVE  History'
<1>1. Chain(h, o) /\ Grounded(o[Len(h)])'
    BY StillGrounded, Zenon DEF Shared
<1>2. Shared(h, o)'
    BY <1>1, ZenonT(30) DEF Shared
<1> QED
    BY <1>2, Zenon DEF History

LEMMA QuietHistory ==
    ASSUME OnceInv, Submission, History, Moves, NEW v \in Honest,
           \/ \E t \in Txs : \/ handle_certificate(v, t) \/ execute_certificate(v, t)
                             \/ decide_end_of_publish(v, t)
           \/ \E key \in Keys : remove_pending_consensus_transaction(v, key)
           \/ submit_end_of_publish(v) \/ close_epoch(v) \/ reconfigure(v) \/ Restart(v)
    PROVE  History'
<1>1. PICK h \in Seq(Batches) : \E o : Shared(h, o)
    BY Zenon DEF History
<1>2. PICK o : Shared(h, o)
    BY <1>1, SMTT(30), Zenon
<1> DEFINE q == o[Len(h)]
<1>3. ASSUME NEW w \in Honest
      PROVE  /\ late'[w] = {} /\ Follows(w, h, o)'
             /\ (ended[w] => ended'[w]) /\ scheduled'[w] = scheduled[w]
    <2>1. /\ Agrees(Outcome(w)', Outcome(w)) /\ late'[w] = late[w] /\ scheduled'[w] = scheduled[w]
          /\ ended[w] => ended'[w]
          /\ ~ended'[w] => ~ended[w] /\ commits'[w] = commits[w]
        BY QuietSteps, Zenon DEF OnceInv
    <2>2. Follows(w, h, o) /\ late[w] = {}
        BY <1>2, ZenonT(30) DEF Shared
    <2> QED
        BY <2>1, <2>2, StillFollows, Zenon
<1>4. ASSUME NEW w \in Honest, executed'[w] = executed[w], reverted'[w] = reverted[w]
      PROVE  Final(w, q)'
    BY <1>2, <1>3, <1>4, StillFinal, ZenonT(30)
<1>5. Types /\ Submits(v) /\ Final(v, q) /\ Scheduled(v) \subseteq q.roots
    BY <1>2, Latest, Zenon DEF OnceInv, Submission, Shared
<1>6. ASSUME NEW w \in Honest PROVE Final(w, q)'
    <2>1. CASE \E t \in Txs : execute_certificate(v, t)
        <3>1. PICK t \in Txs : execute_certificate(v, t)
            BY <2>1, Zenon
        <3>2. CASE w # v
            BY <1>4, <1>5, <3>1, <3>2, Zenon DEF execute_certificate, Types, TableTypes
        <3>3. CASE w = v
            <4>1. /\ executed'[v] = executed[v] \cup {t} /\ pending' = pending
                  /\ reverted' = reverted /\ ended' = ended
                  /\ t \in (requests[v] \cap Owned) \cup Scheduled(v)
                BY <1>5, <3>1, Zenon DEF execute_certificate, Types, TableTypes
            <4>2. t \in q.roots \cup (Owned \cap pending[v])
                BY <1>5, <4>1, Zenon DEF Submits
            <4> HIDE DEF q
            <4> QED
                BY <1>5, <3>3, <4>1, <4>2, SMTT(30), Zenon DEF Final
        <3> QED
            BY <3>2, <3>3, Zenon
    <2>2. CASE reconfigure(v)
        <3>1. CASE w # v
            BY <1>4, <1>5, <2>2, <3>1, Zenon DEF reconfigure, Types, TableTypes
        <3>2. CASE w = v
            <4>1. PICK u \in Concluded :
                      /\ reverted' = [reverted EXCEPT ![v] =
                             revert_uncommitted_epoch_transactions(v, roots[u])]
                      /\ executed' = [executed EXCEPT ![v] = (@ \cup roots[u]) \ reverted'[v]]
                BY <2>2, ZenonT(30) DEF reconfigure
            <4>2. q.status = "RejectAllTx" /\ roots[u] = q.roots
                BY <1>2, Latest, ZenonT(30) DEF Concluded
            <4>3. /\ reverted'[v] = ((pending[v] \cap Txs) \ q.roots) \cap executed[v]
                  /\ executed'[v] = (executed[v] \cup q.roots) \ reverted'[v]
                  /\ pending' = pending /\ ended'[v]
                BY <1>5, <2>2, <4>1, <4>2, Zenon DEF reconfigure, revert_uncommitted_epoch_transactions,
                   pending_consensus_certificates, Types, TableTypes
            <4> HIDE DEF q
            <4> QED
                BY <1>5, <3>2, <4>2, <4>3, Zenon DEF Final
        <3> QED
            BY <3>1, <3>2, SMTT(30), Zenon
    <2>3. CASE ~reconfigure(v) /\ ~(\E t \in Txs : execute_certificate(v, t))
        <3>1. UNCHANGED <<executed, reverted>>
            BY <2>3, Zenon DEF handle_certificate, decide_end_of_publish, Restart, store,
               remove_pending_consensus_transaction, submit_end_of_publish, close_epoch
        <3> QED
            BY <1>4, <3>1, ZenonT(30)
    <2> QED
        BY <2>1, <2>2, <2>3, Zenon
<1> QED
    BY <1>2, <1>3, <1>6, StillShared, Zenon

LEMMA NextPlace == \A n, k \in Int : (n + 1) + (k - 1) = n + k
OBVIOUS

\* A validator handles the next commit of the history.
LEMMA HandlerFollows ==
    ASSUME Types, NEW h \in Seq(Batches), NEW o, Shared(h, o), NEW v \in Honest,
           handle_consensus_output(v)
    PROVE  late'[v] = {} /\ Follows(v, h, o)'
<1> DEFINE c == Head(commits[v])
           p == Outcome(v)
<1>1. commits[v] # <<>> /\ ~ended[v] /\ ended' = ended /\ Effect(v, c)
    BY HandlerEffect, Zenon DEF handle_consensus_output
<1>2. c \in Batches /\ commits[v] \in Seq(Batches) /\ commits'[v] = Tail(commits[v])
    BY <1>1, HeadBatch, Zenon DEF Effect, Types, CommitTypes
<1>3. /\ Len(commits[v]) \in Nat \ {0} /\ Len(h) \in Nat
      /\ Len(commits'[v]) = Len(commits[v]) - 1
      /\ c = commits[v][1]
      /\ \A i \in 1..Len(commits'[v]) : commits'[v][i] = commits[v][i + 1]
    BY <1>1, <1>2, HeadTailProperties, EmptySeq, LenProperties, SMTT(30)
<1>4. PICK n \in 0..Len(h) :
          /\ Agrees(p, o[n])
          /\ n + Len(commits[v]) = Len(h)
          /\ \A i \in 1..Len(commits[v]) : commits[v][i] = h[n + i]
    BY <1>1, Zenon DEF Shared, Follows
<1>5. n + 1 \in 0..Len(h) /\ (n + 1) - 1 = n /\ n + 1 > 0 /\ 1 \in 1..Len(commits[v])
    <2>1. /\ Len(commits[v]) \in Nat \ {0} /\ Len(h) \in Nat
          /\ n \in 0..Len(h) /\ n + Len(commits[v]) = Len(h)
        BY <1>3, <1>4, Zenon
    <2> QED
        BY <2>1
<1>6. c = h[n + 1]
    BY <1>3, <1>4, <1>5, Zenon
<1>7. Sound(o[n]) /\ o[n + 1] = After(o[n], c) /\ NoLate(o[n], c)
    BY <1>5, <1>6, Zenon DEF Shared, Chain
<1>8. Agrees(Outcome(v)', o[n + 1])
    <2>1. Outcome(v)' = After(p, c)
        BY HandlerAfter, Zenon
    <2>2. Agrees(After(p, c), After(o[n], c))
        BY <1>2, <1>4, <1>7, AfterAgrees, Zenon
    <2> QED
        BY <1>7, <2>1, <2>2, Zenon
<1>9. (n + 1) + Len(commits'[v]) = Len(h)
    <2>1. /\ Len(commits'[v]) = Len(commits[v]) - 1 /\ Len(commits[v]) \in Nat /\ Len(h) \in Nat
          /\ n \in 0..Len(h) /\ n + Len(commits[v]) = Len(h)
        BY <1>3, <1>4, Zenon
    <2>2. n \in Int /\ Len(commits[v]) \in Int
        BY <2>1
    <2>3. (n + 1) + (Len(commits[v]) - 1) = n + Len(commits[v])
        BY <2>2, NextPlace, Zenon
    <2> QED
        BY <2>1, <2>3, Zenon
<1>10. \A i \in 1..Len(commits'[v]) : commits'[v][i] = h[(n + 1) + i]
    <2> SUFFICES ASSUME NEW i \in 1..Len(commits'[v]) PROVE commits'[v][i] = h[(n + 1) + i]
        BY Zenon
    <2>1. i + 1 \in 1..Len(commits[v]) /\ n + (i + 1) = (n + 1) + i
        BY <1>3, SMTT(30), Zenon
    <2>2. commits[v][i + 1] = h[n + (i + 1)]
        BY <1>4, <2>1, Zenon
    <2> QED
        BY <1>3, <2>1, <2>2, Zenon
<1>11. Follows(v, h, o)'
    BY <1>5, <1>8, <1>9, <1>10, Zenon DEF Follows
<1>12. NoLate(p, c) /\ p \in OutcomeTypes
    BY <1>4, <1>7, OutcomeType, SMTT(30), Zenon DEF NoLate, Agrees
<1>13. \A m \in sequenced(v, c) : m.author \notin end_of_publish[v]
    <2>1. /\ Certificates(v, c) = CertificatesOf(p, c) /\ p.end_of_publish = end_of_publish[v]
          /\ load_deferred_transactions(v, c) = LoadedOf(p, c)
        BY ViewOf, Zenon DEF Outcome
    <2>2. PreviouslyDeferred(v, c) = PreviouslyOf(p, c)
        BY <2>1, Zenon DEF PreviouslyDeferred, PreviouslyOf
    <2>3. \A m \in CertificatesOf(p, c) \cup PreviouslyOf(p, c) : m.author \notin p.end_of_publish
        BY <1>2, <1>12, NoneLate, Zenon
    <2> QED
        BY <2>1, <2>2, <2>3, Zenon DEF sequenced
<1>14. late'[v] = late[v] \cup {m \in sequenced(v, c) : SentAfterEndOfPublish(v, m)}
    BY <1>1, Zenon DEF Effect, Types, TableTypes
<1>15. late'[v] = {}
    BY <1>13, <1>14, Zenon DEF SentAfterEndOfPublish, Shared
<1> QED
    BY <1>11, <1>15, Zenon

LEMMA HandlerHistory ==
    ASSUME OnceInv, History, Moves, NEW v \in Honest, handle_consensus_output(v)
    PROVE  History'
<1>1. PICK h \in Seq(Batches) : \E o : Shared(h, o)
    BY Zenon DEF History
<1>2. PICK o : Shared(h, o)
    BY <1>1, Zenon
<1>3. Types /\ Effect(v, Head(commits[v]))
    BY HandlerEffect, Zenon DEF OnceInv
<1>4. ASSUME NEW w \in Honest PROVE late'[w] = {} /\ Follows(w, h, o)'
    <2>1. CASE w = v
        BY <1>2, <1>3, <2>1, HandlerFollows, Zenon
    <2>2. CASE w # v
        <3>1. /\ processed'[w] = processed[w] /\ end_of_publish'[w] = end_of_publish[w]
              /\ roots'[w] = roots[w] /\ late'[w] = late[w] /\ reconfig'[w] = reconfig[w]
              /\ processed_cache'[w] = processed_cache[w] /\ ended' = ended
            BY <1>3, <2>2, Zenon DEF Effect, Types, TableTypes
        <3>2. /\ deferred'[w] = deferred[w] /\ beacon_round'[w] = beacon_round[w]
              /\ scheduled'[w] = scheduled[w] /\ commits'[w] = commits[w]
            BY <1>3, <2>2, Zenon DEF Effect, Types, CommitTypes
        <3>3. consensus_status(w)' = consensus_status(w)
            BY <3>1, ZenonT(30) DEF consensus_status, should_accept_consensus_certs
        <3>4. Agrees(Outcome(w)', Outcome(w))
            BY <3>1, <3>2, <3>3, SameAgrees, Zenon
        <3>5. Follows(w, h, o) /\ late[w] = {}
            BY <1>2, ZenonT(30) DEF Shared
        <3> QED
            BY <3>1, <3>2, <3>4, <3>5, StillFollows, Zenon
    <2> QED
        BY <2>1, <2>2, Zenon
<1>5. ASSUME NEW w \in Honest PROVE Final(w, o[Len(h)])'
    <2>1. pending' = pending /\ executed' = executed /\ reverted' = reverted /\ ended' = ended
        BY <1>3, Zenon DEF Effect
    <2> QED
        BY <1>2, <2>1, StillFinal, Zenon
<1> QED
    BY <1>2, <1>4, <1>5, StillShared, Zenon

LEMMA SubmittedVouched ==
    ASSUME Submission, NEW m \in Submitted
    PROVE  Vouched(m)
<1>1. CASE m \in in_flight
    BY <1>1, Zenon DEF Submission
<1>2. ASSUME NEW v \in Honest, m \in submit_to_consensus(v) PROVE Vouched(m)
    <2>1. PICK k \in tasks[v] : m = [author |-> v, key |-> k[1]]
        BY <1>2, Zenon DEF submit_to_consensus
    <2> QED
        BY <2>1, Zenon DEF Submission, Submits
<1> QED
    BY <1>1, <1>2, Zenon DEF Submitted

\* What an author submitted before it ended its publishing was scheduled by
\* the commits so far.
LEMMA CommitNoLate ==
    ASSUME Types, Submission, NEW h \in Seq(Batches), NEW o, Shared(h, o), NEW c \in Batches,
           \A i \in DOMAIN c.messages : c.messages[i] \in Submitted
    PROVE  NoLate(o[Len(h)], c)
<1> DEFINE q == o[Len(h)]
<1>1. Grounded(q)
    BY Zenon DEF Shared
<1>2. ASSUME NEW m, Vouched(m), m.key \in Txs, m.author \in q.end_of_publish
      PROVE  m.key \in ScheduledOf(q)
    <2>1. m.author \in Honest /\ m.key \in pending[m.author] \cup Scheduled(m.author)
        BY <1>2, Zenon DEF Vouched
    <2>2. pending[m.author] \cap Txs = {}
        BY <1>1, <1>2, <2>1, SMTT(30), Zenon DEF Grounded, Over, pending_consensus_certificates
    <2>3. Scheduled(m.author) \subseteq ScheduledOf(q)
        BY <2>1, Latest, Zenon
    <2> QED
        BY <1>2, <2>1, <2>2, <2>3, Zenon
<1>4. Sound(q)
    <2>1. Len(h) \in 0..Len(h)
        BY LenProperties
    <2> QED
        BY <2>1, Zenon DEF Shared, Chain
<1>5. OnceOf(q) /\ q \in OutcomeTypes
    BY <1>4, Zenon DEF Sound
<1>6. \A d \in q.deferred : d.message.key \in Txs
    BY <1>5, OutcomeFields, Zenon DEF Entries, Certified
<1> HIDE DEF q
<1>7. ASSUME NEW i \in DOMAIN c.messages, c.messages[i].key \in Txs,
             c.messages[i].author \in q.end_of_publish
      PROVE  c.messages[i].key \in q.processed
    BY <1>2, <1>5, <1>7, SubmittedVouched, Zenon DEF OnceOf
<1>8. ASSUME NEW d \in q.deferred PROVE d.message.author \notin q.end_of_publish
    BY <1>1, <1>2, <1>5, <1>6, Zenon DEF OnceOf, Grounded
<1>9. NoLate(q, c)
    BY <1>7, <1>8, Zenon DEF NoLate
<1> QED
    BY <1>9, Zenon DEF q

LEMMA CommitGrounded ==
    ASSUME Submission, NEW q \in OutcomeTypes, Grounded(q), NEW c \in Batches,
           \A i \in DOMAIN c.messages : c.messages[i] \in Submitted
    PROVE  Grounded(After(q, c))
<1>1. \A i \in DOMAIN c.messages : Vouched(c.messages[i])
    BY SubmittedVouched, Zenon
<1>2. ASSUME NEW d \in After(q, c).deferred PROVE Vouched(d.message)
    <2>1. d \in q.deferred \/ \E i \in DOMAIN c.messages : d.message = c.messages[i]
        BY AfterOrigin, Zenon
    <2> QED
        BY <1>1, <2>1, Zenon DEF Grounded
<1>3. ASSUME NEW a \in After(q, c).end_of_publish \cap Honest PROVE Over(a)
    <2>1. a \in q.end_of_publish \/ \E i \in DOMAIN c.messages : c.messages[i].key = a /\ a \in Authorities
        BY AfterOrigin, Zenon
    <2>2. CASE a \in q.end_of_publish
        BY <2>2, Zenon DEF Grounded
    <2>3. ASSUME NEW i \in DOMAIN c.messages, c.messages[i].key = a, a \in Authorities PROVE Over(a)
        <3>1. a \notin Txs
            BY <2>3, EpochAssumption, Zenon
        <3> QED
            BY <1>1, <2>3, <3>1, SMTT(30), Zenon DEF Vouched
    <2> QED
        BY <2>1, <2>2, <2>3, Zenon
<1> QED
    BY <1>2, <1>3, Zenon DEF Grounded

\* A commit of consensus extends the history.
LEMMA CommitHistory ==
    ASSUME OnceInv, Submission, History, Moves, Commit
    PROVE  History'
<1>1. PICK h \in Seq(Batches) : \E o : Shared(h, o)
    BY Zenon DEF History
<1>2. PICK o : Shared(h, o)
    BY <1>1, Zenon
<1>3. Types
    BY Zenon DEF OnceInv
<1>4. PICK c \in Batches :
          /\ \A i \in DOMAIN c.messages : c.messages[i] \in Submitted
          /\ commits' = [v \in Honest |-> Append(commits[v], c)]
    BY <1>3, CommitEffect, Zenon
<1> DEFINE L == Len(h)
           q == o[L]
           a == After(q, c)
           g == Append(h, c)
           p == [n \in 0..(L + 1) |-> IF n <= L THEN o[n] ELSE a]
<1>5. /\ L \in Nat /\ g \in Seq(Batches) /\ Len(g) = L + 1
      /\ \A i \in 1..L : g[i] = h[i]
      /\ g[L + 1] = c
    BY <1>4, AppendProperties, LenProperties, SMTT(30), Zenon
<1>6. (\A n \in 0..L : p[n] = o[n]) /\ p[L + 1] = a /\ p[Len(g)] = a
    BY <1>5
<1>7. \A n \in 0..L : /\ Sound(o[n]) /\ Before(o[n], q)
                      /\ n > 0 => o[n] = After(o[n - 1], h[n]) /\ NoLate(o[n - 1], h[n])
    BY <1>2, Zenon DEF Shared, Chain
<1>8. Sound(q) /\ NoLate(q, c) /\ Grounded(q)
    <2>1. L \in 0..L
        BY <1>5, SMTT(30), Zenon
    <2> QED
        BY <1>2, <1>3, <1>4, <1>7, <2>1, CommitNoLate, Zenon DEF Shared
<1>9. Sound(a) /\ Before(q, a) /\ Grounded(a)
    BY <1>4, <1>8, AfterSound, AfterBefore, CommitGrounded, Zenon DEF Sound
<1>10. Grounded(a)'
    BY <1>9, StillGrounded, ZenonT(30)
<1> HIDE DEF q, a, g, p, L
<1>11. Chain(g, p)
    <2>1. ASSUME NEW n \in 0..L
          PROVE  /\ Sound(p[n]) /\ Before(p[n], a)
                 /\ n > 0 => p[n] = After(p[n - 1], g[n]) /\ NoLate(p[n - 1], g[n])
        <3>1. Sound(p[n]) /\ Before(p[n], a)
            BY <1>6, <1>7, <1>9, SMTT(30), Zenon DEF Before
        <3>2. ASSUME n > 0 PROVE p[n] = After(p[n - 1], g[n]) /\ NoLate(p[n - 1], g[n])
            <4>1. n - 1 \in 0..L /\ n \in 1..L
                BY <1>5, <3>2, SMTT(30), Zenon
            <4> QED
                BY <1>5, <1>6, <1>7, <3>2, <4>1, Zenon
        <3> QED
            BY <3>1, <3>2, Zenon
    <2>2. /\ Sound(p[L + 1]) /\ Before(p[L + 1], a)
          /\ p[L + 1] = After(p[(L + 1) - 1], g[L + 1]) /\ NoLate(p[(L + 1) - 1], g[L + 1])
        <3>1. (L + 1) - 1 = L /\ L \in 0..L
            BY <1>5
        <3>2. p[(L + 1) - 1] = q
            BY <1>6, <3>1, Zenon DEF q
        <3> QED
            BY <1>5, <1>6, <1>8, <1>9, <3>2, Zenon DEF Before, a
    <2>3. \A n \in 0..Len(g) : n \in 0..L \/ n = L + 1
        BY <1>5
    <2> QED
        BY <1>6, <2>1, <2>2, <2>3, Zenon DEF Chain
<1>12. UNCHANGED <<store, processed_cache, ended, reverted>> /\ \A v \in Honest : ~ended[v]
    BY ZenonT(30) DEF Commit
<1>13. ASSUME NEW v \in Honest PROVE late'[v] = {} /\ Follows(v, g, p)' /\ Final(v, a)'
    <2>1. late[v] = {} /\ Follows(v, h, o) /\ Final(v, q) /\ ~ended[v]
        BY <1>2, <1>12, Zenon DEF Shared, q, L
    <2>2. PICK n \in 0..L :
              /\ Agrees(Outcome(v), o[n])
              /\ n + Len(commits[v]) = L
              /\ \A i \in 1..Len(commits[v]) : commits[v][i] = h[n + i]
        BY <2>1, Zenon DEF Follows, L
    <2>3. Outcome(v)' = Outcome(v)
        BY <1>12, Zenon DEF store, handled, Outcome, consensus_status, should_accept_consensus_certs
    <2> DEFINE l == Len(commits[v])
    <2>4. /\ l \in Nat /\ Len(commits'[v]) = l + 1
          /\ \A i \in 1..l : commits'[v][i] = commits[v][i]
          /\ commits'[v][l + 1] = c
        BY <1>3, <1>4, AppendProperties, LenProperties, SMTT(30) DEF Types, CommitTypes
    <2>5. n \in 0..Len(g) /\ n + Len(commits'[v]) = Len(g)
        BY <1>5, <2>2, <2>4, SMTT(30)
    <2>6. ASSUME NEW i \in 1..Len(commits'[v]) PROVE commits'[v][i] = g[n + i]
        <3>1. CASE i \in 1..l
            <4>1. n + i \in 1..L
                BY <1>5, <2>2, <2>4, <3>1, SMTT(30)
            <4> QED
                BY <1>5, <2>2, <2>4, <3>1, <4>1, Zenon
        <3>2. CASE i = l + 1
            <4>1. n + i = L + 1
                <5>1. n \in Nat /\ n + l = L
                    BY <1>5, <2>2, SMTT(30)
                <5> HIDE DEF l
                <5> QED
                    BY <1>5, <2>4, <3>2, <5>1, SMTT(30)
            <4> QED
                BY <1>5, <2>4, <3>2, <4>1, Zenon
        <3>3. i \in 1..l \/ i = l + 1
            BY <2>4
        <3> QED
            BY <3>1, <3>2, <3>3, Zenon
    <2>7. Agrees(Outcome(v)', p[n])
        BY <1>6, <2>2, <2>3, SMTT(30), Zenon
    <2>8. Follows(v, g, p)'
        BY <2>5, <2>6, <2>7, Zenon DEF Follows
    <2>9. /\ late'[v] = late[v] /\ executed'[v] = executed[v] /\ reverted'[v] = reverted[v]
          /\ pending'[v] = pending[v]
        BY <1>12, Zenon DEF store, handled
    <2>10. Final(v, a)'
        BY <1>9, <2>1, <2>9, SMTT(30), Zenon DEF Final, Before
    <2> QED
        BY <2>1, <2>8, <2>9, <2>10, Zenon
<1>14. Shared(g, p)'
    BY <1>6, <1>10, <1>11, <1>13, Zenon DEF Shared
<1> QED
    BY <1>5, <1>14, Zenon DEF History

LEMMA NextHistory ==
    ASSUME OnceInv, Submission, History, Moves, [Next]_vars
    PROVE  History'
<1>1. CASE UNCHANGED vars
    <2>1. PICK h \in Seq(Batches) : \E o : Shared(h, o)
        BY Zenon DEF History
    <2>2. PICK o : Shared(h, o)
        BY <2>1, Zenon
    <2>3. ASSUME NEW v \in Honest PROVE late'[v] = {} /\ Follows(v, h, o)' /\ Final(v, o[Len(h)])'
        <3>1. late[v] = {} /\ Follows(v, h, o)
            BY <2>2, Zenon DEF Shared
        <3>2. /\ UNCHANGED <<reconfig, processed, end_of_publish, deferred, beacon_round, scheduled, roots>>
              /\ UNCHANGED <<late, processed_cache, ended, commits, executed, reverted, pending>>
            BY <1>1, Zenon DEF vars, store, handled, memory, consensus
        <3>3. Agrees(Outcome(v)', Outcome(v))
            BY <3>2, SameAgrees, ZenonT(30) DEF consensus_status, should_accept_consensus_certs
        <3>4. Follows(v, h, o)'
            BY <3>1, <3>2, <3>3, StillFollows, Zenon
        <3>5. Final(v, o[Len(h)])'
            BY <2>2, <3>2, StillFinal, Zenon
        <3> QED
            BY <3>1, <3>2, <3>4, <3>5, Zenon
    <2> QED
        BY <2>2, <2>3, StillShared, Zenon
<1>2. CASE Commit
    BY <1>2, CommitHistory, Zenon
<1>3. ASSUME NEW v \in Honest,
             \/ \E t \in Txs : \/ handle_certificate(v, t) \/ execute_certificate(v, t)
                               \/ decide_end_of_publish(v, t)
             \/ \E key \in Keys : remove_pending_consensus_transaction(v, key)
             \/ submit_end_of_publish(v) \/ close_epoch(v) \/ reconfigure(v) \/ Restart(v)
      PROVE  History'
    BY <1>3, QuietHistory, Zenon
<1>4. ASSUME NEW v \in Honest, handle_consensus_output(v) PROVE History'
    BY <1>4, HandlerHistory, ZenonT(30)
<1> QED
    BY <1>1, <1>2, <1>3, <1>4, Zenon DEF Next, Progress

\* At first there is one outcome, that of no commit.
LEMMA InitHistory ==
    ASSUME Init
    PROVE  History
<1> DEFINE q == [status |-> "AcceptConsensusCerts", processed |-> {}, cache |-> {},
                 end_of_publish |-> {}, deferred |-> {}, beacon_round |-> 0,
                 scheduled |-> <<>>, roots |-> {}]
           h == <<>>
           o == [n \in {0} |-> q]
<1>1. h \in Seq(Batches) /\ Len(h) = 0 /\ 0..Len(h) = {0}
    BY EmptySeq
<1>2. o[0] = q
    BY Zenon
<1>3. /\ q.status = "AcceptConsensusCerts" /\ q.processed = {} /\ q.cache = {}
      /\ q.end_of_publish = {} /\ q.deferred = {} /\ q.beacon_round = 0
      /\ q.scheduled = <<>> /\ q.roots = {}
    BY Zenon
<1>4. q \in OutcomeTypes
    <2>1. <<>> \in Seq(SUBSET Txs)
        BY EmptySeq, Zenon
    <2> QED
        BY <2>1, Zenon DEF OutcomeTypes
<1>5. ASSUME NEW v \in Honest PROVE Outcome(v) = q
    BY Zenon DEF Init, Outcome, consensus_status, should_accept_consensus_certs
<1> HIDE DEF q, h, o
<1>6. ScheduledOf(q) = {}
    BY <1>3 DEF ScheduledOf
<1>7. DOMAIN q.scheduled = {}
    BY <1>3
<1>8. OnceOf(q)
    BY <1>3, <1>6, <1>7, Zenon DEF OnceOf
<1>9. Sound(q) /\ Before(q, q)
    BY <1>3, <1>4, <1>8, Zenon DEF Sound, Before, Stale
<1>10. Chain(h, o)
    BY <1>1, <1>2, <1>9, SMTT(30) DEF Chain
<1>11. Grounded(o[Len(h)])
    BY <1>1, <1>2, <1>3, SMTT(30), Zenon DEF Grounded
<1>12. ASSUME NEW v \in Honest PROVE late[v] = {} /\ Follows(v, h, o) /\ Final(v, o[Len(h)])
    <2>1. late[v] = {} /\ commits[v] = <<>> /\ executed[v] = {} /\ reverted[v] = {}
        BY Zenon DEF Init
    <2>2. Len(commits[v]) = 0
        BY <2>1
    <2>3. Agrees(Outcome(v), o[0])
        BY <1>2, <1>5, Zenon DEF Agrees
    <2>4. /\ 0 \in 0..Len(h) /\ 0 + Len(commits[v]) = Len(h)
          /\ \A i \in 1..Len(commits[v]) : commits[v][i] = h[0 + i]
        BY <1>1, <2>2
    <2>5. Follows(v, h, o)
        BY <2>3, <2>4, Zenon DEF Follows
    <2>6. Final(v, o[Len(h)])
        BY <2>1, Zenon DEF Final
    <2> QED
        BY <2>1, <2>5, <2>6, Zenon
<1> QED
    BY <1>1, <1>10, <1>11, <1>12, Zenon DEF History, Shared

\* The invariant of the epoch: while no validator has lost what a deferred
\* transaction waits for, what they submit is vouched for, and they move
\* along one history of commits in which nothing came late.
THEOREM Epoch == Spec => []EpochInv
<1>1. Init => EpochInv
    BY InitOnce, InitSubmission, InitHistory, Zenon DEF EpochInv
<1>2. EpochInv /\ [Next]_vars => EpochInv'
    <2> SUFFICES ASSUME EpochInv, [Next]_vars PROVE EpochInv'
        BY Zenon
    <2>1. OnceInv /\ OnceInv'
        BY NextOnce, Zenon DEF EpochInv
    <2>2. ASSUME Settled' PROVE Submission' /\ History'
        <3>1. Settled
            BY <2>1, <2>2, StaysSettled, Zenon DEF OnceInv
        <3>2. Submission /\ History
            BY <3>1, Zenon DEF EpochInv
        <3>3. Moves
            BY <2>1, <2>2, <3>2, NextMoves, Zenon
        <3> QED
            BY <2>1, <3>2, <3>3, StillSubmits, NextHistory, Zenon
    <2> QED
        BY <2>1, <2>2, Zenon DEF EpochInv
<1> QED
    BY <1>1, <1>2, PTL DEF Spec

\* Two validators that handled the same commits scheduled the same
\* transactions in the same order, made the same checkpoints and hold the
\* same deferred transactions (process_consensus_transactions_and_commit_boundary),
\* however often they restarted, if no transaction is ever deferred; and if
\* some are, while none has restarted.
THEOREM SameCommitsSameOutcome == Spec => [](Settled => SameOutcome)
<1>1. EpochInv => (Settled => SameOutcome)
    <2> SUFFICES ASSUME EpochInv, Settled, NEW v \in Honest, NEW w \in Honest,
                        Len(commits[v]) = Len(commits[w]), ~ended[v], ~ended[w]
                 PROVE  /\ scheduled[v] = scheduled[w] /\ roots[v] = roots[w]
                        /\ deferred[v] = deferred[w]
                        /\ reconfig[v] = "RejectAllTx" <=> reconfig[w] = "RejectAllTx"
        BY Zenon DEF SameOutcome
    <2>1. Types /\ History
        BY Zenon DEF EpochInv, OnceInv
    <2>2. PICK h \in Seq(Batches) : \E o : Shared(h, o)
        BY <2>1, Zenon DEF History
    <2>3. PICK o : Shared(h, o)
        BY <2>2, Zenon
    <2>4. PICK n \in 0..Len(h) : Agrees(Outcome(v), o[n]) /\ n + Len(commits[v]) = Len(h)
        BY <2>3, Zenon DEF Shared, Follows
    <2>5. PICK m \in 0..Len(h) : Agrees(Outcome(w), o[m]) /\ m + Len(commits[w]) = Len(h)
        BY <2>3, Zenon DEF Shared, Follows
    <2>6. Len(commits[v]) \in Nat /\ Len(h) \in Nat
        BY <2>1, LenProperties, Zenon DEF Types, CommitTypes
    <2>7. n = m
        BY <2>4, <2>5, <2>6, SMTT(30), Zenon
    <2>8. ASSUME NEW u \in {v, w}
          PROVE  /\ scheduled[u] = o[n].scheduled /\ roots[u] = o[n].roots
                 /\ deferred[u] = o[n].deferred /\ consensus_status(u) = o[n].status
        <3>1. Agrees(Outcome(u), o[n])
            BY <2>4, <2>5, <2>7, Zenon
        <3>2. /\ Outcome(u).scheduled = scheduled[u] /\ Outcome(u).roots = roots[u]
              /\ Outcome(u).deferred = deferred[u] /\ Outcome(u).status = consensus_status(u)
            BY Zenon DEF Outcome
        <3> QED
            BY <3>1, <3>2, Zenon DEF Agrees
    <2>9. ASSUME NEW u \in {v, w} PROVE reconfig[u] = "RejectAllTx" <=> o[n].status = "RejectAllTx"
        <3>1. consensus_status(u) = o[n].status /\ u \in Honest
            BY <2>8, Zenon
        <3> QED
            BY <3>1, Zenon DEF consensus_status, should_accept_consensus_certs
    <2> QED
        BY <2>8, <2>9, Zenon
<1> QED
    BY <1>1, Epoch, PTL

\* No certificate of a correct validator is ignored as sent after its
\* EndOfPublish (process_consensus_transaction).
THEOREM NobodyIgnored == Spec => [](Settled => NoValidAuthorityIgnored)
<1>1. EpochInv => (Settled => NoValidAuthorityIgnored)
    <2> SUFFICES ASSUME EpochInv, Settled, NEW v \in Honest PROVE late[v] = {}
        BY Zenon DEF NoValidAuthorityIgnored
    <2> QED
        BY Zenon DEF EpochInv, History, Shared
<1> QED
    BY <1>1, Epoch, PTL

\* What the end of the epoch undoes (revert_uncommitted_epoch_transactions)
\* used no shared object, and no quorum signed its effects: every quorum has
\* a correct validator that sent EndOfPublish with nothing pending.
THEOREM UndoneWasNotFinal == Spec => [](Settled => FinalizedSurvive)
<1>1. EpochInv => (Settled => FinalizedSurvive)
    <2> SUFFICES ASSUME EpochInv, Settled, NEW v \in Honest, NEW t \in reverted[v]
                 PROVE  /\ t \in Owned
                        /\ ~reached_quorum({w \in Honest : t \in executed[w] \cup reverted[w]} \cup Faulty)
        BY Zenon DEF FinalizedSurvive
    <2>1. PICK h \in Seq(Batches) : \E o : Shared(h, o)
        BY Zenon DEF EpochInv, History
    <2>2. PICK o : Shared(h, o)
        BY <2>1, Zenon
    <2> DEFINE q == o[Len(h)]
    <2>3. Sound(q) /\ Grounded(q) /\ \A w \in Honest : Final(w, q)
        BY <2>2, Latest, Zenon DEF Shared
    <2> HIDE DEF q
    <2>4. q.status = "RejectAllTx" /\ t \notin q.roots
        BY <2>3, Zenon DEF Final
    <2>5. \A w \in Honest : t \in executed[w] \cup reverted[w] => t \in Owned \cap pending[w]
        BY <2>3, <2>4, Zenon DEF Final
    <2>6. t \in Owned /\ t \in Txs
        BY <2>5, EpochAssumption, ZenonT(30)
    <2>7. reached_quorum(q.end_of_publish) /\ q.end_of_publish \subseteq Authorities
        BY <2>3, <2>4, OutcomeFields, Zenon DEF Sound
    <2> DEFINE E == {w \in Honest : t \in executed[w] \cup reverted[w]} \cup Faulty
    <2>8. ASSUME reached_quorum(E) PROVE FALSE
        <3>1. E \subseteq Authorities
            BY HonestMember, Zenon
        <3> HIDE DEF E
        <3>2. PICK w \in Honest : w \in E /\ w \in q.end_of_publish
            BY <2>7, <2>8, <3>1, QuorumIntersection, Zenon
        <3>3. t \in pending[w]
            BY <2>5, <3>2, Zenon DEF E, Honest
        <3>4. pending[w] \cap Txs = {}
            BY <2>3, <3>2, Zenon DEF Grounded, Over, pending_consensus_certificates
        <3> QED
            BY <2>6, <3>3, <3>4, Zenon
    <2> QED
        BY <2>6, <2>8, Zenon
<1> QED
    BY <1>1, Epoch, PTL

-----------------------------------------------------------------------------
(***************************************************************************)
(* What is accepted is scheduled in the end.                               *)
(***************************************************************************)

\* Every step of every validator accounts for what it accepted.
LEMMA NextAccounted ==
    ASSUME OnceInv, [Next]_vars, \A v \in Honest : Accounted(v),
           \A v \in Honest : late'[v] = {}, NEW w \in Honest
    PROVE  Accounted(w)'
<1>1. Accounted(w) /\ Types
    BY Zenon DEF OnceInv
<1>2. ASSUME UNCHANGED <<scheduled, deferred, processed, reconfig>>
      PROVE  Accounted(w)'
    <2>1. consensus_status(w)' = consensus_status(w)
        BY <1>2, Zenon DEF consensus_status, should_accept_consensus_certs
    <2> QED
        BY <1>1, <1>2, <2>1, SameAccounted, Zenon
<1>3. CASE UNCHANGED vars
    BY <1>2, <1>3, Zenon DEF vars, store, handled
<1>4. CASE Commit
    <2>1. UNCHANGED <<scheduled, deferred, processed, reconfig>>
        BY <1>4, Zenon DEF Commit, store, handled
    <2> QED
        BY <1>2, <2>1, Zenon
<1>5. ASSUME NEW v \in Honest, handle_consensus_output(v)
      PROVE  Accounted(w)'
    <2>1. CASE w = v
        BY <1>1, <1>5, <2>1, HandlerAccounts, Zenon
    <2>2. CASE w # v
        <3>1. PICK c : Effect(v, c)
            BY <1>5, HandlerEffect, Zenon
        <3>2. /\ scheduled'[w] = scheduled[w] /\ deferred'[w] = deferred[w]
              /\ processed'[w] = processed[w] /\ reconfig'[w] = reconfig[w]
            BY <1>1, <2>2, <3>1, Zenon DEF Effect, Types, TableTypes, CommitTypes
        <3>3. Scheduled(w)' = Scheduled(w)
            BY <3>2, Zenon DEF Scheduled
        <3> QED
            BY <1>1, <3>2, <3>3, Zenon DEF Accounted
    <2> QED
        BY <2>1, <2>2, Zenon
<1>6. ASSUME NEW v \in Honest,
             \/ \E t \in Txs : \/ handle_certificate(v, t) \/ execute_certificate(v, t)
                               \/ decide_end_of_publish(v, t)
             \/ \E key \in Keys : remove_pending_consensus_transaction(v, key)
             \/ submit_end_of_publish(v) \/ close_epoch(v) \/ reconfigure(v) \/ Restart(v)
      PROVE  Accounted(w)'
    <2>1. UNCHANGED handled
        BY <1>6, Zenon DEF handle_certificate, execute_certificate, decide_end_of_publish,
           remove_pending_consensus_transaction, submit_end_of_publish, close_epoch, reconfigure,
           Restart, store
    <2>2. Agrees(Outcome(w)', Outcome(w))
        BY <1>1, <1>6, QuietSteps, Zenon
    <2>3. consensus_status(w)' = consensus_status(w)
        <3>1. Outcome(w).status = consensus_status(w) /\ Outcome(w)'.status = consensus_status(w)'
            BY Zenon DEF Outcome
        <3> QED
            BY <2>2, <3>1, Zenon DEF Agrees
    <2> QED
        BY <1>1, <2>1, <2>3, SameAccounted, Zenon DEF handled
<1> QED
    BY <1>3, <1>4, <1>5, <1>6, Zenon DEF Next, Progress

\* What a validator accepted from consensus it has scheduled when the epoch
\* has its last checkpoint (process_consensus_transactions_and_commit_boundary):
\* no transaction is left deferred.  It holds however often the validators
\* restarted, if no transaction is ever deferred; and if some are, while none
\* has restarted.
THEOREM AcceptedIsScheduled == Spec => [](Settled => AcceptedAreScheduled)
<1> DEFINE I == EpochInv /\ (Settled => \A v \in Honest : Accounted(v))
<1>1. Init /\ EpochInv => I
    BY Zenon DEF Init, Accounted, Scheduled
<1>2. EpochInv /\ EpochInv' /\ I /\ [Next]_vars => I'
    <2> SUFFICES ASSUME EpochInv, EpochInv', I, [Next]_vars, Settled', NEW w \in Honest
                 PROVE  Accounted(w)'
        BY Zenon
    <2>1. OnceInv /\ Types
        BY Zenon DEF EpochInv, OnceInv
    <2>2. Settled
        BY <2>1, StaysSettled, Zenon
    <2>3. \A v \in Honest : Accounted(v)
        BY <2>2, Zenon
    <2>4. \A v \in Honest : late'[v] = {}
        BY Zenon DEF EpochInv, History, Shared
    <2> QED
        BY <2>1, <2>3, <2>4, NextAccounted, Zenon
<1>3. I => (Settled => AcceptedAreScheduled)
    BY Zenon DEF AcceptedAreScheduled, Accounted
<1> HIDE DEF I
<1> QED
    BY <1>1, <1>2, <1>3, Epoch, PTL DEF Spec
=============================================================================
