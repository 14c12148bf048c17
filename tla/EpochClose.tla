----------------------------- MODULE EpochClose -----------------------------
(***************************************************************************)
(* How the validators of an epoch agree to end it                          *)
(* (crates/mgo-core/src/consensus_adapter.rs, consensus_handler.rs,        *)
(* authority/authority_per_epoch_store.rs and epoch/reconfiguration.rs).   *)
(*                                                                         *)
(* A validator that takes a transaction certificate from a user persists   *)
(* it as pending, and a task of its consensus adapter submits it and waits *)
(* until consensus has processed it.  When the epoch is over the validator *)
(* takes no more certificates; once nothing is pending it submits          *)
(* EndOfPublish.  Every validator handles the same sequence of commits;    *)
(* the quorum of EndOfPublish closes the epoch for certificates, and the   *)
(* commit after which nothing is deferred is its last.  A certificate that *)
(* is still pending then was executed in vain, and is reverted.            *)
(*                                                                         *)
(* The key of a consensus transaction is the digest of its certificate or, *)
(* for EndOfPublish, the authority that ends its publishing.               *)
(***************************************************************************)
EXTENDS Committee, Sequences, FiniteSets

CONSTANTS
    Txs,           \* user transactions, all of them certified
    Owned,         \* the ones without a shared object: executed at once
    Randomised,    \* the ones that read the randomness object: deferred
    Offered,       \* bound: the certificates clients send to each validator
    CommitSize,    \* bound: messages in a commit
    MaxBeacon,     \* bound: randomness rounds no transaction waits for
    MaxRestarts    \* bound: restarts of all validators together

ASSUME EpochAssumption ==
    /\ Txs \cap Authorities = {}
    /\ Owned \subseteq Txs /\ Randomised \subseteq Txs \ Owned
    /\ Offered \in [Honest -> SUBSET Txs]
    /\ CommitSize \in Nat /\ MaxBeacon \in Nat /\ MaxRestarts \in Nat

VARIABLES
    \* The epoch store of each validator, on disk.
    reconfig,        \* ReconfigState
    pending,         \* pending_consensus_transactions, and its in-memory index
    processed,       \* consensus_message_processed
    end_of_publish,  \* the authorities whose EndOfPublish was collected
    deferred,        \* deferred_transactions
    beacon_round,    \* the last of randomness_rounds_written
    executed,        \* transactions with signed effects
    scheduled,       \* the sequence of sets of transactions scheduled for execution
    roots,           \* roots of the pending checkpoints
    late,            \* certificates ignored as sent after EndOfPublish
    \* Its memory.
    processed_cache, \* keys seen by this consensus handler
    requests,        \* certificates taken that wait for their execution
    tasks,           \* submit_and_wait_inner: pairs of a key and a stage
    sending,         \* close_epoch is about to submit EndOfPublish
    \* The end of the epoch at each validator.
    ended,
    reverted,        \* executed transactions undone by it
    \* Consensus, the same for all validators.
    in_flight,       \* messages on their way whose sender forgot them
    commits,         \* for each validator, the commits it has yet to handle
    randomness,      \* randomness rounds generated
    restarts

handled == <<processed, end_of_publish, deferred, beacon_round, scheduled, roots, late>>
store == <<reconfig, pending, executed, handled>>
memory == <<processed_cache, requests, tasks, sending>>
consensus == <<in_flight, commits, randomness>>
vars == <<store, memory, ended, reverted, consensus, restarts>>

Keys == Txs \cup Authorities

Messages == [author : Authorities, key : Keys]

Stages == {"submitting", "sequenced", "processed", "removed"}

CertStatus == {"AcceptAllCerts", "RejectUserCerts", "RejectAllCerts", "RejectAllTx"}

should_accept_user_certs(v) == reconfig[v] = "AcceptAllCerts"

should_accept_consensus_certs(v) == reconfig[v] \in {"AcceptAllCerts", "RejectUserCerts"}

should_accept_tx(v) == reconfig[v] # "RejectAllTx"

pending_consensus_certificates(v) == pending[v] \cap Txs

\* A faulty validator ends its publishing when it likes: its message is there
\* from the start, for consensus to sequence at any time.
Init ==
    /\ reconfig = [v \in Honest |-> "AcceptAllCerts"]
    /\ pending = [v \in Honest |-> {}]
    /\ processed = [v \in Honest |-> {}]
    /\ end_of_publish = [v \in Honest |-> {}]
    /\ deferred = [v \in Honest |-> {}]
    /\ beacon_round = [v \in Honest |-> 0]
    /\ executed = [v \in Honest |-> {}]
    /\ scheduled = [v \in Honest |-> <<>>]
    /\ roots = [v \in Honest |-> {}]
    /\ late = [v \in Honest |-> {}]
    /\ processed_cache = [v \in Honest |-> {}]
    /\ requests = [v \in Honest |-> {}]
    /\ tasks = [v \in Honest |-> {}]
    /\ sending = [v \in Honest |-> FALSE]
    /\ ended = [v \in Honest |-> FALSE]
    /\ reverted = [v \in Honest |-> {}]
    /\ in_flight = {[author |-> f, key |-> f] : f \in Faulty}
    /\ commits = [v \in Honest |-> <<>>]
    /\ randomness = 0
    /\ restarts = 0

-----------------------------------------------------------------------------
(***************************************************************************)
(* The consensus adapter.                                                  *)
(***************************************************************************)

\* The task of a transaction registers with consensus_notify_read before it
\* looks the transaction up, so it starts either waiting or done.
Task(v, key) == <<key, IF key \in processed[v] THEN "processed" ELSE "submitting">>

\* A slip to be caught: the reconfiguration state is not looked at under the
\* lock under which the certificate becomes pending.
handle_certificate_unlocked(v, t) ==
    /\ ~ended[v]
    /\ t \in Offered[v] \ (executed[v] \cup requests[v] \cup processed[v])
    /\ requests' = [requests EXCEPT ![v] = @ \cup {t}]
    /\ pending' = [pending EXCEPT ![v] = @ \cup {t}]
    /\ tasks' = [tasks EXCEPT ![v] = @ \cup {Task(v, t)}]
    /\ UNCHANGED <<reconfig, handled, executed, processed_cache, sending, ended, reverted,
                   consensus, restarts>>

\* A certificate from a user, taken under the read lock of the
\* reconfiguration state: it is persisted as pending before the lock is
\* dropped, unless consensus has processed it.
handle_certificate(v, t) ==
    /\ ~ended[v]
    /\ t \in Offered[v] \ (executed[v] \cup requests[v])
    /\ should_accept_user_certs(v)
    /\ requests' = [requests EXCEPT ![v] = @ \cup {t}]
    /\ IF t \in processed[v]
       THEN UNCHANGED <<pending, tasks>>
       ELSE /\ pending' = [pending EXCEPT ![v] = @ \cup {t}]
            /\ tasks' = [tasks EXCEPT ![v] = @ \cup {Task(v, t)}]
    /\ UNCHANGED <<reconfig, handled, executed, processed_cache, sending, ended, reverted,
                   consensus, restarts>>

Scheduled(v) == UNION {scheduled[v][i] : i \in DOMAIN scheduled[v]}

\* Effects are signed: at once for a certificate that touches owned objects
\* only, and otherwise when consensus has scheduled it.
execute_certificate(v, t) ==
    /\ ~ended[v]
    /\ t \in (requests[v] \cap Owned) \cup Scheduled(v)
    /\ t \notin executed[v]
    /\ executed' = [executed EXCEPT ![v] = @ \cup {t}]
    /\ requests' = [requests EXCEPT ![v] = @ \ {t}]
    /\ UNCHANGED <<reconfig, pending, handled, processed_cache, tasks, sending, ended, reverted,
                   consensus, restarts>>

\* What the tasks of a validator submit, for as long as it is in no commit and
\* its key not processed.  Whether it waits for its turn in the adapter, is with
\* the narwhal worker or in a header shows in a crash; and the worker may still
\* sequence it after its key was processed, when every handler drops it.
submit_to_consensus(v) == {[author |-> v, key |-> k[1]] : k \in {l \in tasks[v] : l[2] = "submitting"}}

\* Consensus has processed the transaction, through whichever validator: it
\* is not pending any more.
remove_pending_consensus_transaction(v, key) ==
    /\ ~ended[v]
    /\ <<key, "processed">> \in tasks[v]
    /\ pending' = [pending EXCEPT ![v] = @ \ {key}]
    /\ tasks' = [tasks EXCEPT ![v] = (@ \ {<<key, "processed">>})
                                     \cup (IF key \in Txs THEN {<<key, "removed">>} ELSE {})]
    /\ UNCHANGED <<reconfig, handled, executed, processed_cache, requests, sending, ended,
                   reverted, consensus, restarts>>

\* A slip to be caught: EndOfPublish is left to close_epoch.
decide_end_of_publish_never(v, key) ==
    /\ ~ended[v]
    /\ <<key, "removed">> \in tasks[v]
    /\ tasks' = [tasks EXCEPT ![v] = @ \ {<<key, "removed">>}]
    /\ UNCHANGED <<reconfig, pending, handled, executed, processed_cache, requests, sending, ended,
                   reverted, consensus, restarts>>

\* After a certificate the task looks whether it drained the list.
decide_end_of_publish(v, key) ==
    /\ ~ended[v]
    /\ <<key, "removed">> \in tasks[v]
    /\ LET others == tasks[v] \ {<<key, "removed">>}
       IN  IF reconfig[v] = "RejectUserCerts" /\ pending_consensus_certificates(v) = {}
           THEN /\ pending' = [pending EXCEPT ![v] = @ \cup {v}]
                /\ tasks' = [tasks EXCEPT ![v] = others \cup {Task(v, v)}]
           ELSE /\ tasks' = [tasks EXCEPT ![v] = others]
                /\ UNCHANGED pending
    /\ UNCHANGED <<reconfig, handled, executed, processed_cache, requests, sending, ended,
                   reverted, consensus, restarts>>

\* close_epoch submits EndOfPublish after it has dropped the lock.
submit_end_of_publish(v) ==
    /\ ~ended[v]
    /\ sending[v]
    /\ sending' = [sending EXCEPT ![v] = FALSE]
    /\ pending' = [pending EXCEPT ![v] = @ \cup {v}]
    /\ tasks' = [tasks EXCEPT ![v] = @ \cup {Task(v, v)}]
    /\ UNCHANGED <<reconfig, handled, executed, processed_cache, requests, ended, reverted,
                   consensus, restarts>>

\* Slips to be caught: EndOfPublish does not wait for pending certificates,
close_epoch_at_once(v) ==
    /\ ~ended[v]
    /\ should_accept_user_certs(v)
    /\ reconfig' = [reconfig EXCEPT ![v] = "RejectUserCerts"]
    /\ sending' = [sending EXCEPT ![v] = TRUE]
    /\ UNCHANGED <<pending, handled, executed, processed_cache, requests, tasks, ended, reverted, consensus,
                   restarts>>

\* or is left to the tasks of pending certificates.
close_epoch_silently(v) ==
    /\ ~ended[v]
    /\ should_accept_user_certs(v)
    /\ reconfig' = [reconfig EXCEPT ![v] = "RejectUserCerts"]
    /\ UNCHANGED <<pending, handled, executed, memory, ended, reverted, consensus, restarts>>

\* The checkpoint builder made a checkpoint past the end of the epoch: under
\* the write lock, no more certificates from users.
close_epoch(v) ==
    /\ ~ended[v]
    /\ should_accept_user_certs(v)
    /\ reconfig' = [reconfig EXCEPT ![v] = "RejectUserCerts"]
    /\ sending' = [sending EXCEPT ![v] = pending_consensus_certificates(v) = {}]
    /\ UNCHANGED <<pending, handled, executed, processed_cache, requests, tasks, ended, reverted, consensus,
                   restarts>>

-----------------------------------------------------------------------------
(***************************************************************************)
(* Consensus (external): a total order of commits, each a sequence of the  *)
(* messages submitted to it and at most one randomness update.  A commit   *)
(* shows when a validator handles it, so none is made before one is ready  *)
(* for it, nor after the last checkpoint of the epoch is certified.  One   *)
(* with neither a message nor an update is left out, unless it is what the *)
(* last step of the epoch waits for.                                       *)
(***************************************************************************)

Seqs(S) == UNION {[1..n -> S] : n \in 0..CommitSize}

Submitted == in_flight \cup UNION {submit_to_consensus(v) : v \in Honest}

Commit ==
    \E messages \in Seqs(Submitted), beacon \in BOOLEAN :
        /\ \A i, j \in DOMAIN messages : i # j => messages[i] # messages[j]
        /\ \A v \in Honest : ~ended[v]
        /\ \E v \in Honest :
               /\ commits[v] = <<>>
               /\ beacon => randomness < MaxBeacon \/ deferred[v] # {}
               /\ \/ messages # <<>> \/ beacon
                  \/ reconfig[v] = "RejectAllCerts" /\ deferred[v] = {}
        /\ commits' = [v \in Honest |->
               Append(commits[v], [messages |-> messages, beacon |-> beacon])]
        /\ randomness' = IF beacon THEN randomness + 1 ELSE randomness
        /\ LET sequenced == {messages[i] : i \in DOMAIN messages}
           IN /\ in_flight' = in_flight \ sequenced
              /\ tasks' = [v \in Honest |->
                     {IF k[2] = "submitting" /\ [author |-> v, key |-> k[1]] \in sequenced
                      THEN <<k[1], "sequenced">> ELSE k : k \in tasks[v]}]
        /\ UNCHANGED <<store, processed_cache, requests, sending, ended, reverted, restarts>>

-----------------------------------------------------------------------------
(***************************************************************************)
(* The consensus handler.  One commit is one batch of the epoch store: a   *)
(* crash leaves all of it or nothing, and the reconfiguration lock is held *)
(* until the batch is written.                                             *)
(***************************************************************************)

\* A slip to be caught: what was processed before a restart is not looked up.
Verified_cached(v, c) ==
    {i \in DOMAIN c.messages :
        /\ c.messages[i].key \notin processed_cache[v]
        /\ \A j \in 1..(i - 1) : c.messages[j].key # c.messages[i].key}

\* The messages of a commit that were not seen before: neither by this
\* handler, nor earlier in the commit, nor before a restart.
Verified(v, c) ==
    {i \in DOMAIN c.messages :
        /\ c.messages[i].key \notin processed_cache[v] \cup processed[v]
        /\ \A j \in 1..(i - 1) : c.messages[j].key # c.messages[i].key}

\* A slip to be caught: EndOfPublish is taken for a certificate.
Certificates_any(v, c) == {c.messages[i] : i \in Verified(v, c)}

Certificates(v, c) == {c.messages[i] : i \in {j \in Verified(v, c) : c.messages[j].key \in Txs}}

EndsOfPublish(v, c) == {i \in Verified(v, c) : c.messages[i].key \in Authorities}

last_randomness_round(v, c) == beacon_round[v] + (IF c.beacon THEN 1 ELSE 0)

load_deferred_transactions(v, c) ==
    {d \in deferred[v] : d.future_round = last_randomness_round(v, c)}

PreviouslyDeferred(v, c) == {d.message : d \in load_deferred_transactions(v, c)}

\* process_consensus_transaction, for a certificate of the commit or one
\* that was deferred earlier.
SentAfterEndOfPublish(v, m) == m.author \in end_of_publish[v]

\* A slip to be caught: the validator's own state decides, not the commits.
Ignored_locally(v, c, m) ==
    \/ SentAfterEndOfPublish(v, m)
    \/ ~should_accept_user_certs(v) /\ m \notin PreviouslyDeferred(v, c)

Ignored(v, c, m) ==
    \/ SentAfterEndOfPublish(v, m)
    \/ ~should_accept_consensus_certs(v) /\ m \notin PreviouslyDeferred(v, c)

should_defer(v, c, m) == m.key \in Randomised /\ m \notin PreviouslyDeferred(v, c)

\* EndOfPublish is collected in the order of the commit until there is a
\* quorum.
Collected(v, c, n) ==
    end_of_publish[v] \cup {c.messages[i].key : i \in {j \in EndsOfPublish(v, c) : j <= n}}

process_end_of_publish(v, c) ==
    IF ~should_accept_consensus_certs(v)
    THEN [authorities |-> end_of_publish[v], status |-> reconfig[v]]
    ELSE LET quorums == {n \in DOMAIN c.messages : reached_quorum(Collected(v, c, n))}
         IN IF quorums = {}
            THEN [authorities |-> Collected(v, c, Len(c.messages)), status |-> reconfig[v]]
            ELSE [authorities |-> Collected(v, c, CHOOSE n \in quorums : \A m \in quorums : n <= m),
                  status |-> "RejectAllCerts"]

\* A slip to be caught: the epoch ends although transactions are deferred.
advance_reconfig_early(v, status, defers) ==
    IF status = "RejectAllCerts" THEN "RejectAllTx" ELSE status

\* The epoch store waits with the end of the epoch while its table of
\* deferred transactions, as it is before this commit, has an entry.
advance_reconfig(v, status, defers) ==
    IF status = "RejectAllCerts" /\ deferred[v] = {} /\ ~defers THEN "RejectAllTx" ELSE status

handle_consensus_output(v) ==
    /\ ~ended[v]
    /\ commits[v] # <<>>
    /\ commits' = [commits EXCEPT ![v] = Tail(@)]
    /\ LET c == Head(commits[v])
           sequenced == Certificates(v, c) \cup PreviouslyDeferred(v, c)
           accepted == {m \in sequenced : ~Ignored(v, c, m)}
           postponed == {m \in accepted : should_defer(v, c, m)}
           transactions == {m.key : m \in accepted \ postponed}
           ends == {c.messages[i].key : i \in EndsOfPublish(v, c)}
           closing == process_end_of_publish(v, c)
           status == advance_reconfig(v, closing.status, postponed # {})
           final_round == status # closing.status
       IN /\ reconfig' = [reconfig EXCEPT ![v] = status]
          /\ processed' = [processed EXCEPT ![v] = @ \cup {m.key : m \in accepted} \cup ends]
          /\ end_of_publish' = [end_of_publish EXCEPT ![v] = closing.authorities]
          /\ deferred' = [deferred EXCEPT ![v] =
                 (@ \ load_deferred_transactions(v, c))
                 \cup {[message |-> m, future_round |-> last_randomness_round(v, c) + 2]
                           : m \in postponed}]
          /\ beacon_round' = [beacon_round EXCEPT ![v] =
                 IF should_accept_tx(v) THEN last_randomness_round(v, c) ELSE @]
          /\ scheduled' = [scheduled EXCEPT ![v] =
                 IF transactions = {} THEN @ ELSE Append(@, transactions)]
          /\ roots' = [roots EXCEPT ![v] = @ \cup
                 IF status # "RejectAllTx" \/ final_round
                 THEN {m.key : m \in Certificates(v, c)} ELSE {}]
          /\ late' = [late EXCEPT ![v] =
                 @ \cup {m \in sequenced : SentAfterEndOfPublish(v, m)}]
          /\ processed_cache' = [processed_cache EXCEPT ![v] =
                 @ \cup {c.messages[i].key : i \in DOMAIN c.messages}]
          /\ tasks' = [tasks EXCEPT ![v] =
                 {IF k[1] \in transactions \cup ends /\ k[2] \in {"submitting", "sequenced"}
                  THEN <<k[1], "processed">> ELSE k : k \in @}]
    /\ UNCHANGED <<pending, executed, requests, sending, ended, reverted, in_flight, randomness,
                   restarts>>

-----------------------------------------------------------------------------
(***************************************************************************)
(* Restarts, and the end of the epoch.                                     *)
(***************************************************************************)

\* What is pending is submitted again.  EndOfPublish is added to it under
\* the condition that it is there.
submit_recovered(v) ==
    pending[v] \cup (IF /\ reconfig[v] = "RejectUserCerts"
                        /\ pending_consensus_certificates(v) = {}
                        /\ v \in pending[v]
                     THEN {v} ELSE {})

\* A crash loses the memory; of the messages that were being submitted, those
\* the narwhal worker had not put in a header yet.
Restart(v) ==
    /\ ~ended[v]
    /\ restarts < MaxRestarts
    /\ restarts' = restarts + 1
    /\ \E sent \in SUBSET submit_to_consensus(v) : in_flight' = in_flight \cup sent
    /\ processed_cache' = [processed_cache EXCEPT ![v] = {}]
    /\ requests' = [requests EXCEPT ![v] = {}]
    /\ sending' = [sending EXCEPT ![v] = FALSE]
    /\ tasks' = [tasks EXCEPT ![v] = {Task(v, key) : key \in submit_recovered(v)}]
    /\ UNCHANGED <<store, ended, reverted, commits, randomness>>

\* The validators that made the last checkpoint of the epoch: its builder waits
\* for the effects of every root of this one and of those before.
Concluded == {w \in Honest : reconfig[w] = "RejectAllTx" /\ roots[w] \subseteq executed[w]}

\* The transactions of pending certificates that are in no checkpoint are
\* undone, if they were executed.
revert_uncommitted_epoch_transactions(v, in_checkpoint) ==
    (pending_consensus_certificates(v) \ in_checkpoint) \cap executed[v]

\* The last checkpoint of the epoch was certified by a quorum.  A validator
\* that got as far itself or fetched the checkpoints has executed them all;
\* it takes no certificate any more, and starts the next epoch.
reconfigure(v) ==
    /\ ~ended[v]
    /\ reached_quorum(Concluded \cup Faulty)
    /\ \E w \in Concluded :
           /\ reverted' = [reverted EXCEPT ![v] =
                  revert_uncommitted_epoch_transactions(v, roots[w])]
           /\ executed' = [executed EXCEPT ![v] = (@ \cup roots[w]) \ reverted'[v]]
    /\ ended' = [ended EXCEPT ![v] = TRUE]
    /\ reconfig' = [reconfig EXCEPT ![v] =
           IF should_accept_user_certs(v) THEN "RejectUserCerts" ELSE @]
    /\ tasks' = [tasks EXCEPT ![v] = {}]
    /\ requests' = [requests EXCEPT ![v] = {}]
    /\ sending' = [sending EXCEPT ![v] = FALSE]
    /\ commits' = [commits EXCEPT ![v] = <<>>]
    /\ UNCHANGED <<pending, handled, processed_cache, in_flight, randomness, restarts>>

-----------------------------------------------------------------------------
\* What a validator does by itself, without a client and without a crash.
Progress(v) ==
    \/ \E key \in Keys : remove_pending_consensus_transaction(v, key)
    \/ \E key \in Txs : decide_end_of_publish(v, key)
    \/ submit_end_of_publish(v)
    \/ close_epoch(v)
    \/ handle_consensus_output(v)
    \/ reconfigure(v)

Next ==
    \/ Commit
    \/ \E v \in Honest :
        \/ \E t \in Txs : handle_certificate(v, t)
        \/ \E t \in Txs : execute_certificate(v, t)
        \/ Progress(v)
        \/ Restart(v)

Spec == Init /\ [][Next]_vars

\* Consensus and the tasks of the validators do not all stand still while one
\* of them can take a step or the clock close an epoch.  Nobody has to send
\* a certificate, nor to execute one that consensus did not schedule.
Fairness ==
    WF_vars(\/ Commit
            \/ \E v \in Honest : \/ Progress(v)
                                \/ \E t \in Scheduled(v) : execute_certificate(v, t))

LiveSpec == Spec /\ Fairness

-----------------------------------------------------------------------------
(***************************************************************************)
(* Properties.                                                             *)
(***************************************************************************)

TypeOK ==
    /\ reconfig \in [Honest -> CertStatus]
    /\ pending \in [Honest -> SUBSET Keys]
    /\ processed \in [Honest -> SUBSET Keys]
    /\ end_of_publish \in [Honest -> SUBSET Authorities]
    /\ \A v \in Honest : \A d \in deferred[v] :
           d.message \in Messages /\ d.future_round \in beacon_round[v]..(beacon_round[v] + 2)
    /\ \A v \in Honest : beacon_round[v] \in 0..randomness
    /\ executed \in [Honest -> SUBSET Txs]
    /\ \A v \in Honest : Scheduled(v) \subseteq Txs
    /\ roots \in [Honest -> SUBSET Txs]
    /\ late \in [Honest -> SUBSET Messages]
    /\ processed_cache \in [Honest -> SUBSET Keys]
    /\ requests \in [Honest -> SUBSET Txs]
    /\ tasks \in [Honest -> SUBSET (Keys \X Stages)]
    /\ sending \in [Honest -> BOOLEAN]
    /\ ended \in [Honest -> BOOLEAN]
    /\ reverted \in [Honest -> SUBSET Txs]
    /\ in_flight \subseteq Messages
    /\ restarts \in 0..MaxRestarts

\* Two validators that handled the same commits scheduled the same
\* transactions in the same order, made the same checkpoints and hold the
\* same deferred transactions, and either both of them have the last commit of
\* the epoch or neither has: whatever each of them had taken from users, and
\* whenever it restarted and lost its cache of processed messages
\* (process_consensus_transactions_and_commit_boundary).
SameOutcome ==
    \A v, w \in Honest :
        (Len(commits[v]) = Len(commits[w]) /\ ~ended[v] /\ ~ended[w])
            => /\ scheduled[v] = scheduled[w] /\ roots[v] = roots[w]
               /\ deferred[v] = deferred[w]
               /\ reconfig[v] = "RejectAllTx" <=> reconfig[w] = "RejectAllTx"

\* No transaction is scheduled for execution twice, although every validator
\* that has it pending submits it, and again after a restart
\* (verify_consensus_transaction): a second time it would lock other versions
\* of its shared objects.
ScheduledOnce ==
    \A v \in Honest : \A i, j \in DOMAIN scheduled[v] :
        i # j => scheduled[v][i] \cap scheduled[v][j] = {}

\* A transaction the end of the epoch undoes at a validator
\* (revert_uncommitted_epoch_transactions) does not have effects signed by a
\* quorum: no client was told that it is final.  And it used no shared
\* object, as revert_state_update asserts.
FinalizedSurvive ==
    \A v \in Honest : \A t \in reverted[v] :
        /\ t \in Owned
        /\ ~reached_quorum({w \in Honest : t \in executed[w] \cup reverted[w]} \cup Faulty)

\* No certificate of a correct validator is sequenced, and seen for the
\* first time, after its EndOfPublish: the branch that calls its author
\* byzantine (process_consensus_transaction) is for faulty ones.
NoValidAuthorityIgnored ==
    \A v \in Honest : \A m \in late[v] : m.author \in Faulty

\* "Don't end epoch until all deferred transactions are processed": when the
\* epoch has its last commit, every transaction taken from consensus has been
\* scheduled, also if it was deferred and its randomness came after the quorum of
\* EndOfPublish (process_consensus_transactions).
AcceptedAreScheduled ==
    \A v \in Honest :
        reconfig[v] = "RejectAllTx" => processed[v] \cap Txs \subseteq Scheduled(v)

\* A validator that takes no certificates from users any more and has none
\* pending has sent its EndOfPublish, or is about to: a task found the list
\* drained, the message is pending, or consensus has processed it.  The
\* comment in submit_recovered claims this for a validator that crashed
\* after it persisted the one and before it persisted the other.
EndOfPublishReintroduced ==
    \A v \in Honest :
        (reconfig[v] = "RejectUserCerts" /\ pending_consensus_certificates(v) = {} /\ ~ended[v])
            => \/ v \in pending[v] \cup processed[v]
               \/ sending[v]
               \/ \E t \in Txs : <<t, "removed">> \in tasks[v]

\* No certificate was ignored, as all that are sequenced after the quorum of
\* EndOfPublish are: it is a root of a checkpoint nevertheless.
NoneIgnored == \A v \in Honest : roots[v] \subseteq processed[v]

\* The epoch ends at every correct validator, if none restarts and none waits for
\* a certificate it ignored: with it as a root the last checkpoint is never made.
EpochEnds == [](restarts = 0 /\ NoneIgnored) => \A v \in Honest : <>ended[v]
=============================================================================
