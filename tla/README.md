# A TLA+ model of mango's consensus path and end of epoch

This directory is a verification project for the part of mango that must agree:
the Narwhal/Bullshark consensus a validator runs (`src/narwhal`), the path of its
output into the validator, and how the validators end an epoch
(`src/crates/mgo-core`). It has TLA+ modules translated from the Rust sources, TLC
models that check them on small instances, and TLAPS proofs of nearly all their safety
properties for every committee and every bound. `PROJECT.json` relates every definition
to the source lines it models, and lists the runs, the mutated definitions that show
each property can fail, the hazards, the findings and the theorems.

## The system

A validator runs a *primary*, some *workers* and an *executor*. Workers turn
transactions into batches and replicate them; primaries agree on a DAG of certificates
over batch digests; consensus orders the DAG into sub-dags, and the executor hands their
batches to the validator, which schedules the transactions in them.

| Part | State | Operations | Module |
|---|---|---|---|
| Committee (`config/committee.rs`) | stake of each authority | thresholds | `Committee` |
| Proposer (`primary/proposer.rs`) | round, parents; last header on disk | take parents, skip to a round, propose, re-send | `Certification` |
| Certifier (`certifier.rs`, `aggregators.rs`) | running proposals with their votes | start and cancel a proposal, ask for votes, aggregate | `Certification` |
| Vote handler (`primary.rs`) | last vote per author on disk, requests in progress | request_vote | `Certification` |
| Synchronizer (`synchronizer.rs`) | certificates on disk, suspended ones and what they wait for, gc_round, one aggregator per round | receive, accept fetched and own certificates, garbage collect, recover | `Synchronizer` |
| Bullshark (`consensus/bullshark.rs`, `state.rs`, `utils.rs`) | DAG, last committed rounds; commits on disk | insert, commit leaders, order sub-dags, recover | `Bullshark` |
| Leader schedule (`leader_schedule.rs`) | swap table, scores | elect, change, recover | `LeaderSchedule`, `Bullshark` |
| Executor (`executor/`), consensus handler (`consensus_handler.rs`) | channels, fetches in progress, statistics of the last commit | fetch, hand over in order, apply, restore after a restart | `ConsensusOutput` |
| Consensus adapter, epoch store (`consensus_adapter.rs`, `authority_per_epoch_store.rs`) | pending and processed messages, reconfiguration state, deferred transactions, checkpoints' roots | take a certificate, submit, handle a commit, close the epoch, reconfigure | `EpochClose` |

The parts meet as follows. What `Certification` proves of certificates - one for an author
and round - is how `Bullshark` names them, and what `Synchronizer` proves of their order is
the guard with which `Bullshark` accepts them. `CommitOrder` is what `Bullshark` promises:
one sequence of sub-dags. `ConsensusOutput` carries one validator's beginning of it and
promises `Delivery`: each is applied once and in order. `EpochClose` starts from that: its
commits are one sequence that every validator handles.

What makes each of them correct, and hard:

- *Certification.* One header at most of an author and round is certified, although
  authors and voters may be faulty, requests overlap, tasks are cancelled, replies
  are lost and every primary may crash between any two steps. A header of an
  honest primary is certified in the end, or replaced.
- *Synchronizer.* Certificates come in any order and from three sources at once; the
  store and consensus must get them in causal order, exactly the ones that cannot
  be accepted wait, and none waits for ever, while garbage collection moves the
  boundary below which parents do not matter and a crash loses all but the store.
- *Bullshark.* All primaries commit the same sequence whatever order certificates
  reached them in, through changes of the leader schedule and restarts in the middle
  of committing several leaders.
- *Output.* Batches are fetched side by side and through bounded channels, and a crash
  loses them all; still each sub-dag is applied once and in order.
- *End of epoch.* Validators stop taking certificates at different times, yet must agree on the
  last commit of the epoch and on what is in it, and a transaction a client was told is
  final must not be undone, whatever restarts.

`PROJECT.json` lists the hazards at the lines where they bite.

## Modules

Where a definition comes with another of the same name and a suffix
(`must_wait_above`, `close_epoch_at_once`), the suffixed one is a plausible slip; no
specification uses it, and `PROJECT.json` says which property catches it.

### Committee, LeaderSchedule

The committee is a constant: a set of authorities and the stake of every set of them,
which `StakeAssumption` makes additive. `quorum_threshold` and `validity_threshold`
are the integer divisions of the code. `FaultAssumption` says less than the validity
threshold is faulty, which is the protocol's assumption.

`LeaderSchedule` has the swap table made from the scores of a window of commits
(`LeaderSwapTable::new`), and the swap of a bad leader for
a good one. The weighted choice of a round's leader, and the seeded choice
among good nodes, are constants (`BaseLeader`, `Draw`): functions of the round. Without
good nodes `Ranked` has nothing to choose from, where `LeaderSwapTable::swap` panics
(`leader_schedule.rs:141`); what excludes that is under Proofs.

### Certification

One module for the three parties of certifying a header, because the properties are
about what they do together. `Proposers` are the primaries whose headers are followed;
every authority has a vote handler.

- The proposer: `AcceptQuorum` (a quorum of the next round is in the store),
  `ReceiveParents`, `SkipToRound`, `ProposeHeader`, `ResendHeader`. The timers may
  fire at any moment. Leader readiness only delays a proposal, so it is part of
  that nondeterminism.
- The certifier: `SpawnProposal`, `ReceiveVote`, `FailVote`, `FailAggregation`, `EndProposal`,
  `AcceptOwnCertificate`, over tasks that hold the state of a `VotesAggregator`. A
  cancelled task may still take a vote: `select!` picks any ready branch. With a quorum that has a
  vote that does not verify, `append` either drops the invalid votes or, if the signatures cannot be
  aggregated at all, returns an error, which ends the task with all its votes (`FailAggregation`).
- The vote handler: `RequestVote`, `CheckVote` (the vote store is read), `ReturnVote`
  (after the signature: the vote is written and returned), `EndRequest` (any check that
  fails). The in-flight limit is `inflight_free`.
- Faults: `Restart` and `RestartVoter` keep what is on disk; `LoseReply`; a faulty
  authority votes for anything, sends votes that do not verify, asks for votes on
  any headers of its own and assembles certificates (`FaultyCertificate`).

`Spec` is all of that. `TimelySpec` adds one assumption about timing: after a restart
the parents recovered from the store reach the proposer before it proposes. The code
does not enforce it; see the findings. `LiveSpec` adds fairness.

Left out: the header's payload, timestamps and epoch; checks on parents and payload
are one nondeterministic failure; that a voter refuses a header more than three rounds behind its
DAG, as the DAG above the followed rounds is no part of the state.

### Synchronizer

One primary, with the network's DAG as constants (`Certs`, `RoundOf`, `OriginOf`,
`ParentsOf`). The action boundaries are the points where another task can act:

- `try_accept_certificate`, `try_accept_fetched_certificates`,
  `accept_own_certificate` put certificates in the acceptor's channel.
- The acceptor: `TakeMessage` (with the check for duplicates, before the lock),
  `LockState`, one `process_certificate` per certificate, `UnlockState`.
- `accept_certificate_internal` stores one certificate, appends it to its round's
  aggregator, gives the proposer what that drains and sends it to consensus; the
  holder of the lock does this for the certificate and for what it releases, by round.
- Garbage collection: `StoreGcRound`, `LockForGc`, `run_gc_once`, `UnlockAfterGc`.
- Consensus: `ConsensusInsert` with its parents check, and `Commit`, which stands for
  Bullshark: an even-round certificate with f + 1 support moves the garbage collection
  round. `Restart` rebuilds the DAG from the store.
- Recovery: `RecoverCertificate` and `SendRecovered`, not under the lock. Between the two
  the acceptor may send a parent of the same round. The acceptor's own append and send are one
  step, so the other order, of recovery's send inside the acceptor's, is not explored.

The traversal of `accept_children` is given by what it reaches (`reached`): the least
set that contains the accepted certificate and every waiting child all of whose
missing parents are in it. The code's assertions are guards (`checks_pass`,
`parents_found`, `index_agrees`, `dag_has_parents`): a task whose assertion fails
stops, and the properties say none does. `AtomicGcSpec` restricts `Spec` to runs in
which storing gc_round and releasing certificates are one critical section, which the
code does not guarantee; see the findings.

Left out: signature verification, batch synchronisation and broadcast; the messages
that only tell the proposer to skip rounds are in Certification; that two copies of a
certificate in one fetch response are one.

### Bullshark and CommitOrder

Several primaries order one DAG, which is any member of the constant `Networks`; a
certificate is its round and its author, as `CertificateUniqueness` allows. Each primary
takes the certificates in an order of its own.

- `accept_certificate` is the synchronizer's: a certificate is stored and put in the channel after
  its parents, unless they are garbage collected.
- `process_collected`, `process_inserted` and `process_elects` are the three outcomes of
  `process_certificate`: the certificate comes too late, is put in the DAG, or is put there and makes a
  leader committable. In the last case `leaders_to_commit` is what `order_leaders` collects.
- `commit_leader` is one turn of the loop: it orders a sub-dag, updates the state, writes
  the sub-dag and the last committed rounds to the store in one batch, and changes the leader schedule. After
  a change the leaders not yet committed are elected again with the new schedule, as the code does.
- `restart` rebuilds the state and the schedule from the stores.

`linked` says what the traversals of the code find: a path of parents. The sub-dag is a set; its
order inside is a sort by round. `CommitOrder` is the abstract specification: a set of decided sub-dags
that only grows at its end, of which every primary delivers a beginning. The refinement
mapping is the union of the stores and the index of each primary's last sub-dag.

### ConsensusOutput and Delivery

One node. A sub-dag is its index; the handler's integrity hash is the sequence of
sub-dags it absorbed. `process_certificate` persists the sub-dags of several leaders and
`send_sequence` sends them one by one; `receive_sequence`, `fetch_batches` and `send_output` are the
subscriber with its ordered futures; `handle_consensus_output` and
`process_consensus_transactions_and_commit_boundary` are the handler before and after the write. `Restart`
reads again, from the consensus store, the sub-dags from the last applied one on.
`Delivery` is the abstract specification, of a counter and the sequence applied, mapped
to the consensus store's length and the handler's record on disk.

### EpochClose

Every validator with its epoch store, its adapter's tasks and its consensus handler. `Offered`
bounds which certificates clients send to which validator;
consensus itself is external: a total order of commits, each a sequence of submitted messages.
A message is its author and its key, the transaction or, for EndOfPublish, the author.

- `handle_certificate`, `execute_certificate`: a certificate is taken from a user under the read lock
  of the reconfiguration state and persisted as pending; effects are signed at
  once for owned objects, and when it is scheduled otherwise.
- `remove_pending_consensus_transaction`, `decide_end_of_publish`: the end of a submitting task,
  which looks whether it was the last one. `close_epoch` and
  `submit_end_of_publish` are the two steps of ending publishing.
- `handle_consensus_output`: a whole commit, in the order of the code: duplicates
  are dropped, deferred transactions whose randomness is there are added, each is
  accepted, deferred or ignored, EndOfPublish is collected up to a quorum, the
  reconfiguration state advances, roots of the pending checkpoint are recorded. It is one
  action because the code writes it in one batch and under the lock.
- `Restart` resubmits what is pending; `reconfigure` ends the epoch once a quorum has
  made the last checkpoint (`Concluded`), and undoes what was executed and is in no checkpoint. The
  roots of a checkpoint are all certificates of the commit that pass `verify_consensus_transaction`, also the
  ones that are then ignored, and the builder waits for the effects of every root.

Left out: object versions, gas, how transactions execute, capabilities, JWKs, submission delays; a
transaction has no dependencies; a validator has one outstanding request for a
certificate. Faulty validators only end their publishing early. `Verified` leaves out the check
that EndOfPublish comes from the authority it names, as every message of the model does; and a message
enters the cache of processed ones with its commit, where the code adds it while it verifies the commit.

## Model checking

| Run | Instance | Shows |
|---|---|---|
| `certification` | stakes 4, 1, 1, the last faulty; a proposer, 2 rounds, 2 headers per round, 2 concurrent tasks | TypeOK, NoEquivocation, HonestVotesSuffice, VotesMoveForward, ProposalsComplete under `LiveSpec` |
| `certification_faulty` | 4 equal stakes; the faulty one is the author | VoteOncePerRound, CertificateUniqueness, VotesMoveForward under `Spec` |
| `certification_restart` | the same, an honest author, `Spec` | NoEquivocation is violated |
| `synchronizer` | 6 certificates in 3 rounds, one of them own; fetch responses of 1; 1 restart | TypeOK, AcceptorNeverPanics, CollectedAreReleased, NoneForgotten, CausalHistory, ConsensusFindsParents, ParentsAreQuorum, SuspendedAreAccepted under `LiveSpec` |
| `synchronizer_gc_race` | 5 certificates, `Spec` | AcceptorNeverPanics is violated |
| `synchronizer_parents` | 5 certificates, 1 restart, `Spec` | FirstParentsAreQuorum is violated |
| `bullshark` | 3 authorities of stakes 2, 3, 2; 2 primaries; 4 DAGs of up to 7 rounds; 1 restart | TypeOK, Agreement, CommittedOnce, HistoryPresent, CausalOrder, Recoverable, LeadersInGoodStanding, CommitsInOrder |
| `consensus_output` | 6 sub-dags, up to 3 of one certificate; channels and futures of 2; 2 restarts | TypeOK, AppliedInOrder, HandlerNeverPanics, NoneLost, EveryCommitApplied, DeliversInOrder |
| `epoch_restart` | 2 validators, one a quorum; a transaction on owned objects, sent to both; 1 restart | SameOutcome, ScheduledOnce, FinalizedSurvive, NoValidAuthorityIgnored |
| `epoch_end` | the same validators; a transaction that waits for randomness and one that does not, sent to the one that is no quorum; no restart | TypeOK, SameOutcome, AcceptedAreScheduled, EndOfPublishReintroduced, EpochEnds under `LiveSpec` |
| `epoch_recovery` | as `epoch_restart` | EndOfPublishReintroduced is violated |
| `epoch_deferred` | as `epoch_restart`; the transaction waits for randomness | NoValidAuthorityIgnored is violated |

*Bounds.* In Certification two rounds are what equivocation needs (a round and the one a restart goes
back to); two headers per round tell equivocation apart; a second task of a certifier is
needed for cancellation. Stakes 4, 1, 1 fit a faulty voter, two rounds and liveness in one run.
For the synchronizer, three rounds have a certificate, its missing
parent and a child that waits in turn, and let the leader of round 2 be committed,
so that garbage collection reaches round 1; authority `a` alone is a quorum, so that the DAG grows
although `b`'s certificates are missing. `NEW_CERTIFICATE_ROUND_LIMIT` is 2 instead of
1000, so that certificates that are too new occur. The acceptor's channel holds one
message and the one to consensus one certificate: what is in them is stale by the time it is used
either way. With a restart, fetch responses have one certificate; the properties that do not need one
were also checked with responses of two and no restart. `LiveSpec` has the garbage collection of
`AtomicGcSpec`; that CausalHistory, ConsensusFindsParents and ParentsAreQuorum hold without that
restriction is proved. `CollectedAreReleased` and `AcceptorNeverPanics` hold only with it. Restarts are unbounded in Certification; one elsewhere, except two in
`consensus_output`, where a restart can meet the traces of another in the channels.
The DAGs of `bullshark` are chosen for what is hard in it: a leader whose support one primary
sees late (`LateVote`), a leader that loses its support by a change of schedule (`Unsupported`), a
leader skipped for good and a certificate that arrives after it is garbage collected
(`Skipped`), and a whole window of scores (`Long`); the schedule changes every second
commit, so that it changes between leaders committed at once. In `EpochClose` one validator
is a quorum, so that the epoch ends while the other may be at any point; commits
of two messages have EndOfPublish before and after a certificate. In `epoch_end` two transactions let one be sequenced
while the other keeps the epoch open. They are sent to one validator; the run's properties were also checked
with the deferred transaction sent to both (1,618,070 states), and with each
transaction sent to a validator of its own (167,514 states).

*Deadlock.* In Certification a restart is always possible, so TLC's deadlock check says
nothing there. The other systems rest when all certificates are accepted, all sub-dags are
applied or the epoch has ended, so their runs do not check it. The liveness
properties are what excludes waiting for ever.

*Fairness.* In `Certification!LiveSpec` every task that can go on does (tokio's
scheduling); `request_vote` retries without end, so each honest voter is asked, checks,
answers and is heard infinitely often if it can be (strong fairness: an answer may be
lost any finite number of times); and from some time on proposers stay up and a
proposal is not interrupted by the repeat timer (`Calm`), as partial synchrony and
`header_resend_timeout` intend. `ProposalsComplete` excuses a proposer of which failed
aggregation ends proposals infinitely often: the vote that spoils it is not dropped, and its sender is asked again with the
next header. In `Synchronizer!LiveSpec` the tasks go on, consensus
drains its channel, and a fetch response with a missing certificate is handed over
infinitely often if it can be: the fetcher is triggered by every missing parent and
every 30 seconds without a commit, and asks all peers. In `ConsensusOutput!LiveSpec` each
task goes on, and the workers find every batch, as a quorum has it. In
`EpochClose!LiveSpec` some task or consensus goes on while one can, and what is scheduled is executed;
users have to send nothing. `EpochEnds` is claimed only if nobody restarts, for the reason `epoch_recovery` shows, and
if no certificate is ignored (`NoneIgnored`), for the reason given under Findings.

## Findings

1. *Equivocation after a restart* (`certification_restart`). `create_new_header` re-uses
   the stored header only if it is of the round being proposed. A restarted proposer
   begins at round 0 with genesis parents; if its timers fire before the recovered
   parents arrive, it proposes round 1 again with a new header. The comment on
   the method claims protection without a condition. `TimelySpec` excludes it.
2. *Panic of the acceptor in a race with garbage collection* (`synchronizer_gc_race`).
   gc_round is stored before the lock is taken. A fetched certificate of round
   gc_round + 1 that is still suspended can be processed in between: the parents check
   is skipped and `accept_children` finds it suspended. Under `AtomicGcSpec` the same assertion
   holds in every state, for every DAG.
3. *Parents short of a quorum after a restart* (`synchronizer_parents`). The recovery task completes a
   quorum in an aggregator and sends it in a later step, without the lock. The acceptor may append and
   send one more parent of the round first, and the proposer, which takes whatever parents it has for a quorum
   (`proposer.rs:472`, `proposer.rs:478`), has that one alone. `proposer.rs:688-689` says that the parents come "the
   first time they are enough to form a quorum". `ParentsAreQuorum` is what does hold: the parents of a round are
   a quorum except while recovery has certificates of the round to send.
4. *EndOfPublish forgotten by a crash* (`epoch_recovery`). `submit_recovered` adds EndOfPublish to
   the recovered transactions only if it is among them. A validator that crashed after it
   stopped taking certificates and before it persisted EndOfPublish does not send it in that
   epoch; the comment names this case as handled. If validators with more than f stake
   did, the epoch would have no quorum of EndOfPublish.
5. *A correct validator's deferred certificate ignored* (`epoch_deferred`). A validator that restarts while one of
   its transactions is deferred for randomness finds it processed, takes it from its pending list and may send
   EndOfPublish before the deferred certificate is taken up again. Every validator then ignores the certificate as sent after
   EndOfPublish, in the branch of which `authority_per_epoch_store.rs:2689-2692` says that it "can not happen with valid
   authority". The random beacon is on only where the chain is neither Mainnet nor Testnet
   (`mgo-protocol-config/src/lib.rs:1589-1592`). It is why the theorems on the epoch assume `Settled`.

Also seen, without a run of its own:

- A certificate can be accepted twice: duplicates are looked for once (`synchronizer.rs:1010`), before the lock and for a
  whole batch, "in case we already have in pipeline the same certificate" (`synchronizer.rs:1007`), and
  what the batch or garbage collection accepts meanwhile is stored and sent to consensus again. Consensus
  tolerates it, as its insertion is idempotent.
- A vote with which the signatures cannot be aggregated ends the proposal's task with an error
  (`aggregators.rs:65-78`, `?` in `propose_header`), although the other votes might be a quorum. The header is sent again
  by the repeat timer. `HonestVotesSuffice` speaks of tasks that wait for a vote, so not of one that ended so;
  `ProposalsComplete` does.
- With unequal stake, dropping an invalid vote can leave a valid quorum without a
  certificate: `HonestVotesSuffice` holds for four equal stakes and for 4, 1, 1 and fails for 2, 2, 1,
  where sending the header again does not settle it either: the invalid vote may come before the
  last valid one every time. A condition on the stakes that suffices is `FaultyCountsAsHonest`, see
  Proofs; equal stakes satisfy it, and 2, 2, 1 do not.
- With the stakes 2, 3, 2 of the run, of which 2 is within the threshold and 3 is not, `bullshark` reaches a
  swap table with a bad node and no good one. Voting power has no such stakes (see
  `SwapFindsGoodNode`); other committees of narwhal may.
- A certificate that is sequenced in `RejectAllCerts`, while a deferred transaction keeps the epoch from
  ending, is ignored and is a root of its commit's checkpoint nevertheless (`authority_per_epoch_store.rs:2253`). If it needs
  consensus to be executed, no validator has its effects and the checkpoint builder waits for ever
  (`checkpoints/mod.rs:806-810`): in the instance of `epoch_end`, `EpochEnds` fails without its condition
  `NoneIgnored`. Without deferred transactions the quorum of EndOfPublish and the last commit are one, of which
  no certificate of a correct validator is ignored.

## Proofs

The proofs are checked by TLAPS. They hold for every committee that satisfies
`StakeAssumption` and `FaultAssumption`, and for every value of the other constants that satisfies the
assumptions named in their modules: any DAGs, rounds, tasks, transactions, channel capacities and
numbers of restarts. The bounds of the runs are not bounds of the theorems. Many leaves name the prover
that finds them (`Zenon`), which keeps the checking short.

`CommitteeTheorems`

- `QuorumIntersection`, `HonestQuorum`: two quorums share an honest authority, and the honest
  are a quorum, by arithmetic on the two thresholds (`ThresholdArithmetic`) and additivity of stake.

`CertificationTheorems`

- `TypeCorrect`.
- `VoteOnce` and `VotesInOrder` from `VoterInv`. Neither is inductive: that a vote is unique
  depends on the vote store holding the newest vote of each author
  (`VotesAreStored`, `StoredWasReturned`), on what a handler in progress has read being
  what is still stored (`SeenIsStored`), and that on there being one handler per
  author (`OneHandler`, the in-flight limit).
- `HonestDoNotEquivocate` (under `TimelySpec`, whose steps are those of `Next` that satisfy
  `RecoveryIsTimely`: `TimelyStep`) from `KnownInv`, `RoundInv` and
  `ProposalInv`: every header an honest primary has signed, sent or queued is at or
  below the last stored one in round, and equal to it if of the same round; and the
  stored header is at most one round ahead of the parents the proposer has or, after a
  restart, of the recovered parents it still waits for.
- `CertificatesAreUnique` (under `TimelySpec`) from `CertificateInv`: every certificate is
  backed by votes of a quorum; two quorums share an honest voter
  (`QuorumIntersection`), who voted once (`VoteOnce`), or is the author, who does not
  equivocate.
- `HonestVotesComplete`: HonestVotesSuffice under `Spec` in every committee in which any honest vote
  but the proposer's could be a faulty authority's and the votes of the honest would still be a quorum
  (`FaultyCountsAsHonest`), from `WaitingInv`: a task keeps every honest vote it was given, has invalid ones only
  until they would make a quorum, and while it waits an honest vote is missing.
  When the last honest vote comes there is no invalid one among those before: by the condition it would have
  made them a quorum. `HonestVotesCompleteEqualStakes` derives the condition from equal stakes
  (`EqualStakesCountTheSame`).

`SynchronizerTheorems`

- `TypeCorrect`, `CausalOrderKept`, `ConsensusNeverPanics` under `Spec`, with garbage collection as the code does
  it and any restarts, from `HistoryInv` (`HistoryKept`): what is stored or about to be has its parents
  stored or about to be (`Ordered`), and what is stored is in the DAG of consensus or on its way
  there behind its parents (`Fed`). The latter is what `ConsensusFindsParents` needs, as the
  two garbage collection rounds differ by any delay.
- `NoPanic`, `NobodyForgotten`, `EveryCollectedReleased` under `AtomicGcSpec`, from
  `AcceptorInv` (`IndexKept`): the index of who waits for whom and the suspended certificates
  agree and name exactly what is neither stored nor about to be (`Indexed`); the acceptor works between two
  rounds of garbage collection (`Exclusive`); own certificates in the channel have their
  parents (`OwnReady`). The core is what the traversal of `accept_children` reaches, given as
  a least closed set: what it leaves waits for something else.
- `ProposerHasQuorum`: ParentsAreQuorum under `Spec`, with any restarts, from `AggregatorInv`: a round whose
  aggregator has a quorum has given it to the proposer, or recovery is about to (`GivenAreQuorum`, over what either
  has or will send: `given`). The acceptor and recovery append in the same way (`AppendAggregated`) and differ in when they send.
- `ProposerHasQuorumAtFirst`: before the first restart nothing is recovered, so what the proposer has of a round is a
  quorum or nothing; `synchronizer_parents` shows that this fails later.

`BullsharkInvariant`, `BullsharkTheorems`

- `PrimariesAgree`, `NothingTwice`, `NoMissingParent`, `CommitsAreCausal`, `NothingForgotten`, `Types` and the
  refinement `Refinement` (`Spec => CommitsInOrder`), from `IInv` (`Invariant`): each sub-dag of a store
  is the one that the sub-dags before it determine on the whole DAG (`Determined`), memory and disk are what the sub-dags
  of the store determine (`History`), what is left to commit is what would be collected now
  (`Collected`), and the DAG of a primary has the parents it will need (`ClosedDag`). Agreement
  is not inductive: two primaries elect from different parts of the DAG and different leaders. The
  argument is that of Bullshark: a leader with f + 1 support is reached by every certificate two
  rounds above (a quorum of parents meets the support), so everyone who commits a later
  leader collects it, and below a leader collected by two the same leaders are collected;
  hence the next sub-dag is unique.
- `LeadersAreGood`: LeadersInGoodStanding, for all stakes and scores. The schedule in use is the table
  of some commit's scores (`TableInUse`, from `NothingForgotten`); an authority that were both good and bad would
  have all the stake up to it from the two ends of the order, which is less than the
  total, as twice the threshold is (`GoodAndBadApart`); and every place in the order of the good nodes is taken
  (`PlaceTaken`), so what is drawn is one of them.
- `SwapFindsGoodNode`: a table with a bad node has a good one, so that `swap` does not panic, if
  the stake of every authority is within the threshold or that of every one above it (`StakesOnOneSide`): in the first
  case the best scorer is good, in the second no one is bad. The stake of a validator is its
  voting power (`epoch_start_mgo_system_state.rs:175`), which `voting_power.move` caps at the larger of
  10 % and an equal share of the total, rounded up. With the threshold of 20 % that the protocol configuration sets
  (`mgo-protocol-config/src/lib.rs:1556`), the cap is within the threshold from five validators on; with four or fewer the cap
  leaves each of them more than the threshold. The run's stakes do not satisfy it, as three authorities cannot all be within a third.

`ConsensusOutputTheorems`

- `InOrder`, `NoPanic`, `NothingLost`, `Types` and the refinement `Delivers` (`Spec => DeliversInOrder`), from `IInv` (`Inductive`):
  what is in the channels and futures is consecutive (`Consecutive`), and starts at the
  sub-dag after the handler's last one or, after a crash, at that one again (`Handled`).

`EpochCloseOutcome` (what a validator does by itself), `EpochCloseTheorems` (what they do together)

- `TypeCorrect`; `EachScheduledOnce`, with any restarts: a transaction that is scheduled or deferred
  is marked processed, once, and on disk.
- `EndOfPublishSent`: EndOfPublishReintroduced until the first restart; `epoch_recovery` shows that it does not
  hold after one.
- `SameCommitsSameOutcome`, `NobodyIgnored` and `UndoneWasNotFinal`: SameOutcome,
  NoValidAuthorityIgnored and FinalizedSurvive in every state that is `Settled`: no validator has restarted yet,
  or there are no transactions that are deferred. NoValidAuthorityIgnored fails without
  the condition (see above), and the argument for all three rests on it. They follow from `EpochInv` (`Epoch`), whose parts need each other:
  - `Submission`: every message in flight or with a task is vouched for (`Vouched`). A
    certificate is pending with its author, or scheduled there; EndOfPublish is
    sent only by a validator that takes no certificate any more and has none pending (`Over`).
  - `History`: there is a sequence of commits and of outcomes, each outcome what the handler makes of
    the one before and a commit, in which no certificate comes late (`Chain`); every
    validator is at one of them, with the rest of the sequence still to handle (`Follows`); what the last
    outcome deferred and whose EndOfPublish it collected is vouched for (`Grounded`); and what a validator
    executed is a root of a checkpoint in it, or owned and pending there (`Final`; that what is scheduled is a root is part of
    what one validator's handler keeps, `OnceOf`).

  None is inductive without the others: that validators agree needs that none ignores a
  certificate another had seen before a restart, which needs `Submission`, which needs that what one
  validator scheduled, all will. For `UndoneWasNotFinal`, a quorum with effects of
  an undone transaction and the quorum of EndOfPublish share an honest validator, by
  `QuorumIntersection`, which executed it without its being scheduled, so has it pending, although it
  had none pending when it ended its publishing.
- `AcceptedIsScheduled`: AcceptedAreScheduled in every `Settled` state, from `EpochInv` and `Accounted`: a transaction that
  is marked processed is scheduled or deferred, and with the last commit none is deferred. The first part needs
  that a deferred certificate is not ignored when its time comes, which is `NobodyIgnored`.

Only model-checked:

- liveness: ProposalsComplete, SuspendedAreAccepted, EveryCommitApplied and EpochEnds. The prover
  has no rules for fairness or ENABLED.

Every invariant and action property that a passing run checks is stated by a theorem; the theorems on
HonestVotesSuffice and of the epoch have the conditions named above.

Before it was proved, `AcceptorInv` was checked by TLC with one restart (423,737 states),
`Settled => Submission` on two instances of the epoch, and `WaitingInv` on four equal stakes and on
4, 1, 1. The epoch was also checked with stakes 2, 1, 1
and a faulty validator that ends its publishing early, without restarts (237,513 states).

## Not modelled

- The proposer's payload and the worker: from a transaction to an acknowledged, reported batch,
  and its re-proposal when a header is not committed. They would be the next module.
- The certificate fetcher: its effect, responses with any certificates at any time, is part of
  Synchronizer; its targets and the fetch task are not.
- The randomness state handler: mostly the cryptographic library's; that a commit
  carries a randomness update is an input of EpochClose.
- Quorum driver and authority aggregation: client-side collection of certificates, an
  input of EpochClose.
- Execution and checkpoint contents: dominated by data. EpochClose has that the builder waits for all roots.
- The secondary indexes, caches and notifications of the stores: stores are durable variables
  with atomic writes.
- Mysticeti (`src/consensus/core`): an engine under construction, not wired into a
  validator.
- Networking, Move, RPC, indexer and tools: no protocol state of their own; the network is modelled
  by what it may do to messages.
