---------------------------- MODULE Certification ----------------------------
(***************************************************************************)
(* How a header becomes a certificate: the proposer's rounds and its       *)
(* persisted last header (proposer.rs), the certifier collecting votes     *)
(* (certifier.rs, aggregators.rs) and the vote handler of every other      *)
(* primary with its persisted votes (primary.rs, vote_digest_store.rs).    *)
(*                                                                         *)
(* Every await of the code where another task may run is a boundary        *)
(* between two actions.  A primary may restart between any two actions: it *)
(* keeps its stores and loses everything else.  A faulty authority signs   *)
(* any header, answers with votes that do not verify or cannot even be     *)
(* aggregated, or not at all, and requests votes for as many headers of a  *)
(* round as it likes.                                                      *)
(***************************************************************************)
EXTENDS Committee, Sequences, FiniteSets

CONSTANTS
    Proposers,        \* the authorities whose headers are followed
    MaxRound,         \* bound: the highest round of a header
    Ids,              \* bound: tells the headers of one author and round apart
    NoHeader,         \* an empty entry of a store
    ChannelCapacity,  \* bound of the channel from proposer to certifier
    MaxTasks          \* bound: propose_header tasks of one certifier

ASSUME ProposersAssumption == Proposers \subseteq Authorities
ASSUME BoundsAssumption ==
    /\ MaxRound \in Nat \ {0}
    /\ ChannelCapacity \in Nat \ {0}
    /\ MaxTasks \in Nat \ {0}

\* A header is told apart by its digest, which covers author and round.
Headers == [author : Proposers, round : 1..MaxRound, id : Ids]

ASSUME NoHeaderAssumption == NoHeader \notin Headers

VARIABLES
    \* The proposer of each followed primary.
    round,            \* self.round
    enough_parents,   \* self.last_parents is not empty
    recovered,        \* round of the recovered parents still on their way, or 0
    latest_header,    \* opt_latest_header, what the repeat timer sends again
    last_proposed,    \* proposer_store (durable)
    quorum_round,     \* highest round with a quorum in certificate_store (durable)
    rx_headers,       \* channel from the proposer to the certifier
    \* The certifier of each followed primary.
    tasks,            \* propose_header_tasks still running
    assembled,        \* certificates of finished tasks, not yet accepted
    \* The vote handler of every primary.
    vote_digest_store,  \* last header voted for, per author (durable)
    vote_tasks,         \* request_vote RPCs being handled
    \* What has been put on the wire.
    votes,            \* votes signed and returned
    replies,          \* the ones on their way to the task that asked
    certificates      \* certificates accepted by their author and broadcast

proposer_vars == <<round, enough_parents, recovered, latest_header, last_proposed,
                   quorum_round>>
certifier_vars == <<tasks, assembled, certificates>>
voter_vars == <<vote_digest_store, vote_tasks>>
wire_vars == <<votes, replies>>
vars == <<proposer_vars, rx_headers, certifier_vars, voter_vars, wire_vars>>

Tasks == [header : Headers, votes : SUBSET Authorities, used : SUBSET Authorities,
          invalid : SUBSET Faulty, failed : SUBSET Authorities, cancelled : BOOLEAN]

VoteTasks == [voter : Authorities, header : Headers, stage : {"checking", "signing"},
              seen : Headers \cup {NoHeader}]

Votes == [voter : Authorities, header : Headers]

\* Type of every variable.
TypeOK ==
    /\ round \in [Proposers -> 0..MaxRound]
    /\ enough_parents \in [Proposers -> BOOLEAN]
    /\ recovered \in [Proposers -> 0..MaxRound]
    /\ latest_header \in [Proposers -> Headers \cup {NoHeader}]
    /\ last_proposed \in [Proposers -> Headers \cup {NoHeader}]
    /\ quorum_round \in [Proposers -> 0..MaxRound]
    /\ rx_headers \in [Proposers -> Seq(Headers)]
    /\ tasks \in [Proposers -> SUBSET Tasks]
    /\ assembled \in [Proposers -> SUBSET Headers]
    /\ vote_digest_store \in [Authorities -> [Proposers -> Headers \cup {NoHeader}]]
    /\ vote_tasks \in SUBSET VoteTasks
    /\ votes \in SUBSET Votes
    /\ replies \in SUBSET Votes
    /\ certificates \in SUBSET Headers

Init ==
    /\ round = [p \in Proposers |-> 0]
    /\ enough_parents = [p \in Proposers |-> TRUE]
    /\ recovered = [p \in Proposers |-> 0]
    /\ latest_header = [p \in Proposers |-> NoHeader]
    /\ last_proposed = [p \in Proposers |-> NoHeader]
    /\ quorum_round = [p \in Proposers |-> 0]
    /\ rx_headers = [p \in Proposers |-> <<>>]
    /\ tasks = [p \in Proposers |-> {}]
    /\ assembled = [p \in Proposers |-> {}]
    /\ vote_digest_store = [a \in Authorities |-> [p \in Proposers |-> NoHeader]]
    /\ vote_tasks = {}
    /\ votes = {}
    /\ replies = {}
    /\ certificates = {}

-----------------------------------------------------------------------------
(***************************************************************************)
(* The proposer.                                                           *)
(***************************************************************************)

\* The synchronizer accepts certificates until the next round has a quorum.
AcceptQuorum(p) ==
    /\ quorum_round[p] + 1 < MaxRound
    /\ quorum_round' = [quorum_round EXCEPT ![p] = @ + 1]
    /\ UNCHANGED <<round, enough_parents, recovered, latest_header, last_proposed,
                   rx_headers, certifier_vars, voter_vars, wire_vars>>

\* rx_parents delivers the certificates of round r.  What the synchronizer
\* recovered from its store after a restart comes before anything newer.
ReceiveParents(p, r) ==
    /\ r >= round[p]
    /\ r >= recovered[p]
    /\ round' = [round EXCEPT ![p] = r]
    /\ enough_parents' = [enough_parents EXCEPT ![p] = TRUE]
    /\ recovered' = [recovered EXCEPT ![p] = 0]
    /\ UNCHANGED <<latest_header, last_proposed, quorum_round, rx_headers,
                   certifier_vars, voter_vars, wire_vars>>

\* rx_parents delivers (vec![], r): a certificate of round r + 1 was received,
\* its parents may not have been.
SkipToRound(p, r) ==
    /\ r > round[p]
    /\ round' = [round EXCEPT ![p] = r]
    /\ enough_parents' = [enough_parents EXCEPT ![p] = FALSE]
    /\ recovered' = [recovered EXCEPT ![p] = IF r > @ THEN 0 ELSE @]
    /\ UNCHANGED <<latest_header, last_proposed, quorum_round, rx_headers,
                   certifier_vars, voter_vars, wire_vars>>

\* A slip to be caught: the stored header is not looked at.
create_new_header_unprotected(p, r, id) == [author |-> p, round |-> r, id |-> id]

\* The stored header when it is of round r, else a new one.
create_new_header(p, r, id) ==
    IF last_proposed[p] # NoHeader /\ last_proposed[p].round = r
    THEN last_proposed[p]
    ELSE [author |-> p, round |-> r, id |-> id]

\* One pass of the loop in which should_create_header holds: the timers let it
\* happen at any time, the parents must be there.
ProposeHeader(p, id) ==
    LET r == round[p] + 1
        header == create_new_header(p, r, id)
    IN  /\ enough_parents[p]
        /\ r <= MaxRound
        /\ Len(rx_headers[p]) < ChannelCapacity
        /\ round' = [round EXCEPT ![p] = r]
        /\ enough_parents' = [enough_parents EXCEPT ![p] = FALSE]
        /\ last_proposed' = [last_proposed EXCEPT ![p] = header]
        /\ latest_header' = [latest_header EXCEPT ![p] = header]
        /\ rx_headers' = [rx_headers EXCEPT ![p] = Append(@, header)]
        /\ UNCHANGED <<recovered, quorum_round, certifier_vars, voter_vars, wire_vars>>

\* A slip to be caught: the timer fires before there is a header.
ResendHeader_unchecked(p) ==
    /\ Len(rx_headers[p]) < ChannelCapacity
    /\ rx_headers' = [rx_headers EXCEPT ![p] = Append(@, latest_header[p])]
    /\ UNCHANGED <<proposer_vars, certifier_vars, voter_vars, wire_vars>>

\* header_repeat_timer fires.
ResendHeader(p) ==
    /\ latest_header[p] # NoHeader
    /\ Len(rx_headers[p]) < ChannelCapacity
    /\ rx_headers' = [rx_headers EXCEPT ![p] = Append(@, latest_header[p])]
    /\ UNCHANGED <<proposer_vars, certifier_vars, voter_vars, wire_vars>>

-----------------------------------------------------------------------------
(***************************************************************************)
(* The certifier.                                                          *)
(***************************************************************************)

\* A slip to be caught: votes that fail to verify stay.
append_keeping_invalid(t, v, verifies) ==
    [t EXCEPT !.used = @ \cup {v},
              !.votes = @ \cup {v},
              !.invalid = IF verifies THEN @ ELSE @ \cup {v}]

\* VotesAggregator::append of a vote whose signature verifies, or not, when it
\* returns Ok(None).  A quorum makes a certificate unless some signature fails,
\* in which case the failing votes are dropped and the next vote is waited for.
append(t, v, verifies) ==
    LET all == t.votes \cup {v}
        bad == IF verifies THEN t.invalid ELSE t.invalid \cup {v}
        quorum == reached_quorum(all)
    IN  [t EXCEPT !.used = @ \cup {v},
                  !.votes = IF quorum THEN all \ bad ELSE all,
                  !.invalid = IF quorum THEN {} ELSE bad]

\* It returns Ok(Some(certificate)).
forms_certificate(t, v, verifies) ==
    verifies /\ t.invalid = {} /\ reached_quorum(t.votes \cup {v})

\* It may return an error: with a quorum the signatures are aggregated before
\* any is verified, and one of those that do not verify can be such that this
\* fails.  No vote is dropped.
may_fail_to_aggregate(t, v, verifies) ==
    (~verifies \/ t.invalid # {}) /\ reached_quorum(t.votes \cup {v})

\* Requests for votes on header end with the task that made them.
without_replies(header) == {x \in replies : x.header # header}

\* propose_header continues with task t of p after a vote of v for which append
\* returns Ok.
Tally(p, others, t, v, verifies) ==
    IF forms_certificate(t, v, verifies)
    THEN /\ tasks' = [tasks EXCEPT ![p] = others]
         /\ assembled' = [assembled EXCEPT ![p] = @ \cup {t.header}]
         /\ replies' = without_replies(t.header)
    ELSE /\ tasks' = [tasks EXCEPT ![p] = others \cup {append(t, v, verifies)}]
         /\ replies' = replies \ {[voter |-> v, header |-> t.header]}
         /\ UNCHANGED assembled

\* A header arrives: the running proposals are told to stop, and a task starts
\* by signing the header.
SpawnProposal(p) ==
    /\ rx_headers[p] # <<>>
    /\ Cardinality(tasks[p]) < MaxTasks
    /\ LET header == Head(rx_headers[p])
           task == [header |-> header, votes |-> {}, used |-> {}, invalid |-> {},
                    failed |-> {}, cancelled |-> FALSE]
       IN  /\ Tally(p, {[t EXCEPT !.cancelled = TRUE] : t \in tasks[p]}, task, p, TRUE)
           /\ votes' = votes \cup {[voter |-> p, header |-> header]}
    /\ rx_headers' = [rx_headers EXCEPT ![p] = Tail(@)]
    /\ UNCHANGED <<proposer_vars, voter_vars, certificates>>

\* request_vote of task t returns the vote of v, with a signature that verifies
\* or not.
request_vote(t, v, verifies) ==
    /\ v \notin t.used \cup t.failed
    /\ \/ v \in Faulty
       \/ verifies /\ [voter |-> v, header |-> t.header] \in replies

\* Task t takes a vote, also if it is cancelled: select! picks either ready
\* branch.
ReceiveVote(p, t, v, verifies) ==
    /\ request_vote(t, v, verifies)
    /\ Tally(p, tasks[p] \ {t}, t, v, verifies)
    /\ UNCHANGED <<proposer_vars, rx_headers, voter_vars, votes, certificates>>

\* Task t takes a vote with which the signatures cannot be aggregated, and ends
\* with the error of append.
FailAggregation(p, t, v, verifies) ==
    /\ request_vote(t, v, verifies)
    /\ may_fail_to_aggregate(t, v, verifies)
    /\ tasks' = [tasks EXCEPT ![p] = @ \ {t}]
    /\ replies' = without_replies(t.header)
    /\ UNCHANGED <<proposer_vars, rx_headers, voter_vars, votes, assembled, certificates>>

\* What makes the vote handler of v answer with an error that is not retried:
\* it has voted for a newer header of the author, or another one of the round.
\* (It also refuses a header more than three rounds behind the DAG; how far the
\* DAG is ahead of the followed rounds is not part of the state.)
refuses(v, header) ==
    LET vote_info == vote_digest_store[v][header.author]
    IN  /\ vote_info # NoHeader
        /\ vote_info # header
        /\ header.round <= vote_info.round

\* request_vote of task t returns an error that is not retried.
FailVote(p, t, v) ==
    /\ v \notin t.used \cup t.failed
    /\ v \in Faulty \/ refuses(v, t.header)
    /\ LET answered == [t EXCEPT !.failed = @ \cup {v}]
       IN  tasks' = [tasks EXCEPT ![p] = (@ \ {t}) \cup {answered}]
    /\ UNCHANGED <<proposer_vars, rx_headers, voter_vars, wire_vars, assembled, certificates>>

\* Task t ends without a certificate: it sees the cancellation, or every
\* request has been answered.
EndProposal(p, t) ==
    /\ t.cancelled \/ t.used \cup t.failed = Authorities
    /\ tasks' = [tasks EXCEPT ![p] = @ \ {t}]
    /\ replies' = without_replies(t.header)
    /\ UNCHANGED <<proposer_vars, rx_headers, voter_vars, votes, assembled, certificates>>

\* The run loop takes a finished task's certificate and has the synchronizer
\* store and broadcast it.
AcceptOwnCertificate(p, header) ==
    /\ assembled' = [assembled EXCEPT ![p] = @ \ {header}]
    /\ certificates' = certificates \cup {header}
    /\ UNCHANGED <<proposer_vars, rx_headers, tasks, voter_vars, wire_vars>>

-----------------------------------------------------------------------------
(***************************************************************************)
(* The vote handler.                                                       *)
(***************************************************************************)

\* A slip to be caught: requests of a peer are handled side by side.
inflight_unlimited(v, author) == TRUE

\* One RequestVote RPC at a time per peer, and the peer is the author.
inflight_free(v, author) ==
    \A t \in vote_tasks : ~(t.voter = v /\ t.header.author = author)

\* A request for a vote of v reaches its handler.  An honest author asks only
\* for a header it is certifying, a faulty one for any header of its own.
RequestVote(v, header) ==
    /\ v # header.author
    /\ inflight_free(v, header.author)
    /\ \/ header.author \in Faulty
       \/ /\ [voter |-> v, header |-> header] \notin replies
          /\ \E t \in tasks[header.author] :
                 t.header = header /\ v \notin t.used \cup t.failed
    /\ vote_tasks' = vote_tasks \cup
           {[voter |-> v, header |-> header, stage |-> "checking", seen |-> NoHeader]}
    /\ UNCHANGED <<proposer_vars, rx_headers, certifier_vars, vote_digest_store,
                   wire_vars>>

\* The handler stops: missing parents are asked for, a check fails, the
\* request times out or is dropped by the author.
EndRequest(t) ==
    /\ vote_tasks' = vote_tasks \ {t}
    /\ UNCHANGED <<proposer_vars, rx_headers, certifier_vars, vote_digest_store,
                   wire_vars>>

\* A slip to be caught: no check that the header is not of an older round.
CheckVote_any_round(t) ==
    /\ t.stage = "checking"
    /\ vote_tasks' = (vote_tasks \ {t}) \cup
           {[t EXCEPT !.stage = "signing",
                      !.seen = vote_digest_store[t.voter][t.header.author]]}
    /\ UNCHANGED <<proposer_vars, rx_headers, certifier_vars, vote_digest_store, wire_vars>>

\* A response is lost, and the request made again.
LoseReply(x) ==
    /\ replies' = replies \ {x}
    /\ UNCHANGED <<proposer_vars, rx_headers, certifier_vars, voter_vars, votes>>

\* Parents and batches are there: the handler reads the vote store and starts
\* signing, unless it has voted for a newer header of the author.
CheckVote(t) ==
    LET vote_info == vote_digest_store[t.voter][t.header.author]
        rejected == vote_info # NoHeader /\ t.header.round < vote_info.round
        signing == [t EXCEPT !.stage = "signing", !.seen = vote_info]
    IN  /\ t.stage = "checking"
        /\ vote_tasks' = (vote_tasks \ {t}) \cup (IF rejected THEN {} ELSE {signing})
        /\ UNCHANGED <<proposer_vars, rx_headers, certifier_vars, vote_digest_store, wire_vars>>

\* The signature is there.  In the round of the vote that was read only the
\* same vote is returned again; otherwise the vote is stored and returned.
ReturnVote(t) ==
    LET vote == [voter |-> t.voter, header |-> t.header]
        same_round == t.seen # NoHeader /\ t.seen.round = t.header.round
        returned == IF same_round /\ t.seen # t.header THEN {} ELSE {vote}
    IN  /\ t.stage = "signing"
        /\ vote_tasks' = vote_tasks \ {t}
        /\ votes' = votes \cup returned
        /\ replies' = replies \cup returned
        /\ vote_digest_store' =
               IF same_round THEN vote_digest_store
               ELSE [vote_digest_store EXCEPT ![t.voter][t.header.author] = t.header]
        /\ UNCHANGED <<proposer_vars, rx_headers, certifier_vars>>

-----------------------------------------------------------------------------
(***************************************************************************)
(* Faults.                                                                 *)
(***************************************************************************)

\* A faulty author puts together a certificate from the votes it was given.
FaultyCertificate(header) ==
    /\ header.author \in Faulty
    /\ reached_quorum(Faulty \cup {v \in Authorities : [voter |-> v, header |-> header] \in votes})
    /\ certificates' = certificates \cup {header}
    /\ UNCHANGED <<proposer_vars, rx_headers, tasks, assembled, voter_vars, wire_vars>>

\* A followed primary goes down and comes up again: the proposer starts from
\* genesis at round 0 while the synchronizer recovers newer parents.
Restart(p) ==
    /\ round' = [round EXCEPT ![p] = 0]
    /\ enough_parents' = [enough_parents EXCEPT ![p] = TRUE]
    /\ recovered' = [recovered EXCEPT ![p] = quorum_round[p]]
    /\ latest_header' = [latest_header EXCEPT ![p] = NoHeader]
    /\ rx_headers' = [rx_headers EXCEPT ![p] = <<>>]
    /\ tasks' = [tasks EXCEPT ![p] = {}]
    /\ assembled' = [assembled EXCEPT ![p] = {}]
    /\ vote_tasks' = {t \in vote_tasks : t.voter # p}
    /\ replies' = {x \in replies : x.header.author # p}
    /\ UNCHANGED <<last_proposed, quorum_round, vote_digest_store, votes, certificates>>

\* Another primary does; only its handlers are followed.
RestartVoter(v) ==
    /\ vote_tasks' = {t \in vote_tasks : t.voter # v}
    /\ UNCHANGED <<proposer_vars, rx_headers, certifier_vars, vote_digest_store,
                   wire_vars>>

-----------------------------------------------------------------------------
HonestProposers == Proposers \ Faulty

WaitingStep(p) ==
    \/ AcceptQuorum(p)
    \/ \E r \in 1..quorum_round[p] : ReceiveParents(p, r)
    \/ \E r \in 1..(MaxRound - 1) : SkipToRound(p, r)
    \/ ResendHeader(p)

ProposerStep(p) ==
    \/ WaitingStep(p)
    \/ \E id \in Ids : ProposeHeader(p, id)

CertifierStep(p) ==
    \/ SpawnProposal(p)
    \/ \E t \in tasks[p], v \in Authorities, verifies \in BOOLEAN : ReceiveVote(p, t, v, verifies)
    \/ \E t \in tasks[p], v \in Authorities, verifies \in BOOLEAN : FailAggregation(p, t, v, verifies)
    \/ \E t \in tasks[p], v \in Authorities : FailVote(p, t, v)
    \/ \E t \in tasks[p] : EndProposal(p, t)
    \/ \E header \in assembled[p] : AcceptOwnCertificate(p, header)

VoterStep ==
    \/ \E v \in Honest, header \in Headers : RequestVote(v, header)
    \/ \E t \in vote_tasks : EndRequest(t) \/ CheckVote(t) \/ ReturnVote(t)

Faults ==
    \/ \E header \in Headers : FaultyCertificate(header)
    \/ \E p \in HonestProposers : Restart(p)
    \/ \E v \in Honest \ Proposers : RestartVoter(v)
    \/ \E x \in replies : x.header.author \notin Faulty /\ LoseReply(x)

Next ==
    \/ \E p \in HonestProposers : ProposerStep(p) \/ CertifierStep(p)
    \/ VoterStep
    \/ Faults

Spec == Init /\ [][Next]_vars

\* The proposer waits for its timers before its first header, which is meant to
\* leave the synchronizer the time to deliver the recovered parents.
RecoveryIsTimely ==
    \A p \in Proposers : recovered[p] # 0 => last_proposed'[p] = last_proposed[p]

TimelyProposerStep(p) ==
    \/ WaitingStep(p)
    \/ \E id \in Ids : ProposeHeader(p, id) /\ RecoveryIsTimely

TimelyNext ==
    \/ \E p \in HonestProposers : TimelyProposerStep(p) \/ CertifierStep(p)
    \/ VoterStep
    \/ Faults

TimelySpec == Init /\ [][TimelyNext]_vars

\* The network and the primaries calm down: the proposers stay up, and
\* certifying a header takes less than header_resend_timeout.
Calm ==
    \A p \in HonestProposers :
        /\ ~Restart(p)
        /\ tasks[p] # {} => ~ResendHeader(p)

\* Tasks that can go on do; a request that is dropped is retried until it is
\* answered; certificates of the other honest primaries keep coming.
Fairness(p) ==
    /\ WF_vars(AcceptQuorum(p))
    /\ WF_vars(\E r \in 1..quorum_round[p] : ReceiveParents(p, r))
    /\ WF_vars(\E id \in Ids : ProposeHeader(p, id))
    /\ WF_vars(tasks[p] = {} /\ ResendHeader(p))
    /\ WF_vars(SpawnProposal(p))
    /\ WF_vars(\E t \in tasks[p] : EndProposal(p, t))
    /\ WF_vars(\E header \in assembled[p] : AcceptOwnCertificate(p, header))
    /\ \A v \in Honest \ {p} :
           /\ SF_vars(\E header \in Headers : header.author = p /\ RequestVote(v, header))
           /\ SF_vars(\E t \in vote_tasks : t.voter = v /\ CheckVote(t))
           /\ SF_vars(\E t \in vote_tasks : t.voter = v /\ ReturnVote(t))
           /\ SF_vars(\E t \in tasks[p] : ReceiveVote(p, t, v, TRUE))
           /\ WF_vars(\E t \in tasks[p] : FailVote(p, t, v))

LiveSpec ==
    /\ TimelySpec
    /\ \A p \in HonestProposers : Fairness(p)
    /\ <>[][Calm]_vars

-----------------------------------------------------------------------------
(***************************************************************************)
(* Properties.                                                             *)
(***************************************************************************)

\* process_request_vote: whatever requests overlap and whenever the voter
\* restarts, it never returns votes for two headers of one author and round.
VoteOncePerRound ==
    \A x, y \in votes :
        /\ x.voter = y.voter
        /\ x.voter # x.header.author
        /\ x.header.author = y.header.author
        /\ x.header.round = y.header.round
        => x.header = y.header

\* create_new_header "ensures we are protected against equivocation": an honest
\* primary signs at most one header of its own per round, restarts included.
NoEquivocation ==
    \A x, y \in votes :
        /\ x.voter = y.voter
        /\ x.voter = x.header.author
        /\ y.voter = y.header.author
        /\ x.header.round = y.header.round
        => x.header = y.header

\* The certificates there are, broadcast or about to be.
Certified == certificates \cup UNION {assembled[p] : p \in Proposers}

\* VotesAggregator::append and the vote handler together: no two certificates
\* of one author and round differ, although the author may be faulty.
CertificateUniqueness ==
    \A g, h \in Certified : g.author = h.author /\ g.round = h.round => g = h

\* process_request_vote: a step that returns a new vote never goes back to a
\* round the voter already voted in or passed for that author.
VotesMoveForward ==
    [][\A x \in votes' \ votes, y \in votes :
           /\ x.voter = y.voter
           /\ x.voter # x.header.author
           /\ x.header.author = y.header.author
           => x.header.round > y.header.round]_vars

\* VotesAggregator::append drops invalid votes and waits for another: no proposal
\* is left waiting once every honest primary has voted.
HonestVotesSuffice ==
    \A p \in Proposers : \A t \in tasks[p] : ~(Honest \subseteq t.used)

\* A faulty voter's signature ends a proposal of p (`?` in propose_header).
ProposalSpoilt(p) ==
    \E t \in tasks[p], v \in Authorities, verifies \in BOOLEAN : FailAggregation(p, t, v, verifies)

\* Proposer::run, Certifier::run: time and again the last header an honest
\* primary stored has its certificate, although the primary may crash, lose
\* every vote it had collected and have to propose the header again - unless
\* signatures that cannot be aggregated end its proposals time and again, as
\* append neither drops them nor remembers whose they were.
ProposalsComplete ==
    \A p \in HonestProposers :
        \/ []<>(last_proposed[p] \in certificates \cup {NoHeader})
        \/ []<><<ProposalSpoilt(p)>>_vars
=============================================================================
