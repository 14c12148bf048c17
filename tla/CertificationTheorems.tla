------------------------ MODULE CertificationTheorems ------------------------
(***************************************************************************)
(* Proofs about Certification: its types, that an honest voter votes once  *)
(* per author and round, that an honest proposer does not equivocate when  *)
(* recovery is timely, that certificates are unique, and that dropping     *)
(* invalid votes does not stall a proposal.                                *)
(***************************************************************************)
EXTENDS Certification, CommitteeTheorems

USE DEF HonestProposers

\* The honest are the members that do not deviate.
LEMMA HonestIsNotFaulty ==
    /\ Honest \subseteq Authorities
    /\ Faulty \subseteq Authorities
    /\ \A p \in HonestProposers : p \in Proposers /\ p \in Authorities /\ p \notin Faulty
BY ProposersAssumption, FaultAssumption, Zenon DEF Honest

\* What the aggregator keeps has the type of a task.
LEMMA AppendType ==
    ASSUME NEW t \in Tasks, NEW v \in Authorities, NEW verifies \in BOOLEAN,
           ~verifies => v \in Faulty
    PROVE  append(t, v, verifies) \in Tasks
BY Zenon DEF append, Tasks

\* propose_header: counting a vote leaves tasks and certificates well typed.
LEMMA TallyType ==
    ASSUME TypeOK, NEW p \in Proposers, NEW others \in SUBSET Tasks, NEW t \in Tasks,
           NEW v \in Authorities, NEW verifies \in BOOLEAN, ~verifies => v \in Faulty,
           Tally(p, others, t, v, verifies)
    PROVE  /\ tasks' \in [Proposers -> SUBSET Tasks]
           /\ assembled' \in [Proposers -> SUBSET Headers]
           /\ replies' \in SUBSET Votes
<1>1. append(t, v, verifies) \in Tasks
    BY AppendType, Zenon
<1>2. t.header \in Headers
    BY Zenon DEF Tasks
<1>3. replies' \in SUBSET Votes
    BY Zenon DEF TypeOK, Tally, without_replies
<1>4. CASE forms_certificate(t, v, verifies)
    <2>1. /\ tasks' = [tasks EXCEPT ![p] = others]
          /\ assembled' = [assembled EXCEPT ![p] = assembled[p] \cup {t.header}]
        BY <1>4, Zenon DEF Tally
    <2> QED
        BY <1>2, <1>3, <2>1, Zenon DEF TypeOK
<1>5. CASE ~forms_certificate(t, v, verifies)
    <2>1. /\ tasks' = [tasks EXCEPT ![p] = others \cup {append(t, v, verifies)}]
          /\ assembled' = assembled
        BY <1>5, Zenon DEF Tally
    <2> QED
        BY <1>1, <1>3, <2>1, Zenon DEF TypeOK
<1> QED
    BY <1>4, <1>5, Zenon

\* No step of Proposer::run breaks a type.
LEMMA TypeProposerStep ==
    ASSUME TypeOK, NEW p \in HonestProposers, ProposerStep(p)
    PROVE  TypeOK'
<1> p \in Proposers
    BY Zenon
<1>1. CASE AcceptQuorum(p)
    BY <1>1, BoundsAssumption
    DEF TypeOK, AcceptQuorum, certifier_vars, voter_vars, wire_vars
<1>2. CASE \E r \in 1..quorum_round[p] : ReceiveParents(p, r)
    BY <1>2, BoundsAssumption
    DEF TypeOK, ReceiveParents, certifier_vars, voter_vars, wire_vars
<1>3. CASE \E r \in 1..(MaxRound - 1) : SkipToRound(p, r)
    BY <1>3, BoundsAssumption
    DEF TypeOK, SkipToRound, certifier_vars, voter_vars, wire_vars
<1>4. CASE \E id \in Ids : ProposeHeader(p, id)
    <2>1. PICK id \in Ids : ProposeHeader(p, id)
        BY <1>4, Zenon
    <2> DEFINE h == create_new_header(p, round[p] + 1, id)
    <2>2. round[p] + 1 \in 1..MaxRound
        BY <2>1, BoundsAssumption DEF TypeOK, ProposeHeader
    <2>3. h \in Headers
        BY <2>2, Zenon DEF TypeOK, create_new_header, Headers
    <2> HIDE DEF h
    <2>4. /\ round' = [round EXCEPT ![p] = round[p] + 1]
          /\ enough_parents' = [enough_parents EXCEPT ![p] = FALSE]
          /\ last_proposed' = [last_proposed EXCEPT ![p] = h]
          /\ latest_header' = [latest_header EXCEPT ![p] = h]
          /\ rx_headers' = [rx_headers EXCEPT ![p] = Append(@, h)]
          /\ UNCHANGED <<recovered, quorum_round, certifier_vars, voter_vars, wire_vars>>
        BY <2>1, Zenon DEF ProposeHeader, h
    <2> QED
        BY <2>2, <2>3, <2>4, BoundsAssumption DEF TypeOK, certifier_vars, voter_vars, wire_vars
<1>5. CASE ResendHeader(p)
    BY <1>5 DEF TypeOK, ResendHeader, proposer_vars, certifier_vars, voter_vars, wire_vars
<1> QED
    BY <1>1, <1>2, <1>3, <1>4, <1>5, Zenon DEF ProposerStep, WaitingStep

\* No step of Certifier::run or of its tasks breaks a type.
LEMMA TypeCertifierStep ==
    ASSUME TypeOK, NEW p \in HonestProposers, CertifierStep(p)
    PROVE  TypeOK'
<1> p \in Proposers /\ p \in Authorities
    BY HonestIsNotFaulty, Zenon
<1>1. CASE SpawnProposal(p)
    <2> DEFINE h == Head(rx_headers[p])
               task == [header |-> h, votes |-> {}, used |-> {}, invalid |-> {},
                        failed |-> {}, cancelled |-> FALSE]
               others == {[t EXCEPT !.cancelled = TRUE] : t \in tasks[p]}
    <2>1. h \in Headers /\ Tail(rx_headers[p]) \in Seq(Headers)
        BY <1>1 DEF SpawnProposal, TypeOK
    <2>2. task \in Tasks
        BY <2>1, Zenon DEF Tasks
    <2>3. others \in SUBSET Tasks
        <3>1. tasks[p] \in SUBSET Tasks
            BY Zenon DEF TypeOK
        <3>2. \A t \in Tasks : [t EXCEPT !.cancelled = TRUE] \in Tasks
            BY Zenon DEF Tasks
        <3> QED
            BY <3>1, <3>2, Zenon
    <2>4. /\ Tally(p, others, task, p, TRUE)
          /\ votes' = votes \cup {[voter |-> p, header |-> h]}
          /\ rx_headers' = [rx_headers EXCEPT ![p] = Tail(@)]
          /\ UNCHANGED <<proposer_vars, voter_vars, certificates>>
        BY <1>1, Zenon DEF SpawnProposal
    <2> HIDE DEF h, task, others
    <2>5. /\ tasks' \in [Proposers -> SUBSET Tasks]
          /\ assembled' \in [Proposers -> SUBSET Headers]
          /\ replies' \in SUBSET Votes
        BY <2>2, <2>3, <2>4, TallyType, Zenon
    <2>6. votes' \in SUBSET Votes
        BY <2>1, <2>4 DEF TypeOK, Votes
    <2> QED
        BY <2>1, <2>4, <2>5, <2>6, Zenon DEF TypeOK, proposer_vars, voter_vars
<1>2. CASE \E t \in tasks[p], v \in Authorities, verifies \in BOOLEAN : ReceiveVote(p, t, v, verifies)
    <2>1. PICK t \in tasks[p], v \in Authorities, verifies \in BOOLEAN : ReceiveVote(p, t, v, verifies)
        BY <1>2, Zenon
    <2>2. t \in Tasks /\ tasks[p] \ {t} \in SUBSET Tasks
        BY Zenon DEF TypeOK
    <2>3. Tally(p, tasks[p] \ {t}, t, v, verifies) /\ (~verifies => v \in Faulty)
        BY <2>1, Zenon DEF ReceiveVote, request_vote
    <2>4. /\ tasks' \in [Proposers -> SUBSET Tasks]
          /\ assembled' \in [Proposers -> SUBSET Headers]
          /\ replies' \in SUBSET Votes
        BY <2>2, <2>3, TallyType, ZenonT(30)
    <2> QED
        BY <2>1, <2>4, Zenon DEF TypeOK, ReceiveVote, proposer_vars, voter_vars
<1>3. CASE \E t \in tasks[p], v \in Authorities : FailVote(p, t, v)
    <2>1. PICK t \in tasks[p], v \in Authorities : FailVote(p, t, v)
        BY <1>3, Zenon
    <2> DEFINE u == [t EXCEPT !.failed = @ \cup {v}]
    <2>2. u \in Tasks /\ tasks[p] \ {t} \in SUBSET Tasks
        <3>1. t \in Tasks /\ tasks[p] \ {t} \in SUBSET Tasks
            BY Zenon DEF TypeOK
        <3> QED
            BY <3>1, Zenon DEF Tasks
    <2>3. tasks' = [tasks EXCEPT ![p] = (tasks[p] \ {t}) \cup {u}]
        BY <2>1, Zenon DEF FailVote
    <2> HIDE DEF u
    <2>4. tasks' \in [Proposers -> SUBSET Tasks]
        BY <2>2, <2>3, Zenon DEF TypeOK
    <2> QED
        BY <2>1, <2>4, Zenon DEF TypeOK, FailVote, proposer_vars, voter_vars, wire_vars
<1>4. CASE \E t \in tasks[p] : EndProposal(p, t)
    BY <1>4 DEF TypeOK, EndProposal, without_replies, proposer_vars, voter_vars
<1>5. CASE \E header \in assembled[p] : AcceptOwnCertificate(p, header)
    BY <1>5 DEF TypeOK, AcceptOwnCertificate, proposer_vars, voter_vars, wire_vars
<1>6. CASE \E t \in tasks[p], v \in Authorities, verifies \in BOOLEAN : FailAggregation(p, t, v, verifies)
    BY <1>6 DEF TypeOK, FailAggregation, without_replies, proposer_vars, voter_vars
<1> QED
    BY <1>1, <1>2, <1>3, <1>4, <1>5, <1>6, Zenon DEF CertifierStep

\* No step of process_request_vote breaks a type.
LEMMA TypeVoterStep ==
    ASSUME TypeOK, VoterStep
    PROVE  TypeOK'
<1>1. CASE \E v \in Honest, header \in Headers : RequestVote(v, header)
    <2>1. PICK v \in Honest, header \in Headers : RequestVote(v, header)
        BY <1>1, Zenon
    <2>2. [voter |-> v, header |-> header, stage |-> "checking", seen |-> NoHeader] \in VoteTasks
        BY HonestIsNotFaulty, Zenon DEF VoteTasks
    <2> QED
        BY <2>1, <2>2, Zenon DEF TypeOK, RequestVote, proposer_vars, certifier_vars, wire_vars
<1>2. CASE \E t \in vote_tasks : EndRequest(t)
    BY <1>2, Zenon DEF TypeOK, EndRequest, proposer_vars, certifier_vars, wire_vars
<1>3. CASE \E t \in vote_tasks : CheckVote(t)
    <2>1. PICK t \in vote_tasks : CheckVote(t)
        BY <1>3, Zenon
    <2>2. t \in VoteTasks /\ t.voter \in Authorities /\ t.header.author \in Proposers
        BY Zenon DEF TypeOK, VoteTasks, Headers
    <2>3. vote_digest_store[t.voter][t.header.author] \in Headers \cup {NoHeader}
        BY <2>2 DEF TypeOK
    <2>4. [t EXCEPT !.stage = "signing", !.seen = vote_digest_store[t.voter][t.header.author]]
              \in VoteTasks
        BY <2>2, <2>3, Zenon DEF VoteTasks
    <2>5. vote_tasks' \in SUBSET VoteTasks
        BY <2>1, <2>4, Zenon DEF TypeOK, CheckVote
    <2> QED
        BY <2>1, <2>5, Zenon DEF TypeOK, CheckVote, proposer_vars, certifier_vars, wire_vars
<1>4. CASE \E t \in vote_tasks : ReturnVote(t)
    <2>1. PICK t \in vote_tasks : ReturnVote(t)
        BY <1>4
    <2>2. /\ t.voter \in Authorities /\ t.header \in Headers /\ t.header.author \in Proposers
          /\ [voter |-> t.voter, header |-> t.header] \in Votes
        BY Zenon DEF TypeOK, VoteTasks, Headers, Votes
    <2>3. vote_digest_store' \in [Authorities -> [Proposers -> Headers \cup {NoHeader}]]
        BY <2>1, <2>2, Zenon DEF TypeOK, ReturnVote
    <2>4. votes' \in SUBSET Votes /\ replies' \in SUBSET Votes
        BY <2>1, <2>2, Zenon DEF TypeOK, ReturnVote
    <2> QED
        BY <2>1, <2>3, <2>4, Zenon DEF TypeOK, ReturnVote, proposer_vars, certifier_vars
<1> QED
    BY <1>1, <1>2, <1>3, <1>4, Zenon DEF VoterStep

\* No restart, loss or faulty certificate breaks a type.
LEMMA TypeFaults ==
    ASSUME TypeOK, Faults
    PROVE  TypeOK'
<1>1. CASE \E header \in Headers : FaultyCertificate(header)
    BY <1>1, Zenon DEF TypeOK, FaultyCertificate, proposer_vars, voter_vars, wire_vars
<1>2. CASE \E p \in HonestProposers : Restart(p)
    BY <1>2, BoundsAssumption DEF TypeOK, Restart
<1>3. CASE \E v \in Honest \ Proposers : RestartVoter(v)
    BY <1>3, Zenon DEF TypeOK, RestartVoter, proposer_vars, certifier_vars, wire_vars
<1>4. CASE \E x \in replies : LoseReply(x)
    BY <1>4, Zenon DEF TypeOK, LoseReply, proposer_vars, certifier_vars, voter_vars
<1> QED
    BY <1>1, <1>2, <1>3, <1>4, Zenon DEF Faults

\* No step of the system breaks a type.
LEMMA TypeStep ==
    ASSUME TypeOK, [Next]_vars
    PROVE  TypeOK'
<1>1. CASE UNCHANGED vars
    BY <1>1, Zenon DEF TypeOK, vars, proposer_vars, certifier_vars, voter_vars, wire_vars
<1> QED
    BY <1>1, TypeProposerStep, TypeCertifierStep, TypeVoterStep, TypeFaults, Zenon DEF Next

\* The primaries start well typed.
LEMMA TypeInit == Init => TypeOK
BY BoundsAssumption DEF Init, TypeOK

\* Type correctness of the stores, channels and tasks that certify headers.
THEOREM TypeCorrect == Spec => []TypeOK
BY TypeInit, TypeStep, PTL DEF Spec

-----------------------------------------------------------------------------
(***************************************************************************)
(* A primary's own headers carry its name.                                 *)
(***************************************************************************)

Authorship ==
    \A p \in Proposers :
        /\ last_proposed[p] # NoHeader => last_proposed[p].author = p
        /\ latest_header[p] # NoHeader => latest_header[p].author = p
        /\ \A i \in 1..Len(rx_headers[p]) : rx_headers[p][i].author = p

\* There is no header at the start.
LEMMA AuthorshipInit == Init => Authorship
BY DEF Init, Authorship

\* A step that leaves the proposer's headers alone leaves their author alone.
LEMMA AuthorshipUnchanged ==
    ASSUME Authorship, UNCHANGED <<last_proposed, latest_header, rx_headers>>
    PROVE  Authorship'
BY Zenon DEF Authorship

\* create_new_header puts the proposer's own name, and nobody else's header gets in.
LEMMA AuthorshipStep ==
    ASSUME TypeOK, Authorship, [Next]_vars
    PROVE  Authorship'
<1>1. ASSUME NEW p \in HonestProposers, NEW id \in Ids, ProposeHeader(p, id)
      PROVE  Authorship'
    <2> DEFINE h == create_new_header(p, round[p] + 1, id)
    <2>1. h.author = p
        BY Zenon DEF Authorship, create_new_header
    <2> HIDE DEF h
    <2>2. /\ last_proposed' = [last_proposed EXCEPT ![p] = h]
          /\ latest_header' = [latest_header EXCEPT ![p] = h]
          /\ rx_headers' = [rx_headers EXCEPT ![p] = Append(rx_headers[p], h)]
        BY <1>1, Zenon DEF ProposeHeader, h
    <2>3. ASSUME NEW q \in Proposers, NEW i \in 1..Len(rx_headers'[q])
          PROVE  rx_headers'[q][i].author = q
        <3>1. rx_headers[q] \in Seq(Headers) /\ rx_headers[p] \in Seq(Headers)
            BY Zenon DEF TypeOK
        <3> QED
            BY <2>1, <2>2, <2>3, <3>1 DEF Authorship, TypeOK
    <2>4. \A q \in Proposers :
              /\ last_proposed'[q] # NoHeader => last_proposed'[q].author = q
              /\ latest_header'[q] # NoHeader => latest_header'[q].author = q
        BY <2>1, <2>2, Zenon DEF Authorship, TypeOK
    <2> QED
        BY <2>3, <2>4, Zenon DEF Authorship
<1>2. ASSUME NEW p \in HonestProposers, ResendHeader(p)
      PROVE  Authorship'
    <2>1. ASSUME NEW q \in Proposers, NEW i \in 1..Len(rx_headers'[q])
          PROVE  rx_headers'[q][i].author = q
        <3>1. rx_headers[q] \in Seq(Headers) /\ rx_headers[p] \in Seq(Headers)
            BY Zenon DEF TypeOK
        <3>2. rx_headers' = [rx_headers EXCEPT ![p] = Append(rx_headers[p], latest_header[p])]
            BY <1>2, Zenon DEF ResendHeader
        <3>3. latest_header[p].author = p
            BY <1>2, Zenon DEF ResendHeader, Authorship
        <3> QED
            BY <2>1, <3>1, <3>2, <3>3 DEF Authorship, TypeOK
    <2> QED
        BY <1>2, <2>1, Zenon DEF ResendHeader, Authorship, proposer_vars
<1>3. ASSUME NEW p \in HonestProposers, SpawnProposal(p)
      PROVE  Authorship'
    <2>1. ASSUME NEW q \in Proposers, NEW i \in 1..Len(rx_headers'[q])
          PROVE  rx_headers'[q][i].author = q
        <3>1. rx_headers[q] \in Seq(Headers) /\ rx_headers[p] \in Seq(Headers)
            BY DEF TypeOK
        <3>2. /\ rx_headers' = [rx_headers EXCEPT ![p] = Tail(rx_headers[p])]
              /\ rx_headers[p] # <<>>
            BY <1>3, Zenon DEF SpawnProposal
        <3> QED
            BY <2>1, <3>1, <3>2 DEF Authorship, TypeOK
    <2> QED
        BY <1>3, <2>1, Zenon DEF SpawnProposal, Authorship, proposer_vars
<1>4. ASSUME NEW p \in HonestProposers, Restart(p)
      PROVE  Authorship'
    BY <1>4 DEF Restart, Authorship, TypeOK
<1>5. ASSUME NEW p \in HonestProposers, ProposerStep(p) \/ CertifierStep(p)
      PROVE  Authorship'
    <2>1. CASE \/ AcceptQuorum(p)
               \/ \E r \in 1..quorum_round[p] : ReceiveParents(p, r)
               \/ \E r \in 1..(MaxRound - 1) : SkipToRound(p, r)
        BY <2>1, AuthorshipUnchanged, Zenon DEF AcceptQuorum, ReceiveParents, SkipToRound
    <2>2. CASE \/ \E t \in tasks[p], v \in Authorities, verifies \in BOOLEAN :
                      ReceiveVote(p, t, v, verifies) \/ FailAggregation(p, t, v, verifies)
               \/ \E t \in tasks[p], v \in Authorities : FailVote(p, t, v)
               \/ \E t \in tasks[p] : EndProposal(p, t)
               \/ \E header \in assembled[p] : AcceptOwnCertificate(p, header)
        BY <2>2, AuthorshipUnchanged, Zenon
        DEF ReceiveVote, FailAggregation, FailVote, EndProposal, AcceptOwnCertificate, proposer_vars
    <2> QED
        BY <1>1, <1>2, <1>3, <1>5, <2>1, <2>2, Zenon DEF ProposerStep, WaitingStep, CertifierStep
<1>6. ASSUME VoterStep
      PROVE  Authorship'
    BY <1>6, AuthorshipUnchanged, Zenon
    DEF VoterStep, RequestVote, EndRequest, CheckVote, ReturnVote, proposer_vars
<1>7. ASSUME Faults
      PROVE  Authorship'
    BY <1>4, <1>7, AuthorshipUnchanged, Zenon
    DEF Faults, FaultyCertificate, RestartVoter, LoseReply, proposer_vars
<1>8. CASE UNCHANGED vars
    BY <1>8, AuthorshipUnchanged, Zenon DEF vars, proposer_vars
<1> QED
    BY <1>5, <1>6, <1>7, <1>8, Zenon DEF Next

-----------------------------------------------------------------------------
(***************************************************************************)
(* One vote per author and round.                                          *)
(***************************************************************************)

\* The entry of voter v for the author of header.
entry(v, header) == vote_digest_store[v][header.author]

\* Every vote for another primary's header is covered by the store: the entry is
\* that header or one of a later round.
VotesAreStored ==
    \A x \in votes :
        x.voter # x.header.author =>
            /\ entry(x.voter, x.header) # NoHeader
            /\ \/ entry(x.voter, x.header) = x.header
               \/ entry(x.voter, x.header).round > x.header.round

\* What is stored was returned.
StoredWasReturned ==
    \A v \in Authorities, p \in Proposers :
        vote_digest_store[v][p] # NoHeader =>
            /\ vote_digest_store[v][p].author = p
            /\ [voter |-> v, header |-> vote_digest_store[v][p]] \in votes

\* The inflight limit: one handler per voter and author.
OneHandler ==
    \A t, u \in vote_tasks :
        t.voter = u.voter /\ t.header.author = u.header.author => t = u

\* What a handler read before it started to sign is still what is stored.
SeenIsStored ==
    \A t \in vote_tasks :
        /\ t.voter # t.header.author
        /\ t.stage = "signing" =>
               /\ t.seen = entry(t.voter, t.header)
               /\ t.seen # NoHeader => t.seen.round <= t.header.round

VoterInv ==
    /\ TypeOK
    /\ VotesAreStored
    /\ StoredWasReturned
    /\ OneHandler
    /\ SeenIsStored
    /\ VoteOncePerRound

\* The steps that leave the voters alone, but for an author's own vote.
VotersIdle ==
    /\ UNCHANGED vote_digest_store
    /\ vote_tasks' \subseteq vote_tasks
    /\ votes \subseteq votes'
    /\ \A x \in votes' \ votes : x.voter = x.header.author

\* There are no votes at the start.
LEMMA VoterInit == Init => VoterInv
BY TypeInit DEF Init, VoterInv, VotesAreStored, StoredWasReturned, OneHandler, SeenIsStored,
                VoteOncePerRound

\* Steps in which no handler reads or writes the vote store keep VoterInv.
LEMMA VoterIdleStep ==
    ASSUME VoterInv, TypeOK', VotersIdle
    PROVE  VoterInv'
<1>1. VotesAreStored' /\ StoredWasReturned' /\ OneHandler' /\ SeenIsStored'
    BY Zenon DEF VoterInv, VotersIdle, VotesAreStored, StoredWasReturned, OneHandler, SeenIsStored, entry
<1>2. VoteOncePerRound'
    BY Zenon DEF VoterInv, VotersIdle, VoteOncePerRound
<1> QED
    BY <1>1, <1>2, Zenon DEF VoterInv

\* A handler that ends without a vote, a reply that is lost and every step of a
\* proposer or certifier leave the voters idle.
LEMMA IdleSteps ==
    ASSUME TypeOK, Authorship
    PROVE  /\ \A p \in HonestProposers : ProposerStep(p) \/ CertifierStep(p) => VotersIdle
           /\ Faults => VotersIdle
           /\ \A t \in vote_tasks : EndRequest(t) => VotersIdle
           /\ UNCHANGED vars => VotersIdle
<1>1. ASSUME NEW p \in HonestProposers, ProposerStep(p)
      PROVE  VotersIdle
    BY <1>1, Zenon DEF ProposerStep, WaitingStep, AcceptQuorum, ReceiveParents, SkipToRound, ProposeHeader,
       ResendHeader, VotersIdle, voter_vars, wire_vars
<1>2. ASSUME NEW p \in HonestProposers, CertifierStep(p)
      PROVE  VotersIdle
    <2>1. CASE SpawnProposal(p)
        <3>1. rx_headers[p] \in Seq(Headers) /\ rx_headers[p] # <<>>
            BY <2>1, Zenon DEF TypeOK, SpawnProposal
        <3>2. Head(rx_headers[p]).author = p
            BY <3>1 DEF Authorship
        <3> QED
            BY <2>1, <3>2 DEF SpawnProposal, VotersIdle, voter_vars
    <2>2. CASE ~SpawnProposal(p)
        BY <1>2, <2>2, Zenon DEF CertifierStep, ReceiveVote, FailAggregation, FailVote, EndProposal,
           AcceptOwnCertificate, VotersIdle, voter_vars, wire_vars
    <2> QED
        BY <2>1, <2>2, Zenon
<1>3. ASSUME Faults
      PROVE  VotersIdle
    BY <1>3, Zenon DEF Faults, FaultyCertificate, Restart, RestartVoter, LoseReply, VotersIdle,
       voter_vars, wire_vars
<1>4. ASSUME NEW t \in vote_tasks, EndRequest(t)
      PROVE  VotersIdle
    BY <1>4, Zenon DEF EndRequest, VotersIdle, wire_vars
<1>5. ASSUME UNCHANGED vars
      PROVE  VotersIdle
    BY <1>5, Zenon DEF vars, VotersIdle, voter_vars, wire_vars
<1> QED
    BY <1>1, <1>2, <1>3, <1>4, <1>5, Zenon

\* A request is let in when no other of the author is: OneHandler stays.
LEMMA RequestVoteStep ==
    ASSUME VoterInv, TypeOK', NEW v \in Honest, NEW header \in Headers, RequestVote(v, header)
    PROVE  VoterInv'
<1> DEFINE t0 == [voter |-> v, header |-> header, stage |-> "checking", seen |-> NoHeader]
<1>1. /\ vote_tasks' = vote_tasks \cup {t0}
      /\ UNCHANGED <<vote_digest_store, votes>>
      /\ v # header.author
      /\ \A t \in vote_tasks : ~(t.voter = v /\ t.header.author = header.author)
    BY Zenon DEF RequestVote, inflight_free, wire_vars
<1>2. OneHandler'
    BY <1>1 DEF VoterInv, OneHandler
<1>3. SeenIsStored'
    BY <1>1 DEF VoterInv, SeenIsStored, entry
<1>4. VotesAreStored' /\ StoredWasReturned' /\ VoteOncePerRound'
    BY <1>1, Zenon DEF VoterInv, VotesAreStored, StoredWasReturned, VoteOncePerRound, entry
<1> QED
    BY <1>2, <1>3, <1>4, Zenon DEF VoterInv

\* Reading the vote store: what the handler has seen is what is stored.
LEMMA CheckVoteStep ==
    ASSUME VoterInv, TypeOK', NEW t \in vote_tasks, CheckVote(t)
    PROVE  VoterInv'
<1> DEFINE vote_info == vote_digest_store[t.voter][t.header.author]
           signing == [t EXCEPT !.stage = "signing", !.seen = vote_info]
<1>1. t \in VoteTasks /\ vote_tasks \subseteq VoteTasks
    BY Zenon DEF VoterInv, TypeOK
<1>2. /\ signing.voter = t.voter
      /\ signing.header = t.header
      /\ signing.stage = "signing"
      /\ signing.seen = vote_info
    BY <1>1, Zenon DEF VoteTasks
<1>3. \/ vote_tasks' = vote_tasks \ {t}
      \/ /\ vote_tasks' = (vote_tasks \ {t}) \cup {signing}
         /\ ~(vote_info # NoHeader /\ t.header.round < vote_info.round)
    BY Zenon DEF CheckVote
<1>4. UNCHANGED <<vote_digest_store, votes>>
    BY Zenon DEF CheckVote, wire_vars
<1>5. vote_info # NoHeader => vote_info.round \in Nat /\ t.header.round \in Nat
    <2>1. t.voter \in Authorities /\ t.header \in Headers /\ t.header.author \in Proposers
        BY <1>1, Zenon DEF VoteTasks, Headers
    <2>2. vote_info \in Headers \cup {NoHeader}
        BY <2>1 DEF VoterInv, TypeOK
    <2> HIDE DEF vote_info
    <2> QED
        BY <2>1, <2>2, BoundsAssumption DEF Headers
<1> HIDE DEF vote_info, signing
<1>6. OneHandler'
    BY <1>2, <1>3 DEF VoterInv, OneHandler
<1>7. SeenIsStored'
    <2>1. SUFFICES ASSUME NEW u \in vote_tasks'
                   PROVE  /\ u.voter # u.header.author
                          /\ u.stage = "signing" =>
                                 /\ u.seen = entry(u.voter, u.header)'
                                 /\ u.seen # NoHeader => u.seen.round <= u.header.round
        BY Zenon DEF SeenIsStored
    <2>2. CASE u \in vote_tasks
        BY <1>4, <2>2, Zenon DEF VoterInv, SeenIsStored, entry
    <2>3. CASE u = signing /\ u \notin vote_tasks
        <3>1. t.voter # t.header.author
            BY Zenon DEF VoterInv, SeenIsStored
        <3>2. vote_info = entry(u.voter, u.header)'
            BY <1>2, <1>4, <2>3, Zenon DEF entry, vote_info
        <3>3. vote_info # NoHeader => vote_info.round <= t.header.round
            BY <1>3, <1>5, <2>3
        <3> QED
            BY <1>2, <2>3, <3>1, <3>2, <3>3, Zenon
    <2> QED
        BY <1>3, <2>2, <2>3, Zenon
<1>8. VotesAreStored' /\ StoredWasReturned' /\ VoteOncePerRound'
    BY <1>4, Zenon DEF VoterInv, VotesAreStored, StoredWasReturned, VoteOncePerRound, entry
<1> QED
    BY <1>6, <1>7, <1>8, Zenon DEF VoterInv

\* What ReturnVote does, told by the stored entry: nothing new, or a vote that is
\* newer than every vote for the author.
LEMMA ReturnVoteEffect ==
    ASSUME VoterInv, NEW t \in vote_tasks, ReturnVote(t)
    PROVE  LET vote == [voter |-> t.voter, header |-> t.header]
           IN  \/ UNCHANGED <<votes, vote_digest_store>>
               \/ /\ votes' = votes \cup {vote}
                  /\ vote_digest_store' =
                         [vote_digest_store EXCEPT ![t.voter][t.header.author] = t.header]
                  /\ \A y \in votes :
                         y.voter = t.voter /\ y.header.author = t.header.author =>
                             y.header.round < t.header.round
<1> DEFINE vote == [voter |-> t.voter, header |-> t.header]
           same_round == t.seen # NoHeader /\ t.seen.round = t.header.round
<1>1. /\ t.voter \in Authorities /\ t.header \in Headers /\ t.header.author \in Proposers
      /\ t.header.round \in Nat
    BY BoundsAssumption DEF VoterInv, TypeOK, VoteTasks, Headers
<1>2. /\ t.voter # t.header.author
      /\ t.seen = vote_digest_store[t.voter][t.header.author]
      /\ t.seen # NoHeader => t.seen.round <= t.header.round
    BY Zenon DEF VoterInv, SeenIsStored, ReturnVote, entry
<1>3. CASE same_round
    <2>1. votes' = votes \cup (IF t.seen # t.header THEN {} ELSE {vote})
        BY <1>3, Zenon DEF ReturnVote
    <2>2. t.seen = t.header => vote \in votes
        <3> DEFINE stored == vote_digest_store[t.voter][t.header.author]
        <3>1. stored # NoHeader => [voter |-> t.voter, header |-> stored] \in votes
            BY <1>1, Zenon DEF VoterInv, StoredWasReturned
        <3> HIDE DEF stored
        <3>2. t.seen = stored
            BY <1>2, Zenon DEF stored
        <3> QED
            BY <1>3, <3>1, <3>2, Zenon
    <2>3. votes' = votes
        BY <2>1, <2>2, Zenon
    <2> QED
        BY <1>3, <2>3, Zenon DEF ReturnVote
<1>4. CASE ~same_round
    <2>1. /\ votes' = votes \cup {vote}
          /\ vote_digest_store' =
                 [vote_digest_store EXCEPT ![t.voter][t.header.author] = t.header]
        BY <1>4, Zenon DEF ReturnVote
    <2>2. ASSUME NEW y \in votes, y.voter = t.voter, y.header.author = t.header.author
          PROVE  y.header.round < t.header.round
        <3>1. y.header \in Headers /\ y.header.round \in Nat
            BY BoundsAssumption DEF VoterInv, TypeOK, Votes, Headers
        <3>2. /\ t.seen # NoHeader
              /\ t.seen = y.header \/ t.seen.round > y.header.round
            BY <1>2, <2>2, Zenon DEF VoterInv, VotesAreStored, entry
        <3>3. t.seen \in Headers
            BY <1>1, <1>2, <3>2 DEF VoterInv, TypeOK
        <3>4. t.seen.round \in Nat
            BY <3>3, BoundsAssumption DEF Headers
        <3> QED
            BY <1>1, <1>2, <1>4, <3>1, <3>2, <3>4
    <2> QED
        BY <2>1, <2>2, Zenon
<1> QED
    BY <1>3, <1>4, Zenon

\* Writing and returning the vote: it is the first of its round, or the same again.
LEMMA ReturnVoteStep ==
    ASSUME VoterInv, TypeOK', NEW t \in vote_tasks, ReturnVote(t)
    PROVE  VoterInv'
<1> DEFINE vote == [voter |-> t.voter, header |-> t.header]
<1>1. vote_tasks' = vote_tasks \ {t}
    BY Zenon DEF ReturnVote
<1>2. CASE UNCHANGED <<votes, vote_digest_store>>
    BY <1>1, <1>2, VoterIdleStep, Zenon DEF VotersIdle
<1>3. CASE ~UNCHANGED <<votes, vote_digest_store>>
    <2>1. /\ t.voter \in Authorities /\ t.header \in Headers /\ t.header.author \in Proposers
          /\ t.header.round \in Nat
        BY BoundsAssumption DEF VoterInv, TypeOK, VoteTasks, Headers
    <2>2. /\ votes' = votes \cup {vote}
          /\ vote_digest_store' =
                 [vote_digest_store EXCEPT ![t.voter][t.header.author] = t.header]
          /\ \A y \in votes :
                 y.voter = t.voter /\ y.header.author = t.header.author =>
                     y.header.round < t.header.round
        BY <1>3, ReturnVoteEffect, Zenon
    <2>3. \A v \in Authorities, p \in Proposers :
              vote_digest_store'[v][p] = IF v = t.voter /\ p = t.header.author
                                         THEN t.header ELSE vote_digest_store[v][p]
        BY <2>1, <2>2, Zenon DEF VoterInv, TypeOK
    <2>4. t.header # NoHeader
        BY <2>1, NoHeaderAssumption, Zenon
    <2>5. \A x \in votes : /\ x.voter \in Authorities /\ x.header.author \in Proposers
                            /\ x.header.round \in Nat
        BY BoundsAssumption DEF VoterInv, TypeOK, Votes, Headers
    <2>6. VotesAreStored'
        <3> SUFFICES ASSUME NEW x \in votes', x.voter # x.header.author
                     PROVE  LET e == vote_digest_store'[x.voter][x.header.author]
                            IN  e # NoHeader /\ (e = x.header \/ e.round > x.header.round)
            BY Zenon DEF VotesAreStored, entry
        <3>1. CASE x = vote
            BY <2>1, <2>3, <2>4, <3>1, Zenon
        <3>2. CASE x \in votes /\ x.voter = t.voter /\ x.header.author = t.header.author
            BY <2>1, <2>2, <2>3, <2>4, <2>5, <3>2
        <3>3. CASE x \in votes /\ ~(x.voter = t.voter /\ x.header.author = t.header.author)
            BY <2>3, <2>5, <3>3, Zenon DEF VoterInv, VotesAreStored, entry
        <3> QED
            BY <2>2, <3>1, <3>2, <3>3, Zenon
    <2>7. StoredWasReturned'
        <3> SUFFICES ASSUME NEW v \in Authorities, NEW p \in Proposers,
                            vote_digest_store'[v][p] # NoHeader
                     PROVE  /\ vote_digest_store'[v][p].author = p
                            /\ [voter |-> v, header |-> vote_digest_store'[v][p]] \in votes'
            BY Zenon DEF StoredWasReturned
        <3>1. CASE v = t.voter /\ p = t.header.author
            BY <2>2, <2>3, <3>1
        <3>2. CASE ~(v = t.voter /\ p = t.header.author)
            <4>1. vote_digest_store'[v][p] = vote_digest_store[v][p]
                BY <2>3, <3>2, Zenon
            <4> QED
                BY <2>2, <4>1 DEF VoterInv, StoredWasReturned
        <3> QED
            BY <3>1, <3>2, Zenon
    <2>8. OneHandler'
        BY <1>1, Zenon DEF VoterInv, OneHandler
    <2>9. SeenIsStored'
        <3> SUFFICES ASSUME NEW u \in vote_tasks'
                     PROVE  /\ u.voter # u.header.author
                            /\ u.stage = "signing" =>
                                   /\ u.seen = vote_digest_store'[u.voter][u.header.author]
                                   /\ u.seen # NoHeader => u.seen.round <= u.header.round
            BY Zenon DEF SeenIsStored, entry
        <3>1. u \in vote_tasks /\ ~(u.voter = t.voter /\ u.header.author = t.header.author)
            BY <1>1, Zenon DEF VoterInv, OneHandler
        <3>2. u.voter \in Authorities /\ u.header.author \in Proposers
            BY <3>1, Zenon DEF VoterInv, TypeOK, VoteTasks, Headers
        <3>3. vote_digest_store'[u.voter][u.header.author] = vote_digest_store[u.voter][u.header.author]
            BY <2>3, <3>1, <3>2, Zenon
        <3> QED
            BY <3>1, <3>3, Zenon DEF VoterInv, SeenIsStored, entry
    <2>10. VoteOncePerRound'
        BY <2>1, <2>2, <2>5 DEF VoterInv, VoteOncePerRound
    <2> QED
        BY <2>6, <2>7, <2>8, <2>9, <2>10, Zenon DEF VoterInv
<1> QED
    BY <1>2, <1>3, Zenon

\* Every step keeps VoterInv.
LEMMA VoterInvStep ==
    ASSUME VoterInv, Authorship, [Next]_vars
    PROVE  VoterInv'
<1> TypeOK
    BY Zenon DEF VoterInv
<1>1. TypeOK'
    BY TypeStep, Zenon
<1>2. CASE VotersIdle
    BY <1>1, <1>2, VoterIdleStep, Zenon
<1>3. CASE VoterStep
    <2>1. CASE \E v \in Honest, header \in Headers : RequestVote(v, header)
        BY <1>1, <2>1, RequestVoteStep, Zenon
    <2>2. CASE \E t \in vote_tasks : CheckVote(t)
        BY <1>1, <2>2, CheckVoteStep, Zenon
    <2>3. CASE \E t \in vote_tasks : ReturnVote(t)
        BY <1>1, <2>3, ReturnVoteStep
    <2>4. CASE \E t \in vote_tasks : EndRequest(t)
        BY <1>2, <2>4, IdleSteps, Zenon
    <2> QED
        BY <1>3, <2>1, <2>2, <2>3, <2>4, Zenon DEF VoterStep
<1> QED
    BY <1>2, <1>3, IdleSteps, Zenon DEF Next

\* process_request_vote returns at most one vote per author and round, whatever
\* the requests, restarts and losses: VoterInv is inductive.
THEOREM VoteOnce == Spec => []VoteOncePerRound
<1>1. Init => VoterInv /\ Authorship
    BY VoterInit, AuthorshipInit, Zenon
<1>2. (VoterInv /\ Authorship) /\ [Next]_vars => (VoterInv /\ Authorship)'
    BY VoterInvStep, AuthorshipStep, Zenon DEF VoterInv
<1>3. VoterInv => VoteOncePerRound
    BY Zenon DEF VoterInv
<1> QED
    BY <1>1, <1>2, <1>3, PTL DEF Spec

\* The order of votes: a vote that is new is for a later round than every other
\* vote of the voter for that author.
THEOREM VotesInOrder == Spec => VotesMoveForward
<1> DEFINE Forward == \A x \in votes' \ votes, y \in votes :
                          /\ x.voter = y.voter
                          /\ x.voter # x.header.author
                          /\ x.header.author = y.header.author
                          => x.header.round > y.header.round
<1>1. Init => VoterInv /\ Authorship
    BY VoterInit, AuthorshipInit
<1>2. (VoterInv /\ Authorship) /\ [Next]_vars => (VoterInv /\ Authorship)'
    BY VoterInvStep, AuthorshipStep DEF VoterInv
<1>3. (VoterInv /\ Authorship) /\ [Next]_vars => [Forward]_vars
    <2> SUFFICES ASSUME VoterInv, Authorship, [Next]_vars
                 PROVE  Forward
        BY Zenon
    <2> TypeOK
        BY DEF VoterInv
    <2>1. CASE VotersIdle
        BY <2>1, Zenon DEF VotersIdle
    <2>2. CASE \E v \in Honest, header \in Headers : RequestVote(v, header)
        BY <2>2, Zenon DEF RequestVote, wire_vars
    <2>3. CASE \E t \in vote_tasks : CheckVote(t)
        BY <2>3, Zenon DEF CheckVote, wire_vars
    <2>4. ASSUME NEW t \in vote_tasks, ReturnVote(t)
          PROVE  Forward
        <3>1. /\ t.header.round \in Nat
              /\ \A y \in votes : y.header.round \in Nat
            BY BoundsAssumption DEF VoterInv, TypeOK, VoteTasks, Votes, Headers
        <3>2. CASE votes' = votes
            BY <3>2, Zenon
        <3>3. CASE votes' # votes
            <4>1. /\ votes' = votes \cup {[voter |-> t.voter, header |-> t.header]}
                  /\ \A y \in votes :
                         y.voter = t.voter /\ y.header.author = t.header.author =>
                             y.header.round < t.header.round
                BY <2>4, <3>3, ReturnVoteEffect, Zenon
            <4> QED
                BY <3>1, <4>1
        <3> QED
            BY <3>2, <3>3, Zenon
    <2> QED
        BY <2>1, <2>2, <2>3, <2>4, IdleSteps, Zenon DEF Next, VoterStep
<1> QED
    BY <1>1, <1>2, <1>3, PTL DEF Spec, VotesMoveForward

-----------------------------------------------------------------------------
(***************************************************************************)
(* Certificates rest on votes.                                             *)
(***************************************************************************)

VotersOf(header) == {v \in Authorities : [voter |-> v, header |-> header] \in votes}

Backers(header) == Faulty \cup VotersOf(header)

\* The valid votes of a task were returned by their authors.
Backed(t) == t.votes \ t.invalid \subseteq Backers(t.header)

CertificateInv ==
    /\ replies \subseteq votes
    /\ \A p \in Proposers : \A t \in tasks[p] : Backed(t)
    /\ \A p \in Proposers : \A header \in assembled[p] : reached_quorum(Backers(header))
    /\ \A header \in certificates : reached_quorum(Backers(header))

\* Votes are never taken back, so what they back stays backed.
LEMMA VotesGrow ==
    ASSUME TypeOK, [Next]_vars
    PROVE  votes \subseteq votes'
<1>1. ASSUME NEW p \in HonestProposers, ProposerStep(p)
      PROVE  votes \subseteq votes'
    BY <1>1, Zenon DEF ProposerStep, WaitingStep, AcceptQuorum, ReceiveParents, SkipToRound, ProposeHeader,
       ResendHeader, wire_vars
<1>2. ASSUME NEW p \in HonestProposers, CertifierStep(p)
      PROVE  votes \subseteq votes'
    BY <1>2, Zenon DEF CertifierStep, SpawnProposal, ReceiveVote, FailAggregation, FailVote, EndProposal,
       AcceptOwnCertificate, wire_vars
<1>3. VoterStep => votes \subseteq votes'
    BY Zenon DEF VoterStep, RequestVote, EndRequest, CheckVote, ReturnVote, wire_vars
<1>4. Faults => votes \subseteq votes'
    BY Zenon DEF Faults, FaultyCertificate, Restart, RestartVoter, LoseReply, wire_vars
<1>5. UNCHANGED vars => votes \subseteq votes'
    BY Zenon DEF vars, wire_vars
<1> QED
    BY <1>1, <1>2, <1>3, <1>4, <1>5, Zenon DEF Next

\* What has a quorum of backers keeps it.
LEMMA BackersGrow ==
    ASSUME votes \subseteq votes', NEW header
    PROVE  /\ Backers(header) \subseteq Backers(header)'
           /\ reached_quorum(Backers(header)) => reached_quorum(Backers(header)')
<1>1. Backers(header) \subseteq Backers(header)'
    BY Zenon DEF Backers, VotersOf
<1>2. Backers(header)' \subseteq Authorities
    BY FaultAssumption, Zenon DEF Backers, VotersOf
<1>3. StakeOf[Backers(header)] \in Nat /\ StakeOf[Backers(header)'] \in Nat
      /\ StakeOf[Backers(header)] <= StakeOf[Backers(header)']
    BY <1>1, <1>2, StakeMonotone, Zenon
<1> QED
    BY <1>1, <1>3, ThresholdArithmetic DEF reached_quorum

\* The steps that start no task, take no vote and make no certificate.
LEMMA CertificateFrame ==
    ASSUME CertificateInv, votes \subseteq votes', replies' \subseteq votes',
           certificates' \subseteq certificates,
           \A p \in Proposers : tasks'[p] \subseteq tasks[p],
           \A p \in Proposers : assembled'[p] \subseteq assembled[p]
    PROVE  CertificateInv'
<1>1. ASSUME NEW p \in Proposers, NEW t \in tasks'[p]
      PROVE  Backed(t)'
    <2>1. Backed(t)
        BY Zenon DEF CertificateInv
    <2> QED
        BY <2>1, BackersGrow, Zenon DEF Backed
<1>2. ASSUME NEW p \in Proposers, NEW header \in assembled'[p]
      PROVE  reached_quorum(Backers(header))'
    <2>1. reached_quorum(Backers(header))
        BY Zenon DEF CertificateInv
    <2> QED
        BY <2>1, BackersGrow, Zenon DEF reached_quorum
<1>3. ASSUME NEW header \in certificates'
      PROVE  reached_quorum(Backers(header))'
    <2>1. reached_quorum(Backers(header))
        BY Zenon DEF CertificateInv
    <2> QED
        BY <2>1, BackersGrow, Zenon DEF reached_quorum
<1> QED
    BY <1>1, <1>2, <1>3, Zenon DEF CertificateInv

\* A certificate the aggregator forms is backed by a quorum, and so is what a
\* task keeps.
LEMMA TallyBacked ==
    ASSUME TypeOK, TypeOK', CertificateInv, votes \subseteq votes',
           NEW p \in Proposers, NEW others, NEW t \in Tasks,
           NEW v \in Authorities, NEW verifies \in BOOLEAN,
           \A u \in others : Backed(u)', Backed(t)',
           v \in Faulty \/ [voter |-> v, header |-> t.header] \in votes',
           Tally(p, others, t, v, verifies)
    PROVE  /\ \A q \in Proposers : \A u \in tasks'[q] : Backed(u)'
           /\ \A q \in Proposers : \A header \in assembled'[q] : reached_quorum(Backers(header))'
<1>1. v \in Backers(t.header)'
    BY Zenon DEF Backers, VotersOf
<1>2. ASSUME NEW q \in Proposers, NEW u \in tasks[q]
      PROVE  Backed(u)'
    <2>1. Backed(u)
        BY Zenon DEF CertificateInv
    <2> QED
        BY <2>1, BackersGrow, Zenon DEF Backed
<1>3. ASSUME NEW q \in Proposers, NEW header \in assembled[q]
      PROVE  reached_quorum(Backers(header))'
    <2>1. reached_quorum(Backers(header))
        BY Zenon DEF CertificateInv
    <2> QED
        BY <2>1, BackersGrow, Zenon DEF reached_quorum
<1>4. CASE forms_certificate(t, v, verifies)
    <2>1. /\ tasks' = [tasks EXCEPT ![p] = others]
          /\ assembled' = [assembled EXCEPT ![p] = assembled[p] \cup {t.header}]
        BY <1>4, Zenon DEF Tally
    <2>2. t.invalid = {} /\ reached_quorum(t.votes \cup {v})
        BY <1>4, Zenon DEF forms_certificate
    <2>3. t.votes \cup {v} \subseteq Backers(t.header)'
        BY <1>1, <2>2, Zenon DEF Backed
    <2>4. Backers(t.header)' \subseteq Authorities
        BY FaultAssumption, Zenon DEF Backers, VotersOf
    <2>5. /\ StakeOf[t.votes \cup {v}] \in Nat /\ StakeOf[Backers(t.header)'] \in Nat
          /\ StakeOf[t.votes \cup {v}] <= StakeOf[Backers(t.header)']
        BY <2>3, <2>4, StakeMonotone, Zenon
    <2>6. reached_quorum(Backers(t.header))'
        BY <2>2, <2>5, ThresholdArithmetic DEF reached_quorum
    <2>7. \A q \in Proposers : \A u \in tasks'[q] : Backed(u)'
        BY <1>2, <2>1, Zenon DEF TypeOK
    <2>8. \A q \in Proposers : \A header \in assembled'[q] : reached_quorum(Backers(header))'
        BY <1>3, <2>1, <2>6, Zenon DEF TypeOK
    <2> QED
        BY <2>7, <2>8, Zenon
<1>5. CASE ~forms_certificate(t, v, verifies)
    <2> DEFINE a == append(t, v, verifies)
    <2>1. /\ tasks' = [tasks EXCEPT ![p] = others \cup {a}]
          /\ assembled' = assembled
        BY <1>5, Zenon DEF Tally
    <2>2. a.header = t.header /\ a.votes \ a.invalid \subseteq (t.votes \ t.invalid) \cup {v}
        BY Zenon DEF append, Tasks
    <2>3. Backed(a)'
        BY <1>1, <2>2, Zenon DEF Backed
    <2> HIDE DEF a
    <2>4. \A q \in Proposers : \A u \in tasks'[q] : Backed(u)'
        BY <1>2, <2>1, <2>3, Zenon DEF TypeOK
    <2> QED
        BY <1>3, <2>1, <2>4, Zenon
<1> QED
    BY <1>4, <1>5, Zenon

\* A task starts with its author's vote, which has been signed.
LEMMA CertificateSpawn ==
    ASSUME TypeOK, TypeOK', CertificateInv, NEW p \in HonestProposers, SpawnProposal(p)
    PROVE  CertificateInv'
<1> p \in Proposers /\ p \in Authorities
    BY HonestIsNotFaulty, Zenon
<1>1. PICK h \in Headers : h = Head(rx_headers[p])
    BY DEF SpawnProposal, TypeOK
<1>2. PICK others : others = {[t EXCEPT !.cancelled = TRUE] : t \in tasks[p]}
    BY Zenon
<1> DEFINE task == [header |-> h, votes |-> {}, used |-> {}, invalid |-> {},
                    failed |-> {}, cancelled |-> FALSE]
<1>3. /\ Tally(p, others, task, p, TRUE)
      /\ votes' = votes \cup {[voter |-> p, header |-> h]}
      /\ UNCHANGED certificates
    BY <1>1, <1>2, Zenon DEF SpawnProposal
<1>4. votes \subseteq votes' /\ [voter |-> p, header |-> h] \in votes'
    BY <1>3, Zenon
<1>5. task \in Tasks /\ Backed(task)' /\ task.header = h
    BY Zenon DEF Tasks, Backed
<1>6. ASSUME NEW u \in others
      PROVE  Backed(u)'
    <2>1. PICK t \in tasks[p] : u = [t EXCEPT !.cancelled = TRUE]
        BY <1>2, Zenon
    <2>2. Backed(t) /\ t \in Tasks
        BY Zenon DEF CertificateInv, TypeOK
    <2>3. u.votes = t.votes /\ u.invalid = t.invalid /\ u.header = t.header
        BY <2>1, <2>2, Zenon DEF Tasks
    <2> QED
        BY <1>4, <2>2, <2>3, BackersGrow, Zenon DEF Backed
<1> HIDE DEF task
<1>7. /\ \A q \in Proposers : \A u \in tasks'[q] : Backed(u)'
      /\ \A q \in Proposers : \A header \in assembled'[q] : reached_quorum(Backers(header))'
    BY <1>3, <1>4, <1>5, <1>6, TallyBacked, Zenon
<1>8. replies' \subseteq votes'
    BY <1>3, <1>4, Zenon DEF Tally, without_replies, CertificateInv
<1>9. ASSUME NEW header \in certificates'
      PROVE  reached_quorum(Backers(header))'
    <2>1. reached_quorum(Backers(header))
        BY <1>3, Zenon DEF CertificateInv
    <2> QED
        BY <1>4, <2>1, BackersGrow, Zenon DEF reached_quorum
<1> QED
    BY <1>7, <1>8, <1>9, Zenon DEF CertificateInv

\* A vote that is counted was returned by its voter, or is a faulty one's.
LEMMA CertificateReceive ==
    ASSUME TypeOK, TypeOK', CertificateInv, NEW p \in HonestProposers, NEW t \in tasks[p],
           NEW v \in Authorities, NEW verifies \in BOOLEAN, ReceiveVote(p, t, v, verifies)
    PROVE  CertificateInv'
<1> p \in Proposers
    BY HonestIsNotFaulty, Zenon
<1>1. /\ votes' = votes /\ certificates' = certificates
      /\ v \in Faulty \/ [voter |-> v, header |-> t.header] \in votes'
    BY Zenon DEF ReceiveVote, request_vote, CertificateInv
<1>2. PICK others : others = tasks[p] \ {t}
    BY Zenon
<1>3. Tally(p, others, t, v, verifies)
    BY <1>2, Zenon DEF ReceiveVote
<1>4. \A u \in tasks[p] : Backed(u)'
    BY <1>1, Zenon DEF CertificateInv, Backed, Backers, VotersOf
<1>5. t \in Tasks /\ Backed(t)' /\ \A u \in others : Backed(u)'
    BY <1>2, <1>4, Zenon DEF TypeOK
<1>6. /\ \A q \in Proposers : \A u \in tasks'[q] : Backed(u)'
      /\ \A q \in Proposers : \A header \in assembled'[q] : reached_quorum(Backers(header))'
    BY <1>1, <1>3, <1>5, TallyBacked, Zenon
<1>7. replies' \subseteq votes'
    BY <1>1, <1>3, Zenon DEF Tally, without_replies, CertificateInv
<1>8. \A header \in certificates' : reached_quorum(Backers(header))'
    BY <1>1, Zenon DEF CertificateInv, Backers, VotersOf, reached_quorum
<1> QED
    BY <1>6, <1>7, <1>8, Zenon DEF CertificateInv

\* A request that fails takes no backing away.
LEMMA CertificateFail ==
    ASSUME TypeOK, TypeOK', CertificateInv, NEW p \in HonestProposers, NEW t \in tasks[p],
           NEW v \in Authorities, FailVote(p, t, v)
    PROVE  CertificateInv'
<1> p \in Proposers
    BY HonestIsNotFaulty, Zenon
<1> DEFINE u == [t EXCEPT !.failed = @ \cup {v}]
<1>1. /\ tasks' = [tasks EXCEPT ![p] = (tasks[p] \ {t}) \cup {u}]
      /\ UNCHANGED <<votes, replies, assembled, certificates>>
    BY Zenon DEF FailVote, wire_vars
<1>2. \A q \in Proposers : \A w \in tasks[q] : Backed(w)'
    BY <1>1, Zenon DEF CertificateInv, Backed, Backers, VotersOf
<1>3. t \in Tasks
    BY Zenon DEF TypeOK
<1>4. u.votes = t.votes /\ u.invalid = t.invalid /\ u.header = t.header
    BY <1>3, Zenon DEF Tasks
<1>5. Backed(u)'
    BY <1>2, <1>4, Zenon DEF Backed
<1> HIDE DEF u
<1>6. \A q \in Proposers : \A w \in tasks'[q] : Backed(w)'
    BY <1>1, <1>2, <1>5, Zenon DEF TypeOK
<1>7. /\ replies' \subseteq votes'
      /\ \A q \in Proposers : \A header \in assembled'[q] : reached_quorum(Backers(header))'
      /\ \A header \in certificates' : reached_quorum(Backers(header))'
    BY <1>1, Zenon DEF CertificateInv, Backers, VotersOf, reached_quorum
<1> QED
    BY <1>6, <1>7, Zenon DEF CertificateInv

\* Accepting an assembled certificate, or what a faulty author puts together.
LEMMA CertificateAdded ==
    ASSUME TypeOK, CertificateInv, NEW header,
           certificates' = certificates \cup {header}, reached_quorum(Backers(header)),
           UNCHANGED <<votes, replies, tasks>>,
           \A q \in Proposers : assembled'[q] \subseteq assembled[q]
    PROVE  CertificateInv'
<1>1. \A h : Backers(h)' = Backers(h)
    BY Zenon DEF Backers, VotersOf
<1> QED
    BY <1>1, Zenon DEF CertificateInv, Backed, reached_quorum

\* There are no certificates at the start.
LEMMA CertificateInit == Init => CertificateInv
BY Zenon DEF Init, CertificateInv

\* Every step keeps certificates backed by a quorum of voters.
LEMMA CertificateStep ==
    ASSUME TypeOK, CertificateInv, [Next]_vars
    PROVE  CertificateInv'
<1>1. TypeOK' /\ votes \subseteq votes'
    BY TypeStep, VotesGrow, Zenon
<1>2. ASSUME NEW p \in HonestProposers, ProposerStep(p)
      PROVE  CertificateInv'
    <2>1. UNCHANGED <<certifier_vars, wire_vars>>
        BY <1>2, Zenon DEF ProposerStep, WaitingStep, AcceptQuorum, ReceiveParents, SkipToRound, ProposeHeader,
           ResendHeader
    <2> QED
        BY <1>1, <2>1, CertificateFrame, Zenon DEF certifier_vars, wire_vars, CertificateInv
<1>3. ASSUME NEW p \in HonestProposers, CertifierStep(p)
      PROVE  CertificateInv'
    <2> p \in Proposers
        BY HonestIsNotFaulty, Zenon
    <2>1. CASE SpawnProposal(p)
        BY <1>1, <2>1, CertificateSpawn, Zenon
    <2>2. CASE \E t \in tasks[p], v \in Authorities, verifies \in BOOLEAN :
                   ReceiveVote(p, t, v, verifies)
        BY <1>1, <2>2, CertificateReceive, Zenon
    <2>3. CASE \E t \in tasks[p], v \in Authorities : FailVote(p, t, v)
        BY <1>1, <2>3, CertificateFail, Zenon
    <2>4. ASSUME NEW t \in tasks[p], EndProposal(p, t)
          PROVE  CertificateInv'
        <3>1. /\ replies' \subseteq votes'
              /\ \A q \in Proposers : tasks'[q] \subseteq tasks[q]
              /\ UNCHANGED <<assembled, certificates>>
            BY <2>4, Zenon DEF EndProposal, without_replies, CertificateInv, TypeOK
        <3> QED
            BY <1>1, <3>1, CertificateFrame, Zenon
    <2>5. ASSUME NEW header \in assembled[p], AcceptOwnCertificate(p, header)
          PROVE  CertificateInv'
        <3>1. /\ certificates' = certificates \cup {header}
              /\ reached_quorum(Backers(header))
              /\ UNCHANGED <<votes, replies, tasks>>
            BY <2>5, Zenon DEF AcceptOwnCertificate, CertificateInv, wire_vars
        <3>2. \A q \in Proposers : assembled'[q] \subseteq assembled[q]
            BY <2>5, Zenon DEF AcceptOwnCertificate, TypeOK
        <3> QED
            BY <3>1, <3>2, CertificateAdded, Zenon
    <2>6. ASSUME NEW t \in tasks[p], NEW v \in Authorities, NEW verifies \in BOOLEAN,
                 FailAggregation(p, t, v, verifies)
          PROVE  CertificateInv'
        <3>1. /\ replies' \subseteq votes'
              /\ \A q \in Proposers : tasks'[q] \subseteq tasks[q]
              /\ UNCHANGED <<assembled, certificates>>
            BY <2>6, Zenon DEF FailAggregation, without_replies, CertificateInv, TypeOK
        <3> QED
            BY <1>1, <3>1, CertificateFrame, Zenon
    <2> QED
        BY <1>3, <2>1, <2>2, <2>3, <2>4, <2>5, <2>6, Zenon DEF CertifierStep
<1>4. ASSUME VoterStep
      PROVE  CertificateInv'
    <2>1. UNCHANGED certifier_vars /\ replies' \subseteq votes'
        BY <1>4, Zenon DEF VoterStep, RequestVote, EndRequest, CheckVote, ReturnVote, wire_vars,
           CertificateInv
    <2> QED
        BY <1>1, <2>1, CertificateFrame, Zenon DEF certifier_vars
<1>5. ASSUME Faults
      PROVE  CertificateInv'
    <2>1. ASSUME NEW header \in Headers, FaultyCertificate(header)
          PROVE  CertificateInv'
        <3>1. /\ certificates' = certificates \cup {header}
              /\ reached_quorum(Backers(header))
              /\ UNCHANGED <<votes, replies, tasks, assembled>>
            BY <2>1, Zenon DEF FaultyCertificate, Backers, VotersOf, wire_vars
        <3> QED
            BY <3>1, CertificateAdded, Zenon
    <2>2. ASSUME NEW p \in HonestProposers, Restart(p)
          PROVE  CertificateInv'
        <3>1. /\ replies' \subseteq votes'
              /\ \A q \in Proposers : tasks'[q] \subseteq tasks[q]
              /\ \A q \in Proposers : assembled'[q] \subseteq assembled[q]
              /\ UNCHANGED certificates
            BY <2>2, Zenon DEF Restart, CertificateInv, TypeOK
        <3> QED
            BY <1>1, <3>1, CertificateFrame, Zenon
    <2>3. ASSUME NEW v \in Honest \ Proposers, RestartVoter(v)
          PROVE  CertificateInv'
        BY <1>1, <2>3, CertificateFrame, Zenon DEF RestartVoter, certifier_vars, wire_vars, CertificateInv
    <2>4. ASSUME NEW x \in replies, LoseReply(x)
          PROVE  CertificateInv'
        BY <1>1, <2>4, CertificateFrame, Zenon DEF LoseReply, certifier_vars, CertificateInv
    <2> QED
        BY <1>5, <2>1, <2>2, <2>3, <2>4, Zenon DEF Faults
<1>6. CASE UNCHANGED vars
    BY <1>1, <1>6, CertificateFrame, Zenon DEF vars, certifier_vars, wire_vars, CertificateInv
<1> QED
    BY <1>2, <1>3, <1>4, <1>5, <1>6, Zenon DEF Next

\* Two certificates of one author and round have an honest voter in common.
LEMMA UniqueUnlessEquivocating ==
    ASSUME TypeOK, VoteOncePerRound, NoEquivocation, CertificateInv
    PROVE  CertificateUniqueness
<1> SUFFICES ASSUME NEW g \in Certified, NEW h \in Certified,
                    g.author = h.author, g.round = h.round
             PROVE  g = h
    BY Zenon DEF CertificateUniqueness
<1>1. /\ reached_quorum(Backers(g)) /\ reached_quorum(Backers(h))
      /\ Backers(g) \in SUBSET Authorities /\ Backers(h) \in SUBSET Authorities
    BY FaultAssumption, ZenonT(30) DEF Certified, CertificateInv, Backers, VotersOf
<1>2. PICK a \in Honest : a \in Backers(g) /\ a \in Backers(h)
    BY <1>1, QuorumIntersection, Zenon
<1>3. /\ [voter |-> a, header |-> g] \in votes
      /\ [voter |-> a, header |-> h] \in votes
    BY <1>2, Zenon DEF Backers, VotersOf, Honest
<1>4. CASE a = g.author
    BY <1>3, <1>4, Zenon DEF NoEquivocation
<1>5. CASE a # g.author
    BY <1>3, <1>5, Zenon DEF VoteOncePerRound
<1> QED
    BY <1>4, <1>5, Zenon

-----------------------------------------------------------------------------
(***************************************************************************)
(* An honest proposer does not equivocate when recovery is timely.         *)
(***************************************************************************)

\* The headers of its own that p has signed or may still sign.
Known(p) ==
    {h \in Headers : \/ h.author = p /\ [voter |-> p, header |-> h] \in votes
                     \/ \E i \in 1..Len(rx_headers[p]) : h = rx_headers[p][i]
                     \/ h = latest_header[p]}

\* The stored header is the newest of them, and rounds tell them apart.
KnownInv ==
    \A p \in Proposers : \A g \in Known(p) :
        /\ last_proposed[p] # NoHeader
        /\ g = last_proposed[p] \/ g.round < last_proposed[p].round
        /\ \A h \in Known(p) : g.round = h.round => g = h

\* The stored header is at most one round ahead of the parents: of those in the
\* store, of those being recovered, and of those the proposer has.
RoundsAgree(p) ==
    /\ enough_parents[p] => round[p] <= quorum_round[p]
    /\ last_proposed[p] # NoHeader =>
           /\ last_proposed[p].round <= quorum_round[p] + 1
           /\ recovered[p] = 0 => last_proposed[p].round <= round[p] + 1
           /\ recovered[p] # 0 => last_proposed[p].round <= recovered[p] + 1

RoundInv == \A p \in Proposers : RoundsAgree(p)

ProposalInv == VoterInv /\ Authorship /\ KnownInv /\ RoundInv

\* A primary that has proposed nothing satisfies the proposer's invariant.
LEMMA ProposalInit == Init => ProposalInv
<1>1. Init => VoterInv /\ Authorship
    BY VoterInit, AuthorshipInit
<1>2. Init => KnownInv
    BY NoHeaderAssumption DEF Init, KnownInv, Known
<1>3. Init => RoundInv
    BY DEF Init, RoundInv, RoundsAgree
<1> QED
    BY <1>1, <1>2, <1>3, Zenon DEF ProposalInv

\* KnownInv depends on the known headers and the stored one only.
LEMMA KnownFrame ==
    ASSUME KnownInv, UNCHANGED last_proposed, \A p \in Proposers : Known(p)' \subseteq Known(p)
    PROVE  KnownInv'
BY Zenon DEF KnownInv

\* RoundInv depends on the proposer's rounds and the stored header only.
LEMMA RoundFrame ==
    ASSUME RoundInv, UNCHANGED proposer_vars
    PROVE  RoundInv'
BY Zenon DEF RoundInv, RoundsAgree, proposer_vars

\* The rounds RoundInv compares are numbers.
LEMMA RoundTypes ==
    ASSUME TypeOK, NEW p \in Proposers
    PROVE  /\ round[p] \in Nat /\ quorum_round[p] \in Nat /\ recovered[p] \in Nat
           /\ last_proposed[p] # NoHeader => last_proposed[p].round \in Nat
           /\ last_proposed[p] # NoHeader => last_proposed[p] \in Headers
BY BoundsAssumption DEF TypeOK, Headers

\* ProposeHeader: the header is the stored one, or of a later round than it.
LEMMA ProposeStep ==
    ASSUME TypeOK, TypeOK', Authorship, KnownInv, RoundInv, RecoveryIsTimely,
           NEW p \in HonestProposers, NEW id \in Ids, ProposeHeader(p, id)
    PROVE  KnownInv' /\ RoundInv'
<1> p \in Proposers
    BY HonestIsNotFaulty, Zenon
<1>1. PICK h : h = create_new_header(p, round[p] + 1, id)
    BY Zenon
<1>2. /\ round' = [round EXCEPT ![p] = round[p] + 1]
      /\ enough_parents[p]
      /\ enough_parents' = [enough_parents EXCEPT ![p] = FALSE]
      /\ last_proposed' = [last_proposed EXCEPT ![p] = h]
      /\ latest_header' = [latest_header EXCEPT ![p] = h]
      /\ rx_headers' = [rx_headers EXCEPT ![p] = Append(rx_headers[p], h)]
      /\ UNCHANGED <<recovered, quorum_round, votes>>
    BY <1>1, Zenon DEF ProposeHeader, wire_vars
<1>3. h \in Headers /\ h # NoHeader
    <2>1. last_proposed'[p] = h
        BY <1>2, Zenon DEF TypeOK
    <2>2. h # NoHeader
        BY <1>1, NoHeaderAssumption, RoundTypes DEF create_new_header, Headers, ProposeHeader
    <2> QED
        BY <2>1, <2>2, Zenon DEF TypeOK
<1>4. h.round = round[p] + 1 /\ round[p] \in Nat /\ quorum_round[p] \in Nat /\ recovered[p] \in Nat
    BY <1>1, RoundTypes, Zenon DEF create_new_header
<1>5. \/ h = last_proposed[p]
      \/ last_proposed[p] = NoHeader
      \/ /\ last_proposed[p] # NoHeader
         /\ last_proposed[p].round \in Nat
         /\ last_proposed[p].round < h.round
    <2> SUFFICES ASSUME h # last_proposed[p], last_proposed[p] # NoHeader
                 PROVE  last_proposed[p].round \in Nat /\ last_proposed[p].round < h.round
        BY Zenon
    <2>1. last_proposed[p].round # h.round
        BY <1>1, <1>4, Zenon DEF create_new_header
    <2>2. recovered[p] = 0
        BY <1>2, Zenon DEF RecoveryIsTimely, TypeOK
    <2>3. last_proposed[p].round <= round[p] + 1
        BY <2>2, Zenon DEF RoundInv, RoundsAgree
    <2> QED
        BY <1>4, <2>1, <2>3, RoundTypes
<1>6. Known(p)' \subseteq Known(p) \cup {h}
    <2>1. rx_headers[p] \in Seq(Headers)
        BY Zenon DEF TypeOK
    <2>2. rx_headers'[p] = Append(rx_headers[p], h) /\ latest_header'[p] = h
        BY <1>2 DEF TypeOK
    <2>3. \A i \in 1..Len(rx_headers'[p]) :
              rx_headers'[p][i] = h \/ \E j \in 1..Len(rx_headers[p]) : rx_headers'[p][i] = rx_headers[p][j]
        BY <1>3, <2>1, <2>2
    <2> QED
        BY <1>2, <2>2, <2>3, ZenonT(30) DEF Known
<1>7. \A q \in Proposers : q # p => Known(q)' = Known(q)
    <2>1. \A q \in Proposers : q # p => /\ rx_headers'[q] = rx_headers[q]
                                       /\ latest_header'[q] = latest_header[q]
        BY <1>2 DEF TypeOK
    <2>2. votes' = votes
        BY <1>2, Zenon
    <2> QED
        BY <2>1, <2>2, Zenon DEF Known
<1>8. last_proposed'[p] = h /\ \A q \in Proposers : q # p => last_proposed'[q] = last_proposed[q]
    BY <1>2 DEF TypeOK
<1>9. \A g \in Known(p) : g.round \in Nat
    BY BoundsAssumption DEF Known, Headers
<1>10. \A g \in Known(p) : g = h \/ g.round < h.round
    BY <1>4, <1>5, <1>9 DEF KnownInv
<1>11. KnownInv'
    <2> SUFFICES ASSUME NEW q \in Proposers, NEW g \in Known(q)'
                 PROVE  /\ last_proposed'[q] # NoHeader
                        /\ g = last_proposed'[q] \/ g.round < last_proposed'[q].round
                        /\ \A k \in Known(q)' : g.round = k.round => g = k
        BY Zenon DEF KnownInv
    <2>1. CASE q # p
        BY <1>7, <1>8, <2>1 DEF KnownInv
    <2>2. CASE q = p
        <3>1. last_proposed'[p] # NoHeader /\ (g = h \/ g.round < h.round)
            BY <1>3, <1>6, <1>8, <1>10, <2>2, Zenon
        <3>2. ASSUME NEW k \in Known(p)', g.round = k.round
              PROVE  g = k
            BY <1>4, <1>6, <1>9, <1>10, <2>2, <3>2 DEF KnownInv
        <3> QED
            BY <1>8, <2>2, <3>1, <3>2, Zenon
    <2> QED
        BY <2>1, <2>2, Zenon
<1>12. RoundInv'
    <2>1. h.round <= quorum_round[p] + 1
        <3>1. enough_parents[p]
            BY <1>2, Zenon
        <3>2. round[p] <= quorum_round[p]
            BY <3>1, Zenon DEF RoundInv, RoundsAgree
        <3> QED
            BY <1>4, <3>2
    <2>2. recovered[p] # 0 => h.round <= recovered[p] + 1
        <3>1. recovered[p] # 0 => h = last_proposed[p]
            BY <1>8, Zenon DEF RecoveryIsTimely
        <3> QED
            BY <1>3, <3>1, Zenon DEF RoundInv, RoundsAgree
    <2>3. ASSUME NEW q \in Proposers, q # p
          PROVE  /\ round'[q] = round[q] /\ enough_parents'[q] = enough_parents[q]
                 /\ quorum_round'[q] = quorum_round[q] /\ recovered'[q] = recovered[q]
        BY <1>2, <2>3, Zenon DEF TypeOK
    <2>4. /\ round'[p] = round[p] + 1 /\ enough_parents'[p] = FALSE
          /\ quorum_round'[p] = quorum_round[p] /\ recovered'[p] = recovered[p]
        BY <1>2, Zenon DEF TypeOK
    <2>5. RoundsAgree(p)'
        BY <1>4, <1>8, <2>1, <2>2, <2>4 DEF RoundsAgree
    <2>6. ASSUME NEW q \in Proposers, q # p
          PROVE  RoundsAgree(q)'
        BY <1>8, <2>3, <2>6, Zenon DEF RoundInv, RoundsAgree
    <2> QED
        BY <2>5, <2>6, Zenon DEF RoundInv
<1> QED
    BY <1>11, <1>12, Zenon

\* Certificates accepted and parents received move rounds forward only.
LEMMA ParentsStep ==
    ASSUME TypeOK, TypeOK', KnownInv, RoundInv, NEW p \in HonestProposers,
           \/ AcceptQuorum(p)
           \/ \E r \in 1..quorum_round[p] : ReceiveParents(p, r)
           \/ \E r \in 1..(MaxRound - 1) : SkipToRound(p, r)
    PROVE  KnownInv' /\ RoundInv'
<1> p \in Proposers
    BY HonestIsNotFaulty, Zenon
<1>1. KnownInv'
    <2>1. UNCHANGED <<last_proposed, latest_header, rx_headers, votes>>
        BY Zenon DEF AcceptQuorum, ReceiveParents, SkipToRound, wire_vars
    <2>2. \A q \in Proposers : Known(q)' = Known(q)
        BY <2>1, Zenon DEF Known
    <2> QED
        BY <2>1, <2>2, KnownFrame, Zenon
<1>2. CASE AcceptQuorum(p)
    <2>1. /\ UNCHANGED <<round, enough_parents, recovered, last_proposed>>
          /\ \A q \in Proposers : quorum_round'[q] = quorum_round[q] \/ quorum_round'[q] = quorum_round[q] + 1
        BY <1>2, Zenon DEF AcceptQuorum, TypeOK
    <2>2. ASSUME NEW q \in Proposers
          PROVE  RoundsAgree(q)'
        <3>1. RoundsAgree(q)
            BY Zenon DEF RoundInv
        <3>2. /\ round[q] \in Nat /\ quorum_round[q] \in Nat /\ recovered[q] \in Nat
              /\ last_proposed[q] # NoHeader => last_proposed[q].round \in Nat
            BY RoundTypes, Zenon
        <3> QED
            BY <2>1, <3>1, <3>2 DEF RoundsAgree
    <2> QED
        BY <1>1, <2>2, Zenon DEF RoundInv
<1>3. ASSUME NEW r \in 1..quorum_round[p], ReceiveParents(p, r)
      PROVE  RoundInv'
    <2>1. /\ UNCHANGED <<quorum_round, last_proposed>>
          /\ round'[p] = r /\ recovered'[p] = 0 /\ r >= round[p] /\ r >= recovered[p]
          /\ \A q \in Proposers : q # p =>
                 /\ round'[q] = round[q] /\ recovered'[q] = recovered[q]
                 /\ enough_parents'[q] = enough_parents[q]
        BY <1>3, ZenonT(30) DEF ReceiveParents, TypeOK
    <2>2. r \in Nat /\ r <= quorum_round[p]
        <3>1. quorum_round[p] \in Nat
            BY RoundTypes, Zenon
        <3> QED
            BY <3>1
    <2>3. RoundsAgree(p) /\ \A q \in Proposers : RoundsAgree(q)
        BY Zenon DEF RoundInv
    <2>4. RoundsAgree(p)'
        <3>1. /\ round[p] \in Nat /\ quorum_round[p] \in Nat /\ recovered[p] \in Nat
              /\ last_proposed[p] # NoHeader => last_proposed[p].round \in Nat
            BY RoundTypes, Zenon
        <3>2. /\ last_proposed' = last_proposed /\ quorum_round' = quorum_round
              /\ round'[p] = r /\ recovered'[p] = 0 /\ r >= round[p] /\ r >= recovered[p]
            BY <2>1, Zenon
        <3>3. round'[p] <= quorum_round'[p]
            BY <2>2, <3>2, Zenon
        <3>4. ASSUME last_proposed[p] # NoHeader
              PROVE  /\ last_proposed[p].round <= quorum_round[p] + 1
                     /\ last_proposed[p].round <= r + 1
            <4>1. /\ last_proposed[p].round <= quorum_round[p] + 1
                  /\ \/ last_proposed[p].round <= round[p] + 1
                     \/ last_proposed[p].round <= recovered[p] + 1
                BY <2>3, <3>4, Zenon DEF RoundsAgree
            <4>2. last_proposed[p].round \in Nat
                BY <3>1, <3>4, Zenon
            <4> QED
                BY <2>2, <3>1, <3>2, <4>1, <4>2
        <3> QED
            BY <3>2, <3>3, <3>4, Zenon DEF RoundsAgree
    <2>5. \A q \in Proposers : q # p => RoundsAgree(q)'
        BY <2>1, <2>3, Zenon DEF RoundsAgree
    <2> QED
        BY <2>4, <2>5, Zenon DEF RoundInv
<1>4. ASSUME NEW r \in 1..(MaxRound - 1), SkipToRound(p, r)
      PROVE  RoundInv'
    <2>1. /\ UNCHANGED <<quorum_round, last_proposed>>
          /\ round'[p] = r /\ r > round[p] /\ ~enough_parents'[p]
          /\ recovered'[p] = IF r > recovered[p] THEN 0 ELSE recovered[p]
          /\ \A q \in Proposers : q # p =>
                 /\ round'[q] = round[q] /\ recovered'[q] = recovered[q]
                 /\ enough_parents'[q] = enough_parents[q]
        BY <1>4, ZenonT(30) DEF SkipToRound, TypeOK
    <2>2. r \in Nat \ {0}
        BY BoundsAssumption
    <2>3. RoundsAgree(p) /\ \A q \in Proposers : RoundsAgree(q)
        BY Zenon DEF RoundInv
    <2>4. RoundsAgree(p)'
        <3>1. /\ round[p] \in Nat /\ quorum_round[p] \in Nat /\ recovered[p] \in Nat
              /\ last_proposed[p] # NoHeader => last_proposed[p].round \in Nat
            BY RoundTypes, Zenon
        <3>2. /\ last_proposed' = last_proposed /\ quorum_round' = quorum_round
              /\ round'[p] = r /\ r > round[p] /\ ~enough_parents'[p]
              /\ recovered'[p] = IF r > recovered[p] THEN 0 ELSE recovered[p]
            BY <2>1, Zenon
        <3>3. ASSUME last_proposed[p] # NoHeader
              PROVE  /\ last_proposed[p].round <= quorum_round[p] + 1
                     /\ recovered'[p] = 0 => last_proposed[p].round <= r + 1
                     /\ recovered'[p] # 0 => last_proposed[p].round <= recovered'[p] + 1
            <4>1. /\ last_proposed[p].round <= quorum_round[p] + 1
                  /\ recovered[p] = 0 => last_proposed[p].round <= round[p] + 1
                  /\ recovered[p] # 0 => last_proposed[p].round <= recovered[p] + 1
                BY <2>3, <3>3, Zenon DEF RoundsAgree
            <4>2. last_proposed[p].round \in Nat
                BY <3>1, <3>3, Zenon
            <4>3. CASE recovered[p] = 0
                BY <2>2, <3>1, <3>2, <4>1, <4>2, <4>3
            <4>4. CASE recovered[p] # 0
                BY <2>2, <3>1, <3>2, <4>1, <4>2, <4>4
            <4> QED
                BY <4>3, <4>4, Zenon
        <3> QED
            BY <3>2, <3>3, Zenon DEF RoundsAgree
    <2>5. \A q \in Proposers : q # p => RoundsAgree(q)'
        BY <2>1, <2>3, Zenon DEF RoundsAgree
    <2> QED
        BY <2>4, <2>5, Zenon DEF RoundInv
<1> QED
    BY <1>1, <1>2, <1>3, <1>4, Zenon

\* A restart forgets headers, never learns one.
LEMMA RestartStep ==
    ASSUME TypeOK, KnownInv, RoundInv, NEW p \in HonestProposers, Restart(p)
    PROVE  KnownInv' /\ RoundInv'
<1> p \in Proposers
    BY HonestIsNotFaulty, Zenon
<1>1. /\ UNCHANGED <<last_proposed, quorum_round, votes>>
      /\ rx_headers'[p] = <<>> /\ latest_header'[p] = NoHeader
      /\ round'[p] = 0 /\ recovered'[p] = quorum_round[p]
      /\ \A q \in Proposers : q # p =>
             /\ rx_headers'[q] = rx_headers[q] /\ latest_header'[q] = latest_header[q]
             /\ round'[q] = round[q] /\ recovered'[q] = recovered[q]
             /\ enough_parents'[q] = enough_parents[q]
    BY Zenon DEF Restart, TypeOK
<1>2. \A q \in Proposers : Known(q)' \subseteq Known(q)
    BY <1>1, NoHeaderAssumption DEF Known
<1>3. KnownInv'
    BY <1>1, <1>2, KnownFrame, Zenon
<1>4. RoundInv'
    <2>1. RoundsAgree(p) /\ \A q \in Proposers : RoundsAgree(q)
        BY Zenon DEF RoundInv
    <2>2. RoundsAgree(p)'
        <3>1. /\ round[p] \in Nat /\ quorum_round[p] \in Nat /\ recovered[p] \in Nat
              /\ last_proposed[p] # NoHeader => last_proposed[p].round \in Nat
            BY RoundTypes, Zenon
        <3> QED
            BY <1>1, <2>1, <3>1 DEF RoundsAgree
    <2>3. \A q \in Proposers : q # p => RoundsAgree(q)'
        BY <1>1, <2>1, Zenon DEF RoundsAgree
    <2> QED
        BY <2>2, <2>3, Zenon DEF RoundInv
<1> QED
    BY <1>3, <1>4, Zenon

\* The repeat timer and the certifier handle headers the proposer knows.
LEMMA RepeatStep ==
    ASSUME TypeOK, KnownInv, RoundInv, NEW p \in HonestProposers,
           ResendHeader(p) \/ SpawnProposal(p)
    PROVE  KnownInv' /\ RoundInv'
<1> p \in Proposers
    BY HonestIsNotFaulty, Zenon
<1>1. UNCHANGED proposer_vars
    BY Zenon DEF ResendHeader, SpawnProposal
<1>2. rx_headers[p] \in Seq(Headers)
    BY Zenon DEF TypeOK
<1>3. Known(p)' \subseteq Known(p)
    <2>1. CASE ResendHeader(p)
        <3>1. /\ rx_headers'[p] = Append(rx_headers[p], latest_header[p])
              /\ latest_header[p] \in Headers
              /\ UNCHANGED <<votes, latest_header>>
            BY <2>1, Zenon DEF ResendHeader, TypeOK, proposer_vars, wire_vars
        <3>2. \A i \in 1..Len(rx_headers'[p]) :
                  \/ rx_headers'[p][i] = latest_header[p]
                  \/ \E j \in 1..Len(rx_headers[p]) : rx_headers'[p][i] = rx_headers[p][j]
            BY <1>2, <3>1
        <3> QED
            BY <3>1, <3>2, Zenon DEF Known
    <2>2. CASE SpawnProposal(p)
        <3>1. /\ rx_headers'[p] = Tail(rx_headers[p]) /\ rx_headers[p] # <<>>
              /\ votes' = votes \cup {[voter |-> p, header |-> Head(rx_headers[p])]}
              /\ UNCHANGED latest_header
            BY <2>2, Zenon DEF SpawnProposal, TypeOK, proposer_vars
        <3>2. \A i \in 1..Len(rx_headers'[p]) :
                  \E j \in 1..Len(rx_headers[p]) : rx_headers'[p][i] = rx_headers[p][j]
            BY <1>2, <3>1
        <3>3. \E j \in 1..Len(rx_headers[p]) : Head(rx_headers[p]) = rx_headers[p][j]
            BY <1>2, <3>1
        <3>4. \A h : [voter |-> p, header |-> h] \in votes' =>
                        [voter |-> p, header |-> h] \in votes \/ h = Head(rx_headers[p])
            BY <3>1, Zenon
        <3> QED
            BY <3>1, <3>2, <3>3, <3>4, Zenon DEF Known
    <2> QED
        BY <2>1, <2>2, Zenon
<1>4. ASSUME NEW q \in Proposers, q # p
      PROVE  Known(q)' \subseteq Known(q)
    <2>1. rx_headers'[q] = rx_headers[q] /\ latest_header'[q] = latest_header[q]
        BY <1>4, Zenon DEF ResendHeader, SpawnProposal, TypeOK, proposer_vars
    <2>2. \A h : [voter |-> q, header |-> h] \in votes' => [voter |-> q, header |-> h] \in votes
        BY <1>4, Zenon DEF ResendHeader, SpawnProposal, wire_vars
    <2> QED
        BY <2>1, <2>2, Zenon DEF Known
<1> QED
    BY <1>1, <1>3, <1>4, KnownFrame, RoundFrame, Zenon DEF proposer_vars

\* Nothing else signs a primary's own headers.
LEMMA OthersStep ==
    ASSUME VoterInv, KnownInv, RoundInv,
           UNCHANGED proposer_vars, UNCHANGED rx_headers,
           \A x \in votes' \ votes : x.voter # x.header.author
    PROVE  KnownInv' /\ RoundInv'
<1>1. ASSUME NEW p \in Proposers
      PROVE  Known(p)' \subseteq Known(p)
    BY DEF Known, proposer_vars
<1> QED
    BY <1>1, KnownFrame, RoundFrame, Zenon DEF proposer_vars

\* Only a proposal writes the stored header, so TimelyNext is Next restricted.
LEMMA TimelyStep ==
    ASSUME [TimelyNext]_vars
    PROVE  [Next /\ RecoveryIsTimely]_vars
<1>1. [Next]_vars
    BY Zenon DEF TimelyNext, TimelyProposerStep, Next, ProposerStep
<1>2. ASSUME NEW p \in HonestProposers, TimelyProposerStep(p)
      PROVE  RecoveryIsTimely
    <2>1. CASE WaitingStep(p)
        BY <2>1, Zenon DEF WaitingStep, AcceptQuorum, ReceiveParents, SkipToRound, ResendHeader,
                    proposer_vars, RecoveryIsTimely
    <2> QED
        BY <1>2, <2>1, Zenon DEF TimelyProposerStep
<1>3. ASSUME NEW p \in HonestProposers, CertifierStep(p)
      PROVE  RecoveryIsTimely
    BY <1>3, Zenon DEF CertifierStep, SpawnProposal, ReceiveVote, FailAggregation, FailVote, EndProposal,
                AcceptOwnCertificate, proposer_vars, RecoveryIsTimely
<1>4. VoterStep => RecoveryIsTimely
    BY Zenon DEF VoterStep, RequestVote, EndRequest, CheckVote, ReturnVote, proposer_vars,
           RecoveryIsTimely
<1>5. Faults => RecoveryIsTimely
    BY Zenon DEF Faults, FaultyCertificate, Restart, RestartVoter, LoseReply, proposer_vars,
           RecoveryIsTimely
<1> QED
    BY <1>1, <1>2, <1>3, <1>4, <1>5, Zenon DEF TimelyNext

\* Every step keeps the proposer's invariant when recovery is timely.
LEMMA ProposalStep ==
    ASSUME ProposalInv, [Next /\ RecoveryIsTimely]_vars
    PROVE  ProposalInv'
<1> TypeOK /\ VoterInv /\ Authorship /\ KnownInv /\ RoundInv
    BY Zenon DEF ProposalInv, VoterInv
<1> [Next]_vars
    BY Zenon
<1>1. TypeOK' /\ VoterInv' /\ Authorship'
    BY TypeStep, VoterInvStep, AuthorshipStep, Zenon
<1> SUFFICES KnownInv' /\ RoundInv'
    BY <1>1, Zenon DEF ProposalInv
<1>2. ASSUME NEW p \in HonestProposers, ProposerStep(p), RecoveryIsTimely
      PROVE  KnownInv' /\ RoundInv'
    BY <1>1, <1>2, ProposeStep, ParentsStep, RepeatStep, Zenon DEF ProposerStep, WaitingStep
<1>3. ASSUME NEW p \in HonestProposers, CertifierStep(p)
      PROVE  KnownInv' /\ RoundInv'
    <2>1. CASE SpawnProposal(p)
        BY <2>1, RepeatStep, Zenon
    <2>2. CASE ~SpawnProposal(p)
        BY <1>3, <2>2, OthersStep, Zenon
        DEF CertifierStep, ReceiveVote, FailAggregation, FailVote, EndProposal, AcceptOwnCertificate,
            wire_vars
    <2> QED
        BY <2>1, <2>2, Zenon
<1>4. ASSUME VoterStep
      PROVE  KnownInv' /\ RoundInv'
    <2>1. UNCHANGED <<proposer_vars, rx_headers>>
        BY <1>4, Zenon DEF VoterStep, RequestVote, EndRequest, CheckVote, ReturnVote
    <2>2. \A t \in vote_tasks : t.voter # t.header.author
        BY Zenon DEF VoterInv, SeenIsStored
    <2>3. \A x \in votes' \ votes : x.voter # x.header.author
        <3>1. ASSUME NEW t \in vote_tasks, ReturnVote(t)
              PROVE  votes' \ votes \subseteq {[voter |-> t.voter, header |-> t.header]}
            BY <3>1, Zenon DEF ReturnVote
        <3>2. (\E t \in vote_tasks : ReturnVote(t)) \/ votes' = votes
            BY <1>4, Zenon DEF VoterStep, RequestVote, EndRequest, CheckVote, wire_vars
        <3> QED
            BY <2>2, <3>1, <3>2
    <2> QED
        BY <2>1, <2>3, OthersStep, Zenon
<1>5. ASSUME Faults
      PROVE  KnownInv' /\ RoundInv'
    <2>1. CASE \E p \in HonestProposers : Restart(p)
        BY <2>1, RestartStep, Zenon
    <2>2. CASE ~ \E p \in HonestProposers : Restart(p)
        BY <1>5, <2>2, OthersStep, Zenon DEF Faults, FaultyCertificate, RestartVoter, LoseReply, wire_vars
    <2> QED
        BY <2>1, <2>2, Zenon
<1>6. CASE UNCHANGED vars
    BY <1>6, OthersStep, Zenon DEF vars, wire_vars
<1> QED
    BY <1>2, <1>3, <1>4, <1>5, <1>6, Zenon DEF Next

\* The headers a primary signed are known, so they differ in round.
LEMMA KnownImpliesNoEquivocation ==
    ASSUME ProposalInv
    PROVE  NoEquivocation
<1> SUFFICES ASSUME NEW x \in votes, NEW y \in votes,
                    x.voter = y.voter, x.voter = x.header.author, y.voter = y.header.author,
                    x.header.round = y.header.round
             PROVE  x.header = y.header
    BY Zenon DEF NoEquivocation
<1>1. /\ x = [voter |-> x.voter, header |-> x.header] /\ x.header \in Headers
      /\ y = [voter |-> y.voter, header |-> y.header] /\ y.header \in Headers
      /\ x.header.author \in Proposers
    BY Zenon DEF ProposalInv, VoterInv, TypeOK, Votes, Headers
<1>2. x.header \in Known(x.voter) /\ y.header \in Known(x.voter)
    BY <1>1, Zenon DEF Known
<1> QED
    BY <1>1, <1>2, Zenon DEF ProposalInv, KnownInv

\* create_new_header: when the recovered parents reach the proposer before it
\* proposes again, it signs one header per round through any restarts.
THEOREM HonestDoNotEquivocate == TimelySpec => []NoEquivocation
<1>1. Init => ProposalInv
    BY ProposalInit, Zenon
<1>2. ProposalInv /\ [TimelyNext]_vars => ProposalInv'
    BY ProposalStep, TimelyStep, Zenon
<1>3. ProposalInv => NoEquivocation
    BY KnownImpliesNoEquivocation, Zenon
<1> QED
    BY <1>1, <1>2, <1>3, PTL DEF TimelySpec

\* Certificates of one author and round do not differ: a quorum of voters that
\* vote once, and an author that is faulty or proposes once.
THEOREM CertificatesAreUnique == TimelySpec => []CertificateUniqueness
<1>1. Init => ProposalInv /\ CertificateInv
    BY ProposalInit, CertificateInit
<1>2. (ProposalInv /\ CertificateInv) /\ [TimelyNext]_vars
          => (ProposalInv /\ CertificateInv)'
    <2>1. [TimelyNext]_vars => [Next]_vars
        BY TimelyStep, Zenon
    <2>2. ProposalInv /\ [TimelyNext]_vars => ProposalInv'
        BY ProposalStep, TimelyStep
    <2>3. ProposalInv => TypeOK
        BY Zenon DEF ProposalInv, VoterInv
    <2> QED
        BY <2>1, <2>2, <2>3, CertificateStep, Zenon
<1>3. ProposalInv /\ CertificateInv => CertificateUniqueness
    BY KnownImpliesNoEquivocation, UniqueUnlessEquivocating, Zenon DEF ProposalInv, VoterInv
<1> QED
    BY <1>1, <1>2, <1>3, PTL DEF TimelySpec
-----------------------------------------------------------------------------
(***************************************************************************)
(* Invalid votes are dropped without stalling a proposal.                  *)
(***************************************************************************)

\* Any honest vote but the proposer's own could be a faulty authority's and the
\* votes would still be a quorum.  Equal stakes are the simplest case.
FaultyCountsAsHonest ==
    \A p \in HonestProposers, f \in Faulty : \A v \in Honest \ {p} :
        reached_quorum((Honest \ {v}) \cup {f})

\* A task keeps the honest votes it was given, invalid ones only until they
\* would be a quorum, and still waits for an honest vote.
Waiting(p, t) ==
    /\ p \in t.used
    /\ t.used \cap Honest \subseteq t.votes
    /\ t.invalid \subseteq t.votes
    /\ t.invalid # {} => ~reached_quorum(t.votes)
    /\ ~(Honest \subseteq t.used)

WaitingInv ==
    /\ TypeOK
    /\ \A p \in Proposers : p \in Faulty => tasks[p] = {}
    /\ \A p \in HonestProposers : \A t \in tasks[p] : Waiting(p, t)

\* A quorum with more votes is a quorum.
LEMMA QuorumGrows ==
    ASSUME NEW S, NEW T, S \subseteq T, T \subseteq Authorities, reached_quorum(S)
    PROVE  reached_quorum(T)
<1>1. StakeOf[S] \in Nat /\ StakeOf[T] \in Nat /\ StakeOf[S] <= StakeOf[T]
    BY StakeMonotone, Zenon
<1>2. StakeOf[S] >= quorum_threshold /\ quorum_threshold \in Nat
    BY ThresholdArithmetic, Zenon DEF reached_quorum
<1>3. StakeOf[T] >= quorum_threshold
    BY <1>1, <1>2
<1> QED
    BY <1>3, Zenon DEF reached_quorum

\* When all stakes are the same, any vote counts as much as any other.
LEMMA EqualStakesCountTheSame ==
    ASSUME \A a, b \in Authorities : StakeOf[{a}] = StakeOf[{b}]
    PROVE  FaultyCountsAsHonest
<1> SUFFICES ASSUME NEW p \in HonestProposers, NEW f \in Faulty, NEW v \in Honest \ {p}
             PROVE  reached_quorum((Honest \ {v}) \cup {f})
    BY Zenon DEF FaultyCountsAsHonest
<1> DEFINE R == Honest \ {v}
<1>1. /\ R \in SUBSET Authorities /\ {v} \in SUBSET Authorities /\ {f} \in SUBSET Authorities
      /\ v \in Authorities /\ f \in Authorities
      /\ R \cup {v} = Honest /\ R \cap {v} = {} /\ R \cap {f} = {}
      /\ Honest \in SUBSET Authorities
    BY HonestIsNotFaulty, Zenon DEF Honest
<1> HIDE DEF R
<1>2. StakeOf[R] \in Nat /\ StakeOf[R \cup {v}] = StakeOf[R] + StakeOf[{v}]
    BY <1>1, StakeAdds, Zenon
<1>3. StakeOf[R \cup {f}] = StakeOf[R] + StakeOf[{f}]
    BY <1>1, StakeAdds, Zenon
<1>4. StakeOf[{v}] = StakeOf[{f}]
    BY <1>1, Zenon
<1>5. StakeOf[R \cup {f}] = StakeOf[Honest]
    BY <1>1, <1>2, <1>3, <1>4, Zenon
<1>6. reached_quorum(R \cup {f})
    BY <1>5, HonestQuorum, Zenon DEF reached_quorum
<1> QED
    BY <1>6, Zenon DEF R

\* VotesAggregator::append: the vote that does not complete a certificate leaves
\* an honest vote to wait for.  If it were the last honest one, an invalid vote
\* would have been kept beside all others, and they would have been a quorum.
LEMMA AppendWaits ==
    ASSUME FaultyCountsAsHonest, NEW p \in HonestProposers, NEW t \in Tasks, Waiting(p, t),
           NEW v \in Authorities, NEW verifies \in BOOLEAN, v \notin t.used,
           v \in Faulty \/ verifies, ~forms_certificate(t, v, verifies)
    PROVE  Waiting(p, append(t, v, verifies))
<1> DEFINE a == append(t, v, verifies)
           all == t.votes \cup {v}
           bad == IF verifies THEN t.invalid ELSE t.invalid \cup {v}
<1>1. /\ a.used = t.used \cup {v}
      /\ a.votes = IF reached_quorum(all) THEN all \ bad ELSE all
      /\ a.invalid = IF reached_quorum(all) THEN {} ELSE bad
    BY Zenon DEF append, Tasks
<1>2. /\ t.votes \subseteq Authorities /\ t.invalid \subseteq Faulty
      /\ bad \subseteq Faulty /\ bad \subseteq all
    BY Zenon DEF Tasks, Waiting
<1> HIDE DEF a
<1>3. p \in a.used /\ a.invalid \subseteq a.votes /\ (a.invalid # {} => ~reached_quorum(a.votes))
    BY <1>1, <1>2, Zenon DEF Waiting
<1>4. a.used \cap Honest \subseteq a.votes
    <2>1. t.used \cap Honest \subseteq t.votes /\ bad \cap Honest = {}
        BY <1>2, Zenon DEF Waiting, Honest
    <2> QED
        BY <1>1, <2>1, Zenon
<1>5. ASSUME Honest \subseteq a.used
      PROVE  FALSE
    <2>1. v \in Honest /\ verifies /\ v # p /\ Honest \ {v} \subseteq t.votes
        BY <1>1, <1>5, Zenon DEF Waiting, Honest
    <2>2. reached_quorum(all)
        <3>1. Honest \subseteq all /\ all \subseteq Authorities
            BY <1>2, <2>1, Zenon
        <3> HIDE DEF all
        <3> QED
            BY <3>1, HonestQuorum, QuorumGrows, Zenon
    <2>3. PICK f \in t.invalid : TRUE
        BY <2>1, <2>2, Zenon DEF forms_certificate
    <2>4. f \in Faulty /\ (Honest \ {v}) \cup {f} \subseteq t.votes
        BY <1>2, <2>1, Zenon DEF Waiting
    <2>5. reached_quorum((Honest \ {v}) \cup {f})
        BY <2>1, <2>4, Zenon DEF FaultyCountsAsHonest
    <2>6. reached_quorum(t.votes)
        BY <1>2, <2>4, <2>5, QuorumGrows, Zenon
    <2> QED
        BY <2>3, <2>6, Zenon DEF Waiting
<1> QED
    BY <1>3, <1>4, <1>5, Zenon DEF Waiting, a

\* A task that starts with its own vote waits, unless that vote is enough.
LEMMA SpawnWaits ==
    ASSUME NEW p \in HonestProposers, NEW t \in Tasks,
           t.votes = {}, t.used = {}, t.invalid = {}, ~forms_certificate(t, p, TRUE)
    PROVE  Waiting(p, append(t, p, TRUE))
<1> DEFINE a == append(t, p, TRUE)
<1>1. ~reached_quorum({p})
    BY Zenon DEF forms_certificate
<1>2. a.used = {p} /\ a.votes = {p} /\ a.invalid = {}
    <2>1. t.votes \cup {p} = {p} /\ t.used \cup {p} = {p}
        BY Zenon
    <2> QED
        BY <1>1, <2>1, Zenon DEF append, Tasks
<1>3. ~(Honest \subseteq {p})
    <2>1. {p} \subseteq Authorities
        BY HonestIsNotFaulty, Zenon
    <2> QED
        BY <1>1, <2>1, HonestQuorum, QuorumGrows, Zenon
<1> QED
    BY <1>2, <1>3, Zenon DEF Waiting

\* Cancelling a task, or noting a request that failed, does not touch its votes.
LEMMA SameVotesWait ==
    ASSUME NEW p, NEW t \in Tasks, Waiting(p, t), NEW u,
           u.votes = t.votes, u.used = t.used, u.invalid = t.invalid
    PROVE  Waiting(p, u)
BY Zenon DEF Waiting

\* propose_header: whatever vote is counted, what is left of the tasks waits.
LEMMA TallyWaits ==
    ASSUME WaitingInv, NEW p \in HonestProposers, NEW others, NEW t,
           NEW v \in Authorities, NEW verifies \in BOOLEAN,
           \A u \in others : Waiting(p, u),
           ~forms_certificate(t, v, verifies) => Waiting(p, append(t, v, verifies)),
           Tally(p, others, t, v, verifies)
    PROVE  /\ \A q \in Proposers : q \in Faulty => tasks'[q] = {}
           /\ \A q \in HonestProposers : \A u \in tasks'[q] : Waiting(q, u)
<1>1. p \in Proposers /\ p \notin Faulty /\ tasks \in [Proposers -> SUBSET Tasks]
    BY HonestIsNotFaulty, Zenon DEF WaitingInv, TypeOK
<1>2. PICK mine : /\ tasks' = [tasks EXCEPT ![p] = mine]
                  /\ \A u \in mine : Waiting(p, u)
    <2>1. CASE forms_certificate(t, v, verifies)
        BY <2>1, Zenon DEF Tally
    <2>2. CASE ~forms_certificate(t, v, verifies)
        <3> DEFINE a == append(t, v, verifies)
        <3>1. tasks' = [tasks EXCEPT ![p] = others \cup {a}] /\ Waiting(p, a)
            BY <2>2, Zenon DEF Tally
        <3> HIDE DEF a
        <3>2. \A u \in others \cup {a} : Waiting(p, u)
            BY <3>1, Zenon
        <3> QED
            BY <3>1, <3>2, Zenon
    <2> QED
        BY <2>1, <2>2, Zenon
<1> QED
    BY <1>1, <1>2, Zenon DEF WaitingInv

\* Steps that start no task and take no vote.
LEMMA WaitingFrame ==
    ASSUME WaitingInv, TypeOK', \A p \in Proposers : tasks'[p] \subseteq tasks[p]
    PROVE  WaitingInv'
<1>1. \A p \in HonestProposers : p \in Proposers
    BY HonestIsNotFaulty, Zenon
<1>2. \A p \in Proposers : p \in Faulty => tasks'[p] = {}
    BY Zenon DEF WaitingInv
<1>3. \A p \in HonestProposers : \A t \in tasks'[p] : Waiting(p, t)
    BY <1>1, Zenon DEF WaitingInv
<1> QED
    BY <1>2, <1>3, Zenon DEF WaitingInv, Waiting

\* The certifier's steps.
LEMMA WaitingCertifierStep ==
    ASSUME FaultyCountsAsHonest, WaitingInv, TypeOK', NEW p \in HonestProposers, CertifierStep(p)
    PROVE  WaitingInv'
<1> p \in Proposers /\ p \in Authorities /\ TypeOK
    BY HonestIsNotFaulty, Zenon DEF WaitingInv
<1>1. \A t \in tasks[p] : t \in Tasks /\ Waiting(p, t)
    BY Zenon DEF WaitingInv, TypeOK
<1> DEFINE Good == /\ \A q \in Proposers : q \in Faulty => tasks'[q] = {}
                   /\ \A q \in HonestProposers : \A u \in tasks'[q] : Waiting(q, u)
<1>2. Good => WaitingInv'
    BY Zenon DEF WaitingInv, Waiting
<1>3. ASSUME SpawnProposal(p)
      PROVE  Good
    <2>1. PICK h \in Headers : h = Head(rx_headers[p])
        BY <1>3 DEF SpawnProposal, TypeOK
    <2>2. PICK others : others = {[t EXCEPT !.cancelled = TRUE] : t \in tasks[p]}
        BY Zenon
    <2>3. PICK task \in Tasks : task = [header |-> h, votes |-> {}, used |-> {}, invalid |-> {},
                                        failed |-> {}, cancelled |-> FALSE]
        BY Zenon DEF Tasks
    <2>4. Tally(p, others, task, p, TRUE)
        BY <1>3, <2>1, <2>2, <2>3, Zenon DEF SpawnProposal
    <2>5. ASSUME NEW u \in others
          PROVE  Waiting(p, u)
        <3>1. PICK t \in tasks[p] : u = [t EXCEPT !.cancelled = TRUE]
            BY <2>2, Zenon
        <3>2. u.votes = t.votes /\ u.used = t.used /\ u.invalid = t.invalid
            BY <1>1, <3>1, Zenon DEF Tasks
        <3> QED
            BY <1>1, <3>2, SameVotesWait, Zenon
    <2>6. ~forms_certificate(task, p, TRUE) => Waiting(p, append(task, p, TRUE))
        <3>1. task.votes = {} /\ task.used = {} /\ task.invalid = {}
            BY <2>3, Zenon
        <3> QED
            BY <3>1, SpawnWaits, Zenon
    <2> QED
        BY <2>4, <2>5, <2>6, TallyWaits, Zenon
<1>4. ASSUME NEW t \in tasks[p], NEW v \in Authorities, NEW verifies \in BOOLEAN,
             ReceiveVote(p, t, v, verifies)
      PROVE  Good
    <2>1. PICK others : others = tasks[p] \ {t}
        BY Zenon
    <2>2. /\ Tally(p, others, t, v, verifies)
          /\ v \notin t.used /\ (v \in Faulty \/ verifies)
        BY <1>4, <2>1, Zenon DEF ReceiveVote, request_vote
    <2>3. ~forms_certificate(t, v, verifies) => Waiting(p, append(t, v, verifies))
        BY <1>1, <2>2, AppendWaits, Zenon
    <2>4. \A u \in others : Waiting(p, u)
        BY <1>1, <2>1, Zenon
    <2> QED
        BY <2>2, <2>3, <2>4, TallyWaits, ZenonT(40)
<1>5. ASSUME NEW t \in tasks[p], NEW v \in Authorities, FailVote(p, t, v)
      PROVE  Good
    <2>1. PICK u : /\ u = [t EXCEPT !.failed = @ \cup {v}]
                   /\ tasks' = [tasks EXCEPT ![p] = (tasks[p] \ {t}) \cup {u}]
        BY <1>5, Zenon DEF FailVote
    <2>2. u.votes = t.votes /\ u.used = t.used /\ u.invalid = t.invalid
        BY <1>1, <2>1, Zenon DEF Tasks
    <2>3. Waiting(p, u)
        BY <1>1, <2>2, SameVotesWait, Zenon
    <2>4. \A w \in (tasks[p] \ {t}) \cup {u} : Waiting(p, w)
        BY <1>1, <2>3, Zenon
    <2> QED
        BY <2>1, <2>4, HonestIsNotFaulty, ZenonT(30) DEF WaitingInv, TypeOK
<1>6. ASSUME NEW t \in tasks[p], EndProposal(p, t)
      PROVE  WaitingInv'
    <2>1. \A q \in Proposers : tasks'[q] \subseteq tasks[q]
        BY <1>6, Zenon DEF EndProposal, TypeOK
    <2> QED
        BY <2>1, WaitingFrame, Zenon
<1>7. ASSUME NEW header \in assembled[p], AcceptOwnCertificate(p, header)
      PROVE  WaitingInv'
    BY <1>7, WaitingFrame, Zenon DEF AcceptOwnCertificate
<1>8. ASSUME NEW t \in tasks[p], NEW v \in Authorities, NEW verifies \in BOOLEAN,
             FailAggregation(p, t, v, verifies)
      PROVE  WaitingInv'
    <2>1. \A q \in Proposers : tasks'[q] \subseteq tasks[q]
        BY <1>8, Zenon DEF FailAggregation, TypeOK
    <2> QED
        BY <2>1, WaitingFrame, Zenon
<1> HIDE DEF Good
<1> QED
    BY <1>2, <1>3, <1>4, <1>5, <1>6, <1>7, <1>8, Zenon DEF CertifierStep

\* Every step leaves every proposal an honest vote to wait for.
LEMMA WaitingInvStep ==
    ASSUME FaultyCountsAsHonest, WaitingInv, [Next]_vars
    PROVE  WaitingInv'
<1>1. TypeOK /\ TypeOK'
    BY TypeStep, Zenon DEF WaitingInv
<1>2. ASSUME NEW p \in HonestProposers, ProposerStep(p)
      PROVE  tasks' = tasks
    BY <1>2, Zenon DEF ProposerStep, WaitingStep, AcceptQuorum, ReceiveParents, SkipToRound,
       ProposeHeader, ResendHeader, certifier_vars
<1>3. VoterStep => tasks' = tasks
    BY Zenon DEF VoterStep, RequestVote, EndRequest, CheckVote, ReturnVote, certifier_vars
<1>4. ASSUME Faults
      PROVE  \A q \in Proposers : tasks'[q] \subseteq tasks[q]
    <2>1. ASSUME NEW p \in HonestProposers, Restart(p)
          PROVE  \A q \in Proposers : tasks'[q] \subseteq tasks[q]
        BY <1>1, <2>1, Zenon DEF Restart, TypeOK
    <2> QED
        BY <1>4, <2>1, Zenon DEF Faults, FaultyCertificate, RestartVoter, LoseReply, certifier_vars
<1>5. UNCHANGED vars => tasks' = tasks
    BY Zenon DEF vars, certifier_vars
<1>6. tasks' = tasks => WaitingInv'
    BY <1>1, WaitingFrame, Zenon
<1> QED
    BY <1>1, <1>2, <1>3, <1>4, <1>5, <1>6, WaitingFrame, WaitingCertifierStep, Zenon DEF Next

\* VotesAggregator::append, whatever invalid votes it drops and in whatever order
\* votes come: if a faulty authority's stake can stand in for any honest one's,
\* the last honest vote completes the certificate of a proposal.
THEOREM HonestVotesComplete == FaultyCountsAsHonest => (Spec => []HonestVotesSuffice)
<1> SUFFICES ASSUME FaultyCountsAsHonest
             PROVE  Spec => []HonestVotesSuffice
    BY Zenon
<1>1. Init => WaitingInv
    BY TypeInit, HonestIsNotFaulty, Zenon DEF Init, WaitingInv
<1>2. WaitingInv /\ [Next]_vars => WaitingInv'
    BY WaitingInvStep, Zenon
<1>3. WaitingInv => HonestVotesSuffice
    BY Zenon DEF WaitingInv, Waiting, HonestVotesSuffice
<1> QED
    BY <1>1, <1>2, <1>3, PTL DEF Spec

\* The same for any committee of equal stakes.
THEOREM HonestVotesCompleteEqualStakes ==
    (\A a, b \in Authorities : StakeOf[{a}] = StakeOf[{b}]) => (Spec => []HonestVotesSuffice)
BY EqualStakesCountTheSame, HonestVotesComplete, Zenon
=============================================================================
