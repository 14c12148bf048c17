---------------------- MODULE ConsensusOutputTheorems ----------------------
(***************************************************************************)
(* Proofs about ConsensusOutput, for any number of commits and crashes and *)
(* any capacity of the channels.                                           *)
(*                                                                         *)
(* The argument: what is on its way, read from the handler back to         *)
(* consensus, is a gapless stretch of indices that ends with what was sent *)
(* last.  It begins with the sub-dag after the handler's last one or,      *)
(* after a crash, with that one itself, which the handler recognises by    *)
(* its round.                                                              *)
(***************************************************************************)
EXTENDS ConsensusOutput, SequenceTheorems, TLAPS

\* The sub-dags that have left consensus and the subscriber, those in a
\* channel or with the subscriber not counted.
Taken == sent - Len(rx_sequence) - Len(waiting) - Len(rx_notify)

\* What is on its way is consecutive.
Consecutive ==
    /\ Taken \in Nat
    /\ \A k \in 1..Len(rx_notify) : rx_notify[k] = Taken + k
    /\ \A k \in 1..Len(waiting) : waiting[k].sub_dag = Taken + Len(rx_notify) + k
    /\ \A k \in 1..Len(rx_sequence) :
           rx_sequence[k] = Taken + Len(rx_notify) + Len(waiting) + k

RoundOf(index) == IF index = 0 THEN 0 ELSE LeaderRound[index]

\* The stats of a handler that applied the sub-dags up to an index.
StatsAt(index) ==
    [sub_dag_index |-> index,
     last_committed_round |-> RoundOf(index),
     hash |-> [i \in 1..index |-> i]]

\* The handler's memory is at the disk's index or one sub-dag ahead, and what
\* comes next is the one after it or, after a crash, it again.
Handled ==
    LET memory == stats.sub_dag_index
        disk == last_consensus_stats.sub_dag_index
    IN  /\ stats = StatsAt(memory)
        /\ last_consensus_stats = StatsAt(disk)
        /\ memory = disk \/ memory = disk + 1
        /\ memory = Taken \/ memory = Taken + 1
        /\ memory <= sent

IInv == TypeOK /\ Consecutive /\ Handled
-----------------------------------------------------------------------------
(***************************************************************************)
(* The sequence of the first n sub-dags.                                   *)
(***************************************************************************)

Counting(n) == [i \in 1..n |-> i]

LEMMA CountingIsSeq ==
    ASSUME NEW n \in 0..MaxCommits
    PROVE  Counting(n) \in Seq(SubDags) /\ Len(Counting(n)) = n
BY OutputAssumption DEF Counting, SubDags

LEMMA CountingAppend ==
    ASSUME NEW n \in 0..MaxCommits, n + 1 \in SubDags
    PROVE  Append(Counting(n), n + 1) = Counting(n + 1)
<1>1. n + 1 \in 0..MaxCommits
  BY OutputAssumption DEF SubDags
<1>2. /\ Counting(n) \in Seq(SubDags) /\ Len(Counting(n)) = n
      /\ Counting(n + 1) \in Seq(SubDags) /\ Len(Counting(n + 1)) = n + 1
  BY <1>1, CountingIsSeq
<1>3. /\ Append(Counting(n), n + 1) \in Seq(SubDags)
      /\ Len(Append(Counting(n), n + 1)) = n + 1
      /\ \A i \in 1..n : Append(Counting(n), n + 1)[i] = Counting(n)[i]
      /\ Append(Counting(n), n + 1)[n + 1] = n + 1
  BY <1>2, AppendProperties
<1>4. \A i \in 1..(n + 1) : Append(Counting(n), n + 1)[i] = Counting(n + 1)[i]
  BY <1>1, <1>3, OutputAssumption DEF Counting
<1> QED
  BY <1>2, <1>3, <1>4, SeqEqual

LEMMA StatsAtType ==
    ASSUME NEW n \in 0..MaxCommits
    PROVE  StatsAt(n) \in Stats
<1>1. RoundOf(n) \in Nat
  BY OutputAssumption DEF RoundOf
<1> QED
  BY <1>1, CountingIsSeq DEF StatsAt, Stats, Counting

\* The handler applies the sub-dag after the last one.
LEMMA StatsAtNext ==
    ASSUME NEW n \in 0..MaxCommits, n + 1 \in SubDags
    PROVE  [sub_dag_index |-> n + 1, last_committed_round |-> LeaderRound[n + 1],
            hash |-> Append(StatsAt(n).hash, n + 1)] = StatsAt(n + 1)
<1>1. Append(StatsAt(n).hash, n + 1) = StatsAt(n + 1).hash
  BY CountingAppend DEF StatsAt, Counting
<1>2. RoundOf(n + 1) = LeaderRound[n + 1]
  BY OutputAssumption DEF RoundOf
<1> QED
  BY <1>1, <1>2 DEF StatsAt

-----------------------------------------------------------------------------
(***************************************************************************)
(* The invariant is inductive.                                             *)
(***************************************************************************)

LEMMA InitIInv == Init => IInv
<1> SUFFICES ASSUME Init PROVE IInv
  OBVIOUS
<1>1. NoStats = StatsAt(0)
  BY DEF NoStats, StatsAt, RoundOf
<1>2. StatsAt(0) \in Stats
  BY StatsAtType, OutputAssumption
<1>3. TypeOK
  BY <1>1, <1>2, EmptySeq, OutputAssumption DEF Init, TypeOK
<1>4. Taken = 0 /\ Consecutive
  <2>1. Len(rx_sequence) = 0 /\ Len(waiting) = 0 /\ Len(rx_notify) = 0 /\ sent = 0
    BY EmptySeq DEF Init
  <2>2. Taken = 0
    BY <2>1 DEF Taken
  <2> QED
    BY <2>1, <2>2 DEF Consecutive
<1>5. Handled
  BY <1>1, <1>4 DEF Init, Handled, StatsAt
<1> QED
  BY <1>3, <1>4, <1>5 DEF IInv

\* What IInv says of the lengths.
LEMMA Lengths ==
    ASSUME TypeOK
    PROVE  /\ Len(rx_sequence) \in Nat /\ Len(waiting) \in Nat /\ Len(rx_notify) \in Nat
           /\ DOMAIN rx_sequence = 1..Len(rx_sequence)
           /\ DOMAIN waiting = 1..Len(waiting)
           /\ DOMAIN rx_notify = 1..Len(rx_notify)
           /\ stored \in Nat /\ sent \in Nat /\ sent <= stored /\ stored <= MaxCommits
           /\ stats.sub_dag_index \in Nat /\ last_consensus_stats.sub_dag_index \in Nat
BY LenProperties, OutputAssumption DEF TypeOK, Stats

LEMMA ProcessCertificateIInv ==
    ASSUME IInv, NEW n \in 1..MaxLeaders, process_certificate(n)
    PROVE  IInv'
<1> USE DEF IInv
<1>1. stored' \in 0..MaxCommits /\ sent \in 0..stored'
  BY Lengths, OutputAssumption DEF process_certificate
<1>2. TypeOK'
  BY <1>1 DEF process_certificate, TypeOK
<1>3. Consecutive'
  BY DEF process_certificate, Consecutive, Taken
<1>4. Handled'
  BY DEF process_certificate, Handled, Taken
<1> QED
  BY <1>2, <1>3, <1>4

LEMMA SendSequenceIInv ==
    ASSUME IInv, send_sequence
    PROVE  IInv'
<1> USE DEF IInv
<1>1. sent + 1 \in SubDags /\ sent + 1 \in 0..stored
  BY Lengths, OutputAssumption DEF send_sequence, SubDags
<1>2. /\ rx_sequence' \in Seq(SubDags)
      /\ Len(rx_sequence') = Len(rx_sequence) + 1
      /\ \A k \in 1..Len(rx_sequence) : rx_sequence'[k] = rx_sequence[k]
      /\ rx_sequence'[Len(rx_sequence) + 1] = sent + 1
  BY <1>1, AppendProperties DEF send_sequence, TypeOK
<1>3. TypeOK'
  BY <1>1, <1>2 DEF send_sequence, TypeOK
<1>4. Taken' = Taken
  BY <1>2, Lengths DEF send_sequence, Taken
<1>5. Consecutive'
  <2>1. Taken + Len(rx_notify) + Len(waiting) + Len(rx_sequence) + 1 = sent + 1
    BY Lengths DEF Taken
  <2>2. ASSUME NEW k \in 1..Len(rx_sequence')
        PROVE  rx_sequence'[k] = Taken + Len(rx_notify) + Len(waiting) + k
    BY <1>2, <2>1, Lengths DEF Consecutive
  <2> QED
    BY <1>4, <2>2 DEF send_sequence, Consecutive
<1>6. Handled'
  BY <1>4, Lengths DEF send_sequence, Handled
<1> QED
  BY <1>3, <1>5, <1>6

LEMMA ReceiveSequenceIInv ==
    ASSUME IInv, receive_sequence
    PROVE  IInv'
<1> USE DEF IInv
<1>1. /\ rx_sequence' \in Seq(SubDags)
      /\ Len(rx_sequence') = Len(rx_sequence) - 1
      /\ \A k \in 1..Len(rx_sequence') : rx_sequence'[k] = rx_sequence[k + 1]
      /\ Len(rx_sequence) \in Nat \ {0}
      /\ Head(rx_sequence) \in SubDags /\ Head(rx_sequence) = rx_sequence[1]
  BY HeadTailProperties, EmptySeq DEF receive_sequence, TypeOK
<1>2. Future(Head(rx_sequence)) \in Payloads
  BY <1>1 DEF Future, Payloads
<1>3. /\ waiting' \in Seq(Payloads)
      /\ Len(waiting') = Len(waiting) + 1
      /\ \A k \in 1..Len(waiting) : waiting'[k] = waiting[k]
      /\ waiting'[Len(waiting) + 1] = Future(Head(rx_sequence))
  BY <1>2, AppendProperties DEF receive_sequence, TypeOK
<1>4. TypeOK'
  BY <1>1, <1>3 DEF receive_sequence, TypeOK
<1>5. Taken' = Taken
  <2>1. sent' = sent /\ rx_notify' = rx_notify
    BY DEF receive_sequence
  <2> QED
    BY <1>1, <1>3, <2>1, Lengths DEF Taken
<1>6. Consecutive'
  <2>1. Taken \in Nat
    BY DEF Consecutive
  <2>2. Head(rx_sequence) = Taken + Len(rx_notify) + Len(waiting) + 1
    BY <1>1, Lengths DEF Consecutive
  <2>3. ASSUME NEW k \in 1..Len(waiting')
        PROVE  waiting'[k].sub_dag = Taken + Len(rx_notify) + k
    <3>1. CASE k \in 1..Len(waiting)
      BY <1>3, <3>1 DEF Consecutive
    <3>2. CASE k = Len(waiting) + 1
      <4>1. waiting'[k].sub_dag = Head(rx_sequence)
        BY <1>3, <3>2 DEF Future
      <4> QED
        BY <2>1, <2>2, <3>2, <4>1, Lengths
    <3> QED
      BY <1>3, <3>1, <3>2, Lengths
  <2>4. ASSUME NEW k \in 1..Len(rx_sequence')
        PROVE  rx_sequence'[k] = Taken + Len(rx_notify) + Len(waiting') + k
    BY <1>1, <1>3, <2>1, Lengths DEF Consecutive
  <2> QED
    BY <1>5, <2>3, <2>4 DEF receive_sequence, Consecutive
<1>7. Handled'
  BY <1>5 DEF receive_sequence, Handled
<1> QED
  BY <1>4, <1>6, <1>7

LEMMA FetchIInv ==
    ASSUME IInv, Fetch
    PROVE  IInv'
<1> USE DEF IInv
<1>1. PICK i \in DOMAIN waiting : fetch_batches(i)
  BY DEF Fetch
<1>2. i \in 1..Len(waiting)
  BY Lengths
<1>3. waiting' = [waiting EXCEPT ![i] = [waiting[i] EXCEPT !.fetched = TRUE]]
  BY <1>1 DEF fetch_batches
<1>4. waiting[i] \in Payloads /\ [waiting[i] EXCEPT !.fetched = TRUE] \in Payloads
  <2>1. waiting[i] \in Payloads
    BY <1>2, ElementOfSeq DEF TypeOK
  <2> QED
    BY <2>1, Zenon DEF Payloads
<1>5. /\ waiting' \in Seq(Payloads)
      /\ Len(waiting') = Len(waiting)
      /\ \A k \in 1..Len(waiting) :
             waiting'[k] = IF k = i THEN [waiting[i] EXCEPT !.fetched = TRUE] ELSE waiting[k]
  BY <1>2, <1>3, <1>4, ExceptSeq DEF TypeOK
<1>6. \A k \in 1..Len(waiting') : waiting'[k].sub_dag = waiting[k].sub_dag
  BY <1>4, <1>5 DEF Payloads
<1>7. TypeOK'
  BY <1>1, <1>5 DEF fetch_batches, TypeOK
<1>8. Taken' = Taken
  BY <1>1, <1>5 DEF fetch_batches, Taken
<1>9. Consecutive'
  BY <1>1, <1>5, <1>6, <1>8 DEF fetch_batches, Consecutive
<1>10. Handled'
  BY <1>1, <1>8 DEF fetch_batches, Handled
<1> QED
  BY <1>7, <1>9, <1>10

LEMMA SendOutputIInv ==
    ASSUME IInv, send_output
    PROVE  IInv'
<1> USE DEF IInv
<1>1. /\ waiting' \in Seq(Payloads)
      /\ Len(waiting') = Len(waiting) - 1
      /\ \A k \in 1..Len(waiting') : waiting'[k] = waiting[k + 1]
      /\ Len(waiting) \in Nat \ {0}
      /\ Head(waiting) \in Payloads /\ Head(waiting) = waiting[1]
  BY HeadTailProperties, EmptySeq DEF send_output, TypeOK
<1>2. Head(waiting).sub_dag \in SubDags
  BY <1>1 DEF Payloads
<1>3. /\ rx_notify' \in Seq(SubDags)
      /\ Len(rx_notify') = Len(rx_notify) + 1
      /\ \A k \in 1..Len(rx_notify) : rx_notify'[k] = rx_notify[k]
      /\ rx_notify'[Len(rx_notify) + 1] = Head(waiting).sub_dag
  BY <1>2, AppendProperties DEF send_output, TypeOK
<1>4. TypeOK'
  BY <1>1, <1>3 DEF send_output, TypeOK
<1>5. Taken' = Taken
  <2>1. sent' = sent /\ rx_sequence' = rx_sequence
    BY DEF send_output
  <2> QED
    BY <1>1, <1>3, <2>1, Lengths DEF Taken
<1>6. Consecutive'
  <2>1. Taken \in Nat
    BY DEF Consecutive
  <2>2. Head(waiting).sub_dag = Taken + Len(rx_notify) + 1
    BY <1>1, Lengths DEF Consecutive
  <2>3. ASSUME NEW k \in 1..Len(rx_notify')
        PROVE  rx_notify'[k] = Taken + k
    <3>1. CASE k \in 1..Len(rx_notify)
      BY <1>3, <3>1 DEF Consecutive
    <3>2. CASE k = Len(rx_notify) + 1
      BY <1>3, <2>1, <2>2, <3>2, Lengths
    <3> QED
      BY <1>3, <3>1, <3>2, Lengths
  <2>4. ASSUME NEW k \in 1..Len(waiting')
        PROVE  waiting'[k].sub_dag = Taken + Len(rx_notify') + k
    <3>1. k + 1 \in 1..Len(waiting) /\ k \in Nat
      BY <1>1
    <3>2. waiting'[k].sub_dag = Taken + Len(rx_notify) + (k + 1)
      BY <1>1, <3>1 DEF Consecutive
    <3> QED
      BY <1>3, <2>1, <3>1, <3>2, Lengths
  <2>5. ASSUME NEW k \in 1..Len(rx_sequence)
        PROVE  rx_sequence[k] = Taken + Len(rx_notify') + Len(waiting') + k
    <3>1. rx_sequence[k] = Taken + Len(rx_notify) + Len(waiting) + k
      BY DEF Consecutive
    <3>2. Len(rx_notify) \in Nat /\ Len(waiting) \in Nat /\ k \in Int
      BY Lengths
    <3> QED
      BY <1>1, <1>3, <2>1, <3>1, <3>2
  <2>6. rx_sequence' = rx_sequence
    BY DEF send_output
  <2> QED
    BY <1>5, <2>1, <2>3, <2>4, <2>5, <2>6 DEF Consecutive
<1>7. Handled'
  BY <1>5 DEF send_output, Handled
<1> QED
  BY <1>4, <1>6, <1>7

\* What the handler takes next: the sub-dag it applied last, again, or the one
\* after it.
LEMMA NextForHandler ==
    ASSUME IInv, rx_notify # <<>>
    PROVE  LET next == Head(rx_notify)
               last == stats.sub_dag_index
           IN  /\ next = Taken + 1 /\ next \in SubDags /\ next <= sent
               /\ \/ next = last /\ LeaderRound[next] = stats.last_committed_round
                  \/ next = last + 1 /\ LeaderRound[next] > stats.last_committed_round
<1> USE DEF IInv
<1> DEFINE next == Head(rx_notify)
           last == stats.sub_dag_index
<1>1. Len(rx_notify) \in Nat \ {0} /\ next \in SubDags /\ next = rx_notify[1]
  BY HeadTailProperties, EmptySeq DEF TypeOK
<1>2. next = Taken + 1 /\ Taken \in Nat
  BY <1>1 DEF Consecutive
<1>3. next <= sent
  BY <1>1, <1>2, Lengths DEF Taken
<1>4. next = last \/ next = last + 1
  BY <1>2, Lengths DEF Handled
<1>5. stats.last_committed_round = RoundOf(last)
  BY DEF Handled, StatsAt
<1>6. CASE next = last
  BY <1>1, <1>2, <1>3, <1>5, <1>6, OutputAssumption DEF RoundOf, SubDags
<1>7. CASE next = last + 1
  <2>1. LeaderRound[next] > RoundOf(last)
    BY <1>1, <1>7, Lengths, OutputAssumption DEF RoundOf, SubDags
  <2> QED
    BY <1>1, <1>2, <1>3, <1>5, <1>7, <2>1
<1> QED
  BY <1>4, <1>6, <1>7

LEMMA HandleIInv ==
    ASSUME IInv, handle_consensus_output
    PROVE  IInv'
<1> USE DEF IInv
<1> DEFINE next == Head(rx_notify)
           last == stats.sub_dag_index
<1>1. /\ rx_notify' \in Seq(SubDags)
      /\ Len(rx_notify') = Len(rx_notify) - 1
      /\ \A k \in 1..Len(rx_notify') : rx_notify'[k] = rx_notify[k + 1]
      /\ Len(rx_notify) \in Nat \ {0}
  BY HeadTailProperties, EmptySeq DEF handle_consensus_output, TypeOK
<1>2. /\ next = Taken + 1 /\ next \in SubDags /\ next <= sent
      /\ \/ next = last /\ LeaderRound[next] = stats.last_committed_round
         \/ next = last + 1 /\ LeaderRound[next] > stats.last_committed_round
  BY NextForHandler DEF handle_consensus_output
<1>3. Taken \in Nat /\ last \in 0..MaxCommits
  BY DEF Consecutive, TypeOK, Stats
<1>4. stats' = StatsAt(next)
  <2>1. stats = StatsAt(last)
    BY DEF Handled
  <2>2. CASE next = last /\ LeaderRound[next] = stats.last_committed_round
    BY <2>1, <2>2 DEF handle_consensus_output, already_committed
  <2>3. CASE next = last + 1 /\ LeaderRound[next] > stats.last_committed_round
    <3>1. ~ already_committed(next)
      <4>1. LeaderRound[next] \in Nat /\ stats.last_committed_round \in Nat
        BY <1>2, OutputAssumption DEF SubDags, TypeOK, Stats
      <4> QED
        BY <2>3, <4>1 DEF already_committed
    <3>2. stats' = update_index_and_hash(next)
      BY <3>1 DEF handle_consensus_output
    <3>3. update_index_and_hash(next) = StatsAt(last + 1)
      BY <1>2, <1>3, <2>1, <2>3, StatsAtNext, Zenon DEF update_index_and_hash
    <3> QED
      BY <2>3, <3>2, <3>3
  <2> QED
    BY <1>2, <2>2, <2>3
<1>5. stats' \in Stats
  BY <1>2, <1>4, StatsAtType, OutputAssumption DEF SubDags
<1>6. TypeOK'
  BY <1>1, <1>5 DEF handle_consensus_output, TypeOK
<1>7. Taken' = Taken + 1
  <2>1. sent' = sent /\ rx_sequence' = rx_sequence /\ waiting' = waiting
    BY DEF handle_consensus_output
  <2> QED
    BY <1>1, <2>1, Lengths DEF Taken
<1>8. Consecutive'
  <2>1. ASSUME NEW k \in 1..Len(rx_notify')
        PROVE  rx_notify'[k] = (Taken + 1) + k
    BY <1>1, <1>3 DEF Consecutive
  <2>2. ASSUME NEW k \in 1..Len(waiting)
        PROVE  waiting[k].sub_dag = (Taken + 1) + Len(rx_notify') + k
    BY <1>1, <1>3, Lengths DEF Consecutive
  <2>3. ASSUME NEW k \in 1..Len(rx_sequence)
        PROVE  rx_sequence[k] = (Taken + 1) + Len(rx_notify') + Len(waiting) + k
    BY <1>1, <1>3, Lengths DEF Consecutive
  <2>4. rx_sequence' = rx_sequence /\ waiting' = waiting
    BY DEF handle_consensus_output
  <2> QED
    BY <1>3, <1>7, <2>1, <2>2, <2>3, <2>4 DEF Consecutive
<1>9. Handled'
  <2>1. stats'.sub_dag_index = next
    BY <1>4 DEF StatsAt
  <2>2. /\ last = last_consensus_stats.sub_dag_index
        /\ last_consensus_stats' = last_consensus_stats /\ sent' = sent
    BY DEF handle_consensus_output
  <2> QED
    BY <1>2, <1>3, <1>4, <1>7, <2>1, <2>2 DEF Handled
<1> QED
  BY <1>6, <1>8, <1>9

LEMMA WriteIInv ==
    ASSUME IInv, process_consensus_transactions_and_commit_boundary
    PROVE  IInv'
<1> USE DEF IInv, process_consensus_transactions_and_commit_boundary
<1>1. TypeOK'
  BY DEF TypeOK
<1>2. Consecutive'
  BY DEF Consecutive, Taken
<1>3. Handled'
  BY DEF Handled, Taken
<1> QED
  BY <1>1, <1>2, <1>3

LEMMA RestartIInv ==
    ASSUME IInv, Restart
    PROVE  IInv'
<1> USE DEF IInv
<1> DEFINE disk == last_consensus_stats.sub_dag_index
           first == IF disk = 0 THEN 1 ELSE disk
           count == stored + 1 - first
<1>1. disk \in Nat /\ disk <= stored /\ first \in Nat \ {0} /\ stored \in Nat
  BY Lengths DEF Handled
<1>2. count \in Nat /\ first - 1 \in Nat
  BY <1>1
<1>3. waiting' = [k \in 1..count |-> Future(k + first - 1)]
  BY DEF Restart, read_committed_sub_dags_from
<1>4. \A k \in 1..count : Future(k + first - 1) \in Payloads
  <2> TAKE k \in 1..count
  <2>1. k + first - 1 \in SubDags
    <3>1. stored <= MaxCommits /\ MaxCommits \in Nat
      BY Lengths, OutputAssumption
    <3> QED
      BY <1>1, <1>2, <3>1 DEF SubDags
  <2> QED
    BY <2>1 DEF Future, Payloads
<1>5. waiting' \in Seq(Payloads) /\ Len(waiting') = count
  BY <1>2, <1>3, <1>4
<1>6. TypeOK'
  BY <1>1, <1>5, EmptySeq, OutputAssumption DEF Restart, TypeOK
<1>7. Len(rx_sequence') = 0 /\ Len(rx_notify') = 0 /\ sent' = stored
  BY EmptySeq DEF Restart
<1>8. Taken' = first - 1
  BY <1>1, <1>2, <1>5, <1>7 DEF Taken
<1>9. Consecutive'
  <2>1. ASSUME NEW k \in 1..count
        PROVE  waiting'[k].sub_dag = (first - 1) + 0 + k
    <3>1. waiting'[k].sub_dag = k + first - 1
      BY <1>3 DEF Future
    <3> QED
      BY <1>1, <3>1
  <2>2. \A k \in 1..Len(waiting') : waiting'[k].sub_dag = Taken' + Len(rx_notify') + k
    BY <1>5, <1>7, <1>8, <2>1
  <2>3. Taken' \in Nat /\ 1..Len(rx_notify') = {} /\ 1..Len(rx_sequence') = {}
    BY <1>2, <1>7, <1>8
  <2> QED
    BY <2>2, <2>3, Zenon DEF Consecutive
<1>10. Handled'
  <2>1. stats' = last_consensus_stats /\ last_consensus_stats' = last_consensus_stats
    BY DEF Restart
  <2>2. disk = first - 1 \/ disk = (first - 1) + 1
    BY <1>1
  <2> QED
    BY <1>1, <1>7, <1>8, <2>1, <2>2 DEF Handled
<1> QED
  BY <1>6, <1>9, <1>10

LEMMA NextIInv == IInv /\ [Next]_vars => IInv'
<1> SUFFICES ASSUME IInv, [Next]_vars PROVE IInv'
  OBVIOUS
<1>1. ASSUME NEW n \in 1..MaxLeaders, process_certificate(n) PROVE IInv'
  BY <1>1, ProcessCertificateIInv
<1>2. CASE UNCHANGED vars
  BY <1>2 DEF vars, IInv, TypeOK, Consecutive, Handled, Taken
<1> QED
  BY <1>1, <1>2, SendSequenceIInv, ReceiveSequenceIInv, FetchIInv, SendOutputIInv, HandleIInv,
     WriteIInv, RestartIInv DEF Next

\* In every reachable state what is on its way is consecutive and continues
\* what the handler has applied.
THEOREM Inductive == Spec => []IInv
<1>1. Init => IInv
  BY InitIInv
<1>2. IInv /\ [Next]_vars => IInv'
  BY NextIInv
<1> QED
  BY <1>1, <1>2, PTL DEF Spec

-----------------------------------------------------------------------------
(***************************************************************************)
(* What follows from it.                                                   *)
(***************************************************************************)

\* Every variable keeps its type; consensus sends nothing it has not
\* persisted.
THEOREM Types == Spec => []TypeOK
<1>1. IInv => TypeOK
  BY DEF IInv
<1> QED
  BY <1>1, Inductive, PTL

\* The handler has applied, in memory and on disk, every sub-dag up to its last
\* one, once and in the order of consensus, however often it was handed one
\* again and however their batches arrived.
THEOREM InOrder == Spec => []AppliedInOrder
<1>1. IInv => AppliedInOrder
  <2> SUFFICES ASSUME IInv PROVE AppliedInOrder
    OBVIOUS
  <2>1. stats.hash = [i \in 1..stats.sub_dag_index |-> i]
    BY DEF IInv, Handled, StatsAt
  <2>2. last_consensus_stats.hash = [i \in 1..last_consensus_stats.sub_dag_index |-> i]
    BY DEF IInv, Handled, StatsAt
  <2> QED
    BY <2>1, <2>2, Zenon DEF AppliedInOrder
<1> QED
  BY <1>1, Inductive, PTL

\* The assertion of handle_consensus_output_internal on rounds cannot fail.
THEOREM NoPanic == Spec => []HandlerNeverPanics
<1>1. IInv => HandlerNeverPanics
  <2> SUFFICES ASSUME IInv, rx_notify # <<>> PROVE not_before(Head(rx_notify))
    BY DEF HandlerNeverPanics
  <2>1. /\ Head(rx_notify) \in SubDags
        /\ \/ LeaderRound[Head(rx_notify)] = stats.last_committed_round
           \/ LeaderRound[Head(rx_notify)] > stats.last_committed_round
    BY NextForHandler
  <2>2. LeaderRound[Head(rx_notify)] \in Nat /\ stats.last_committed_round \in Nat
    BY <2>1, OutputAssumption DEF IInv, TypeOK, Stats, SubDags
  <2> QED
    BY <2>1, <2>2 DEF not_before
<1> QED
  BY <1>1, Inductive, PTL

\* No persisted sub-dag is lost between consensus and the handler.
THEOREM NothingLost == Spec => []NoneLost
<1>1. IInv => NoneLost
  <2> SUFFICES ASSUME IInv, NEW i \in (stats.sub_dag_index + 1)..stored, ~ (i > sent)
               PROVE  \/ \E k \in DOMAIN rx_sequence : rx_sequence[k] = i
                      \/ \E k \in DOMAIN waiting : waiting[k].sub_dag = i
                      \/ \E k \in DOMAIN rx_notify : rx_notify[k] = i
    BY DEF NoneLost
  <2> USE DEF IInv
  <2> DEFINE n == Len(rx_notify)
             w == Len(waiting)
             q == Len(rx_sequence)
  <2>1. n \in Nat /\ w \in Nat /\ q \in Nat /\ sent \in Nat /\ Taken \in Nat /\ i \in Int
    BY Lengths DEF Consecutive
  <2>2. Taken < i /\ i <= sent /\ sent = Taken + n + w + q
    BY <2>1, Lengths DEF Handled, Taken
  <2>3. CASE i <= Taken + n
    <3>1. i - Taken \in 1..n /\ rx_notify[i - Taken] = Taken + (i - Taken)
      BY <2>1, <2>2, <2>3 DEF Consecutive
    <3> QED
      BY <2>1, <3>1, Lengths
  <2>4. CASE i > Taken + n /\ i <= Taken + n + w
    <3>1. /\ i - Taken - n \in 1..w
          /\ waiting[i - Taken - n].sub_dag = Taken + n + (i - Taken - n)
      BY <2>1, <2>2, <2>4, SMTT(30) DEF Consecutive
    <3> QED
      BY <2>1, <3>1, Lengths
  <2>5. CASE i > Taken + n + w
    <3>1. /\ i - Taken - n - w \in 1..q
          /\ rx_sequence[i - Taken - n - w] = Taken + n + w + (i - Taken - n - w)
      BY <2>1, <2>2, <2>5 DEF Consecutive
    <3> QED
      BY <2>1, <3>1, Lengths
  <2> QED
    BY <2>1, <2>2, <2>3, <2>4, <2>5
<1> QED
  BY <1>1, Inductive, PTL

-----------------------------------------------------------------------------
(***************************************************************************)
(* The path implements Delivery: commits are those persisted, and a commit *)
(* is applied when the handler's batch is written.                         *)
(***************************************************************************)

LEMMA WriteApplies ==
    ASSUME IInv, process_consensus_transactions_and_commit_boundary
    PROVE  D!Apply
<1> USE DEF IInv, process_consensus_transactions_and_commit_boundary
<1> DEFINE disk == last_consensus_stats.sub_dag_index
<1>1. /\ stats = StatsAt(disk + 1) /\ last_consensus_stats = StatsAt(disk)
      /\ disk \in Nat /\ disk + 1 <= stored /\ stored <= MaxCommits /\ stored \in Nat
  BY Lengths DEF Handled
<1>2. disk \in 0..MaxCommits /\ disk + 1 \in SubDags
  BY <1>1, OutputAssumption DEF SubDags
<1>3. last_consensus_stats.hash = Counting(disk) /\ stats.hash = Counting(disk + 1)
  BY <1>1 DEF StatsAt, Counting
<1>4. Len(last_consensus_stats.hash) = disk
  BY <1>2, <1>3, CountingIsSeq
<1>5. stats.hash = Append(last_consensus_stats.hash, disk + 1)
  BY <1>2, <1>3, CountingAppend
<1> QED
  BY <1>1, <1>4, <1>5 DEF D!Apply

LEMMA StepRefines == IInv /\ [Next]_vars => [D!Next]_(D!vars)
<1> SUFFICES ASSUME IInv, [Next]_vars PROVE [D!Next]_(D!vars)
  OBVIOUS
<1>1. ASSUME NEW n \in 1..MaxLeaders, process_certificate(n) PROVE D!Commit
  BY <1>1, Lengths, OutputAssumption DEF IInv, process_certificate, D!Commit
<1>2. ASSUME process_consensus_transactions_and_commit_boundary PROVE D!Apply
  BY <1>2, WriteApplies
<1>3. ASSUME \/ send_sequence \/ receive_sequence \/ Fetch \/ send_output
             \/ handle_consensus_output \/ Restart \/ UNCHANGED vars
      PROVE  UNCHANGED D!vars
  BY <1>3 DEF send_sequence, receive_sequence, Fetch, fetch_batches, send_output,
              handle_consensus_output, Restart, vars, D!vars
<1> QED
  BY <1>1, <1>2, <1>3 DEF Next, D!Next

\* The handler's record on disk behaves as Delivery says: commits are applied
\* once each, in order, whatever crashes and whatever was in the channels.
THEOREM Delivers == Spec => DeliversInOrder
<1>1. Init => D!Init
  BY DEF Init, D!Init, NoStats
<1>2. IInv /\ [Next]_vars => [D!Next]_(D!vars)
  BY StepRefines
<1> QED
  BY <1>1, <1>2, Inductive, PTL DEF Spec, DeliversInOrder, D!Spec

=============================================================================
