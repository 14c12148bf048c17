------------------------- MODULE BullsharkTheorems --------------------------
(***************************************************************************)
(* Every step of Bullshark keeps the invariant, and what follows from it:  *)
(* primaries agree, commit nothing twice or before its history, lose       *)
(* nothing in a restart, and implement CommitOrder.                        *)
(***************************************************************************)
EXTENDS BullsharkInvariant, FiniteSetTheorems

\* The facts of a commit that its parts need.
LEMMA EffectFacts ==
    ASSUME TypeOK, NEW p \in Primaries, History(p), NEW n, NEW top, NEW C, NEW t,
           CommitEffect(p, n, top, C, t)
    PROVE  /\ network' = network /\ WellFormed(network)
           /\ certificate_store' = certificate_store /\ new_certificates' = new_certificates
           /\ leader_round' = leader_round
           /\ OneMore(p, n, leaders_to_commit[p], top, t) /\ n \in Nat /\ n = last_sub_dag[p].index
           /\ top \in DOMAIN network /\ Round(top) \in Nat /\ Round(top) >= committed_round[p] + 2
           /\ last_committed'[p] = update(last_committed[p], t[n + 1].certificates)
           /\ committed_round'[p] = Round(top)
           /\ dag'[p] = {c \in dag[p] : Round(c) > gc_round(Round(top))}
           /\ last_sub_dag'[p] = t[n + 1]
           /\ stored_last_committed'[p] = last_committed'[p]
           /\ sub_dags'[p] = t
           /\ swap_table'[p] = update_leader_schedule(swap_table[p], t[n + 1])
           /\ leaders_to_commit'[p] = C
<1>1. /\ WellFormed(network)
      /\ DOMAIN last_committed = Primaries /\ DOMAIN committed_round = Primaries
      /\ DOMAIN dag = Primaries /\ DOMAIN last_sub_dag = Primaries
      /\ DOMAIN stored_last_committed = Primaries /\ DOMAIN sub_dags = Primaries
      /\ DOMAIN swap_table = Primaries /\ DOMAIN leaders_to_commit = Primaries
    BY NetworkAssumption, Zenon DEF TypeOK
<1>2. OneMore(p, n, leaders_to_commit[p], top, t)
    BY Zenon DEF CommitEffect
<1>3. n \in Nat /\ n = last_sub_dag[p].index
    BY <1>2, Zenon DEF OneMore
<1>4. top \in DOMAIN network /\ Round(top) \in Nat /\ Round(top) >= committed_round[p] + 2
    BY <1>2, FirstLeader, Zenon
<1>5. /\ network' = network /\ certificate_store' = certificate_store
      /\ new_certificates' = new_certificates /\ leader_round' = leader_round
    BY Zenon DEF CommitEffect
<1>6. /\ last_committed'[p] = update(last_committed[p], t[n + 1].certificates)
      /\ committed_round'[p] = Round(top)
      /\ dag'[p] = {c \in dag[p] : Round(c) > gc_round(Round(top))}
      /\ last_sub_dag'[p] = t[n + 1]
      /\ stored_last_committed'[p] = last_committed'[p]
      /\ sub_dags'[p] = t
      /\ swap_table'[p] = update_leader_schedule(swap_table[p], t[n + 1])
      /\ leaders_to_commit'[p] = C
    BY <1>1, Zenon DEF CommitEffect
<1> QED
    BY <1>1, <1>2, <1>3, <1>4, <1>5, <1>6, Zenon

LEMMA EffectOthers ==
    ASSUME TypeOK, NEW p \in Primaries, NEW n, NEW top, NEW C, NEW t, CommitEffect(p, n, top, C, t),
           NEW q \in Primaries, q # p
    PROVE  /\ last_committed'[q] = last_committed[q] /\ committed_round'[q] = committed_round[q]
           /\ dag'[q] = dag[q] /\ last_sub_dag'[q] = last_sub_dag[q]
           /\ stored_last_committed'[q] = stored_last_committed[q] /\ sub_dags'[q] = sub_dags[q]
           /\ swap_table'[q] = swap_table[q] /\ leaders_to_commit'[q] = leaders_to_commit[q]
<1>1. /\ DOMAIN last_committed = Primaries /\ DOMAIN committed_round = Primaries
      /\ DOMAIN dag = Primaries /\ DOMAIN last_sub_dag = Primaries
      /\ DOMAIN stored_last_committed = Primaries /\ DOMAIN sub_dags = Primaries
      /\ DOMAIN swap_table = Primaries /\ DOMAIN leaders_to_commit = Primaries
    BY Zenon DEF TypeOK
<1> QED
    BY <1>1, Zenon DEF CommitEffect

LEMMA EffectHistory ==
    ASSUME TypeOK, NEW p \in Primaries, History(p), NEW n, NEW top, NEW C, NEW t,
           CommitEffect(p, n, top, C, t)
    PROVE  History(p)'
<1>1. /\ network' = network /\ OneMore(p, n, leaders_to_commit[p], top, t) /\ n \in Nat
      /\ last_committed'[p] = update(last_committed[p], t[n + 1].certificates)
      /\ committed_round'[p] = Round(top) /\ last_sub_dag'[p] = t[n + 1]
      /\ stored_last_committed'[p] = last_committed'[p] /\ sub_dags'[p] = t
      /\ swap_table'[p] = update_leader_schedule(swap_table[p], t[n + 1])
    BY EffectFacts, SMTT(30), Zenon
<1>2. /\ \A i \in 1..(n + 1) : t[i].index = i /\ Determined(network, t, i)
      /\ \A i, j \in 1..(n + 1) : i < j => Round(t[i].leader) < Round(t[j].leader)
    BY <1>1, MoreDetermined, MoreRounds, SMTT(30), Zenon
<1>3. /\ CommittedUpTo(t, n + 1) = last_committed'[p]
      /\ ScheduleAt(t, n + 1) = swap_table'[p]
    BY <1>1, MoreCommitted, MoreSchedule, SMTT(30), Zenon
<1>4. t[n + 1].index = n + 1 /\ t[n + 1].leader = top
    BY <1>1, SameBefore, SMTT(30), Zenon
<1>5. SubDagAt(t, n + 1) = t[n + 1]
    BY <1>1, SMTT(30), Zenon DEF SubDagAt
<1> QED
    BY <1>1, <1>2, <1>3, <1>4, <1>5, Zenon DEF History

LEMMA EffectDag ==
    ASSUME TypeOK, NEW p \in Primaries, History(p), ClosedDag(p), NEW n, NEW top, NEW C, NEW t,
           CommitEffect(p, n, top, C, t)
    PROVE  /\ \A c \in dag'[p] : Round(c) > gc_round(Round(top)) + 1 => Parents(network, c) \subseteq dag'[p]
           /\ ClosedDag(p)'
<1>0. /\ network' = network /\ certificate_store' = certificate_store /\ new_certificates' = new_certificates
    BY Zenon DEF CommitEffect
<1>1. /\ Round(top) \in Nat /\ Round(top) >= committed_round[p] + 2 /\ committed_round'[p] = Round(top)
      /\ dag'[p] = {c \in dag[p] : Round(c) > gc_round(Round(top))}
    BY EffectFacts, SMTT(30), Zenon
<1>2. dag'[p] \subseteq certificate_store[p] /\ new_certificates[p] \subseteq certificate_store[p]
    BY <1>1, Zenon DEF ClosedDag
<1>3. committed_round[p] <= Round(top)
    BY <1>1, SMTT(30), Zenon DEF TypeOK
<1>4. /\ \A c \in certificate_store[p] :
             /\ Round(c) > gc_round(Round(top)) + 1 => Parents(network, c) \subseteq certificate_store[p]
             /\ Round(c) > gc_round(Round(top)) => c \in dag'[p] \cup new_certificates[p]
      /\ \A c \in dag'[p] : Round(c) > gc_round(Round(top)) + 1 => Parents(network, c) \subseteq dag'[p]
    BY <1>1, <1>3, PurgedDag, Zenon
<1> QED
    BY <1>0, <1>1, <1>2, <1>4, Zenon DEF ClosedDag

\* What is left to commit is the rest of the leaders, or is elected again.
LEMMA EffectLeft ==
    ASSUME TypeOK, NEW p \in Primaries, History(p), ClosedDag(p), Collected(p),
           NEW n, NEW top, NEW C, NEW t, CommitEffect(p, n, top, C, t), C # {}
    PROVE  C \subseteq dag'[p] /\ Electable(network, swap_table'[p], Round(top), C)
<1> DEFINE L == leaders_to_commit[p]
           g == gc_round(Round(top))
<1>1. /\ WellFormed(network) /\ Round(top) \in Nat /\ Round(top) >= committed_round[p] + 2
      /\ dag'[p] = {c \in dag[p] : Round(c) > g}
      /\ swap_table'[p] = update_leader_schedule(swap_table[p], t[n + 1])
      /\ OneMore(p, n, L, top, t)
    BY EffectFacts
<1>2. dag[p] \in SUBSET DOMAIN network /\ committed_round[p] \in Nat
    BY Zenon DEF TypeOK
<1>3. g \in Nat /\ g <= Round(top) /\ g < Round(top)
    BY <1>1, <1>2, GcRound
<1>4. CASE t[n + 1].final_of_schedule /\ L \ {top} # {}
    <2>1. elected(network, dag'[p], swap_table'[p], Round(top), leader_round[p], C)
        BY <1>4, Zenon DEF CommitEffect
    <2>2. \A d \in dag'[p] : Round(d) > g + 1 => Parents(network, d) \subseteq dag'[p]
        BY EffectDag, Zenon
    <2>3. dag'[p] \in SUBSET DOMAIN network /\ WellFormed(network) /\ Round(top) \in Nat
        BY <1>1, <1>2, Zenon
    <2> HIDE DEF g
    <2> QED
        BY <1>3, <2>1, <2>2, <2>3, ElectedIsElectable, Zenon
<1>5. CASE ~ (t[n + 1].final_of_schedule /\ L \ {top} # {})
    <2>1. C = L \ {top}
        BY <1>5, Zenon DEF CommitEffect
    <2>2. ~ t[n + 1].final_of_schedule
        BY <1>5, <2>1, Zenon
    <2>3. swap_table'[p] = swap_table[p]
        BY <1>1, <2>2, Zenon DEF update_leader_schedule
    <2>4. top \in L /\ (\A l \in L \ {top} : Round(top) < Round(l)) /\ L \subseteq dag[p]
        BY <1>1, Zenon DEF OneMore, Collected
    <2>5. PICK a \in L : /\ supported(network, DOMAIN network, a)
                         /\ order_leaders(network, DOMAIN network, swap_table[p], committed_round[p], a, L)
        BY <1>1, Zenon DEF OneMore, Electable
    <2>6. \A l \in L : Round(l) \in Nat /\ Round(l) <= Round(a)
        <3> HIDE DEF L
        <3>1. WellFormed(network) /\ committed_round[p] \in Nat
            BY <1>1, <1>2, Zenon
        <3> QED
            BY <2>5, <3>1, ChainType, Zenon
    <2>7. a # top
        <3>1. PICK l \in L \ {top} : Round(top) < Round(l)
            BY <2>1, <2>4, Zenon
        <3>2. Round(l) <= Round(a) /\ Round(l) \in Nat /\ Round(a) \in Nat
            BY <2>6, Zenon
        <3> QED
            BY <1>1, <3>1, <3>2
    <2>8. order_leaders(network, DOMAIN network, swap_table[p], Round(top), a, L \ {top})
        <3> HIDE DEF L
        <3>1. WellFormed(network) /\ committed_round[p] \in Nat
            BY <1>1, <1>2
        <3> QED
            BY <2>4, <2>5, <2>7, <3>1, RemainingLeaders, Zenon
    <2>9. Electable(network, swap_table'[p], Round(top), C)
        BY <2>1, <2>3, <2>5, <2>7, <2>8, Zenon DEF Electable
    <2>10. ASSUME NEW l \in C
           PROVE  l \in dag'[p]
        <3>1. l \in dag[p] /\ Round(top) < Round(l) /\ Round(l) \in Nat
            BY <2>1, <2>4, <2>6, Zenon
        <3>2. Round(l) > g
            BY <1>1, <1>3, <3>1
        <3> QED
            BY <1>1, <3>1, <3>2, Zenon
    <2> QED
        BY <2>9, <2>10, Zenon
<1> QED
    BY <1>4, <1>5, Zenon

LEMMA EffectTypes ==
    ASSUME TypeOK, NEW p \in Primaries, History(p), ClosedDag(p), Collected(p),
           NEW n, NEW top, NEW C, NEW t, CommitEffect(p, n, top, C, t)
    PROVE  TypeOK'
<1>1. /\ network' = network /\ WellFormed(network) /\ network \in Networks
      /\ OneMore(p, n, leaders_to_commit[p], top, t) /\ n \in Nat
      /\ top \in DOMAIN network /\ Round(top) \in Nat
    BY EffectFacts, Zenon DEF TypeOK
<1>2. SubDags' = SubDags /\ SwapTables' = SwapTables
    BY <1>1, Zenon DEF SubDags, SwapTables
<1>3. /\ t[n + 1] = CommittedSubDag(network, last_sub_dag[p], last_committed[p], top)
      /\ t[n + 1].index = n + 1 /\ t[n + 1].certificates = order_dag(network, last_committed[p], top)
      /\ \A i \in 1..n : t[i] = sub_dags[p][i]
    BY <1>1, SameBefore
<1>4. /\ last_sub_dag[p] \in SubDags /\ swap_table[p] \in SwapTables
      /\ last_committed[p] \in [Authorities -> Nat]
      /\ \A i \in 1..n : sub_dags[p][i] \in SubDags
    <2>1. n = last_sub_dag[p].index
        BY <1>1, Zenon DEF OneMore
    <2> QED
        BY <2>1, Zenon DEF TypeOK
<1>5. t[n + 1] \in SubDags
    BY <1>1, <1>3, <1>4, SubDagType, Zenon
<1>6. update_leader_schedule(swap_table[p], t[n + 1]) \in SwapTables
    <2>1. t[n + 1].scores \in [Authorities -> Nat]
        BY <1>5, Zenon DEF SubDags
    <2> QED
        BY <1>4, <2>1, SwapTableType, Zenon DEF update_leader_schedule
<1>7. update(last_committed[p], t[n + 1].certificates) \in [Authorities -> Nat]
    <2> DEFINE B == t[n + 1].certificates
    <2>1. B \in SUBSET DOMAIN network /\ \A c \in B : Round(c) <= Round(top)
        BY <1>1, <1>3, OrderDagType
    <2> HIDE DEF B
    <2>2. update(last_committed[p], B) \in [Authorities -> Nat]
        BY <1>1, <1>4, <2>1, UpdateType, Zenon
    <2> QED
        BY <2>2, Zenon DEF B
<1>8. /\ last_committed' \in [Primaries -> [Authorities -> Nat]]
      /\ stored_last_committed' \in [Primaries -> [Authorities -> Nat]]
    BY <1>7, Zenon DEF TypeOK, CommitEffect
<1>9. committed_round' \in [Primaries -> Nat] /\ dag' \in [Primaries -> SUBSET DOMAIN network]
    BY <1>1, Zenon DEF TypeOK, CommitEffect
<1>10. last_sub_dag' \in [Primaries -> SubDags] /\ swap_table' \in [Primaries -> SwapTables]
    BY <1>5, <1>6, Zenon DEF TypeOK, CommitEffect
<1>11. leaders_to_commit' \in [Primaries -> SUBSET DOMAIN network]
    <2>1. C \subseteq DOMAIN network
        <3>1. C # {} => C \subseteq dag'[p]
            BY EffectLeft, Zenon
        <3> QED
            BY <1>9, <3>1, Zenon
    <2> QED
        BY <2>1, Zenon DEF TypeOK, CommitEffect
<1>12. ASSUME NEW q \in Primaries
       PROVE  /\ \A c \in dag'[q] : Round(c) > gc_round(committed_round'[q])
              /\ DOMAIN sub_dags'[q] = 1..last_sub_dag'[q].index
              /\ \A i \in DOMAIN sub_dags'[q] : sub_dags'[q][i] \in SubDags
    <2>1. CASE q = p
        <3>1. DOMAIN t = 1..(n + 1)
            BY Zenon DEF CommitEffect
        <3>2. \A i \in DOMAIN t : t[i] \in SubDags
            BY <1>1, <1>3, <1>4, <1>5, <3>1
        <3>3. /\ committed_round'[p] = Round(top) /\ sub_dags'[p] = t /\ last_sub_dag'[p] = t[n + 1]
              /\ dag'[p] = {c \in dag[p] : Round(c) > gc_round(Round(top))}
            BY EffectFacts
        <3> QED
            BY <1>3, <2>1, <3>1, <3>2, <3>3, Zenon
    <2>2. CASE q # p
        <3>1. /\ dag'[q] = dag[q] /\ committed_round'[q] = committed_round[q]
              /\ sub_dags'[q] = sub_dags[q] /\ last_sub_dag'[q] = last_sub_dag[q]
            BY <2>2, EffectOthers, Zenon
        <3> QED
            BY <3>1, Zenon DEF TypeOK
    <2> QED
        BY <2>1, <2>2, Zenon
<1>13. /\ certificate_store' \in [Primaries -> SUBSET DOMAIN network]
       /\ new_certificates' \in [Primaries -> SUBSET DOMAIN network]
       /\ leader_round' \in [Primaries -> Nat] /\ restarts' \in 0..MaxRestarts
       /\ DOMAIN sub_dags' = Primaries
    BY Zenon DEF TypeOK, CommitEffect
<1> QED
    BY <1>1, <1>2, <1>8, <1>9, <1>10, <1>11, <1>12, <1>13, Zenon DEF TypeOK

\* A commit keeps the invariant.
LEMMA CommitInv ==
    ASSUME IInv, NEW p \in Primaries, commit_leader(p)
    PROVE  IInv'
<1>1. PICK n, top, C, t : CommitEffect(p, n, top, C, t)
    BY CommitHasEffect, Zenon
<1>2. TypeOK /\ ClosedDag(p) /\ Collected(p) /\ History(p)
    BY Zenon DEF IInv
<1>3. TypeOK'
    BY <1>1, <1>2, EffectTypes, Zenon
<1>4. ASSUME NEW q \in Primaries
      PROVE  (ClosedDag(q) /\ Collected(q) /\ History(q))'
    <2>1. CASE q = p
        <3>1. ClosedDag(p)' /\ History(p)'
            BY <1>1, <1>2, EffectDag, EffectHistory, Zenon
        <3>2. network' = network /\ leaders_to_commit'[p] = C /\ committed_round'[p] = Round(top)
            BY <1>1, <1>2, EffectFacts
        <3>3. C # {} => C \subseteq dag'[p] /\ Electable(network, swap_table'[p], Round(top), C)
            BY <1>1, <1>2, EffectLeft, Zenon
        <3>4. Collected(p)'
            BY <3>2, <3>3, Zenon DEF Collected
        <3> QED
            BY <2>1, <3>1, <3>4, Zenon
    <2>2. CASE q # p
        <3>1. /\ network' = network /\ certificate_store' = certificate_store
              /\ new_certificates' = new_certificates
              /\ last_committed'[q] = last_committed[q] /\ committed_round'[q] = committed_round[q]
              /\ dag'[q] = dag[q] /\ last_sub_dag'[q] = last_sub_dag[q]
              /\ stored_last_committed'[q] = stored_last_committed[q] /\ sub_dags'[q] = sub_dags[q]
              /\ swap_table'[q] = swap_table[q] /\ leaders_to_commit'[q] = leaders_to_commit[q]
            BY <1>1, <1>2, <2>2, EffectFacts, EffectOthers
        <3>2. ClosedDag(q) /\ Collected(q) /\ History(q)
            BY Zenon DEF IInv
        <3> QED
            BY <3>1, <3>2, SameDag, SameCollected, SameHistory, Zenon
    <2> QED
        BY <2>1, <2>2, Zenon
<1> QED
    BY <1>3, <1>4, Zenon DEF IInv

\* So does a restart, which recovers what was in memory.
LEMMA RestartInv ==
    ASSUME IInv, NEW p \in Primaries, restart(p)
    PROVE  IInv'
<1>1. TypeOK /\ ClosedDag(p) /\ History(p)
    BY Zenon DEF IInv
<1>2. /\ recovered_round(p) = committed_round[p] /\ get_latest_sub_dag(p) = last_sub_dag[p]
      /\ from_store(p) = swap_table[p]
    BY <1>1, RecoveredState, Zenon
<1>3. stored_last_committed[p] = last_committed[p]
    BY <1>1, Zenon DEF History
<1>4. /\ certificate_store \in [Primaries -> SUBSET DOMAIN network]
      /\ new_certificates \in [Primaries -> SUBSET DOMAIN network]
      /\ dag \in [Primaries -> SUBSET DOMAIN network]
      /\ last_committed \in [Primaries -> [Authorities -> Nat]]
      /\ committed_round \in [Primaries -> Nat]
      /\ last_sub_dag \in [Primaries -> SubDags]
      /\ swap_table \in [Primaries -> SwapTables]
      /\ leader_round \in [Primaries -> Nat]
      /\ leaders_to_commit \in [Primaries -> SUBSET DOMAIN network]
    BY <1>1, Zenon DEF TypeOK
<1>5. /\ restarts < MaxRestarts /\ restarts' = restarts + 1
      /\ new_certificates' = [new_certificates EXCEPT ![p] = {}]
      /\ dag' = [dag EXCEPT ![p] = {c \in certificate_store[p] : Round(c) > gc_round(committed_round[p])}]
      /\ leader_round' = [leader_round EXCEPT ![p] = 0]
      /\ leaders_to_commit' = [leaders_to_commit EXCEPT ![p] = {}]
      /\ UNCHANGED <<network, certificate_store, stored_last_committed, sub_dags>>
    BY <1>2, Zenon DEF restart, disk
<1>6. UNCHANGED <<last_committed, committed_round, last_sub_dag, swap_table>>
    BY <1>2, <1>3, <1>4, Zenon DEF restart
<1>7. ASSUME NEW q \in Primaries, q # p
      PROVE  dag'[q] = dag[q] /\ new_certificates'[q] = new_certificates[q]
             /\ leaders_to_commit'[q] = leaders_to_commit[q]
    BY <1>4, <1>5, <1>7, Zenon
<1>8. /\ dag'[p] = {c \in certificate_store[p] : Round(c) > gc_round(committed_round[p])}
      /\ new_certificates'[p] = {} /\ leaders_to_commit'[p] = {}
    BY <1>4, <1>5, Zenon
<1>9. TypeOK'
    <2>1. /\ new_certificates' \in [Primaries -> SUBSET DOMAIN network]
          /\ dag' \in [Primaries -> SUBSET DOMAIN network]
          /\ leader_round' \in [Primaries -> Nat]
          /\ leaders_to_commit' \in [Primaries -> SUBSET DOMAIN network]
        BY <1>4, <1>5, Zenon
    <2>2. ASSUME NEW q \in Primaries, NEW c \in dag'[q]
          PROVE  Round(c) > gc_round(committed_round[q])
        <3>1. CASE q = p
            BY <1>8, <3>1, Zenon
        <3>2. CASE q # p
            BY <1>1, <1>7, <3>2, Zenon DEF TypeOK
        <3> QED
            BY <3>1, <3>2, Zenon
    <2>3. restarts' \in 0..MaxRestarts
        BY <1>1, <1>5, BullsharkAssumption DEF TypeOK
    <2> QED
        BY <1>1, <1>4, <1>5, <1>6, <2>1, <2>2, <2>3, SameTypes, Zenon
<1>10. ClosedDag(p)'
    <2> DEFINE g == gc_round(committed_round[p])
               S == certificate_store[p]
    <2>1. \A c \in S : Round(c) > g + 1 => Parents(network, c) \subseteq S
        BY <1>1, Zenon DEF ClosedDag
    <2>2. g \in Nat /\ WellFormed(network) /\ S \subseteq DOMAIN network
        BY <1>1, <1>4, GcRound, NetworkAssumption, Zenon DEF TypeOK
    <2>3. ASSUME NEW c \in dag'[p], Round(c) > g + 1, NEW x \in Parents(network, c)
          PROVE  x \in dag'[p]
        <3>1. c \in S /\ c \in DOMAIN network
            BY <1>8, <2>2, Zenon
        <3>2. Round(x) = Round(c) - 1 /\ Round(c) \in Nat
            BY <2>2, <3>1, ParentType, CertificateType, Zenon
        <3>3. x \in S
            BY <2>1, <2>3, <3>1, Zenon
        <3>4. Round(x) > g
            BY <2>2, <2>3, <3>2
        <3> QED
            BY <1>8, <3>3, <3>4, Zenon
    <2> QED
        BY <1>5, <1>6, <1>8, <2>1, <2>3, Zenon DEF ClosedDag
<1>11. ASSUME NEW q \in Primaries
       PROVE  (ClosedDag(q) /\ Collected(q) /\ History(q))'
    <2>1. ClosedDag(q) /\ Collected(q) /\ History(q)
        BY DEF IInv
    <2>2. History(q)'
        BY <1>5, <1>6, <2>1, SameHistory, Zenon
    <2>3. CASE q = p
        <3>1. Collected(p)'
            BY <1>8, Zenon DEF Collected
        <3> QED
            BY <1>10, <2>2, <2>3, <3>1, Zenon
    <2>4. CASE q # p
        <3>1. ClosedDag(q)'
            BY <1>5, <1>6, <1>7, <2>1, <2>4, SameDag, Zenon
        <3>2. Collected(q)'
            BY <1>5, <1>6, <1>7, <2>1, <2>4, SameCollected, Zenon
        <3> QED
            BY <2>2, <3>1, <3>2, Zenon
    <2> QED
        BY <2>3, <2>4
<1> QED
    BY <1>9, <1>11 DEF IInv

LEMMA NextInv ==
    ASSUME IInv, [Next]_vars
    PROVE  IInv'
<1>1. ASSUME NEW p \in Primaries, NEW c \in DOMAIN network, accept_certificate(p, c)
      PROVE  IInv'
    BY <1>1, AcceptInv, Zenon
<1>2. ASSUME NEW p \in Primaries, NEW c \in new_certificates[p], process_collected(p, c)
      PROVE  IInv'
    BY <1>2, CollectedInv, Zenon
<1>3. ASSUME NEW p \in Primaries, NEW c \in new_certificates[p], process_inserted(p, c)
      PROVE  IInv'
    BY <1>3, InsertedInv, Zenon
<1>4. ASSUME NEW p \in Primaries, NEW c \in new_certificates[p], process_elects(p, c)
      PROVE  IInv'
    BY <1>4, ElectsInv
<1>5. ASSUME NEW p \in Primaries, commit_leader(p)
      PROVE  IInv'
    BY <1>5, CommitInv, Zenon
<1>6. ASSUME NEW p \in Primaries, restart(p)
      PROVE  IInv'
    BY <1>6, RestartInv, Zenon
<1>7. CASE UNCHANGED vars
    BY <1>7, StutterInv, Zenon
<1> QED
    BY <1>1, <1>2, <1>3, <1>4, <1>5, <1>6, <1>7, Zenon DEF Next

\* The invariant holds in every state of every behaviour: consensus, its stores and
\* what it recovers from them are what the committed sub-dags determine.
THEOREM Invariant == Spec => []IInv
<1>1. Init => IInv
    BY InitInv, Zenon
<1>2. IInv /\ [Next]_vars => IInv'
    BY NextInv, Zenon
<1> QED
    BY <1>1, <1>2, PTL DEF Spec

-----------------------------------------------------------------------------
\* The types and the bound on the memory of consensus, for every network.
THEOREM Types == Spec => []TypeOK
<1>1. IInv => TypeOK
    BY Zenon DEF IInv
<1> QED
    BY <1>1, Invariant, PTL


LEMMA InvAgreement == IInv => Agreement
<1> SUFFICES ASSUME IInv, NEW p \in Primaries, NEW q \in Primaries,
                    NEW i \in DOMAIN sub_dags[p] \cap DOMAIN sub_dags[q],
                    sub_dags[p][i] # sub_dags[q][i]
             PROVE  FALSE
    BY Zenon DEF Agreement
<1> DEFINE s == sub_dags[p]
           t == sub_dags[q]
           m == last_sub_dag[p].index
           n == last_sub_dag[q].index
           S == {j \in Nat : j \in (1..m) \cap (1..n) /\ s[j] # t[j]}
<1>1. /\ TypeOK /\ History(p) /\ History(q) /\ WellFormed(network)
      /\ DOMAIN s = 1..m /\ DOMAIN t = 1..n /\ m \in Nat /\ n \in Nat
    BY HistoryFacts, Zenon DEF IInv
<1>2. i \in S
    BY <1>1
<1>3. PICK j \in S : \A k \in S : j <= k
    <2> HIDE DEF S
    <2>1. S \in SUBSET Nat
        BY Zenon DEF S
    <2> QED
        BY <1>2, <2>1, Least, Zenon
<1>4. j \in Nat /\ j >= 1 /\ j \in 1..m /\ j \in 1..n /\ s[j] # t[j]
    BY <1>1
<1>5. \A k \in 1..(j - 1) : s[k] = t[k]
    <2> SUFFICES ASSUME NEW k \in 1..(j - 1), s[k] # t[k]
                 PROVE  FALSE
        BY Zenon
    <2>1. k \in S /\ k < j
        BY <1>1, <1>4
    <2> QED
        BY <1>3, <1>4, <2>1
<1>6. Determined(network, s, j) /\ Determined(network, t, j)
    BY <1>1, <1>4, Zenon DEF History
<1>7. Round(SubDagAt(s, j - 1).leader) \in Nat
    BY <1>1, <1>4, HistoryFacts, Zenon DEF Round
<1> HIDE DEF s, t, m, n, S
<1>8. s[j] = t[j]
    BY <1>1, <1>4, <1>5, <1>6, <1>7, OneContinuation
<1> QED
    BY <1>4, <1>8, Zenon

\* Any two primaries commit the same sub-dags in the same order, whatever they
\* received first and however often they restarted.
THEOREM PrimariesAgree == Spec => []Agreement
BY Invariant, InvAgreement, PTL

LEMMA InvCommittedOnce == IInv => CommittedOnce
<1>1. ASSUME IInv, NEW p \in Primaries, NEW i \in DOMAIN sub_dags[p], NEW j \in DOMAIN sub_dags[p],
             i < j, NEW c, c \in sub_dags[p][i].certificates, c \in sub_dags[p][j].certificates
      PROVE  FALSE
    <2> DEFINE s == sub_dags[p]
               n == last_sub_dag[p].index
               lc == CommittedUpTo(s, j - 1)
    <2>1. TypeOK /\ History(p)
        BY <1>1, Zenon DEF IInv
    <2>2. /\ WellFormed(network) /\ n \in Nat /\ DOMAIN s = 1..n
          /\ s[j].leader \in DOMAIN network /\ Round(s[j].leader) \in Nat
          /\ Round(s[i].leader) \in Nat
          /\ s[j].certificates = order_dag(network, lc, s[j].leader)
          /\ c \in DOMAIN network /\ Round(c) <= Round(s[i].leader)
        BY <1>1, <2>1, HistoryFacts, Zenon
    <2>3. i \in 1..n /\ j \in 1..n /\ j - 1 \in 0..n /\ i \in 1..(j - 1)
        BY <1>1, <2>2
    <2>4. Round(s[i].leader) < Round(s[j].leader)
        BY <1>1, <2>1, <2>3, Zenon DEF History
    <2>5. lc \in [Authorities -> Nat] /\ Round(c) <= lc[Origin(c)]
        BY <1>1, <2>1, <2>3, CommittedFacts, SMTT(30), Zenon
    <2>6. c = s[j].leader \/ Round(c) > lc[Origin(c)]
        <3> HIDE DEF lc, s
        <3> QED
            BY <1>1, <2>2, OrderDagType DEF s
    <2>7. Round(c) \in Nat /\ Origin(c) \in Authorities
        BY <2>2, CertificateType, Zenon
    <2>8. lc[Origin(c)] \in Nat
        BY <2>5, <2>7, Zenon
    <2> QED
        BY <2>2, <2>4, <2>5, <2>6, <2>7, <2>8
<1> SUFFICES ASSUME IInv, NEW p \in Primaries, NEW i \in DOMAIN sub_dags[p], NEW j \in DOMAIN sub_dags[p],
                    i # j, NEW c, c \in sub_dags[p][i].certificates, c \in sub_dags[p][j].certificates
             PROVE  FALSE
    BY Zenon DEF CommittedOnce
<1>2. i \in Int /\ j \in Int
    <2>1. DOMAIN sub_dags[p] = 1..last_sub_dag[p].index
        BY Zenon DEF IInv, TypeOK
    <2> QED
        BY <2>1
<1>3. i < j \/ j < i
    BY <1>2
<1> QED
    BY <1>1, <1>3, Zenon

\* No certificate is committed twice by a primary, nor again after a restart.
THEOREM NothingTwice == Spec => []CommittedOnce
BY Invariant, InvCommittedOnce, PTL

\* What one turn of commit_leader adds to the store.
LEMMA CommitStep ==
    ASSUME IInv, NEW p \in Primaries, commit_leader(p)
    PROVE  LET n == last_sub_dag[p].index
           IN  /\ last_sub_dag' = [last_sub_dag EXCEPT ![p] = last_sub_dag'[p]]
               /\ last_sub_dag'[p].index = n + 1
               /\ DOMAIN sub_dags'[p] = 1..(n + 1)
               /\ sub_dags'[p][n + 1] = last_sub_dag'[p]
               /\ \A i \in 1..n : sub_dags'[p][i] = sub_dags[p][i]
               /\ \A q \in Primaries \ {p} : sub_dags'[q] = sub_dags[q]
<1>1. PICK n, top, C, t : CommitEffect(p, n, top, C, t)
    BY CommitHasEffect
<1>2. TypeOK /\ History(p)
    BY Zenon DEF IInv
<1>3. /\ last_sub_dag' = [last_sub_dag EXCEPT ![p] = t[n + 1]] /\ DOMAIN t = 1..(n + 1)
    BY <1>1, Zenon DEF CommitEffect
<1>4. /\ n = last_sub_dag[p].index /\ last_sub_dag'[p] = t[n + 1] /\ sub_dags'[p] = t
      /\ OneMore(p, n, leaders_to_commit[p], top, t)
    BY <1>1, <1>2, EffectFacts
<1>6. \A q \in Primaries \ {p} : sub_dags'[q] = sub_dags[q]
    BY <1>1, <1>2, EffectOthers, ZenonT(30)
<1>5. t[n + 1].index = n + 1 /\ \A i \in 1..n : t[i] = sub_dags[p][i]
    BY <1>2, <1>4, SameBefore
<1> QED
    BY <1>3, <1>4, <1>5, <1>6, Zenon

\* Initially nothing is decided or delivered,
LEMMA RefinesInit == Init => Order!Init
<1> SUFFICES ASSUME Init
             PROVE  Order!Init
    BY Zenon
<1>1. \A p \in Primaries : sub_dags[p] = <<>> /\ last_sub_dag[p].index = 0
    BY Zenon DEF Init, NoSubDag
<1>2. \A p \in Primaries : DOMAIN sub_dags[p] = {}
    BY <1>1
<1>3. UNION {{sub_dags[p][i] : i \in DOMAIN sub_dags[p]} : p \in Primaries} = {}
    BY <1>2, Zenon
<1> QED
    BY <1>1, <1>3, Zenon DEF Order!Init

\* and a commit delivers the next sub-dag of the sequence: one that another primary
\* has delivered, or one that continues it.
LEMMA RefinesCommit ==
    ASSUME IInv, IInv', Agreement', CommittedOnce', NEW p \in Primaries, commit_leader(p)
    PROVE  Order!Deliver(p)
<1> DEFINE n == last_sub_dag[p].index
           new == last_sub_dag'[p]
           before == UNION {{sub_dags[q][i] : i \in DOMAIN sub_dags[q]} : q \in Primaries}
           after == UNION {{sub_dags'[q][i] : i \in DOMAIN sub_dags'[q]} : q \in Primaries}
<1>1. /\ last_sub_dag' = [last_sub_dag EXCEPT ![p] = new] /\ new.index = n + 1
      /\ DOMAIN sub_dags'[p] = 1..(n + 1) /\ sub_dags'[p][n + 1] = new
      /\ \A i \in 1..n : sub_dags'[p][i] = sub_dags[p][i]
      /\ \A q \in Primaries \ {p} : sub_dags'[q] = sub_dags[q]
    BY CommitStep, Zenon
<1>2. /\ n \in Nat /\ DOMAIN last_sub_dag = Primaries
      /\ \A q \in Primaries : last_sub_dag[q].index \in Nat /\ DOMAIN sub_dags[q] = 1..last_sub_dag[q].index
    BY Zenon DEF IInv, TypeOK, SubDags
<1>3. after = before \cup {new}
    <2>1. ASSUME NEW d \in after
          PROVE  d \in before \cup {new}
        <3>0. PICK q \in Primaries : \E i \in DOMAIN sub_dags'[q] : d = sub_dags'[q][i]
            BY Zenon
        <3>1. PICK i \in DOMAIN sub_dags'[q] : d = sub_dags'[q][i]
            BY <3>0, Zenon
        <3>2. CASE q = p
            <4>1. i \in 1..(n + 1) /\ DOMAIN sub_dags[p] = 1..n
                BY <1>1, <1>2, <3>2, Zenon
            <4>2. i = n + 1 \/ i \in 1..n
                BY <1>2, <4>1
            <4>3. CASE i = n + 1
                BY <1>1, <3>1, <3>2, <4>3, Zenon
            <4>4. CASE i \in 1..n
                <5>1. d = sub_dags[p][i] /\ i \in DOMAIN sub_dags[p]
                    BY <1>1, <3>1, <3>2, <4>1, <4>4, Zenon
                <5> QED
                    BY <5>1
            <4> QED
                BY <4>2, <4>3, <4>4, Zenon
        <3>3. CASE q # p
            BY <1>1, <3>1, <3>3
        <3> QED
            BY <3>2, <3>3, Zenon
    <2>2. ASSUME NEW d \in before
          PROVE  d \in after
        <3>0. PICK q \in Primaries : \E i \in DOMAIN sub_dags[q] : d = sub_dags[q][i]
            BY Zenon
        <3>1. PICK i \in DOMAIN sub_dags[q] : d = sub_dags[q][i]
            BY <3>0, Zenon
        <3>2. CASE q = p
            <4>2. i \in 1..n
                BY <1>2, <3>2, Zenon
            <4>3. i \in 1..(n + 1)
                BY <1>2, <4>2
            <4>1. i \in 1..n /\ i \in DOMAIN sub_dags'[p]
                BY <1>1, <4>2, <4>3, Zenon
            <4>4. d = sub_dags'[p][i]
                BY <1>1, <3>1, <3>2, <4>1, Zenon
            <4> QED
                BY <4>1, <4>4
        <3>3. CASE q # p
            BY <1>1, <3>1, <3>3
        <3> QED
            BY <3>2, <3>3, Zenon
    <2>3. new \in after
        <3>1. n + 1 \in DOMAIN sub_dags'[p]
            BY <1>1, <1>2
        <3> QED
            BY <1>1, <3>1
    <2> HIDE DEF before, after
    <2> QED
        BY <2>1, <2>2, <2>3, Zenon
<1>4. new \in before \/ \A d \in before : /\ d.index < new.index
                                          /\ d.leader[1] < new.leader[1]
                                          /\ d.certificates \cap new.certificates = {}
    <2>1. CASE \E q \in Primaries : last_sub_dag[q].index >= n + 1
        <3>1. PICK q \in Primaries : last_sub_dag[q].index >= n + 1
            BY <2>1, Zenon
        <3>2. q # p /\ n + 1 \in DOMAIN sub_dags[q]
            BY <1>2, <3>1
        <3>3. sub_dags'[q][n + 1] = sub_dags'[p][n + 1]
            <4>1. n + 1 \in DOMAIN sub_dags'[q] /\ n + 1 \in DOMAIN sub_dags'[p]
                BY <1>1, <1>2, <3>2
            <4> QED
                BY <4>1, Zenon DEF Agreement
        <3> QED
            BY <1>1, <3>2, <3>3
    <2>2. CASE \A q \in Primaries : ~ (last_sub_dag[q].index >= n + 1)
        <3> SUFFICES ASSUME NEW d \in before
                     PROVE  /\ d.index < new.index
                            /\ d.leader[1] < new.leader[1]
                            /\ d.certificates \cap new.certificates = {}
            BY Zenon
        <3>0. PICK q \in Primaries : \E j \in DOMAIN sub_dags[q] : d = sub_dags[q][j]
            OBVIOUS
        <3>1. PICK j \in DOMAIN sub_dags[q] : d = sub_dags[q][j]
            BY <3>0
        <3>2. /\ j \in 1..n /\ j \in 1..(n + 1) /\ j \in DOMAIN sub_dags'[p] /\ j < n + 1
              /\ n + 1 \in DOMAIN sub_dags'[p] /\ n + 1 \in 1..(n + 1)
            BY <1>1, <1>2, <2>2, <3>1
        <3>3. d = sub_dags'[p][j]
            <4>1. CASE q = p
                BY <1>1, <3>1, <3>2, <4>1, Zenon
            <4>2. CASE q # p
                <5>1. sub_dags'[q] = sub_dags[q]
                    BY <1>1, <4>2, Zenon
                <5>2. sub_dags'[q][j] = sub_dags'[p][j]
                    BY <3>1, <3>2, <5>1, Zenon DEF Agreement
                <5> QED
                    BY <3>1, <5>1, <5>2, Zenon
            <4> QED
                BY <4>1, <4>2, Zenon
        <3>4. History(p)'
            BY Zenon DEF IInv
        <3>5. d.index = j
            BY <1>1, <3>2, <3>3, <3>4, Zenon DEF History
        <3>6. Round(d.leader) < Round(new.leader)
            BY <1>1, <3>2, <3>3, <3>4, Zenon DEF History
        <3>7. d.certificates \cap new.certificates = {}
            <4>1. j # n + 1
                BY <1>2, <3>2
            <4>2. sub_dags'[p][j].certificates \cap sub_dags'[p][n + 1].certificates = {}
                BY <3>2, <4>1, Zenon DEF CommittedOnce
            <4> QED
                BY <1>1, <3>3, <4>2, Zenon
        <3> QED
            BY <1>1, <1>2, <3>2, <3>5, <3>6, <3>7, Zenon DEF Round
    <2> QED
        BY <2>1, <2>2, Zenon
<1>5. [q \in Primaries |-> last_sub_dag'[q].index]
        = [[q \in Primaries |-> last_sub_dag[q].index] EXCEPT ![p] = @ + 1]
    BY <1>1, <1>2, Zenon
<1> HIDE DEF before, after
<1>6. /\ new \in after /\ new.index = [q \in Primaries |-> last_sub_dag[q].index][p] + 1
      /\ new \in before \/ \A d \in before : /\ d.index < new.index
                                             /\ d.leader[1] < new.leader[1]
                                             /\ d.certificates \cap new.certificates = {}
    BY <1>1, <1>3, <1>4, Zenon
<1> QED
    BY <1>3, <1>5, <1>6, Zenon DEF Order!Deliver, Order!Continues, before, after

\* The other steps deliver nothing.
LEMMA RefinesNext ==
    ASSUME IInv, IInv', Agreement', CommittedOnce', [Next]_vars
    PROVE  \/ Order!Next
           \/ UNCHANGED <<sub_dags, last_sub_dag>>
<1>1. ASSUME NEW p \in Primaries, commit_leader(p)
      PROVE  Order!Next
    BY <1>1, RefinesCommit, Zenon DEF Order!Next
<1>2. ASSUME NEW p \in Primaries, restart(p)
      PROVE  UNCHANGED <<sub_dags, last_sub_dag>>
    <2>1. TypeOK /\ History(p) /\ DOMAIN last_sub_dag = Primaries
        BY Zenon DEF IInv, TypeOK
    <2>2. get_latest_sub_dag(p) = last_sub_dag[p]
        BY <2>1, RecoveredState, Zenon
    <2>3. last_sub_dag' = [last_sub_dag EXCEPT ![p] = last_sub_dag[p]] /\ UNCHANGED sub_dags
        BY <1>2, <2>2, Zenon DEF restart, disk
    <2>4. last_sub_dag \in [Primaries -> SubDags]
        BY <2>1, Zenon DEF TypeOK
    <2> QED
        BY <2>3, <2>4, Zenon
<1>3. ASSUME NEW p \in Primaries, NEW c, accept_certificate(p, c)
      PROVE  UNCHANGED <<sub_dags, last_sub_dag>>
    BY <1>3, Zenon DEF accept_certificate, memory
<1>4. ASSUME NEW p \in Primaries, NEW c, process_collected(p, c)
      PROVE  UNCHANGED <<sub_dags, last_sub_dag>>
    BY <1>4, Zenon DEF process_collected, memory, disk
<1>5. ASSUME NEW p \in Primaries, NEW c, process_inserted(p, c)
      PROVE  UNCHANGED <<sub_dags, last_sub_dag>>
    BY <1>5, Zenon DEF process_inserted, disk
<1>6. ASSUME NEW p \in Primaries, NEW c, process_elects(p, c)
      PROVE  UNCHANGED <<sub_dags, last_sub_dag>>
    BY <1>6, Zenon DEF process_elects, disk
<1>7. CASE UNCHANGED vars
    BY <1>7, Zenon DEF vars, memory, disk
<1> QED
    BY <1>1, <1>2, <1>3, <1>4, <1>5, <1>6, <1>7, Zenon DEF Next

\* Bullshark implements CommitOrder: together the primaries deliver one sequence of
\* sub-dags, each a beginning of it.
THEOREM Refinement == Spec => CommitsInOrder
<1> DEFINE decided == UNION {{sub_dags[p][i] : i \in DOMAIN sub_dags[p]} : p \in Primaries}
           delivered == [p \in Primaries |-> last_sub_dag[p].index]
<1>1. Init => Order!Init
    BY RefinesInit
<1>2. IInv /\ IInv' /\ Agreement' /\ CommittedOnce' /\ [Next]_vars => [Order!Next]_<<decided, delivered>>
    <2> SUFFICES ASSUME IInv, IInv', Agreement', CommittedOnce', [Next]_vars
                 PROVE  Order!Next \/ UNCHANGED <<decided, delivered>>
        BY Zenon
    <2>1. UNCHANGED <<sub_dags, last_sub_dag>> => UNCHANGED <<decided, delivered>>
        OBVIOUS
    <2> QED
        BY <2>1, RefinesNext, Zenon
<1>3. Spec => [](IInv /\ Agreement /\ CommittedOnce)
    BY Invariant, PrimariesAgree, NothingTwice, PTL
<1> QED
    BY <1>1, <1>2, <1>3, PTL DEF Spec, CommitsInOrder, Order!Spec

-----------------------------------------------------------------------------
LEMMA InvHistoryPresent == IInv => HistoryPresent
<1> SUFFICES ASSUME IInv, NEW p \in Primaries
             PROVE  /\ \A c \in new_certificates[p] :
                           /\ leaders_to_commit[p] = {}
                           /\ Parents(network, c) \cap new_certificates[p] = {}
                           /\ Round(c) > gc_round(committed_round[p])
                           => check_parents(p, c)
                    /\ \A top \in leaders_to_commit[p] :
                           \A c \in order_dag(network, last_committed[p], top) :
                               /\ c \in dag[p]
                               /\ Round(c) > gc_round(Round(top)) + 1 => Parents(network, c) \subseteq dag[p]
    BY Zenon DEF HistoryPresent
<1> DEFINE g == gc_round(committed_round[p])
<1>1. /\ TypeOK /\ ClosedDag(p) /\ Collected(p) /\ WellFormed(network)
      /\ new_certificates[p] \subseteq DOMAIN network /\ certificate_store[p] \subseteq DOMAIN network
      /\ dag[p] \in SUBSET DOMAIN network /\ committed_round[p] \in Nat
    BY NetworkAssumption, Zenon DEF IInv, TypeOK
<1>2. /\ new_certificates[p] \subseteq certificate_store[p]
      /\ \A c \in certificate_store[p] :
             /\ Round(c) > g + 1 => Parents(network, c) \subseteq certificate_store[p]
             /\ Round(c) > g => c \in dag[p] \cup new_certificates[p]
      /\ \A c \in dag[p] : Round(c) > g + 1 => Parents(network, c) \subseteq dag[p]
    BY <1>1, Zenon DEF ClosedDag
<1>3. g \in Nat
    BY <1>1, GcRound, Zenon
<1>4. ASSUME NEW c \in new_certificates[p], Parents(network, c) \cap new_certificates[p] = {},
             ~ (Round(c) <= g + 1), NEW x \in Parents(network, c)
      PROVE  x \in dag[p]
    <2>1. Round(x) = Round(c) - 1 /\ Round(c) \in Nat
        BY <1>1, ParentType, CertificateType, Zenon
    <2>2. x \in certificate_store[p] /\ Round(x) > g
        BY <1>2, <1>3, <1>4, <2>1
    <2> QED
        BY <1>2, <1>4, <2>2, Zenon
<1>5. ASSUME NEW top \in leaders_to_commit[p], NEW c \in order_dag(network, last_committed[p], top)
      PROVE  /\ c \in dag[p]
             /\ Round(c) > gc_round(Round(top)) + 1 => Parents(network, c) \subseteq dag[p]
    <2>1. leaders_to_commit[p] \subseteq dag[p] /\ Electable(network, swap_table[p], committed_round[p], leaders_to_commit[p])
        BY <1>1, Zenon DEF Collected
    <2>2. top \in dag[p] /\ Round(top) \in Nat /\ Round(top) >= committed_round[p] + 2
        <3>1. top \in dag[p] /\ top \in DOMAIN network
            BY <1>1, <2>1, Zenon
        <3>2. PICK last \in leaders_to_commit[p] :
                  order_leaders(network, DOMAIN network, swap_table[p], committed_round[p], last,
                                leaders_to_commit[p])
            BY <2>1, Zenon DEF Electable
        <3>3. Round(top) >= committed_round[p] + 2
            BY <1>1, <3>2, ChainType, ZenonT(30)
        <3> QED
            BY <1>1, <3>1, <3>3, CertificateType, Zenon
    <2>3. gc_round(Round(top)) \in Nat /\ g <= gc_round(Round(top))
        <3>1. committed_round[p] \in Nat /\ Round(top) \in Nat /\ committed_round[p] <= Round(top)
            BY <1>1, <2>2, SMTT(30), Zenon
        <3> QED
            BY <3>1, GcRound, GcRoundMonotone, Zenon
    <2>4. c \in dag[p]
        <3> HIDE DEF g
        <3> QED
            BY <1>1, <1>2, <1>3, <2>2, <2>3, OrderDagInside, Zenon
    <2>5. Round(c) \in Nat
        BY <1>1, <2>4, CertificateType, Zenon
    <2> QED
        BY <1>2, <1>3, <2>3, <2>4, <2>5
<1> QED
    BY <1>4, <1>5, Zenon DEF check_parents

\* Consensus never misses a parent: check_parents and order_dag do not panic.
THEOREM NoMissingParent == Spec => []HistoryPresent
BY Invariant, InvHistoryPresent, PTL

LEMMA InvCausalOrder == IInv => CausalOrder
<1> SUFFICES ASSUME IInv, NEW p \in Primaries, NEW i \in DOMAIN sub_dags[p],
                    NEW c \in sub_dags[p][i].certificates, NEW x \in Parents(network, c),
                    ~ (Round(x) <= gc_round(Round(sub_dags[p][i].leader)))
             PROVE  \E j \in DOMAIN sub_dags[p] : j <= i /\ \E y \in sub_dags[p][j].certificates :
                        Origin(y) = Origin(x) /\ Round(y) >= Round(x)
    BY Zenon DEF CausalOrder
<1> DEFINE s == sub_dags[p]
           n == last_sub_dag[p].index
           lc == CommittedUpTo(s, i - 1)
           a == Origin(x)
           g == gc_round(Round(s[i].leader))
<1>1. TypeOK /\ History(p)
    BY Zenon DEF IInv
<1>2. /\ WellFormed(network) /\ n \in Nat /\ DOMAIN s = 1..n
      /\ s[i].leader \in DOMAIN network /\ Round(s[i].leader) \in Nat
      /\ s[i].certificates = order_dag(network, lc, s[i].leader)
      /\ c \in DOMAIN network
    BY <1>1, HistoryFacts, Zenon
<1>3. i \in 1..n /\ i - 1 \in 0..n /\ i \in Int
    BY <1>2
<1>4. /\ Round(x) = Round(c) - 1 /\ Round(c) \in Nat /\ a \in Authorities
    BY <1>2, ParentType, CertificateType, Zenon
<1>5. /\ lc \in [Authorities -> Nat]
      /\ lc[a] = 0 \/ \E j \in 1..(i - 1) : \E y \in s[j].certificates : Origin(y) = a /\ Round(y) = lc[a]
    BY <1>1, <1>3, <1>4, CommittedFacts, Zenon
<1>6. g \in Nat /\ g < Round(x) /\ Round(x) \in Int /\ Round(x) > 0 /\ lc[a] \in Nat
    <2>1. g \in Nat
        BY <1>2, GcRound, Zenon
    <2>2. lc[a] \in Nat
        BY <1>4, <1>5, Zenon
    <2> QED
        BY <1>4, <2>1, <2>2
<1>7. CASE Round(x) > lc[a]
    <2>1. x \in s[i].certificates
        <3> HIDE DEF lc
        <3> QED
            BY <1>2, <1>6, <1>7, OrderDagParents
    <2> QED
        BY <1>3, <1>6, <2>1
<1>8. CASE ~ (Round(x) > lc[a])
    <2>1. PICK j \in 1..(i - 1) : \E y \in s[j].certificates : Origin(y) = a /\ Round(y) = lc[a]
        BY <1>5, <1>6, <1>8, Zenon
    <2>2. PICK y \in s[j].certificates : Origin(y) = a /\ Round(y) = lc[a]
        BY <2>1, Zenon
    <2>3. Round(y) >= Round(x)
        BY <1>6, <1>8, <2>2, SMTT(30), Zenon
    <2>4. j \in DOMAIN s /\ j <= i
        BY <1>2, <1>3
    <2> QED
        BY <2>2, <2>3, <2>4, Zenon
<1> QED
    BY <1>7, <1>8, Zenon

\* The committed sequence is causal, up to what garbage collection leaves out.
THEOREM CommitsAreCausal == Spec => []CausalOrder
BY Invariant, InvCausalOrder, PTL

LEMMA InvRecoverable == IInv => Recoverable
<1> SUFFICES ASSUME IInv, NEW p \in Primaries
             PROVE  /\ last_committed[p] = stored_last_committed[p]
                    /\ committed_round[p] = recovered_round(p)
                    /\ last_sub_dag[p] = get_latest_sub_dag(p)
                    /\ swap_table[p] = from_store(p)
                    /\ get_latest_sub_dag(p).leader[1] = recovered_round(p)
    BY Zenon DEF Recoverable
<1>1. TypeOK /\ History(p)
    BY Zenon DEF IInv
<1>2. /\ recovered_round(p) = committed_round[p] /\ get_latest_sub_dag(p) = last_sub_dag[p]
      /\ from_store(p) = swap_table[p]
    BY <1>1, RecoveredState, Zenon
<1>3. /\ stored_last_committed[p] = last_committed[p]
      /\ committed_round[p] = last_sub_dag[p].leader[1]
    BY <1>1, Zenon DEF History, Round
<1> QED
    BY <1>2, <1>3, Zenon

\* A primary that stops at any point recovers the state it stopped in, and the
\* assertion of Consensus::spawn holds.
THEOREM NothingForgotten == Spec => []Recoverable
BY Invariant, InvRecoverable, PTL

-----------------------------------------------------------------------------
(***************************************************************************)
(* The leader schedule.  What it is made of is a table of the scores of    *)
(* some commit (from_store), so that these facts are about LeaderSwapTable *)
(* for all scores.                                                         *)
(***************************************************************************)

\* authorities_by_score_desc is a strict total order.
LEMMA TotalOrder ==
    ASSUME NEW scores \in [Authorities -> Nat],
           NEW a \in Authorities, NEW b \in Authorities
    PROVE  /\ ~ (Precedes(scores, a, b) /\ Precedes(scores, b, a))
           /\ a = b \/ Precedes(scores, a, b) \/ Precedes(scores, b, a)
           /\ ~ Precedes(scores, a, a)
           /\ \A c \in Authorities : Precedes(scores, c, a) /\ Precedes(scores, a, b)
                                         => Precedes(scores, c, b)
<1>1. a \in Nat /\ b \in Nat /\ \A c \in Authorities : c \in Nat
    BY ScheduleAssumption, Zenon
<1>2. scores[a] \in Nat /\ scores[b] \in Nat /\ \A c \in Authorities : scores[c] \in Nat
    BY Zenon
<1> QED
    BY <1>1, <1>2 DEF Precedes

\* Every place of the order of a set of authorities is taken.
LEMMA PlaceTaken ==
    ASSUME NEW scores \in [Authorities -> Nat], NEW G \in SUBSET Authorities,
           NEW n \in Nat, n < Cardinality(G)
    PROVE  \E a \in G : Cardinality({b \in G : Precedes(scores, b, a)}) = n
<1> DEFINE Before(a) == {b \in G : Precedes(scores, b, a)}
           T == 0..(Cardinality(G) - 1)
           f == [a \in G |-> Cardinality(Before(a))]
<1>1. IsFiniteSet(G) /\ Cardinality(G) \in Nat
    BY ScheduleAssumption, FS_Subset, FS_CardinalityType, Zenon
<1>2. ASSUME NEW a \in G
      PROVE  IsFiniteSet(Before(a)) /\ Cardinality(Before(a)) \in T
    <2>1. Before(a) \in SUBSET (G \ {a})
        BY TotalOrder, Zenon
    <2>2. IsFiniteSet(G \ {a}) /\ Cardinality(G \ {a}) = Cardinality(G) - 1
        BY <1>1, FS_RemoveElement, Zenon
    <2>3. IsFiniteSet(Before(a)) /\ Cardinality(Before(a)) <= Cardinality(G \ {a})
        BY <2>1, <2>2, FS_Subset, Zenon
    <2>4. Cardinality(Before(a)) \in Nat
        BY <2>3, FS_CardinalityType, Zenon
    <2> HIDE DEF Before
    <2> QED
        BY <1>1, <2>2, <2>3, <2>4
<1>3. ASSUME NEW a \in G, NEW b \in G, Precedes(scores, a, b)
      PROVE  Cardinality(Before(a)) # Cardinality(Before(b))
    <2>1. Before(a) \in SUBSET Before(b)
        BY <1>3, TotalOrder, Zenon
    <2>2. a \in Before(b) /\ a \notin Before(a)
        BY <1>3, TotalOrder, Zenon
    <2>3. IsFiniteSet(Before(b))
        BY <1>2, Zenon
    <2> HIDE DEF Before
    <2> QED
        BY <2>1, <2>2, <2>3, FS_Subset, Zenon
<1>4. ASSUME NEW a \in G, NEW b \in G, Cardinality(Before(a)) = Cardinality(Before(b))
      PROVE  a = b
    BY <1>3, <1>4, TotalOrder, Zenon
<1> HIDE DEF Before
<1>5. f \in [G -> T]
    BY <1>2, Zenon
<1>6. \A a, b \in G : f[a] = f[b] => a = b
    BY <1>4, Zenon
<1>7. IsFiniteSet(T) /\ Cardinality(T) = Cardinality(G)
    <2>1. 0 \in Int /\ Cardinality(G) - 1 \in Int /\ ~ (0 > Cardinality(G) - 1)
        BY <1>1
    <2>2. /\ IsFiniteSet(T)
          /\ Cardinality(T) = IF 0 > Cardinality(G) - 1 THEN 0 ELSE (Cardinality(G) - 1) - 0 + 1
        BY <2>1, FS_Interval, Zenon
    <2>3. Cardinality(T) = (Cardinality(G) - 1) - 0 + 1
        BY <2>1, <2>2, Zenon
    <2>4. (Cardinality(G) - 1) - 0 + 1 = Cardinality(G)
        BY <1>1
    <2> QED
        BY <2>2, <2>3, <2>4, Zenon
<1> HIDE DEF T
<1>8. f \in Injection(G, T)
    BY <1>5, <1>6, Zenon DEF Injection, IsInjective
<1>9. f \in Surjection(G, T)
    BY <1>7, <1>8, FS_Injection, Zenon
<1>10. n \in T
    BY <1>1 DEF T
<1>11. PICK a \in G : f[a] = n
    BY <1>9, <1>10, Zenon DEF Surjection
<1>12. Cardinality(Before(a)) = n
    BY <1>11, Zenon
<1> QED
    BY <1>12, Zenon DEF Before

\* What retrieve_first_nodes compares an accumulated stake with.
stake_limit == (BadNodesStakeThreshold * total_stake) \div 100

\* Twice the stake limit is less than the total stake.
LEMMA TwiceTheLimit == stake_limit \in Nat /\ 2 * stake_limit < total_stake
<1>1. total_stake \in Nat /\ total_stake > 0
    BY StakeAssumption, Zenon DEF total_stake
<1>2. BadNodesStakeThreshold \in Nat /\ BadNodesStakeThreshold <= 33
    BY ScheduleAssumption
<1>3. \A t, x \in Nat : x <= 33 => x * t \in Nat /\ x * t <= 33 * t
    OBVIOUS
<1>4. /\ BadNodesStakeThreshold * total_stake \in Nat
      /\ BadNodesStakeThreshold * total_stake <= 33 * total_stake
    BY <1>1, <1>2, <1>3, Zenon
<1>5. \A n \in Nat : n \div 100 \in Nat /\ 100 * (n \div 100) <= n
    OBVIOUS
<1>6. stake_limit \in Nat /\ 100 * stake_limit <= BadNodesStakeThreshold * total_stake
    BY <1>4, <1>5, Zenon DEF stake_limit
<1>7. \A s, m, t \in Nat : 100 * s <= m /\ m <= 33 * t /\ t > 0 => 2 * s < t
    OBVIOUS
<1> QED
    BY <1>1, <1>4, <1>6, <1>7, Zenon

\* Who is a good node and who is a bad one.
LEMMA TableNodes ==
    ASSUME NEW scores, NEW a \in Authorities
    PROVE  /\ a \in LeaderSwapTable(scores).good_nodes
                  <=> StakeOf[{b \in Authorities : ~ Precedes(scores, a, b)}] <= stake_limit
           /\ a \in LeaderSwapTable(scores).bad_nodes
                  <=> StakeOf[{b \in Authorities : ~ Precedes(scores, b, a)}] <= stake_limit
BY Zenon DEF LeaderSwapTable, retrieve_first_nodes, stake_limit

\* No node is both good and bad: up to it from either end there is all the stake.
LEMMA GoodAndBadApart ==
    ASSUME NEW scores \in [Authorities -> Nat]
    PROVE  LeaderSwapTable(scores).good_nodes \cap LeaderSwapTable(scores).bad_nodes = {}
<1> SUFFICES ASSUME NEW a \in Authorities,
                    a \in LeaderSwapTable(scores).good_nodes,
                    a \in LeaderSwapTable(scores).bad_nodes
             PROVE  FALSE
    BY Zenon DEF LeaderSwapTable, retrieve_first_nodes
<1> DEFINE S == {b \in Authorities : ~ Precedes(scores, a, b)}
           T == {b \in Authorities : ~ Precedes(scores, b, a)}
<1>1. StakeOf[S] <= stake_limit /\ StakeOf[T] <= stake_limit
    BY TableNodes, Zenon
<1>2. S \in SUBSET Authorities /\ T \in SUBSET Authorities /\ S \cap T \in SUBSET Authorities
    BY Zenon
<1>3. S \cup T = Authorities
    BY TotalOrder, Zenon
<1> HIDE DEF S, T
<1>4. /\ StakeOf[S] \in Nat /\ StakeOf[T] \in Nat /\ StakeOf[S \cap T] \in Nat
      /\ StakeOf[Authorities] + StakeOf[S \cap T] = StakeOf[S] + StakeOf[T]
    BY <1>2, <1>3, StakeAssumption, Zenon
<1>5. total_stake \in Nat /\ StakeOf[Authorities] = total_stake
    BY ThresholdArithmetic, Zenon DEF total_stake
<1> QED
    BY <1>1, <1>4, <1>5, TwiceTheLimit

\* LeaderSwapTable::swap chooses one of the good nodes.
LEMMA SwapChoosesGood ==
    ASSUME NEW scores \in [Authorities -> Nat], NEW k \in Nat,
           LeaderSwapTable(scores).good_nodes # {}
    PROVE  Ranked(LeaderSwapTable(scores), k % Cardinality(LeaderSwapTable(scores).good_nodes))
               \in LeaderSwapTable(scores).good_nodes
<1> DEFINE G == LeaderSwapTable(scores).good_nodes
           n == k % Cardinality(G)
<1>1. G \in SUBSET Authorities /\ LeaderSwapTable(scores).scores = scores
    BY Zenon DEF LeaderSwapTable, retrieve_first_nodes
<1>2. IsFiniteSet(G) /\ Cardinality(G) \in Nat /\ Cardinality(G) # 0
    BY <1>1, ScheduleAssumption, FS_Subset, FS_CardinalityType, FS_EmptySet, Zenon
<1>3. \A m \in Nat : m # 0 => k % m \in Nat /\ k % m < m
    OBVIOUS
<1>4. n \in Nat /\ n < Cardinality(G)
    BY <1>2, <1>3, Zenon
<1> HIDE DEF G, n
<1>5. \E a \in G : Cardinality({b \in G : Precedes(scores, b, a)}) = n
    BY <1>1, <1>4, PlaceTaken, Zenon
<1>6. Ranked(LeaderSwapTable(scores), n)
          = CHOOSE a \in G : Cardinality({b \in G : Precedes(scores, b, a)}) = n
    BY <1>1, Zenon DEF Ranked, G
<1>7. Ranked(LeaderSwapTable(scores), n) \in G
    BY <1>5, <1>6, Zenon
<1> QED
    BY <1>7, Zenon DEF G, n

\* The schedule in use is the table of some scores, or swaps no one.
LEMMA TableInUse ==
    ASSUME IInv, NEW p \in Primaries
    PROVE  \/ swap_table[p] = NoSwaps
           \/ \E scores \in [Authorities -> Nat] : swap_table[p] = LeaderSwapTable(scores)
<1> DEFINE finals == {i \in DOMAIN sub_dags[p] : sub_dags[p][i].final_of_schedule}
<1>1. swap_table[p] = from_store(p)
    BY InvRecoverable, Zenon DEF Recoverable
<1>2. TypeOK
    BY Zenon DEF IInv
<1>3. CASE finals = {}
    BY <1>1, <1>3, Zenon DEF from_store
<1>4. CASE finals # {}
    <2>1. finals \in SUBSET Nat /\ \A i \in finals : i <= last_sub_dag[p].index
        BY <1>2 DEF TypeOK, SubDags
    <2>2. last_sub_dag[p].index \in Nat
        BY <1>2, Zenon DEF TypeOK, SubDags
    <2> HIDE DEF finals
    <2>3. \E m \in finals : \A n \in finals : n <= m
        BY <2>1, <2>2, <1>4, Greatest, Zenon
    <2>4. highest(finals) \in finals
        BY <2>3, Zenon DEF highest
    <2>5. highest(finals) \in DOMAIN sub_dags[p]
        BY <2>4, Zenon DEF finals
    <2>6. sub_dags[p][highest(finals)] \in SubDags
        BY <1>2, <2>5, Zenon DEF TypeOK
    <2>7. sub_dags[p][highest(finals)].scores \in [Authorities -> Nat]
        BY <2>6, Zenon DEF SubDags
    <2>8. swap_table[p] = LeaderSwapTable(sub_dags[p][highest(finals)].scores)
        BY <1>1, <1>4, Zenon DEF from_store, finals
    <2> QED
        BY <2>7, <2>8, Zenon
<1> QED
    BY <1>3, <1>4, Zenon

\* The good standing of the leaders, of one schedule,
LEMMA TableLeaders ==
    ASSUME NEW scores \in [Authorities -> Nat], LeaderSwapTable(scores).good_nodes # {},
           NEW r \in DOMAIN BaseLeader
    PROVE  leader(LeaderSwapTable(scores), r) \in Authorities \ LeaderSwapTable(scores).bad_nodes
<1>1. BaseLeader[r] \in Authorities /\ Draw[r] \in Nat
    BY ScheduleAssumption, Zenon
<1>2. LeaderSwapTable(scores).good_nodes \subseteq Authorities
    BY Zenon DEF LeaderSwapTable, retrieve_first_nodes
<1>3. CASE BaseLeader[r] \in LeaderSwapTable(scores).bad_nodes
    <2>1. leader(LeaderSwapTable(scores), r) \in LeaderSwapTable(scores).good_nodes
        BY <1>1, <1>3, SwapChoosesGood, Zenon DEF leader
    <2> QED
        BY <2>1, <1>2, GoodAndBadApart, Zenon
<1>4. CASE BaseLeader[r] \notin LeaderSwapTable(scores).bad_nodes
    BY <1>1, <1>4, Zenon DEF leader
<1> QED
    BY <1>3, <1>4, Zenon

\* and of the schedules in use.
LEMMA InvLeaders == IInv => LeadersInGoodStanding
<1> SUFFICES ASSUME IInv, NEW p \in Primaries, swap_table[p].good_nodes # {},
                    NEW r \in DOMAIN BaseLeader
             PROVE  leader(swap_table[p], r) \in Authorities \ swap_table[p].bad_nodes
    BY Zenon DEF LeadersInGoodStanding
<1>1. NoSwaps.good_nodes = {}
    BY Zenon DEF NoSwaps
<1>2. PICK scores \in [Authorities -> Nat] : swap_table[p] = LeaderSwapTable(scores)
    BY <1>1, TableInUse, Zenon
<1> QED
    BY <1>2, TableLeaders, Zenon

\* LeaderSchedule::leader: with any stakes, scores and restarts, every leader is of
\* the committee, and one that is among the worst scorers is swapped for one that is
\* not, as long as there are good nodes.
THEOREM LeadersAreGood == Spec => []LeadersInGoodStanding
BY Invariant, InvLeaders, PTL

\* Each authority has at most the stake that retrieve_first_nodes admits, or each has
\* more.  The voting power of validators, which is their stake in the committee, is
\* capped at the larger of a tenth and an equal share (voting_power.move): with the
\* threshold of 20 in use, five validators or more have at most the limit each, and
\* four or less have more.
StakesOnOneSide ==
    \/ \A a \in Authorities : StakeOf[{a}] <= stake_limit
    \/ \A a \in Authorities : StakeOf[{a}] > stake_limit

\* `There should be at least one good node available' when a leader is a bad one.
GoodNodeAvailable ==
    \A p \in Primaries : swap_table[p].bad_nodes # {} => swap_table[p].good_nodes # {}

\* With such stakes a table that has a bad node has a good one: the best scorer, if
\* all are within the limit.
LEMMA BestIsGood ==
    ASSUME NEW scores \in [Authorities -> Nat], StakesOnOneSide,
           NEW bad \in LeaderSwapTable(scores).bad_nodes
    PROVE  LeaderSwapTable(scores).good_nodes # {}
<1>1. bad \in Authorities
    BY Zenon DEF LeaderSwapTable, retrieve_first_nodes
<1>2. CASE \A a \in Authorities : StakeOf[{a}] <= stake_limit
    <2>1. IsFiniteSet(Authorities) /\ Cardinality(Authorities) \in Nat /\ Cardinality(Authorities) # 0
        BY <1>1, ScheduleAssumption, FS_CardinalityType, FS_EmptySet, Zenon
    <2>2. 0 \in Nat /\ 0 < Cardinality(Authorities) /\ Authorities \in SUBSET Authorities
        BY <2>1
    <2>3. PICK a \in Authorities : Cardinality({b \in Authorities : Precedes(scores, b, a)}) = 0
        BY <2>2, PlaceTaken, Zenon
    <2>4. IsFiniteSet({b \in Authorities : Precedes(scores, b, a)})
        BY <2>1, FS_Subset, Zenon
    <2>5. {b \in Authorities : Precedes(scores, b, a)} = {}
        BY <2>3, <2>4, FS_EmptySet, Zenon
    <2>6. {b \in Authorities : ~ Precedes(scores, a, b)} = {a}
        BY <2>5, TotalOrder, Zenon
    <2> QED
        BY <1>2, <2>6, TableNodes, Zenon
<1>3. CASE \A a \in Authorities : StakeOf[{a}] > stake_limit
    <2> DEFINE T == {b \in Authorities : ~ Precedes(scores, b, bad)}
    <2>1. StakeOf[T] <= stake_limit
        BY <1>1, TableNodes, Zenon
    <2>2. {bad} \subseteq T /\ T \subseteq Authorities
        BY <1>1, TotalOrder, Zenon
    <2> HIDE DEF T
    <2>3. StakeOf[{bad}] \in Nat /\ StakeOf[T] \in Nat /\ StakeOf[{bad}] <= StakeOf[T]
        BY <2>2, StakeMonotone, Zenon
    <2>4. StakeOf[{bad}] > stake_limit
        BY <1>1, <1>3, Zenon
    <2>5. FALSE
        BY <2>1, <2>3, <2>4, TwiceTheLimit
    <2> QED
        BY <2>5, Zenon
<1> QED
    BY <1>2, <1>3, Zenon DEF StakesOnOneSide

\* LeaderSwapTable::swap does not panic: with capped voting power, a schedule that
\* has someone to swap always has someone to swap it with, after restarts as well.
THEOREM SwapFindsGoodNode == StakesOnOneSide => (Spec => []GoodNodeAvailable)
<1> SUFFICES ASSUME StakesOnOneSide PROVE Spec => []GoodNodeAvailable
    BY Zenon
<1>1. IInv => GoodNodeAvailable
    <2> SUFFICES ASSUME IInv, NEW p \in Primaries, swap_table[p].bad_nodes # {}
                 PROVE  swap_table[p].good_nodes # {}
        BY ZenonT(30) DEF GoodNodeAvailable
    <2>1. NoSwaps.bad_nodes = {}
        BY Zenon DEF NoSwaps
    <2>2. PICK scores \in [Authorities -> Nat] : swap_table[p] = LeaderSwapTable(scores)
        BY <2>1, TableInUse, Zenon
    <2> QED
        BY <2>2, BestIsGood, Zenon
<1> QED
    BY <1>1, Invariant, PTL
=============================================================================
