------------------------- MODULE BullsharkInvariant -------------------------
(***************************************************************************)
(* Facts about the DAG and the leaders elected on it, for every DAG that   *)
(* Bullshark admits, every stake and every schedule, and the inductive     *)
(* invariant of Bullshark, which rests on them, with what its steps do.    *)
(***************************************************************************)
EXTENDS Bullshark, CommitteeTheorems

-----------------------------------------------------------------------------
(***************************************************************************)
(* The DAG: a leader with f + 1 support is reached by all that comes two   *)
(* rounds later, so that whoever commits collects the same leaders up to   *)
(* it.                                                                     *)
(***************************************************************************)

\* A certificate is a pair of its round and its author.
LEMMA CertificateType ==
    ASSUME NEW N, WellFormed(N), NEW c \in DOMAIN N
    PROVE  /\ Round(c) \in Nat /\ Round(c) >= 1
           /\ Origin(c) \in Authorities
           /\ c = <<Round(c), Origin(c)>>
           /\ N[c] \subseteq Authorities
<1>1. c \in (Nat \ {0}) \X Authorities
    BY Zenon DEF WellFormed
<1>2. N[c] \subseteq Authorities
    BY Zenon DEF WellFormed
<1> QED
    BY <1>1, <1>2 DEF Round, Origin

\* A parent is of the round below.
LEMMA ParentType ==
    ASSUME NEW N, WellFormed(N), NEW c \in DOMAIN N, NEW x \in Parents(N, c)
    PROVE  /\ Round(x) = Round(c) - 1
           /\ Origin(x) \in N[c]
           /\ x = <<Round(c) - 1, Origin(x)>>
BY CertificateType DEF Parents, Round, Origin

\* A certificate reaches its parents,
LEMMA LinkedParent ==
    ASSUME NEW N, WellFormed(N), NEW D \in SUBSET DOMAIN N,
           NEW c \in DOMAIN N, NEW x \in D, x \in Parents(N, c)
    PROVE  linked(N, D, c, x)
<1>1. /\ Round(x) \in Nat /\ Round(c) \in Nat /\ Round(x) = Round(c) - 1
      /\ Origin(x) \in Authorities /\ Origin(c) \in Authorities
      /\ x = <<Round(x), Origin(x)>> /\ c = <<Round(c), Origin(c)>>
      /\ Origin(x) \in N[c]
    BY CertificateType, ParentType, Zenon
<1> DEFINE path == [r \in Round(x)..Round(c) |-> IF r = Round(c) THEN Origin(c) ELSE Origin(x)]
<1>2. path \in [Round(x)..Round(c) -> Authorities]
    BY <1>1, Zenon
<1>3. path[Round(c)] = Origin(c) /\ path[Round(x)] = Origin(x)
    BY <1>1
<1>4. \A r \in Round(x)..(Round(c) - 1) : r = Round(x) /\ r + 1 = Round(c)
    BY <1>1
<1>5. \A r \in Round(x)..(Round(c) - 1) : <<r, path[r]>> \in D /\ path[r] \in N[<<r + 1, path[r + 1]>>]
    BY <1>1, <1>3, <1>4, Zenon
<1> HIDE DEF path
<1> QED
    BY <1>2, <1>3, <1>5, Zenon DEF linked

\* and what a parent reaches.
LEMMA LinkedThroughParent ==
    ASSUME NEW N, WellFormed(N), NEW D \in SUBSET DOMAIN N,
           NEW c \in DOMAIN N, NEW x \in D, x \in Parents(N, c),
           NEW t \in DOMAIN N, Round(t) <= Round(x), linked(N, D, x, t)
    PROVE  linked(N, D, c, t)
<1>1. /\ Round(x) \in Nat /\ Round(c) \in Nat /\ Round(t) \in Nat /\ Round(x) = Round(c) - 1
      /\ Origin(x) \in Authorities /\ Origin(c) \in Authorities
      /\ x = <<Round(x), Origin(x)>> /\ c = <<Round(c), Origin(c)>>
      /\ Origin(x) \in N[c]
    BY CertificateType, ParentType, Zenon
<1>2. PICK way \in [Round(t)..Round(x) -> Authorities] :
          /\ way[Round(x)] = Origin(x)
          /\ way[Round(t)] = Origin(t)
          /\ \A r \in Round(t)..(Round(x) - 1) : <<r, way[r]>> \in D
          /\ \A r \in Round(t)..(Round(x) - 1) : way[r] \in N[<<r + 1, way[r + 1]>>]
    BY Zenon DEF linked
<1> DEFINE path == [r \in Round(t)..Round(c) |-> IF r = Round(c) THEN Origin(c) ELSE way[r]]
<1>3. path \in [Round(t)..Round(c) -> Authorities]
    BY <1>1, <1>2
<1>4. path[Round(c)] = Origin(c) /\ path[Round(t)] = Origin(t)
    BY <1>1, <1>2
<1>5. ASSUME NEW r \in Round(t)..(Round(c) - 1)
      PROVE  <<r, path[r]>> \in D /\ path[r] \in N[<<r + 1, path[r + 1]>>]
    <2>1. r \in Int /\ path[r] = way[r]
        BY <1>1
    <2>2. CASE r = Round(x)
        <3>1. path[r] = Origin(x) /\ path[r + 1] = Origin(c) /\ r + 1 = Round(c)
            BY <2>1, <2>2, <1>1, <1>2
        <3> QED
            BY <3>1, <2>2, <1>1, Zenon
    <2>3. CASE r # Round(x)
        <3>1. r \in Round(t)..(Round(x) - 1) /\ r + 1 \in Round(t)..Round(c) /\ r + 1 # Round(c)
            BY <2>1, <2>3, <1>1
        <3>2. path[r + 1] = way[r + 1]
            BY <3>1, Zenon
        <3> QED
            BY <3>1, <3>2, <2>1, <1>2, Zenon
    <2> QED
        BY <2>2, <2>3, Zenon
<1> HIDE DEF path
<1> QED
    BY <1>3, <1>4, <1>5, Zenon DEF linked

\* Going down from a certificate of D one stays in D, as long as D has the parents
\* of its certificates above round g + 1.
LEMMA LinkedInside ==
    ASSUME NEW N, WellFormed(N), NEW D \in SUBSET DOMAIN N, NEW E \in SUBSET DOMAIN N,
           NEW g \in Nat, \A d \in D : Round(d) > g + 1 => Parents(N, d) \subseteq D,
           NEW c \in D, NEW t \in DOMAIN N, g < Round(t), Round(t) <= Round(c),
           linked(N, E, c, t)
    PROVE  linked(N, D \cap E, c, t) /\ t \in D
<1>1. /\ Round(c) \in Nat /\ Round(t) \in Nat
      /\ c = <<Round(c), Origin(c)>> /\ t = <<Round(t), Origin(t)>>
    BY CertificateType, Zenon
<1>2. PICK path \in [Round(t)..Round(c) -> Authorities] :
          /\ path[Round(c)] = Origin(c)
          /\ path[Round(t)] = Origin(t)
          /\ \A r \in Round(t)..(Round(c) - 1) : <<r, path[r]>> \in E
          /\ \A r \in Round(t)..(Round(c) - 1) : path[r] \in N[<<r + 1, path[r + 1]>>]
    BY Zenon DEF linked
<1> DEFINE Outside == {k \in 0..(Round(c) - Round(t)) : <<Round(c) - k, path[Round(c) - k]>> \notin D}
<1>3. Outside = {}
    <2>1. SUFFICES ASSUME Outside # {}
                   PROVE  FALSE
        BY Zenon
    <2>2. Outside \in SUBSET Nat
        BY <1>1
    <2>3. PICK k \in Outside : \A j \in Outside : k <= j
        <3> HIDE DEF Outside
        <3> QED
            BY <2>1, <2>2, Least, Zenon
    <2>4. k \in Nat /\ k <= Round(c) - Round(t)
        BY <1>1
    <2>5. k # 0
        <3>1. <<Round(c) - 0, path[Round(c) - 0]>> = c
            BY <1>1, <1>2
        <3> QED
            BY <3>1, Zenon
    <2>6. k - 1 \in 0..(Round(c) - Round(t)) /\ k - 1 \notin Outside
        BY <2>3, <2>4, <2>5, <2>2, <1>1
    <2> DEFINE r == Round(c) - k
    <2>7. /\ r \in Round(t)..(Round(c) - 1) /\ r \in Nat /\ r > g
          /\ Round(c) - (k - 1) = r + 1
        BY <2>4, <2>5, <1>1
    <2> DEFINE x == <<r + 1, path[r + 1]>>
    <2>8. x \in D
        BY <2>6, <2>7, Zenon
    <2>9. Round(x) = r + 1
        BY Zenon DEF Round
    <2>10. Parents(N, x) \subseteq D
        BY <2>7, <2>8, <2>9
    <2>11. <<r, path[r]>> \in Parents(N, x)
        <3>1. path[r] \in N[x]
            BY <2>7, <1>2, Zenon
        <3>2. Round(x) - 1 = r
            BY <2>7, <2>9
        <3> QED
            BY <3>1, <3>2, Zenon DEF Parents
    <2> QED
        BY <2>10, <2>11, Zenon
<1>4. ASSUME NEW r \in Round(t)..Round(c)
      PROVE  <<r, path[r]>> \in D
    <2>1. Round(c) - r \in 0..(Round(c) - Round(t)) /\ Round(c) - (Round(c) - r) = r
        BY <1>1
    <2> QED
        BY <2>1, <1>3, Zenon
<1>5. t \in D
    <2>1. Round(t) \in Round(t)..Round(c)
        BY <1>1
    <2> QED
        BY <2>1, <1>4, <1>1, <1>2, Zenon
<1>6. \A r \in Round(t)..(Round(c) - 1) : <<r, path[r]>> \in D \cap E
    <2>1. \A r \in Round(t)..(Round(c) - 1) : r \in Round(t)..Round(c)
        BY <1>1
    <2> QED
        BY <2>1, <1>4, <1>2, Zenon
<1> QED
    BY <1>2, <1>5, <1>6, Zenon DEF linked

\* A larger part of the DAG has the paths of a smaller one.
LEMMA LinkedMonotone ==
    ASSUME NEW N, NEW D, NEW E, D \subseteq E, NEW c, NEW t, linked(N, D, c, t)
    PROVE  linked(N, E, c, t)
BY Zenon DEF linked

\* A quorum and a set with f + 1 stake have a member in common.
LEMMA QuorumMeetsValidity ==
    ASSUME NEW S \in SUBSET Authorities, NEW T \in SUBSET Authorities,
           reached_quorum(S), reached_validity(T)
    PROVE  \E a \in Authorities : a \in S /\ a \in T
<1> SUFFICES ASSUME S \cap T = {}
             PROVE  FALSE
    BY Zenon
<1>1. StakeOf[S \cup T] + StakeOf[S \cap T] = StakeOf[S] + StakeOf[T]
    BY StakeAssumption, Zenon
<1>2. StakeOf[S \cup T] \in Nat /\ StakeOf[S \cup T] <= total_stake
    BY StakeMonotone, Zenon DEF total_stake
<1>3. StakeOf[S] \in Nat /\ StakeOf[T] \in Nat /\ StakeOf[S \cap T] = 0
    BY StakeAssumption, Zenon
<1>4. StakeOf[S] >= quorum_threshold /\ StakeOf[T] >= validity_threshold
    BY Zenon DEF reached_quorum, reached_validity
<1>5. quorum_threshold + validity_threshold > total_stake
    <2>1. total_stake \in Nat
        BY StakeAssumption, Zenon DEF total_stake
    <2>2. /\ (2 * total_stake) \div 3 \in Nat
          /\ 2 * total_stake <= 3 * ((2 * total_stake) \div 3) + 2
        BY <2>1
    <2>3. /\ (total_stake + 2) \div 3 \in Nat
          /\ total_stake <= 3 * ((total_stake + 2) \div 3)
        BY <2>1
    <2> QED
        BY <2>1, <2>2, <2>3 DEF quorum_threshold, validity_threshold
<1>6. total_stake \in Nat /\ quorum_threshold \in Nat /\ validity_threshold \in Nat
    BY ThresholdArithmetic, Zenon
<1> QED
    BY <1>1, <1>2, <1>3, <1>4, <1>5, <1>6

\* A leader with f + 1 support is reached by every certificate two or more rounds
\* above it: a quorum of parents meets the support, and every certificate has some
\* parent.
LEMMA SupportReached ==
    ASSUME NEW N, WellFormed(N), NEW t \in DOMAIN N, supported(N, DOMAIN N, t),
           NEW c \in DOMAIN N, Round(c) >= Round(t) + 2
    PROVE  linked(N, DOMAIN N, c, t)
<1> DEFINE Votes == {a \in Authorities : /\ <<Round(t) + 1, a>> \in DOMAIN N
                                         /\ Origin(t) \in N[<<Round(t) + 1, a>>]}
           Unlinked == {d \in DOMAIN N : Round(d) >= Round(t) + 2 /\ ~ linked(N, DOMAIN N, d, t)}
           Bad == {Round(d) : d \in Unlinked}
<1>1. Round(t) \in Nat /\ Origin(t) \in Authorities /\ t = <<Round(t), Origin(t)>>
    BY CertificateType, Zenon
<1>2. reached_validity(Votes)
    BY Zenon DEF supported
<1> SUFFICES ASSUME c \in Unlinked
             PROVE  FALSE
    BY Zenon
<1>3. Bad \in SUBSET Nat /\ Bad # {}
    BY CertificateType, Zenon
<1>4. PICK n \in Bad : \A m \in Bad : n <= m
    <2> HIDE DEF Bad
    <2> QED
        BY <1>3, Least, Zenon
<1>5. PICK d \in Unlinked : n = Round(d)
    BY Zenon
<1>6. /\ d \in DOMAIN N /\ Round(d) \in Nat /\ Round(d) >= Round(t) + 2
      /\ ~ linked(N, DOMAIN N, d, t)
    BY CertificateType, Zenon
<1>7. /\ N[d] \in SUBSET Authorities /\ reached_quorum(N[d])
      /\ Parents(N, d) \subseteq DOMAIN N
    BY <1>1, <1>6 DEF WellFormed
<1>8. \E a \in Authorities : a \in N[d] /\ (a \in Votes \/ Round(d) # Round(t) + 2)
    <2>1. Votes \in SUBSET Authorities
        BY Zenon
    <2> HIDE DEF Votes
    <2> QED
        BY <2>1, <1>2, <1>7, QuorumMeetsValidity, Zenon
<1>9. PICK a \in N[d] : a \in Votes \/ Round(d) # Round(t) + 2
    BY <1>8, Zenon
<1> DEFINE x == <<Round(d) - 1, a>>
<1>10. x \in Parents(N, d) /\ x \in DOMAIN N /\ Round(x) = Round(d) - 1
    BY <1>7, <1>9, Zenon DEF Parents, Round
<1>11. linked(N, DOMAIN N, x, t)
    <2>1. CASE Round(d) = Round(t) + 2
        <3>1. x = <<Round(t) + 1, a>> /\ a \in Votes
            BY <2>1, <1>1, <1>9
        <3>2. Origin(t) \in N[x]
            BY <3>1, Zenon
        <3>3. Round(x) - 1 = Round(t)
            BY <2>1, <1>1, <1>10
        <3>4. t \in Parents(N, x)
            BY <3>2, <3>3, <1>1, Zenon DEF Parents
        <3> QED
            BY <3>4, <1>10, LinkedParent, Zenon
    <2>2. CASE Round(d) # Round(t) + 2
        <3>1. Round(x) >= Round(t) + 2 /\ Round(x) < n
            BY <2>2, <1>1, <1>5, <1>6, <1>10
        <3>2. Round(x) \in Nat
            BY <1>6, <1>10, <3>1, <1>1
        <3>3. Round(x) \notin Bad
            <4> HIDE DEF Bad, x
            <4>1. n \in Nat
                BY <1>3, <1>4, Zenon
            <4> QED
                BY <4>1, <3>1, <3>2, <1>4
        <3> QED
            BY <3>1, <3>3, <1>10, Zenon
    <2> QED
        BY <2>1, <2>2, Zenon
<1>12. Round(t) <= Round(x)
    BY <1>1, <1>6, <1>10
<1>13. linked(N, DOMAIN N, d, t)
    BY <1>6, <1>10, <1>11, <1>12, LinkedThroughParent, Zenon
<1> QED
    BY <1>6, <1>13, Zenon

-----------------------------------------------------------------------------
\* A leader is the certificate of its round in the schedule.
LEMMA LeaderType ==
    ASSUME NEW table, NEW committed \in Nat, NEW round \in Int,
           NEW l \in leaders(table, committed, round)
    PROVE  /\ Round(l) \in Nat /\ Round(l) >= committed + 2 /\ Round(l) <= round
           /\ Round(l) % 2 = 0
           /\ l = leader_certificate(table, Round(l))
<1>1. PICK r \in {s \in (committed + 2)..round : s % 2 = 0} : l = leader_certificate(table, r)
    BY Zenon DEF leaders
<1>2. Round(l) = r
    BY <1>1, Zenon DEF leader_certificate, Round
<1> QED
    BY <1>1, <1>2

LEMMA LeaderOfRound ==
    ASSUME NEW table, NEW committed \in Nat, NEW round \in Int,
           NEW r \in Nat, r >= committed + 2, r <= round, r % 2 = 0
    PROVE  leader_certificate(table, r) \in leaders(table, committed, round)
<1>1. r \in {s \in (committed + 2)..round : s % 2 = 0}
    OBVIOUS
<1> QED
    BY <1>1, Zenon DEF leaders

\* One leader a round.
LEMMA OneLeader ==
    ASSUME NEW table, NEW committed \in Nat, NEW m \in Int, NEW n \in Int,
           NEW k \in leaders(table, committed, m), NEW l \in leaders(table, committed, n),
           Round(k) = Round(l)
    PROVE  k = l
<1>1. k = leader_certificate(table, Round(k)) /\ l = leader_certificate(table, Round(l))
    BY LeaderType, Zenon
<1> QED
    BY <1>1, Zenon

\* What holds of the leaders order_leaders collects on the whole DAG.
LEMMA ChainType ==
    ASSUME NEW N, WellFormed(N), NEW table, NEW committed \in Nat, NEW top, NEW C,
           order_leaders(N, DOMAIN N, table, committed, top, C)
    PROVE  /\ top \in C /\ top \in DOMAIN N /\ Round(top) \in Nat
           /\ C \subseteq DOMAIN N
           /\ C \subseteq leaders(table, committed, Round(top))
           /\ \A l \in C : /\ Round(l) \in Nat /\ Round(l) >= committed + 2
                           /\ Round(l) <= Round(top) /\ Round(l) % 2 = 0
<1>1. top \in C /\ C \subseteq DOMAIN N /\ C \subseteq leaders(table, committed, Round(top))
    BY Zenon DEF order_leaders
<1>2. Round(top) \in Nat
    BY <1>1, CertificateType, Zenon
<1>3. ASSUME NEW l \in C
      PROVE  /\ Round(l) \in Nat /\ Round(l) >= committed + 2
             /\ Round(l) <= Round(top) /\ Round(l) % 2 = 0
    <2>1. Round(top) \in Int /\ l \in leaders(table, committed, Round(top))
        BY <1>1, <1>2
    <2> QED
        BY <2>1, LeaderType, Zenon
<1> QED
    BY <1>1, <1>2, <1>3, Zenon

\* The lowest leader collected above a round.
LEMMA NextLeader ==
    ASSUME NEW C, \A l \in C : Round(l) \in Nat, NEW r \in Nat, NEW b \in C, r < Round(b)
    PROVE  \E m \in C : /\ r < Round(m)
                        /\ \A k \in C : r < Round(k) => Round(m) <= Round(k)
<1> DEFINE Above == {Round(k) : k \in {j \in C : r < Round(j)}}
<1>1. Above \in SUBSET Nat /\ Above # {}
    BY Zenon
<1>2. PICK n \in Above : \A i \in Above : n <= i
    <2> HIDE DEF Above
    <2> QED
        BY <1>1, Least, Zenon
<1>3. PICK m \in C : r < Round(m) /\ n = Round(m)
    BY Zenon
<1>4. ASSUME NEW k \in C, r < Round(k)
      PROVE  Round(m) <= Round(k)
    <2>1. Round(k) \in Above
        BY <1>4, Zenon
    <2> QED
        BY <2>1, <1>2, <1>3, Zenon
<1> QED
    BY <1>3, <1>4, Zenon

\* A leader with f + 1 support is among those collected from any later leader.
LEMMA SupportedIsCollected ==
    ASSUME NEW N, WellFormed(N), NEW table, NEW committed \in Nat,
           NEW a, NEW A, order_leaders(N, DOMAIN N, table, committed, a, A),
           NEW b, NEW B, order_leaders(N, DOMAIN N, table, committed, b, B),
           Round(a) <= Round(b), supported(N, DOMAIN N, a)
    PROVE  a \in B
<1>1. /\ a \in DOMAIN N /\ Round(a) \in Nat /\ Round(a) >= committed + 2 /\ Round(a) % 2 = 0
      /\ a \in leaders(table, committed, Round(a))
    BY ChainType, Zenon
<1>2. /\ b \in B /\ Round(b) \in Nat /\ Round(b) % 2 = 0 /\ B \subseteq DOMAIN N
      /\ b \in leaders(table, committed, Round(b))
      /\ \A l \in B : Round(l) \in Nat /\ Round(l) % 2 = 0
    BY ChainType, Zenon
<1>3. CASE Round(a) = Round(b)
    BY <1>1, <1>2, <1>3, OneLeader
<1>4. CASE Round(a) < Round(b)
    <2>1. Round(a) <= Round(b) - 2
        BY <1>1, <1>2, <1>4
    <2>2. a \in leaders(table, committed, Round(b) - 2)
        <3>1. a = leader_certificate(table, Round(a))
            BY <1>1, LeaderType
        <3>2. leader_certificate(table, Round(a)) \in leaders(table, committed, Round(b) - 2)
            BY <1>1, <1>2, <2>1, LeaderOfRound
        <3> QED
            BY <3>1, <3>2, Zenon
    <2>3. PICK m \in B : /\ Round(a) < Round(m)
                         /\ \A k \in B : Round(a) < Round(k) => Round(m) <= Round(k)
        BY <1>1, <1>2, <1>4, NextLeader, Zenon
    <2>4. Round(m) >= Round(a) + 2 /\ m \in DOMAIN N
        BY <1>1, <1>2, <2>3
    <2>5. linked(N, DOMAIN N, m, a)
        BY <1>1, <2>4, SupportReached, Zenon
    <2> QED
        BY <1>1, <2>2, <2>3, <2>5, Zenon DEF order_leaders
<1> QED
    BY <1>1, <1>2, <1>3, <1>4

\* Up to a leader collected from two others, the same leaders are collected.
LEMMA SameLeadersBelow ==
    ASSUME NEW N, WellFormed(N), NEW table, NEW committed \in Nat,
           NEW a, NEW A, order_leaders(N, DOMAIN N, table, committed, a, A),
           NEW b, NEW B, order_leaders(N, DOMAIN N, table, committed, b, B),
           Round(a) <= Round(b), a \in B,
           NEW l \in A \cup B, Round(l) <= Round(a)
    PROVE  l \in A /\ l \in B
<1> DEFINE Differ == {k \in A \cup B : Round(k) <= Round(a) /\ ~ (k \in A /\ k \in B)}
           Depths == {Round(a) - Round(k) : k \in Differ}
<1>1. /\ a \in A /\ Round(a) \in Nat /\ Round(a) % 2 = 0 /\ A \subseteq DOMAIN N
      /\ A \subseteq leaders(table, committed, Round(a))
      /\ \A k \in A : /\ Round(k) \in Nat /\ Round(k) >= committed + 2
                      /\ Round(k) <= Round(a) /\ Round(k) % 2 = 0
    BY ChainType, Zenon
<1>2. /\ b \in B /\ Round(b) \in Nat /\ Round(b) % 2 = 0 /\ B \subseteq DOMAIN N
      /\ B \subseteq leaders(table, committed, Round(b))
      /\ \A k \in B : /\ Round(k) \in Nat /\ Round(k) >= committed + 2
                      /\ Round(k) <= Round(b) /\ Round(k) % 2 = 0
    BY ChainType, Zenon
<1> SUFFICES ASSUME Differ # {}
             PROVE  FALSE
    BY Zenon
<1>3. Depths \in SUBSET Nat /\ Depths # {}
    BY <1>1, <1>2
<1>4. PICK n \in Depths : \A m \in Depths : n <= m
    <2> HIDE DEF Depths
    <2> QED
        BY <1>3, Least, Zenon
<1>5. PICK k \in Differ : n = Round(a) - Round(k)
    BY Zenon
<1>6. /\ Round(k) \in Nat /\ Round(k) >= committed + 2 /\ Round(k) % 2 = 0
      /\ Round(k) <= Round(a) /\ k \in DOMAIN N /\ k = leader_certificate(table, Round(k))
    BY <1>1, <1>2, LeaderType
\* They agree above k,
<1>7. ASSUME NEW j \in A \cup B, Round(k) < Round(j), Round(j) <= Round(a)
      PROVE  j \in A /\ j \in B
    <2>1. Round(j) \in Nat
        BY <1>1, <1>2, Zenon
    <2>2. Round(a) - Round(j) < n
        BY <2>1, <1>1, <1>5, <1>6, <1>7
    <2>3. Round(a) - Round(j) \notin Depths
        <3> HIDE DEF Depths
        <3>1. n \in Nat /\ Round(a) - Round(j) \in Int
            BY <2>1, <1>1, <1>3, <1>4
        <3> QED
            BY <3>1, <2>2, <1>4
    <2> QED
        BY <2>3, <1>7, Zenon
\* so that the leader above k is the same one for both.
<1>8. Round(k) # Round(a)
    <2>1. SUFFICES ASSUME Round(k) = Round(a)
                   PROVE  FALSE
        BY Zenon
    <2>2. k = a
        <3>1. k \in leaders(table, committed, Round(a)) \/ k \in leaders(table, committed, Round(b))
            BY <1>1, <1>2, Zenon
        <3> QED
            BY <2>1, <3>1, <1>1, <1>2, OneLeader
    <2> QED
        BY <2>2, <1>1, Zenon
<1>9. Round(k) < Round(a) /\ Round(k) <= Round(a) - 2 /\ Round(k) <= Round(b) - 2
    BY <1>1, <1>2, <1>6, <1>8
<1>10. /\ k \in leaders(table, committed, Round(a) - 2)
       /\ k \in leaders(table, committed, Round(b) - 2)
    BY <1>1, <1>2, <1>6, <1>9, LeaderOfRound
<1> DEFINE Above(C, m) == /\ Round(k) < Round(m)
                          /\ \A j \in C : Round(k) < Round(j) => Round(m) <= Round(j)
                          /\ linked(N, DOMAIN N, m, k)
<1>11. (k \in A <=> \E m \in A : Above(A, m)) /\ (k \in B <=> \E m \in B : Above(B, m))
    BY <1>6, <1>10, Zenon DEF order_leaders
<1>12. ASSUME NEW m \in A, Above(A, m)
       PROVE  m \in B /\ Above(B, m)
    <2>1. m \in B
        BY <1>1, <1>7, <1>12, Zenon
    <2>2. ASSUME NEW j \in B, Round(k) < Round(j)
          PROVE  Round(m) <= Round(j)
        BY <2>2, <1>1, <1>2, <1>7, <1>12
    <2> QED
        BY <2>1, <2>2, <1>12, Zenon
<1>13. ASSUME NEW m \in B, Above(B, m)
       PROVE  m \in A /\ Above(A, m)
    <2>1. Round(m) <= Round(a)
        BY <1>9, <1>13, Zenon
    <2>2. m \in A
        BY <2>1, <1>7, <1>13, Zenon
    <2>3. ASSUME NEW j \in A, Round(k) < Round(j)
          PROVE  Round(m) <= Round(j)
        BY <2>3, <1>1, <1>7, <1>13, Zenon
    <2> QED
        BY <2>2, <2>3, <1>13, Zenon
<1> HIDE DEF Above
<1>14. k \in A <=> k \in B
    BY <1>11, <1>12, <1>13, Zenon
<1> QED
    BY <1>14, Zenon

LEMMA SameFirstLeaderOrdered ==
    ASSUME NEW N, WellFormed(N), NEW table, NEW committed \in Nat,
           NEW a, NEW A, order_leaders(N, DOMAIN N, table, committed, a, A),
           NEW b, NEW B, order_leaders(N, DOMAIN N, table, committed, b, B),
           Round(a) <= Round(b), supported(N, DOMAIN N, a),
           NEW f \in A, \A l \in A : Round(f) <= Round(l),
           NEW g \in B, \A l \in B : Round(g) <= Round(l)
    PROVE  f = g
<1>1. a \in B
    BY SupportedIsCollected, Zenon
<1>2. /\ a \in A /\ Round(a) \in Nat /\ Round(b) \in Nat
      /\ f \in leaders(table, committed, Round(a)) /\ Round(f) \in Nat
      /\ g \in leaders(table, committed, Round(b)) /\ Round(g) \in Nat
    BY ChainType, Zenon
<1>3. Round(f) <= Round(a) /\ Round(g) <= Round(a)
    BY <1>1, <1>2, Zenon
<1>4. f \in B /\ g \in A
    BY <1>1, <1>3, SameLeadersBelow
<1>5. Round(f) = Round(g)
    BY <1>2, <1>4
<1> QED
    BY <1>2, <1>5, OneLeader

\* Whoever commits, from whichever leader with f + 1 support, begins with the same
\* leader.
LEMMA SameFirstLeader ==
    ASSUME NEW N, WellFormed(N), NEW table, NEW committed \in Nat,
           NEW a, NEW A, order_leaders(N, DOMAIN N, table, committed, a, A),
           NEW b, NEW B, order_leaders(N, DOMAIN N, table, committed, b, B),
           supported(N, DOMAIN N, a), supported(N, DOMAIN N, b),
           NEW f \in A, \A l \in A : Round(f) <= Round(l),
           NEW g \in B, \A l \in B : Round(g) <= Round(l)
    PROVE  f = g
<1>1. Round(a) \in Nat /\ Round(b) \in Nat
    BY ChainType, Zenon
<1>2. CASE Round(a) <= Round(b)
    BY <1>2, SameFirstLeaderOrdered
<1>3. CASE Round(b) <= Round(a)
    BY <1>3, SameFirstLeaderOrdered
<1> QED
    BY <1>1, <1>2, <1>3

\* What a primary collects from its part of the DAG is what is collected from the
\* whole DAG.
LEMMA CollectedFromPart ==
    ASSUME NEW N, WellFormed(N), NEW D \in SUBSET DOMAIN N, NEW table, NEW committed \in Nat,
           NEW g \in Nat, g <= committed,
           \A d \in D : Round(d) > g + 1 => Parents(N, d) \subseteq D,
           NEW top, NEW C, order_leaders(N, D, table, committed, top, C)
    PROVE  order_leaders(N, DOMAIN N, table, committed, top, C)
<1>1. /\ C \subseteq D /\ C \subseteq leaders(table, committed, Round(top)) /\ top \in C
      /\ C \subseteq DOMAIN N
    BY Zenon DEF order_leaders
<1>2. Round(top) \in Nat
    BY <1>1, CertificateType, Zenon
<1>3. ASSUME NEW l \in DOMAIN N, l \in leaders(table, committed, Round(top) - 2),
             NEW m \in C, Round(l) < Round(m), linked(N, DOMAIN N, m, l)
      PROVE  l \in D /\ linked(N, D, m, l)
    <2>1. Round(l) >= committed + 2 /\ Round(l) \in Nat
        BY <1>2, <1>3, LeaderType
    <2>2. m \in D /\ m \in DOMAIN N /\ Round(m) \in Nat
        BY <1>1, CertificateType, Zenon
    <2>3. g < Round(l) /\ Round(l) <= Round(m)
        BY <2>1, <2>2, <1>3
    <2>4. linked(N, D \cap DOMAIN N, m, l) /\ l \in D
        BY <2>2, <2>3, <1>3, LinkedInside, Zenon
    <2>5. D \cap DOMAIN N \subseteq D
        BY Zenon
    <2> QED
        BY <2>4, <2>5, LinkedMonotone, Zenon
<1>4. ASSUME NEW m, NEW l, linked(N, D, m, l)
      PROVE  linked(N, DOMAIN N, m, l)
    BY <1>4, LinkedMonotone, Zenon
<1>5. ASSUME NEW l \in DOMAIN N \cap leaders(table, committed, Round(top) - 2)
      PROVE  l \in C <=> \E m \in C :
                             /\ Round(l) < Round(m)
                             /\ \A k \in C : Round(l) < Round(k) => Round(m) <= Round(k)
                             /\ linked(N, DOMAIN N, m, l)
    <2>1. CASE l \in D
        <3>1. l \in C <=> \E m \in C :
                              /\ Round(l) < Round(m)
                              /\ \A k \in C : Round(l) < Round(k) => Round(m) <= Round(k)
                              /\ linked(N, D, m, l)
            BY <2>1, Zenon DEF order_leaders
        <3> QED
            BY <3>1, <1>3, <1>4, Zenon
    <2>2. CASE l \notin D
        BY <2>2, <1>1, <1>3, Zenon
    <2> QED
        BY <2>1, <2>2, Zenon
<1> QED
    BY <1>1, <1>5, Zenon DEF order_leaders

\* The support of a leader in a part of the DAG is support in the whole.
LEMMA SupportFromPart ==
    ASSUME NEW N, NEW D \in SUBSET DOMAIN N, NEW t, supported(N, D, t)
    PROVE  supported(N, DOMAIN N, t)
<1> DEFINE Votes(E) == {a \in Authorities : /\ <<Round(t) + 1, a>> \in E
                                            /\ Origin(t) \in N[<<Round(t) + 1, a>>]}
<1>1. t \in D /\ reached_validity(Votes(D))
    BY Zenon DEF supported
<1>2. Votes(D) \subseteq Votes(DOMAIN N) /\ Votes(DOMAIN N) \subseteq Authorities
    BY Zenon
<1>3. reached_validity(Votes(DOMAIN N))
    <2> HIDE DEF Votes
    <2>1. /\ StakeOf[Votes(D)] \in Nat /\ StakeOf[Votes(DOMAIN N)] \in Nat
          /\ StakeOf[Votes(D)] <= StakeOf[Votes(DOMAIN N)]
        BY <1>2, StakeMonotone, Zenon
    <2>2. validity_threshold \in Nat
        BY ThresholdArithmetic, Zenon
    <2> QED
        BY <2>1, <2>2, <1>1 DEF reached_validity
<1> QED
    BY <1>1, <1>3, Zenon DEF supported

\* Once the lowest is committed, the others are what would be collected anew.
LEMMA RemainingLeaders ==
    ASSUME NEW N, WellFormed(N), NEW table, NEW committed \in Nat,
           NEW top, NEW C, order_leaders(N, DOMAIN N, table, committed, top, C),
           NEW f \in C, f # top, \A l \in C \ {f} : Round(f) < Round(l)
    PROVE  order_leaders(N, DOMAIN N, table, Round(f), top, C \ {f})
<1>1. /\ top \in C /\ Round(top) \in Nat /\ C \subseteq DOMAIN N
      /\ C \subseteq leaders(table, committed, Round(top))
      /\ \A l \in C : /\ Round(l) \in Nat /\ Round(l) >= committed + 2
                      /\ Round(l) <= Round(top) /\ Round(l) % 2 = 0
    BY ChainType, Zenon
<1>2. ASSUME NEW l \in C \ {f}
      PROVE  l \in leaders(table, Round(f), Round(top))
    <2>1. l = leader_certificate(table, Round(l))
        BY <1>1, LeaderType
    <2>2. Round(l) >= Round(f) + 2
        BY <1>1
    <2>3. leader_certificate(table, Round(l)) \in leaders(table, Round(f), Round(top))
        BY <1>1, <2>2, LeaderOfRound
    <2> QED
        BY <2>1, <2>3, Zenon
<1>3. ASSUME NEW l \in DOMAIN N \cap leaders(table, Round(f), Round(top) - 2)
      PROVE  l \in C \ {f} <=> \E m \in C \ {f} :
                 /\ Round(l) < Round(m)
                 /\ \A k \in C \ {f} : Round(l) < Round(k) => Round(m) <= Round(k)
                 /\ linked(N, DOMAIN N, m, l)
    <2>1. /\ Round(l) \in Nat /\ Round(l) >= Round(f) + 2 /\ Round(l) <= Round(top) - 2
          /\ Round(l) % 2 = 0 /\ l = leader_certificate(table, Round(l))
        BY <1>1, LeaderType
    <2>2. l # f /\ Round(f) < Round(l)
        BY <2>1, <1>1
    <2>3. leader_certificate(table, Round(l)) \in leaders(table, committed, Round(top) - 2)
        BY <1>1, <2>1, LeaderOfRound
    <2>4. l \in C <=> \E m \in C :
                          /\ Round(l) < Round(m)
                          /\ \A k \in C : Round(l) < Round(k) => Round(m) <= Round(k)
                          /\ linked(N, DOMAIN N, m, l)
        BY <2>1, <2>3, Zenon DEF order_leaders
    <2>5. ~ (Round(l) < Round(f))
        BY <2>1, <2>2, <1>1
    <2> QED
        BY <2>2, <2>4, <2>5, Zenon
<1> QED
    BY <1>1, <1>2, <1>3, Zenon DEF order_leaders

-----------------------------------------------------------------------------
\* `highest' is the greatest element of a set that has one.
LEMMA Highest ==
    ASSUME NEW S, NEW m \in S, \A n \in S : n <= m
    PROVE  highest(S) \in S /\ \A n \in S : n <= highest(S)
BY Zenon DEF highest

LEMMA HighestOfTwo ==
    ASSUME NEW m \in Int, NEW n \in Int
    PROVE  highest({m, n}) = IF m <= n THEN n ELSE m
<1>1. CASE m <= n
    <2>1. n \in {m, n} /\ \A k \in {m, n} : k <= n
        BY <1>1
    <2>2. highest({m, n}) \in {m, n} /\ \A k \in {m, n} : k <= highest({m, n})
        BY <2>1, Highest, Zenon
    <2> QED
        BY <1>1, <2>2
<1>2. CASE ~ (m <= n)
    <2>1. m \in {m, n} /\ \A k \in {m, n} : k <= m
        BY <1>2
    <2>2. highest({m, n}) \in {m, n} /\ \A k \in {m, n} : k <= highest({m, n})
        BY <2>1, Highest, Zenon
    <2> QED
        BY <1>2, <2>2, Zenon
<1> QED
    BY <1>1, <1>2, Zenon

\* The garbage collected round.
LEMMA GcRound ==
    ASSUME NEW n \in Nat
    PROVE  /\ gc_round(n) \in Nat /\ gc_round(n) <= n
           /\ n >= 1 => gc_round(n) < n
           /\ gc_round(n) = IF n <= GcDepth THEN 0 ELSE n - GcDepth
<1>1. GcDepth \in Nat /\ GcDepth >= 1
    BY BullsharkAssumption
<1>2. gc_round(n) = IF n - GcDepth <= 0 THEN 0 ELSE n - GcDepth
    BY <1>1, HighestOfTwo DEF gc_round
<1> QED
    BY <1>1, <1>2

LEMMA GcRoundMonotone ==
    ASSUME NEW m \in Nat, NEW n \in Nat, m <= n
    PROVE  gc_round(m) <= gc_round(n)
<1>1. GcDepth \in Nat
    BY BullsharkAssumption, Zenon
<1>2. /\ gc_round(m) = IF m <= GcDepth THEN 0 ELSE m - GcDepth
      /\ gc_round(n) = IF n <= GcDepth THEN 0 ELSE n - GcDepth
    BY GcRound, Zenon
<1> QED
    BY <1>1, <1>2

\* What a leader commits: itself, and certificates below it that are neither garbage
\* collected nor covered by what their author has committed.
LEMMA OrderDagType ==
    ASSUME NEW N, WellFormed(N), NEW committed, NEW top \in DOMAIN N
    PROVE  /\ top \in order_dag(N, committed, top)
           /\ \A c \in order_dag(N, committed, top) :
                  /\ c \in DOMAIN N
                  /\ gc_round(Round(top)) < Round(c) /\ Round(c) <= Round(top)
                  /\ c = top \/ Round(c) > committed[Origin(c)]
<1> DEFINE U == {c \in DOMAIN N : Round(c) > committed[Origin(c)]}
<1>1. Round(top) \in Nat /\ Round(top) >= 1 /\ Origin(top) \in Authorities /\ top = <<Round(top), Origin(top)>>
    BY CertificateType, Zenon
<1>2. gc_round(Round(top)) \in Nat /\ gc_round(Round(top)) < Round(top)
    BY <1>1, GcRound, Zenon
<1>3. linked(N, U, top, top)
    <2> DEFINE path == [r \in Round(top)..Round(top) |-> Origin(top)]
    <2>1. path \in [Round(top)..Round(top) -> Authorities] /\ path[Round(top)] = Origin(top)
        BY <1>1
    <2>2. Round(top)..(Round(top) - 1) = {}
        BY <1>1
    <2> HIDE DEF path, U
    <2> QED
        BY <2>1, <2>2, Zenon DEF linked
<1>4. top \in order_dag(N, committed, top)
    BY <1>1, <1>2, <1>3 DEF order_dag
<1>5. ASSUME NEW c \in order_dag(N, committed, top)
      PROVE  /\ c \in DOMAIN N
             /\ gc_round(Round(top)) < Round(c) /\ Round(c) <= Round(top)
             /\ c = top \/ Round(c) > committed[Origin(c)]
    <2>1. /\ c \in DOMAIN N /\ Round(c) \in (gc_round(Round(top)) + 1)..Round(top)
          /\ linked(N, U, top, c)
        BY Zenon DEF order_dag
    <2>2. Round(c) \in Nat /\ c = <<Round(c), Origin(c)>>
        BY <2>1, CertificateType, Zenon
    <2>3. PICK path \in [Round(c)..Round(top) -> Authorities] :
              /\ path[Round(top)] = Origin(top)
              /\ path[Round(c)] = Origin(c)
              /\ \A r \in Round(c)..(Round(top) - 1) : <<r, path[r]>> \in U
        <3> HIDE DEF U
        <3> QED
            BY <2>1, Zenon DEF linked
    <2>4. CASE Round(c) = Round(top)
        BY <2>2, <2>3, <2>4, <2>1, <1>1, <1>2
    <2>5. CASE Round(c) # Round(top)
        <3>1. Round(c) \in Round(c)..(Round(top) - 1)
            BY <2>1, <2>2, <2>5, <1>1, <1>2
        <3>2. c \in U
            BY <3>1, <2>2, <2>3, Zenon
        <3> QED
            BY <3>2, <2>1, <2>2, <1>1, <1>2
    <2> QED
        BY <2>4, <2>5, Zenon
<1> QED
    BY <1>4, <1>5, Zenon

\* What it commits has its parents committed with it, but for those.
LEMMA OrderDagParents ==
    ASSUME NEW N, WellFormed(N), NEW committed, NEW top \in DOMAIN N,
           NEW c \in order_dag(N, committed, top), NEW x \in Parents(N, c),
           gc_round(Round(top)) < Round(x), Round(x) > committed[Origin(x)]
    PROVE  x \in order_dag(N, committed, top)
<1> DEFINE U == {d \in DOMAIN N : Round(d) > committed[Origin(d)]}
<1>1. /\ c \in DOMAIN N /\ Round(c) \in (gc_round(Round(top)) + 1)..Round(top)
      /\ linked(N, U, top, c)
    BY Zenon DEF order_dag
<1>2. /\ Round(top) \in Nat /\ Round(c) \in Nat /\ gc_round(Round(top)) \in Nat
      /\ c = <<Round(c), Origin(c)>> /\ Round(c) <= Round(top)
    BY <1>1, CertificateType, GcRound
<1>3. Round(x) = Round(c) - 1 /\ Origin(x) \in N[c] /\ x = <<Round(c) - 1, Origin(x)>>
    BY <1>1, ParentType, Zenon
<1>4. x \in DOMAIN N
    <2>1. Round(c) > 1
        BY <1>2, <1>3
    <2> QED
        BY <2>1, <1>1, Zenon DEF WellFormed
<1>5. x \in U /\ Origin(x) \in Authorities /\ Round(x) \in Nat
    BY <1>4, CertificateType, Zenon
<1>6. PICK way \in [Round(c)..Round(top) -> Authorities] :
          /\ way[Round(top)] = Origin(top)
          /\ way[Round(c)] = Origin(c)
          /\ \A r \in Round(c)..(Round(top) - 1) : <<r, way[r]>> \in U
          /\ \A r \in Round(c)..(Round(top) - 1) : way[r] \in N[<<r + 1, way[r + 1]>>]
    <2> HIDE DEF U
    <2> QED
        BY <1>1, Zenon DEF linked
<1> DEFINE path == [r \in Round(x)..Round(top) |-> IF r = Round(x) THEN Origin(x) ELSE way[r]]
<1>7. \A r \in Round(x)..Round(top) : r # Round(x) => r \in Round(c)..Round(top)
    BY <1>2, <1>3, <1>5
<1>8. path \in [Round(x)..Round(top) -> Authorities]
    BY <1>5, <1>6, <1>7, Zenon
<1>9. path[Round(x)] = Origin(x) /\ path[Round(top)] = Origin(top)
    BY <1>2, <1>3, <1>5, <1>6
<1>10. ASSUME NEW r \in Round(x)..(Round(top) - 1)
       PROVE  <<r, path[r]>> \in U /\ path[r] \in N[<<r + 1, path[r + 1]>>]
    <2> HIDE DEF U
    <2>0. r \in Int /\ r + 1 \in Round(x)..Round(top) /\ r + 1 # Round(x)
        BY <1>2, <1>5
    <2>1. path[r + 1] = way[r + 1]
        BY <2>0, Zenon
    <2>2. CASE r = Round(x)
        <3>1. r + 1 = Round(c) /\ path[r] = Origin(x)
            BY <2>2, <1>2, <1>3, <1>9
        <3>2. path[r + 1] = Origin(c)
            BY <3>1, <2>1, <1>6, Zenon
        <3> QED
            BY <3>1, <3>2, <2>2, <1>2, <1>3, <1>5, Zenon
    <2>3. CASE r # Round(x)
        <3>1. r \in Round(c)..(Round(top) - 1) /\ path[r] = way[r]
            BY <2>0, <2>3, <1>2, <1>3, <1>5
        <3> QED
            BY <3>1, <2>1, <1>6, Zenon
    <2> QED
        BY <2>2, <2>3, Zenon
<1>11. linked(N, U, top, x)
    <2> HIDE DEF path, U
    <2> QED
        BY <1>8, <1>9, <1>10, Zenon DEF linked
<1>12. Round(x) \in (gc_round(Round(top)) + 1)..Round(top)
    BY <1>2, <1>3, <1>5
<1> QED
    BY <1>4, <1>11, <1>12, Zenon DEF order_dag

\* A primary that has the leader, and the parents of what it has, has all that the
\* leader commits.
LEMMA OrderDagInside ==
    ASSUME NEW N, WellFormed(N), NEW D \in SUBSET DOMAIN N, NEW committed,
           NEW g \in Nat, \A d \in D : Round(d) > g + 1 => Parents(N, d) \subseteq D,
           NEW top \in D, g <= gc_round(Round(top))
    PROVE  order_dag(N, committed, top) \subseteq D
<1> DEFINE U == {c \in DOMAIN N : Round(c) > committed[Origin(c)]}
<1>1. Round(top) \in Nat /\ gc_round(Round(top)) \in Nat
    BY CertificateType, GcRound, Zenon
<1>2. ASSUME NEW c \in order_dag(N, committed, top)
      PROVE  c \in D
    <2>1. /\ c \in DOMAIN N /\ Round(c) \in (gc_round(Round(top)) + 1)..Round(top)
          /\ linked(N, U, top, c)
        BY Zenon DEF order_dag
    <2>2. g < Round(c) /\ Round(c) <= Round(top)
        BY <2>1, <1>1
    <2>3. U \in SUBSET DOMAIN N
        BY Zenon
    <2> HIDE DEF U
    <2> QED
        BY <2>1, <2>2, <2>3, LinkedInside, Zenon
<1> QED
    BY <1>2, Zenon

-----------------------------------------------------------------------------
(***************************************************************************)
(* The invariant: every sub-dag in a store is the one its predecessors     *)
(* determine.  Its leader is the first of those collected from some leader *)
(* with f + 1 support, in the schedule the predecessors lead to, and its   *)
(* certificates are what that leader adds to theirs.  By SameFirstLeader   *)
(* there is one such sub-dag.                                              *)
(***************************************************************************)

\* The sub-dag with an index of a store; there is none with index 0.
SubDagAt(s, n) == IF n = 0 THEN NoSubDag ELSE s[n]

CertificatesUpTo(s, n) == UNION {s[i].certificates : i \in 1..n}

\* last_committed after the first n sub-dags.
CommittedUpTo(s, n) == update([a \in Authorities |-> 0], CertificatesUpTo(s, n))

\* The leader schedule after the first n sub-dags.
ScheduleAt(s, n) ==
    LET finals == {i \in 1..n : s[i].final_of_schedule}
    IN  IF finals = {} THEN NoSwaps ELSE LeaderSwapTable(s[highest(finals)].scores)

\* C is what order_leaders collects, on the whole DAG, from a leader with support.
Electable(N, table, committed, C) ==
    \E top \in C : /\ supported(N, DOMAIN N, top)
                   /\ order_leaders(N, DOMAIN N, table, committed, top, C)

\* The n-th sub-dag is the one the sub-dags before it determine.
Determined(N, s, n) ==
    LET previous == SubDagAt(s, n - 1)
        table == ScheduleAt(s, n - 1)
        committed == Round(previous.leader)
    IN  /\ s[n] = CommittedSubDag(N, previous, CommittedUpTo(s, n - 1), s[n].leader)
        /\ \E top \in DOMAIN N : \E C \in SUBSET leaders(table, committed, Round(top)) :
               /\ Electable(N, table, committed, C)
               /\ s[n].leader \in C
               /\ \A l \in C : Round(s[n].leader) <= Round(l)

\* Consensus has the parents of what it has, or will have them before it needs them.
ClosedDag(p) ==
    LET gc == gc_round(committed_round[p])
    IN  /\ new_certificates[p] \subseteq certificate_store[p]
        /\ dag[p] \subseteq certificate_store[p]
        /\ \A c \in certificate_store[p] :
               /\ Round(c) > gc + 1 => Parents(network, c) \subseteq certificate_store[p]
               /\ Round(c) > gc => c \in dag[p] \cup new_certificates[p]
        /\ \A c \in dag[p] : Round(c) > gc + 1 => Parents(network, c) \subseteq dag[p]

\* What is left to commit is what would be collected now.
Collected(p) ==
    leaders_to_commit[p] # {} =>
        /\ leaders_to_commit[p] \subseteq dag[p]
        /\ Electable(network, swap_table[p], committed_round[p], leaders_to_commit[p])

\* What is in memory and on disk is what the sub-dags of the store determine.
History(p) ==
    LET n == last_sub_dag[p].index
        s == sub_dags[p]
    IN  /\ \A i \in 1..n : s[i].index = i /\ Determined(network, s, i)
        /\ \A i, j \in 1..n : i < j => Round(s[i].leader) < Round(s[j].leader)
        /\ last_sub_dag[p] = SubDagAt(s, n)
        /\ committed_round[p] = Round(last_sub_dag[p].leader)
        /\ last_committed[p] = CommittedUpTo(s, n)
        /\ stored_last_committed[p] = last_committed[p]
        /\ swap_table[p] = ScheduleAt(s, n)

IInv ==
    /\ TypeOK
    /\ \A p \in Primaries : ClosedDag(p) /\ Collected(p) /\ History(p)

-----------------------------------------------------------------------------
\* update raises the round of an author to that of its last certificate.
LEMMA UpdateType ==
    ASSUME NEW N, WellFormed(N), NEW committed \in [Authorities -> Nat],
           NEW C \in SUBSET DOMAIN N, NEW b \in Nat, \A c \in C : Round(c) <= b
    PROVE  /\ update(committed, C) \in [Authorities -> Nat]
           /\ \A a \in Authorities :
                  /\ committed[a] <= update(committed, C)[a]
                  /\ \A c \in C : Origin(c) = a => Round(c) <= update(committed, C)[a]
                  /\ \/ update(committed, C)[a] = committed[a]
                     \/ \E c \in C : Origin(c) = a /\ Round(c) = update(committed, C)[a]
<1> DEFINE R(a) == {committed[a]} \cup {Round(c) : c \in {x \in C : Origin(x) = a}}
<1>1. ASSUME NEW a \in Authorities
      PROVE  highest(R(a)) \in R(a) /\ (\A n \in R(a) : n <= highest(R(a))) /\ R(a) \subseteq Nat
    <2>1. R(a) \in SUBSET Nat /\ R(a) # {}
        BY CertificateType, Zenon
    <2> DEFINE d == IF committed[a] <= b THEN b ELSE committed[a]
    <2>2. d \in Nat /\ \A n \in R(a) : n <= d
        BY CertificateType
    <2> HIDE DEF R, d
    <2>3. PICK m \in R(a) : \A n \in R(a) : n <= m
        BY <2>1, <2>2, Greatest, Zenon
    <2> QED
        BY <2>1, <2>3, Highest, Zenon
<1>2. update(committed, C) = [a \in Authorities |-> highest(R(a))]
    BY Zenon DEF update
<1>3. ASSUME NEW a \in Authorities
      PROVE  /\ update(committed, C)[a] = highest(R(a))
             /\ committed[a] \in R(a)
             /\ \A c \in C : Origin(c) = a => Round(c) \in R(a)
    BY <1>2, Zenon
<1>4. update(committed, C) \in [Authorities -> Nat]
    <2> HIDE DEF R
    <2> QED
        BY <1>1, <1>2, Zenon
<1>5. ASSUME NEW a \in Authorities
      PROVE  \/ highest(R(a)) = committed[a]
             \/ \E c \in C : Origin(c) = a /\ Round(c) = highest(R(a))
    BY <1>1, Zenon
<1> HIDE DEF R
<1> QED
    BY <1>1, <1>3, <1>4, <1>5, Zenon

LEMMA UpdateTwice ==
    ASSUME NEW N, WellFormed(N), NEW committed \in [Authorities -> Nat],
           NEW C \in SUBSET DOMAIN N, NEW D \in SUBSET DOMAIN N,
           NEW b \in Nat, \A c \in C \cup D : Round(c) <= b
    PROVE  update(update(committed, C), D) = update(committed, C \cup D)
<1> DEFINE u == update(committed, C)
           v == update(u, D)
           w == update(committed, C \cup D)
<1>1. /\ u \in [Authorities -> Nat]
      /\ \A a \in Authorities :
             /\ committed[a] <= u[a]
             /\ \A c \in C : Origin(c) = a => Round(c) <= u[a]
             /\ \/ u[a] = committed[a]
                \/ \E c \in C : Origin(c) = a /\ Round(c) = u[a]
    BY UpdateType
<1>2. /\ v \in [Authorities -> Nat]
      /\ \A a \in Authorities :
             /\ u[a] <= v[a]
             /\ \A c \in D : Origin(c) = a => Round(c) <= v[a]
             /\ \/ v[a] = u[a]
                \/ \E c \in D : Origin(c) = a /\ Round(c) = v[a]
    <2> HIDE DEF u
    <2> QED
        BY <1>1, UpdateType
<1>3. /\ w \in [Authorities -> Nat]
      /\ \A a \in Authorities :
             /\ committed[a] <= w[a]
             /\ \A c \in C \cup D : Origin(c) = a => Round(c) <= w[a]
             /\ \/ w[a] = committed[a]
                \/ \E c \in C \cup D : Origin(c) = a /\ Round(c) = w[a]
    <2>1. C \cup D \in SUBSET DOMAIN N
        BY Zenon
    <2> QED
        BY <2>1, UpdateType
<1> HIDE DEF u, v, w
<1>4. ASSUME NEW a \in Authorities
      PROVE  v[a] = w[a]
    <2>1. v[a] \in Nat /\ w[a] \in Nat /\ u[a] \in Nat /\ committed[a] \in Nat
        BY <1>1, <1>2, <1>3, Zenon
    <2>2. v[a] <= w[a]
        BY <2>1, <1>1, <1>2, <1>3
    <2>3. w[a] <= v[a]
        <3>1. ASSUME NEW c \in C, Origin(c) = a
              PROVE  Round(c) <= v[a]
            <4>1. Round(c) <= u[a] /\ u[a] <= v[a] /\ Round(c) \in Nat
                BY <3>1, <1>1, <1>2, CertificateType, Zenon
            <4> QED
                BY <4>1, <2>1
        <3>2. committed[a] <= v[a]
            BY <2>1, <1>1, <1>2
        <3> QED
            BY <3>1, <3>2, <1>2, <1>3, Zenon
    <2> QED
        BY <2>1, <2>2, <2>3
<1>5. v = w
    BY <1>2, <1>3, <1>4
<1> QED
    BY <1>5, Zenon DEF v, w, u

\* What the first sub-dags determine depends on nothing else.
LEMMA SamePrefix ==
    ASSUME NEW n \in Nat, NEW s, NEW t, \A i \in 1..n : s[i] = t[i]
    PROVE  /\ SubDagAt(s, n) = SubDagAt(t, n)
           /\ CertificatesUpTo(s, n) = CertificatesUpTo(t, n)
           /\ CommittedUpTo(s, n) = CommittedUpTo(t, n)
           /\ ScheduleAt(s, n) = ScheduleAt(t, n)
<1>1. SubDagAt(s, n) = SubDagAt(t, n)
    <2>1. n # 0 => n \in 1..n
        OBVIOUS
    <2> QED
        BY <2>1, Zenon DEF SubDagAt
<1>2. CertificatesUpTo(s, n) = CertificatesUpTo(t, n)
    BY Zenon DEF CertificatesUpTo
<1>3. CommittedUpTo(s, n) = CommittedUpTo(t, n)
    BY <1>2, Zenon DEF CommittedUpTo
<1> DEFINE finals == {i \in 1..n : s[i].final_of_schedule}
<1>4. finals = {i \in 1..n : t[i].final_of_schedule}
    BY Zenon
<1>5. finals # {} => highest(finals) \in 1..n
    <2>1. SUFFICES ASSUME finals # {}
                   PROVE  highest(finals) \in 1..n
        BY Zenon
    <2>2. finals \in SUBSET Nat /\ \A i \in finals : i <= n
        OBVIOUS
    <2>3. finals \subseteq 1..n
        BY Zenon
    <2> HIDE DEF finals
    <2>4. PICK m \in finals : \A i \in finals : i <= m
        BY <2>1, <2>2, Greatest, Zenon
    <2> QED
        BY <2>3, <2>4, Highest, Zenon
<1>6. ScheduleAt(s, n) = ScheduleAt(t, n)
    <2>1. ScheduleAt(s, n) = IF finals = {} THEN NoSwaps ELSE LeaderSwapTable(s[highest(finals)].scores)
        BY Zenon DEF ScheduleAt
    <2>2. ScheduleAt(t, n) = IF finals = {} THEN NoSwaps ELSE LeaderSwapTable(t[highest(finals)].scores)
        BY <1>4, Zenon DEF ScheduleAt
    <2> HIDE DEF finals
    <2> QED
        BY <2>1, <2>2, <1>5
<1> QED
    BY <1>1, <1>2, <1>3, <1>6, Zenon

\* There is one sub-dag that continues a sequence.
LEMMA OneContinuation ==
    ASSUME NEW N, WellFormed(N), NEW n \in Nat, n >= 1, NEW s, NEW t,
           \A i \in 1..(n - 1) : s[i] = t[i],
           Round(SubDagAt(s, n - 1).leader) \in Nat,
           Determined(N, s, n), Determined(N, t, n)
    PROVE  s[n] = t[n]
<1> DEFINE previous == SubDagAt(s, n - 1)
           table == ScheduleAt(s, n - 1)
           committed == Round(previous.leader)
<1>1. n - 1 \in Nat
    OBVIOUS
<1>2. /\ previous = SubDagAt(t, n - 1)
      /\ table = ScheduleAt(t, n - 1)
      /\ CommittedUpTo(s, n - 1) = CommittedUpTo(t, n - 1)
    BY <1>1, SamePrefix, Zenon
<1>3. PICK A : /\ Electable(N, table, committed, A) /\ s[n].leader \in A
               /\ \A l \in A : Round(s[n].leader) <= Round(l)
    BY Zenon DEF Determined
<1>4. PICK B : /\ Electable(N, table, committed, B) /\ t[n].leader \in B
               /\ \A l \in B : Round(t[n].leader) <= Round(l)
    BY <1>2, Zenon DEF Determined
<1>5. committed \in Nat
    BY Zenon
<1> HIDE DEF table, committed
<1>6. PICK a \in A : supported(N, DOMAIN N, a) /\ order_leaders(N, DOMAIN N, table, committed, a, A)
    BY <1>3, Zenon DEF Electable
<1>7. PICK b \in B : supported(N, DOMAIN N, b) /\ order_leaders(N, DOMAIN N, table, committed, b, B)
    BY <1>4, Zenon DEF Electable
<1>8. s[n].leader = t[n].leader
    BY <1>3, <1>4, <1>5, <1>6, <1>7, SameFirstLeader, SMTT(30), Zenon
<1>9. s[n] = CommittedSubDag(N, previous, CommittedUpTo(s, n - 1), s[n].leader)
    BY Zenon DEF Determined
<1>10. t[n] = CommittedSubDag(N, previous, CommittedUpTo(s, n - 1), t[n].leader)
    BY <1>2, Zenon DEF Determined
<1> QED
    BY <1>8, <1>9, <1>10, Zenon

LEMMA DeterminedByPrefix ==
    ASSUME NEW N, NEW n \in Nat, n >= 1, NEW s, NEW t, \A i \in 1..n : s[i] = t[i],
           Determined(N, s, n)
    PROVE  Determined(N, t, n)
<1>1. n - 1 \in Nat /\ \A i \in 1..(n - 1) : s[i] = t[i]
    OBVIOUS
<1>2. /\ SubDagAt(s, n - 1) = SubDagAt(t, n - 1)
      /\ ScheduleAt(s, n - 1) = ScheduleAt(t, n - 1)
      /\ CommittedUpTo(s, n - 1) = CommittedUpTo(t, n - 1)
    BY <1>1, SamePrefix, Zenon
<1>3. s[n] = t[n]
    OBVIOUS
<1> QED
    BY <1>2, <1>3, Zenon DEF Determined

\* A certificate scores at most a point.
LEMMA ScoresType ==
    ASSUME NEW N, WellFormed(N), NEW previous, previous.scores \in [Authorities -> Nat],
           NEW C \in SUBSET DOMAIN N, NEW index
    PROVE  resolve_reputation_score(N, previous, C, index) \in [Authorities -> Nat]
<1>1. ASSUME NEW a \in Authorities
      PROVE  Cardinality({c \in C : Origin(c) = a /\ previous.leader \in Parents(N, c)}) \in Nat
    <2> DEFINE S == {c \in C : Origin(c) = a /\ previous.leader \in Parents(N, c)}
               x == <<Round(previous.leader) + 1, a>>
    <2>1. ASSUME NEW c \in S
          PROVE  c = x
        <3>1. /\ Round(c) \in Nat /\ c = <<Round(c), Origin(c)>> /\ Origin(c) = a
              /\ Round(previous.leader) = Round(c) - 1
            BY CertificateType, ParentType, Zenon
        <3> QED
            BY <3>1
    <2>2. S \subseteq {x}
        BY <2>1, Zenon
    <2> HIDE DEF S, x
    <2>3. Cardinality(S) \in {0, 1}
        BY <2>2, AtMostOne, Zenon
    <2> QED
        BY <2>3 DEF S
<1> QED
    BY <1>1 DEF resolve_reputation_score

LEMMA SwapTableType ==
    ASSUME NEW scores \in [Authorities -> Nat]
    PROVE  LeaderSwapTable(scores) \in SwapTables
BY Zenon DEF LeaderSwapTable, retrieve_first_nodes, SwapTables

LEMMA NoSwapsType == NoSwaps \in SwapTables
BY Zenon DEF NoSwaps, NoScores, SwapTables

LEMMA NoSubDagType == NoSubDag \in SubDags
BY Zenon DEF NoSubDag, NoScores, SubDags

LEMMA SubDagType ==
    ASSUME network \in Networks, NEW previous \in SubDags, NEW committed,
           NEW top \in DOMAIN network
    PROVE  CommittedSubDag(network, previous, committed, top) \in SubDags
<1> DEFINE certificates == order_dag(network, committed, top)
           index == previous.index + 1
<1>1. WellFormed(network)
    BY NetworkAssumption, Zenon
<1>2. certificates \in SUBSET DOMAIN network
    BY <1>1, OrderDagType, Zenon
<1>3. previous.index \in Nat /\ previous.scores \in [Authorities -> Nat]
    BY Zenon DEF SubDags
<1>4. top \in Nat \X Nat
    <2>1. Round(top) \in Nat /\ Origin(top) \in Authorities /\ top = <<Round(top), Origin(top)>>
        BY <1>1, CertificateType, Zenon
    <2>2. <<Round(top), Origin(top)>> \in Nat \X Nat
        BY <2>1, ScheduleAssumption, Zenon
    <2> QED
        BY <2>1, <2>2, Zenon
<1>5. resolve_reputation_score(network, previous, certificates, index) \in [Authorities -> Nat]
    <2> HIDE DEF certificates, index
    <2> QED
        BY <1>1, <1>2, <1>3, ScoresType, Zenon
<1>6. index \in Nat
    BY <1>3
<1>7. CommittedSubDag(network, previous, committed, top)
          = [index             |-> index,
             leader            |-> top,
             certificates      |-> certificates,
             scores            |-> resolve_reputation_score(network, previous, certificates, index),
             final_of_schedule |-> (index + 1) % NumSubDagsPerSchedule = 0]
    BY Zenon DEF CommittedSubDag
<1>8. ((index + 1) % NumSubDagsPerSchedule = 0) \in BOOLEAN
    BY Zenon
<1> HIDE DEF certificates, index
<1> QED
    BY <1>2, <1>4, <1>5, <1>6, <1>7, <1>8 DEF SubDags

LEMMA DeterminedFacts ==
    ASSUME NEW N, WellFormed(N), NEW n, NEW s, Determined(N, s, n),
           Round(SubDagAt(s, n - 1).leader) \in Nat
    PROVE  /\ s[n].leader \in DOMAIN N
           /\ Round(s[n].leader) \in Nat
           /\ Round(s[n].leader) > Round(SubDagAt(s, n - 1).leader)
           /\ s[n].certificates = order_dag(N, CommittedUpTo(s, n - 1), s[n].leader)
           /\ s[n].leader \in s[n].certificates
           /\ \A c \in s[n].certificates : c \in DOMAIN N /\ Round(c) <= Round(s[n].leader)
<1> DEFINE table == ScheduleAt(s, n - 1)
           committed == Round(SubDagAt(s, n - 1).leader)
<1>1. PICK C : Electable(N, table, committed, C) /\ s[n].leader \in C
    BY Zenon DEF Determined
<1>2. committed \in Nat
    BY Zenon
<1> HIDE DEF table, committed
<1>3. PICK top \in C : order_leaders(N, DOMAIN N, table, committed, top, C)
    BY <1>1, Zenon DEF Electable
<1>4. /\ s[n].leader \in DOMAIN N /\ Round(s[n].leader) \in Nat
      /\ Round(s[n].leader) >= committed + 2
    BY <1>1, <1>2, <1>3, ChainType, Zenon
<1>5. s[n].certificates = order_dag(N, CommittedUpTo(s, n - 1), s[n].leader)
    <2>1. s[n] = CommittedSubDag(N, SubDagAt(s, n - 1), CommittedUpTo(s, n - 1), s[n].leader)
        BY Zenon DEF Determined
    <2> DEFINE l == s[n].leader
    <2>2. CommittedSubDag(N, SubDagAt(s, n - 1), CommittedUpTo(s, n - 1), l).certificates
              = order_dag(N, CommittedUpTo(s, n - 1), l)
        <3> HIDE DEF l
        <3> QED
            BY Zenon DEF CommittedSubDag
    <2> QED
        BY <2>1, <2>2, Zenon
<1>6. /\ s[n].leader \in s[n].certificates
      /\ \A c \in s[n].certificates : c \in DOMAIN N /\ Round(c) <= Round(s[n].leader)
    BY <1>4, <1>5, OrderDagType, Zenon
<1> QED
    BY <1>2, <1>4, <1>5, <1>6 DEF committed

\* What the history of a primary says of each of its sub-dags.
LEMMA HistoryFacts ==
    ASSUME TypeOK, NEW p \in Primaries, History(p)
    PROVE  LET n == last_sub_dag[p].index
               s == sub_dags[p]
           IN  /\ WellFormed(network) /\ n \in Nat /\ DOMAIN s = 1..n
               /\ \A i \in 1..n :
                      /\ SubDagAt(s, i - 1).leader[1] \in Nat
                      /\ s[i].leader \in DOMAIN network
                      /\ Round(s[i].leader) \in Nat /\ Round(s[i].leader) <= committed_round[p]
                      /\ Round(s[i].leader) > Round(SubDagAt(s, i - 1).leader)
                      /\ s[i].certificates = order_dag(network, CommittedUpTo(s, i - 1), s[i].leader)
                      /\ s[i].leader \in s[i].certificates
                      /\ \A c \in s[i].certificates : c \in DOMAIN network /\ Round(c) <= Round(s[i].leader)
<1> DEFINE n == last_sub_dag[p].index
           s == sub_dags[p]
<1>1. WellFormed(network) /\ committed_round[p] \in Nat
    BY NetworkAssumption, Zenon DEF TypeOK
<1>2. n \in Nat /\ DOMAIN s = 1..n
    BY Zenon DEF TypeOK, SubDags
<1>3. ASSUME NEW i \in 1..n
      PROVE  Round(s[i].leader) \in Nat /\ Round(s[i].leader) <= committed_round[p]
    <2>1. s[i] \in SubDags
        BY <1>2, <1>3, Zenon DEF TypeOK
    <2>2. Round(s[i].leader) \in Nat
        BY <2>1, Zenon DEF SubDags, Round
    <2>3. last_sub_dag[p] = s[n] /\ n \in 1..n
        BY <1>2, <1>3 DEF History, SubDagAt
    <2>4. committed_round[p] = Round(s[n].leader)
        BY <2>3, Zenon DEF History
    <2>5. i < n => Round(s[i].leader) < Round(s[n].leader)
        BY <2>3, <1>3, Zenon DEF History
    <2>6. i = n \/ i < n
        BY <1>2, <1>3
    <2> QED
        BY <2>2, <2>4, <2>5, <2>6, <1>1
<1>4. ASSUME NEW i \in 1..n
      PROVE  Round(SubDagAt(s, i - 1).leader) \in Nat
    <2>1. CASE i - 1 = 0
        BY <2>1, Zenon DEF SubDagAt, NoSubDag, Round
    <2>2. CASE i - 1 # 0
        <3>1. i - 1 \in 1..n
            BY <2>2, <1>2
        <3> QED
            BY <2>2, <3>1, <1>3, Zenon DEF SubDagAt
    <2> QED
        BY <2>1, <2>2, Zenon
<1>5. ASSUME NEW i \in 1..n
      PROVE  Determined(network, s, i)
    BY Zenon DEF History
<1> HIDE DEF n, s
<1>6. ASSUME NEW i \in 1..n
      PROVE  /\ s[i].leader \in DOMAIN network
             /\ Round(s[i].leader) > Round(SubDagAt(s, i - 1).leader)
             /\ s[i].certificates = order_dag(network, CommittedUpTo(s, i - 1), s[i].leader)
             /\ s[i].leader \in s[i].certificates
             /\ \A c \in s[i].certificates : c \in DOMAIN network /\ Round(c) <= Round(s[i].leader)
    BY <1>1, <1>4, <1>5, DeterminedFacts, Zenon
<1>7. \A i \in 1..n : SubDagAt(s, i - 1).leader[1] \in Nat
    BY <1>4, Zenon DEF Round
<1> QED
    BY <1>1, <1>2, <1>3, <1>6, <1>7, Zenon DEF n, s

\* last_committed covers what has been committed, and no more.
LEMMA CommittedFacts ==
    ASSUME TypeOK, NEW p \in Primaries, History(p), NEW m \in 0..last_sub_dag[p].index
    PROVE  LET s == sub_dags[p]
               lc == CommittedUpTo(s, m)
           IN  /\ lc \in [Authorities -> Nat]
               /\ \A i \in 1..m : \A c \in s[i].certificates : Round(c) <= lc[Origin(c)]
               /\ \A a \in Authorities :
                      /\ lc[a] <= committed_round[p]
                      /\ \/ lc[a] = 0
                         \/ \E i \in 1..m : \E c \in s[i].certificates :
                                Origin(c) = a /\ Round(c) = lc[a]
<1> DEFINE s == sub_dags[p]
           lc == CommittedUpTo(s, m)
           C == CertificatesUpTo(s, m)
           zero == [a \in Authorities |-> 0]
<1>1. WellFormed(network) /\ last_sub_dag[p].index \in Nat
    BY HistoryFacts, Zenon
<1>2. ASSUME NEW i \in 1..m, NEW c \in s[i].certificates
      PROVE  /\ c \in DOMAIN network /\ Round(c) <= committed_round[p]
             /\ c \in C /\ Origin(c) \in Authorities
    <2>1. i \in 1..last_sub_dag[p].index
        BY <1>1
    <2>2. /\ c \in DOMAIN network /\ Round(c) <= Round(s[i].leader)
          /\ Round(s[i].leader) \in Nat /\ Round(s[i].leader) <= committed_round[p]
        BY <2>1, <1>2, HistoryFacts, Zenon
    <2>3. Round(c) \in Nat /\ committed_round[p] \in Nat /\ Origin(c) \in Authorities
        BY <2>2, <1>1, CertificateType, Zenon DEF TypeOK
    <2> QED
        BY <2>2, <2>3 DEF CertificatesUpTo
<1>3. \A c \in C : \E i \in 1..m : c \in s[i].certificates
    BY Zenon DEF CertificatesUpTo
<1>4. C \in SUBSET DOMAIN network /\ \A c \in C : Round(c) <= committed_round[p]
    BY <1>2, <1>3, Zenon
<1>5. zero \in [Authorities -> Nat] /\ committed_round[p] \in Nat
    BY Zenon DEF TypeOK
<1>6. lc = update(zero, C)
    BY Zenon DEF CommittedUpTo
<1> HIDE DEF s, lc, C
<1>7. /\ lc \in [Authorities -> Nat]
      /\ \A a \in Authorities :
             /\ zero[a] <= lc[a]
             /\ \A c \in C : Origin(c) = a => Round(c) <= lc[a]
             /\ \/ lc[a] = zero[a]
                \/ \E c \in C : Origin(c) = a /\ Round(c) = lc[a]
    <2> HIDE DEF zero
    <2> QED
        BY <1>1, <1>4, <1>5, <1>6, UpdateType
<1>8. \A i \in 1..m : \A c \in s[i].certificates : Round(c) <= lc[Origin(c)]
    BY <1>2, <1>7, Zenon
<1>9. ASSUME NEW a \in Authorities
      PROVE  /\ lc[a] <= committed_round[p]
             /\ \/ lc[a] = 0
                \/ \E i \in 1..m : \E c \in s[i].certificates :
                       Origin(c) = a /\ Round(c) = lc[a]
    BY <1>3, <1>4, <1>5, <1>7
<1> QED
    BY <1>7, <1>8, <1>9, Zenon DEF s, lc

\* What new_from_store and from_store make of the store.
LEMMA RecoveredState ==
    ASSUME TypeOK, NEW p \in Primaries, History(p)
    PROVE  /\ recovered_round(p) = committed_round[p]
           /\ get_latest_sub_dag(p) = last_sub_dag[p]
           /\ from_store(p) = swap_table[p]
<1> DEFINE n == last_sub_dag[p].index
           s == sub_dags[p]
           lc == CommittedUpTo(s, n)
           R == {stored_last_committed[p][a] : a \in Authorities}
<1>1. n \in Nat /\ DOMAIN s = 1..n /\ committed_round[p] \in Nat
    BY HistoryFacts, Zenon DEF TypeOK
<1>2. stored_last_committed[p] = lc
    BY Zenon DEF History
<1>3. \A a \in Authorities : lc[a] <= committed_round[p] /\ lc[a] \in Nat
    <2>1. n \in 0..n
        BY <1>1
    <2> QED
        BY <2>1, CommittedFacts, Zenon
<1>4. \E a \in Authorities : lc[a] = committed_round[p]
    <2>1. CASE n = 0
        <3>1. committed_round[p] = 0
            BY <2>1 DEF History, SubDagAt, NoSubDag, Round
        <3>2. Authorities # {}
            BY StakeAssumption
        <3> QED
            BY <3>1, <3>2, <1>3
    <2>2. CASE n # 0
        <3>1. n \in 1..n /\ n \in 0..n
            BY <2>2, <1>1
        <3>2. committed_round[p] = Round(s[n].leader)
            BY <2>2, Zenon DEF History, SubDagAt
        <3>3. s[n].leader \in s[n].certificates /\ s[n].leader \in DOMAIN network /\ WellFormed(network)
            BY <3>1, HistoryFacts, Zenon
        <3>4. Round(s[n].leader) <= lc[Origin(s[n].leader)]
            BY <3>1, <3>3, CommittedFacts, Zenon
        <3>5. Origin(s[n].leader) \in Authorities
            BY <3>3, CertificateType, Zenon
        <3>6. lc[Origin(s[n].leader)] <= committed_round[p] /\ lc[Origin(s[n].leader)] \in Nat
            BY <1>3, <3>5, Zenon
        <3> HIDE DEF lc, s, n
        <3>7. lc[Origin(s[n].leader)] = committed_round[p]
            BY <1>1, <3>2, <3>4, <3>6
        <3> QED
            BY <3>5, <3>7, Zenon
    <2> QED
        BY <2>1, <2>2, Zenon
<1>5. recovered_round(p) = committed_round[p]
    <2>1. committed_round[p] \in R /\ \A r \in R : r <= committed_round[p] /\ r \in Nat
        BY <1>2, <1>3, <1>4, Zenon
    <2>2. recovered_round(p) = highest(R)
        BY Zenon DEF recovered_round
    <2> HIDE DEF R
    <2>3. highest(R) \in R /\ committed_round[p] <= highest(R)
        BY <2>1, Highest, Zenon
    <2> QED
        BY <2>1, <2>2, <2>3
<1>6. get_latest_sub_dag(p) = last_sub_dag[p]
    <2>1. last_sub_dag[p] = SubDagAt(s, n)
        BY Zenon DEF History
    <2>2. CASE n = 0
        <3>1. DOMAIN s = {}
            BY <2>2, <1>1
        <3> QED
            BY <2>1, <2>2, <3>1, Zenon DEF get_latest_sub_dag, SubDagAt
    <2>3. CASE n # 0
        <3>1. n \in DOMAIN s /\ (\A i \in DOMAIN s : i <= n) /\ DOMAIN s # {}
            BY <2>3, <1>1
        <3>2. highest(DOMAIN s) \in DOMAIN s /\ n <= highest(DOMAIN s)
            BY <3>1, Highest, Zenon
        <3>3. highest(DOMAIN s) = n
            BY <3>1, <3>2, <1>1
        <3> QED
            BY <2>1, <2>3, <3>1, <3>3, Zenon DEF get_latest_sub_dag, SubDagAt
    <2> QED
        BY <2>2, <2>3, Zenon
<1>7. from_store(p) = swap_table[p]
    <2>1. swap_table[p] = ScheduleAt(s, n)
        BY Zenon DEF History
    <2> QED
        BY <2>1, <1>1, Zenon DEF from_store, ScheduleAt
<1> QED
    BY <1>5, <1>6, <1>7, Zenon

-----------------------------------------------------------------------------
(***************************************************************************)
(* The initial states of Bullshark satisfy the invariant, and so does what *)
(* a primary does in one step.  Between two commits certificates arrive,   *)
(* are dropped or inserted, and elect leaders; a turn of commit_leader     *)
(* adds a sub-dag to the history of the primary.                           *)
(***************************************************************************)

\* The invariant holds initially,
LEMMA InitInv == Init => IInv
<1> SUFFICES ASSUME Init
             PROVE  IInv
    BY Zenon
<1>1. ASSUME NEW p \in Primaries
      PROVE  /\ last_sub_dag[p] = NoSubDag /\ last_sub_dag[p].index = 0 /\ sub_dags[p] = <<>>
             /\ 1..last_sub_dag[p].index = {} /\ DOMAIN sub_dags[p] = {}
    BY DEF Init, NoSubDag
<1>2. TypeOK
    <2>1. NoSubDag \in SubDags /\ NoSwaps \in SwapTables
        BY NoSubDagType, NoSwapsType, Zenon
    <2>2. MaxRestarts \in Nat
        BY BullsharkAssumption, Zenon
    <2>3. \A p \in Primaries :
              /\ \A c \in dag[p] : Round(c) > gc_round(committed_round[p])
              /\ DOMAIN sub_dags[p] = 1..last_sub_dag[p].index
              /\ \A i \in DOMAIN sub_dags[p] : sub_dags[p][i] \in SubDags
        BY <1>1, Zenon DEF Init
    <2> QED
        BY <2>1, <2>2, <2>3 DEF Init, TypeOK
<1>3. ASSUME NEW p \in Primaries
      PROVE  ClosedDag(p) /\ Collected(p) /\ History(p)
    <2>1. ClosedDag(p)
        BY Zenon DEF Init, ClosedDag
    <2>2. Collected(p)
        BY Zenon DEF Init, Collected
    <2>3. CommittedUpTo(sub_dags[p], 0) = [a \in Authorities |-> 0]
        <3> DEFINE zero == [a \in Authorities |-> 0]
        <3>1. CertificatesUpTo(sub_dags[p], 0) = {}
            BY DEF CertificatesUpTo
        <3>2. \A a \in Authorities : {zero[a]} \cup {Round(c) : c \in {x \in {} : Origin(x) = a}} = {0}
            BY Zenon
        <3>3. highest({0}) = 0
            BY DEF highest
        <3> QED
            BY <3>1, <3>2, <3>3, Zenon DEF CommittedUpTo, update
    <2>4. ScheduleAt(sub_dags[p], 0) = NoSwaps
        BY DEF ScheduleAt
    <2>5. Round(NoSubDag.leader) = 0
        BY Zenon DEF NoSubDag, Round
    <2> QED
        BY <1>1, <2>1, <2>2, <2>3, <2>4, <2>5, Zenon DEF Init, History, SubDagAt
<1> QED
    BY <1>2, <1>3, Zenon DEF IInv

\* and a step that leaves the state of a primary alone keeps what is said of it.
LEMMA SameDag ==
    ASSUME NEW q \in Primaries, ClosedDag(q), network' = network,
           certificate_store'[q] = certificate_store[q], new_certificates'[q] = new_certificates[q],
           dag'[q] = dag[q], committed_round'[q] = committed_round[q]
    PROVE  ClosedDag(q)'
BY Zenon DEF ClosedDag

LEMMA SameCollected ==
    ASSUME NEW q \in Primaries, Collected(q), network' = network, dag[q] \subseteq dag'[q],
           leaders_to_commit'[q] = leaders_to_commit[q],
           swap_table'[q] = swap_table[q], committed_round'[q] = committed_round[q]
    PROVE  Collected(q)'
BY Zenon DEF Collected

LEMMA SameHistory ==
    ASSUME NEW q \in Primaries, History(q), network' = network,
           sub_dags'[q] = sub_dags[q], last_sub_dag'[q] = last_sub_dag[q],
           committed_round'[q] = committed_round[q], last_committed'[q] = last_committed[q],
           stored_last_committed'[q] = stored_last_committed[q], swap_table'[q] = swap_table[q]
    PROVE  History(q)'
BY Zenon DEF History

\* The types kept by a step that commits and recovers nothing.
LEMMA SameTypes ==
    ASSUME TypeOK,
           certificate_store' \in [Primaries -> SUBSET DOMAIN network],
           new_certificates' \in [Primaries -> SUBSET DOMAIN network],
           dag' \in [Primaries -> SUBSET DOMAIN network],
           leader_round' \in [Primaries -> Nat],
           leaders_to_commit' \in [Primaries -> SUBSET DOMAIN network],
           \A q \in Primaries : \A c \in dag'[q] : Round(c) > gc_round(committed_round[q]),
           UNCHANGED <<network, last_committed, committed_round, last_sub_dag, swap_table,
                       stored_last_committed, sub_dags>>,
           restarts' \in 0..MaxRestarts
    PROVE  TypeOK'
<1>1. SubDags' = SubDags /\ SwapTables' = SwapTables
    BY Zenon DEF SubDags, SwapTables
<1>2. /\ network' \in Networks
      /\ last_committed' \in [Primaries -> [Authorities -> Nat]]
      /\ committed_round' \in [Primaries -> Nat]
      /\ last_sub_dag' \in [Primaries -> SubDags']
      /\ swap_table' \in [Primaries -> SwapTables']
      /\ stored_last_committed' \in [Primaries -> [Authorities -> Nat]]
      /\ DOMAIN sub_dags' = Primaries
    BY <1>1, Zenon DEF TypeOK
<1>3. \A p \in Primaries : /\ DOMAIN sub_dags'[p] = 1..last_sub_dag'[p].index
                           /\ \A i \in DOMAIN sub_dags'[p] : sub_dags'[p][i] \in SubDags'
    BY <1>1, Zenon DEF TypeOK
<1> QED
    BY <1>2, <1>3, Zenon DEF TypeOK

LEMMA AcceptInv ==
    ASSUME IInv, NEW p \in Primaries, NEW c \in DOMAIN network, accept_certificate(p, c)
    PROVE  IInv'
<1>1. /\ c \in DOMAIN network
      /\ Round(c) > gc_round(committed_round[p]) + 1 => Parents(network, c) \subseteq certificate_store[p]
      /\ certificate_store' = [certificate_store EXCEPT ![p] = @ \cup {c}]
      /\ new_certificates' = [new_certificates EXCEPT ![p] = @ \cup {c}]
      /\ UNCHANGED <<network, dag, last_committed, committed_round, last_sub_dag, swap_table,
                     leader_round, leaders_to_commit, stored_last_committed, sub_dags, restarts>>
    <2>1. WellFormed(network)
        BY NetworkAssumption, Zenon DEF IInv, TypeOK
    <2>2. Round(c) \in Nat /\ gc_round(committed_round[p]) \in Nat
        BY <2>1, CertificateType, GcRound, Zenon DEF IInv, TypeOK
    <2> QED
        BY <2>2 DEF accept_certificate, memory
<1>2. /\ certificate_store \in [Primaries -> SUBSET DOMAIN network]
      /\ new_certificates \in [Primaries -> SUBSET DOMAIN network]
    BY Zenon DEF IInv, TypeOK
<1>3. TypeOK'
    <2>1. /\ certificate_store' \in [Primaries -> SUBSET DOMAIN network]
          /\ new_certificates' \in [Primaries -> SUBSET DOMAIN network]
        BY <1>1, <1>2, Zenon
    <2>2. TypeOK
        BY Zenon DEF IInv
    <2>3. /\ certificate_store \in [Primaries -> SUBSET DOMAIN network]
          /\ dag \in [Primaries -> SUBSET DOMAIN network]
          /\ leader_round \in [Primaries -> Nat]
          /\ leaders_to_commit \in [Primaries -> SUBSET DOMAIN network]
          /\ \A q \in Primaries : \A x \in dag[q] : Round(x) > gc_round(committed_round[q])
        BY <2>2, Zenon DEF TypeOK
    <2>4. restarts' \in 0..MaxRestarts
        BY <1>1, <2>2, Zenon DEF TypeOK
    <2> QED
        BY <1>1, <2>1, <2>2, <2>3, <2>4, SameTypes, Zenon
<1>4. ASSUME NEW q \in Primaries
      PROVE  (ClosedDag(q) /\ Collected(q) /\ History(q))'
    <2>1. Collected(q)'
        BY <1>1, SameCollected, Zenon DEF IInv
    <2>2. History(q)'
        BY <1>1, SameHistory, Zenon DEF IInv
    <2>3. ClosedDag(q)'
        <3>1. CASE q # p
            BY <1>1, <1>2, <3>1, SameDag, Zenon DEF IInv
        <3>2. CASE q = p
            <4>1. /\ certificate_store'[p] = certificate_store[p] \cup {c}
                  /\ new_certificates'[p] = new_certificates[p] \cup {c}
                BY <1>1, <1>2, Zenon
            <4>2. ClosedDag(p)
                BY Zenon DEF IInv
            <4> QED
                BY <1>1, <3>2, <4>1, <4>2, Zenon DEF ClosedDag
        <3> QED
            BY <3>1, <3>2, Zenon
    <2> QED
        BY <2>1, <2>2, <2>3, Zenon
<1> QED
    BY <1>3, <1>4, Zenon DEF IInv

LEMMA CollectedInv ==
    ASSUME IInv, NEW p \in Primaries, NEW c \in new_certificates[p], process_collected(p, c)
    PROVE  IInv'
<1>1. /\ Round(c) <= gc_round(committed_round[p])
      /\ new_certificates' = [new_certificates EXCEPT ![p] = @ \ {c}]
      /\ UNCHANGED <<network, certificate_store, dag, last_committed, committed_round, last_sub_dag,
                     swap_table, leader_round, leaders_to_commit, stored_last_committed, sub_dags, restarts>>
    BY Zenon DEF process_collected, receive, memory, disk
<1>2. new_certificates \in [Primaries -> SUBSET DOMAIN network]
    BY Zenon DEF IInv, TypeOK
<1>3. TypeOK'
    <2>1. new_certificates' \in [Primaries -> SUBSET DOMAIN network]
        BY <1>1, <1>2, Zenon
    <2>2. TypeOK
        BY Zenon DEF IInv
    <2>3. /\ certificate_store \in [Primaries -> SUBSET DOMAIN network]
          /\ dag \in [Primaries -> SUBSET DOMAIN network]
          /\ leader_round \in [Primaries -> Nat]
          /\ leaders_to_commit \in [Primaries -> SUBSET DOMAIN network]
          /\ \A q \in Primaries : \A x \in dag[q] : Round(x) > gc_round(committed_round[q])
        BY <2>2, Zenon DEF TypeOK
    <2>4. restarts' \in 0..MaxRestarts
        BY <1>1, <2>2, Zenon DEF TypeOK
    <2> QED
        BY <1>1, <2>1, <2>2, <2>3, <2>4, SameTypes, Zenon
<1>4. ASSUME NEW q \in Primaries
      PROVE  (ClosedDag(q) /\ Collected(q) /\ History(q))'
    <2>1. Collected(q)'
        BY <1>1, SameCollected, Zenon DEF IInv
    <2>2. History(q)'
        BY <1>1, SameHistory, Zenon DEF IInv
    <2>3. ClosedDag(q)'
        <3>1. CASE q # p
            BY <1>1, <1>2, <3>1, SameDag, Zenon DEF IInv
        <3>2. CASE q = p
            <4>1. new_certificates'[p] = new_certificates[p] \ {c}
                BY <1>1, <1>2, Zenon
            <4>2. ClosedDag(p)
                BY Zenon DEF IInv
            <4>3. ~ (Round(c) > gc_round(committed_round[p]))
                <5>1. WellFormed(network)
                    BY NetworkAssumption, Zenon DEF IInv, TypeOK
                <5>2. Round(c) \in Nat /\ gc_round(committed_round[p]) \in Nat
                    BY <1>2, <5>1, CertificateType, GcRound, Zenon DEF IInv, TypeOK
                <5> QED
                    BY <1>1, <5>2
            <4> QED
                BY <1>1, <3>2, <4>1, <4>2, <4>3, Zenon DEF ClosedDag
        <3> QED
            BY <3>1, <3>2, Zenon
    <2> QED
        BY <2>1, <2>2, <2>3, Zenon
<1> QED
    BY <1>3, <1>4, Zenon DEF IInv

\* What a certificate that is put in the DAG changes.
LEMMA InsertedDag ==
    ASSUME IInv, NEW p \in Primaries, NEW c \in new_certificates[p],
           Round(c) > gc_round(committed_round[p]), check_parents(p, c),
           new_certificates' = [new_certificates EXCEPT ![p] = @ \ {c}],
           dag' = [dag EXCEPT ![p] = @ \cup {c}],
           UNCHANGED <<network, certificate_store, committed_round>>
    PROVE  /\ new_certificates' \in [Primaries -> SUBSET DOMAIN network]
           /\ dag' \in [Primaries -> SUBSET DOMAIN network]
           /\ \A q \in Primaries :
                  /\ dag[q] \subseteq dag'[q]
                  /\ \A x \in dag'[q] : Round(x) > gc_round(committed_round[q])
                  /\ ClosedDag(q)'
<1>1. /\ new_certificates \in [Primaries -> SUBSET DOMAIN network]
      /\ dag \in [Primaries -> SUBSET DOMAIN network]
      /\ \A q \in Primaries : \A x \in dag[q] : Round(x) > gc_round(committed_round[q])
    BY Zenon DEF IInv, TypeOK
<1>2. /\ new_certificates' \in [Primaries -> SUBSET DOMAIN network]
      /\ dag' \in [Primaries -> SUBSET DOMAIN network]
    BY <1>1, Zenon
<1>3. ASSUME NEW q \in Primaries
      PROVE  /\ dag[q] \subseteq dag'[q]
             /\ \A x \in dag'[q] : Round(x) > gc_round(committed_round[q])
             /\ ClosedDag(q)'
    <2>1. CASE q # p
        <3>1. dag'[q] = dag[q] /\ new_certificates'[q] = new_certificates[q]
            BY <1>1, <2>1, Zenon
        <3> QED
            BY <1>1, <3>1, SameDag, Zenon DEF IInv
    <2>2. CASE q = p
        <3>1. dag'[p] = dag[p] \cup {c} /\ new_certificates'[p] = new_certificates[p] \ {c}
            BY <1>1, Zenon
        <3>2. ClosedDag(p)
            BY Zenon DEF IInv
        <3>3. Round(c) > gc_round(committed_round[p]) + 1 => Parents(network, c) \subseteq dag[p]
            <4>1. WellFormed(network)
                BY NetworkAssumption, Zenon DEF IInv, TypeOK
            <4>2. Round(c) \in Nat /\ gc_round(committed_round[p]) \in Nat
                BY <1>1, <4>1, CertificateType, GcRound, Zenon DEF IInv, TypeOK
            <4> QED
                BY <4>2 DEF check_parents
        <3>4. ClosedDag(p)'
            BY <3>1, <3>2, <3>3, Zenon DEF ClosedDag
        <3> QED
            BY <1>1, <2>2, <3>1, <3>4, Zenon
    <2> QED
        BY <2>1, <2>2, Zenon
<1> QED
    BY <1>2, <1>3, Zenon

LEMMA InsertedInv ==
    ASSUME IInv, NEW p \in Primaries, NEW c \in new_certificates[p], process_inserted(p, c)
    PROVE  IInv'
<1>1. /\ Round(c) > gc_round(committed_round[p]) /\ check_parents(p, c)
      /\ new_certificates' = [new_certificates EXCEPT ![p] = @ \ {c}]
      /\ dag' = [dag EXCEPT ![p] = @ \cup {c}]
      /\ UNCHANGED <<network, certificate_store, last_committed, committed_round, last_sub_dag,
                     swap_table, leader_round, leaders_to_commit, stored_last_committed, sub_dags, restarts>>
    BY Zenon DEF process_inserted, receive, disk
<1>2. /\ new_certificates' \in [Primaries -> SUBSET DOMAIN network]
      /\ dag' \in [Primaries -> SUBSET DOMAIN network]
      /\ \A q \in Primaries :
             /\ dag[q] \subseteq dag'[q]
             /\ \A x \in dag'[q] : Round(x) > gc_round(committed_round[q])
             /\ ClosedDag(q)'
    BY <1>1, InsertedDag, Zenon
<1>3. TypeOK'
    <2>1. TypeOK
        BY DEF IInv
    <2>2. /\ certificate_store \in [Primaries -> SUBSET DOMAIN network]
          /\ leader_round \in [Primaries -> Nat]
          /\ leaders_to_commit \in [Primaries -> SUBSET DOMAIN network]
        BY <2>1, Zenon DEF TypeOK
    <2>3. restarts' \in 0..MaxRestarts
        BY <1>1, <2>1, Zenon DEF TypeOK
    <2> QED
        BY <1>1, <1>2, <2>1, <2>2, <2>3, SameTypes, Zenon
<1>4. ASSUME NEW q \in Primaries
      PROVE  (ClosedDag(q) /\ Collected(q) /\ History(q))'
    <2>1. Collected(q)'
        BY <1>1, <1>2, SameCollected, Zenon DEF IInv
    <2>2. History(q)'
        BY <1>1, SameHistory, Zenon DEF IInv
    <2> QED
        BY <1>2, <2>1, <2>2, Zenon
<1> QED
    BY <1>3, <1>4 DEF IInv

\* What is elected from the DAG of a primary could be from the whole one.
LEMMA ElectedIsElectable ==
    ASSUME NEW N, WellFormed(N), NEW D \in SUBSET DOMAIN N, NEW table, NEW committed \in Nat,
           NEW g \in Nat, g <= committed,
           \A d \in D : Round(d) > g + 1 => Parents(N, d) \subseteq D,
           NEW round, NEW C, elected(N, D, table, committed, round, C), C # {}
    PROVE  C \subseteq D /\ Electable(N, table, committed, C)
<1> DEFINE top == leader_certificate(table, round)
<1>1. supported(N, D, top) /\ order_leaders(N, D, table, committed, top, C)
    BY Zenon DEF elected
<1>2. C \subseteq D /\ top \in C
    BY <1>1, Zenon DEF order_leaders
<1> HIDE DEF top
<1>3. supported(N, DOMAIN N, top)
    BY <1>1, SupportFromPart, Zenon
<1>4. order_leaders(N, DOMAIN N, table, committed, top, C)
    BY <1>1, CollectedFromPart, Zenon
<1> QED
    BY <1>2, <1>3, <1>4, Zenon DEF Electable

LEMMA ElectsInv ==
    ASSUME IInv, NEW p \in Primaries, NEW c \in new_certificates[p], process_elects(p, c)
    PROVE  IInv'
<1>1. PICK C : /\ elected(network, dag'[p], swap_table[p], committed_round[p], Round(c) - 1, C)
               /\ leaders_to_commit' = [leaders_to_commit EXCEPT ![p] = C]
    BY Zenon DEF process_elects
<1>2. /\ Round(c) > gc_round(committed_round[p]) /\ check_parents(p, c)
      /\ Round(c) - 1 >= 2
      /\ new_certificates' = [new_certificates EXCEPT ![p] = @ \ {c}]
      /\ dag' = [dag EXCEPT ![p] = @ \cup {c}]
      /\ leader_round' = [leader_round EXCEPT ![p] = Round(c) - 1]
      /\ UNCHANGED <<network, certificate_store, last_committed, committed_round, last_sub_dag,
                     swap_table, stored_last_committed, sub_dags, restarts>>
    BY Zenon DEF process_elects, elects, receive, disk
<1>3. /\ new_certificates' \in [Primaries -> SUBSET DOMAIN network]
      /\ dag' \in [Primaries -> SUBSET DOMAIN network]
      /\ \A q \in Primaries :
             /\ dag[q] \subseteq dag'[q]
             /\ \A x \in dag'[q] : Round(x) > gc_round(committed_round[q])
             /\ ClosedDag(q)'
    BY <1>2, InsertedDag, Zenon
<1>4. /\ leaders_to_commit \in [Primaries -> SUBSET DOMAIN network]
      /\ leader_round \in [Primaries -> Nat] /\ Round(c) - 1 \in Nat
      /\ committed_round[p] \in Nat /\ WellFormed(network)
    <2>1. WellFormed(network) /\ c \in DOMAIN network
        BY NetworkAssumption, Zenon DEF IInv, TypeOK
    <2>2. Round(c) \in Nat
        BY <2>1, CertificateType, Zenon
    <2>3. Round(c) - 1 \in Nat
        BY <1>2, <2>2
    <2>4. /\ leaders_to_commit \in [Primaries -> SUBSET DOMAIN network]
          /\ leader_round \in [Primaries -> Nat] /\ committed_round \in [Primaries -> Nat]
        BY Zenon DEF IInv, TypeOK
    <2> QED
        BY <2>1, <2>3, <2>4, Zenon
<1>5. C # {} => C \subseteq dag'[p] /\ Electable(network, swap_table[p], committed_round[p], C)
    <2> SUFFICES ASSUME C # {}
                 PROVE  C \subseteq dag'[p] /\ Electable(network, swap_table[p], committed_round[p], C)
        BY Zenon
    <2> DEFINE g == gc_round(committed_round[p])
    <2>1. g \in Nat /\ g <= committed_round[p]
        BY <1>4, GcRound, Zenon
    <2>2. \A d \in dag'[p] : Round(d) > g + 1 => Parents(network, d) \subseteq dag'[p]
        BY <1>2, <1>3, Zenon DEF ClosedDag
    <2>3. dag'[p] \in SUBSET DOMAIN network
        BY <1>3, Zenon
    <2> HIDE DEF g
    <2> QED
        BY <1>1, <1>4, <2>1, <2>2, <2>3, ElectedIsElectable, Zenon
<1>6. TypeOK'
    <2>1. leaders_to_commit' \in [Primaries -> SUBSET DOMAIN network]
        BY <1>1, <1>3, <1>4, <1>5, Zenon
    <2>2. leader_round' \in [Primaries -> Nat]
        BY <1>2, <1>4, Zenon
    <2>3. TypeOK
        BY DEF IInv
    <2>4. certificate_store \in [Primaries -> SUBSET DOMAIN network]
        BY <2>3, Zenon DEF TypeOK
    <2>5. restarts' \in 0..MaxRestarts
        BY <1>2, <2>3, Zenon DEF TypeOK
    <2> QED
        BY <1>2, <1>3, <2>1, <2>2, <2>3, <2>4, <2>5, SameTypes, Zenon
<1>7. ASSUME NEW q \in Primaries
      PROVE  (ClosedDag(q) /\ Collected(q) /\ History(q))'
    <2>1. History(q)'
        BY <1>2, SameHistory, Zenon DEF IInv
    <2>2. CASE q # p
        <3>1. leaders_to_commit'[q] = leaders_to_commit[q]
            BY <1>1, <1>4, <2>2, Zenon
        <3>2. Collected(q)'
            BY <1>2, <1>3, <3>1, SameCollected, Zenon DEF IInv
        <3> QED
            BY <1>3, <2>1, <3>2, Zenon
    <2>3. CASE q = p
        <3>1. leaders_to_commit'[p] = C
            BY <1>1, <1>4, Zenon
        <3>2. Collected(p)'
            BY <1>2, <1>5, <3>1, Zenon DEF Collected
        <3> QED
            BY <1>3, <2>1, <2>3, <3>2, Zenon
    <2> QED
        BY <2>2, <2>3, Zenon
<1> QED
    BY <1>6, <1>7 DEF IInv

\* and a step that changes nothing.
LEMMA StutterInv ==
    ASSUME IInv, UNCHANGED vars
    PROVE  IInv'
<1>1. UNCHANGED <<network, certificate_store, new_certificates, dag, last_committed, committed_round,
                  last_sub_dag, swap_table, leader_round, leaders_to_commit, stored_last_committed,
                  sub_dags, restarts>>
    BY Zenon DEF vars, memory, disk
<1>2. TypeOK'
    <2>1. TypeOK
        BY Zenon DEF IInv
    <2>2. /\ certificate_store \in [Primaries -> SUBSET DOMAIN network]
          /\ new_certificates \in [Primaries -> SUBSET DOMAIN network]
          /\ dag \in [Primaries -> SUBSET DOMAIN network]
          /\ leader_round \in [Primaries -> Nat]
          /\ leaders_to_commit \in [Primaries -> SUBSET DOMAIN network]
          /\ \A q \in Primaries : \A c \in dag[q] : Round(c) > gc_round(committed_round[q])
        BY <2>1, Zenon DEF TypeOK
    <2>3. restarts' \in 0..MaxRestarts
        BY <1>1, <2>1, Zenon DEF TypeOK
    <2> QED
        BY <1>1, <2>1, <2>2, <2>3, SameTypes, Zenon
<1>3. ASSUME NEW q \in Primaries
      PROVE  (ClosedDag(q) /\ Collected(q) /\ History(q))'
    <2>1. ClosedDag(q) /\ Collected(q) /\ History(q)
        BY Zenon DEF IInv
    <2> QED
        BY <1>1, <2>1, SameDag, SameCollected, SameHistory, Zenon
<1> QED
    BY <1>2, <1>3, Zenon DEF IInv

-----------------------------------------------------------------------------
\* t is the store of p with one more sub-dag, that of the first leader of L.
OneMore(p, n, L, top, t) ==
    /\ n \in Nat /\ n = last_sub_dag[p].index
    /\ Electable(network, swap_table[p], committed_round[p], L)
    /\ top \in L /\ \A l \in L \ {top} : Round(top) < Round(l)
    /\ \A i \in 1..n : t[i] = sub_dags[p][i]
    /\ t[n + 1] = CommittedSubDag(network, last_sub_dag[p], last_committed[p], top)

\* The first leader of L is new, and the store before it is as it was.
LEMMA FirstLeader ==
    ASSUME TypeOK, NEW p \in Primaries, History(p), NEW n, NEW L, NEW top, NEW t, OneMore(p, n, L, top, t)
    PROVE  /\ top \in DOMAIN network /\ Round(top) \in Nat /\ Round(top) >= committed_round[p] + 2
           /\ \A l \in L : Round(top) <= Round(l)
           /\ \E a \in DOMAIN network : L \in SUBSET leaders(swap_table[p], committed_round[p], Round(a))
<1>1. /\ Electable(network, swap_table[p], committed_round[p], L)
      /\ top \in L /\ \A l \in L \ {top} : Round(top) < Round(l)
    BY Zenon DEF OneMore
<1>2. WellFormed(network) /\ committed_round[p] \in Nat
    BY NetworkAssumption, Zenon DEF TypeOK
<1>3. PICK a \in L : order_leaders(network, DOMAIN network, swap_table[p], committed_round[p], a, L)
    BY <1>1, Zenon DEF Electable
<1>4. /\ a \in DOMAIN network /\ L \subseteq DOMAIN network
      /\ L \subseteq leaders(swap_table[p], committed_round[p], Round(a))
      /\ \A l \in L : Round(l) \in Nat /\ Round(l) >= committed_round[p] + 2
    BY <1>2, <1>3, ChainType, Zenon
<1>5. \A l \in L : Round(top) <= Round(l)
    BY <1>1, <1>4
<1> QED
    BY <1>1, <1>4, <1>5, Zenon

LEMMA SameBefore ==
    ASSUME TypeOK, NEW p \in Primaries, History(p), NEW n, NEW L, NEW top, NEW t, OneMore(p, n, L, top, t)
    PROVE  /\ \A i \in 1..n : t[i] = sub_dags[p][i]
           /\ last_sub_dag[p] = SubDagAt(t, n) /\ last_committed[p] = CommittedUpTo(t, n)
           /\ swap_table[p] = ScheduleAt(t, n) /\ committed_round[p] = Round(SubDagAt(t, n).leader)
           /\ t[n + 1] = CommittedSubDag(network, last_sub_dag[p], last_committed[p], top)
           /\ t[n + 1].index = n + 1 /\ t[n + 1].leader = top
           /\ t[n + 1].certificates = order_dag(network, last_committed[p], top)
<1> DEFINE s == sub_dags[p]
<1>0. n \in Nat /\ n = last_sub_dag[p].index
    BY Zenon DEF OneMore
<1>1. /\ \A i \in 1..n : t[i] = s[i]
      /\ t[n + 1] = CommittedSubDag(network, last_sub_dag[p], last_committed[p], top)
    BY Zenon DEF OneMore
<1>2. /\ SubDagAt(s, n) = SubDagAt(t, n) /\ CommittedUpTo(s, n) = CommittedUpTo(t, n)
      /\ ScheduleAt(s, n) = ScheduleAt(t, n)
    BY <1>0, <1>1, SamePrefix, Zenon
<1>3. /\ last_sub_dag[p] = SubDagAt(s, n) /\ last_committed[p] = CommittedUpTo(s, n)
      /\ swap_table[p] = ScheduleAt(s, n) /\ committed_round[p] = Round(last_sub_dag[p].leader)
    BY <1>0, Zenon DEF History
<1>4. /\ t[n + 1].index = n + 1 /\ t[n + 1].leader = top
      /\ t[n + 1].certificates = order_dag(network, last_committed[p], top)
    BY <1>0, <1>1 DEF CommittedSubDag
<1> QED
    BY <1>1, <1>2, <1>3, <1>4, Zenon

\* A commit: the store goes on with the sub-dag that its sub-dags determine,
LEMMA MoreDetermined ==
    ASSUME TypeOK, NEW p \in Primaries, History(p), NEW n, NEW L, NEW top, NEW t, OneMore(p, n, L, top, t)
    PROVE  \A i \in 1..(n + 1) : t[i].index = i /\ Determined(network, t, i)
<1> DEFINE s == sub_dags[p]
<1>0. n \in Nat /\ n = last_sub_dag[p].index
    BY DEF OneMore
<1>1. Determined(network, t, n + 1)
    <2>1. /\ top \in L /\ Electable(network, swap_table[p], committed_round[p], L)
        BY Zenon DEF OneMore
    <2>2. \A l \in L : Round(top) <= Round(l)
        BY FirstLeader, Zenon
    <2>3. PICK a \in DOMAIN network : L \in SUBSET leaders(swap_table[p], committed_round[p], Round(a))
        BY FirstLeader, Zenon
    <2>4. /\ last_sub_dag[p] = SubDagAt(t, n) /\ last_committed[p] = CommittedUpTo(t, n)
          /\ swap_table[p] = ScheduleAt(t, n) /\ committed_round[p] = Round(SubDagAt(t, n).leader)
          /\ t[n + 1] = CommittedSubDag(network, last_sub_dag[p], last_committed[p], top)
          /\ t[n + 1].leader = top
        BY SameBefore, SMTT(30), Zenon
    <2>5. (n + 1) - 1 = n
        BY <1>0
    <2>6. /\ t[n + 1] = CommittedSubDag(network, SubDagAt(t, n), CommittedUpTo(t, n), t[n + 1].leader)
          /\ Electable(network, ScheduleAt(t, n), Round(SubDagAt(t, n).leader), L)
          /\ L \in SUBSET leaders(ScheduleAt(t, n), Round(SubDagAt(t, n).leader), Round(a))
          /\ t[n + 1].leader \in L
          /\ \A l \in L : Round(t[n + 1].leader) <= Round(l)
        BY <2>1, <2>2, <2>3, <2>4, Zenon
    <2> QED
        BY <2>5, <2>6, Zenon DEF Determined
<1>2. ASSUME NEW i \in 1..n
      PROVE  t[i].index = i /\ Determined(network, t, i)
    <2>1. \A j \in 1..n : t[j] = s[j]
        BY SameBefore, SMTT(30), Zenon
    <2>2. i \in Nat /\ i >= 1 /\ \A j \in 1..i : s[j] = t[j]
        BY <1>0, <2>1
    <2>3. s[i].index = i /\ Determined(network, s, i)
        BY <1>0, Zenon DEF History
    <2>4. Determined(network, t, i)
        BY <2>2, <2>3, DeterminedByPrefix, Zenon
    <2>5. t[i].index = i
        BY <2>1, <2>3, Zenon
    <2> QED
        BY <2>4, <2>5, Zenon
<1>3. t[n + 1].index = n + 1
    BY SameBefore, SMTT(30), Zenon
<1>4. \A i \in 1..(n + 1) : i = n + 1 \/ i \in 1..n
    BY <1>0
<1> QED
    BY <1>1, <1>2, <1>3, <1>4, Zenon

\* whose leader is later than theirs,
LEMMA MoreRounds ==
    ASSUME TypeOK, NEW p \in Primaries, History(p), NEW n, NEW L, NEW top, NEW t, OneMore(p, n, L, top, t)
    PROVE  \A i, j \in 1..(n + 1) : i < j => Round(t[i].leader) < Round(t[j].leader)
<1> SUFFICES ASSUME NEW i \in 1..(n + 1), NEW j \in 1..(n + 1), i < j
             PROVE  Round(t[i].leader) < Round(t[j].leader)
    BY Zenon
<1> DEFINE s == sub_dags[p]
<1>0. n \in Nat /\ n = last_sub_dag[p].index
    BY Zenon DEF OneMore
<1>1. \A k \in 1..n : t[k] = s[k]
    BY SameBefore, SMTT(30), Zenon
<1>2. i \in 1..n /\ t[i] = s[i]
    BY <1>0, <1>1
<1>3. CASE j = n + 1
    <2>1. Round(s[i].leader) \in Nat /\ Round(s[i].leader) <= committed_round[p] /\ committed_round[p] \in Nat
        BY <1>0, <1>2, HistoryFacts, Zenon DEF TypeOK
    <2>2. t[n + 1].leader = top
        BY SameBefore, SMTT(30), Zenon
    <2>3. Round(top) \in Nat /\ Round(top) >= committed_round[p] + 2
        BY FirstLeader, Zenon
    <2>4. Round(s[i].leader) < Round(top)
        BY <2>1, <2>3
    <2> QED
        BY <1>2, <1>3, <2>2, <2>4, Zenon
<1>4. CASE j # n + 1
    <2>1. j \in 1..n /\ t[j] = s[j]
        BY <1>0, <1>1, <1>4
    <2>2. Round(s[i].leader) < Round(s[j].leader)
        BY <1>0, <1>2, <2>1, Zenon DEF History
    <2> QED
        BY <1>2, <2>1, <2>2, Zenon
<1> QED
    BY <1>3, <1>4, Zenon

\* which raises last_committed as update does,
LEMMA MoreCommitted ==
    ASSUME TypeOK, NEW p \in Primaries, History(p), NEW n, NEW L, NEW top, NEW t, OneMore(p, n, L, top, t)
    PROVE  CommittedUpTo(t, n + 1) = update(last_committed[p], t[n + 1].certificates)
<1> DEFINE zero == [b \in Authorities |-> 0]
           A == CertificatesUpTo(t, n)
           B == t[n + 1].certificates
           s == sub_dags[p]
<1>0. n \in Nat /\ n = last_sub_dag[p].index
    BY DEF OneMore
<1>1. /\ \A i \in 1..n : t[i] = s[i]
      /\ last_committed[p] = CommittedUpTo(t, n)
      /\ B = order_dag(network, last_committed[p], top)
    BY SameBefore, SMTT(30), Zenon
<1>2. /\ WellFormed(network) /\ committed_round[p] \in Nat
      /\ top \in DOMAIN network /\ Round(top) \in Nat /\ Round(top) >= committed_round[p] + 2
    BY FirstLeader, NetworkAssumption, Zenon DEF TypeOK
<1>3. CertificatesUpTo(t, n + 1) = A \cup B
    <2>1. 1..(n + 1) = (1..n) \cup {n + 1}
        BY <1>0
    <2> QED
        BY <2>1, Zenon DEF CertificatesUpTo
<1>4. ASSUME NEW c \in A
      PROVE  c \in DOMAIN network /\ Round(c) <= Round(top)
    <2>1. PICK i \in 1..n : c \in s[i].certificates
        BY <1>0, <1>1, Zenon DEF CertificatesUpTo
    <2>2. /\ c \in DOMAIN network /\ Round(c) <= Round(s[i].leader)
          /\ Round(s[i].leader) \in Nat /\ Round(s[i].leader) <= committed_round[p]
        BY <1>0, <2>1, HistoryFacts, Zenon
    <2>3. Round(c) \in Nat
        BY <1>2, <2>2, CertificateType, Zenon
    <2> QED
        BY <1>2, <2>2, <2>3, SMTT(30), Zenon
<1>5. ASSUME NEW c \in B
      PROVE  c \in DOMAIN network /\ Round(c) <= Round(top)
    BY <1>1, <1>2, OrderDagType, Zenon
<1>6. update(zero, A) = last_committed[p] /\ CommittedUpTo(t, n + 1) = update(zero, A \cup B)
    BY <1>1, <1>3, Zenon DEF CommittedUpTo
<1>7. zero \in [Authorities -> Nat]
    BY Zenon
<1> HIDE DEF zero, A, B
<1>8. update(update(zero, A), B) = update(zero, A \cup B)
    <2>1. A \in SUBSET DOMAIN network /\ B \in SUBSET DOMAIN network /\ \A c \in A \cup B : Round(c) <= Round(top)
        BY <1>4, <1>5, Zenon
    <2>2. WellFormed(network) /\ Round(top) \in Nat
        BY <1>2, Zenon
    <2> QED
        BY <1>7, <2>1, <2>2, UpdateTwice
<1> QED
    BY <1>6, <1>8, Zenon DEF B

\* and which changes the schedule as update_leader_schedule does.
LEMMA MoreSchedule ==
    ASSUME TypeOK, NEW p \in Primaries, History(p), NEW n, NEW L, NEW top, NEW t, OneMore(p, n, L, top, t)
    PROVE  ScheduleAt(t, n + 1) = update_leader_schedule(swap_table[p], t[n + 1])
<1> DEFINE finals == {i \in 1..(n + 1) : t[i].final_of_schedule}
<1>0. n \in Nat /\ n = last_sub_dag[p].index
    BY DEF OneMore
<1>1. CASE t[n + 1].final_of_schedule
    <2>1. n + 1 \in finals /\ \A i \in finals : i <= n + 1 /\ i \in Int
        BY <1>0, <1>1
    <2>2. highest(finals) = n + 1
        <3> HIDE DEF finals
        <3>1. highest(finals) \in finals /\ n + 1 <= highest(finals)
            BY <2>1, Highest, Zenon
        <3> QED
            BY <1>0, <2>1, <3>1
    <2>3. ScheduleAt(t, n + 1) = LeaderSwapTable(t[n + 1].scores)
        BY <2>1, <2>2, Zenon DEF ScheduleAt
    <2> QED
        BY <1>1, <2>3, Zenon DEF update_leader_schedule
<1>2. CASE ~ t[n + 1].final_of_schedule
    <2>1. finals = {i \in 1..n : t[i].final_of_schedule}
        BY <1>0, <1>2
    <2>2. ScheduleAt(t, n + 1) = ScheduleAt(t, n)
        BY <2>1, Zenon DEF ScheduleAt
    <2>3. ScheduleAt(t, n) = swap_table[p]
        BY SameBefore, SMTT(30), Zenon
    <2> QED
        BY <1>2, <2>2, <2>3, Zenon DEF update_leader_schedule
<1> QED
    BY <1>1, <1>2, Zenon

\* What remains in the DAG once it is purged has its parents.
LEMMA PurgedDag ==
    ASSUME TypeOK, NEW p \in Primaries, ClosedDag(p), NEW round \in Nat, committed_round[p] <= round,
           NEW D, D = {c \in dag[p] : Round(c) > gc_round(round)}
    PROVE  /\ \A c \in certificate_store[p] :
                  /\ Round(c) > gc_round(round) + 1 => Parents(network, c) \subseteq certificate_store[p]
                  /\ Round(c) > gc_round(round) => c \in D \cup new_certificates[p]
           /\ \A c \in D : Round(c) > gc_round(round) + 1 => Parents(network, c) \subseteq D
<1> DEFINE g == gc_round(committed_round[p])
           h == gc_round(round)
<1>1. g \in Nat /\ h \in Nat /\ g <= h
    BY GcRound, GcRoundMonotone, Zenon DEF TypeOK
<1>2. /\ WellFormed(network)
      /\ certificate_store[p] \subseteq DOMAIN network /\ dag[p] \subseteq DOMAIN network
    BY NetworkAssumption, Zenon DEF TypeOK
<1>3. \A c \in DOMAIN network : Round(c) \in Nat
    BY <1>2, CertificateType, Zenon
<1>4. /\ dag[p] \subseteq certificate_store[p]
      /\ \A c \in certificate_store[p] :
             /\ Round(c) > g + 1 => Parents(network, c) \subseteq certificate_store[p]
             /\ Round(c) > g => c \in dag[p] \cup new_certificates[p]
      /\ \A c \in dag[p] : Round(c) > g + 1 => Parents(network, c) \subseteq dag[p]
    BY Zenon DEF ClosedDag
<1>5. \A c \in D : c \in dag[p] /\ c \in DOMAIN network
    BY <1>2, Zenon
<1>6. ASSUME NEW c \in D, Round(c) > h + 1, NEW x \in Parents(network, c)
      PROVE  x \in D
    <2>1. Round(x) = Round(c) - 1
        BY <1>2, <1>5, ParentType, Zenon
    <2>2. x \in dag[p]
        BY <1>1, <1>3, <1>4, <1>5, <1>6
    <2> QED
        BY <1>1, <1>3, <1>5, <1>6, <2>1, <2>2
<1> HIDE DEF g
<1> QED
    BY <1>1, <1>2, <1>3, <1>4, <1>6, SMTT(30), Zenon

-----------------------------------------------------------------------------
\* What one turn of the loop of commit_leader does: t is the store after it, with
\* the n + 1st sub-dag, that of top, and C what is left to commit.
CommitEffect(p, n, top, C, t) ==
    /\ OneMore(p, n, leaders_to_commit[p], top, t)
    /\ DOMAIN t = 1..(n + 1)
    /\ last_committed' = [last_committed EXCEPT ![p] = update(last_committed[p], t[n + 1].certificates)]
    /\ committed_round' = [committed_round EXCEPT ![p] = Round(top)]
    /\ dag' = [dag EXCEPT ![p] = {c \in dag[p] : Round(c) > gc_round(Round(top))}]
    /\ last_sub_dag' = [last_sub_dag EXCEPT ![p] = t[n + 1]]
    /\ stored_last_committed' = [stored_last_committed EXCEPT ![p] = update(last_committed[p], t[n + 1].certificates)]
    /\ sub_dags' = [sub_dags EXCEPT ![p] = t]
    /\ swap_table' = [swap_table EXCEPT ![p] = update_leader_schedule(swap_table[p], t[n + 1])]
    /\ IF t[n + 1].final_of_schedule /\ leaders_to_commit[p] \ {top} # {}
       THEN elected(network, dag'[p], swap_table'[p], Round(top), leader_round[p], C)
       ELSE C = leaders_to_commit[p] \ {top}
    /\ leaders_to_commit' = [leaders_to_commit EXCEPT ![p] = C]
    /\ UNCHANGED <<network, certificate_store, leader_round, new_certificates, restarts>>

LEMMA CommitHasEffect ==
    ASSUME IInv, NEW p \in Primaries, commit_leader(p)
    PROVE  \E n, top, C, t : CommitEffect(p, n, top, C, t)
<1> DEFINE n == last_sub_dag[p].index
           L == leaders_to_commit[p]
           s == sub_dags[p]
           new(top) == CommittedSubDag(network, last_sub_dag[p], last_committed[p], top)
           committed(top) == highest({committed_round[p], Round(top)})
           table(top) == update_leader_schedule(swap_table[p], new(top))
           t(top) == [i \in DOMAIN s \cup {new(top).index} |-> IF i = new(top).index THEN new(top) ELSE s[i]]
<1>1. PICK top \in L :
          /\ \A l \in L \ {top} : Round(top) < Round(l)
          /\ last_committed' = [last_committed EXCEPT ![p] = update(last_committed[p], new(top).certificates)]
          /\ committed_round' = [committed_round EXCEPT ![p] = committed(top)]
          /\ dag' = [dag EXCEPT ![p] = {c \in dag[p] : Round(c) > gc_round(committed(top))}]
          /\ last_sub_dag' = [last_sub_dag EXCEPT ![p] = new(top)]
          /\ stored_last_committed' = [stored_last_committed EXCEPT ![p] = last_committed'[p]]
          /\ sub_dags' = [sub_dags EXCEPT ![p] = t(top)]
          /\ swap_table' = [swap_table EXCEPT ![p] = table(top)]
          /\ \E C : /\ IF new(top).final_of_schedule /\ L \ {top} # {}
                       THEN elected(network, dag'[p], table(top), committed(top), leader_round[p], C)
                       ELSE C = L \ {top}
                    /\ leaders_to_commit' = [leaders_to_commit EXCEPT ![p] = C]
    BY Zenon DEF commit_leader
<1>2. PICK C : /\ IF new(top).final_of_schedule /\ L \ {top} # {}
                  THEN elected(network, dag'[p], table(top), committed(top), leader_round[p], C)
                  ELSE C = L \ {top}
               /\ leaders_to_commit' = [leaders_to_commit EXCEPT ![p] = C]
    BY <1>1, Zenon
<1>3. UNCHANGED <<network, certificate_store, leader_round, new_certificates, restarts>>
    BY Zenon DEF commit_leader
<1>4. /\ TypeOK /\ Collected(p) /\ History(p)
      /\ committed_round[p] \in Nat /\ n \in Nat /\ DOMAIN s = 1..n
      /\ DOMAIN last_committed = Primaries /\ DOMAIN swap_table = Primaries
    BY Zenon DEF IInv, TypeOK, SubDags
<1>5. new(top).index = n + 1
    BY Zenon DEF CommittedSubDag
<1> HIDE DEF new
<1>6. DOMAIN t(top) = 1..(n + 1) /\ t(top)[n + 1] = new(top) /\ \A i \in 1..n : t(top)[i] = s[i]
    BY <1>4, <1>5, SMTT(30), Zenon
<1>7. Electable(network, swap_table[p], committed_round[p], L)
    BY <1>1, <1>4, ZenonT(30) DEF Collected
<1>8. OneMore(p, n, L, top, t(top))
    BY <1>1, <1>4, <1>6, <1>7, Zenon DEF OneMore, new
<1> HIDE DEF t, L, n
<1>9. committed(top) = Round(top)
    <2>1. Round(top) \in Nat /\ Round(top) >= committed_round[p] + 2
        BY <1>4, <1>8, FirstLeader, Zenon
    <2>2. Round(top) \in Int /\ committed_round[p] \in Int /\ committed_round[p] <= Round(top)
        BY <1>4, <2>1
    <2> QED
        BY <2>2, HighestOfTwo, Zenon
<1> HIDE DEF committed, table
<1>10. /\ last_committed'[p] = update(last_committed[p], new(top).certificates)
       /\ swap_table'[p] = table(top)
    BY <1>1, <1>4, ZenonT(30)
<1>11. CommitEffect(p, n, top, C, t(top))
    BY <1>1, <1>2, <1>3, <1>6, <1>8, <1>9, <1>10, Zenon DEF CommitEffect, L, table
<1> QED
    BY <1>11, Zenon
=============================================================================
