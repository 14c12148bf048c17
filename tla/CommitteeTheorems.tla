-------------------------- MODULE CommitteeTheorems --------------------------
(***************************************************************************)
(* What the thresholds of a committee guarantee, for every distribution of *)
(* stake that Committee admits, and two facts about natural numbers that   *)
(* the proofs of the components share.                                     *)
(***************************************************************************)
EXTENDS Committee, FiniteSets, WellFoundedInduction, TLAPS

\* The thresholds of committee.rs in integer arithmetic: two quorums overlap in
\* at least the validity threshold, and what is left without the largest
\* tolerated faulty stake is a quorum.
LEMMA ThresholdArithmetic ==
    /\ total_stake \in Nat
    /\ quorum_threshold \in Nat
    /\ validity_threshold \in Nat
    /\ 2 * quorum_threshold >= total_stake + validity_threshold
    /\ total_stake - (validity_threshold - 1) >= quorum_threshold
<1>1. total_stake \in Nat
    BY StakeAssumption DEF total_stake
<1>2. /\ (2 * total_stake) \div 3 \in Nat
      /\ 3 * ((2 * total_stake) \div 3) <= 2 * total_stake
      /\ 2 * total_stake <= 3 * ((2 * total_stake) \div 3) + 2
    BY <1>1
<1>3. /\ (total_stake + 2) \div 3 \in Nat
      /\ 3 * ((total_stake + 2) \div 3) <= total_stake + 2
      /\ total_stake <= 3 * ((total_stake + 2) \div 3)
    BY <1>1
<1> QED
    BY <1>1, <1>2, <1>3 DEF quorum_threshold, validity_threshold

\* More authorities have no less stake.
LEMMA StakeMonotone ==
    ASSUME NEW S, NEW T, S \subseteq T, T \subseteq Authorities
    PROVE  StakeOf[S] \in Nat /\ StakeOf[T] \in Nat /\ StakeOf[S] <= StakeOf[T]
<1> DEFINE R == T \ S
<1>1. S \cup R = T /\ S \cap R = {}
    OBVIOUS
<1>2. S \in SUBSET Authorities /\ R \in SUBSET Authorities /\ T \in SUBSET Authorities
    OBVIOUS
<1>3. StakeOf[S] \in Nat /\ StakeOf[R] \in Nat /\ StakeOf[T] \in Nat
    BY <1>2, StakeAssumption
<1>4. StakeOf[S \cup R] + StakeOf[S \cap R] = StakeOf[S] + StakeOf[R]
    BY <1>2, StakeAssumption
<1>5. StakeOf[T] + StakeOf[{}] = StakeOf[S] + StakeOf[R]
    BY <1>1, <1>4
<1> QED
    BY <1>3, <1>5, StakeAssumption

\* The stakes of authorities that are told apart add up.
LEMMA StakeAdds ==
    ASSUME NEW S \in SUBSET Authorities, NEW T \in SUBSET Authorities, S \cap T = {}
    PROVE  /\ StakeOf[S] \in Nat /\ StakeOf[T] \in Nat
           /\ StakeOf[S \cup T] = StakeOf[S] + StakeOf[T]
<1>1. StakeOf[S \cup T] + StakeOf[S \cap T] = StakeOf[S] + StakeOf[T]
    BY StakeAssumption, Zenon
<1>2. S \cup T \in SUBSET Authorities
    OBVIOUS
<1>3. StakeOf[S \cup T] \in Nat /\ StakeOf[S] \in Nat /\ StakeOf[T] \in Nat /\ StakeOf[{}] = 0
    BY <1>2, StakeAssumption
<1>4. StakeOf[S \cup T] + 0 = StakeOf[S] + StakeOf[T]
    BY <1>1, <1>3, Zenon
<1> QED
    BY <1>3, <1>4

\* Committee::reached_quorum: any two quorums have an honest authority in common.
THEOREM QuorumIntersection ==
    ASSUME NEW S \in SUBSET Authorities, NEW T \in SUBSET Authorities,
           reached_quorum(S), reached_quorum(T)
    PROVE  \E a \in Honest : a \in S /\ a \in T
<1> SUFFICES ASSUME S \cap T \subseteq Faulty
             PROVE  FALSE
    BY DEF Honest
<1>1. StakeOf[S \cup T] + StakeOf[S \cap T] = StakeOf[S] + StakeOf[T]
    BY StakeAssumption
<1>2. /\ StakeOf[S \cup T] \in Nat
      /\ StakeOf[S \cup T] <= total_stake
    BY StakeMonotone DEF total_stake
<1>3. /\ StakeOf[S \cap T] \in Nat
      /\ StakeOf[Faulty] \in Nat
      /\ StakeOf[S \cap T] <= StakeOf[Faulty]
    BY StakeMonotone, FaultAssumption
<1>4. /\ StakeOf[S] \in Nat /\ StakeOf[S] >= quorum_threshold
      /\ StakeOf[T] \in Nat /\ StakeOf[T] >= quorum_threshold
    BY StakeAssumption DEF reached_quorum
<1>5. StakeOf[Faulty] < validity_threshold
    BY FaultAssumption
<1> QED
    BY <1>1, <1>2, <1>3, <1>4, <1>5, ThresholdArithmetic

\* Committee::quorum_threshold: the honest authorities are a quorum by themselves,
\* so that waiting for one never waits for a faulty authority.
THEOREM HonestQuorum == reached_quorum(Honest)
<1>1. Honest \cup Faulty = Authorities /\ Honest \cap Faulty = {}
    BY FaultAssumption DEF Honest
<1>2. Honest \in SUBSET Authorities /\ Faulty \in SUBSET Authorities
    BY FaultAssumption DEF Honest
<1>3. StakeOf[Honest \cup Faulty] + StakeOf[Honest \cap Faulty] = StakeOf[Honest] + StakeOf[Faulty]
    BY <1>2, StakeAssumption, Zenon
<1>4. total_stake + 0 = StakeOf[Honest] + StakeOf[Faulty]
    BY <1>1, <1>3, StakeAssumption DEF total_stake
<1>5. StakeOf[Honest] \in Nat /\ StakeOf[Faulty] \in Nat
    BY <1>2, StakeAssumption
<1>6. StakeOf[Faulty] < validity_threshold
    BY FaultAssumption
<1> QED
    BY <1>4, <1>5, <1>6, ThresholdArithmetic DEF reached_quorum

-----------------------------------------------------------------------------
\* A nonempty set of natural numbers has a least element: the smallest of the
\* intervals 0..n under inclusion.
LEMMA Least ==
    ASSUME NEW S \in SUBSET Nat, S # {}
    PROVE  \E n \in S : \A m \in S : n <= m
<1>1. PICK n \in S : \A m \in S : ~ (<<m, n>> \in OpToRel(<, Nat))
    BY NatLessThanWellFounded, WFMin, Zenon
<1>2. \A m \in S : ~ (m < n)
    BY <1>1, Zenon DEF OpToRel
<1> QED
    BY <1>2

\* A set with at most one element has zero or one element.
LEMMA AtMostOne ==
    ASSUME NEW S, NEW x, S \subseteq {x}
    PROVE  Cardinality(S) \in {0, 1}
<1> DEFINE Counts(f) == f = [T \in SUBSET S |-> IF T = {} THEN 0 ELSE 1 + f[T \ {CHOOSE y : y \in T}]]
           f0 == [T \in SUBSET S |-> IF T = {} THEN 0 ELSE 1]
           CS == CHOOSE f : Counts(f)
<1>1. Cardinality(S) = CS[S]
    BY DEF Cardinality
<1>2. ASSUME NEW T \in SUBSET S, T # {}
      PROVE  T \ {CHOOSE y : y \in T} = {} /\ {} \in SUBSET S
    BY <1>2
<1>3. Counts(f0)
    BY <1>2
<1>4. Counts(CS)
    BY <1>3, Zenon
<1>5. \A T \in SUBSET S : CS[T] = IF T = {} THEN 0 ELSE 1 + CS[T \ {CHOOSE y : y \in T}]
    BY <1>4, Zenon
<1> HIDE DEF CS
<1>6. CS[{}] = 0
    BY <1>5
<1>7. S # {} => CS[S] = 1 + CS[{}]
    BY <1>2, <1>5
<1> QED
    BY <1>1, <1>6, <1>7

\* A bounded nonempty set of natural numbers has a greatest element.
LEMMA Greatest ==
    ASSUME NEW S \in SUBSET Nat, S # {}, NEW b \in Nat, \A s \in S : s <= b
    PROVE  \E n \in S : \A m \in S : m <= n
<1> DEFINE T == {b - s : s \in S}
<1>1. T \in SUBSET Nat /\ T # {}
    <2>1. \A s \in S : b - s \in Nat
        OBVIOUS
    <2>2. PICK s \in S : TRUE
        BY Zenon
    <2>3. b - s \in T
        BY <2>2
    <2> QED
        BY <2>1, <2>3
<1>2. PICK t \in T : \A u \in T : t <= u
    BY <1>1, Least, Zenon
<1>3. PICK n \in S : t = b - n
    OBVIOUS
<1>4. ASSUME NEW m \in S
      PROVE  m <= n
    <2>1. b - m \in T
        OBVIOUS
    <2>2. b - n <= b - m
        BY <2>1, <1>2, <1>3
    <2> QED
        BY <2>2
<1> QED
    BY <1>4
=============================================================================
