SPECIFICATION Spec
CONSTANTS
    a = a
    b = b
    o = o
    a1 = a1
    b1 = b1
    a2 = a2
    b2 = b2
    o2 = o2
    a3 = a3
    Authorities = {a, b, o}
    Faulty = {b}
    StakeOf <- HeavyStake
    Certs = {a1, b1, a2, b2, a3}
    RoundOf <- Rounds3
    OriginOf <- Origins3
    ParentsOf <- Parents3
    Own = {}
    GcDepth = 1
    NEW_CERTIFICATE_ROUND_LIMIT = 2
    BatchSize = 1
    ConsensusCapacity = 1
    MaxRestarts = 0
INVARIANT AcceptorNeverPanics
CHECK_DEADLOCK FALSE
