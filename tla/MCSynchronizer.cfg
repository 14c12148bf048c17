SPECIFICATION LiveSpec
CONSTANTS
    a = a
    b = b
    o = o
    a1 = a1
    b1 = b1
    a2 = a2
    b2 = b2
    o2 = o2
    a3 = a3
    Authorities = {a, b, o}
    Faulty = {b}
    StakeOf <- HeavyStake
    Certs = {a1, b1, a2, b2, o2, a3}
    RoundOf <- Rounds3
    OriginOf <- Origins3
    ParentsOf <- Parents3
    Own = {o2}
    GcDepth = 1
    NEW_CERTIFICATE_ROUND_LIMIT = 2
    BatchSize = 1
    ConsensusCapacity = 1
    MaxRestarts = 1
INVARIANTS TypeOK AcceptorNeverPanics CollectedAreReleased NoneForgotten
           CausalHistory ConsensusFindsParents 
PROPERTY SuspendedAreAccepted
CHECK_DEADLOCK FALSE
