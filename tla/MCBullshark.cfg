SPECIFICATION Spec
CONSTANTS
    p1 = p1
    p2 = p2
    Authorities = {1, 2, 3}
    Faulty = {1}
    StakeOf <- Stake
    BaseLeader <- Leaders
    Draw <- Draws
    BadNodesStakeThreshold = 33
    Primaries = {p1, p2}
    Networks <- MCNetworks
    GcDepth = 3
    NumSubDagsPerSchedule = 2
    ChannelCapacity = 1
    MaxRestarts = 1
PROPERTY CommitsInOrder
SYMMETRY Symmetry
INVARIANTS TypeOK Agreement CommittedOnce HistoryPresent CausalOrder Recoverable LeadersInGoodStanding
CHECK_DEADLOCK FALSE
