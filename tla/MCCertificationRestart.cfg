SPECIFICATION Spec
CONSTANTS
    a1 = a1
    a2 = a2
    a3 = a3
    a4 = a4
    Authorities = {a1, a2, a3, a4}
    Faulty = {a4}
    StakeOf <- EqualStake
    Proposers = {a1}
    MaxRound = 2
    Ids = {1, 2}
    NoHeader = NoHeader
    ChannelCapacity = 1
    MaxTasks = 2
SYMMETRY VoterSymmetry
INVARIANTS NoEquivocation
