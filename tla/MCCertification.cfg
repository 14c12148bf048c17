SPECIFICATION LiveSpec
CONSTANTS
    a1 = a1
    a2 = a2
    a3 = a3
    a4 = a4
    Authorities = {a1, a2, a3}
    Faulty = {a3}
    StakeOf <- HeavyStake
    Proposers = {a1}
    MaxRound = 2
    Ids = {1, 2}
    NoHeader = NoHeader
    ChannelCapacity = 1
    MaxTasks = 2
INVARIANTS TypeOK NoEquivocation HonestVotesSuffice
PROPERTY VotesMoveForward ProposalsComplete
