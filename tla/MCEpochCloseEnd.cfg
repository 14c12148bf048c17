SPECIFICATION LiveSpec
CONSTANTS
    a = a
    b = b
    t = t
    u = u
    Authorities = {a, b}
    Faulty = {}
    StakeOf <- HeavyStake
    Txs = {t, u}
    Owned = {}
    Randomised = {t}
    Offered <- OfferedToB
    CommitSize = 2
    MaxBeacon = 0
    MaxRestarts = 0
INVARIANTS TypeOK SameOutcome AcceptedAreScheduled EndOfPublishReintroduced
PROPERTY EpochEnds
CHECK_DEADLOCK FALSE
