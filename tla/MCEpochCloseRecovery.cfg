SPECIFICATION Spec
CONSTANTS
    a = a
    b = b
    t = t
    u = u
    Authorities = {a, b}
    Faulty = {}
    StakeOf <- HeavyStake
    Txs = {t}
    Owned = {t}
    Randomised = {}
    Offered <- OfferedToAll
    CommitSize = 2
    MaxBeacon = 0
    MaxRestarts = 1
INVARIANTS EndOfPublishReintroduced
CHECK_DEADLOCK FALSE
