SPECIFICATION LiveSpec
CONSTANTS
    LeaderRound <- EvenRounds
    MaxCommits = 6
    MaxLeaders = 3
    CHANNEL_CAPACITY = 2
    MAX_PENDING_PAYLOADS = 2
    MaxRestarts = 2
INVARIANTS TypeOK AppliedInOrder HandlerNeverPanics NoneLost
PROPERTIES EveryCommitApplied DeliversInOrder
CHECK_DEADLOCK FALSE
