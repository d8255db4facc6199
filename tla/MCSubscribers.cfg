CONSTANTS
    Buckets <- MCBuckets
    Default = "b"
    Records = {"r", "s"}
    EndsAlike = {"s"}
    Members = {m1, m2}
    Authors = {"alice", "bot"}
    AllSettings <- MCSettings
    Populated <- MCPopulated
    Joining <- MCJoining
    MaxRequests = 3
SPECIFICATION SubscribersSpec
CHECK_DEADLOCK FALSE
INVARIANTS MembersHavePrincipal OwnersKeepAccess ParentsExist HistoryTellsStates
PROPERTIES HistoryIsTrimmed
