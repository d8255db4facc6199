SPECIFICATION FairSpec
CONSTANTS
    Absent = Absent
    Ids = {x, y}
    MaxTimestamp = 4
    Strategies = {"oldest_first", "etag", "newest_first", "conditional_pages"}
    Whole = TRUE
    PageSize = 1
    MaxLost = 1
INVARIANTS ReplicaIsComplete
PROPERTIES NotModifiedIsTrue UnchangedAreListed Converges
