CONSTANTS
    Backends = {"memory", "postgresql"}
    Lists <- MCLists
    Rewrites <- MCRewrites
    AllQueries <- MCAllQueries
    PaginateBy = 1
    MaxFetchSize = 2
    MaxWrites = 1
SPECIFICATION QueriesSpec
CHECK_DEADLOCK FALSE
INVARIANTS PagesAreComplete SelectionIsExact BackendsAgree
