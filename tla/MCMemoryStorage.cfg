SPECIFICATION Spec
CONSTANTS
    a = a
    ab = ab
    star = star
    Patterns <- MCPatterns
    FullMatch <- MCFullMatch
    PrefixMatch <- MCPrefixMatch
    Resources = {record}
    Absent = Absent
    Parents = {a}
    Ids = {x, y}
    Specified = {1, 3}
    MaxTime = 3
    MaxTimestamp = 5
    MaxFlushes = 2
SYMMETRY IdSymmetry
INVARIANTS LiveAndBuriedDisjoint TimestampCovers StampsAreUnique
PROPERTIES ChangeAdvancesList
