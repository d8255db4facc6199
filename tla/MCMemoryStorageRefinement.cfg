SPECIFICATION CallSpec
CONSTANTS
    a = a
    star = star
    Patterns <- MCPatterns
    FullMatch <- MCMatch
    PrefixMatch <- MCMatch
    Resources = {record, group}
    Absent = Absent
    Parents = {a}
    Ids = {x, y}
    Specified = {}
    MaxTime = 2
    MaxTimestamp = 3
    MaxFlushes = 0
PROPERTIES ImplementsList
