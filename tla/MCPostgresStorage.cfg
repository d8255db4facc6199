CONSTANTS
    w1 = w1
    w2 = w2
    None = None
    a = a
    any = any
    record = record
    Workers = {w1, w2}
    Parents = {a}
    Resources = {record}
    Ids = {x, y}
    Patterns = {any}
    Like <- MCLike
    Specified = {}
    Absent = Absent
    Unwritten = Unwritten
    MaxCalls <- MCMaxCalls
    MaxTime = 2
    MaxTimestamp = 3
SPECIFICATION Spec
SYMMETRY IdSymmetry
INVARIANTS CreationsNeedDeletions StampsAreUnique
PROPERTIES QuietReadersMissNothing EmptyListsAreStable
