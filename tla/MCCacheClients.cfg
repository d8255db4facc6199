SPECIFICATION Spec
CONSTANTS
    Procs = {p1, p2}
    Passwords = {old, new}
    Ticket = ticket
    Alive = alive
    None = None
    Keys <- MCKeys
    Values <- MCValues
    MaxSize = 9
    ValueSize = 8
    NoneSize = 1
    Ttl = 1
    MaxTime = 2
    MaxRequests = 3
SYMMETRY MCSymmetry
CHECK_DEADLOCK FALSE
INVARIANTS CachedPasswordIsCurrent TicketsAreUsedOnce FalseAlarmsAreDisturbed StoreIsBounded
