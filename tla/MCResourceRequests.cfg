SPECIFICATION Spec
CONSTANTS
    Absent = Absent
    Star = Star
    Requests = {r1, r2, r3}
    Ids = {x}
    Kinds = {"POST", "PUT", "PATCH", "DELETE", "DELETE list"}
    MaxLimit = 1
    MaxTimestamp = 4
SYMMETRY RequestSymmetry
INVARIANTS CreationsNeedDeletions OwnedOrPending
PROPERTIES LeftoversAreGranted
