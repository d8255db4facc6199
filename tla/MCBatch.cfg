SPECIFICATION Spec
CONSTANTS
    Collections = {c, d}
    Records = {r}
    Conflicts = TRUE
    Touching = TRUE
    MaxRequests = 4
SYMMETRY CollectionSymmetry
INVARIANTS AnnouncedIsCommitted NoOrphansUnlessConflict
PROPERTIES AnswersAreKept
