SPECIFICATION Spec
CONSTANTS
    Fields <- TwoFields
    Clients = {"alice", "bob"}
    Bodies <- AllBodies
    Initial <- OneRecord
    Schemas <- TwoSchemas
    BucketSchemas <- BSchemas
    MaxTimestamp = 3
CHECK_DEADLOCK FALSE
INVARIANTS MirrorsAgree
PROPERTIES UpToDateRecordsAreValid PermissionsOfOthersAreKept
