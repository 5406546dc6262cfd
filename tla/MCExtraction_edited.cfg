SPECIFICATION Spec

CONSTANTS
    Objects <- LabObjects
    Stock <- LabStock
    Listed = {"dns", "source_addr"}
    MinOf <- LabMinOf
    BadDestination <- LabBadDestination
    MaxExtracts = 2
    MaxEdits = 2
    MaxLacked = 1

CHECK_DEADLOCK FALSE

INVARIANTS TypeOK NothingLost ReferencesResolve FailureKeepsFiles SuccessWritesAll
