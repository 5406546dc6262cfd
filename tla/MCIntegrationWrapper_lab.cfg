SPECIFICATION FairSpec

CONSTANTS
    NumVEs = 2
    Attempts = 2
    MaxInterrupts = 2

INVARIANTS TypeOK NothingStranded PassedMeansClean SecretsRemoved
PROPERTIES KeptWhenAsked WrapperEnds
CHECK_DEADLOCK FALSE
