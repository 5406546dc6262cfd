SPECIFICATION Spec

CONSTANTS
    Plays <- TwoPlays
    Serial = TRUE
    Kinds = {"upgrade", "rollback"}
    Targets = {"17.1.0"}
    InstallRetries = 2
    BootRetries = 2
    PollDelay = 1
    Lossy = FALSE
    Injected = {"fail_next_install"}
    Versions = {"16.1.2", "16.1.3", "17.1.0"}
    InitialVersion = "16.1.3"
    InstallTime = 2
    RebootTime = 1
    SlowRebootFactor = 2
    DoTaskTime = 1
    As3TaskTime = 1
    Declarations = {}
    BadHostname = {}
    NoDeclaration = NoDeclaration
    Tenants = {}

CHECK_DEADLOCK FALSE

PROPERTY RollbackAfterAbortKeepsVolume
