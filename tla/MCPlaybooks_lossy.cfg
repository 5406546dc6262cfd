SPECIFICATION FairSpec

CONSTANTS
    Plays <- TwoPlays
    Serial = TRUE
    Kinds = {"upgrade", "rollback", "failover"}
    Targets = {"17.1.0"}
    InstallRetries = 1
    BootRetries = 1
    PollDelay = 1
    Lossy = TRUE
    Injected = {"fail_next_install", "slow_reboot", "post_boot_unhealthy", "drift_postcheck"}
    Versions = {"16.1.2", "16.1.3", "17.1.0"}
    InitialVersion = "16.1.3"
    InstallTime = 2
    RebootTime = 1
    SlowRebootFactor = 2
    DoTaskTime = 1
    As3TaskTime = 1
    Declarations = {}
    BadHostname = {}
    NoDeclaration = NoDeclaration
    Tenants = {}

CHECK_DEADLOCK FALSE

INVARIANTS TypeOK WayBackKept
PROPERTIES SuccessMeansHealthy RollbackReturnsToPrior FailoverEndsStandby PlaysEnd
