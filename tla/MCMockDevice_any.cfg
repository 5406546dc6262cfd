SPECIFICATION FairSpec
CONSTANTS
    Versions = {"16.1.2", "16.1.3"}
    InitialVersion = "16.1.3"
    InstallTime = 2
    RebootTime = 1
    SlowRebootFactor = 2
    DoTaskTime = 1
    As3TaskTime = 1
    Declarations = {}
    BadHostname = {}
    NoDeclaration = NoDeclaration
    Tenants = {}
    RoleClients = FALSE
    Injected = {"slow_reboot", "fail_next_install"}
    MaxOps = 2
    MaxBackups = 0
INVARIANTS TypeOK OneActiveVolume InstallsSettleInOrder CompleteMeansInstalled
PROPERTY InstallsSettle
