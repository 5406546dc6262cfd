SPECIFICATION Spec
CONSTANTS
    Versions = {"16.1.2", "16.1.3"}
    InitialVersion = "16.1.3"
    InstallTime = 2
    RebootTime = 1
    SlowRebootFactor = 2
    DoTaskTime = 1
    As3TaskTime = 1
    Declarations = {}
    BadHostname = {}
    NoDeclaration = NoDeclaration
    Tenants = {}
    RoleClients = TRUE
    Injected = {"post_boot_unhealthy"}
    MaxOps = 2
    MaxBackups = 1
PROPERTIES ImplementsEager ActiveImageUntouched
