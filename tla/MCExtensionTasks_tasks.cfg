SPECIFICATION FairSpec

CONSTANTS
    Clients = {c1}
    Injected = {"fail_next_as3"}
    MaxTasks = 2
    Versions = {"16.1.2", "16.1.3"}
    InitialVersion = "16.1.3"
    InstallTime = 1
    RebootTime = 1
    SlowRebootFactor = 2
    DoTaskTime = 2
    As3TaskTime = 1
    Declarations = {"d1", "bad"}
    BadHostname = {"bad"}
    NoDeclaration = "none"
    Tenants = {"t1", "t2"}

INVARIANTS TypeOK DoStateIsLastApplied As3StateIsLastApplied
PROPERTY TasksEnd
