SPECIFICATION FairSpec
CONSTANTS
    Versions = {"16.1.2", "16.1.3"}
    InitialVersion = "16.1.3"
    InstallTime = 2
    RebootTime = 2
    SlowRebootFactor = 2
    DoTaskTime = 1
    As3TaskTime = 1
    Declarations = {}
    BadHostname = {}
    NoDeclaration = none
    Tenants = {}
    Threads = {t1, t2}
    Workloads <- MCWorkloads
    MaxOps = 2
    MaxLate = 1
INVARIANTS TypeOK OneBootPerReboot ActiveVolumeAtRest InstalledAtRest
PROPERTY RebootEnds
