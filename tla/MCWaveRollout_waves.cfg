SPECIFICATION FairSpec

CONSTANTS
    Waves = {"canary", "wave_1", "wave_2"}
    Canary = "canary"
    DevicesOf <- Inventory
    Thresholds = {50}
    Parallelism = 1
    WaitsForPrior = TRUE
    SetupBreaks = TRUE
    EmitBreaks = TRUE
    MaxRuns = 2

CHECK_DEADLOCK FALSE

INVARIANTS TypeOK GateIsExact OneJobPerDevice MetricsAreOfNewestRun
PROPERTY EveryDeviceAttempted
