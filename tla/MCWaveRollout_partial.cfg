SPECIFICATION Spec

CONSTANTS
    Waves = {"canary", "wave_1", "wave_2"}
    Canary = "canary"
    DevicesOf <- Inventory
    Thresholds = {100}
    Parallelism = 1
    WaitsForPrior = FALSE
    SetupBreaks = FALSE
    EmitBreaks = FALSE
    MaxRuns = 2

CHECK_DEADLOCK FALSE

INVARIANT PromotionEarned
