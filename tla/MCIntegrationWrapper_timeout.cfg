SPECIFICATION Spec

CONSTANTS
    NumVEs = 2
    Attempts = 2
    MaxInterrupts = 2

INVARIANT HardTimeout
CHECK_DEADLOCK FALSE
