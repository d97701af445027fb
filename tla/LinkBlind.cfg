\* Two batches of two qubits in parallel, and a detector.
CONSTANTS
    NQubits = 4
    BatchSize = 2
    BatchTries = 1
    Concurrency = 2
    Period = 20
    DeadTime = 1
    Fiber = TRUE
    RegisterTries = 1
    Nobody = Nobody
    MaxFaults = 0
SPECIFICATION LinkSpec
INVARIANT BlindAfterClick
CHECK_DEADLOCK FALSE
