\* Three qubits in two batches, in parallel; one request fails at any point.
CONSTANTS
    NQubits = 3
    BatchSize = 2
    BatchTries = 1
    Concurrency = 2
    Period = 20
    DeadTime = 1
    Fiber = TRUE
    RegisterTries = 2
    Nobody = Nobody
    MaxFaults = 1
SPECIFICATION LinkFairSpec
INVARIANTS LinkTypeOK RightQubit OneMoreUnseen EveMisses
PROPERTY BatchesComeBack
CHECK_DEADLOCK FALSE
