\* Two qubits in two batches that run in parallel; one request fails at any point.
CONSTANTS
    NQubits = 2
    BatchSize = 1
    BatchTries = 2
    NotifyTries = 2
    MinSifted = 1
    Seed <- Seeds
    None = None
    MaxFaults = 1
SPECIFICATION PipeFairSpec
INVARIANTS PipeTypeOK KeysAgree BasesAfterQubits
PROPERTIES KeyStands JoinedIsJudged WorkerReaped BobLearnsKey
CHECK_DEADLOCK FALSE
