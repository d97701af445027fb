\* Three qubits, any of them lost, dark, turned or intercepted.
CONSTANTS
    NQubits = 3
    SampleNum = 2
    SampleDen = 3
    MinSifted = 2
    Limit = 50
    Suspicion = 30
    Floor <- Floors
    Drift <- Turns
SPECIFICATION SiftSpec
INVARIANTS SiftTypeOK ErrorsExplained KeysDifferUnseen KeyNotEmpty AnalysisAgrees
CHECK_DEADLOCK FALSE
