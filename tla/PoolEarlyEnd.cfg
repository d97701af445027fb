\* A user cancels while the QKDL is still starting the network.
CONSTANTS
    Session = {s1, s2}
    Intercepted = {}
    NoSession = NoSession
    NoCall = NoCall
    NQkdl = 1
    InitRetries = 1
    MaxEvents = 3
    MaxStops = 1
    MaxRestarts = 0
    MayEndBeforeStart = TRUE
    MayInitTimeOut = FALSE
    MayStopTwice = TRUE
    MayStopTimeOut = FALSE
    MayRunOut = FALSE
SPECIFICATION PoolSpec
SYMMETRY SessionSymmetry
INVARIANT QkdlHoldsOneSession
CHECK_DEADLOCK FALSE
