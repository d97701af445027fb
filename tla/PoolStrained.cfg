\* Inits and stops may be late, locks may run out.
CONSTANTS
    Session = {s1, s2}
    Intercepted = {}
    NoSession = NoSession
    NoCall = NoCall
    NQkdl = 1
    InitRetries = 2
    MaxEvents = 2
    MaxStops = 1
    MaxRestarts = 0
    MayEndBeforeStart = FALSE
    MayInitTimeOut = TRUE
    MayStopTwice = TRUE
    MayStopTimeOut = TRUE
    MayRunOut = TRUE
SPECIFICATION PoolSpec
SYMMETRY SessionSymmetry
INVARIANTS QkdlHoldsOneSession OpenHasNetwork
CHECK_DEADLOCK FALSE
