\* Two sessions follow each other on one QKDL; every call is answered in time; the KME may restart.
CONSTANTS
    Session = {s1, s2}
    Intercepted = {}
    NoSession = NoSession
    NoCall = NoCall
    NQkdl = 1
    InitRetries = 2
    MaxEvents = 3
    MaxStops = 1
    MaxRestarts = 1
    MayEndBeforeStart = FALSE
    MayInitTimeOut = FALSE
    MayStopTwice = FALSE
    MayStopTimeOut = FALSE
    MayRunOut = FALSE
SPECIFICATION PoolFairSpec
INVARIANTS PoolTypeOK ServedNetworkUp
PROPERTY NetworkReturned
CHECK_DEADLOCK FALSE
