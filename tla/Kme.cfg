\* Two sessions, one intercepted, take turns on one QKDL; repeated verdicts, a restart.
CONSTANTS
    Session = {s1, s2}
    Intercepted = {s1}
    NoSession = NoSession
    NQkdl = 1
    InitRetries = 2
    MaxEvents = 4
    MaxStops = 1
    MaxRestarts = 1
SPECIFICATION FairSpec
INVARIANTS TypeOK LiveSessionHoldsLock  ActiveSetExact HandOutsPaid
PROPERTIES LeaseKept OverFreesQkdl NoLockForEver
CHECK_DEADLOCK FALSE
