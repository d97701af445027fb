\* Three roles, one of them may die, Alice may lose the reply; no Redis command fails.
CONSTANTS
    Role <- ThreeRoles
    ReadCount = 2
    MaxEntries = 5
    MaxFaults = 0
    MaxCrashes = 1
    MayLoseReply = TRUE
SPECIFICATION BusSpec
INVARIANT BusTypeOK
PROPERTY InOrderOnce
CHECK_DEADLOCK FALSE
