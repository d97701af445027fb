\* A node dies after an ack, before the handler has run.
CONSTANTS
    Role <- TwoRoles
    ReadCount = 2
    MaxEntries = 4
    MaxFaults = 0
    MaxCrashes = 1
    MayLoseReply = FALSE
SPECIFICATION BusSpec
INVARIANT CrashLeavesClaimable
CHECK_DEADLOCK FALSE
