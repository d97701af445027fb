\* Two roles; one Redis command of a consumer fails at any point.
CONSTANTS
    Role <- TwoRoles
    ReadCount = 2
    MaxEntries = 4
    MaxFaults = 1
    MaxCrashes = 0
    MayLoseReply = FALSE
SPECIFICATION BusFairSpec
INVARIANTS NothingSlips RepeatsPaid
PROPERTIES PipelineStarts VerdictEndsThreads
CHECK_DEADLOCK FALSE
