\* Bob, who may restart twice, two calls of /start, a lost answer.
CONSTANTS
    Peer = {bob}
    Call = {c1, c2}
    MaxRestarts = 2
    MaxFaults = 1
SPECIFICATION NodesFairSpec
INVARIANTS NodesTypeOK OneSessionPerAlice NewestLasts
PROPERTIES HandedIsHeard
CHECK_DEADLOCK FALSE
