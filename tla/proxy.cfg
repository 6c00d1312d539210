SPECIFICATION FairSpec
CONSTANTS
    Clients = {c1, c2, c3}
    MaxConnections = 1
    Addresses = {1, 2, 3}
    Global = {1, 2}
    MayBreakClose = TRUE
INVARIANTS SlotsAccounted OnlyGlobalDialled NothingLeftOpen
PROPERTIES PoolSpec EveryCallEnds
CHECK_DEADLOCK FALSE
