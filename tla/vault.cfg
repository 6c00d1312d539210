SPECIFICATION FairSpec
CONSTANTS
    p1 = p1  p2 = p2  i1 = i1  i2 = i2  k1 = k1  k2 = k2
    Processes = {p1, p2}
    Threads = {i1, i2}
    ProcessOf <- MCProcessOf
    Accounts = {c1}
    Keys = {k1, k2}
    FirstKey = k1
    Careful = TRUE
    MaxFaults = 2
    MaxRestarts = 6
INVARIANTS ReadableEverywhere AnswersHold
PROPERTY DisconnectedInTheEnd
CHECK_DEADLOCK FALSE
