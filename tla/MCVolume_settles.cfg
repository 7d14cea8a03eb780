SPECIFICATION FairSpec
CONSTANTS
    c1 = c1
    c2 = c2
    NoUID = NoUID
    UID = {c1}
    Requests = {2, 4}
    Block = TRUE
    WaitFor = FALSE
    Retain = {}
    Flaky = TRUE
    Timeout = FALSE
    Resync = TRUE
    MaxStore = 1
    MaxFaults = 0
PROPERTY AllocationSettles
CHECK_DEADLOCK FALSE
