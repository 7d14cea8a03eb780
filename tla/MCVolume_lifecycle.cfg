SPECIFICATION FairSpec
CONSTANTS
    c1 = c1
    c2 = c2
    NoUID = NoUID
    UID = {c1}
    Requests = {2, 4}
    Block = TRUE
    WaitFor = TRUE
    Retain = {}
    Flaky = FALSE
    Timeout = FALSE
    Resync = TRUE
    MaxStore = 3
    MaxFaults = 1
 
 
PROPERTY ClaimBinds
PROPERTY GrowthCompletes
PROPERTY ReleasedIsRemoved
CHECK_DEADLOCK FALSE
