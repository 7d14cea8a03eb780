SPECIFICATION Spec
CONSTANTS
    c1 = c1
    c2 = c2
    NoUID = NoUID
    UID = {c1, c2}
    Requests = {2, 3}
    Block = TRUE
    WaitFor = FALSE
    Retain = {c2}
    Flaky = TRUE
    Timeout = TRUE
    Resync = FALSE
    MaxStore = 2
    MaxFaults = 0
INVARIANT TypeOK
INVARIANT CapacityIsReal
INVARIANT LeaksCounted
PROPERTY ExtensionIsCharged
CHECK_DEADLOCK FALSE
