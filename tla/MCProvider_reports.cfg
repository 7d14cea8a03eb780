SPECIFICATION FairSpec
CONSTANTS
    u1 = u1
    u2 = u2
    u3 = u3
    k1 = k1
    t1 = t1
    NoUID = NoUID
    Key = {k1}
    Tenant = {t1}
    PodKey <- SameName
    TenantOf <- OneTenant
    UID = {u1}
    Elsewhere = {}
    MayUnserve = {t1}
    MayVanish = {u1}
    Reported = {"Running", "Error"}
    SlowWalk = FALSE
    Loops = {"sync"}
    Ages = {"young","old","stuck","settled"}
    MaxCapsules = 1
    MaxFaults = 0
    MaxEvents = 2
PROPERTY RunningReported
PROPERTY LossReported
CHECK_DEADLOCK FALSE
