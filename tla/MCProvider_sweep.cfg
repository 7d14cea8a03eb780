SPECIFICATION Spec
CONSTANTS
    u1 = u1
    u2 = u2
    u3 = u3
    k1 = k1
    t1 = t1
    NoUID = NoUID
    Key = {k1}
    Tenant = {t1}
    PodKey <- SameName
    TenantOf <- OneTenant
    UID = {u1, u2, u3}
    Elsewhere = {u3}
    MayUnserve = {}
    MayVanish = {}
    Reported = {}
    SlowWalk = FALSE
    Loops = {"sweep"}
    Ages = {"young", "old"}
    MaxCapsules = 3
    MaxFaults = 1
    MaxEvents = 4
INVARIANT SweepSparesTheLiving
PROPERTY LiveCapsuleKept
CHECK_DEADLOCK FALSE
