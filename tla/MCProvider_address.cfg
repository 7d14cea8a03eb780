SPECIFICATION Spec
CONSTANTS
    u1 = u1
    u2 = u2
    u3 = u3
    k1 = k1
    t1 = t1
    NoUID = NoUID
    Key = {k1}
    Tenant = {t1}
    PodKey <- SameName
    TenantOf <- OneTenant
    UID = {u1, u2}
    Elsewhere = {}
    MayUnserve = {}
    MayVanish = {}
    Reported = {"Running"}
    SlowWalk = FALSE
    Loops = {"sync"}
    Ages = {"young", "settled"}
    MaxCapsules = 2
    MaxFaults = 0
    MaxEvents = 2
INVARIANT PublishedAddressIsOwn
CHECK_DEADLOCK FALSE
