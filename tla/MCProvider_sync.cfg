SPECIFICATION Spec
CONSTANTS
    u1 = u1
    u2 = u2
    u3 = u3
    k1 = k1
    t1 = t1
    NoUID = NoUID
    Key = {k1}
    Tenant = {t1}
    PodKey <- SameName
    TenantOf <- OneTenant
    UID = {u1,u2}
    Elsewhere = {}
    MayUnserve = {}
    MayVanish = {u1}
    Reported = {"Stopped","Error"}
    SlowWalk = FALSE
    Loops = {"sync"}
    Ages = {"young","settled","expired"}
    MaxCapsules = 2
    MaxFaults = 1
    MaxEvents = 2
INVARIANT TypeOK
 
PROPERTY CustodyKept
CHECK_DEADLOCK FALSE
