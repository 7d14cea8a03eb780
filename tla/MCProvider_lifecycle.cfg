SPECIFICATION FairSpec
CONSTANTS
    u1 = u1
    u2 = u2
    u3 = u3
    k1 = k1
    t1 = t1
    NoUID = NoUID
    Key = {k1}
    Tenant = {t1}
    PodKey <- SameName
    TenantOf <- OneTenant
    UID = {u1,u2}
    Elsewhere = {}
    MayUnserve = {}
    MayVanish = {}
    Reported = {}
    SlowWalk = FALSE
    Loops = {"sweep"}
    Ages = {"young", "old"}
    MaxCapsules = 2
    MaxFaults = 1
    MaxEvents = 2
 
PROPERTY OrphansCollected
PROPERTY DeletionCompletes
PROPERTY CustodyKept
CHECK_DEADLOCK FALSE
