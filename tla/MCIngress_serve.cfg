SPECIFICATION FairSpec
CONSTANTS
    b1 = b1
    b2 = b2
    s1 = s1
    root = root
    api = api
    Secret = {s1}
    Backend = {b1, b2}
    Host = {"h", "other"}
    Path = {root, api}
    PathLen <- Lengths
    Under <- Below
    Version = {"secure", "paths", "foreign"}
    Manifest <- Manifests
    Broken = {}
    Installed = {"amphora"}
    NoBackend = NoBackend
    AnyHost = AnyHost
    NoPath = NoPath
    NoSecret = NoSecret
    Resyncs = TRUE
    Flaky = TRUE
    MaxLBs = 3
    MaxRefs = 3
    MaxFIPs = 3
    MaxCerts = 2
    MaxEvents = 2
CHECK_DEADLOCK FALSE
INVARIANT TypeOK
PROPERTY CertificateKept
PROPERTY PoolsInUseKept
 
 
