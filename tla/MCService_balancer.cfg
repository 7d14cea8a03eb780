SPECIFICATION FairSpec
CONSTANTS
    s1 = s1
    p1 = p1
    a1 = a1
    a2 = a2
    n1 = n1
    n2 = n2
    NoName = NoName
    NoAddr = NoAddr
    NoSubnet = NoSubnet
    Service = {s1}
    Pod = {p1}
    Addr = {a1, a2}
    Subnet = {n1, n2}
    SubnetOf <- OneSubnet
    Kinds = {"headless","cluster","public"}
    NPorts = 1
    MayUnlabel = {s1}
    MayVanish = TRUE
    MayError = TRUE
    Flaky = TRUE
    MaxLBs = 4
    MaxFIPs = 4
    MaxEvents = 2
INVARIANT TypeOK
INVARIANT OneLoadBalancer
 
 
 
CHECK_DEADLOCK FALSE
