SPECIFICATION FairSpec
CONSTANTS
    s1 = s1
    p1 = p1
    a1 = a1
    a2 = a2
    n1 = n1
    n2 = n2
    NoName = NoName
    NoAddr = NoAddr
    NoSubnet = NoSubnet
    Service = {s1}
    Pod = {p1}
    Addr = {a1, a2}
    Subnet = {n1, n2}
    SubnetOf <- TwoSubnets
    Kinds = {"cluster"}
    NPorts = 1
    MayUnlabel = {}
    MayVanish = FALSE
    MayError = FALSE
    Flaky = FALSE
    MaxLBs = 1
    MaxFIPs = 0
    MaxEvents = 4
PROPERTY MembersOnTheirSubnet
CHECK_DEADLOCK FALSE
