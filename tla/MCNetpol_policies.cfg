SPECIFICATION FairSpec
CONSTANTS
    p1 = p1
    p2 = p2
    n1 = n1
    n2 = n2
    Pod = {p1, p2}
    Pol = {n1}
    Specs <- TwoSpecs
    FirstLabel <- Labels
    Misread = {p2}
    MaxGroups = 2
    MaxEvents = 3
INVARIANT TypeOK
INVARIANT PortsGuarded
 
 
 
