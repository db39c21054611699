SPECIFICATION Spec
CONSTANTS
    h1 = h1
    h2 = h2
    net = net
    c1 = c1
    c2 = c2
    s1 = s1
    d1 = d1
    d2 = d2
    None = None
    Client = {c1}
    DaemonClient = {}
    Addr = {h1, h2, net}
    Service = {s1}
    Domain = {d1}
    Wanted = {h1, net, s1, d1}
    Overlap <- MCOverlap
    Answers <- MCAnswers
    MaxId = 2
    MaxFaults = 1
    MaxReboots = 1
INVARIANTS TypeOK InSync DomainIPsExact
PROPERTIES RestoreCovers
