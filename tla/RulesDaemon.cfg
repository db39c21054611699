SPECIFICATION FairSpec
CONSTANTS
    h1 = h1
    h2 = h2
    net = net
    c1 = c1
    c2 = c2
    s1 = s1
    d1 = d1
    d2 = d2
    None = None
    Client = {c1, c2}
    DaemonClient = {c1, c2}
    Addr = {h1, net}
    Service = {}
    Domain = {d1}
    Wanted = {net, d1}
    Overlap <- MCOverlap
    Answers <- MCAnswers
    MaxId = 1
    MaxFaults = 1
    MaxReboots = 0
INVARIANTS InSync DaemonAttends
PROPERTIES OperationsAdvance OpTerminates
