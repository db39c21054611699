SPECIFICATION Spec
CONSTANTS
    h1 = h1
    h2 = h2
    net = net
    c1 = c1
    c2 = c2
    s1 = s1
    d1 = d1
    d2 = d2
    None = None
    Client = {c1, c2}
    DaemonClient = {c2}
    Addr = {h1, h2}
    Service = {}
    Domain = {d1}
    Wanted = {d1}
    Overlap <- MCOverlap
    Answers <- MCMoves
    MaxId = 2
    MaxFaults = 0
    MaxReboots = 0
INVARIANTS InSync DomainIPsExact
PROPERTIES RulesAreABook
