SPECIFICATION Spec
CONSTANTS
    p1 = p1
    p2 = p2
    p3 = p3
    Proc = {p1, p2, p3}
    NSets = 1
    NChains = 2
    NRules = 3
    MaxFaults = 1
SYMMETRY Racers
INVARIANTS TypeOK RulesInOrder RulesHaveSets CopiesBounded SettledComplete
