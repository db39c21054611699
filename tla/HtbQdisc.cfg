SPECIFICATION Spec
CONSTANTS
    c1 = c1
    c2 = c2
    c3 = c3
    None = None
    Proc = {c1, c2, c3}
    Demand <- MCDemand
    BytesPerMb <- MCUnits
    Word <- MCWord
    Thousand <- MCThousand
    MaxFaults = 1
SYMMETRY Racers
INVARIANTS TypeOK RatesFit HalfMadeByFailure
PROPERTIES LivesAsOne
