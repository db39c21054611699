SPECIFICATION Spec
CONSTANTS
    w1 = w1
    w2 = w2
    cli = cli
    web = web
    own = own
    high4 = high4
    services = services
    k1 = k1
    k2 = k2
    None = None
    Caller = {w1, w2, cli}
    Conn = {web, own}
    ConnOf <- MCConnOf
    IPSet = {high4}
    KeySet = {services}
    FlushOrder <- MCFlushOrder
    Prefix <- MCPrefix
    Key = {k1, k2}
    LongName = {k2}
    NBytes = 2
    ByteBits = 3
    Top <- MCTop
    MaxFaults = 1
    Asks <- MCAsks
SYMMETRY Goroutines
INVARIANTS TypeOK NothingLeftQueued NestedOnlyAtLast ReadBack
PROPERTIES AnswersTrue
