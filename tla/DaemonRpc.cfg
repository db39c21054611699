SPECIFICATION Spec
CONSTANTS
    c1 = c1
    c2 = c2
    d1 = d1
    d2 = d2
    None = None
    Client = {c1, c2}
    Daemon = {d1, d2}
    MaxFaults = 2
INVARIANTS TypeOK SocketFileTrue
PROPERTIES IsRemoteCall AnsweredUnlessHeld
