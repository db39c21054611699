SPECIFICATION Spec
CONSTANTS
    eth0 = eth0
    cli = cli
    dcli = dcli
    w1 = w1
    w2 = w2
    None = None
    Iface = {eth0}
    Client = {w1, w2}
    WebClient = {w1, w2}
    DaemonClient = {}
    Rate <- MCOneRate
    Split <- MCSplit
    MaxFaults = 0
SYMMETRY Goroutines
INVARIANTS IfaceInSync
