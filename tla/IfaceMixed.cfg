SPECIFICATION Spec
CONSTANTS
    eth0 = eth0
    cli = cli
    dcli = dcli
    w1 = w1
    w2 = w2
    None = None
    Iface = {eth0}
    Client = {cli, w1}
    WebClient = {w1}
    DaemonClient = {cli}
    Rate <- MCTwoRates
    Split <- MCDefaultSplit
    MaxFaults = 2
INVARIANTS TypeOK IfaceInSync QdiscDivides
PROPERTIES LivesByQdisc
