SPECIFICATION Spec
CONSTANTS
    here = here
    there = there
    dns = dns
    other = other
    e0 = e0
    e1 = e1
    None = None
    Addr = {here, there}
    Service = {dns, other}
    Iface = {e0, e1}
    Packet <- MCPacket6
    MaxChanges = 1
INVARIANTS EveryFamilyFollows
