SPECIFICATION Spec
CONSTANTS
    gw1 = gw1
    gw2 = gw2
    eth1 = eth1
    eth2 = eth2
    Bytes = 2
    BitsPerByte = 2
    NoRoute = NoRoute
    Missing = Missing
    Bad = Bad
    Gateways = {gw1, gw2}
    Ifaces = {eth1, eth2}
    Dests <- MCDests
    Files <- MCFiles
INVARIANTS
    FindsAnyMatch
CHECK_DEADLOCK FALSE
