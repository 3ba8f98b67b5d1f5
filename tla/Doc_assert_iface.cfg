SPECIFICATION Spec
CONSTANTS
    c1 = c1
    c2 = c2
    eth1 = eth1
    eth9 = eth9
    Client = {c1, c2}
    Template = {}
    Iface = {eth1, eth9}
    ROUTER_IP = {eth1}
    RtTables <- MCRtTables
    Extra = {}
    MaxPackets = 2
    Unset = Unset
INVARIANTS
    FrameIfaceKnown
