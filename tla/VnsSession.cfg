SPECIFICATION Spec
CONSTANTS
    c1 = c1
    c2 = c2
    eth1 = eth1
    eth9 = eth9
    Client = {c1, c2}
    Template = {c2}
    Iface = {eth1, eth9}
    ROUTER_IP = {eth1}
    RtTables <- MCRtTables
    Extra = {"BANNER", "CLOSE"}
    MaxPackets = 1
    Unset = Unset
INVARIANTS
    TypeOK
    HandledWhenInitialised
    ReadyKnowsPorts
    PacketOutHasPort
PROPERTIES
    ConnectSettles
    ReadyIfInfoFirst
    CloseEnds
