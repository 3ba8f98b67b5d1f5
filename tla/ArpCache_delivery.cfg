SPECIFICATION Spec
CONSTANTS
    p1 = p1
    p2 = p2
    p3 = p3
    gw1 = gw1
    gw2 = gw2
    m1 = m1
    m2 = m2
    eth1 = eth1
    eth2 = eth2
    a1 = a1
    a2 = a2
    Packet = {p1, p2, p3}
    IP = {gw1, gw2}
    Mac = {m1, m2}
    Iface = {eth1, eth2}
    ReqAddr = {a1, a2}
    Gw <- MCGw
    InIface <- MCInIface
    OutIface <- MCOutIface
    Replies <- MCReplies
    ArpcacheSz = 1
    ArpcacheTO = 1
    MaxSends = 2
    Null = Null
PROPERTIES
    SettlesEventually
    SweepEnds
    EntriesExpire
