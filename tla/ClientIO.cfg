SPECIFICATION Spec
CONSTANTS
    m1 = m1
    m2 = m2
    ip1 = ip1
    ip2 = ip2
    Base = 4
    LenBytes = 2
    MaxLen = 5
    MaxSent = 3
    Message <- MCMessage
    Name = {1, 2}
    Mac = {m1, m2}
    IP = {ip1, ip2}
    Hardware <- MCHardware
    RtNames = {1}
    Garbage = Garbage
    Frame <- MCFrame
    Item <- MCItem
    EtherLen = 2
    DumpSize = 4
    Nothing = Nothing
    VNSHWINFO = 3
    VNSPACKET = 2
    VNSCLOSE = 1
INVARIANTS
    TypeOK
    ListIsHardware
    WireLogged
    SourceTrue
    PacketLoggedFirst
PROPERTIES
    DeliversAll
CHECK_DEADLOCK FALSE
