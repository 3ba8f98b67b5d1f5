SPECIFICATION Spec
CONSTANTS
    Base = 4
    Packets <- MCPackets
    TtlAt = 1
    SumAt = 3
INVARIANTS
    TypeOK
    SumsEveryByte
    AcceptsRight
    SentRight
PROPERTIES
    Ends
CHECK_DEADLOCK FALSE
