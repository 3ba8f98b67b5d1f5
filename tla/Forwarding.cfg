SPECIFICATION Spec
CONSTANTS
    r1 = r1
    r2 = r2
    r3 = r3
    h1 = h1
    h2 = h2
    Router = {r1, r2, r3}
    Host = {h1, h2}
    Neighbours <- MCNeighbours
    Tables <- MCTables
    MaxTTL = 4
    HostTTL = {0, 4}
    NoRoute = NoRoute
    OtherSum = OtherSum
    Nothing = Nothing
INVARIANTS
    TypeOK
    HopBound
    SumsRight
    Answered
PROPERTIES
    Quiesces
