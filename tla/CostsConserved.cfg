SPECIFICATION CostsSpec
CONSTANTS
    Caller = {c1, c2}
    Region = {r1}
    TierTables <- SmallTables
    NatPerGB = 1
    FlatPerGB = 1
    MaxFlowGB = 2
    MaxGB = 5
    MaxMonth = 1
    Interval = 3
    CacheFor = 3
    MaxAge = 8
    a = a
    b = b
    c = c
    x = x
    Service = {a, b, c}
    External = {x}
    Row <- GraphRows
    MaxRows = 4
    MaxChanges = 1
    MaxIterations = 5
    Epsilon = 1
    Scale = 7776
    Cent = 2
    None = none
INVARIANT DollarsConserved
CHECK_DEADLOCK FALSE
