SPECIFICATION Spec
CONSTANTS
    b1 = b1
    b2 = b2
    Bathrooms <- MCBathrooms
    Stores <- MCStores
    Positions <- MCPositions
    MaxLoads = 2
    MaxChanges = 1
    MaxLocates = 2
    list_size = 1
CHECK_DEADLOCK FALSE
INVARIANTS
    TypeOK
    MapShowsOneLoad
    NothingIsOrphaned
    ShownWasThere
PROPERTY
    IndicatorGoesOut
