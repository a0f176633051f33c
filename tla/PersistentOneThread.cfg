SPECIFICATION Spec
CONSTANTS
    t1 = t1
    t2 = t2
    photos = photos
    bad = bad
    a = a
    b = b
    c = c
    Threads <- MCOneThread
    Allowed <- MCAnyCall
    Entities <- MCValidAndInvalid
    ValidNames <- MCPhotos
    Ids <- MCIds
    BodiesOf <- MCBodies
    MaxObjects = 2
    MaxFaults = 1
    MaxCrashes = 1
INVARIANTS
    TypeOK
    AckedDataSurvives
PROPERTIES
    ImplementsEntityStore
