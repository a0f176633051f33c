SPECIFICATION FairSpec
CONSTANTS
    t1 = t1
    t2 = t2
    photos = photos
    notes = notes
    a = a
    b = b
    NoThread = NoThread
    Threads <- MCThreads
    Entities <- MCTwoEntities
    Ids <- MCOneId
    Bodies <- MCBodies
    MaxCreates = 1
INVARIANTS
    TypeOK
    LockHeldInside
    ReservedIdIsFree
    IssuedOnce
PROPERTIES
    ImplementsEntityStore
    SomeCallCompletes
