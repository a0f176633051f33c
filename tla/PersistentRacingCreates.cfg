SPECIFICATION Spec
CONSTANTS
    t1 = t1
    t2 = t2
    photos = photos
    bad = bad
    a = a
    b = b
    c = c
    Threads <- MCThreads
    Allowed <- MCCreators
    Entities <- MCPhotos
    ValidNames <- MCPhotos
    Ids <- MCOneId
    BodiesOf <- MCBodies
    MaxObjects = 2
    MaxFaults = 0
    MaxCrashes = 0
INVARIANTS
    CreatesAreDistinct
