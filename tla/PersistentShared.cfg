SPECIFICATION FairSpec
CONSTANTS
    t1 = t1
    t2 = t2
    photos = photos
    bad = bad
    a = a
    b = b
    c = c
    Threads <- MCThreads
    Allowed <- MCAnyCall
    Entities <- MCPhotos
    ValidNames <- MCPhotos
    Ids <- MCOneId
    BodiesOf <- MCOneBody
    MaxObjects = 2
    MaxFaults = 0
    MaxCrashes = 1
INVARIANTS
    AnswersReflectDirectory
    ReadsOnlyOwnBlocks
    AckedDataSurvives
PROPERTIES
    CreateSparesExisting
    EveryCallEnds
