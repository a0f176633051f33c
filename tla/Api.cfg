SPECIFICATION Spec
CONSTANTS
    t1 = t1
    t2 = t2
    Threads <- MCThreads
    Entities <- MCEntities
    Number <- MCNumber
    MaxInt = 15
    Bodies = {"a", "b"}
    NewIds <- MCNewIds
    url_prefix_ <- MCPrefix
    HttpRequests <- MCHttpRequests
INVARIANT TypeOK
PROPERTIES
    ApiImplementsResources
    OnlyWhatTheUrlNames
