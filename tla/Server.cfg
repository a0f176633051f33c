SPECIFICATION FairSpec
CONSTANTS
    t1 = t1
    t2 = t2
    s1 = s1
    s2 = s2
    s3 = s3
    NoSession = NoSession
    Threads <- MCThreads
    Sessions <- MCSessions
INVARIANTS
    TypeOK
    OneOwner
    OneAcceptor
    SocketsFollowSessions
PROPERTIES
    CompletionIsHandled
    ShutdownEnds
