SPECIFICATION FairSpec
CONSTANTS
    get = get
    post = post
    bad = bad
    Requests <- MCRequests
    ValidRequests <- MCValidRequests
    BodyPieces <- MCBodyPieces
    max_length = 4
    Pipelines = TRUE
    MaxRequests = 2
INVARIANTS
    TypeOK
    OneRequestServedOnce
    AnswersReadTheStream
    EveryAnswerIsSentOnce
PROPERTIES
    RequestIsAnswered
    SessionEnds
