SPECIFICATION Spec
CONSTANTS
    get = get
    post = post
    bad = bad
    Requests <- MCRequests
    ValidRequests <- MCValidRequests
    BodyPieces <- MCNoBodies
    max_length = 4
    Pipelines = FALSE
    MaxRequests = 2
INVARIANTS
    ExecutesWhatWasSent
