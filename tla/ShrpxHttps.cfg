SPECIFICATION FairSpec
CONSTANTS
    MaxRequests = 2
    MaxBody = 1
    MaxHeader = 1
    OutThres = 1
    TxThres = 2
    RequestKinds <- MCKinds
    MaxWire = 2
    Malformed = TRUE
    Asserts = TRUE
INVARIANTS StopsOnlyInUpload OneReplyPerRequest OneBackendConnection
PROPERTIES AnsweredBeforeNext ReadingResumes
CHECK_DEADLOCK FALSE
