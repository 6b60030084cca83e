SPECIFICATION Spec
CONSTANTS
    NumRequests = 2
    MaxMessageId = 3
    MaxConnection = 2
    MaxReplacement = 1
    MaxFailure = 1
    MaxRestart = 0
    MaxQueue = 1
INVARIANTS
    TypeOK
    NoSilentReissue
    AnswerIsOwn
    WaitingIsTemporary
    SentIsWatched
CHECK_DEADLOCK FALSE
