SPECIFICATION FairSpec
CONSTANTS
    NumRequests = 1
    MaxMessageId = 4
    MaxConnection = 2
    MaxReplacement = 0
    MaxFailure = 1
    MaxRestart = 1
    MaxQueue = 2
PROPERTIES
    ImplementsCalls
    EveryRequestEnds
CHECK_DEADLOCK FALSE
