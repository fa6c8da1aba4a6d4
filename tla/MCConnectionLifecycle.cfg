SPECIFICATION FairSpec
CONSTANTS
    MaxConn = 2
    MaxSid = 1
    MaxQueued = 1
CHECK_DEADLOCK FALSE
INVARIANTS StoppedClean OneRunning ExclusiveClose
PROPERTIES LiveSessionKept StoppedIsReported
