SPECIFICATION FairSpec
CONSTANTS
    MaxConn = 1
    MaxSid = 1
    MaxQueued = 1
CHECK_DEADLOCK FALSE
PROPERTY StopTerminates
