SPECIFICATION FairSpec
CONSTANTS
    MaxQueued = 8
    Reserve = 4
    Quantum = 3
    RetryLimit = 1
    Size = {3, 7}
    LatestKey = {"pose"}
    MaxFrames = 4
CHECK_DEADLOCK FALSE
INVARIANTS ByteAccounting OneLatestPerKey WholeFrames InOrder
PROPERTIES ImplementsOutbound ControlSent
