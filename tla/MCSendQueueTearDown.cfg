SPECIFICATION Spec
CONSTANTS
    MaxQueued = 8
    Reserve = 4
    Quantum = 2
    RetryLimit = 1
    Size = {1, 3}
    LatestKey = {"pose"}
    MaxFrames = 3
CHECK_DEADLOCK FALSE
INVARIANT OnlyReliableOrderedTearsDown
