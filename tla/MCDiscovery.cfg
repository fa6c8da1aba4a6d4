SPECIFICATION FairSpec
CONSTANTS
    MaxDiscoveryBytes = 3
    Address = {1, 2}
    Device <- OneDevice
    ClientFormats = {3, 4}
    AttributeBytes <- FirstTooLarge
    Secret = "secret"
    WrongSecret = "other"
    MaxVersion = 2
    MaxCalls = 2
    MaxChanges = 2
    MaxAnswers = 2
CHECK_DEADLOCK FALSE
INVARIANTS MembershipReported LaterReplyNewer FoundFresh
PROPERTIES DevicesJoined StopReturns
