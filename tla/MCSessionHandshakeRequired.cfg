SPECIFICATION Spec
CONSTANTS
    Secret = {"right"}
    ProfileList <- MCProfileList
    Required = {"sunray"}
    MaxSid = 1
    MaxData = 0
    NoSession = NoSession
CHECK_DEADLOCK FALSE
INVARIANT RequiredProfilesPresent
