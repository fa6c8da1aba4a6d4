SPECIFICATION FairSpec
CONSTANTS
    Secret = {"right", "wrong"}
    ProfileList <- MCProfileList
    Required = {}
    MaxSid = 2
    MaxData = 1
    NoSession = NoSession
CHECK_DEADLOCK FALSE
INVARIANTS ClientActiveAgrees WrongSecretStaysOut
PROPERTIES ActiveStays HandshakeCompletes LossForgetsSessions
