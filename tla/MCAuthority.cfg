SPECIFICATION FairSpec
CONSTANTS
    p1 = p1
    p2 = p2
    Peer = {p1, p2}
    Sid = {1}
    Entity = {"alpha"}
    Scope = {"mobility"}
    Ttl = {0, 2, 3}
    MaxLease = 2
    MaxClock = 2
    NoLease = NoLease
    NoEnv = NoEnv
INVARIANTS LeaseHolderAlive LeaseHasSession StoppedClean
PROPERTIES LeaseLossCauses ImplementsLeaseService DisconnectFreesLeases
