SPECIFICATION FairSpec
CONSTANTS
    MaxBuffer = 8
    Chunk = 3
    MagicLen = 2
    LenAt = 3
    QosAt = 4
    Stream <- MCStream
    MaxPieces = 3
CHECK_DEADLOCK FALSE
INVARIANTS RoomyLossless
PROPERTIES ImplementsChannel StreamConsumed
