SPECIFICATION FairSpec
CONSTANT MaxLane = 2
CHECK_DEADLOCK FALSE
INVARIANTS LaneTables ClientLaneAgrees
PROPERTIES LaneLossKeepsSession StaleRouteCleared LanesCollected
