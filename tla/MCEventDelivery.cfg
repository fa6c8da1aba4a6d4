SPECIFICATION Spec
CONSTANTS
    c1 = c1
    c2 = c2
    Conn = {c1, c2}
    Capacity = 2
    MaxRequests = 2
    MaxOther = 1
CHECK_DEADLOCK FALSE
INVARIANTS NoCallAfterFree RequestGetsItsAnswer NothingDiscarded
