SPECIFICATION FairSpec
CONSTANTS
    e1 = e1
    e2 = e2
    e3 = e3
    Encoder = {e1, e2, e3}
    NoEncoder = NoEncoder
INVARIANT OrderSafety
PROPERTY ClosesInTurn
PROPERTY DropReturns
CHECK_DEADLOCK FALSE
