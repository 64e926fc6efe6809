SPECIFICATION FairSpec
CONSTANTS
    Writers = {w1, w2}
    None = None
    MaxWrites = 2
    MaxBuffered = 2
    Room = 0
    MaxPrint = 1
    Limit = 1
INVARIANTS
    TypeOK
    StdinInOrder
    OutputIsDelivered
PROPERTIES
    TerminateEnds
CHECK_DEADLOCK FALSE
