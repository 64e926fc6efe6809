SPECIFICATION FairSpec
CONSTANTS
    Sessions = {s1, s2}
    Requests = {q1, q2}
    Cleaner = cleaner
    Closer = closer
    None = None
    MaxSessions = 1
INVARIANTS TypeOK WorkersWithinCapacity CloseEndsSessions
PROPERTIES ExpiredSessionsEnd
CHECK_DEADLOCK FALSE
