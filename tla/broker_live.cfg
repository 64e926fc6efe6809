SPECIFICATION FairSpec
CONSTANTS
    Sessions = {s1}
    Connections = {k1, k2}
    MaxWorkers = 1
    MaxControl = 0
    None = None
    Failures = {"docker", "crash", "close"}
PROPERTIES ClaimsAreReleased LeftoversAreRemoved
