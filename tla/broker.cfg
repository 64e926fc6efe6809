SPECIFICATION Spec
CONSTANTS
    Sessions = {s1, s2}
    Connections = {k1, k2}
    MaxWorkers = 1
    MaxControl = 2
    None = None
    Failures = {"docker", "crash", "close"}
SYMMETRY Symmetry
INVARIANTS TypeOK ClaimsMatchHandlers ContainersAreClaimed
