SPECIFICATION Spec
CONSTANTS
    Procs = {p1, p2}
    Requests = {q1}
    Replays = {r1, r2}
    Creator = creator
    None = None
    Ops = {"stop", "power_off", "power_on", "serial", "input", "replay"}
    MaxActions = 2
SYMMETRY Symmetry
INVARIANTS ReplayReachable StartingIsTransient
