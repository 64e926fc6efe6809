SPECIFICATION Spec
CONSTANTS
    Procs = {p1, p2}
    Requests = {q1, q2}
    Replays = {r1}
    Creator = creator
    None = None
    Ops = {"power_off", "power_on", "input", "replay"}
    MaxActions = 2
SYMMETRY Symmetry
INVARIANTS AtMostOneWorker
