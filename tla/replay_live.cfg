SPECIFICATION FairSpec
CONSTANTS
    Procs = {p1, p2}
    Requests = {q1}
    Replays = {r1}
    Creator = creator
    None = None
    Ops = {"stop", "serial", "input", "replay"}
    MaxActions = 2
PROPERTIES ReplaysEnd LiveInputReturns
