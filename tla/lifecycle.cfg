SPECIFICATION FairSpec
CONSTANTS
    Procs = {p1, p2}
    Requests = {q1, q2}
    Replays = {}
    Creator = creator
    None = None
    Ops = {"stop", "expire", "power_off", "power_on", "serial", "input", "pause", "resume", "refresh", "reset"}
    MaxActions = 1
INVARIANTS TypeOK AtMostOneWorker TerminalKeepsOnlyStragglers PoweredHasProcess
PROPERTIES ImplementsContract OnlyPowerOffRevives StopReturns SignalledWorkersEnd
