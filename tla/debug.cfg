SPECIFICATION Spec
CONSTANTS
    Requests = {q1, q2}
    RunTasks = {r1}
    Clients = {c1, c2}
    Addresses = {a1}
    None = None
    Offered <- MCOffered
    MaxBreakpoints = 1
    MaxLate = 1
SYMMETRY Symmetry
INVARIANTS TypeOK BreakpointsAgree AnswersMatch
