SPECIFICATION SupSpec
CONSTANTS
    Capacity = 2
    Receivers = {r1, r2}
    MaxEvents = 8
    None = None
    Supervisor = r1
    Workers = {w1, w2, w3}
    Calls = {c}
    MaxRestarts = 1
    MaxRefusals = 2
    MaxForeign = 0
INVARIANT OneWorker
SYMMETRY Symmetry
CHECK_DEADLOCK FALSE
