SPECIFICATION FairSpec
CONSTANTS
    Threshold = 1
    Window = 1
    OpenTimeout = 1
    VMs = {a, b}
    Members = {a, b}
    Volatile = {b}
    Callers = {c1, c2}
    MaxClock = 1
    MaxCalls = 2
    None = None
INVARIANTS
    RoundRobin
    HealthyTried
PROPERTY GroupCallReturns
\* The calls of the bound have returned, and nobody joins or leaves.
CHECK_DEADLOCK FALSE
