SPECIFICATION FairSpec
CONSTANTS
    Threshold = 2
    Window = 2
    OpenTimeout = 1
    Callers = {c1, c2}
    MaxClock = 5
    MaxCalls = 7
    None = None
INVARIANTS
    OneProbeRuns
    TripsInTime
PROPERTIES
    OpensForCause
    ProbeResolved
