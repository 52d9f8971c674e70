SPECIFICATION SupFairSpec
CONSTANTS
    Capacity = 2
    Receivers = {r1, r2}
    MaxEvents = 8
    None = None
    Supervisor = r1
    Workers = {w1, w2}
    Calls = {c}
    MaxRestarts = 1
    MaxRefusals = 2
    MaxForeign = 1
INVARIANTS
    AccountedFor
    GapsAreDrops
    NoLostWakeup
    EndsWithCause
\* A consumer without a deadline blocks for good when no event comes.
PROPERTIES
    KeepsStream
    ConsumerServed
    WorkerReplaced
CHECK_DEADLOCK FALSE
