SPECIFICATION Spec
CONSTANTS
    Capacity = 2
    DropOnFull = 2
    Strategy = "dropNew"
    Levels = {1, 5}
    Kinds = {a, b}
    MaxSends = 3
    Receivers = {r1, r2}
    None = None
SYMMETRY Symmetry
INVARIANTS
    ExactUndisturbed
    KeepsOrder
    AccountedFor
\* A panic in ReceiveByWait leaves the mutex locked: everyone stops.
CHECK_DEADLOCK FALSE
