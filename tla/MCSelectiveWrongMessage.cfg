SPECIFICATION Spec
CONSTANTS
    Capacity = 3
    DropOnFull = 2
    Strategy = "blockOrError"
    Levels = {1, 5}
    Kinds = {a, b}
    MaxSends = 3
    Receivers = {r1}
    None = None
INVARIANT ExactlyOnce
