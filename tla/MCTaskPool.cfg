SPECIFICATION FairSpec
CONSTANTS
    a = a
    b = b
    c = c
    d = d
    None = None
    Tasks = {a, b, c, d}
    Programs <- MCPrograms
INVARIANTS
    PoolBound
    WakeupsKept
    AnswersTrue
    CombinesTrue
PROPERTIES
    AwaitReturns
CHECK_DEADLOCK FALSE
