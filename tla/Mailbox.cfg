SPECIFICATION FairSpec
CONSTANTS
    Capacity = 3
    DropOnFull = 3
    Strategies = {"dropOld", "dropNew", "blockOrError"}
    Levels = {1, 3, 5}
    Kinds = {k}
    MaxSends = 4
    Senders = {s1, s2}
    Receivers = {r1, r2}
    None = None
INVARIANTS
    SystemFirst
    EvictsOldestFirst
    AccountedFor
    DeliversInOrder
    NoLostWakeup
PROPERTIES
    KeepsPromise
    CloseReleasesAll
    WaitersServed
