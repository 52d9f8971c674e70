SPECIFICATION Spec
CONSTANTS
    Entries = {e1, e2}
    Calls = {s1, s2}
    Groups = {g}
    None = None
SYMMETRY Symmetry
VIEW Live
INVARIANTS
    RegistriesFollow
    EventTellsWhy
    OnErrorOnceInTime
    EndedIsCleanedUp
\* The calls and spawns of the bound are used up.
CHECK_DEADLOCK FALSE
