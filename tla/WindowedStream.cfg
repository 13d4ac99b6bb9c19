CONSTANTS
    MaxRows = 3
    PartVal = {1, 2}
    OrdVal = {1, 2, 3}
    Offsets = {0, 1}
    NULL = NULL
    NoValue = NoValue
SPECIFICATION Spec
INVARIANTS
    TypeOK
    WindowExact
    AccMatchesWindow
