SPECIFICATION FairSpec
CONSTANTS
    Proc = {p1, p2}
    MaxSaves = 4
INVARIANTS
    TypeOK
    FileIsWhole
    SettledIsLatest
PROPERTIES
    ImplementsRegister
    SaveLands
