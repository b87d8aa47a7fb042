SPECIFICATION FairSpec
CONSTANTS
    Items = {a, b}
    Accounts = {u, v}
    Modes = {"sequence", "shuffle"}
    QueueLimit = 1
    None = None
INVARIANTS
    ScreenIsConsistent
    SoundIsCurrent
PROPERTIES
    PressesSettle
