SPECIFICATION Spec
CONSTANTS
    Items = {a, b}
    Accounts = {u}
    Modes = {"sequence"}
    QueueLimit = 2
    None = None
INVARIANTS
    RangeIsCurrent
