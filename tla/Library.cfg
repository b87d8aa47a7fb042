SPECIFICATION Spec
SYMMETRY Symmetry
CONSTANTS
    Bvids = {a, b}
    Legacy = Legacy
    Guests = {}
    Accounts = {u, v}
    Keys = {k}
    MaxPlaylists = 1
    MaxItems = 2
    MaxReceipts = 2
    Times = {t1, t2}
    MaxListId = 2
    MaxItemId = 3
    MaxCandidateId = 2
    MaxEdits = 2
    MaxRevision = 2
    None = None
INVARIANTS
    LibraryConsistent
    DoneOnce
PROPERTIES
    LibraryKept
    NoBlindOverwrite
CHECK_DEADLOCK FALSE
