SPECIFICATION Spec
SYMMETRY Symmetry
CONSTANTS
    Bvids = {a, b}
    Accounts = {u}
    Keys = {k}
    Guest = Guest
    PageSize = 1
    MaxPages = 2
    KeepOwner = 1
    KeepAll = 2
    Totals = {0, 1}
    MaxSearches = 3
    MaxRequests = 2
    None = None
INVARIANTS
    SearchSound
PROPERTIES
    PagesAreFixed
CHECK_DEADLOCK FALSE
