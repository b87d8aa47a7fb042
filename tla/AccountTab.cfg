SPECIFICATION Spec
CONSTANTS
    Accounts = {u}
    Guest = Guest
    Entries = {e1, e2}
    MaxPages = 2
    MaxChanges = 2
    MaxRequests = 2
    None = None
INVARIANTS
    TabSound
PROPERTIES
    WritesGoToSender
    EventuallyCurrent
