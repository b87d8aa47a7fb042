SPECIFICATION FairSpec
CONSTANTS
    Jobs = {j1, j2}
    Callers = {c1, c2}
    Streams = {m1}
    MaxRestarts = 1
    None = None
INVARIANTS
    TypeOK
    ReadyIsPlayable
PROPERTIES
    ClaimIsExclusive
    TrackSettles
CHECK_DEADLOCK FALSE
