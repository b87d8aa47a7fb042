SPECIFICATION FairSpec
CONSTANTS
    NoItem = NoItem
    Jobs = {j1}
    Resolves = {r1, r2}
    Items = {i1, i2}
    MaxActive = 3
    MaxBrowsers = 1
    MaxWaiting = 1
    MaxCached = 1
INVARIANTS
    LookupSound
PROPERTIES
    LookupEnds
