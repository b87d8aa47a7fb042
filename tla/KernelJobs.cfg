SPECIFICATION FairSpec
CONSTANTS
    b1 = b1
    b2 = b2
    p1 = p1
    Jobs <- MCJobs
    Profiles = {p1}
    ProfileOf <- MCProfileOf
    Bound <- MCJobs
    Lookups = {look1}
    MaxActive = 2
    MaxTries = 1
    MayStraggle = TRUE
    NoJob = NoJob
    Mutator = Mutator
INVARIANTS
    TypeOK
    LeaseDiscipline
    UnfinishedHasRunner
    CapacityBound
    SuccessIsServed
PROPERTIES
    Contract
    EverythingSettles
CHECK_DEADLOCK FALSE
