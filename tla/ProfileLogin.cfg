SPECIFICATION LoopSpec
CONSTANTS
    Sessions = {s1, s2}
    Logouts = {l1}
    Imports = {i1}
    Readers = {r1}
    MaxReaders = 1
    Job = Job
    Nobody = Nobody
INVARIANTS
    LoginTypeOK
    LeaseExclusion
    LoginRecoverable
PROPERTIES
    CredentialsChangeUnderLease
    CallersAnswered
CHECK_DEADLOCK FALSE
