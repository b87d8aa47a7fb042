SPECIFICATION FairSpec
CONSTANTS
    Clients = {c1, c2, c3}
    Runtime = Runtime
    None = None
    MaxVersion = 2
INVARIANTS
    JarKept
PROPERTIES
    OpenersServed
