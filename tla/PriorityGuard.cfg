SPECIFICATION FairSpec
CONSTANTS
    App = App
    Kernel = Kernel
    None = None
    Stable = 2
    Window = 10
    MaxResumes = 2
INVARIANTS
    TypeOK
    RestartsBounded
    GuardStopRemembered
PROPERTIES
    StartsAfterCalm
    GuardStopsEnd
