SPECIFICATION FairSpec
CONSTANTS
    Versions = {1, 2}
    FirstVersion = 1
    MaxCommits = 2
    Runs = {1, 2}
    MaxAttempts = 2
    Slots = 1
    Touched = {2}
    NoTag = NoTag
    NoTrigger = NoTrigger
    Pushes <- BumpPush
INVARIANTS
    TypeOK
    PublishedMatchesTag
    ProvenBeforeRelease
    KeyConfined
    UndisturbedSucceeds
PROPERTIES
    ImplementsRegistry
    QueuedRunsEnd
CHECK_DEADLOCK FALSE
