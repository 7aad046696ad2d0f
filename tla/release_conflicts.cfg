SPECIFICATION Spec
CONSTANTS
    Versions = {1, 2}
    FirstVersion = 1
    MaxCommits = 4
    Runs = {1, 2}
    MaxAttempts = 1
    Slots = 2
    Touched = {}
    NoTag = NoTag
    NoTrigger = NoTrigger
    Pushes <- ConflictPushes
INVARIANTS
    OneCommitPerVersion
    ReleaseAdvances
CHECK_DEADLOCK FALSE
