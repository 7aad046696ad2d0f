SPECIFICATION Spec
CONSTANTS
    Versions = {1, 2}
    FirstVersion = 1
    MaxCommits = 2
    Runs = {1}
    MaxAttempts = 2
    Slots = 1
    Touched = {}
    NoTag = NoTag
    NoTrigger = NoTrigger
    Pushes <- BumpPush
INVARIANT
    RecoveryRevalidates
CHECK_DEADLOCK FALSE
