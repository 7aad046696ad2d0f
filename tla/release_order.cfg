SPECIFICATION Spec
CONSTANTS
    Versions = {1, 2, 3}
    FirstVersion = 1
    MaxCommits = 4
    Runs = {1, 2, 3}
    MaxAttempts = 1
    Slots = 1
    Touched = {}
    NoTag = NoTag
    NoTrigger = NoTrigger
    Pushes <- OutOfOrderPushes
PROPERTY
    PublishedInOrder
CHECK_DEADLOCK FALSE
