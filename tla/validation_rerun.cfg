SPECIFICATION Spec
CONSTANTS
    Mode = "latest"
    Jobs <- WithFloor
    Commits = {1}
    MaxBase = 2
    MaxGo = 2
    Runs = {1}
    MaxAttempts = 2
    NoHead = NoHead
INVARIANTS
    AllWorkDone
    NoSpuriousRejection
    OneGoRelease
CHECK_DEADLOCK FALSE
