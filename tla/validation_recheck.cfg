SPECIFICATION Spec
CONSTANTS
    Mode = "requirements"
    Jobs <- OutputJobs
    Commits = {1}
    MaxBase = 2
    MaxGo = 1
    Runs = {1, 2}
    MaxAttempts = 1
    NoHead = NoHead
INVARIANTS
    TypeOK
    AcceptedWasCurrent
CHECK_DEADLOCK FALSE
