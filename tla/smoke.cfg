SPECIFICATION Spec
CONSTANTS
    MaxPolls = 2
    MaxRequests = 4
INVARIANTS
    TypeOK
    PassedIsEarned
    FailsForReason
PROPERTIES
    JobEnds
    ServerStops
CHECK_DEADLOCK FALSE
