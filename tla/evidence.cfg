SPECIFICATION Spec
CONSTANTS
    PerPage = 1
    MaxPages = 3
    MaxMain = 1
    MaxRuns = 3
    MaxLosses = 1
INVARIANTS
    TypeOK
    VerifiedWasCurrent
PROPERTIES
    RefusesForReason
    VerifierEnds
CHECK_DEADLOCK FALSE
