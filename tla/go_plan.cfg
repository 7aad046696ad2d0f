SPECIFICATION Spec
CONSTANTS
    Names <- MCNames
    Manifests <- MCManifests
    MaxReleases = 3
INVARIANTS
    TypeOK
    RuntimesFit
    ToolsNotOlder
    CanaryProvesNewest
    PlanFailsForReason
    SelectsNewest
CHECK_DEADLOCK FALSE
