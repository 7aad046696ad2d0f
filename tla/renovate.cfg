SPECIFICATION FairSpec
CONSTANTS
    r1 = r1
    r2 = r2
    t1 = t1
    d1 = d1
    d2 = d2
    Repairs = {r1, r2}
    Routines = {t1}
    Deps = {d1, d2}
    Repaired <- MCRepaired
    FirstTree <- MCFirstTree
    MaxHands = 1
    NoVersion = NoVersion
    NoBranch = NoBranch
INVARIANTS
    TypeOK
    MergedInScope
    RepairsAreReleased
PROPERTY
    PreparedLands
CHECK_DEADLOCK FALSE
