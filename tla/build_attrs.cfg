SPECIFICATION Spec
CONSTANTS
    MaxFields = 5
    NilValue = NilValue
    Values <- MCValues
    Keys <- MCKeys
    Sprint <- MCSprint
    FieldLists <- MCFieldLists
INVARIANTS
    TypeOK
    ResultIsPairs
CHECK_DEADLOCK FALSE
