SPECIFICATION Spec
CONSTANTS
    a1 = a1
    r1 = r1
    r2 = r2
    Adapters = {a1}
    Requests = {r1, r2}
    MaxLogs = 1
    NilLogger = NilLogger
    NilHandler = NilHandler
    NilMapper = NilMapper
    NilAdapter = NilAdapter
    NoCall = NoCall
    Unconfigured = Unconfigured
    DefaultMapper = "default"
    Loggers <- MCLoggers
    Handlers <- MCHandlers
    SlogNew <- MCSlogNew
    Globals <- MCGlobals
    Scope <- MCScope
    Mappers <- MCMappers
    Levels <- MCLevels
    MapLevel <- MCMapLevel
    MinLevel <- MCMinLevel
    OptionLists <- AllShortLists
INVARIANTS
    TypeOK
    OptionPrecedence
    NeverCallsNil
    RequestIsolation
PROPERTY
    ImplementsRouting
CHECK_DEADLOCK FALSE
