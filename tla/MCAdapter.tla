----------------------------- MODULE MCAdapter -----------------------------
(* Loggers of two requests, one configured explicitly, one behind a handler, *)
(* and two globals.  own1 drops what the others keep, so that an event can   *)
(* be filtered by the contextual logger and not by the fallback.             *)
EXTENDS Adapter

CONSTANTS r1, r2

MCLoggers == {"own1", "own2", "base", "handled", "global1", "global2"}
MCHandlers == {"handler"}
MCSlogNew == [h \in MCHandlers |-> "handled"]
MCGlobals == {"global1", "global2"}
MCScope == [r \in Requests |-> IF r = r1 THEN {"own1"} ELSE {"own2"}]

\* INFO and a level between WARN and ERROR, as a CodeToLevel function may
\* return; the custom mapper raises every level by one.
MCLevels == {0, 6}
MCMappers == {"default", "raise"}
MCMapLevel ==
    [m \in MCMappers |-> [v \in MCLevels |-> IF m = "default" THEN v ELSE v + 1]]
MCMinLevel == [l \in MCLoggers |-> IF l = "own1" THEN 1 ELSE 0]

Nil == [kind |-> "nil"]
ClearMapper == [kind |-> "clearMapper"]
LoggerOption(l) == [kind |-> "WithLogger", logger |-> l]
MapperOption(m) == [kind |-> "WithLevelMapper", mapper |-> m]
PolicyOption(p) == [kind |-> "WithLoggerPolicy", policy |-> p]

\* Every list of at most two of nine options.
SomeOptions ==
    {Nil, ClearMapper, LoggerOption("base"), LoggerOption("global1"),
     LoggerOption(NilLogger), MapperOption("raise"), MapperOption(NilMapper),
     PolicyOption("PreferContext"), PolicyOption("unknown")}
AllShortLists == UNION {[1..n -> SomeOptions] : n \in 0..2}

\* The lists that matter to requests sharing an adapter.
SharedLists ==
    {<<PolicyOption("PreferContext")>>,
     <<LoggerOption("base"), PolicyOption("unknown")>>}
=============================================================================
