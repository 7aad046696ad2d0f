------------------------------- MODULE Adapter -------------------------------
(***************************************************************************)
(* adapter.go: constructing adapters with NewLogger and its options, and   *)
(* logging through them with Log from the goroutines of many requests.     *)
(* Construction is one action per option, so that it interleaves with      *)
(* slog.SetDefault; Log is entry, selection and emission, so that calls of *)
(* different requests interleave inside an adapter they share, and so that *)
(* a request can derive new contexts while one of its calls is under way.  *)
(*                                                                         *)
(* slog and slogcp are outside the repository.  A logger is what identity, *)
(* destination and filter make it; a context is the logger it carries, or  *)
(* NilLogger (a nil context carries none); LoggerFromContext reports that  *)
(* logger.  The attributes of an event are module BuildAttrs' subject.     *)
(***************************************************************************)
EXTENDS Integers, Sequences

CONSTANTS
    Adapters,       \* the adapters of the program
    Requests,       \* the goroutines that log, one per RPC
    Loggers,        \* *slog.Logger values
    Handlers,       \* *slogcp.Handler values
    SlogNew,        \* slog.New: the logger of a handler
    Mappers,        \* level mappers
    DefaultMapper,  \* defaultLevelMapper
    Levels,         \* middleware levels
    MapLevel,       \* what each mapper makes of a level
    MinLevel,       \* the level below which a logger's handler is not Enabled
    Globals,        \* the loggers the program makes the slog default
    Scope,          \* the loggers that a request's own code puts into its contexts
    OptionLists,    \* the option lists NewLogger is called with
    MaxLogs,        \* bound: the Log calls of one request
    NilLogger, NilHandler, NilMapper, NilAdapter, NoCall, Unconfigured

Policies == {"Fixed", "PreferContext", "unknown"}

Options ==
    [kind : {"nil", "clearMapper"}]
        \union [kind : {"WithLogger"}, logger : Loggers \union {NilLogger}]
        \union [kind : {"WithLevelMapper"}, mapper : Mappers \union {NilMapper}]
        \union [kind : {"WithLoggerPolicy"}, policy : Policies]

ASSUME AdapterAssumption ==
    /\ SlogNew \in [Handlers -> Loggers]
    /\ DefaultMapper \in Mappers
    /\ Levels \subseteq Int
    /\ MapLevel \in [Mappers -> [Levels -> Int]]
    /\ MinLevel \in [Loggers -> Int]
    /\ Globals \subseteq Loggers
    /\ Scope \in [Requests -> SUBSET Loggers]
    /\ OptionLists \subseteq Seq(Options)
    /\ MaxLogs \in Nat

\* The nil values are none of the values they stand beside, and the default
\* mapper keeps the number (defaultLevelMapper).
ASSUME NilAssumption ==
    /\ NilLogger \notin Loggers
    /\ NilHandler \notin Handlers
    /\ NilMapper \notin Mappers
    /\ MapLevel[DefaultMapper] = [level \in Levels |-> level]

VARIABLES
    build,        \* how far the construction of each adapter is
    adapter,      \* the Logger each adapter variable points to
    slogDefault,  \* slog.Default()
    ctx,          \* the context each request currently holds
    call,         \* the Log call each request is in, or NoCall
    count,        \* how many Log calls each request has made
    offered       \* every LogAttrs call made, with what became of it

buildVars == <<build, adapter, slogDefault>>
callVars == <<ctx, call, count, offered>>
vars == <<build, adapter, slogDefault, ctx, call, count, offered>>

LoggerConfigs ==
    [logger : Loggers \union {NilLogger}, levelMapper : Mappers \union {NilMapper},
     policy : Policies]

BuildStates ==
    [pc : {"unbuilt", "options", "ready"}, handler : Handlers \union {NilHandler},
     opts : Seq(Options), next : Nat \ {0}, cfg : LoggerConfigs]

\* A Logger that NewLogger returns, and the zero value.
BuiltLoggers == [log : Loggers, mapLevel : Mappers, policy : Policies]
ZeroLogger == [log |-> NilLogger, mapLevel |-> NilMapper, policy |-> "Fixed"]

Contexts == Loggers \union {NilLogger}

Calls ==
    [pc : {"entered", "selected"}, n : Nat, adapter : Adapters, ctx : Contexts,
     level : Levels, chosen : Contexts]

Events ==
    [req : Requests, n : Nat, adapter : Adapters, ctx : Contexts,
     level : Levels, logger : Loggers, severity : Int,
     outcome : {"filtered", "handled", "failed"}]

\* A missing adapter, call or configuration is no adapter, call or configuration.
ASSUME AbsenceAssumption ==
    /\ NilAdapter \notin BuiltLoggers \union {ZeroLogger}
    /\ NoCall \notin Calls
    /\ Unconfigured \notin BuiltLoggers \union {ZeroLogger}

InitialConfig ==
    [logger |-> NilLogger, levelMapper |-> DefaultMapper, policy |-> "Fixed"]

Unbuilt ==
    [pc |-> "unbuilt", handler |-> NilHandler, opts |-> << >>, next |-> 1,
     cfg |-> InitialConfig]

Init ==
    /\ build = [a \in Adapters |-> Unbuilt]
    /\ adapter = [a \in Adapters |-> NilAdapter]
    /\ slogDefault \in Globals
    /\ ctx = [r \in Requests |-> NilLogger]
    /\ call = [r \in Requests |-> NoCall]
    /\ count = [r \in Requests |-> 0]
    /\ offered = {}

-----------------------------------------------------------------------------
(* Construction *)

WithLogger(cfg, logger) ==
    IF logger # NilLogger THEN [cfg EXCEPT !.logger = logger] ELSE cfg

WithLevelMapper(cfg, mapper) ==
    IF mapper # NilMapper THEN [cfg EXCEPT !.levelMapper = mapper] ELSE cfg

WithLoggerPolicy(cfg, policy) == [cfg EXCEPT !.policy = policy]

\* opt(&cfg).  A nil option is skipped; clearMapper stands for an option
\* written inside the package, as its tests do, that leaves no mapper.
Apply(opt, cfg) ==
    CASE opt.kind = "nil" -> cfg
      [] opt.kind = "clearMapper" -> [cfg EXCEPT !.levelMapper = NilMapper]
      [] opt.kind = "WithLogger" -> WithLogger(cfg, opt.logger)
      [] opt.kind = "WithLevelMapper" -> WithLevelMapper(cfg, opt.mapper)
      [] opt.kind = "WithLoggerPolicy" -> WithLoggerPolicy(cfg, opt.policy)

\* NewLogger is called.
CallNewLogger(a) ==
    /\ build[a].pc = "unbuilt"
    /\ \E handler \in Handlers \union {NilHandler}, opts \in OptionLists :
          build' = [build EXCEPT ![a] =
                       [pc |-> "options", handler |-> handler, opts |-> opts,
                        next |-> 1, cfg |-> InitialConfig]]
    /\ UNCHANGED <<adapter, slogDefault, callVars>>

\* One iteration of the loop over the options.
ApplyOption(a) ==
    LET b == build[a] IN
    /\ b.pc = "options"
    /\ b.next <= Len(b.opts)
    /\ build' = [build EXCEPT ![a] = [b EXCEPT !.cfg = Apply(b.opts[b.next], b.cfg),
                                              !.next = b.next + 1]]
    /\ UNCHANGED <<adapter, slogDefault, callVars>>

\* Mutant of SelectBase: the handler wins over WithLogger.
SelectBase_HandlerFirst(cfg, handler, default) ==
    CASE handler # NilHandler -> SlogNew[handler]
      [] handler = NilHandler /\ cfg.logger # NilLogger -> cfg.logger
      [] OTHER -> default

\* The switch after the loop, evaluated when it is reached: slog.Default() is
\* read at that moment.
SelectBase(cfg, handler, default) ==
    CASE cfg.logger # NilLogger -> cfg.logger
      [] cfg.logger = NilLogger /\ handler # NilHandler -> SlogNew[handler]
      [] OTHER -> default

\* Mutant of SelectMapper: a missing mapper stays missing.
SelectMapper_AsConfigured(cfg) == cfg.levelMapper

SelectMapper(cfg) ==
    IF cfg.levelMapper = NilMapper THEN DefaultMapper ELSE cfg.levelMapper

\* The rest of NewLogger and its return.
ReturnLogger(a) ==
    LET b == build[a] IN
    /\ b.pc = "options"
    /\ b.next > Len(b.opts)
    /\ build' = [build EXCEPT ![a].pc = "ready"]
    /\ adapter' = [adapter EXCEPT ![a] =
                      [log |-> SelectBase(b.cfg, b.handler, slogDefault),
                       mapLevel |-> SelectMapper(b.cfg),
                       policy |-> b.cfg.policy]]
    /\ UNCHANGED <<slogDefault, callVars>>

\* An adapter variable that NewLogger never filled: a nil pointer, or a
\* pointer to the zero Logger.
DeclareOnly(a) ==
    /\ build[a].pc = "unbuilt"
    /\ build' = [build EXCEPT ![a].pc = "ready"]
    /\ \E value \in {NilAdapter, ZeroLogger} :
          adapter' = [adapter EXCEPT ![a] = value]
    /\ UNCHANGED <<slogDefault, callVars>>

\* The program replaces the global logger, at any time.
SetDefault(logger) ==
    /\ slogDefault # logger
    /\ slogDefault' = logger
    /\ UNCHANGED <<build, adapter, callVars>>

-----------------------------------------------------------------------------
(* Logging *)

\* slogcp.ContextWithLogger: a nil logger leaves the inherited one.
ContextWithLogger(parent, logger) == IF logger = NilLogger THEN parent ELSE logger

\* An interceptor or handler of request r derives a context and goes on with
\* it, also while a call of r is under way with the one it was given.
DeriveContext(r) ==
    /\ \E logger \in Scope[r] \union {NilLogger} :
          ctx' = [ctx EXCEPT ![r] = ContextWithLogger(ctx[r], logger)]
    /\ UNCHANGED <<buildVars, call, count, offered>>

\* Log is called on a variable the program has set up, with the context the
\* request holds at that moment.
EnterLog(r) ==
    /\ call[r] = NoCall
    /\ count[r] < MaxLogs
    /\ \E a \in Adapters, level \in Levels :
          /\ build[a].pc = "ready"
          /\ call' = [call EXCEPT ![r] =
                         [pc |-> "entered", n |-> count[r] + 1, adapter |-> a,
                          ctx |-> ctx[r], level |-> level, chosen |-> NilLogger]]
    /\ count' = [count EXCEPT ![r] = @ + 1]
    /\ UNCHANGED <<buildVars, ctx, offered>>

\* Mutant of IsSilent: only the receiver is checked.
IsSilent_PointerOnly(a) == adapter[a] = NilAdapter

\* l == nil || l.log == nil
IsSilent(a) == adapter[a] # NilAdapter => adapter[a].log = NilLogger

ReturnSilently(r) ==
    /\ call[r] # NoCall
    /\ call[r].pc = "entered"
    /\ IsSilent(call[r].adapter)
    /\ call' = [call EXCEPT ![r] = NoCall]
    /\ UNCHANGED <<buildVars, ctx, count, offered>>

\* The logger of an event whose context carries c, given the adapter.
Choose(l, c) == IF l.policy = "PreferContext" /\ c # NilLogger THEN c ELSE l.log

\* Mutant of Choose: any policy but Fixed prefers the context.
Choose_NotFixed(l, c) == IF l.policy # "Fixed" /\ c # NilLogger THEN c ELSE l.log

\* Mutants of SelectLogger: the selection is kept in the shared adapter; the
\* context is read again instead of the one the call was given.
SelectLogger_InAdapter(r) ==
    /\ call[r] # NoCall
    /\ call[r].pc = "entered"
    /\ ~IsSilent(call[r].adapter)
    /\ LET a == call[r].adapter
           chosen == Choose(adapter[a], call[r].ctx)
       IN  /\ adapter' = [adapter EXCEPT ![a].log = chosen]
           /\ call' = [call EXCEPT ![r].pc = "selected", ![r].chosen = chosen]
    /\ UNCHANGED <<build, slogDefault, ctx, count, offered>>

SelectLogger_LateContext(r) ==
    /\ call[r] # NoCall
    /\ call[r].pc = "entered"
    /\ ~IsSilent(call[r].adapter)
    /\ call' = [call EXCEPT
                   ![r].pc = "selected",
                   ![r].chosen = Choose(adapter[call[r].adapter], ctx[r])]
    /\ UNCHANGED <<buildVars, ctx, count, offered>>

\* buildAttrs, and the choice between l.log and the contextual logger.
SelectLogger(r) ==
    /\ call[r] # NoCall
    /\ call[r].pc = "entered"
    /\ ~IsSilent(call[r].adapter)
    /\ call' = [call EXCEPT
                   ![r].pc = "selected",
                   ![r].chosen = Choose(adapter[call[r].adapter], call[r].ctx)]
    /\ UNCHANGED <<buildVars, ctx, count, offered>>

\* selected.LogAttrs(ctx, l.mapLevel(level), ...): the logger drops an event
\* below its level; otherwise its handler writes it, or fails, which slog
\* ignores.
Outcomes(logger, severity) ==
    IF severity < MinLevel[logger] THEN {"filtered"} ELSE {"handled", "failed"}

Offered(r, outcome) ==
    LET c == call[r]
        severity == MapLevel[adapter[c.adapter].mapLevel][c.level]
    IN  [req |-> r, n |-> c.n, adapter |-> c.adapter, ctx |-> c.ctx,
         level |-> c.level, logger |-> c.chosen, severity |-> severity,
         outcome |-> outcome]

Emit(r) ==
    /\ call[r] # NoCall
    /\ call[r].pc = "selected"
    /\ \E outcome \in Outcomes(call[r].chosen, Offered(r, "handled").severity) :
          offered' = offered \union {Offered(r, outcome)}
    /\ call' = [call EXCEPT ![r] = NoCall]
    /\ UNCHANGED <<buildVars, ctx, count>>

Next ==
    \/ \E a \in Adapters :
          CallNewLogger(a) \/ ApplyOption(a) \/ ReturnLogger(a) \/ DeclareOnly(a)
    \/ \E logger \in Globals : SetDefault(logger)
    \/ \E r \in Requests :
          DeriveContext(r) \/ EnterLog(r) \/ ReturnSilently(r) \/ SelectLogger(r) \/ Emit(r)

Spec == Init /\ [][Next]_vars

-----------------------------------------------------------------------------
(* Properties *)

\* Type correctness: adapters hold built, zero or nil loggers, and a logger
\* was offered only events with a level its adapter could map.
TypeOK ==
    /\ build \in [Adapters -> BuildStates]
    /\ adapter \in [Adapters -> BuiltLoggers \union {ZeroLogger, NilAdapter}]
    /\ slogDefault \in Globals
    /\ ctx \in [Requests -> Contexts]
    /\ call \in [Requests -> Calls \union {NoCall}]
    /\ count \in [Requests -> Nat]
    /\ offered \subseteq Events

\* The options that count, by kind, and the last of some of them.
Given(opts, kind) == {k \in 1..Len(opts) : opts[k].kind = kind}
LastOf(ks) == CHOOSE k \in ks : \A j \in ks : j <= k

LoggerOptions(opts) == {k \in Given(opts, "WithLogger") : opts[k].logger # NilLogger}
MapperOptions(opts) ==
    {k \in Given(opts, "WithLevelMapper") : opts[k].mapper # NilMapper}
        \union Given(opts, "clearMapper")
PolicyOptions(opts) == Given(opts, "WithLoggerPolicy")

\* NewLogger's documented precedence: the last logger an option gave, else the
\* handler's, else some slog default; the last mapper and the last policy, else
\* the default mapper and Fixed; nil options and nil arguments change nothing
\* (NewLogger, WithLogger, WithLevelMapper, WithLoggerPolicy).
OptionPrecedence ==
    \A a \in Adapters :
        LET b == build[a]
            l == adapter[a]
            loggers == LoggerOptions(b.opts)
            mappers == MapperOptions(b.opts)
            policies == PolicyOptions(b.opts)
            mapper == b.opts[LastOf(mappers)]
        IN  (b.pc = "ready" /\ l # NilAdapter /\ l # ZeroLogger) =>
                /\ loggers # {} => l.log = b.opts[LastOf(loggers)].logger
                /\ loggers = {} /\ b.handler # NilHandler => l.log = SlogNew[b.handler]
                /\ loggers = {} /\ b.handler = NilHandler => l.log \in Globals
                /\ l.mapLevel = IF mappers = {} \/ mapper.kind = "clearMapper"
                                THEN DefaultMapper ELSE mapper.mapper
                /\ l.policy = IF policies = {} THEN "Fixed"
                              ELSE b.opts[LastOf(policies)].policy

\* The loggers an adapter may have captured.
Foundation(b) ==
    Globals \union {SlogNew[h] : h \in {b.handler} \ {NilHandler}}
            \union {b.opts[k].logger : k \in LoggerOptions(b.opts)}

\* A request's event reaches only that request's own loggers or one its adapter
\* was built from: calls that share an adapter never borrow one another's
\* contextual logger, whatever their interleaving (Log keeps its selection in a
\* local variable; context_test.go TestContextRequestIsolation).
RequestIsolation ==
    \A e \in offered : e.logger \in Scope[e.req] \union Foundation(build[e.adapter])

\* An event is offered to one logger only: the one its policy selects is final,
\* and an event that logger filters or fails to write is never tried on the
\* fallback (README "Selecting a request-scoped logger").
NoFallThrough ==
    \A e, f \in offered : (e.req = f.req /\ e.n = f.n) => e = f

\* A call past the nil check has a logger and a mapper to call, whichever
\* options built its adapter: Log never dereferences nil.
NeverCallsNil ==
    \A r \in Requests :
        call[r] # NoCall /\ call[r].pc = "selected" =>
            /\ call[r].chosen # NilLogger
            /\ adapter[call[r].adapter].mapLevel # NilMapper

\* The abstract view: an adapter is configured the moment NewLogger returns.
Configured ==
    [a \in Adapters |->
        IF build[a].pc # "ready" THEN Unconfigured
        ELSE IF adapter[a] = NilAdapter THEN ZeroLogger
        ELSE adapter[a]]

Routing == INSTANCE EventRouting WITH config <- Configured

\* Adapters implement EventRouting: configuration is written once, so neither a
\* later slog.SetDefault nor any Log call changes where an adapter falls back,
\* and every offer is the one that the configuration and the context given at
\* the call dictate, as if Log were atomic.
ImplementsRouting == Routing!Spec
=============================================================================
