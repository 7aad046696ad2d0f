---------------------------- MODULE AdapterProofs ----------------------------
(* Adapter is type correct, isolates requests, never falls through and       *)
(* implements EventRouting, for every number of adapters, requests, loggers, *)
(* options and calls; and NewLogger keeps its documented precedence.         *)
EXTENDS Adapter, TLAPS

\* Loggers are captured from what the adapter is being built from.
ConstructionInv ==
    \A a \in Adapters :
        /\ build[a].pc # "ready" => adapter[a] = NilAdapter
        /\ build[a].pc = "options" =>
              build[a].cfg.logger \in {NilLogger} \union Foundation(build[a])
        /\ adapter[a] \in BuiltLoggers => adapter[a].log \in Foundation(build[a])

\* Contexts carry only the loggers of the request that holds them.
ContextInv ==
    \A r \in Requests :
        /\ ctx[r] \in Scope[r] \union {NilLogger}
        /\ call[r] # NoCall => call[r].ctx \in Scope[r] \union {NilLogger}

\* A call under way is the latest of its request, on an adapter set up before;
\* past the selection its logger is the one the policy dictates.
CallInv ==
    \A r \in Requests :
        call[r] # NoCall =>
            /\ build[call[r].adapter].pc = "ready"
            /\ call[r].n = count[r]
            /\ call[r].n \in 1..MaxLogs
            /\ call[r].pc = "selected" =>
                  /\ adapter[call[r].adapter] \in BuiltLoggers
                  /\ call[r].chosen = Choose(adapter[call[r].adapter], call[r].ctx)

\* Offers already made are of earlier calls.
OfferInv ==
    \A e \in offered :
        /\ build[e.adapter].pc = "ready"
        /\ e.n <= count[e.req]
        /\ call[e.req] # NoCall => e.n < call[e.req].n

\* The inductive invariant.
IInv ==
    /\ TypeOK
    /\ ConstructionInv
    /\ ContextInv
    /\ CallInv
    /\ OfferInv
    /\ NoFallThrough
    /\ RequestIsolation

-----------------------------------------------------------------------------

\* An option keeps a configuration well formed, and can only bring in a logger
\* of its own.
LEMMA ApplyKeepsConfig ==
    ASSUME NEW opt \in Options, NEW cfg \in LoggerConfigs
    PROVE  /\ Apply(opt, cfg) \in LoggerConfigs
           /\ \/ Apply(opt, cfg).logger = cfg.logger
              \/ /\ opt.kind = "WithLogger"
                 /\ opt.logger # NilLogger
                 /\ Apply(opt, cfg).logger = opt.logger
<1>1. CASE opt.kind = "nil"
    BY <1>1 DEF Apply
<1>2. CASE opt.kind = "clearMapper"
    BY <1>2 DEF Apply, LoggerConfigs
<1>3. CASE opt.kind = "WithLogger"
    <2>1. opt.logger \in Loggers \union {NilLogger}
        BY <1>3 DEF Options
    <2> QED
        BY <1>3, <2>1 DEF Apply, LoggerConfigs, WithLogger
<1>4. CASE opt.kind = "WithLevelMapper"
    <2>1. opt.mapper \in Mappers \union {NilMapper}
        BY <1>4 DEF Options
    <2> QED
        BY <1>4, <2>1 DEF Apply, LoggerConfigs, WithLevelMapper
<1>5. CASE opt.kind = "WithLoggerPolicy"
    <2>1. opt.policy \in Policies
        BY <1>5 DEF Options
    <2> QED
        BY <1>5, <2>1 DEF Apply, LoggerConfigs, WithLoggerPolicy
<1> QED
    BY <1>1, <1>2, <1>3, <1>4, <1>5 DEF Options

\* The logger NewLogger captures is one it was built from, whatever case of
\* the switch is taken.
LEMMA BaseIsFoundation ==
    ASSUME NEW b \in BuildStates, b.cfg.logger \in {NilLogger} \union Foundation(b),
           NEW default \in Globals
    PROVE  /\ SelectBase(b.cfg, b.handler, default) \in Foundation(b)
           /\ SelectBase(b.cfg, b.handler, default) \in Loggers
<1>1. CASE b.cfg.logger # NilLogger
    BY <1>1 DEF SelectBase, BuildStates, LoggerConfigs
<1>2. CASE b.cfg.logger = NilLogger /\ b.handler # NilHandler
    BY <1>2, AdapterAssumption DEF SelectBase, BuildStates, Foundation
<1>3. CASE b.cfg.logger = NilLogger /\ b.handler = NilHandler
    BY <1>3, AdapterAssumption DEF SelectBase, BuildStates, Foundation
<1> QED
    BY <1>1, <1>2, <1>3

LEMMA InitEstablishes == Init => IInv
BY AdapterAssumption, NilAssumption, AbsenceAssumption
   DEF Init, IInv, TypeOK, ConstructionInv, ContextInv, CallInv, OfferInv,
       NoFallThrough, RequestIsolation, Unbuilt, InitialConfig, BuildStates,
       LoggerConfigs, Policies, Contexts, Events

-----------------------------------------------------------------------------
(* Construction steps *)

\* Construction steps of an adapter that is not ready leave calls and offers
\* as they are: those concern ready adapters only.
LEMMA ConstructionFrame ==
    ASSUME IInv, NEW a \in Adapters, build[a].pc # "ready", UNCHANGED callVars,
           NEW b \in BuildStates, build' = [build EXCEPT ![a] = b],
           \A x \in Adapters \ {a} : adapter'[x] = adapter[x]
    PROVE  ContextInv' /\ CallInv' /\ OfferInv' /\ NoFallThrough' /\ RequestIsolation'
<1>1. \A x \in Adapters \ {a} : build'[x] = build[x]
    BY DEF IInv, TypeOK
<1>2. \A r \in Requests : call[r] # NoCall => call[r].adapter \in Adapters \ {a}
    BY DEF IInv, TypeOK, CallInv, Calls
<1>3. \A e \in offered : e.adapter \in Adapters \ {a}
    BY DEF IInv, TypeOK, OfferInv, Events
<1>4. ContextInv'
    BY DEF IInv, ContextInv, callVars
<1>5. CallInv'
    BY <1>1, <1>2 DEF IInv, CallInv, callVars, Choose
<1>6. OfferInv'
    BY <1>1, <1>3 DEF IInv, OfferInv, callVars
<1>7. NoFallThrough'
    BY DEF IInv, NoFallThrough, callVars
<1>8. RequestIsolation'
    BY <1>1, <1>3 DEF IInv, RequestIsolation, callVars
<1> QED
    BY <1>4, <1>5, <1>6, <1>7, <1>8

\* Construction of one adapter touches what ConstructionInv says of that one.
LEMMA ConstructionOf ==
    ASSUME IInv, NEW a \in Adapters,
           NEW b, build' = [build EXCEPT ![a] = b],
           NEW l, adapter' = [adapter EXCEPT ![a] = l],
           b.pc # "ready" => l = NilAdapter,
           b.pc = "options" => b.cfg.logger \in {NilLogger} \union Foundation(b),
           l \in BuiltLoggers => l.log \in Foundation(b)
    PROVE  ConstructionInv'
<1> SUFFICES ASSUME NEW x \in Adapters
             PROVE  /\ build'[x].pc # "ready" => adapter'[x] = NilAdapter
                    /\ build'[x].pc = "options" =>
                          build'[x].cfg.logger \in {NilLogger} \union Foundation(build'[x])
                    /\ adapter'[x] \in BuiltLoggers =>
                          adapter'[x].log \in Foundation(build'[x])
    BY DEF ConstructionInv, Foundation, LoggerOptions, Given
<1>1. CASE x = a
    BY <1>1 DEF IInv, TypeOK
<1>2. CASE x # a
    BY <1>2 DEF IInv, TypeOK, ConstructionInv
<1> QED
    BY <1>1, <1>2

LEMMA CallNewLoggerStep ==
    ASSUME IInv, NEW a \in Adapters, CallNewLogger(a)
    PROVE  IInv'
<1>1. PICK handler \in Handlers \union {NilHandler}, opts \in OptionLists :
          build' = [build EXCEPT ![a] =
                       [pc |-> "options", handler |-> handler, opts |-> opts,
                        next |-> 1, cfg |-> InitialConfig]]
    BY DEF CallNewLogger
<1> DEFINE b == [pc |-> "options", handler |-> handler, opts |-> opts,
                 next |-> 1, cfg |-> InitialConfig]
<1>2. b \in BuildStates
    BY AdapterAssumption DEF BuildStates, InitialConfig, LoggerConfigs, Policies
<1>3. TypeOK'
    BY <1>1, <1>2 DEF IInv, TypeOK, CallNewLogger, callVars
<1>4. /\ build[a].pc = "unbuilt" /\ UNCHANGED callVars
      /\ adapter[a] = NilAdapter /\ adapter' = [adapter EXCEPT ![a] = NilAdapter]
    BY DEF CallNewLogger, IInv, TypeOK, ConstructionInv
<1>5. b.cfg.logger = NilLogger /\ b.pc = "options"
    BY DEF InitialConfig
<1>6. NilAdapter \notin BuiltLoggers
    BY AbsenceAssumption
<1> HIDE DEF b
<1>7. ConstructionInv'
    BY <1>1, <1>4, <1>5, <1>6, ConstructionOf DEF b
<1>8. \A x \in Adapters \ {a} : adapter'[x] = adapter[x]
    BY <1>4 DEF IInv, TypeOK
<1>9. ContextInv' /\ CallInv' /\ OfferInv' /\ NoFallThrough' /\ RequestIsolation'
    BY <1>1, <1>2, <1>4, <1>8, ConstructionFrame DEF b
<1> QED
    BY <1>3, <1>7, <1>9 DEF IInv

LEMMA ApplyOptionStep ==
    ASSUME IInv, NEW a \in Adapters, ApplyOption(a)
    PROVE  IInv'
<1> DEFINE b == build[a]
           opt == b.opts[b.next]
           cfg == Apply(opt, b.cfg)
           c == [b EXCEPT !.cfg = cfg, !.next = b.next + 1]
<1>1. b \in BuildStates /\ b.pc = "options" /\ b.next \in 1..Len(b.opts)
    BY DEF IInv, TypeOK, ApplyOption, BuildStates
<1>2. /\ build' = [build EXCEPT ![a] = c] /\ adapter' = adapter
      /\ UNCHANGED callVars /\ slogDefault' = slogDefault
    BY DEF ApplyOption
<1>3. opt \in Options /\ b.cfg \in LoggerConfigs
    BY <1>1 DEF BuildStates
<1>4. cfg \in LoggerConfigs
    BY <1>3, ApplyKeepsConfig
<1>5. c = [pc |-> "options", handler |-> b.handler, opts |-> b.opts,
           next |-> b.next + 1, cfg |-> cfg]
    <2> HIDE DEF cfg, b
    <2> DEFINE d == [b EXCEPT !.cfg = cfg]
               e == [d EXCEPT !.next = b.next + 1]
    <2>1. d = [pc |-> "options", handler |-> b.handler, opts |-> b.opts,
               next |-> b.next, cfg |-> cfg]
        BY <1>1 DEF BuildStates
    <2> HIDE DEF d
    <2>2. e = [pc |-> "options", handler |-> b.handler, opts |-> b.opts,
               next |-> b.next + 1, cfg |-> cfg]
        BY <2>1
    <2> QED
        BY <2>2 DEF d
<1>6. c \in BuildStates
    <2> HIDE DEF cfg
    <2> QED
        BY <1>1, <1>4, <1>5 DEF BuildStates
<1>7. Foundation(c) = Foundation(b)
    BY <1>5 DEF Foundation
<1>8. opt.kind = "WithLogger" /\ opt.logger # NilLogger => opt.logger \in Foundation(b)
    BY <1>1 DEF Foundation, LoggerOptions, Given, BuildStates
<1>9. b.cfg.logger \in {NilLogger} \union Foundation(b)
    BY <1>1 DEF IInv, ConstructionInv
<1>10. c.cfg.logger \in {NilLogger} \union Foundation(c)
    <2>1. \/ cfg.logger = b.cfg.logger
          \/ opt.kind = "WithLogger" /\ opt.logger # NilLogger /\ cfg.logger = opt.logger
        BY <1>3, ApplyKeepsConfig
    <2> HIDE DEF opt, cfg
    <2> QED
        BY <2>1, <1>5, <1>7, <1>8, <1>9
<1>11. /\ adapter[a] = NilAdapter /\ NilAdapter \notin BuiltLoggers
       /\ adapter' = [adapter EXCEPT ![a] = NilAdapter]
    BY <1>1, <1>2, AbsenceAssumption DEF IInv, TypeOK, ConstructionInv
<1>12. c.pc = "options"
    BY <1>5
<1> HIDE DEF c
<1>13. TypeOK'
    BY <1>2, <1>6 DEF IInv, TypeOK, callVars
<1>14. ConstructionInv'
    BY <1>2, <1>10, <1>11, <1>12, ConstructionOf
<1>15. ContextInv' /\ CallInv' /\ OfferInv' /\ NoFallThrough' /\ RequestIsolation'
    BY <1>1, <1>2, <1>6, ConstructionFrame
<1> QED
    BY <1>13, <1>14, <1>15 DEF IInv

LEMMA ReturnLoggerStep ==
    ASSUME IInv, NEW a \in Adapters, ReturnLogger(a)
    PROVE  IInv'
<1> DEFINE b == build[a]
           c == [b EXCEPT !.pc = "ready"]
           l == [log |-> SelectBase(b.cfg, b.handler, slogDefault),
                 mapLevel |-> SelectMapper(b.cfg),
                 policy |-> b.cfg.policy]
<1>1. b \in BuildStates /\ b.pc = "options"
    BY DEF IInv, TypeOK, ReturnLogger
<1>2. build' = [build EXCEPT ![a] = c] /\ adapter' = [adapter EXCEPT ![a] = l]
      /\ UNCHANGED callVars /\ slogDefault' = slogDefault
    BY DEF ReturnLogger
<1>3. /\ c.pc = "ready" /\ c.handler = b.handler /\ c.opts = b.opts /\ c \in BuildStates
    BY <1>1 DEF BuildStates
<1>4. Foundation(c) = Foundation(b)
    BY <1>3 DEF Foundation
<1>5. b.cfg.logger \in {NilLogger} \union Foundation(b) /\ slogDefault \in Globals
    BY <1>1 DEF IInv, TypeOK, ConstructionInv
<1>6. l.log \in Foundation(c) /\ l.log \in Loggers
    BY <1>1, <1>4, <1>5, BaseIsFoundation
<1>7. SelectMapper(b.cfg) \in Mappers /\ b.cfg.policy \in Policies
    BY <1>1, AdapterAssumption DEF SelectMapper, BuildStates, LoggerConfigs
<1>8. l \in BuiltLoggers
    BY <1>6, <1>7 DEF BuiltLoggers
<1> HIDE DEF c, l
<1>9. TypeOK'
    BY <1>2, <1>3, <1>8 DEF IInv, TypeOK, callVars
<1>10. ConstructionInv'
    BY <1>2, <1>3, <1>6, ConstructionOf
<1>11. \A x \in Adapters \ {a} : adapter'[x] = adapter[x]
    BY <1>2 DEF IInv, TypeOK
<1>12. ContextInv' /\ CallInv' /\ OfferInv' /\ NoFallThrough' /\ RequestIsolation'
    BY <1>1, <1>2, <1>3, <1>11, ConstructionFrame
<1> QED
    BY <1>9, <1>10, <1>12 DEF IInv

LEMMA DeclareOnlyStep ==
    ASSUME IInv, NEW a \in Adapters, DeclareOnly(a)
    PROVE  IInv'
<1> DEFINE c == [build[a] EXCEPT !.pc = "ready"]
<1>1. PICK value \in {NilAdapter, ZeroLogger} :
          adapter' = [adapter EXCEPT ![a] = value]
    BY DEF DeclareOnly
<1>2. build' = [build EXCEPT ![a] = c] /\ build[a].pc = "unbuilt"
      /\ UNCHANGED callVars /\ slogDefault' = slogDefault
    BY DEF DeclareOnly
<1>3. build[a] \in BuildStates /\ c \in BuildStates /\ c.pc = "ready"
    BY DEF IInv, TypeOK, BuildStates
<1>4. value \notin BuiltLoggers
    BY NilAssumption, AbsenceAssumption DEF ZeroLogger, BuiltLoggers
<1> HIDE DEF c
<1>5. TypeOK'
    BY <1>1, <1>2, <1>3 DEF IInv, TypeOK, callVars
<1>6. ConstructionInv'
    BY <1>1, <1>2, <1>3, <1>4, ConstructionOf
<1>7. \A x \in Adapters \ {a} : adapter'[x] = adapter[x]
    BY <1>1 DEF IInv, TypeOK
<1>8. ContextInv' /\ CallInv' /\ OfferInv' /\ NoFallThrough' /\ RequestIsolation'
    BY <1>2, <1>3, <1>7, ConstructionFrame
<1> QED
    BY <1>5, <1>6, <1>8 DEF IInv

LEMMA SetDefaultStep ==
    ASSUME IInv, NEW logger \in Globals, SetDefault(logger)
    PROVE  IInv'
<1>1. UNCHANGED <<build, adapter, ctx, call, count, offered>> /\ slogDefault' \in Globals
    BY DEF SetDefault, callVars
<1> QED
    BY <1>1 DEF IInv, TypeOK, ConstructionInv, ContextInv, CallInv, OfferInv,
                NoFallThrough, RequestIsolation, Foundation, LoggerOptions, Given, Choose

-----------------------------------------------------------------------------
(* Logging steps *)

\* Logging steps leave every adapter and its construction alone.
LEMMA LoggingFrame ==
    ASSUME IInv, UNCHANGED buildVars
    PROVE  /\ ConstructionInv'
           /\ \A b \in Adapters : Foundation(build[b])' = Foundation(build[b])
BY DEF IInv, ConstructionInv, buildVars, Foundation, LoggerOptions, Given

LEMMA DeriveContextStep ==
    ASSUME IInv, NEW r \in Requests, DeriveContext(r)
    PROVE  IInv'
<1>1. UNCHANGED buildVars /\ UNCHANGED <<build, adapter, slogDefault, call, count, offered>>
    BY DEF DeriveContext, buildVars
<1>2. PICK logger \in Scope[r] \union {NilLogger} :
          ctx' = [ctx EXCEPT ![r] = ContextWithLogger(ctx[r], logger)]
    BY DEF DeriveContext
<1>3. ContextWithLogger(ctx[r], logger) \in Scope[r] \union {NilLogger}
    BY DEF ContextWithLogger, IInv, ContextInv
<1>4. Scope[r] \subseteq Loggers
    BY AdapterAssumption
<1>5. TypeOK'
    BY <1>1, <1>2, <1>3, <1>4 DEF IInv, TypeOK, Contexts
<1>6. ContextInv'
    BY <1>1, <1>2, <1>3 DEF IInv, TypeOK, ContextInv
<1>7. CallInv' /\ OfferInv' /\ NoFallThrough'
    BY <1>1 DEF IInv, CallInv, OfferInv, NoFallThrough, Choose
<1>8. ConstructionInv' /\ RequestIsolation'
    BY <1>1, LoggingFrame DEF IInv, TypeOK, Events, RequestIsolation
<1> QED
    BY <1>5, <1>6, <1>7, <1>8 DEF IInv

LEMMA EnterLogStep ==
    ASSUME IInv, NEW r \in Requests, EnterLog(r)
    PROVE  IInv'
<1>1. PICK a \in Adapters, level \in Levels :
          /\ build[a].pc = "ready"
          /\ call' = [call EXCEPT ![r] =
                         [pc |-> "entered", n |-> count[r] + 1, adapter |-> a,
                          ctx |-> ctx[r], level |-> level, chosen |-> NilLogger]]
    BY DEF EnterLog
<1>2. /\ UNCHANGED buildVars /\ UNCHANGED <<build, adapter, slogDefault, ctx, offered>>
      /\ count' = [count EXCEPT ![r] = @ + 1] /\ count[r] < MaxLogs
      /\ call[r] = NoCall
    BY DEF EnterLog, buildVars
<1> DEFINE new == [pc |-> "entered", n |-> count[r] + 1, adapter |-> a,
                   ctx |-> ctx[r], level |-> level, chosen |-> NilLogger]
<1>3. count[r] \in Nat /\ ctx[r] \in Contexts
    BY DEF IInv, TypeOK
<1>4. new \in Calls
    BY <1>3 DEF Calls, Contexts
<1>5. count[r] + 1 \in 1..MaxLogs
    BY <1>2, <1>3, AdapterAssumption
<1>6. TypeOK'
    BY <1>1, <1>2, <1>3, <1>4 DEF IInv, TypeOK
<1>7. ContextInv'
    BY <1>1, <1>2 DEF IInv, TypeOK, ContextInv
<1>8. CallInv'
    BY <1>1, <1>2, <1>5 DEF IInv, TypeOK, CallInv, Choose
<1>9. OfferInv'
    BY <1>1, <1>2, <1>3 DEF IInv, TypeOK, OfferInv, Events
<1>10. NoFallThrough'
    BY <1>2 DEF IInv, NoFallThrough
<1>11. ConstructionInv' /\ RequestIsolation'
    BY <1>2, LoggingFrame DEF IInv, TypeOK, Events, RequestIsolation
<1> QED
    BY <1>6, <1>7, <1>8, <1>9, <1>10, <1>11 DEF IInv

LEMMA ReturnSilentlyStep ==
    ASSUME IInv, NEW r \in Requests, ReturnSilently(r)
    PROVE  IInv'
<1>1. /\ UNCHANGED buildVars /\ UNCHANGED <<build, adapter, slogDefault, ctx, count, offered>>
      /\ call' = [call EXCEPT ![r] = NoCall]
    BY DEF ReturnSilently, buildVars
<1>2. TypeOK'
    BY <1>1 DEF IInv, TypeOK
<1>3. ContextInv' /\ CallInv' /\ OfferInv' /\ NoFallThrough'
    BY <1>1 DEF IInv, TypeOK, ContextInv, CallInv, OfferInv, NoFallThrough, Choose
<1>4. ConstructionInv' /\ RequestIsolation'
    BY <1>1, LoggingFrame DEF IInv, TypeOK, Events, RequestIsolation
<1> QED
    BY <1>2, <1>3, <1>4 DEF IInv

\* Past the nil check, the adapter is one that NewLogger built.
LEMMA NotSilentIsBuilt ==
    ASSUME IInv, NEW a \in Adapters, ~IsSilent(a)
    PROVE  adapter[a] \in BuiltLoggers
BY DEF IInv, TypeOK, IsSilent, ZeroLogger

\* The policy's choice is a logger, of the request or of the adapter.
LEMMA ChoiceIsScoped ==
    ASSUME IInv, NEW r \in Requests, NEW a \in Adapters,
           NEW c \in Scope[r] \union {NilLogger}, adapter[a] \in BuiltLoggers
    PROVE  /\ Choose(adapter[a], c) \in Loggers
           /\ Choose(adapter[a], c) \in Scope[r] \union Foundation(build[a])
<1>1. adapter[a].log \in Foundation(build[a]) /\ adapter[a].log \in Loggers
    BY DEF IInv, ConstructionInv, BuiltLoggers
<1>2. Scope[r] \subseteq Loggers
    BY AdapterAssumption
<1> QED
    BY <1>1, <1>2 DEF Choose

LEMMA SelectLoggerStep ==
    ASSUME IInv, NEW r \in Requests, SelectLogger(r)
    PROVE  IInv'
<1> DEFINE c == call[r]
           chosen == Choose(adapter[c.adapter], c.ctx)
           new == [c EXCEPT !.pc = "selected", !.chosen = chosen]
<1>1. c \in Calls /\ ~IsSilent(c.adapter) /\ c.ctx \in Scope[r] \union {NilLogger}
    BY DEF SelectLogger, IInv, TypeOK, ContextInv
<1>2. c.adapter \in Adapters /\ adapter[c.adapter] \in BuiltLoggers
    BY <1>1, NotSilentIsBuilt DEF Calls
<1>3. chosen \in Loggers
    BY <1>1, <1>2, ChoiceIsScoped
<1>4. new \in Calls /\ new.pc = "selected" /\ new.chosen = chosen /\ new.n = c.n
      /\ new.adapter = c.adapter /\ new.ctx = c.ctx
    <2> HIDE DEF chosen
    <2> QED
        BY <1>1, <1>3 DEF Calls, Contexts
<1>5. /\ UNCHANGED buildVars /\ UNCHANGED <<build, adapter, slogDefault, ctx, count, offered>>
      /\ call' = [call EXCEPT ![r] = new] /\ call[r] # NoCall
    BY DEF SelectLogger, buildVars
<1> HIDE DEF new
<1>6. TypeOK'
    BY <1>4, <1>5 DEF IInv, TypeOK
<1>7. ContextInv'
    BY <1>4, <1>5 DEF IInv, TypeOK, ContextInv
<1>8. CallInv'
    BY <1>2, <1>4, <1>5 DEF IInv, TypeOK, CallInv, Choose
<1>9. OfferInv' /\ NoFallThrough'
    BY <1>4, <1>5 DEF IInv, TypeOK, OfferInv, NoFallThrough
<1>10. ConstructionInv' /\ RequestIsolation'
    BY <1>5, LoggingFrame DEF IInv, TypeOK, Events, RequestIsolation
<1> QED
    BY <1>6, <1>7, <1>8, <1>9, <1>10 DEF IInv

\* What Emit offers: the event of the call, on the logger its policy chose,
\* with the severity its adapter's mapper gives.
LEMMA OfferedFacts ==
    ASSUME IInv, NEW r \in Requests, call[r] # NoCall, call[r].pc = "selected",
           NEW outcome \in {"filtered", "handled", "failed"}
    PROVE  /\ call[r] \in Calls
           /\ adapter[call[r].adapter] \in BuiltLoggers
           /\ Offered(r, outcome) \in Events
           /\ Offered(r, outcome).logger = Choose(adapter[call[r].adapter], call[r].ctx)
           /\ Offered(r, outcome).logger \in
                 Scope[r] \union Foundation(build[call[r].adapter])
<1>1. /\ call[r] \in Calls /\ adapter[call[r].adapter] \in BuiltLoggers
      /\ call[r].chosen = Choose(adapter[call[r].adapter], call[r].ctx)
      /\ call[r].ctx \in Scope[r] \union {NilLogger}
    BY DEF IInv, TypeOK, CallInv, ContextInv
<1>2. call[r].adapter \in Adapters /\ call[r].level \in Levels
    BY <1>1 DEF Calls
<1>3. /\ call[r].chosen \in Loggers
      /\ call[r].chosen \in Scope[r] \union Foundation(build[call[r].adapter])
    BY <1>1, <1>2, ChoiceIsScoped
<1>4. MapLevel[adapter[call[r].adapter].mapLevel][call[r].level] \in Int
    BY <1>1, <1>2, AdapterAssumption DEF BuiltLoggers
<1> QED
    BY <1>1, <1>2, <1>3, <1>4 DEF Offered, Events, Calls

LEMMA EmitStep ==
    ASSUME IInv, NEW r \in Requests, Emit(r)
    PROVE  IInv'
<1>1. PICK outcome \in {"filtered", "handled", "failed"} :
          offered' = offered \union {Offered(r, outcome)}
    BY DEF Emit, Outcomes
<1>2. /\ UNCHANGED buildVars /\ UNCHANGED <<build, adapter, slogDefault, ctx, count>>
      /\ call' = [call EXCEPT ![r] = NoCall]
      /\ call[r] # NoCall /\ call[r].pc = "selected"
    BY DEF Emit, buildVars
<1> DEFINE e == Offered(r, outcome)
<1>3. /\ e \in Events
      /\ e.logger \in Scope[r] \union Foundation(build[call[r].adapter])
    BY <1>2, OfferedFacts
<1>4. e.req = r /\ e.n = call[r].n /\ e.adapter = call[r].adapter
    BY DEF Offered
<1> HIDE DEF e
<1>5. TypeOK'
    BY <1>1, <1>2, <1>3 DEF IInv, TypeOK, e
<1>6. ContextInv' /\ CallInv'
    BY <1>2 DEF IInv, TypeOK, ContextInv, CallInv, Choose
<1>7. OfferInv'
    <2> SUFFICES ASSUME NEW f \in offered'
                 PROVE  /\ build'[f.adapter].pc = "ready"
                        /\ f.n <= count'[f.req]
                        /\ call'[f.req] # NoCall => f.n < call'[f.req].n
        BY DEF OfferInv
    <2>1. CASE f \in offered
        BY <2>1, <1>2 DEF IInv, TypeOK, OfferInv, Events
    <2>2. CASE f = e
        BY <2>2, <1>2, <1>3, <1>4 DEF IInv, TypeOK, CallInv
    <2> QED
        BY <2>1, <2>2, <1>1 DEF e
<1>8. NoFallThrough'
    <2>1. \A f \in offered : f.req = r => f.n < e.n
        BY <1>2, <1>4 DEF IInv, OfferInv
    <2>2. e.n \in Int /\ \A f \in offered : f.n \in Int
        BY <1>3 DEF IInv, TypeOK, Events
    <2>3. \A f \in offered : ~(f.req = e.req /\ f.n = e.n)
        BY <2>1, <2>2, <1>4
    <2> QED
        BY <2>3, <1>1 DEF IInv, NoFallThrough, e
<1>9. ConstructionInv'
    BY <1>2, LoggingFrame
<1>10. RequestIsolation'
    <2> SUFFICES ASSUME NEW f \in offered'
                 PROVE  f.logger \in Scope[f.req] \union Foundation(build[f.adapter])'
        BY DEF RequestIsolation
    <2>1. f \in Events
        BY <1>1, <1>3 DEF IInv, TypeOK, e
    <2>2. f.logger \in Scope[f.req] \union Foundation(build[f.adapter])
        BY <1>1, <1>3, <1>4 DEF IInv, RequestIsolation, e
    <2> QED
        BY <2>1, <2>2, <1>2, LoggingFrame DEF Events
<1> QED
    BY <1>5, <1>6, <1>7, <1>8, <1>9, <1>10 DEF IInv

-----------------------------------------------------------------------------

\* The inductive invariant holds of every reachable state.
THEOREM Invariance == Spec => []IInv
<1>1. Init => IInv
    BY InitEstablishes
<1>2. IInv /\ [Next]_vars => IInv'
    <2> SUFFICES ASSUME IInv, [Next]_vars PROVE IInv'
        OBVIOUS
    <2>1. ASSUME NEW a \in Adapters, CallNewLogger(a) PROVE IInv'
        BY <2>1, CallNewLoggerStep
    <2>2. ASSUME NEW a \in Adapters, ApplyOption(a) PROVE IInv'
        BY <2>2, ApplyOptionStep
    <2>3. ASSUME NEW a \in Adapters, ReturnLogger(a) PROVE IInv'
        BY <2>3, ReturnLoggerStep
    <2>4. ASSUME NEW a \in Adapters, DeclareOnly(a) PROVE IInv'
        BY <2>4, DeclareOnlyStep
    <2>5. ASSUME NEW logger \in Globals, SetDefault(logger) PROVE IInv'
        BY <2>5, SetDefaultStep
    <2>6. ASSUME NEW r \in Requests, DeriveContext(r) PROVE IInv'
        BY <2>6, DeriveContextStep
    <2>7. ASSUME NEW r \in Requests, EnterLog(r) PROVE IInv'
        BY <2>7, EnterLogStep
    <2>8. ASSUME NEW r \in Requests, ReturnSilently(r) PROVE IInv'
        BY <2>8, ReturnSilentlyStep
    <2>9. ASSUME NEW r \in Requests, SelectLogger(r) PROVE IInv'
        BY <2>9, SelectLoggerStep
    <2>10. ASSUME NEW r \in Requests, Emit(r) PROVE IInv'
        BY <2>10, EmitStep
    <2>11. CASE UNCHANGED vars
        BY <2>11 DEF vars, IInv, TypeOK, ConstructionInv, ContextInv, CallInv, OfferInv,
              NoFallThrough, RequestIsolation, Foundation, LoggerOptions, Given, Choose
    <2> QED
        BY <2>1, <2>2, <2>3, <2>4, <2>5, <2>6, <2>7, <2>8, <2>9, <2>10, <2>11 DEF Next
<1> QED
    BY <1>1, <1>2, PTL DEF Spec

\* Adapters, calls and offered events are always well formed.
THEOREM TypeCorrect == Spec => []TypeOK
<1>1. IInv => TypeOK
    BY DEF IInv
<1> QED
    BY <1>1, Invariance, PTL

\* No request's event ever reaches another request's logger through a shared
\* adapter, for any number of requests and any interleaving of their calls.
THEOREM RequestsIsolated == Spec => []RequestIsolation
<1>1. IInv => RequestIsolation
    BY DEF IInv
<1> QED
    BY <1>1, Invariance, PTL

\* The logger selected for an event is final.
THEOREM SelectionIsFinal == Spec => []NoFallThrough
<1>1. IInv => NoFallThrough
    BY DEF IInv
<1> QED
    BY <1>1, Invariance, PTL

\* Log never calls through a nil logger or a nil mapper.
THEOREM NilSafe == Spec => []NeverCallsNil
<1>1. IInv => NeverCallsNil
    <2> SUFFICES ASSUME IInv, NEW r \in Requests, call[r] # NoCall, call[r].pc = "selected"
                 PROVE  /\ call[r].chosen # NilLogger
                        /\ adapter[call[r].adapter].mapLevel # NilMapper
        BY DEF NeverCallsNil
    <2>1. adapter[call[r].adapter] \in BuiltLoggers
          /\ call[r].chosen = Choose(adapter[call[r].adapter], call[r].ctx)
        BY DEF IInv, CallInv
    <2> QED
        BY <2>1, NilAssumption DEF Choose, BuiltLoggers
<1> QED
    BY <1>1, Invariance, PTL

-----------------------------------------------------------------------------
(* Adapter implements EventRouting *)

LEMMA RoutingInit == Init => Routing!Init
BY DEF Init, Routing!Init, Configured, Unbuilt

\* What an adapter becomes when its construction ends is a configuration.
LEMMA ConfiguredStep ==
    ASSUME IInv, NEW a \in Adapters, build[a].pc # "ready", UNCHANGED offered,
           build' = [build EXCEPT ![a].pc = "ready"],
           NEW l \in BuiltLoggers \union {ZeroLogger, NilAdapter},
           adapter' = [adapter EXCEPT ![a] = l]
    PROVE  Routing!Configure(a)
<1> DEFINE c == IF l = NilAdapter THEN ZeroLogger ELSE l
<1>1. c \in Routing!Configs
    BY DEF Routing!Configs, BuiltLoggers, ZeroLogger, Policies
<1>2. Configured[a] = Unconfigured
    BY DEF Configured
<1>3. Configured' = [Configured EXCEPT ![a] = c]
    BY DEF Configured, IInv, TypeOK, BuildStates
<1> QED
    BY <1>1, <1>2, <1>3 DEF Routing!Configure

\* Every step of Adapter is a step of EventRouting or leaves its view alone.
LEMMA RoutingStep ==
    ASSUME IInv, [Next]_vars
    PROVE  [Routing!Next]_<<Configured, offered>>
<1>1. ASSUME NEW a \in Adapters, CallNewLogger(a) PROVE UNCHANGED <<Configured, offered>>
    BY <1>1 DEF CallNewLogger, Configured, callVars, IInv, TypeOK
<1>2. ASSUME NEW a \in Adapters, ApplyOption(a) PROVE UNCHANGED <<Configured, offered>>
    <2>1. build'[a].pc = "options" /\ \A x \in Adapters \ {a} : build'[x] = build[x]
        BY <1>2 DEF ApplyOption, IInv, TypeOK, BuildStates
    <2> QED
        BY <2>1, <1>2 DEF ApplyOption, Configured, callVars
<1>3. ASSUME NEW a \in Adapters, ReturnLogger(a) PROVE Routing!Configure(a)
    <2> DEFINE l == [log |-> SelectBase(build[a].cfg, build[a].handler, slogDefault),
                     mapLevel |-> SelectMapper(build[a].cfg),
                     policy |-> build[a].cfg.policy]
    <2>1. IInv'
        BY <1>3, ReturnLoggerStep
    <2>2. adapter' = [adapter EXCEPT ![a] = l]
          /\ build' = [build EXCEPT ![a].pc = "ready"]
          /\ build[a].pc # "ready" /\ UNCHANGED offered
        BY <1>3 DEF ReturnLogger, callVars
    <2> HIDE DEF l
    <2>3. l \in BuiltLoggers \union {ZeroLogger, NilAdapter}
        BY <2>1, <2>2 DEF IInv, TypeOK
    <2> QED
        BY <2>2, <2>3, ConfiguredStep
<1>4. ASSUME NEW a \in Adapters, DeclareOnly(a) PROVE Routing!Configure(a)
    BY <1>4, ConfiguredStep DEF DeclareOnly, callVars
<1>5. ASSUME NEW logger \in Globals, SetDefault(logger)
      PROVE  UNCHANGED <<Configured, offered>>
    BY <1>5 DEF SetDefault, Configured, callVars
<1>6. ASSUME NEW r \in Requests,
             DeriveContext(r) \/ EnterLog(r) \/ ReturnSilently(r) \/ SelectLogger(r)
      PROVE  UNCHANGED <<Configured, offered>>
    BY <1>6 DEF DeriveContext, EnterLog, ReturnSilently, SelectLogger, buildVars, Configured
<1>7. ASSUME NEW r \in Requests, Emit(r) PROVE Routing!Next
    <2> DEFINE c == call[r]
    <2>1. c # NoCall /\ c.pc = "selected" /\ UNCHANGED Configured
        BY <1>7 DEF Emit, buildVars, Configured
    <2>2. PICK outcome \in Outcomes(c.chosen, Offered(r, "handled").severity) :
              offered' = offered \union {Offered(r, outcome)}
        BY <1>7 DEF Emit
    <2>3. outcome \in {"filtered", "handled", "failed"}
        BY <2>2 DEF Outcomes
    <2>4. /\ c \in Calls /\ c.n \in 1..MaxLogs /\ c.adapter \in Adapters
          /\ c.ctx \in Loggers \union {NilLogger} /\ c.level \in Levels
          /\ adapter[c.adapter] \in BuiltLoggers
          /\ c.chosen = Choose(adapter[c.adapter], c.ctx)
          /\ build[c.adapter].pc = "ready"
        BY <2>1, <2>3, OfferedFacts DEF IInv, CallInv, Calls, Contexts
    <2>5. Configured[c.adapter] = adapter[c.adapter]
        BY <2>4, AbsenceAssumption DEF Configured
    <2>6. c.chosen = Routing!LoggerFor(Configured[c.adapter], c.ctx)
        BY <2>4, <2>5 DEF Routing!LoggerFor, Choose
    <2>7. Routing!Offer(r, c.n, c.adapter, c.ctx, c.level, outcome)
        <3>1. \A e \in offered : e.req = r => e.n # c.n
            BY <2>1 DEF IInv, TypeOK, OfferInv, Events
        <3>2. Configured[c.adapter] # Unconfigured /\ Configured[c.adapter].log # NilLogger
            BY <2>4, <2>5, AbsenceAssumption, NilAssumption DEF BuiltLoggers
        <3>3. outcome = "filtered" <=>
                 MapLevel[Configured[c.adapter].mapLevel][c.level] < MinLevel[c.chosen]
            BY <2>2, <2>5 DEF Outcomes, Offered
        <3>4. offered' = offered \union
                 {[req |-> r, n |-> c.n, adapter |-> c.adapter, ctx |-> c.ctx,
                   level |-> c.level, logger |-> c.chosen,
                   severity |-> MapLevel[Configured[c.adapter].mapLevel][c.level],
                   outcome |-> outcome]}
            BY <2>2, <2>5 DEF Offered
        <3> QED
            BY <2>1, <2>6, <3>1, <3>2, <3>3, <3>4 DEF Routing!Offer
    <2> QED
        BY <2>3, <2>4, <2>7 DEF Routing!Next
<1>8. CASE UNCHANGED vars
    BY <1>8 DEF vars, Configured
<1> QED
    BY <1>1, <1>2, <1>3, <1>4, <1>5, <1>6, <1>7, <1>8 DEF Next, Routing!Next

\* Adapters implement EventRouting for every number of requests: each event is
\* routed as if Log were atomic, by a configuration that is written only once.
THEOREM Refinement == Spec => ImplementsRouting
<1>1. Init => Routing!Init
    BY RoutingInit
<1>2. IInv /\ [Next]_vars => [Routing!Next]_<<Configured, offered>>
    BY RoutingStep
<1> QED
    BY <1>1, <1>2, Invariance, PTL DEF Spec, ImplementsRouting, Routing!Spec

-----------------------------------------------------------------------------
(* The precedence of the options *)

\* Of the options ks before the n-th, none, and the last is k.
NoneBefore(ks, n) == \A k \in ks : k >= n
LastBefore(ks, n, k) == k \in ks /\ k < n /\ \A j \in ks : j < n => j <= k

\* What the configuration has after the options before b.next.
LoggerSoFar(b) ==
    \/ NoneBefore(LoggerOptions(b.opts), b.next) /\ b.cfg.logger = NilLogger
    \/ \E k \in 1..Len(b.opts) :
          /\ LastBefore(LoggerOptions(b.opts), b.next, k)
          /\ b.cfg.logger = b.opts[k].logger

MapperGiven(opt) == IF opt.kind = "clearMapper" THEN NilMapper ELSE opt.mapper
MapperSoFar(b) ==
    \/ NoneBefore(MapperOptions(b.opts), b.next) /\ b.cfg.levelMapper = DefaultMapper
    \/ \E k \in 1..Len(b.opts) :
          /\ LastBefore(MapperOptions(b.opts), b.next, k)
          /\ b.cfg.levelMapper = MapperGiven(b.opts[k])

PolicySoFar(b) ==
    \/ NoneBefore(PolicyOptions(b.opts), b.next) /\ b.cfg.policy = "Fixed"
    \/ \E k \in 1..Len(b.opts) :
          /\ LastBefore(PolicyOptions(b.opts), b.next, k)
          /\ b.cfg.policy = b.opts[k].policy

\* OptionPrecedence of one adapter that NewLogger has returned.
Precedence(b, l) ==
    LET loggers == LoggerOptions(b.opts)
        mappers == MapperOptions(b.opts)
        policies == PolicyOptions(b.opts)
        mapper == b.opts[LastOf(mappers)]
    IN  /\ loggers # {} => l.log = b.opts[LastOf(loggers)].logger
        /\ loggers = {} /\ b.handler # NilHandler => l.log = SlogNew[b.handler]
        /\ loggers = {} /\ b.handler = NilHandler => l.log \in Globals
        /\ l.mapLevel = IF mappers = {} \/ mapper.kind = "clearMapper"
                        THEN DefaultMapper ELSE mapper.mapper
        /\ l.policy = IF policies = {} THEN "Fixed"
                      ELSE b.opts[LastOf(policies)].policy

PrecedenceInv ==
    \A a \in Adapters :
        /\ build[a].pc = "options" =>
              LoggerSoFar(build[a]) /\ MapperSoFar(build[a]) /\ PolicySoFar(build[a])
        /\ (build[a].pc = "ready" /\ adapter[a] # NilAdapter /\ adapter[a] # ZeroLogger) =>
              Precedence(build[a], adapter[a])

\* The last of the options before the end is the last of all.
LEMMA LastIsLast ==
    ASSUME NEW len \in Nat, NEW ks \in SUBSET (1..len), NEW n \in Nat, n > len
    PROVE  /\ NoneBefore(ks, n) => ks = {}
           /\ \A k : LastBefore(ks, n, k) => ks # {} /\ LastOf(ks) = k /\ k \in ks
<1>1. \A k \in ks : k \in Int /\ k < n
    OBVIOUS
<1>2. NoneBefore(ks, n) => ks = {}
    BY <1>1 DEF NoneBefore
<1>3. ASSUME NEW k, LastBefore(ks, n, k) PROVE ks # {} /\ LastOf(ks) = k /\ k \in ks
    <2>1. k \in ks /\ \A j \in ks : j <= k
        BY <1>1, <1>3 DEF LastBefore
    <2>2. \A m \in ks : (\A j \in ks : j <= m) => m = k
        BY <1>1, <2>1
    <2> QED
        BY <2>1, <2>2 DEF LastOf
<1> QED
    BY <1>2, <1>3

\* How one more option moves the last.
LEMMA OneMore ==
    ASSUME NEW ks \in SUBSET Nat, NEW n \in Nat
    PROVE  /\ n \in ks => LastBefore(ks, n + 1, n)
           /\ n \notin ks /\ NoneBefore(ks, n) => NoneBefore(ks, n + 1)
           /\ \A k : n \notin ks /\ LastBefore(ks, n, k) => LastBefore(ks, n + 1, k)
<1>1. n \in ks => LastBefore(ks, n + 1, n)
    BY DEF LastBefore
<1>2. n \notin ks => \A k \in ks : k < n + 1 => k < n
    OBVIOUS
<1>3. n \notin ks /\ NoneBefore(ks, n) => NoneBefore(ks, n + 1)
    BY <1>2 DEF NoneBefore
<1>4. \A k : n \notin ks /\ LastBefore(ks, n, k) => LastBefore(ks, n + 1, k)
    BY <1>2 DEF LastBefore
<1> QED
    BY <1>1, <1>3, <1>4

\* An option that counts sets its part of the configuration, any other leaves it.
LEMMA ApplyEffect ==
    ASSUME NEW opt \in Options, NEW cfg \in LoggerConfigs
    PROVE  /\ Apply(opt, cfg).logger =
                  IF opt.kind = "WithLogger" /\ opt.logger # NilLogger
                  THEN opt.logger ELSE cfg.logger
           /\ Apply(opt, cfg).levelMapper =
                  IF opt.kind = "clearMapper" THEN NilMapper
                  ELSE IF opt.kind = "WithLevelMapper" /\ opt.mapper # NilMapper
                  THEN opt.mapper ELSE cfg.levelMapper
           /\ Apply(opt, cfg).policy =
                  IF opt.kind = "WithLoggerPolicy" THEN opt.policy ELSE cfg.policy
<1> USE DEF Apply, LoggerConfigs, WithLogger, WithLevelMapper, WithLoggerPolicy
<1>1. CASE opt.kind = "nil"
    BY <1>1
<1>2. CASE opt.kind = "clearMapper"
    BY <1>2
<1>3. CASE opt.kind = "WithLogger"
    BY <1>3
<1>4. CASE opt.kind = "WithLevelMapper"
    BY <1>4
<1>5. CASE opt.kind = "WithLoggerPolicy"
    BY <1>5
<1> QED
    BY <1>1, <1>2, <1>3, <1>4, <1>5 DEF Options

\* What has been configured so far, after one more option.
LEMMA SoFarStep ==
    ASSUME NEW b \in BuildStates, NEW c \in BuildStates, b.next \in 1..Len(b.opts),
           c.opts = b.opts, c.next = b.next + 1, c.cfg = Apply(b.opts[b.next], b.cfg),
           LoggerSoFar(b), MapperSoFar(b), PolicySoFar(b)
    PROVE  LoggerSoFar(c) /\ MapperSoFar(c) /\ PolicySoFar(c)
<1> DEFINE n == b.next
           opt == b.opts[n]
           loggers == LoggerOptions(b.opts)
           mappers == MapperOptions(b.opts)
           policies == PolicyOptions(b.opts)
<1>1. b.opts \in Seq(Options) /\ b.cfg \in LoggerConfigs /\ n \in Nat /\ opt \in Options
    BY DEF BuildStates
<1>2. /\ loggers \in SUBSET Nat /\ mappers \in SUBSET Nat /\ policies \in SUBSET Nat
    BY <1>1 DEF LoggerOptions, MapperOptions, PolicyOptions, Given
<1>3. /\ n \in loggers <=> opt.kind = "WithLogger" /\ opt.logger # NilLogger
      /\ n \in mappers <=> \/ opt.kind = "WithLevelMapper" /\ opt.mapper # NilMapper
                           \/ opt.kind = "clearMapper"
      /\ n \in policies <=> opt.kind = "WithLoggerPolicy"
    BY DEF LoggerOptions, MapperOptions, PolicyOptions, Given
<1>4. /\ c.cfg.logger = IF n \in loggers THEN opt.logger ELSE b.cfg.logger
      /\ c.cfg.levelMapper = IF n \in mappers THEN MapperGiven(opt) ELSE b.cfg.levelMapper
      /\ c.cfg.policy = IF n \in policies THEN opt.policy ELSE b.cfg.policy
    BY <1>1, <1>3, ApplyEffect DEF MapperGiven
<1> HIDE DEF loggers, mappers, policies
<1>5. LoggerSoFar(c)
    <2>1. CASE n \in loggers
        BY <1>1, <1>2, <1>4, <2>1, OneMore DEF LoggerSoFar, loggers
    <2>2. CASE n \notin loggers
        BY <1>1, <1>2, <1>4, <2>2, OneMore DEF LoggerSoFar, loggers
    <2> QED
        BY <2>1, <2>2
<1>6. MapperSoFar(c)
    <2>1. CASE n \in mappers
        BY <1>1, <1>2, <1>4, <2>1, OneMore DEF MapperSoFar, mappers
    <2>2. CASE n \notin mappers
        BY <1>1, <1>2, <1>4, <2>2, OneMore DEF MapperSoFar, mappers
    <2> QED
        BY <2>1, <2>2
<1>7. PolicySoFar(c)
    <2>1. CASE n \in policies
        BY <1>1, <1>2, <1>4, <2>1, OneMore DEF PolicySoFar, policies
    <2>2. CASE n \notin policies
        BY <1>1, <1>2, <1>4, <2>2, OneMore DEF PolicySoFar, policies
    <2> QED
        BY <2>1, <2>2
<1> QED
    BY <1>5, <1>6, <1>7

\* After the last option, NewLogger returns what the precedence asks for.
LEMMA ReturnPrecedence ==
    ASSUME NEW b \in BuildStates, b.next > Len(b.opts), NEW default \in Globals,
           LoggerSoFar(b), MapperSoFar(b), PolicySoFar(b),
           NEW l, l.log = SelectBase(b.cfg, b.handler, default),
           l.mapLevel = SelectMapper(b.cfg), l.policy = b.cfg.policy
    PROVE  Precedence(b, l)
<1> DEFINE loggers == LoggerOptions(b.opts)
           mappers == MapperOptions(b.opts)
           policies == PolicyOptions(b.opts)
           len == Len(b.opts)
<1>1. b.opts \in Seq(Options) /\ len \in Nat /\ b.next \in Nat /\ b.next > len
    BY DEF BuildStates
<1>2. /\ loggers \in SUBSET (1..len) /\ mappers \in SUBSET (1..len)
      /\ policies \in SUBSET (1..len)
    BY <1>1 DEF LoggerOptions, MapperOptions, PolicyOptions, Given
<1>3. \/ loggers = {} /\ b.cfg.logger = NilLogger
      \/ /\ loggers # {} /\ b.cfg.logger = b.opts[LastOf(loggers)].logger
         /\ LastOf(loggers) \in loggers
    BY <1>1, <1>2, LastIsLast DEF LoggerSoFar
<1>4. \/ mappers = {} /\ b.cfg.levelMapper = DefaultMapper
      \/ /\ mappers # {} /\ b.cfg.levelMapper = MapperGiven(b.opts[LastOf(mappers)])
         /\ LastOf(mappers) \in mappers
    <2>1. CASE NoneBefore(mappers, b.next) /\ b.cfg.levelMapper = DefaultMapper
        BY <1>1, <1>2, <2>1, LastIsLast
    <2>2. ASSUME NEW k \in 1..len, LastBefore(mappers, b.next, k),
                 b.cfg.levelMapper = MapperGiven(b.opts[k])
          PROVE  /\ mappers # {} /\ b.cfg.levelMapper = MapperGiven(b.opts[LastOf(mappers)])
                 /\ LastOf(mappers) \in mappers
        <3> HIDE DEF mappers
        <3>1. mappers # {} /\ LastOf(mappers) = k /\ k \in mappers
            BY <1>1, <1>2, <2>2, LastIsLast
        <3> QED
            BY <2>2, <3>1
    <2> QED
        BY <2>1, <2>2 DEF MapperSoFar
<1>5. \/ policies = {} /\ b.cfg.policy = "Fixed"
      \/ policies # {} /\ b.cfg.policy = b.opts[LastOf(policies)].policy
    BY <1>1, <1>2, LastIsLast DEF PolicySoFar
<1>6. /\ loggers # {} => l.log = b.opts[LastOf(loggers)].logger
      /\ loggers = {} /\ b.handler # NilHandler => l.log = SlogNew[b.handler]
      /\ loggers = {} /\ b.handler = NilHandler => l.log \in Globals
    <2>1. \A k \in loggers : b.opts[k].logger # NilLogger
        BY DEF LoggerOptions
    <2> QED
        BY <1>3, <2>1 DEF SelectBase
<1>7. l.mapLevel = IF mappers = {} \/ b.opts[LastOf(mappers)].kind = "clearMapper"
                   THEN DefaultMapper ELSE b.opts[LastOf(mappers)].mapper
    <2>1. \A k \in mappers : b.opts[k].kind = "clearMapper" \/ b.opts[k].mapper # NilMapper
        BY DEF MapperOptions, Given
    <2> QED
        BY <1>4, <2>1 DEF SelectMapper, MapperGiven
<1>8. l.policy = IF policies = {} THEN "Fixed" ELSE b.opts[LastOf(policies)].policy
    BY <1>5
<1> QED
    BY <1>6, <1>7, <1>8 DEF Precedence

LEMMA PrecedenceInit == Init => PrecedenceInv
<1>1. Unbuilt.pc = "unbuilt"
    BY DEF Unbuilt
<1>2. ASSUME Init PROVE \A a \in Adapters : build[a] = Unbuilt
    BY <1>2 DEF Init
<1> QED
    BY <1>1, <1>2 DEF PrecedenceInv

\* Steps of the construction of one adapter.
LEMMA PrecedenceOf ==
    ASSUME IInv, PrecedenceInv, NEW a \in Adapters,
           NEW b, build' = [build EXCEPT ![a] = b],
           NEW l, adapter' = [adapter EXCEPT ![a] = l],
           b.pc = "options" => LoggerSoFar(b) /\ MapperSoFar(b) /\ PolicySoFar(b),
           b.pc = "ready" /\ l # NilAdapter /\ l # ZeroLogger => Precedence(b, l)
    PROVE  PrecedenceInv'
<1>1. ASSUME NEW x \in Adapters
      PROVE  /\ build'[x] = (IF x = a THEN b ELSE build[x])
             /\ adapter'[x] = (IF x = a THEN l ELSE adapter[x])
    BY DEF IInv, TypeOK
<1> SUFFICES ASSUME NEW x \in Adapters
             PROVE  /\ build'[x].pc = "options" =>
                          /\ LoggerSoFar(build'[x]) /\ MapperSoFar(build'[x])
                          /\ PolicySoFar(build'[x])
                    /\ (build'[x].pc = "ready" /\ adapter'[x] # NilAdapter
                           /\ adapter'[x] # ZeroLogger) =>
                          Precedence(build'[x], adapter'[x])
    BY DEF PrecedenceInv, LoggerSoFar, MapperSoFar, PolicySoFar, Precedence
<1>2. CASE x = a
    BY <1>1, <1>2
<1>3. CASE x # a
    BY <1>1, <1>3 DEF PrecedenceInv
<1> QED
    BY <1>2, <1>3

LEMMA PrecedenceStep == IInv /\ PrecedenceInv /\ [Next]_vars => PrecedenceInv'
<1> SUFFICES ASSUME IInv, PrecedenceInv, [Next]_vars PROVE PrecedenceInv'
    OBVIOUS
<1>1. ASSUME NEW a \in Adapters, CallNewLogger(a) PROVE PrecedenceInv'
    <2>1. PICK handler \in Handlers \union {NilHandler}, opts \in OptionLists :
              build' = [build EXCEPT ![a] =
                           [pc |-> "options", handler |-> handler, opts |-> opts,
                            next |-> 1, cfg |-> InitialConfig]]
        BY <1>1 DEF CallNewLogger
    <2> DEFINE b == [pc |-> "options", handler |-> handler, opts |-> opts,
                     next |-> 1, cfg |-> InitialConfig]
    <2>2. adapter' = [adapter EXCEPT ![a] = adapter[a]]
        BY <1>1 DEF CallNewLogger, IInv, TypeOK
    <2>3. /\ NoneBefore(LoggerOptions(opts), 1) /\ NoneBefore(MapperOptions(opts), 1)
          /\ NoneBefore(PolicyOptions(opts), 1)
        <3>1. opts \in Seq(Options)
            BY AdapterAssumption
        <3> QED
            BY <3>1 DEF NoneBefore, LoggerOptions, MapperOptions, PolicyOptions, Given
    <2>4. LoggerSoFar(b) /\ MapperSoFar(b) /\ PolicySoFar(b)
        BY <2>3 DEF LoggerSoFar, MapperSoFar, PolicySoFar, InitialConfig
    <2>5. b.pc = "options"
        OBVIOUS
    <2> HIDE DEF b
    <2> QED
        BY <2>1, <2>2, <2>4, <2>5, PrecedenceOf DEF b
<1>2. ASSUME NEW a \in Adapters, ApplyOption(a) PROVE PrecedenceInv'
    <2> DEFINE b == build[a]
               c == build'[a]
    <2>1. IInv'
        BY <1>2, ApplyOptionStep
    <2>2. b \in BuildStates /\ c \in BuildStates
        BY <2>1 DEF IInv, TypeOK
    <2>3. b.pc = "options" /\ b.next \in 1..Len(b.opts)
        BY <1>2, <2>2 DEF ApplyOption, BuildStates
    <2>4. c = [b EXCEPT !.cfg = Apply(b.opts[b.next], b.cfg), !.next = b.next + 1]
        BY <1>2 DEF ApplyOption, IInv, TypeOK
    <2>5. build' = [build EXCEPT ![a] = c] /\ adapter' = [adapter EXCEPT ![a] = adapter[a]]
        BY <1>2 DEF ApplyOption, IInv, TypeOK
    <2>6. /\ c.opts = b.opts /\ c.next = b.next + 1 /\ c.pc = "options"
          /\ c.cfg = Apply(b.opts[b.next], b.cfg)
        <3> DEFINE cfg == Apply(b.opts[b.next], b.cfg)
        <3> HIDE DEF cfg
        <3>1. c = [b EXCEPT !.cfg = cfg, !.next = b.next + 1]
            BY <2>4 DEF cfg
        <3> QED
            BY <2>2, <2>3, <3>1 DEF BuildStates, cfg
    <2>7. LoggerSoFar(b) /\ MapperSoFar(b) /\ PolicySoFar(b)
        BY <2>3 DEF PrecedenceInv
    <2> HIDE DEF b, c
    <2>8. LoggerSoFar(c) /\ MapperSoFar(c) /\ PolicySoFar(c)
        BY <2>2, <2>3, <2>6, <2>7, SoFarStep
    <2> QED
        BY <2>5, <2>6, <2>8, PrecedenceOf
<1>3. ASSUME NEW a \in Adapters, ReturnLogger(a) PROVE PrecedenceInv'
    <2> DEFINE b == build[a]
               c == [b EXCEPT !.pc = "ready"]
               l == [log |-> SelectBase(b.cfg, b.handler, slogDefault),
                     mapLevel |-> SelectMapper(b.cfg), policy |-> b.cfg.policy]
    <2>1. /\ b \in BuildStates /\ b.pc = "options" /\ b.next > Len(b.opts)
          /\ slogDefault \in Globals
        BY <1>3 DEF IInv, TypeOK, ReturnLogger
    <2>2. build' = [build EXCEPT ![a] = c] /\ adapter' = [adapter EXCEPT ![a] = l]
        BY <1>3 DEF ReturnLogger
    <2>3. c.pc = "ready" /\ c.opts = b.opts /\ c.handler = b.handler
        BY <2>1 DEF BuildStates
    <2>4. LoggerSoFar(b) /\ MapperSoFar(b) /\ PolicySoFar(b)
        BY <2>1 DEF PrecedenceInv
    <2>5. /\ l.log = SelectBase(b.cfg, b.handler, slogDefault)
          /\ l.mapLevel = SelectMapper(b.cfg) /\ l.policy = b.cfg.policy
        OBVIOUS
    <2> HIDE DEF b, c, l
    <2>6. Precedence(b, l)
        BY <2>1, <2>4, <2>5, ReturnPrecedence
    <2>7. Precedence(c, l)
        BY <2>3, <2>6 DEF Precedence
    <2> QED
        BY <2>2, <2>3, <2>7, PrecedenceOf
<1>4. ASSUME NEW a \in Adapters, DeclareOnly(a) PROVE PrecedenceInv'
    <2> DEFINE c == [build[a] EXCEPT !.pc = "ready"]
    <2>1. PICK value \in {NilAdapter, ZeroLogger} : adapter' = [adapter EXCEPT ![a] = value]
        BY <1>4 DEF DeclareOnly
    <2>2. build' = [build EXCEPT ![a] = c] /\ c.pc = "ready"
        BY <1>4 DEF DeclareOnly, IInv, TypeOK, BuildStates
    <2> HIDE DEF c
    <2> QED
        BY <2>1, <2>2, PrecedenceOf
<1>5. CASE UNCHANGED <<build, adapter>>
    BY <1>5 DEF PrecedenceInv, LoggerSoFar, MapperSoFar, PolicySoFar, Precedence
<1>6. ASSUME NEW logger \in Globals, SetDefault(logger) PROVE UNCHANGED <<build, adapter>>
    BY <1>6 DEF SetDefault
<1>7. ASSUME NEW r \in Requests,
             DeriveContext(r) \/ EnterLog(r) \/ ReturnSilently(r) \/ SelectLogger(r) \/ Emit(r)
      PROVE  UNCHANGED <<build, adapter>>
    BY <1>7 DEF DeriveContext, EnterLog, ReturnSilently, SelectLogger, Emit, buildVars
<1>8. CASE UNCHANGED vars
    BY <1>5, <1>8 DEF vars
<1> QED
    BY <1>1, <1>2, <1>3, <1>4, <1>5, <1>6, <1>7, <1>8 DEF Next

\* NewLogger keeps its documented precedence: for every option list and whatever
\* happens between two of its options, the last option that counts wins.
THEOREM PrecedenceHolds == Spec => []OptionPrecedence
<1>1. Init => PrecedenceInv
    BY PrecedenceInit
<1>2. IInv /\ PrecedenceInv /\ [Next]_vars => PrecedenceInv'
    BY PrecedenceStep
<1>3. PrecedenceInv => OptionPrecedence
    BY DEF PrecedenceInv, Precedence, OptionPrecedence
<1> QED
    BY <1>1, <1>2, <1>3, Invariance, PTL DEF Spec
=============================================================================
