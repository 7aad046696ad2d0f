---------------------------- MODULE EventRouting ----------------------------
(***************************************************************************)
(* What the adapter promises, with no construction steps, no call steps    *)
(* and no goroutines: an adapter is configured once and for all, and every *)
(* event is offered, in one atomic step, to one logger chosen from that    *)
(* configuration and the event's own context.                              *)
(***************************************************************************)
EXTENDS Integers

CONSTANTS Adapters, Requests, Loggers, Levels, Mappers, MapLevel, MinLevel,
          MaxLogs, NilLogger, NilMapper, Unconfigured

VARIABLES
    config,    \* what each adapter was configured with, or Unconfigured
    offered    \* every event a logger was offered, with what became of it

Configs ==
    [log : Loggers \union {NilLogger}, mapLevel : Mappers \union {NilMapper},
     policy : {"Fixed", "PreferContext", "unknown"}]

\* The logger of an event: the context's own under PreferContext, else the
\* one captured at construction.
LoggerFor(c, ctx) ==
    IF c.policy = "PreferContext" /\ ctx # NilLogger THEN ctx ELSE c.log

Init ==
    /\ config = [a \in Adapters |-> Unconfigured]
    /\ offered = {}

Configure(a) ==
    /\ config[a] = Unconfigured
    /\ \E c \in Configs : config' = [config EXCEPT ![a] = c]
    /\ UNCHANGED offered

\* Event n of request r, never offered before, is offered to its one logger,
\* which drops it exactly when it is below that logger's level; a handler may
\* also fail, and slog ignores that.
Offer(r, n, a, ctx, level, outcome) ==
    LET logger == LoggerFor(config[a], ctx)
        severity == MapLevel[config[a].mapLevel][level]
    IN  /\ \A e \in offered : e.req = r => e.n # n
        /\ config[a] # Unconfigured
        /\ config[a].log # NilLogger
        /\ outcome = "filtered" <=> severity < MinLevel[logger]
        /\ offered' = offered \union
              {[req |-> r, n |-> n, adapter |-> a, ctx |-> ctx, level |-> level,
                logger |-> logger, severity |-> severity, outcome |-> outcome]}
        /\ UNCHANGED config

Next ==
    \/ \E a \in Adapters : Configure(a)
    \/ \E r \in Requests, n \in 1..MaxLogs, a \in Adapters,
          ctx \in Loggers \union {NilLogger}, level \in Levels,
          outcome \in {"filtered", "handled", "failed"} :
             Offer(r, n, a, ctx, level, outcome)

Spec == Init /\ [][Next]_<<config, offered>>
=============================================================================
