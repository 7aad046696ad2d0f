-------------------------- MODULE VersionRegistry --------------------------
(***************************************************************************)
(* What the release pipeline promises: a version is bound to a commit at   *)
(* most once and for ever, and is published at most once, for the commit   *)
(* it is bound to and only after that commit was proven.                   *)
(***************************************************************************)
EXTENDS Integers

CONSTANTS Versions, MaxCommits

VARIABLES
    bound,       \* the commit each version is bound to, 0 when none
    proven,      \* the commits whose validation succeeded
    published    \* the versions the pipeline published

Init ==
    /\ bound = [v \in Versions |-> 0]
    /\ proven = {}
    /\ published = {}

Prove(c) ==
    /\ proven' = proven \union {c}
    /\ UNCHANGED <<bound, published>>

Bind(v, c) ==
    /\ bound[v] = 0
    /\ bound' = [bound EXCEPT ![v] = c]
    /\ UNCHANGED <<proven, published>>

Publish(v) ==
    /\ bound[v] \in proven
    /\ published' = published \union {v}
    /\ UNCHANGED <<bound, proven>>

Next ==
    \/ \E c \in 1..MaxCommits : Prove(c)
    \/ \E v \in Versions, c \in 1..MaxCommits : Bind(v, c)
    \/ \E v \in Versions : Publish(v)

Spec == Init /\ [][Next]_<<bound, proven, published>>
=============================================================================
