----------------------------- MODULE BuildAttrs -----------------------------
(***************************************************************************)
(* buildAttrs of adapter.go: the loop that turns the middleware's flat     *)
(* list of alternating keys and values into slog attributes.  One action   *)
(* per step of the function: the early return, the allocation, and one     *)
(* iteration.  Indices are the code's, from 0; fields[n] of the code is    *)
(* fields[n + 1] here.                                                     *)
(***************************************************************************)
EXTENDS Integers, Sequences

CONSTANTS
    Values,      \* what a caller may pass as a field
    Keys,        \* attribute keys
    Sprint,      \* fmt.Sprint of a value used as a key; need not be injective
    NilValue,    \* the zero "any" a missing value becomes
    FieldLists   \* the argument lists the middleware passes

ASSUME FieldsAssumption ==
    /\ FieldLists \subseteq Seq(Values)
    /\ Sprint \in [Values -> Keys]

VARIABLES
    fields,   \* the argument
    i,        \* loop index
    attrs,    \* the slice being built
    cap,      \* its capacity
    pc        \* "entry", "loop" or "done"

vars == <<fields, i, attrs, cap, pc>>

Attr == [key : Keys, val : Values \union {NilValue}]

Init ==
    /\ fields \in FieldLists
    /\ i = 0
    /\ attrs = << >>
    /\ cap = 0
    /\ pc = "entry"

\* len(fields) == 0: nil is returned and nothing is allocated.
ReturnNil ==
    /\ pc = "entry"
    /\ fields = << >>
    /\ pc' = "done"
    /\ UNCHANGED <<fields, i, attrs, cap>>

\* make([]slog.Attr, 0, (len(fields)+1)/2)
Allocate ==
    /\ pc = "entry"
    /\ fields # << >>
    /\ cap' = (Len(fields) + 1) \div 2
    /\ pc' = "loop"
    /\ UNCHANGED <<fields, i, attrs>>

\* The value of the pair whose key is fields[n], nil when the list ends there.
ValueAfter(n) == IF n + 1 < Len(fields) THEN fields[n + 2] ELSE NilValue

\* Mutants of AppendPair: the key kept without fmt.Sprint; the index advanced
\* by one.
AppendPair_RawKey ==
    /\ pc = "loop"
    /\ i < Len(fields)
    /\ attrs' = Append(attrs, [key |-> fields[i + 1], val |-> ValueAfter(i)])
    /\ i' = i + 2
    /\ UNCHANGED <<fields, cap, pc>>

AppendPair_StepOne ==
    /\ pc = "loop"
    /\ i < Len(fields)
    /\ attrs' = Append(attrs, [key |-> Sprint[fields[i + 1]], val |-> ValueAfter(i)])
    /\ i' = i + 1
    /\ UNCHANGED <<fields, cap, pc>>

\* One iteration of the loop; append evaluates the key first, then the value.
AppendPair ==
    /\ pc = "loop"
    /\ i < Len(fields)
    /\ attrs' = Append(attrs, [key |-> Sprint[fields[i + 1]], val |-> ValueAfter(i)])
    /\ i' = i + 2
    /\ UNCHANGED <<fields, cap, pc>>

Return ==
    /\ pc = "loop"
    /\ i >= Len(fields)
    /\ pc' = "done"
    /\ UNCHANGED <<fields, i, attrs, cap>>

Next == ReturnNil \/ Allocate \/ AppendPair \/ Return

Spec == Init /\ [][Next]_vars

-----------------------------------------------------------------------------

\* How many pairs n fields make: the last one may lack its value.
PairCount(n) == (n + 1) \div 2

\* What buildAttrs promises, with no loop: attribute k is made of the k-th
\* pair, in the caller's order, duplicates and coerced keys kept as they come.
PairAt(f, k) ==
    [key |-> Sprint[f[2 * k - 1]],
     val |-> IF 2 * k <= Len(f) THEN f[2 * k] ELSE NilValue]

Pairs(f) == [k \in 1..PairCount(Len(f)) |-> PairAt(f, k)]

\* Type correctness: attributes hold only coerced keys and values that were
\* passed (or nil), and the index never leaves the list by more than one.
TypeOK ==
    /\ fields \in Seq(Values)
    /\ i \in 0..(Len(fields) + 1)
    /\ attrs \in Seq(Attr)
    /\ cap \in Nat
    /\ pc \in {"entry", "loop", "done"}

\* When buildAttrs returns, its result is exactly the pairs of the list: no
\* field is lost, moved to another key or used twice, and a trailing key
\* gets nil (adapter.go buildAttrs, the loop and its bounds check).
ResultIsPairs == pc = "done" => attrs = Pairs(fields)

\* The slice is allocated once and filled to its capacity: an append never
\* grows it and no slot is wasted, for lists of odd length too.
CapacityIsExact ==
    /\ Len(attrs) <= cap
    /\ pc = "done" => Len(attrs) = cap
=============================================================================
