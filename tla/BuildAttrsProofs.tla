-------------------------- MODULE BuildAttrsProofs --------------------------
(* The loop of buildAttrs is correct for every value type, every key        *)
(* coercion and every field list, of whatever length.                       *)
EXTENDS BuildAttrs, TLAPS

\* Everything built so far is a prefix of Pairs(fields), and the index stands
\* just after the fields that were used.
PrefixBuilt ==
    /\ i = 2 * Len(attrs)
    /\ Len(attrs) <= PairCount(Len(fields))
    /\ \A k \in 1..Len(attrs) : attrs[k] = PairAt(fields, k)

\* The inductive invariant.
LoopInv ==
    /\ TypeOK
    /\ PrefixBuilt
    /\ cap = IF pc = "entry" THEN 0 ELSE PairCount(Len(fields))
    /\ pc = "entry" => attrs = << >>
    /\ pc = "done" => i >= Len(fields)

\* The value read for the pair being built is the one the reference takes.
LEMMA ValueAfterIsPairValue ==
    ASSUME TypeOK, i = 2 * Len(attrs), i < Len(fields)
    PROVE  /\ [key |-> Sprint[fields[i + 1]], val |-> ValueAfter(i)]
                 = PairAt(fields, Len(attrs) + 1)
           /\ PairAt(fields, Len(attrs) + 1) \in Attr
           /\ Len(attrs) + 1 <= PairCount(Len(fields))
<1>1. Len(fields) \in Nat /\ Len(attrs) \in Nat
    BY DEF TypeOK
<1>2. fields[i + 1] \in Values
    BY <1>1 DEF TypeOK
<1>3. i + 1 < Len(fields) => fields[i + 2] \in Values
    BY <1>1 DEF TypeOK
<1>4. Sprint[fields[i + 1]] \in Keys
    BY <1>2, FieldsAssumption
<1>5. i + 1 = 2 * (Len(attrs) + 1) - 1 /\ i + 2 = 2 * (Len(attrs) + 1)
    BY <1>1
<1> QED
    BY <1>1, <1>2, <1>3, <1>4, <1>5 DEF PairAt, ValueAfter, Attr, PairCount

\* The invariant holds of every reachable state of the function.
THEOREM LoopInvariant == Spec => []LoopInv
<1>1. Init => LoopInv
    BY FieldsAssumption DEF Init, LoopInv, TypeOK, PrefixBuilt, PairCount, Attr
<1>2. LoopInv /\ [Next]_vars => LoopInv'
    <2> SUFFICES ASSUME LoopInv, [Next]_vars PROVE LoopInv'
        OBVIOUS
    <2>1. CASE ReturnNil
        BY <2>1 DEF ReturnNil, LoopInv, TypeOK, PrefixBuilt, PairCount, PairAt
    <2>2. CASE Allocate
        BY <2>2 DEF Allocate, LoopInv, TypeOK, PrefixBuilt, PairCount, PairAt
    <2>3. CASE AppendPair
        <3> DEFINE new == [key |-> Sprint[fields[i + 1]], val |-> ValueAfter(i)]
        <3>1. new = PairAt(fields, Len(attrs) + 1) /\ new \in Attr
              /\ Len(attrs) + 1 <= PairCount(Len(fields))
            BY <2>3, ValueAfterIsPairValue DEF AppendPair, LoopInv, PrefixBuilt
        <3>2. attrs \in Seq(Attr) /\ attrs' = Append(attrs, new)
            BY <2>3 DEF AppendPair, LoopInv, TypeOK
        <3> HIDE DEF new
        <3>3. /\ attrs' \in Seq(Attr)
              /\ Len(attrs') = Len(attrs) + 1
              /\ \A k \in 1..Len(attrs) : attrs'[k] = attrs[k]
              /\ attrs'[Len(attrs) + 1] = new
            BY <3>1, <3>2
        <3>4. TypeOK'
            BY <2>3, <3>3 DEF AppendPair, LoopInv, TypeOK
        <3>5. PrefixBuilt'
            <4>1. i' = 2 * Len(attrs')
                BY <2>3, <3>2, <3>3 DEF AppendPair, LoopInv, PrefixBuilt
            <4>2. \A k \in 1..Len(attrs') : attrs'[k] = PairAt(fields, k)
                BY <3>1, <3>2, <3>3 DEF LoopInv, PrefixBuilt
            <4> QED
                BY <2>3, <3>1, <3>3, <4>1, <4>2 DEF AppendPair, PrefixBuilt, PairAt
        <3> QED
            BY <2>3, <3>4, <3>5 DEF AppendPair, LoopInv
    <2>4. CASE Return
        BY <2>4 DEF Return, LoopInv, TypeOK, PrefixBuilt, PairCount, PairAt
    <2>5. CASE UNCHANGED vars
        BY <2>5 DEF vars, LoopInv, TypeOK, PrefixBuilt, PairCount, PairAt
    <2> QED
        BY <2>1, <2>2, <2>3, <2>4, <2>5 DEF Next
<1> QED
    BY <1>1, <1>2, PTL DEF Spec

\* buildAttrs is type correct for every input.
THEOREM TypeCorrect == Spec => []TypeOK
<1>1. LoopInv => TypeOK
    BY DEF LoopInv
<1> QED
    BY <1>1, LoopInvariant, PTL

\* Whatever the fields, the attributes returned are exactly their pairs.
THEOREM ReturnsPairs == Spec => []ResultIsPairs
<1>1. LoopInv => ResultIsPairs
    <2> SUFFICES ASSUME LoopInv, pc = "done" PROVE attrs = Pairs(fields)
        BY DEF ResultIsPairs
    <2>1. Len(attrs) = PairCount(Len(fields))
        BY DEF LoopInv, TypeOK, PrefixBuilt, PairCount
    <2>2. DOMAIN attrs = 1..PairCount(Len(fields)) /\ attrs = [k \in DOMAIN attrs |-> attrs[k]]
        BY <2>1 DEF LoopInv, TypeOK
    <2> QED
        BY <2>1, <2>2 DEF LoopInv, PrefixBuilt, Pairs
<1> QED
    BY <1>1, LoopInvariant, PTL

\* Whatever the fields, the one allocation is filled exactly.
THEOREM AllocatesExactly == Spec => []CapacityIsExact
<1>1. LoopInv => CapacityIsExact
    BY DEF LoopInv, TypeOK, PrefixBuilt, CapacityIsExact, PairCount
<1> QED
    BY <1>1, LoopInvariant, PTL
=============================================================================
