------------------------------ MODULE MCRenovate ------------------------------
(* Two repairs of different requirements and one routine update. *)
EXTENDS Renovate

CONSTANTS r1, r2, t1, d1, d2

MCRepaired == [p \in Repairs |-> IF p = r1 THEN d1 ELSE d2]
MCFirstTree ==
    [module |-> 1, go |-> 1, require |-> [d \in Deps |-> 1], version |-> <<2, 0, 1>>,
     rest |-> 1, examples |-> 1, others |-> 1]
=============================================================================
