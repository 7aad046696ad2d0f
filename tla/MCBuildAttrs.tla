---------------------------- MODULE MCBuildAttrs ----------------------------
(* Every field list of at most MaxFields fields over three values, two of   *)
(* which (the number 1 and the text "1") print alike.                       *)
EXTENDS BuildAttrs

CONSTANT MaxFields

MCValues == {"text_k", "text_1", "number_1"}
MCKeys == {"k", "1"}
MCSprint == [v \in MCValues |-> IF v = "text_k" THEN "k" ELSE "1"]
MCFieldLists == UNION {[1..n -> MCValues] : n \in 0..MaxFields}
=============================================================================
