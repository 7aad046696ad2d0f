--------------------------- MODULE MCActionSmoke ---------------------------
(* ActionSmoke has numeric constants only. *)
EXTENDS ActionSmoke
=============================================================================
