------------------------- MODULE MCHistoricalEvidence -------------------------
(* HistoricalEvidence has numeric constants only. *)
EXTENDS HistoricalEvidence
=============================================================================
