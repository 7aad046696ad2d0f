--------------------------- MODULE MCPrValidation ---------------------------
(* Constants for the runs of PrValidation. *)
EXTENDS PrValidation

\* The jobs of the workflow that have an output; the two of them that report a
\* runtime, with the one that has no output.
OutputJobs == {"root", "example", "smoke"}
WithFloor == {"root", "example", "floor"}
=============================================================================
