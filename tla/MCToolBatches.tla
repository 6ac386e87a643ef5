--------------------------- MODULE MCToolBatches ---------------------------
(* Model-checking instance of ToolBatches. *)
EXTENDS ToolBatches
=============================================================================
