------------------------- MODULE MCGlobalExecution -------------------------
(* Instances of GlobalExecution for TLC.                                   *)
EXTENDS GlobalExecution

=============================================================================
