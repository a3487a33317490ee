-------------------------- MODULE MCRecoveryTurns --------------------------
(* The instance of RecoveryTurns for TLC; the cfg gives its constants.     *)
EXTENDS RecoveryTurns

=============================================================================
