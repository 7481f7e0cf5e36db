--------------------------- MODULE MCRecoveryTest ---------------------------
(* RecoveryTest for TLC.  The retry limits are smaller than the code's; see *)
(* README.md for why two of each are enough.                                *)
EXTENDS RecoveryTest

=============================================================================
