--------------------------- MODULE MCHealthProbe ----------------------------
(* Values of the constants of HealthProbe for TLC.                         *)
EXTENDS HealthProbe, TLC

=============================================================================
