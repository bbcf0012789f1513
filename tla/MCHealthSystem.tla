--------------------------- MODULE MCHealthSystem ---------------------------
(* Values of the constants of HealthSystem for TLC.                        *)
EXTENDS HealthSystem, TLC

=============================================================================
