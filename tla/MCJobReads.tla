----------------------------- MODULE MCJobReads -----------------------------
(* Values of the constants of JobReads for TLC: those of JobPlatform.      *)
EXTENDS JobReads, MCJobPlatform

=============================================================================
