---------------------------- MODULE MCJobListing ----------------------------
(* Values of the constants of JobListing for TLC.                          *)
EXTENDS JobListing, TLC

SortValues == 1 .. 3

JobSymmetry == Permutations(Jobs)

=============================================================================
