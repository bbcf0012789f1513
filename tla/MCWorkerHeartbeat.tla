------------------------- MODULE MCWorkerHeartbeat --------------------------
(* Values of the constants of WorkerHeartbeat for TLC.                     *)
EXTENDS WorkerHeartbeat, TLC

ProcessSymmetry == Permutations(Workers)

=============================================================================
