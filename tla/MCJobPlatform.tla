--------------------------- MODULE MCJobPlatform ----------------------------
(* Values of the constants of JobPlatform for TLC.                         *)
EXTENDS JobPlatform, TLC

(* One payload of each kind: succeeds at once, succeeds on the second      *)
(* attempt, always fails.                                                  *)
Clean == [shouldFail |-> FALSE, failUntilAttempt |-> 0]
Transient == [shouldFail |-> FALSE, failUntilAttempt |-> 1]
Permanent == [shouldFail |-> TRUE, failUntilAttempt |-> 0]

AllPayloads == {Clean, Transient, Permanent}
SomePayloads == {Transient, Permanent}

RequestSymmetry == Permutations(Workers) \cup Permutations(CancelRequests)

=============================================================================
