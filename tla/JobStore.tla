------------------------------ MODULE JobStore ------------------------------
(***************************************************************************)
(* The durable side of the platform: one row of the PostgreSQL table "Job" *)
(* and the rows of "JobAttempt" that belong to it, with the updates that   *)
(* the two repositories apply to them.  The operators are pure: each takes *)
(* the row as it is when the statement executes and returns the row that   *)
(* the statement leaves.  None of the updates has a condition on the       *)
(* status: PostgreSQL applies whatever the caller asks for.                *)
(*                                                                         *)
(* A timestamp column is abstracted to whether it is set, except startedAt *)
(* which records the delivery (see JobQueue) that set it, 0 being NULL.    *)
(***************************************************************************)
EXTENDS Naturals

CONSTANTS
    MaxAttempts,        \* QUEUE: number of attempts a job is given
    MaxStalledCount     \* BullMQ: how many stalls a job survives

ASSUME MaxAttemptsAssumption == MaxAttempts \in Nat \ {0}
ASSUME MaxStalledAssumption == MaxStalledCount \in Nat

-----------------------------------------------------------------------------

TerminalStatus == {"COMPLETED", "FAILED", "CANCELLED"}
JobStatus == {"QUEUED", "PROCESSING"} \cup TerminalStatus

(* "NONE": no row with that key yet.  The schema also has STALLED for an   *)
(* attempt; no code writes it.                                             *)
AttemptStatus == {"NONE", "PROCESSING", "COMPLETED", "FAILED"}

AttemptNumber == 1 .. MaxAttempts

(* Every hand-over of a job to a worker has a number: attempts made so far *)
(* plus stalls so far plus one.                                            *)
Delivery == 1 .. MaxAttempts + MaxStalledCount

JobRow ==
    [ status      : {"NONE"} \cup JobStatus,
      retryCount  : 0 .. MaxAttempts,
      startedAt   : {0} \cup Delivery,
      completedAt : BOOLEAN,
      failedAt    : BOOLEAN,
      cancelledAt : BOOLEAN,
      lastError   : {"null", "enqueue", "processing"} ]

NoRow ==
    [ status |-> "NONE", retryCount |-> 0, startedAt |-> 0,
      completedAt |-> FALSE, failedAt |-> FALSE, cancelledAt |-> FALSE,
      lastError |-> "null" ]

(* jobRepository.create as createJob calls it.  The id is a fresh uuid, so *)
(* no row is ever recreated.                                               *)
NewRow == [NoRow EXCEPT !.status = "QUEUED"]

-----------------------------------------------------------------------------
(* JobRepository                                                           *)

EnqueueFailed(r) ==
    [r EXCEPT !.status = "FAILED", !.failedAt = TRUE, !.lastError = "enqueue"]

(* Variant: startedAt written by every attempt.                            *)
ProcessingAlwaysStarts(r, hasStarted, now) ==
    [r EXCEPT !.status = "PROCESSING", !.startedAt = now]

(* hasStarted: the startedAt that the preceding findUnique returned was    *)
(* not null.  It may be stale by the time the update executes.             *)
Processing(r, hasStarted, now) ==
    [r EXCEPT !.status = "PROCESSING",
              !.startedAt = IF hasStarted THEN @ ELSE now]

RetryQueued(r, retryCount) ==
    [r EXCEPT !.status = "QUEUED", !.retryCount = retryCount,
              !.lastError = "processing", !.failedAt = FALSE]

Completed(r, retryCount) ==
    [r EXCEPT !.status = "COMPLETED", !.completedAt = TRUE,
              !.retryCount = retryCount, !.lastError = "null",
              !.failedAt = FALSE]

(* Variant: retryCount incremented instead of assigned.                    *)
FailedIncrementing(r, retryCount) ==
    [r EXCEPT !.status = "FAILED", !.failedAt = TRUE,
              !.lastError = "processing", !.retryCount = @ + 1]

Failed(r, retryCount) ==
    [r EXCEPT !.status = "FAILED", !.failedAt = TRUE,
              !.lastError = "processing", !.retryCount = retryCount]

Cancelled(r) == [r EXCEPT !.status = "CANCELLED", !.cancelledAt = TRUE]

(* The where clause of the dead-letter view.                               *)
InDeadLetterView(r) == r.status = "FAILED" /\ r.retryCount > 0

-----------------------------------------------------------------------------
(* JobAttemptRepository.  a is the function from attempt numbers to the    *)
(* status of that attempt of one job.                                      *)

(* The check at the head of startAttempt.                                  *)
AttemptClosed(status) == status \in {"COMPLETED", "FAILED"}

(* upsert and the two updates write the status whatever it was.            *)
AttemptSet(a, n, status) == [a EXCEPT ![n] = status]

-----------------------------------------------------------------------------
(* What a payload makes simulateWork do: shouldFail fails every attempt,   *)
(* failUntilAttempt the attempts up to it (0 when the key is absent or not *)
(* an integer).                                                            *)
Payload == [shouldFail : BOOLEAN, failUntilAttempt : 0 .. MaxAttempts]

SimulationFails(p, n) == p.shouldFail \/ n <= p.failUntilAttempt

=============================================================================
