---------------------------- MODULE JobLifecycle ----------------------------
(***************************************************************************)
(* What the platform promises a client about a job, in the two columns     *)
(* that every answer is built from: its status and its retryCount.  There  *)
(* is no queue, no worker and no handler here.  docs/DESIGN.md gives the   *)
(* same picture as a table of valid and invalid transitions.               *)
(***************************************************************************)
EXTENDS Naturals

CONSTANTS
    Jobs,
    MaxAttempts,
    LateCancel      \* may a job that has already ended be cancelled?

VARIABLES
    status,         \* status[j], "NONE" before the job is submitted
    retryCount      \* retryCount[j], the number of failed attempts

Init ==
    /\ status = [j \in Jobs |-> "NONE"]
    /\ retryCount = [j \in Jobs |-> 0]

(* Moves j between statuses; the attempts that failed stay what they were. *)
Move(j, from, to) ==
    /\ status[j] \in from
    /\ status' = [status EXCEPT ![j] = to]
    /\ UNCHANGED retryCount

Submit(j) == Move(j, {"NONE"}, "QUEUED")

(* The queue refused the job before any attempt was made.                  *)
Refuse(j) == retryCount[j] = 0 /\ Move(j, {"QUEUED"}, "FAILED")

Start(j) == Move(j, {"QUEUED"}, "PROCESSING")

Succeed(j) == Move(j, {"PROCESSING"}, "COMPLETED")

(* An attempt failed: it is counted, and decides whether there is another. *)
FailAttempt(j) ==
    /\ status[j] = "PROCESSING"
    /\ retryCount' = [retryCount EXCEPT ![j] = @ + 1]
    /\ status' = [status EXCEPT ![j] = IF retryCount[j] + 1 < MaxAttempts
                                       THEN "QUEUED" ELSE "FAILED"]

Cancel(j) ==
    Move(j, {"QUEUED"} \cup (IF LateCancel THEN {"COMPLETED", "FAILED"} ELSE {}),
         "CANCELLED")

Next ==
    \E j \in Jobs : \/ Submit(j) \/ Refuse(j) \/ Start(j)
                    \/ Succeed(j) \/ FailAttempt(j) \/ Cancel(j)

Spec == Init /\ [][Next]_<<status, retryCount>>

=============================================================================
