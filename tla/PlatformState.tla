--------------------------- MODULE PlatformState ----------------------------
(***************************************************************************)
(* The state that the API process and the worker processes share: the      *)
(* PostgreSQL rows, the BullMQ queue in Redis, and the control state of    *)
(* every handler that is between two awaits.                               *)
(***************************************************************************)
EXTENDS JobQueue

CONSTANTS
    Jobs,               \* one element per POST /api/jobs request
    CancelRequests,     \* one element per DELETE /api/jobs/:id request
    Payloads,           \* the payloads that requests carry
    Faults              \* the failures that this instance admits

NoJob == "noJob"

ASSUME JobsAssumption == NoJob \notin Jobs
ASSUME PayloadsAssumption == Payloads \subseteq Payload

(* crash      a worker process dies and is restarted                       *)
(* apiCrash   the API process dies with its handlers and is restarted      *)
(* lockLoss   a live worker fails to renew a lock in time                  *)
(* db         a database call is rejected, applied or not                  *)
(* redis      a queue call of the API is rejected and not applied          *)
(* redisLost  a queue call of the API is applied, but is seen to fail      *)
FaultKind == {"crash", "apiCrash", "lockLoss", "db", "redis", "redisLost"}

ASSUME FaultsAssumption == Faults \subseteq FaultKind

VARIABLES
    row,        \* table Job: row[j], NoRow before it is created
    attempts,   \* table JobAttempt: attempts[j][n], "NONE" before it exists
    payload,    \* payload[j], never written after the request
    entry,      \* the queue entry whose jobId is j
    paused,     \* the queue's pause flag
    create,     \* create[j]: where the createJob handler is, or its answer
    cancel,     \* cancel[c]: where the cancelJob handler is, or its answer
    run         \* run[w]: the process() call in slot w

db == <<row, attempts>>
queue == <<entry, paused>>
api == <<create, cancel>>
vars == <<row, attempts, payload, entry, paused, create, cancel, run>>

-----------------------------------------------------------------------------
(* Where the handlers can be.                                              *)

CreateInFlight == {"enqueue", "markFailed"}
CreatePC == {"new", "accepted", "failed", "died"} \cup CreateInFlight

(* A cancelJob that ends in an error or dies is "failed" or "died" before  *)
(* the removal, and "unmarked" after it.                                   *)
CancelInFlight == {"getJob", "remove", "mark"}
CancelPC == {"new", "cancelled", "conflict", "notFound",
             "failed", "died", "unmarked"} \cup CancelInFlight

CancelRecord == [pc : CancelPC, job : Jobs]

(* A slot is free, down, or at an await of JobProcessorService.process;    *)
(* "resolve" and "reject" are BullMQ's reactions to how process() ended.   *)
Busy == {"findAttempt", "upsertAttempt", "readRow", "writeProcessing",
         "work", "attemptCompleted", "rowCompleted", "attemptFailed",
         "rowFailed", "resolve", "reject"}

Run ==
    [ pc           : {"free", "down"} \cup Busy,
      job          : Jobs \cup {NoJob},
      attemptsMade : 0 .. MaxAttempts,          \* of the job object fetched
      delivery     : {0} \cup Delivery,
      hasStarted   : BOOLEAN ]                  \* read by markProcessing

NoRun ==
    [pc |-> "free", job |-> NoJob, attemptsMade |-> 0, delivery |-> 0,
     hasStarted |-> FALSE]

Live(w) == run[w].pc \in Busy
RunningOn(j) == {w \in Workers : Live(w) /\ run[w].job = j}

(* Variant: BullMQ's attemptsStarted, which counts stalls as well.         *)
AttemptsStarted(w) == run[w].delivery

(* The attempt number a run uses for all its writes.                       *)
CurrentAttempt(w) == run[w].attemptsMade + 1

-----------------------------------------------------------------------------
(* How a call to a store can end: "ok"; "rejected", not applied and seen   *)
(* to fail; "lost", applied and seen to fail.                              *)

DbReply == {"ok"} \cup (IF "db" \in Faults THEN {"rejected", "lost"} ELSE {})

RedisReply ==
    {"ok"} \cup (IF "redis" \in Faults THEN {"rejected"} ELSE {})
           \cup (IF "redisLost" \in Faults THEN {"lost"} ELSE {})

WriteRow(j, reply, new) ==
    row' = IF reply = "rejected" THEN row ELSE [row EXCEPT ![j] = new]

WriteAttempt(j, n, reply, status) ==
    attempts' = IF reply = "rejected" THEN attempts
                ELSE [attempts EXCEPT ![j] = AttemptSet(@, n, status)]

WriteEntry(j, reply, new) ==
    entry' = IF reply = "rejected" THEN entry
             ELSE [entry EXCEPT ![j] = new]

=============================================================================
