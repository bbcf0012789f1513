----------------------------- MODULE JobWorker ------------------------------
(***************************************************************************)
(* JobProcessorService.process, one action per await, in a slot of a       *)
(* BullMQ worker, together with what BullMQ does around it: fetching the   *)
(* entry, finishing it, promoting it, expiring its lock, handing it back.  *)
(*                                                                         *)
(* A call that rejects makes process() reject: no path catches a database  *)
(* error, and BullMQ counts it as a failed attempt like any other.         *)
(***************************************************************************)
EXTENDS PlatformState

GoTo(w, pc) == run' = [run EXCEPT ![w].pc = pc]
Continue(w, reply, pc) == GoTo(w, IF reply = "ok" THEN pc ELSE "reject")
Release(w) == run' = [run EXCEPT ![w] = NoRun]

-----------------------------------------------------------------------------
(* BullMQ hands a waiting entry to a free slot.  The job object keeps the  *)
(* attemptsMade of this moment.                                            *)
Acquire(w, j) ==
    /\ run[w].pc = "free"
    /\ ~paused
    /\ Waiting(entry[j])
    /\ entry' = [entry EXCEPT ![j] = Taken(@, w)]
    /\ run' = [run EXCEPT ![w] =
                 [pc           |-> "findAttempt",
                  job          |-> j,
                  attemptsMade |-> entry[j].attemptsMade,
                  delivery     |-> entry[j].attemptsMade + entry[j].stalls + 1,
                  hasStarted   |-> FALSE]]
    /\ UNCHANGED <<db, payload, paused, api>>

(* startAttempt: findUnique, and AttemptConsistencyError if that attempt   *)
(* has already ended.                                                      *)
FindAttempt(w) ==
    /\ run[w].pc = "findAttempt"
    /\ \E reply \in DbReply :
         Continue(w, reply,
                  IF AttemptClosed(attempts[run[w].job][CurrentAttempt(w)])
                  THEN "reject" ELSE "upsertAttempt")
    /\ UNCHANGED <<db, payload, queue, api>>

(* startAttempt: upsert, whatever the attempt has become since.            *)
UpsertAttempt(w) ==
    /\ run[w].pc = "upsertAttempt"
    /\ \E reply \in DbReply :
         /\ WriteAttempt(run[w].job, CurrentAttempt(w), reply, "PROCESSING")
         /\ Continue(w, reply, "readRow")
    /\ UNCHANGED <<row, payload, queue, api>>

(* markProcessing: findUnique, for the startedAt of the row.               *)
ReadRow(w) ==
    /\ run[w].pc = "readRow"
    /\ \/ run' = [run EXCEPT ![w].pc = "writeProcessing",
                             ![w].hasStarted = row[run[w].job].startedAt # 0]
       \/ "db" \in Faults /\ GoTo(w, "reject")
    /\ UNCHANGED <<db, payload, queue, api>>

(* markProcessing: update.                                                 *)
WriteProcessing(w) ==
    LET j == run[w].job
    IN  /\ run[w].pc = "writeProcessing"
        /\ \E reply \in DbReply :
             /\ WriteRow(j, reply, Processing(row[j], run[w].hasStarted,
                                              run[w].delivery))
             /\ Continue(w, reply, "work")
        /\ UNCHANGED <<attempts, payload, queue, api>>

(* Variant: the update of the attempt is forgotten.                        *)
WorkUnrecorded(w) ==
    /\ run[w].pc = "work"
    /\ GoTo(w, IF SimulationFails(payload[run[w].job], CurrentAttempt(w))
               THEN "rowFailed" ELSE "rowCompleted")
    /\ UNCHANGED <<db, payload, queue, api>>

Work(w) ==
    /\ run[w].pc = "work"
    /\ GoTo(w, IF SimulationFails(payload[run[w].job], CurrentAttempt(w))
               THEN "attemptFailed" ELSE "attemptCompleted")
    /\ UNCHANGED <<db, payload, queue, api>>

MarkAttemptCompleted(w) ==
    /\ run[w].pc = "attemptCompleted"
    /\ \E reply \in DbReply :
         /\ WriteAttempt(run[w].job, CurrentAttempt(w), reply, "COMPLETED")
         /\ Continue(w, reply, "rowCompleted")
    /\ UNCHANGED <<row, payload, queue, api>>

(* Variants: the row is not awaited before process() resolves; this        *)
(* attempt is counted in retryCount.                                       *)
MarkCompletedUnchecked(w) ==
    LET j == run[w].job
    IN  /\ run[w].pc = "rowCompleted"
        /\ \E reply \in DbReply :
             WriteRow(j, reply, Completed(row[j], run[w].attemptsMade))
        /\ GoTo(w, "resolve")
        /\ UNCHANGED <<attempts, payload, queue, api>>

MarkCompletedCountingItself(w) ==
    LET j == run[w].job
    IN  /\ run[w].pc = "rowCompleted"
        /\ \E reply \in DbReply :
             /\ WriteRow(j, reply, Completed(row[j], CurrentAttempt(w)))
             /\ Continue(w, reply, "resolve")
        /\ UNCHANGED <<attempts, payload, queue, api>>

MarkCompleted(w) ==
    LET j == run[w].job
    IN  /\ run[w].pc = "rowCompleted"
        /\ \E reply \in DbReply :
             /\ WriteRow(j, reply, Completed(row[j], run[w].attemptsMade))
             /\ Continue(w, reply, "resolve")
        /\ UNCHANGED <<attempts, payload, queue, api>>

MarkAttemptFailed(w) ==
    /\ run[w].pc = "attemptFailed"
    /\ \E reply \in DbReply :
         /\ WriteAttempt(run[w].job, CurrentAttempt(w), reply, "FAILED")
         /\ Continue(w, reply, "rowFailed")
    /\ UNCHANGED <<row, payload, queue, api>>

(* Variants: off by one in either direction.                               *)
IsFinalAttemptLate(w) == CurrentAttempt(w) > MaxAttempts
IsFinalAttemptEarly(w) == CurrentAttempt(w) + 1 >= MaxAttempts

IsFinalAttempt(w) == CurrentAttempt(w) >= MaxAttempts

(* markFailed on the last attempt, markRetryQueued before it; process()    *)
(* then rethrows.                                                          *)
MarkRowFailed(w) ==
    LET j == run[w].job
    IN  /\ run[w].pc = "rowFailed"
        /\ \E reply \in DbReply :
             WriteRow(j, reply, IF IsFinalAttempt(w)
                                THEN Failed(row[j], CurrentAttempt(w))
                                ELSE RetryQueued(row[j], CurrentAttempt(w)))
        /\ GoTo(w, "reject")
        /\ UNCHANGED <<attempts, payload, queue, api>>

(* process() resolved: the entry is completed, if the run still owns it.   *)
Resolve(w) ==
    LET j == run[w].job
    IN  /\ run[w].pc = "resolve"
        /\ entry' = [entry EXCEPT ![j] =
                       IF OwnedBy(@, w) THEN FinishedOk(@) ELSE @]
        /\ Release(w)
        /\ UNCHANGED <<db, payload, paused, api>>

(* process() rejected: the entry backs off or fails.                       *)
Reject(w) ==
    LET j == run[w].job
    IN  /\ run[w].pc = "reject"
        /\ entry' = [entry EXCEPT ![j] =
                       IF OwnedBy(@, w) THEN FinishedWithError(@) ELSE @]
        /\ Release(w)
        /\ UNCHANGED <<db, payload, paused, api>>

ProcessStep(w) ==
    \/ FindAttempt(w) \/ UpsertAttempt(w) \/ ReadRow(w) \/ WriteProcessing(w)
    \/ Work(w)
    \/ MarkAttemptCompleted(w) \/ MarkCompleted(w)
    \/ MarkAttemptFailed(w) \/ MarkRowFailed(w)
    \/ Resolve(w) \/ Reject(w)

-----------------------------------------------------------------------------
(* Timers of BullMQ.                                                       *)

Promote(j) ==
    /\ entry[j].state = "delayed"
    /\ entry' = [entry EXCEPT ![j] = Promoted(@)]
    /\ UNCHANGED <<db, payload, paused, api, run>>

(* The lock's time to live ends: the owner is dead, or (lockLoss) alive    *)
(* but too slow to renew it.                                               *)
LockExpires(j) ==
    /\ \/ entry[j].lock = Orphan
       \/ "lockLoss" \in Faults /\ entry[j].lock \in Workers
    /\ entry' = [entry EXCEPT ![j] = Unlocked(@)]
    /\ UNCHANGED <<db, payload, paused, api, run>>

(* BullMQ's stalled checker.  The platform's own reaction, the handler of  *)
(* the event 'stalled', writes a log line and nothing else.                *)
StalledCheck(j) ==
    /\ entry[j].state = "active"
    /\ entry[j].lock = NoLock
    /\ entry' = [entry EXCEPT ![j] = Stalled(@)]
    /\ UNCHANGED <<db, payload, paused, api, run>>

-----------------------------------------------------------------------------
(* A worker process dies in the middle of a job, or is stopped, and is     *)
(* started again.                                                          *)

Crash(w) ==
    /\ "crash" \in Faults
    /\ Live(w)
    /\ run' = [run EXCEPT ![w] = [NoRun EXCEPT !.pc = "down"]]
    /\ entry' = [j \in Jobs |-> IF entry[j].lock = w
                                THEN [entry[j] EXCEPT !.lock = Orphan]
                                ELSE entry[j]]
    /\ UNCHANGED <<db, payload, paused, api>>

(* onModuleDestroy: worker.close() fetches nothing more and waits for the  *)
(* runs in progress, so a slot goes down only once it is free.             *)
Close(w) ==
    /\ run[w].pc = "free"
    /\ GoTo(w, "down")
    /\ UNCHANGED <<db, payload, queue, api>>

Restart(w) ==
    /\ run[w].pc = "down"
    /\ Release(w)
    /\ UNCHANGED <<db, payload, queue, api>>

WorkerStep ==
    \/ \E w \in Workers :
         \/ ProcessStep(w) \/ Crash(w) \/ Close(w) \/ Restart(w)
         \/ \E j \in Jobs : Acquire(w, j)
    \/ \E j \in Jobs : Promote(j) \/ LockExpires(j) \/ StalledCheck(j)

=============================================================================
