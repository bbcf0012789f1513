---------------------------- MODULE JobPlatform -----------------------------
(***************************************************************************)
(* The whole platform: the API process and the workers over PostgreSQL and *)
(* BullMQ, and what must be true of the two stores together.  Which        *)
(* property holds depends on the Faults that are admitted; each comment    *)
(* says under which.                                                       *)
(***************************************************************************)
EXTENDS JobApi, JobWorker, FiniteSets

Init ==
    /\ row = [j \in Jobs |-> NoRow]
    /\ attempts = [j \in Jobs |-> [n \in AttemptNumber |-> "NONE"]]
    /\ payload \in [Jobs -> Payloads]
    /\ entry = [j \in Jobs |-> Absent]
    /\ paused = FALSE
    /\ create = [j \in Jobs |-> "new"]
    /\ cancel \in [CancelRequests -> [pc : {"new"}, job : Jobs]]
    /\ run = [w \in Workers |-> NoRun]

Next == ApiStep \/ WorkerStep

Spec == Init /\ [][Next]_vars

(* Node runs a handler to its next await, BullMQ's timers fire, and free   *)
(* slots fetch.  Nothing obliges a client to send a request, an operator   *)
(* to resume the queue or start a worker, or a fault to happen.            *)
Fairness ==
    /\ \A j \in Jobs : /\ WF_vars(Enqueue(j))
                       /\ WF_vars(MarkEnqueueFailed(j))
                       /\ WF_vars(Promote(j))
                       /\ WF_vars(entry[j].lock = Orphan /\ LockExpires(j))
                       /\ WF_vars(StalledCheck(j))
    /\ \A c \in CancelRequests :
         WF_vars(CancelGetJob(c) \/ CancelRemove(c) \/ CancelMark(c))
    /\ \A w \in Workers : WF_vars(ProcessStep(w))
    /\ WF_vars(\E w \in Workers, j \in Jobs : Acquire(w, j))

FairSpec == Spec /\ Fairness

-----------------------------------------------------------------------------

(* The variables have their types.                                         *)
TypeOK ==
    /\ row \in [Jobs -> JobRow]
    /\ attempts \in [Jobs -> [AttemptNumber -> AttemptStatus]]
    /\ payload \in [Jobs -> Payloads]
    /\ entry \in [Jobs -> Entry]
    /\ paused \in BOOLEAN
    /\ create \in [Jobs -> CreatePC]
    /\ cancel \in [CancelRequests -> CancelRecord]
    /\ run \in [Workers -> Run]

-----------------------------------------------------------------------------
(* Exclusion and cancellation                                              *)

(* Without lockLoss: a process() call in progress owns its queue entry, so *)
(* no job is executed twice at the same time, and neither cancelJob's      *)
(* removal nor the stalled checker can touch a job that is being executed. *)
RunOwnsEntry ==
    \A w \in Workers :
        Live(w) => /\ entry[run[w].job].state = "active"
                   /\ entry[run[w].job].lock = w

(* Without lockLoss and redisLost: a job whose row says CANCELLED is not   *)
(* being executed and has left the queue, and so never will be.            *)
CancelledNeverRuns ==
    \A j \in Jobs :
        row[j].status = "CANCELLED" => RunningOn(j) = {} /\ ~InQueue(entry[j])

(* Without lockLoss and redisLost: nothing overwrites CANCELLED, neither a *)
(* worker's unconditional update nor createJob's late markEnqueueFailed.   *)
CancelledIsFinal ==
    [][\A j \in Jobs :
         row[j].status = "CANCELLED" => row'[j].status = "CANCELLED"]_vars

(* Without redisLost and lockLoss: a job that was answered 202 stays in    *)
(* the queue; only a cancelJob takes it out, and then the row says so, or  *)
(* that handler is about to write it, or it died or lost the database      *)
(* between the removal and the end of markCancelled.  One that ended       *)
(* earlier is no excuse.                                                   *)
AcceptedJobIsKept ==
    \A j \in Jobs :
        create[j] = "accepted" =>
            \/ InQueue(entry[j])
            \/ row[j].status = "CANCELLED"
            \/ \E c \in CancelRequests : /\ cancel[c].job = j
                                         /\ cancel[c].pc \in
                                              {"mark", "unmarked"}

-----------------------------------------------------------------------------
(* The two stores agree                                                    *)

FailedAttempts(j) == {n \in AttemptNumber : attempts[j][n] = "FAILED"}

FirstSuccess(j) ==
    {n \in AttemptNumber : /\ ~SimulationFails(payload[j], n)
                           /\ \A m \in 1 .. n - 1 : SimulationFails(payload[j], m)}

(* Without a worker fault (crash, lockLoss, db) and without redisLost:     *)
(* when the queue is done with a job, its row and its attempt history are  *)
(* the ones its payload determines.                                        *)
OutcomeMatchesPayload ==
    \A j \in Jobs : Finished(entry[j]) =>
        /\ \A n \in FirstSuccess(j) :
             /\ entry[j].state = "completed"
             /\ row[j].status = "COMPLETED"
             /\ row[j].retryCount = n - 1
             /\ FailedAttempts(j) = 1 .. n - 1
             /\ attempts[j][n] = "COMPLETED"
        /\ FirstSuccess(j) = {} =>
             /\ entry[j].state = "failed"
             /\ row[j].status = "FAILED"
             /\ row[j].retryCount = MaxAttempts
             /\ FailedAttempts(j) = AttemptNumber

(* Without lockLoss and redisLost, whatever crashes: an entry that BullMQ  *)
(* completed belongs to a row that says COMPLETED.                         *)
CompletedEntryAgrees ==
    \A j \in Jobs :
        entry[j].state = "completed" => row[j].status = "COMPLETED"

(* docs/DESIGN.md: PROCESSING means that a worker has claimed the job and  *)
(* an attempt is in progress; so the queue cannot be done with it.         *)
ProcessingIsInProgress ==
    \A j \in Jobs : row[j].status = "PROCESSING" => ~Finished(entry[j])

(* Without lockLoss and db: attempt n + 1 is recorded only when attempt n  *)
(* has ended, so a job has one open attempt at most and no gap.            *)
AttemptsInOrder ==
    \A j \in Jobs, n \in 1 .. MaxAttempts - 1 :
        attempts[j][n + 1] # "NONE" => AttemptClosed(attempts[j][n])

(* Without redisLost: the dead-letter view, FAILED with retryCount > 0,    *)
(* lists only jobs that used up their attempts.                            *)
DeadLetterExact ==
    \A j \in Jobs : InDeadLetterView(row[j]) => row[j].retryCount = MaxAttempts

(* Without lockLoss: startedAt is the beginning of the first execution,    *)
(* in spite of the separate read and write in markProcessing.              *)
StartedAtIsKept ==
    [][\A j \in Jobs :
         row[j].startedAt # 0 => row'[j].startedAt = row[j].startedAt]_vars

(* docs/DESIGN.md: a terminal row never becomes non-terminal again.        *)
NoResurrection ==
    [][\A j \in Jobs :
         row[j].status \in TerminalStatus =>
            row'[j].status \in TerminalStatus]_vars

(* docs/API.md: a COMPLETED or FAILED job cannot be cancelled.             *)
EndedIsNotCancelled ==
    [][\A j \in Jobs :
         row[j].status \in {"COMPLETED", "FAILED"} =>
            row'[j].status # "CANCELLED"]_vars

-----------------------------------------------------------------------------
(* Without a worker fault, db and redisLost, the platform implements       *)
(* JobLifecycle, provided that lets a job be cancelled after it has ended: *)
(* whatever the stores and handlers do in between, the rows move only as   *)
(* the lifecycle says and count exactly the attempts that failed.          *)
LateLifecycle ==
    INSTANCE JobLifecycle WITH
        LateCancel <- TRUE,
        status     <- [j \in Jobs |-> row[j].status],
        retryCount <- [j \in Jobs |-> row[j].retryCount]

ImplementsLifecycle == LateLifecycle!Spec

-----------------------------------------------------------------------------
(* Progress, once the queue stays resumed and at no time every slot is down *)

StaysServed == <>[](~paused /\ \E w \in Workers : run[w].pc # "down")

(* Without a worker fault, db and redisLost: an accepted job ends, unless  *)
(* a cancelJob died on it between the removal and markCancelled.           *)
AcceptedJobEnds ==
    StaysServed =>
        \A j \in Jobs :
            create[j] = "accepted" ~>
                \/ row[j].status \in TerminalStatus
                \/ \E c \in CancelRequests : cancel[c] = [pc |-> "unmarked", job |-> j]

(* Under every fault that can hit a job in the queue (crash, lockLoss, db, *)
(* redisLost): the queue gets rid of every entry, because attempts and     *)
(* stalls are both bounded.                                                *)
EntryIsSettled ==
    StaysServed =>
        \A j \in Jobs :
            InQueue(entry[j]) ~> Finished(entry[j]) \/ ~InQueue(entry[j])

=============================================================================
