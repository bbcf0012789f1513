------------------------------- MODULE JobApi -------------------------------
(***************************************************************************)
(* The handlers of the API process that change state: createJob and        *)
(* cancelJob of JobsService, pause and resume of QueueManagementService.   *)
(* An action is the code between two awaits; what happens in between may   *)
(* have changed everything the handler has read.                           *)
(***************************************************************************)
EXTENDS PlatformState

CreateTo(j, pc) == create' = [create EXCEPT ![j] = pc]
CancelTo(c, pc) == cancel' = [cancel EXCEPT ![c].pc = pc]

-----------------------------------------------------------------------------
(* POST /api/jobs                                                          *)

(* When a request wants its job to run.  "distant" is more milliseconds    *)
(* from now than an Int column holds, "invalid" a Date that is not one.    *)
Schedule ==
    [ delayMs : {"none", "negative", "zero", "some", "distant"},
      runAt   : {"none", "past", "some", "distant", "invalid"} ]

(* resolveDelay throws.  A comparison with the time of an invalid Date is  *)
(* false, so it is not refused here.                                       *)
Refused(s) ==
    \/ "none" \notin {s.delayMs, s.runAt}
    \/ s.runAt = "past"
    \/ s.delayMs = "negative"

(* Prisma rejects the row for the value of delayMs or runAt.               *)
Unstorable(s) == {s.delayMs, s.runAt} \cap {"distant", "invalid"} # {}

Valid(s) == ~Refused(s) /\ ~Unstorable(s)

(* A delay of 0 is null in the row and absent in the queue.                *)
IsDelayed(s) == "some" \in {s.delayMs, s.runAt}

(* jobRepository.create: the row is QUEUED before the queue knows the job. *)
CreateRow(j) ==
    /\ create[j] = "new"
    /\ \E s \in Schedule :
         \/ /\ ~Valid(s)
            /\ CreateTo(j, "failed")
            /\ UNCHANGED row
         \/ /\ Valid(s)
            /\ \E reply \in DbReply :
                 /\ WriteRow(j, reply, NewRow)
                 /\ CreateTo(j, IF reply = "ok" THEN "enqueue" ELSE "failed")
    /\ UNCHANGED <<attempts, payload, queue, cancel, run>>

(* Variant: the error of queue.add is swallowed and the client told 202.   *)
EnqueueUnchecked(j) ==
    /\ create[j] = "enqueue"
    /\ \E reply \in RedisReply, s \in Schedule :
         Valid(s) /\ WriteEntry(j, reply, Added(entry[j], IsDelayed(s)))
    /\ CreateTo(j, "accepted")
    /\ UNCHANGED <<db, payload, paused, cancel, run>>

(* queueService.enqueue, for a request whose schedule came through.        *)
Enqueue(j) ==
    /\ create[j] = "enqueue"
    /\ \E reply \in RedisReply, s \in Schedule :
         /\ Valid(s)
         /\ WriteEntry(j, reply, Added(entry[j], IsDelayed(s)))
         /\ CreateTo(j, IF reply = "ok" THEN "accepted" ELSE "markFailed")
    /\ UNCHANGED <<db, payload, paused, cancel, run>>

(* The catch block; whatever the update does, the client gets an error.    *)
MarkEnqueueFailed(j) ==
    /\ create[j] = "markFailed"
    /\ \E reply \in DbReply : WriteRow(j, reply, EnqueueFailed(row[j]))
    /\ CreateTo(j, "failed")
    /\ UNCHANGED <<attempts, payload, queue, cancel, run>>

-----------------------------------------------------------------------------
(* DELETE /api/jobs/:id                                                    *)

(* findById and the status check: 404, 409 or go on.                       *)
CancelRead(c) ==
    LET status == row[cancel[c].job].status
    IN  /\ cancel[c].pc = "new"
        /\ \/ "db" \in Faults /\ CancelTo(c, "failed")
           \/ status = "NONE" /\ CancelTo(c, "notFound")
           \/ status \notin {"NONE", "QUEUED"} /\ CancelTo(c, "conflict")
           \/ status = "QUEUED" /\ CancelTo(c, "getJob")
        /\ UNCHANGED <<db, payload, queue, create, run>>

(* removeJob, first half: queue.getJob.                                    *)
CancelGetJob(c) ==
    /\ cancel[c].pc = "getJob"
    /\ \E reply \in RedisReply :
         CancelTo(c, IF reply = "ok" /\ InQueue(entry[cancel[c].job])
                     THEN "remove" ELSE "conflict")
    /\ UNCHANGED <<db, payload, queue, create, run>>

(* Variant: the error of remove() is swallowed and the row marked anyway.  *)
CancelRemoveUnchecked(c) ==
    LET j == cancel[c].job
    IN  /\ cancel[c].pc = "remove"
        /\ entry' = IF Removable(entry[j])
                    THEN [entry EXCEPT ![j] = Absent] ELSE entry
        /\ CancelTo(c, "mark")
        /\ UNCHANGED <<db, payload, paused, create, run>>

(* Variant: the entry is removed although a worker holds its lock.         *)
CancelRemoveForced(c) ==
    LET j == cancel[c].job
    IN  /\ cancel[c].pc = "remove"
        /\ InQueue(entry[j])
        /\ \E reply \in RedisReply :
             /\ WriteEntry(j, reply, Absent)
             /\ CancelTo(c, IF reply = "ok" THEN "mark" ELSE "conflict")
        /\ UNCHANGED <<db, payload, paused, create, run>>

(* removeJob, second half: job.remove().  Any error becomes a 409.         *)
CancelRemove(c) ==
    LET j == cancel[c].job
    IN  /\ cancel[c].pc = "remove"
        /\ \/ /\ Removable(entry[j])
              /\ \E reply \in RedisReply :
                   /\ WriteEntry(j, reply, Absent)
                   /\ CancelTo(c, IF reply = "ok" THEN "mark" ELSE "conflict")
           \/ /\ ~Removable(entry[j])
              /\ CancelTo(c, "conflict")
              /\ UNCHANGED entry
        /\ UNCHANGED <<db, payload, paused, create, run>>

(* markCancelled, whatever the row has become since it was read.           *)
CancelMark(c) ==
    LET j == cancel[c].job
    IN  /\ cancel[c].pc = "mark"
        /\ \E reply \in DbReply :
             /\ WriteRow(j, reply, Cancelled(row[j]))
             /\ CancelTo(c, IF reply = "ok" THEN "cancelled" ELSE "unmarked")
        /\ UNCHANGED <<attempts, payload, queue, create, run>>

-----------------------------------------------------------------------------
(* POST /api/queue/pause and /resume                                       *)

Pause ==
    /\ ~paused /\ paused' = TRUE
    /\ UNCHANGED <<db, payload, entry, api, run>>

Resume ==
    /\ paused /\ paused' = FALSE
    /\ UNCHANGED <<db, payload, entry, api, run>>

-----------------------------------------------------------------------------
(* The process dies: every handler that is between two awaits is gone, and *)
(* nothing remembers where it was.                                         *)
ApiCrash ==
    /\ "apiCrash" \in Faults
    /\ \/ \E j \in Jobs : create[j] \in CreateInFlight
       \/ \E c \in CancelRequests : cancel[c].pc \in CancelInFlight
    /\ create' = [j \in Jobs |->
                    IF create[j] \in CreateInFlight THEN "died" ELSE create[j]]
    /\ cancel' = [c \in CancelRequests |->
                    IF cancel[c].pc \in CancelInFlight
                    THEN [cancel[c] EXCEPT
                            !.pc = IF @ = "mark" THEN "unmarked" ELSE "died"]
                    ELSE cancel[c]]
    /\ UNCHANGED <<db, payload, queue, run>>

ApiStep ==
    \/ \E j \in Jobs : CreateRow(j) \/ Enqueue(j) \/ MarkEnqueueFailed(j)
    \/ \E c \in CancelRequests :
         CancelRead(c) \/ CancelGetJob(c) \/ CancelRemove(c) \/ CancelMark(c)
    \/ Pause \/ Resume
    \/ ApiCrash

=============================================================================
