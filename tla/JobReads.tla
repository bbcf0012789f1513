------------------------------ MODULE JobReads ------------------------------
(***************************************************************************)
(* GET /api/jobs/:id and GET /api/metrics while the platform goes on.      *)
(* Each is answered from several statements, with no transaction around    *)
(* them.  Requests do not disturb each other, so there is one at a time.   *)
(*                                                                         *)
(* A statement that is still to come is answered in the properties from    *)
(* the present state: that is the answer the client gets if nothing        *)
(* changes any more, and so every answer is one of these.                  *)
(***************************************************************************)
EXTENDS JobPlatform

VARIABLE request        \* the read request under way and what it has read

readVars == <<vars, request>>

NoRequest == [kind |-> "none"]
EndStatus == {"COMPLETED", "FAILED"}
Ended == {j \in Jobs : row[j].status \in EndStatus}

-----------------------------------------------------------------------------
(* GET /api/jobs/:id: findUnique with an include is a SELECT of the row    *)
(* and then one of its attempts.  Without a row the answer is 404.         *)
GetJob(j) ==
    /\ request = NoRequest
    /\ row[j] # NoRow
    /\ request' = [kind |-> "job", job |-> j, row |-> row[j]]
    /\ UNCHANGED vars

FindAttempts ==
    /\ request.kind = "job"
    /\ request' = NoRequest
    /\ UNCHANGED vars

(* toJobResponseDto.                                                       *)
JobResponse == [status     |-> request.row.status,
                retryCount |-> request.row.retryCount,
                attempts   |-> attempts[request.job]]

-----------------------------------------------------------------------------
(* GET /api/metrics: Promise.all over two counts of rows, kept here as the *)
(* sets that they count, and the counts of the queue.                      *)
(* History: kept, the jobs that had ended when the request came in and     *)
(* have not moved since; met, those that were ended at any time since.     *)

(* Variant: the jobs with a completedAt are counted as completed.          *)
CountJobsByDate(status) ==
    {j \in Jobs : IF status = "COMPLETED" THEN row[j].completedAt
                  ELSE row[j].status = status}

CountJobs(status) == {j \in Jobs : row[j].status = status}

GetMetrics ==
    /\ request = NoRequest
    /\ request' = [kind |-> "metrics", read |-> {},
                   counted |-> [status \in EndStatus |-> {}],
                   kept |-> Ended, met |-> Ended]
    /\ UNCHANGED vars

(* The first of the two statements, whichever that is, and the last.       *)
Count(status) ==
    /\ request.kind = "metrics"
    /\ status \notin request.read
    /\ request' = IF request.read = {}
                  THEN [request EXCEPT !.read = {status},
                                       !.counted[status] = CountJobs(status)]
                  ELSE NoRequest
    /\ UNCHANGED vars

Counted(status) ==
    IF status \in request.read THEN request.counted[status]
    ELSE CountJobs(status)

(* getJobCounts of QueueService asks BullMQ for "waiting", which is its    *)
(* list "wait".  While the queue is paused that list is called "paused",   *)
(* and counted under that name.                                            *)
InState(state) == Cardinality({j \in Jobs : entry[j].state = state})

GetJobCounts ==
    [waiting |-> IF paused THEN 0 ELSE InState("wait"),
     active  |-> InState("active")]

-----------------------------------------------------------------------------
(* The platform moves on, and the history of a request with it.            *)
PlatformStep ==
    /\ Next
    /\ request' = IF request.kind # "metrics" THEN request
                  ELSE [request EXCEPT
                          !.kept = {j \in @ : row'[j].status = row[j].status},
                          !.met  = @ \cup Ended']

ReadStep ==
    \/ \E j \in Jobs : GetJob(j)
    \/ FindAttempts
    \/ GetMetrics
    \/ \E status \in EndStatus : Count(status)

ReadSpec ==
    Init /\ request = NoRequest /\ [][PlatformStep \/ ReadStep]_readVars

-----------------------------------------------------------------------------

(* Without lockLoss and db: the row of an answer is older than its         *)
(* attempts, and the workers write the attempt first.  So what the row     *)
(* says is always there to see: the attempts up to retryCount have ended,  *)
(* and the next one is the one that made the job COMPLETED.                *)
AnswerShowsAttempts ==
    request.kind = "job" =>
      LET answer == JobResponse
      IN  /\ \A n \in 1 .. answer.retryCount : AttemptClosed(answer.attempts[n])
          /\ answer.status = "COMPLETED" =>
               answer.attempts[answer.retryCount + 1] = "COMPLETED"

(* The two counts of GET /metrics are not of one moment.  Nevertheless a   *)
(* job that had ended and stayed so is counted in exactly one of them, and *)
(* nothing is counted that had not ended at some moment of the request.    *)
MetricsAreBetween ==
    request.kind = "metrics" =>
      LET completed == Counted("COMPLETED")
          failed    == Counted("FAILED")
      IN  /\ request.kept \subseteq completed \cup failed
          /\ request.kept \cap completed \cap failed = {}
          /\ completed \cup failed \subseteq request.met

(* docs/DESIGN.md: the queue length of GET /metrics is the number of       *)
(* waiting jobs, which a paused queue has as well.                         *)
QueueLengthIsReported ==
    ~paused => GetJobCounts.waiting = Cardinality({j \in Jobs : Waiting(entry[j])})

=============================================================================
