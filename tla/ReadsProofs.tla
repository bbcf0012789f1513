---------------------------- MODULE ReadsProofs -----------------------------
(***************************************************************************)
(* What a client may conclude from GET /api/metrics and GET /api/jobs/:id, *)
(* for every number of jobs and whatever the platform does while the       *)
(* statements of the request are executed.                                 *)
(***************************************************************************)
EXTENDS JobReads, StoreProofs

-----------------------------------------------------------------------------
(* GET /api/metrics                                                        *)

MetricsRequest ==
    [ kind    : {"metrics"},
      read    : SUBSET EndStatus,
      counted : [EndStatus -> SUBSET Jobs],
      kept    : SUBSET Jobs,
      met     : SUBSET Jobs ]

(* A count that was taken agrees with the rows of today about every job    *)
(* that has not moved.                                                     *)
CountsHold ==
    request.kind = "metrics" =>
      /\ request \in MetricsRequest
      /\ request.kept \subseteq Ended
      /\ Ended \subseteq request.met
      /\ \A s \in request.read :
           /\ request.counted[s] \subseteq request.met
           /\ \A j \in request.kept :
                j \in request.counted[s] <=> row[j].status = s

(* A new request has counted nothing.                                      *)
LEMMA RequestBegins ==
    ASSUME \/ \E j \in Jobs : GetJob(j)
           \/ FindAttempts \/ GetMetrics
    PROVE  CountsHold'
<1>1. CASE \E j \in Jobs : GetJob(j)
  BY <1>1 DEF GetJob, CountsHold
<1>2. CASE FindAttempts
  BY <1>2 DEF FindAttempts, NoRequest, CountsHold
<1>3. CASE GetMetrics
  BY <1>3 DEF GetMetrics, MetricsRequest, CountsHold, Ended, vars
<1> QED
  BY <1>1, <1>2, <1>3

(* A count taken now agrees with the rows of now.                          *)
LEMMA CountTaken ==
    ASSUME CountsHold, NEW s \in EndStatus, Count(s)
    PROVE  CountsHold'
<1>1. CASE request' = NoRequest
  BY <1>1 DEF NoRequest, CountsHold
<1>2. CASE request' = [request EXCEPT !.read = {s},
                                      !.counted[s] = CountJobs(s)]
  <2>1. /\ request \in MetricsRequest /\ request.kept \subseteq Ended
        /\ Ended \subseteq request.met /\ row' = row
    BY DEF Count, CountsHold, vars
  <2>2. /\ request' \in MetricsRequest
        /\ request'.read = {s} /\ request'.counted[s] = CountJobs(s)
        /\ request'.kept = request.kept /\ request'.met = request.met
    BY <1>2, <2>1 DEF MetricsRequest, CountJobs
  <2>3. CountJobs(s) \subseteq Ended
    BY DEF CountJobs, Ended
  <2> QED
    BY <2>1, <2>2, <2>3 DEF CountsHold, CountJobs, Ended
<1> QED
  BY <1>1, <1>2 DEF Count

(* Jobs that move leave kept, and those that end join met.                 *)
LEMMA PlatformMoves ==
    ASSUME CountsHold, PlatformStep
    PROVE  CountsHold'
<1>1. CASE request.kind # "metrics"
  BY <1>1 DEF PlatformStep, CountsHold
<1>2. CASE request.kind = "metrics"
  <2>1. request \in MetricsRequest
    BY <1>2 DEF CountsHold
  <2>2. Ended' \subseteq Jobs
    BY DEF Ended
  <2>3. /\ request' \in MetricsRequest
        /\ request'.read = request.read /\ request'.counted = request.counted
        /\ request'.kept = {j \in request.kept : row'[j].status = row[j].status}
        /\ request'.met = request.met \cup Ended'
    BY <1>2, <2>1, <2>2 DEF PlatformStep, MetricsRequest
  <2> QED
    BY <1>2, <2>1, <2>3 DEF CountsHold, Ended
<1> QED
  BY <1>1, <1>2

(* GET /api/metrics counts every job that had ended and did not move in    *)
(* exactly one of its two numbers, and nothing that had not ended at some  *)
(* moment of the request: for any jobs, faults and interleaving.           *)
THEOREM MetricsBetween == ReadSpec => []MetricsAreBetween
<1>1. Init /\ request = NoRequest => CountsHold
  BY DEF NoRequest, CountsHold
<1>2. CountsHold /\ [PlatformStep \/ ReadStep]_readVars => CountsHold'
  <2> SUFFICES ASSUME CountsHold, [PlatformStep \/ ReadStep]_readVars
               PROVE  CountsHold'
    OBVIOUS
  <2>1. CASE UNCHANGED readVars
    BY <2>1 DEF CountsHold, Ended, readVars, vars
  <2> QED
    BY <2>1, RequestBegins, CountTaken, PlatformMoves DEF ReadStep
<1>3. CountsHold => MetricsAreBetween
  <2> SUFFICES ASSUME CountsHold, request.kind = "metrics"
               PROVE  MetricsAreBetween
    BY DEF MetricsAreBetween
  <2>1. /\ request.kept \subseteq Ended /\ Ended \subseteq request.met
        /\ Ended \subseteq Jobs
    BY DEF CountsHold, Ended
  <2>2. \A s \in EndStatus :
          /\ Counted(s) \subseteq request.met
          /\ \A j \in request.kept : j \in Counted(s) <=> row[j].status = s
    BY <2>1 DEF CountsHold, Counted, CountJobs, Ended
  <2> QED
    BY <2>1, <2>2 DEF MetricsAreBetween, EndStatus, Ended
<1> QED
  BY <1>1, <1>2, <1>3, PTL DEF ReadSpec

-----------------------------------------------------------------------------
(* GET /api/jobs/:id                                                       *)

(* What the attempts show of a row: those that it counts have ended, and   *)
(* the next one has succeeded if the row says COMPLETED.                   *)
Shown(r, a) ==
    /\ \A n \in 1 .. r.retryCount : AttemptClosed(a[n])
    /\ r.status = "COMPLETED" =>
         r.retryCount < MaxAttempts /\ a[r.retryCount + 1] = "COMPLETED"

(* Between the check at the head of startAttempt and the update that ends  *)
(* the attempt, the attempt of a run is open.                              *)
OpenAwait == {"upsertAttempt", "readRow", "writeProcessing", "work",
              "attemptCompleted", "attemptFailed"}

ShownInv ==
    /\ \A j \in Jobs : Shown(row[j], attempts[j])
    /\ \A w \in Workers :
         run[w].pc \in OpenAwait =>
           ~AttemptClosed(attempts[run[w].job][CurrentAttempt(w)])
    /\ \A w \in Workers :
         run[w].pc = "rowCompleted" =>
           attempts[run[w].job][CurrentAttempt(w)] = "COMPLETED"

(* Nobody writes an attempt that has ended.                                *)
LEMMA ClosedStays ==
    ASSUME Typed, ShownInv, [Next]_vars, NEW j \in Jobs,
           NEW n \in AttemptNumber, AttemptClosed(attempts[j][n])
    PROVE  attempts'[j][n] = attempts[j][n]
<1> SUFFICES ASSUME attempts'[j] # attempts[j]
             PROVE  attempts'[j][n] = attempts[j][n]
  OBVIOUS
<1>1. PICK w \in Workers :
        /\ run[w].job = j /\ run[w].pc \in OpenAwait
        /\ \E s : attempts'[j] = AttemptSet(attempts[j], CurrentAttempt(w), s)
  BY AttemptChanges DEF AttemptChange, OpenAwait
<1>2. CurrentAttempt(w) # n
  BY <1>1 DEF ShownInv
<1> QED
  BY <1>1, <1>2 DEF AttemptSet, Typed

(* So a row, once read, is shown by the attempts of any later moment.      *)
LEMMA ShownStays ==
    ASSUME Typed, ShownInv, [Next]_vars, NEW j \in Jobs, NEW r \in JobRow,
           Shown(r, attempts[j])
    PROVE  Shown(r, attempts'[j])
<1>1. r.retryCount \in 0 .. MaxAttempts /\ MaxAttempts \in Nat
  BY MaxAttemptsAssumption DEF JobRow
<1>2. ASSUME NEW n \in 1 .. r.retryCount
      PROVE  AttemptClosed(attempts'[j][n])
  BY <1>1, ClosedStays DEF Shown, AttemptNumber
<1>3. ASSUME r.status = "COMPLETED"
      PROVE  /\ r.retryCount < MaxAttempts
             /\ attempts'[j][r.retryCount + 1] = "COMPLETED"
  <2>1. /\ r.retryCount < MaxAttempts
        /\ attempts[j][r.retryCount + 1] = "COMPLETED"
    BY <1>3 DEF Shown
  <2>2. r.retryCount + 1 \in AttemptNumber
    BY <1>1, <2>1 DEF AttemptNumber
  <2> QED
    BY <2>1, <2>2, ClosedStays DEF AttemptClosed
<1> QED
  BY <1>2, <1>3 DEF Shown

(* What the updates that leave the columns alone leave shown.              *)
LEMMA ShownColumns ==
    ASSUME NEW r, NEW q, NEW a, Shown(r, a),
           q.retryCount = r.retryCount, q.status # "COMPLETED"
    PROVE  Shown(q, a)
  BY DEF Shown

(* A row that is written is shown by the attempts, because the workers     *)
(* write the attempt first.                                                *)
LEMMA RowWritten ==
    ASSUME Typed, RunOwnsEntry, HistoryInv, ShownInv, [Next]_vars,
           NEW j \in Jobs, row'[j] # row[j]
    PROVE  Shown(row'[j], attempts[j])
<1>0. row[j] \in JobRow /\ RowChange(j) /\ Shown(row[j], attempts[j])
  BY RowChanges DEF Typed, ShownInv
<1>1. CASE row'[j] = NewRow
  <2>1. NewRow.retryCount = 0 /\ NewRow.status = "QUEUED"
    BY DEF NewRow, NoRow
  <2> QED
    BY <1>1, <2>1 DEF Shown
<1>2. CASE row'[j] = EnqueueFailed(row[j]) \/ row'[j] = Cancelled(row[j])
  BY <1>0, <1>2, RowColumns, ShownColumns
<1>3. ASSUME NEW w \in Workers, run[w].job = j, Live(w), RunWrite(w)
      PROVE  Shown(row'[j], attempts[j])
  <2> DEFINE k == run[w].attemptsMade
  <2>1. /\ k \in Nat /\ k < MaxAttempts /\ MaxAttempts \in Nat
        /\ CurrentAttempt(w) = k + 1
    BY <1>3, MaxAttemptsAssumption
    DEF Typed, BoundedRun, RunBounded, Run, Live, CurrentAttempt
  <2>2. \A n \in 1 .. k : AttemptClosed(attempts[j][n])
    <3>1. InQueue(entry[j]) /\ entry[j].attemptsMade = k
      BY <1>3 DEF RunOwnsEntry, InQueue, HistoryInv
    <3> QED
      BY <2>1, <3>1 DEF HistoryInv, AttemptNumber
  <2>3. CASE run[w].pc = "writeProcessing"
    <3>1. /\ row'[j].retryCount = row[j].retryCount
          /\ row'[j].status = "PROCESSING"
      BY <1>0, <1>3, <2>3, RowColumns DEF RunWrite
    <3> QED
      BY <1>0, <3>1, ShownColumns
  <2>4. CASE run[w].pc = "rowCompleted"
    <3>1. row'[j].retryCount = k
      BY <1>0, <1>3, <2>4 DEF RunWrite, Completed, JobRow
    <3>2. attempts[j][k + 1] = "COMPLETED"
      BY <1>3, <2>1, <2>4 DEF ShownInv
    <3> QED
      BY <2>1, <2>2, <3>1, <3>2 DEF Shown
  <2>5. CASE run[w].pc = "rowFailed"
    <3>1. /\ row'[j].retryCount = k + 1
          /\ row'[j].status # "COMPLETED"
      BY <1>0, <1>3, <2>1, <2>5 DEF RunWrite, RetryQueued, Failed, JobRow
    <3>2. AttemptClosed(attempts[j][k + 1])
      BY <1>3, <2>1, <2>5 DEF HistoryInv
    <3> QED
      BY <2>1, <2>2, <3>1, <3>2 DEF Shown
  <2> QED
    BY <1>3, <2>3, <2>4, <2>5 DEF RunWrite
<1> QED
  BY <1>0, <1>1, <1>2, <1>3 DEF RowChange

(* The awaits between the check and the last update of an attempt follow   *)
(* each other in one order.                                                *)
LEMMA OpenStays ==
    ASSUME "db" \notin Faults, Typed, RunOwnsEntry, ShownInv, [Next]_vars,
           NEW w \in Workers
    PROVE  /\ run'[w].pc \in OpenAwait =>
                ~AttemptClosed(attempts'[run'[w].job][run'[w].attemptsMade + 1])
           /\ run'[w].pc = "rowCompleted" =>
                attempts'[run'[w].job][run'[w].attemptsMade + 1] = "COMPLETED"
<1>0. SUFFICES ASSUME run'[w].pc \in OpenAwait \cup {"rowCompleted"}
               PROVE  IF run'[w].pc = "rowCompleted"
                      THEN attempts'[run'[w].job][run'[w].attemptsMade + 1]
                             = "COMPLETED"
                      ELSE ~AttemptClosed(
                              attempts'[run'[w].job][run'[w].attemptsMade + 1])
  BY DEF OpenAwait
<1>1. CASE run'[w] = run[w] /\ ~ProcessStep(w)
  <2>1. Live(w)
    BY <1>0, <1>1 DEF Live, Busy, OpenAwait
  <2> QED
    BY <1>0, <1>1, <2>1, AttemptIsMine DEF ShownInv, CurrentAttempt
<1>2. CASE /\ Live(w) /\ ProcessStep(w) /\ ~Resolve(w) /\ ~Reject(w)
           /\ run'[w].job = run[w].job
           /\ run'[w].attemptsMade = run[w].attemptsMade
  <2> DEFINE j == run[w].job
             n == CurrentAttempt(w)
  <2>1. \A pc : GoTo(w, pc) => run'[w].pc = pc
    BY DEF GoTo, Typed, BoundedRun, Run
  <2>2. /\ j \in Jobs /\ n \in AttemptNumber
        /\ n = run'[w].attemptsMade + 1 /\ run'[w].job = j
    BY <1>2, RunMoves DEF CurrentAttempt
  <2>3. CASE FindAttempt(w)
    BY <1>0, <2>1, <2>2, <2>3
    DEF FindAttempt, Continue, DbReply, db, OpenAwait
  <2>4. CASE UpsertAttempt(w)
    <3>1. /\ attempts'[j][n] = "PROCESSING"
          /\ run'[w].pc = "readRow"
      BY <2>1, <2>2, <2>4
      DEF UpsertAttempt, WriteAttempt, AttemptSet, Continue, DbReply, Typed
    <3> QED
      BY <2>2, <3>1 DEF AttemptClosed
  <2>5. CASE MarkAttemptCompleted(w)
    <3>1. /\ attempts'[j][n] = "COMPLETED"
          /\ run'[w].pc = "rowCompleted"
      BY <2>1, <2>2, <2>5
      DEF MarkAttemptCompleted, WriteAttempt, AttemptSet, Continue, DbReply,
          Typed
    <3> QED
      BY <2>2, <3>1
  <2>6. CASE ReadRow(w) \/ WriteProcessing(w) \/ Work(w)
    <3>1. run[w].pc \in OpenAwait /\ attempts' = attempts
      BY <2>6 DEF ReadRow, WriteProcessing, Work, OpenAwait, db
    <3>2. run'[w].pc # "rowCompleted"
      <4>1. CASE ReadRow(w)
        BY <2>1, <4>1 DEF ReadRow, Typed, BoundedRun, Run
      <4>2. CASE WriteProcessing(w) \/ Work(w)
        BY <2>1, <4>2 DEF WriteProcessing, Work, Continue, DbReply
      <4> QED
        BY <2>6, <4>1, <4>2
    <3> QED
      BY <2>2, <3>1, <3>2 DEF ShownInv
  <2>7. ~MarkAttemptFailed(w) /\ ~MarkCompleted(w) /\ ~MarkRowFailed(w)
    BY <1>0, <2>1
    DEF MarkAttemptFailed, MarkCompleted, MarkRowFailed, Continue, DbReply,
        OpenAwait
  <2> QED
    BY <1>2, <2>3, <2>4, <2>5, <2>6, <2>7 DEF ProcessStep
<1> QED
  BY <1>0, <1>1, <1>2, RunChanges DEF RunChange, Live, Busy, OpenAwait

LEMMA ShownInvInductive ==
    ASSUME "db" \notin Faults
    PROVE  Typed /\ RunOwnsEntry /\ HistoryInv /\ ShownInv /\ [Next]_vars
             => ShownInv'
<1> SUFFICES ASSUME Typed, RunOwnsEntry, HistoryInv, ShownInv, [Next]_vars
             PROVE  ShownInv'
  OBVIOUS
<1>1. ASSUME NEW j \in Jobs PROVE Shown(row'[j], attempts'[j])
  <2>1. CASE row'[j] = row[j]
    BY <2>1, ShownStays DEF ShownInv, Typed
  <2>2. CASE row'[j] # row[j]
    <3>1. attempts'[j] = attempts[j]
      BY <2>2, OneTable
    <3> QED
      BY <2>2, <3>1, RowWritten
  <2> QED
    BY <2>1, <2>2
<1> QED
  BY <1>1, OpenStays DEF ShownInv, CurrentAttempt

(* What the client was or will be given of the row is shown by the         *)
(* attempts of now.                                                        *)
AnswerInv ==
    request.kind = "job" => /\ request.job \in Jobs /\ request.row \in JobRow
                            /\ Shown(request.row, attempts[request.job])

LEMMA AnswerInductive ==
    Typed /\ ShownInv /\ AnswerInv /\ [PlatformStep \/ ReadStep]_readVars
      => AnswerInv'
<1> SUFFICES ASSUME Typed, ShownInv, AnswerInv,
                    [PlatformStep \/ ReadStep]_readVars, request'.kind = "job"
             PROVE  /\ request'.job \in Jobs /\ request'.row \in JobRow
                    /\ Shown(request'.row, attempts'[request'.job])
  BY DEF AnswerInv
<1>1. ASSUME NEW j \in Jobs, GetJob(j)
      PROVE  /\ request'.job \in Jobs /\ request'.row \in JobRow
             /\ Shown(request'.row, attempts'[request'.job])
  BY <1>1 DEF GetJob, ShownInv, Typed, vars
<1>2. ~FindAttempts
  BY DEF FindAttempts, NoRequest
<1>3. ~GetMetrics
  BY DEF GetMetrics
<1>4. ASSUME NEW s \in EndStatus PROVE ~Count(s)
  <2>1. SUFFICES ASSUME Count(s) PROVE FALSE
    OBVIOUS
  <2>2. request' # NoRequest
    BY DEF NoRequest
  <2> QED
    BY <2>1, <2>2 DEF Count
<1>5. CASE request' = request /\ [Next]_vars
  BY <1>5, ShownStays DEF AnswerInv
<1>6. CASE PlatformStep
  <2>1. request.kind # "metrics"
    BY <1>6 DEF PlatformStep
  <2> QED
    BY <1>5, <1>6, <2>1 DEF PlatformStep
<1> QED
  BY <1>1, <1>2, <1>3, <1>4, <1>5, <1>6 DEF ReadStep, readVars

(* A read request writes nothing that the platform sees.                   *)
LEMMA ReadsAreReads == ReadSpec => Spec
<1>1. [PlatformStep \/ ReadStep]_readVars => [Next]_vars
  BY DEF PlatformStep, ReadStep, GetJob, FindAttempts, GetMetrics, Count,
         readVars
<1> QED
  BY <1>1, PTL DEF ReadSpec, Spec

(* Whatever crashes while GET /api/jobs/:id is answered: the attempts in   *)
(* the answer, read after the row, show all that the row says, unless a    *)
(* live worker can lose its lock or a database call can fail.              *)
THEOREM AnswersShowAttempts ==
    ASSUME "lockLoss" \notin Faults, "db" \notin Faults
    PROVE  ReadSpec => []AnswerShowsAttempts
<1>1. Init => ShownInv
  BY DEF Init, ShownInv, Shown, NoRow, NoRun, OpenAwait
<1>2. request = NoRequest => AnswerInv
  BY DEF NoRequest, AnswerInv
<1>3. AnswerInv => AnswerShowsAttempts
  BY DEF AnswerInv, Shown, AnswerShowsAttempts, JobResponse
<1>4. Spec => []ShownInv
  BY <1>1, ShownInvInductive, AlwaysTyped, AlwaysHistoryInv, Exclusion, PTL
  DEF Spec
<1> QED
  BY <1>2, <1>3, <1>4, ReadsAreReads, AnswerInductive, AlwaysTyped, PTL
  DEF ReadSpec

=============================================================================
