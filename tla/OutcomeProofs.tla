--------------------------- MODULE OutcomeProofs ----------------------------
(***************************************************************************)
(* What becomes of a job while the workers live and the stores say what    *)
(* they did, for every set of jobs, slots and requests and every number of *)
(* attempts: its payload determines its row and its attempt history, and   *)
(* the rows of all jobs together move as JobLifecycle says.                *)
(*                                                                         *)
(* The argument is one inductive invariant, OutcomeInv.  It says for every *)
(* place where a job can be, between its two handlers, the queue and the   *)
(* awaits of process(), what its row and its attempts are at that moment.  *)
(***************************************************************************)
EXTENDS StoreProofs

(* No worker dies or loses a lock, and no call that was applied is seen to *)
(* fail.  The API may die and Redis may refuse a call.                     *)
Reliable == {"crash", "lockLoss", "db", "redisLost"} \cap Faults = {}

-----------------------------------------------------------------------------
(* The record of a job in PostgreSQL                                       *)

(* The row and the attempts of a job of which k attempts have failed, each *)
(* because its payload says so; the attempt after them is as given.        *)
Record(r, a, p, status, k, current) ==
    /\ r.status = status /\ r.retryCount = k
    /\ \A n \in AttemptNumber :
         /\ n <= k => a[n] = "FAILED" /\ SimulationFails(p, n)
         /\ n = k + 1 => a[n] = current
         /\ n > k + 1 => a[n] = "NONE"

(* What the updates of a run do to the record of its job.                  *)
LEMMA RecordMoves ==
    ASSUME NEW r \in JobRow, NEW a \in [AttemptNumber -> AttemptStatus],
           NEW p, NEW k \in Nat, k < MaxAttempts,
           NEW status, NEW current, Record(r, a, p, status, k, current)
    PROVE  /\ \A b, d : Record(Processing(r, b, d), a, p, "PROCESSING", k, current)
           /\ Record(Completed(r, k), a, p, "COMPLETED", k, current)
           /\ \A s : Record(r, AttemptSet(a, k + 1, s), p, status, k, s)
           /\ current = "FAILED" /\ SimulationFails(p, k + 1) =>
                /\ Record(Failed(r, k + 1), a, p, "FAILED", k + 1, "NONE")
                /\ Record(RetryQueued(r, k + 1), a, p, "QUEUED", k + 1, "NONE")
<1>0. AttemptNumber \subseteq Nat /\ k + 1 \in AttemptNumber
  BY MaxAttemptsAssumption DEF AttemptNumber
<1>1. \A b, d : Record(Processing(r, b, d), a, p, "PROCESSING", k, current)
  BY RowColumns DEF Record
<1>2. Record(Completed(r, k), a, p, "COMPLETED", k, current)
  <2>1. Completed(r, k).retryCount = k
    BY DEF Completed, JobRow
  <2> QED
    BY <2>1, RowColumns DEF Record
<1>3. ASSUME NEW s PROVE Record(r, AttemptSet(a, k + 1, s), p, status, k, s)
  <2>1. \A n \in AttemptNumber :
          AttemptSet(a, k + 1, s)[n] = IF n = k + 1 THEN s ELSE a[n]
    BY DEF AttemptSet
  <2> QED
    BY <1>0, <2>1 DEF Record
<1>4. ASSUME current = "FAILED", SimulationFails(p, k + 1), NEW q,
             NEW s, q.status = s, q.retryCount = k + 1
      PROVE  Record(q, a, p, s, k + 1, "NONE")
  <2>1. ASSUME NEW n \in AttemptNumber
        PROVE  /\ n <= k + 1 => a[n] = "FAILED" /\ SimulationFails(p, n)
               /\ n > k + 1 => a[n] = "NONE"
    <3>1. n <= k + 1 => n <= k \/ n = k + 1
      BY <1>0
    <3> QED
      BY <1>4, <3>1 DEF Record
  <2>2. \A n \in AttemptNumber : n >= k + 1 + 1 => n > k + 1
    BY <1>0
  <2> QED
    BY <1>0, <1>4, <2>1, <2>2 DEF Record
<1>5. Failed(r, k + 1).retryCount = k + 1 /\ RetryQueued(r, k + 1).retryCount = k + 1
  BY DEF Failed, RetryQueued, JobRow
<1> QED
  BY <1>1, <1>2, <1>3, <1>4, <1>5, RowColumns

(* The record of a job that nobody has begun to execute.                   *)
LEMMA RecordBegins ==
    ASSUME NEW a, NEW p, NEW r, r.retryCount = 0,
           \A n \in AttemptNumber : a[n] = "NONE"
    PROVE  Record(r, a, p, r.status, 0, "NONE")
  BY MaxAttemptsAssumption DEF Record, AttemptNumber

-----------------------------------------------------------------------------
(* Every place of a job, and its record there                              *)

Stands(j, status, k, current) ==
    Record(row[j], attempts[j], payload[j], status, k, current)

(* An active entry has an owner, who is alive.                             *)
HeldInv ==
    \A j \in Jobs : /\ entry[j].lock # Orphan
                    /\ entry[j].state = "active" => entry[j].lock # NoLock

(* Outside process().  A job that is gone may have been cancelled at any   *)
(* time but during an attempt.                                             *)
JobStands(j) ==
    /\ create[j] = "new" => Stands(j, "NONE", 0, "NONE")
    /\ create[j] \in CreateInFlight => Stands(j, "QUEUED", 0, "NONE")
    /\ Gone(j) => row[j].status \in {"QUEUED"} \cup TerminalStatus
    /\ Waiting(entry[j]) \/ entry[j].state = "delayed" =>
         Stands(j, "QUEUED", entry[j].attemptsMade, "NONE")
    /\ entry[j].state = "completed" =>
         \E k \in 0 .. MaxAttempts - 1 :
           /\ ~SimulationFails(payload[j], k + 1)
           /\ Stands(j, "COMPLETED", k, "COMPLETED")
    /\ entry[j].state = "failed" => Stands(j, "FAILED", MaxAttempts, "NONE")

(* At the awaits of process().                                             *)
RunStands(w) ==
    LET j     == run[w].job
        k     == run[w].attemptsMade
        fails == SimulationFails(payload[j], k + 1)
    IN  \/ /\ run[w].pc \in {"findAttempt", "upsertAttempt"}
           /\ Stands(j, "QUEUED", k, "NONE")
        \/ /\ run[w].pc \in {"readRow", "writeProcessing"}
           /\ Stands(j, "QUEUED", k, "PROCESSING")
        \/ /\ run[w].pc = "work"
           /\ Stands(j, "PROCESSING", k, "PROCESSING")
        \/ /\ run[w].pc = "attemptCompleted" /\ ~fails
           /\ Stands(j, "PROCESSING", k, "PROCESSING")
        \/ /\ run[w].pc = "rowCompleted" /\ ~fails
           /\ Stands(j, "PROCESSING", k, "COMPLETED")
        \/ /\ run[w].pc = "resolve" /\ ~fails
           /\ Stands(j, "COMPLETED", k, "COMPLETED")
        \/ /\ run[w].pc = "attemptFailed" /\ fails
           /\ Stands(j, "PROCESSING", k, "PROCESSING")
        \/ /\ run[w].pc = "rowFailed" /\ fails
           /\ Stands(j, "PROCESSING", k, "FAILED")
        \/ /\ run[w].pc = "reject"
           /\ Stands(j, IF k + 1 < MaxAttempts THEN "QUEUED" ELSE "FAILED",
                     k + 1, "NONE")

OutcomeInv ==
    /\ HeldInv
    /\ \A j \in Jobs : JobStands(j)
    /\ \A w \in Workers : Live(w) => RunStands(w)

(* What the proofs below take from the other modules.                      *)
Context == Typed /\ RunOwnsEntry /\ CancelInv /\ HistoryInv

-----------------------------------------------------------------------------
(* Steps that leave the record of a job alone                              *)

LEMMA PayloadStays == [Next]_vars => payload' = payload
  BY DEF Next, ApiStep, CreateRow, Enqueue, MarkEnqueueFailed, CancelRead,
     CancelGetJob, CancelRemove, CancelMark, Pause, Resume, ApiCrash,
     WorkerStep, ProcessStep, FindAttempt, UpsertAttempt, ReadRow,
     WriteProcessing, Work, MarkAttemptCompleted, MarkCompleted,
     MarkAttemptFailed, MarkRowFailed, Resolve, Reject, Crash, Close, Restart,
     Acquire, Promote, LockExpires, StalledCheck, vars

RecordStays(j) ==
    row'[j] = row[j] /\ attempts'[j] = attempts[j] /\ payload'[j] = payload[j]

(* A job that nobody executes and no handler is about to write.            *)
LEMMA IdleStays ==
    ASSUME Context, [Next]_vars, NEW j \in Jobs,
           entry[j].state # "active", ~Gone(j),
           ~CreateRow(j), ~MarkEnqueueFailed(j)
    PROVE  RecordStays(j)
<1>1. \A w \in Workers : ~(Live(w) /\ run[w].job = j)
  BY DEF Context, RunOwnsEntry
<1>2. \A c \in CancelRequests : ~(cancel[c].pc = "mark" /\ cancel[c].job = j)
  BY DEF Context, CancelInv
<1>3. row'[j] = row[j]
  BY <1>1, <1>2, RowChanges DEF RowChange, Context
<1>4. attempts'[j] = attempts[j]
  BY <1>1, AttemptWriter DEF Context
<1> QED
  BY <1>3, <1>4, PayloadStays DEF RecordStays

(* A job in the queue that nobody executes.                                *)
LEMMA QueuedStays ==
    ASSUME Context, [Next]_vars, NEW j \in Jobs,
           InQueue(entry[j]), entry[j].state # "active"
    PROVE  RecordStays(j)
<1>1. create[j] = "accepted" /\ ~Gone(j)
  BY DEF Context, CancelInv, Gone
<1> QED
  BY <1>1, IdleStays DEF CreateRow, MarkEnqueueFailed

(* A job that somebody else's step cannot touch.                           *)
LEMMA MineStays ==
    ASSUME Context, [Next]_vars, NEW w \in Workers, Live(w), ~ProcessStep(w)
    PROVE  RecordStays(run[w].job)
<1> DEFINE j == run[w].job
<1>1. j \in Jobs /\ InQueue(entry[j])
  BY DEF Context, Typed, BoundedRun, RunBounded, Live, RunOwnsEntry, InQueue
<1>2. create[j] = "accepted" /\ ~Gone(j)
  BY <1>1 DEF Context, CancelInv, Gone
<1>3. \A u \in Workers : Live(u) /\ run[u].job = j => u = w
  BY DEF Context, RunOwnsEntry
<1>4. row'[j] = row[j]
  BY <1>1, <1>2, <1>3, RowChanges DEF RowChange, Context, CancelInv
<1> QED
  BY <1>4, AttemptIsMine, PayloadStays DEF RecordStays, Context

LEMMA StandsStays ==
    ASSUME NEW j \in Jobs, RecordStays(j), NEW status, NEW k, NEW current,
           Stands(j, status, k, current)
    PROVE  Record(row'[j], attempts'[j], payload'[j], status, k, current)
  BY DEF Stands, RecordStays

-----------------------------------------------------------------------------
(* The invariant, part by part                                             *)

LEMMA HeldInductive ==
    ASSUME Reliable
    PROVE  Typed /\ HeldInv /\ [Next]_vars => HeldInv'
<1> SUFFICES ASSUME Typed, HeldInv, [Next]_vars, NEW j \in Jobs
             PROVE  /\ entry'[j].lock # Orphan
                    /\ entry'[j].state = "active" => entry'[j].lock # NoLock
  BY DEF HeldInv
<1>0. /\ "crash" \notin Faults /\ "lockLoss" \notin Faults
      /\ entry[j] \in Entry
      /\ entry[j].lock # Orphan
      /\ entry[j].state = "active" => entry[j].lock # NoLock
      /\ Orphan # NoLock
      /\ \A w \in Workers : w # Orphan /\ w # NoLock
  BY WorkersAssumption
  DEF Reliable, Typed, BoundedEntry, HeldInv, Orphan, NoLock
<1>1. CASE entry'[j] = entry[j]
  BY <1>0, <1>1
<1>2. CASE EntryChange(j)
  <2>1. /\ Absent.lock = NoLock /\ Absent.state # "active"
        /\ \A b \in BOOLEAN : ~InQueue(entry[j]) =>
             /\ Added(entry[j], b).lock = NoLock
             /\ Added(entry[j], b).state # "active"
        /\ \A w : Taken(entry[j], w).lock = w
    BY <1>0 DEF Absent, Added, Taken, Entry
  <2>2. /\ FinishedOk(entry[j]).lock = NoLock
        /\ FinishedOk(entry[j]).state # "active"
        /\ FinishedWithError(entry[j]).lock = NoLock
        /\ FinishedWithError(entry[j]).state # "active"
        /\ Promoted(entry[j]).lock = entry[j].lock
        /\ Promoted(entry[j]).state # "active"
    BY <1>0 DEF FinishedOk, FinishedWithError, Promoted, Entry
  <2>3. ~LockExpires(j) /\ ~StalledCheck(j)
    BY <1>0 DEF LockExpires, StalledCheck
  <2>4. \A w \in Workers : ~Crash(w)
    BY <1>0 DEF Crash
  <2> QED
    BY <1>0, <1>2, <2>1, <2>2, <2>3, <2>4 DEF EntryChange
<1> QED
  BY <1>1, <1>2, EntryChanges

(* While createJob has not answered, the row is the one it created.        *)
LEMMA CreateStands ==
    ASSUME Reliable, Context, OutcomeInv, [Next]_vars, NEW j \in Jobs
    PROVE  /\ create'[j] = "new" =>
                Record(row'[j], attempts'[j], payload'[j], "NONE", 0, "NONE")
           /\ create'[j] \in CreateInFlight =>
                Record(row'[j], attempts'[j], payload'[j], "QUEUED", 0, "NONE")
<1>0. CreateMove(j) /\ JobStands(j)
  BY CreateMoves DEF Context, OutcomeInv
<1>1. ASSUME create[j] \in {"new"} \cup CreateInFlight,
             ~CreateRow(j), ~MarkEnqueueFailed(j)
      PROVE  RecordStays(j)
  <2>1. entry[j].state # "active" /\ ~Gone(j)
    BY <1>1 DEF Context, CancelInv, Gone, InQueue, CreateInFlight
  <2> QED
    BY <1>1, <2>1, IdleStays
<1>2. ASSUME create'[j] = "new"
      PROVE  Record(row'[j], attempts'[j], payload'[j], "NONE", 0, "NONE")
  <2>1. create[j] = "new" /\ ~CreateRow(j) /\ ~MarkEnqueueFailed(j)
    BY <1>0, <1>2 DEF CreateMove, MarkEnqueueFailed
  <2> QED
    BY <1>0, <1>1, <2>1, StandsStays DEF JobStands
<1>3. ASSUME create'[j] \in CreateInFlight, create[j] \in CreateInFlight,
             ~MarkEnqueueFailed(j)
      PROVE  Record(row'[j], attempts'[j], payload'[j], "QUEUED", 0, "NONE")
  <2>1. ~CreateRow(j)
    BY <1>3 DEF CreateRow, CreateInFlight
  <2> QED
    BY <1>0, <1>1, <1>3, <2>1, StandsStays DEF JobStands
<1>4. ASSUME create'[j] \in CreateInFlight, CreateRow(j)
      PROVE  Record(row'[j], attempts'[j], payload'[j], "QUEUED", 0, "NONE")
  <2>1. row'[j] = NewRow /\ attempts' = attempts /\ create[j] = "new"
    BY <1>4
    DEF CreateRow, CreateTo, WriteRow, DbReply, Reliable, CreateInFlight,
        Context, Typed
  <2>2. NewRow.retryCount = 0 /\ NewRow.status = "QUEUED"
    BY DEF NewRow, NoRow
  <2>3. \A n \in AttemptNumber : attempts'[j][n] = "NONE"
    BY <2>1 DEF Context, HistoryInv
  <2> QED
    BY <2>1, <2>2, <2>3, RecordBegins
<1> QED
  BY <1>0, <1>2, <1>3, <1>4 DEF CreateMove

(* A job leaves the queue when it has not begun, between two attempts, or  *)
(* when it has ended; after that only cancelJob writes its row.            *)
LEMMA GoneStands ==
    ASSUME Reliable, Context, OutcomeInv, [Next]_vars, NEW j \in Jobs, Gone(j)'
    PROVE  row'[j].status \in {"QUEUED"} \cup TerminalStatus
<1>1. CASE Gone(j)
  BY <1>1, GoneIsCancelled
  DEF Context, OutcomeInv, JobStands, TerminalStatus
<1>2. CASE InQueue(entry[j])
  <2>0. entry'[j] # entry[j] /\ EntryChange(j) /\ entry[j] \in BoundedEntry
    BY <1>2, EntryChanges DEF Gone, Context, Typed
  <2>1. entry'[j] = Absent /\ entry[j].lock = NoLock
    <3>1. /\ \A w : InQueue(Taken(entry[j], w))
          /\ InQueue(FinishedOk(entry[j])) /\ InQueue(FinishedWithError(entry[j]))
          /\ InQueue(Promoted(entry[j])) /\ InQueue(Stalled(entry[j]))
          /\ InQueue([entry[j] EXCEPT !.lock = Orphan])
      BY <1>2, <2>0 DEF InQueue, Taken, FinishedOk, FinishedWithError, Promoted,
                  Stalled, BoundedEntry, Entry
    <3>2. InQueue(Unlocked(entry[j]))
      BY <1>2, <2>0 DEF InQueue, Unlocked, BoundedEntry, Entry
    <3>3. ~InQueue(entry'[j])
      BY DEF Gone
    <3> QED
      BY <1>2, <2>0, <3>1, <3>2, <3>3 DEF EntryChange
  <2>2. entry[j].state # "active"
    BY <2>1 DEF OutcomeInv, HeldInv
  <2>3. row'[j] = row[j]
    BY <1>2, <2>2, QueuedStays DEF RecordStays
  <2>4. \/ Waiting(entry[j]) \/ entry[j].state = "delayed"
        \/ entry[j].state = "completed" \/ entry[j].state = "failed"
    BY <1>2, <2>0, <2>2 DEF BoundedEntry, Entry, EntryState, InQueue, Waiting
  <2>5. row[j].status \in {"QUEUED", "COMPLETED", "FAILED"}
    BY <2>4 DEF OutcomeInv, JobStands, Stands, Record
  <2> QED
    BY <2>3, <2>5 DEF TerminalStatus
<1>3. CASE ~InQueue(entry[j]) /\ create[j] # "accepted"
  <2>1. Enqueue(j) /\ create'[j] = "accepted"
    BY <1>3, CreateMoves DEF CreateMove, Gone, Context
  <2>2. PICK reply \in RedisReply, b \in BOOLEAN :
          /\ WriteEntry(j, reply, Added(entry[j], b))
          /\ CreateTo(j, IF reply = "ok" THEN "accepted" ELSE "markFailed")
    BY <2>1, EnqueueAdds
  <2>3. reply = "ok"
    BY <2>1, <2>2 DEF CreateTo, Context, Typed
  <2>4. entry'[j] = Added(entry[j], b)
    BY <2>2, <2>3 DEF WriteEntry, Context, Typed
  <2>5. InQueue(Added(entry[j], b))
    BY DEF Added, InQueue, Absent
  <2> QED
    BY <2>4, <2>5 DEF Gone
<1> QED
  BY <1>1, <1>2, <1>3 DEF Gone

(* An entry that waits has the record of the attempts that it counts.      *)
LEMMA WaitingStands ==
    ASSUME Reliable, Context, OutcomeInv, [Next]_vars, NEW j \in Jobs,
           Waiting(entry'[j]) \/ entry'[j].state = "delayed"
    PROVE  Record(row'[j], attempts'[j], payload'[j], "QUEUED",
                  entry'[j].attemptsMade, "NONE")
<1>0. /\ entry[j] \in BoundedEntry /\ JobStands(j)
      /\ InQueue(entry'[j]) /\ entry'[j].state \notin {"active", "completed", "failed"}
  BY DEF Context, Typed, OutcomeInv, Waiting, InQueue
<1>1. CASE entry'[j] = entry[j]
  BY <1>0, <1>1, QueuedStays, StandsStays DEF JobStands
<1>2. CASE EntryChange(j)
  <2>1. CASE Enqueue(j) /\ ~InQueue(entry[j])
             /\ \E b \in BOOLEAN : entry'[j] = Added(entry[j], b)
    <3>1. create[j] = "enqueue" /\ row' = row /\ attempts' = attempts
      BY <2>1 DEF Enqueue, db
    <3>2. entry'[j].attemptsMade = 0
      BY <1>0, <2>1, EntryCounts
    <3> QED
      BY <1>0, <3>1, <3>2, PayloadStays DEF JobStands, CreateInFlight, Stands
  <2>2. CASE Promote(j) /\ entry'[j] = Promoted(entry[j])
    <3>1. entry'[j].attemptsMade = entry[j].attemptsMade
      BY <1>0, <2>2, EntryCounts
    <3>2. entry[j].state = "delayed"
      BY <2>2 DEF Promote
    <3>3. RecordStays(j)
      BY <3>2, QueuedStays DEF InQueue
    <3> QED
      BY <1>0, <3>1, <3>2, <3>3, StandsStays DEF JobStands
  <2>3. ASSUME NEW w \in Workers, Reject(w), run[w].job = j,
               entry'[j] = FinishedWithError(entry[j])
        PROVE  Record(row'[j], attempts'[j], payload'[j], "QUEUED",
                      entry'[j].attemptsMade, "NONE")
    <3>1. /\ run[w].pc = "reject" /\ Live(w)
          /\ row' = row /\ attempts' = attempts
      BY <2>3 DEF Reject, Live, Busy, db
    <3>2. run[w].attemptsMade = entry[j].attemptsMade
      BY <2>3, <3>1 DEF Context, HistoryInv
    <3>3. /\ entry'[j].attemptsMade = entry[j].attemptsMade + 1
          /\ entry[j].attemptsMade + 1 < MaxAttempts
      BY <1>0, <2>3 DEF FinishedWithError, BoundedEntry, Entry
    <3>4. Stands(j, "QUEUED", entry[j].attemptsMade + 1, "NONE")
      BY <2>3, <3>1, <3>2, <3>3 DEF OutcomeInv, RunStands
    <3> QED
      BY <3>1, <3>3, <3>4, PayloadStays DEF Stands
  <2>4. /\ ~InQueue(Absent)
        /\ \A w : Taken(entry[j], w).state = "active"
        /\ FinishedOk(entry[j]).state = "completed"
    BY <1>0 DEF Absent, InQueue, Taken, FinishedOk, BoundedEntry, Entry
  <2>5. ~LockExpires(j) /\ ~StalledCheck(j) /\ \A w \in Workers : ~Crash(w)
    BY DEF LockExpires, StalledCheck, Crash, Reliable, OutcomeInv, HeldInv
  <2> QED
    BY <1>0, <1>2, <2>1, <2>2, <2>3, <2>4, <2>5 DEF EntryChange
<1> QED
  BY <1>1, <1>2, EntryChanges DEF Context

(* A finished entry has the record of how its last run ended.              *)
LEMMA FinishedStands ==
    ASSUME Reliable, Context, OutcomeInv, [Next]_vars, NEW j \in Jobs,
           Finished(entry'[j])
    PROVE  /\ entry'[j].state = "completed" =>
                \E k \in 0 .. MaxAttempts - 1 :
                  /\ ~SimulationFails(payload'[j], k + 1)
                  /\ Record(row'[j], attempts'[j], payload'[j], "COMPLETED", k,
                            "COMPLETED")
           /\ entry'[j].state = "failed" =>
                Record(row'[j], attempts'[j], payload'[j], "FAILED",
                       MaxAttempts, "NONE")
<1>0. /\ entry[j] \in BoundedEntry /\ JobStands(j)
      /\ InQueue(entry'[j]) /\ payload' = payload
  BY PayloadStays DEF Context, Typed, OutcomeInv, Finished, InQueue
<1>1. CASE entry'[j] = entry[j]
  <2>1. RecordStays(j)
    BY <1>0, <1>1, QueuedStays DEF Finished
  <2> QED
    BY <1>0, <1>1, <2>1, StandsStays DEF JobStands
<1>2. CASE EntryChange(j)
  <2>1. ASSUME NEW w \in Workers, Resolve(w), run[w].job = j,
               entry'[j] = FinishedOk(entry[j])
        PROVE  /\ entry'[j].state = "completed"
               /\ \E k \in 0 .. MaxAttempts - 1 :
                    /\ ~SimulationFails(payload'[j], k + 1)
                    /\ Record(row'[j], attempts'[j], payload'[j], "COMPLETED",
                              k, "COMPLETED")
    <3>1. /\ run[w].pc = "resolve" /\ Live(w)
          /\ row' = row /\ attempts' = attempts
      BY <2>1 DEF Resolve, Live, Busy, db
    <3>2. run[w].attemptsMade \in 0 .. MaxAttempts - 1
      BY <3>1, MaxAttemptsAssumption
      DEF Context, Typed, BoundedRun, RunBounded, Run, Live
    <3>3. /\ ~SimulationFails(payload[j], run[w].attemptsMade + 1)
          /\ Stands(j, "COMPLETED", run[w].attemptsMade, "COMPLETED")
      BY <2>1, <3>1 DEF OutcomeInv, RunStands
    <3>4. entry'[j].state = "completed"
      BY <1>0, <2>1 DEF FinishedOk, BoundedEntry, Entry
    <3> QED
      BY <1>0, <3>1, <3>2, <3>3, <3>4 DEF Stands
  <2>2. ASSUME NEW w \in Workers, Reject(w), run[w].job = j,
               entry'[j] = FinishedWithError(entry[j])
        PROVE  /\ entry'[j].state = "failed"
               /\ Record(row'[j], attempts'[j], payload'[j], "FAILED",
                         MaxAttempts, "NONE")
    <3>1. /\ run[w].pc = "reject" /\ Live(w)
          /\ row' = row /\ attempts' = attempts
      BY <2>2 DEF Reject, Live, Busy, db
    <3>2. run[w].attemptsMade = entry[j].attemptsMade
      BY <2>2, <3>1 DEF Context, HistoryInv
    <3>3. /\ entry'[j].state = "failed"
          /\ ~(entry[j].attemptsMade + 1 < MaxAttempts)
      BY <1>0, <2>2 DEF FinishedWithError, BoundedEntry, Entry, Finished
    <3>4. entry[j].attemptsMade + 1 = MaxAttempts
      <4>1. run[w].attemptsMade < MaxAttempts /\ entry[j].attemptsMade \in Nat
        BY <1>0, <3>1
        DEF Context, Typed, BoundedRun, RunBounded, Live, BoundedEntry, Entry
      <4> QED
        BY <3>2, <3>3, <4>1, MaxAttemptsAssumption
    <3>5. Stands(j, "FAILED", MaxAttempts, "NONE")
      BY <2>2, <3>1, <3>2, <3>3, <3>4 DEF OutcomeInv, RunStands
    <3> QED
      BY <1>0, <3>1, <3>3, <3>5 DEF Stands
  <2>3. /\ ~InQueue(Absent)
        /\ \A w : Taken(entry[j], w).state = "active"
        /\ Promoted(entry[j]).state = "prioritized"
        /\ \A b \in BOOLEAN : ~InQueue(entry[j]) =>
             Added(entry[j], b).state \in {"delayed", "prioritized"}
    BY <1>0 DEF Absent, InQueue, Taken, Promoted, Added, BoundedEntry, Entry
  <2>4. ~LockExpires(j) /\ ~StalledCheck(j) /\ \A w \in Workers : ~Crash(w)
    BY DEF LockExpires, StalledCheck, Crash, Reliable, OutcomeInv, HeldInv
  <2> QED
    BY <1>0, <1>2, <2>1, <2>2, <2>3, <2>4 DEF EntryChange, Finished
<1> QED
  BY <1>1, <1>2, EntryChanges DEF Context

(* A fetched entry, and each await of process(), hands the next one the    *)
(* record that it needs.                                                   *)
LEMMA AwaitStands ==
    ASSUME Reliable, Context, OutcomeInv, [Next]_vars, NEW w \in Workers,
           Live(w), ProcessStep(w), ~Resolve(w), ~Reject(w), Live(w)'
    PROVE  RunStands(w)'
<1> DEFINE j == run[w].job
           k == run[w].attemptsMade
           r == row[j]
           a == attempts[j]
           p == payload[j]
<1>0. /\ j \in Jobs /\ r \in JobRow /\ a \in [AttemptNumber -> AttemptStatus]
      /\ k \in Nat /\ k < MaxAttempts /\ CurrentAttempt(w) = k + 1
      /\ run'[w].job = j /\ run'[w].attemptsMade = k
      /\ payload'[j] = p /\ RunStands(w) /\ MaxAttempts \in Nat
  <2>1. /\ run'[w].job = j /\ run'[w].attemptsMade = k
    BY AwaitKeeps DEF Context
  <2> QED
    BY <2>1, PayloadStays, MaxAttemptsAssumption
    DEF Context, Typed, BoundedRun, RunBounded, Run, Live, OutcomeInv,
        CurrentAttempt
<1>1. /\ DbReply = {"ok"}
      /\ \A pc : GoTo(w, pc) => run'[w].pc = pc
  BY DEF DbReply, Reliable, GoTo, Context, Typed, BoundedRun, Run
<1>2. \A s, c : Record(r, a, p, s, k, c) => 
        /\ \A b, d : Record(Processing(r, b, d), a, p, "PROCESSING", k, c)
        /\ Record(Completed(r, k), a, p, "COMPLETED", k, c)
        /\ \A t : Record(r, AttemptSet(a, k + 1, t), p, s, k, t)
        /\ c = "FAILED" /\ SimulationFails(p, k + 1) =>
             /\ Record(Failed(r, k + 1), a, p, "FAILED", k + 1, "NONE")
             /\ Record(RetryQueued(r, k + 1), a, p, "QUEUED", k + 1, "NONE")
  BY <1>0, RecordMoves
<1>3. CASE FindAttempt(w)
  <2>1. Record(r, a, p, "QUEUED", k, "NONE") /\ row' = row /\ attempts' = attempts
    BY <1>0, <1>3 DEF FindAttempt, RunStands, Stands, db
  <2>2. ~AttemptClosed(a[k + 1])
    BY <1>0, <2>1 DEF Record, AttemptNumber, AttemptClosed
  <2>3. run'[w].pc = "upsertAttempt"
    BY <1>0, <1>1, <1>3, <2>2 DEF FindAttempt, Continue
  <2> QED
    BY <1>0, <2>1, <2>3 DEF RunStands, Stands
<1>4. CASE UpsertAttempt(w)
  <2>1. /\ Record(r, a, p, "QUEUED", k, "NONE") /\ row' = row
        /\ attempts'[j] = AttemptSet(a, k + 1, "PROCESSING")
        /\ run'[w].pc = "readRow"
    BY <1>0, <1>1, <1>4
    DEF UpsertAttempt, RunStands, Stands, WriteAttempt, Continue, Context, Typed
  <2> QED
    BY <1>0, <1>2, <2>1 DEF RunStands, Stands
<1>5. CASE ReadRow(w)
  <2>1. /\ Record(r, a, p, "QUEUED", k, "PROCESSING")
        /\ row' = row /\ attempts' = attempts
    BY <1>0, <1>5 DEF ReadRow, RunStands, Stands, db
  <2>2. run'[w].pc = "writeProcessing"
    BY <1>5 DEF ReadRow, Reliable, Context, Typed, BoundedRun, Run
  <2> QED
    BY <1>0, <2>1, <2>2 DEF RunStands, Stands
<1>6. CASE WriteProcessing(w)
  <2>1. /\ Record(r, a, p, "QUEUED", k, "PROCESSING") /\ attempts' = attempts
        /\ \E b, d : row'[j] = Processing(r, b, d)
        /\ run'[w].pc = "work"
    BY <1>0, <1>1, <1>6
    DEF WriteProcessing, RunStands, Stands, WriteRow, Continue, Context, Typed
  <2> QED
    BY <1>0, <1>2, <2>1 DEF RunStands, Stands
<1>7. CASE Work(w)
  <2>1. /\ Record(r, a, p, "PROCESSING", k, "PROCESSING")
        /\ row' = row /\ attempts' = attempts
    BY <1>0, <1>7 DEF Work, RunStands, Stands, db
  <2>2. run'[w].pc = IF SimulationFails(p, k + 1) THEN "attemptFailed"
                     ELSE "attemptCompleted"
    BY <1>0, <1>1, <1>7 DEF Work
  <2> QED
    BY <1>0, <2>1, <2>2 DEF RunStands, Stands
<1>8. CASE MarkAttemptCompleted(w)
  <2>1. /\ Record(r, a, p, "PROCESSING", k, "PROCESSING") /\ row' = row
        /\ ~SimulationFails(p, k + 1)
        /\ attempts'[j] = AttemptSet(a, k + 1, "COMPLETED")
        /\ run'[w].pc = "rowCompleted"
    BY <1>0, <1>1, <1>8
    DEF MarkAttemptCompleted, RunStands, Stands, WriteAttempt, Continue,
        Context, Typed
  <2> QED
    BY <1>0, <1>2, <2>1 DEF RunStands, Stands
<1>9. CASE MarkCompleted(w)
  <2>1. /\ Record(r, a, p, "PROCESSING", k, "COMPLETED") /\ attempts' = attempts
        /\ ~SimulationFails(p, k + 1)
        /\ row'[j] = Completed(r, k)
        /\ run'[w].pc = "resolve"
    BY <1>0, <1>1, <1>9
    DEF MarkCompleted, RunStands, Stands, WriteRow, Continue, Context, Typed
  <2> QED
    BY <1>0, <1>2, <2>1 DEF RunStands, Stands
<1>10. CASE MarkAttemptFailed(w)
  <2>1. /\ Record(r, a, p, "PROCESSING", k, "PROCESSING") /\ row' = row
        /\ SimulationFails(p, k + 1)
        /\ attempts'[j] = AttemptSet(a, k + 1, "FAILED")
        /\ run'[w].pc = "rowFailed"
    BY <1>0, <1>1, <1>10
    DEF MarkAttemptFailed, RunStands, Stands, WriteAttempt, Continue,
        Context, Typed
  <2> QED
    BY <1>0, <1>2, <2>1 DEF RunStands, Stands
<1>11. CASE MarkRowFailed(w)
  <2>1. /\ Record(r, a, p, "PROCESSING", k, "FAILED") /\ attempts' = attempts
        /\ SimulationFails(p, k + 1)
        /\ row'[j] = IF k + 1 >= MaxAttempts THEN Failed(r, k + 1)
                     ELSE RetryQueued(r, k + 1)
        /\ run'[w].pc = "reject"
    BY <1>0, <1>1, <1>11
    DEF MarkRowFailed, RunStands, Stands, WriteRow, Context, Typed,
        IsFinalAttempt
  <2>2. k + 1 >= MaxAttempts <=> ~(k + 1 < MaxAttempts)
    BY <1>0
  <2>3. Record(row'[j], attempts'[j], payload'[j],
               IF k + 1 < MaxAttempts THEN "QUEUED" ELSE "FAILED", k + 1, "NONE")
    BY <1>0, <1>2, <2>1, <2>2
  <2> QED
    BY <1>0, <2>1, <2>3 DEF RunStands, Stands
<1> QED
  BY <1>3, <1>4, <1>5, <1>6, <1>7, <1>8, <1>9, <1>10, <1>11 DEF ProcessStep

LEMMA RunInductive ==
    ASSUME Reliable, Context, OutcomeInv, [Next]_vars, NEW w \in Workers,
           Live(w)'
    PROVE  RunStands(w)'
<1>1. CASE run'[w] = run[w] /\ ~ProcessStep(w)
  <2>1. Live(w) /\ RecordStays(run[w].job) /\ RunStands(w)
    BY <1>1, MineStays DEF Live, OutcomeInv
  <2> QED
    BY <1>1, <2>1 DEF RunStands, Stands, RecordStays
<1>2. ASSUME NEW j \in Jobs, Acquire(w, j), run'[w].job = j,
             run'[w].pc = "findAttempt",
             run'[w].attemptsMade = entry[j].attemptsMade
      PROVE  RunStands(w)'
  <2>1. /\ Waiting(entry[j]) /\ row' = row /\ attempts' = attempts
        /\ payload' = payload
    BY <1>2 DEF Acquire, db
  <2>2. Stands(j, "QUEUED", entry[j].attemptsMade, "NONE")
    BY <2>1 DEF OutcomeInv, JobStands
  <2> QED
    BY <1>2, <2>1, <2>2 DEF RunStands, Stands
<1> QED
  BY <1>1, <1>2, AwaitStands, RunChanges DEF RunChange, Context

LEMMA OutcomeInvInductive ==
    ASSUME Reliable
    PROVE  Context /\ OutcomeInv /\ [Next]_vars => OutcomeInv'
<1> SUFFICES ASSUME Context, OutcomeInv, [Next]_vars PROVE OutcomeInv'
  OBVIOUS
<1>1. HeldInv'
  BY HeldInductive DEF Context, OutcomeInv
<1>2. ASSUME NEW j \in Jobs PROVE JobStands(j)'
  <2>1. entry'[j].state \in {"completed", "failed"} => Finished(entry'[j])
    BY DEF Finished
  <2> QED
    BY <2>1, CreateStands, GoneStands, WaitingStands, FinishedStands
    DEF JobStands, Stands
<1>3. \A w \in Workers : Live(w)' => RunStands(w)'
  BY RunInductive
<1> QED
  BY <1>1, <1>2, <1>3 DEF OutcomeInv

LEMMA InitOutcomeInv == Init => OutcomeInv
<1> SUFFICES ASSUME Init PROVE OutcomeInv
  OBVIOUS
<1>1. HeldInv
  BY DEF Init, HeldInv, Absent, NoLock, Orphan
<1>2. ASSUME NEW j \in Jobs PROVE JobStands(j)
  <2>1. /\ row[j].retryCount = 0 /\ row[j].status = "NONE"
        /\ \A n \in AttemptNumber : attempts[j][n] = "NONE"
        /\ create[j] = "new" /\ entry[j].state = "absent"
    BY <1>2 DEF Init, NoRow, Absent
  <2>2. Stands(j, "NONE", 0, "NONE")
    BY <2>1, RecordBegins DEF Stands
  <2> QED
    BY <2>1, <2>2 DEF JobStands, CreateInFlight, Gone, Waiting
<1>3. \A w \in Workers : ~Live(w)
  BY DEF Init, Live, NoRun, Busy
<1> QED
  BY <1>1, <1>2, <1>3 DEF OutcomeInv

LEMMA AlwaysOutcomeInv ==
    ASSUME Reliable
    PROVE  Spec => [](Context /\ OutcomeInv)
<1>1. "lockLoss" \notin Faults /\ "db" \notin Faults /\ "redisLost" \notin Faults
  BY DEF Reliable
<1>2. Spec => []Context
  BY <1>1, AlwaysTyped, Exclusion, AlwaysCancelInv, AlwaysHistoryInv, PTL
  DEF Context
<1> QED
  BY <1>2, InitOutcomeInv, OutcomeInvInductive, PTL DEF Spec

-----------------------------------------------------------------------------
(* What the payload determines                                             *)

(* Which attempts failed can be read off the record of a finished job.     *)
LEMMA CompletedRecord ==
    ASSUME NEW j \in Jobs, NEW k \in 0 .. MaxAttempts - 1,
           ~SimulationFails(payload[j], k + 1),
           Stands(j, "COMPLETED", k, "COMPLETED")
    PROVE  FirstSuccess(j) = {k + 1} /\ FailedAttempts(j) = 1 .. k
<1>1. /\ k \in Nat /\ MaxAttempts \in Nat /\ k + 1 \in AttemptNumber
      /\ \A n : n \in AttemptNumber <=> n \in Nat /\ 1 <= n /\ n <= MaxAttempts
  BY MaxAttemptsAssumption DEF AttemptNumber
<1>2. ASSUME NEW n \in AttemptNumber
      PROVE  /\ n <= k => attempts[j][n] = "FAILED" /\ SimulationFails(payload[j], n)
             /\ n = k + 1 => attempts[j][n] = "COMPLETED"
             /\ n > k + 1 => attempts[j][n] = "NONE"
  BY DEF Stands, Record
<1>3. ASSUME NEW n \in FirstSuccess(j) PROVE n = k + 1
  <2>1. n \in AttemptNumber /\ ~SimulationFails(payload[j], n)
        /\ \A m \in 1 .. n - 1 : SimulationFails(payload[j], m)
    BY <1>3 DEF FirstSuccess
  <2>2. ~(n <= k)
    BY <1>2, <2>1
  <2>3. ~(n > k + 1)
    <3>1. n > k + 1 => k + 1 \in 1 .. n - 1
      BY <1>1, <2>1
    <3> QED
      BY <2>1, <3>1
  <2> QED
    BY <1>1, <2>1, <2>2, <2>3
<1>4. k + 1 \in FirstSuccess(j)
  <2>1. \A m \in 1 .. k + 1 - 1 : m \in AttemptNumber /\ m <= k
    BY <1>1
  <2> QED
    BY <1>1, <1>2, <2>1 DEF FirstSuccess
<1>5. FailedAttempts(j) = 1 .. k
  <2>1. ASSUME NEW n \in FailedAttempts(j) PROVE n \in 1 .. k
    <3>1. n \in AttemptNumber /\ attempts[j][n] = "FAILED"
      BY <2>1 DEF FailedAttempts
    <3> QED
      BY <1>1, <1>2, <3>1
  <2>2. ASSUME NEW n \in 1 .. k PROVE n \in FailedAttempts(j)
    BY <1>1, <1>2, <2>2 DEF FailedAttempts
  <2> QED
    BY <2>1, <2>2
<1> QED
  BY <1>3, <1>4, <1>5

LEMMA FailedRecord ==
    ASSUME NEW j \in Jobs, Stands(j, "FAILED", MaxAttempts, "NONE")
    PROVE  FirstSuccess(j) = {} /\ FailedAttempts(j) = AttemptNumber
<1>1. \A n \in AttemptNumber :
        attempts[j][n] = "FAILED" /\ SimulationFails(payload[j], n)
  BY MaxAttemptsAssumption DEF Stands, Record, AttemptNumber
<1> QED
  BY <1>1 DEF FirstSuccess, FailedAttempts

(* If no worker fails and the stores report what they did, then whatever   *)
(* the interleaving, the deaths of the API, the refusals of Redis and the  *)
(* cancellations: a job that the queue is done with has the row and the    *)
(* attempts that its payload determines.                                   *)
THEOREM OutcomeMatches ==
    ASSUME Reliable
    PROVE  Spec => []OutcomeMatchesPayload
<1>1. Context /\ OutcomeInv => OutcomeMatchesPayload
  <2> SUFFICES ASSUME OutcomeInv, NEW j \in Jobs, Finished(entry[j])
               PROVE
                 /\ \A n \in FirstSuccess(j) :
                      /\ entry[j].state = "completed"
                      /\ row[j].status = "COMPLETED"
                      /\ row[j].retryCount = n - 1
                      /\ FailedAttempts(j) = 1 .. n - 1
                      /\ attempts[j][n] = "COMPLETED"
                 /\ FirstSuccess(j) = {} =>
                      /\ entry[j].state = "failed"
                      /\ row[j].status = "FAILED"
                      /\ row[j].retryCount = MaxAttempts
                      /\ FailedAttempts(j) = AttemptNumber
    BY DEF OutcomeMatchesPayload
  <2>1. CASE entry[j].state = "completed"
    <3>1. PICK k \in 0 .. MaxAttempts - 1 :
            /\ ~SimulationFails(payload[j], k + 1)
            /\ Stands(j, "COMPLETED", k, "COMPLETED")
      BY <2>1 DEF OutcomeInv, JobStands
    <3>2. FirstSuccess(j) = {k + 1} /\ FailedAttempts(j) = 1 .. k
      BY <3>1, CompletedRecord
    <3>3. k + 1 \in AttemptNumber /\ k + 1 - 1 = k
      BY MaxAttemptsAssumption DEF AttemptNumber
    <3>4. /\ row[j].status = "COMPLETED" /\ row[j].retryCount = k
          /\ attempts[j][k + 1] = "COMPLETED"
      BY <3>1, <3>3 DEF Stands, Record
    <3> QED
      BY <2>1, <3>2, <3>3, <3>4
  <2>2. CASE entry[j].state = "failed"
    <3>1. Stands(j, "FAILED", MaxAttempts, "NONE")
      BY <2>2 DEF OutcomeInv, JobStands
    <3> QED
      BY <2>2, <3>1, FailedRecord DEF Stands, Record
  <2> QED
    BY <2>1, <2>2 DEF Finished
<1> QED
  BY <1>1, AlwaysOutcomeInv, PTL

-----------------------------------------------------------------------------
(* The platform implements JobLifecycle                                    *)

(* How a row may be written.  The last disjunct includes a second          *)
(* cancellation, which is no step of the lifecycle.                        *)
StartsOrEnds(j) ==
    \/ row[j].status = "NONE" /\ row'[j].status = "QUEUED"
    \/ /\ row[j].status = "QUEUED" /\ row[j].retryCount = 0
       /\ row'[j].status = "FAILED"
    \/ row[j].status = "QUEUED" /\ row'[j].status = "PROCESSING"
    \/ row[j].status = "PROCESSING" /\ row'[j].status = "COMPLETED"
    \/ /\ row[j].status \in {"QUEUED"} \cup TerminalStatus
       /\ row'[j].status = "CANCELLED"

FailsOnce(j) ==
    /\ row[j].status = "PROCESSING"
    /\ row'[j].retryCount = row[j].retryCount + 1
    /\ row'[j].status = IF row[j].retryCount + 1 < MaxAttempts
                        THEN "QUEUED" ELSE "FAILED"

RowMove(j) ==
    \/ StartsOrEnds(j) /\ row'[j].retryCount = row[j].retryCount
    \/ FailsOnce(j)

LEMMA RowFollows ==
    ASSUME Reliable, Context, OutcomeInv, [Next]_vars,
           NEW j \in Jobs, row'[j] # row[j]
    PROVE  RowMove(j)
<1> USE DEF RowMove, StartsOrEnds, FailsOnce
<1>0. RowChange(j) /\ row[j] \in JobRow /\ JobStands(j)
  BY RowChanges DEF Context, Typed, OutcomeInv
<1>1. CASE create[j] = "new" /\ CreateRow(j) /\ row'[j] = NewRow
  <2>1. NewRow.status = "QUEUED" /\ NewRow.retryCount = 0
    BY DEF NewRow, NoRow
  <2> QED
    BY <1>0, <1>1, <2>1 DEF JobStands, Stands, Record
<1>2. CASE /\ create[j] = "markFailed" /\ MarkEnqueueFailed(j)
           /\ row'[j] = EnqueueFailed(row[j])
  BY <1>0, <1>2, RowColumns DEF JobStands, CreateInFlight, Stands, Record
<1>3. ASSUME NEW c \in CancelRequests, cancel[c].pc = "mark",
             cancel[c].job = j, row'[j] = Cancelled(row[j])
      PROVE  RowMove(j)
  BY <1>0, <1>3, RowColumns DEF JobStands, Context, CancelInv
<1>4. ASSUME NEW w \in Workers, run[w].job = j, Live(w), RunWrite(w)
      PROVE  RowMove(j)
  <2> DEFINE k == run[w].attemptsMade
  <2>0. /\ RunStands(w) /\ CurrentAttempt(w) = k + 1
        /\ k \in Nat /\ MaxAttempts \in Nat
    BY <1>4, MaxAttemptsAssumption
    DEF OutcomeInv, CurrentAttempt, Context, Typed, BoundedRun, Run
  <2>1. CASE run[w].pc = "writeProcessing"
    <3>1. row[j].status = "QUEUED"
      BY <1>4, <2>0, <2>1 DEF RunStands, Stands, Record
    <3> QED
      BY <1>0, <1>4, <2>1, <3>1, RowColumns DEF RunWrite
  <2>2. CASE run[w].pc = "rowCompleted"
    <3>1. row[j].status = "PROCESSING" /\ row[j].retryCount = k
      BY <1>4, <2>0, <2>2 DEF RunStands, Stands, Record
    <3>2. row'[j] = Completed(row[j], k)
      BY <1>4, <2>2 DEF RunWrite
    <3>3. row'[j].status = "COMPLETED" /\ row'[j].retryCount = k
      BY <1>0, <3>2 DEF Completed, JobRow
    <3> QED
      BY <3>1, <3>3
  <2>3. CASE run[w].pc = "rowFailed"
    <3>1. row[j].status = "PROCESSING" /\ row[j].retryCount = k
      BY <1>4, <2>0, <2>3 DEF RunStands, Stands, Record
    <3>2. row'[j] = IF k + 1 < MaxAttempts THEN RetryQueued(row[j], k + 1)
                    ELSE Failed(row[j], k + 1)
      BY <1>4, <2>0, <2>3 DEF RunWrite, IsFinalAttempt
    <3>3. /\ row'[j].retryCount = k + 1
          /\ row'[j].status = IF k + 1 < MaxAttempts THEN "QUEUED" ELSE "FAILED"
      BY <1>0, <3>2 DEF RetryQueued, Failed, JobRow
    <3> QED
      BY <3>1, <3>3
  <2> QED
    BY <1>4, <2>1, <2>2, <2>3 DEF RunWrite
<1> QED
  BY <1>0, <1>1, <1>2, <1>3, <1>4 DEF RowChange

(* The two columns of every job, which are all that the lifecycle sees.    *)
Statuses == [j \in Jobs |-> row[j].status]
RetryCounts == [j \in Jobs |-> row[j].retryCount]

(* Such a write is an action of the lifecycle.                             *)
LEMMA LifecycleMoves ==
    ASSUME NEW j \in Jobs, RowMove(j),
           Statuses' = [Statuses EXCEPT ![j] = row'[j].status],
           RetryCounts' = [RetryCounts EXCEPT ![j] = row'[j].retryCount]
    PROVE  \/ LateLifecycle!Next
           \/ Statuses' = Statuses /\ RetryCounts' = RetryCounts
<1>1. /\ Statuses[j] = row[j].status /\ RetryCounts[j] = row[j].retryCount
      /\ Statuses = [Statuses EXCEPT ![j] = row[j].status]
      /\ RetryCounts = [RetryCounts EXCEPT ![j] = row[j].retryCount]
  BY DEF Statuses, RetryCounts
<1>2. CASE StartsOrEnds(j) /\ row'[j].retryCount = row[j].retryCount
  <2>1. RetryCounts' = RetryCounts
    BY <1>1, <1>2
  <2>2. /\ Statuses' = [Statuses EXCEPT ![j] = row'[j].status]
        /\ Statuses[j] = row[j].status
    BY <1>1
  <2>3. CASE row[j].status = "NONE" /\ row'[j].status = "QUEUED"
    <3>1. LateLifecycle!Submit(j)
      BY <2>1, <2>2, <2>3 DEF LateLifecycle!Submit, LateLifecycle!Move,
          Statuses, RetryCounts
    <3> QED
      BY <3>1 DEF LateLifecycle!Next
  <2>4. CASE /\ row[j].status = "QUEUED" /\ row[j].retryCount = 0
             /\ row'[j].status = "FAILED"
    <3>1. LateLifecycle!Refuse(j)
      BY <1>1, <2>1, <2>2, <2>4 DEF LateLifecycle!Refuse, LateLifecycle!Move,
          Statuses, RetryCounts
    <3> QED
      BY <3>1 DEF LateLifecycle!Next
  <2>5. CASE row[j].status = "QUEUED" /\ row'[j].status = "PROCESSING"
    <3>1. LateLifecycle!Start(j)
      BY <2>1, <2>2, <2>5 DEF LateLifecycle!Start, LateLifecycle!Move,
          Statuses, RetryCounts
    <3> QED
      BY <3>1 DEF LateLifecycle!Next
  <2>6. CASE row[j].status = "PROCESSING" /\ row'[j].status = "COMPLETED"
    <3>1. LateLifecycle!Succeed(j)
      BY <2>1, <2>2, <2>6 DEF LateLifecycle!Succeed, LateLifecycle!Move,
          Statuses, RetryCounts
    <3> QED
      BY <3>1 DEF LateLifecycle!Next
  <2>7. CASE /\ row[j].status \in {"QUEUED", "COMPLETED", "FAILED"}
             /\ row'[j].status = "CANCELLED"
    <3>1. row[j].status \in {"QUEUED"} \cup {"COMPLETED", "FAILED"}
      BY <2>7
    <3>2. LateLifecycle!Cancel(j)
      BY <2>1, <2>2, <2>7, <3>1 DEF LateLifecycle!Cancel, LateLifecycle!Move,
          Statuses, RetryCounts
    <3> QED
      BY <3>2 DEF LateLifecycle!Next
  <2>8. CASE row[j].status = "CANCELLED" /\ row'[j].status = "CANCELLED"
    BY <1>1, <2>1, <2>8
  <2> QED
    BY <1>2, <2>3, <2>4, <2>5, <2>6, <2>7, <2>8
    DEF StartsOrEnds, TerminalStatus
<1>3. CASE FailsOnce(j)
  <2>1. LateLifecycle!FailAttempt(j)
    BY <1>1, <1>3 DEF FailsOnce, LateLifecycle!FailAttempt, Statuses, RetryCounts
  <2> QED
    BY <2>1 DEF LateLifecycle!Next
<1> QED
  BY <1>2, <1>3 DEF RowMove

LEMMA StepImplements ==
    ASSUME Reliable, Context, OutcomeInv, [Next]_vars
    PROVE  [LateLifecycle!Next]_<<Statuses, RetryCounts>>
<1>1. CASE \A j \in Jobs : row'[j] = row[j]
  BY <1>1 DEF Statuses, RetryCounts
<1>2. ASSUME NEW j \in Jobs, row'[j] # row[j]
      PROVE  [LateLifecycle!Next]_<<Statuses, RetryCounts>>
  <2>1. row' = [row EXCEPT ![j] = row'[j]] /\ row \in [Jobs -> JobRow]
    BY <1>2, OneRow DEF Context, Typed
  <2>2. /\ Statuses' = [Statuses EXCEPT ![j] = row'[j].status]
        /\ RetryCounts' = [RetryCounts EXCEPT ![j] = row'[j].retryCount]
    BY <2>1 DEF Statuses, RetryCounts
  <2> QED
    BY <1>2, <2>2, RowFollows, LifecycleMoves
<1> QED
  BY <1>1, <1>2

(* If no worker fails and the stores report what they did, the rows of all *)
(* jobs together behave as the lifecycle of docs/DESIGN.md, in which every *)
(* failed attempt is counted once, except that an ended job may still be   *)
(* cancelled.                                                              *)
THEOREM RowsFollowLifecycle ==
    ASSUME Reliable
    PROVE  Spec => ImplementsLifecycle
<1>1. Init => LateLifecycle!Init
  BY DEF Init, NoRow, LateLifecycle!Init
<1>2. Context /\ OutcomeInv /\ [Next]_vars
        => [LateLifecycle!Next]_<<Statuses, RetryCounts>>
  BY StepImplements
<1> QED
  BY <1>1, <1>2, AlwaysOutcomeInv, PTL
  DEF Spec, ImplementsLifecycle, LateLifecycle!Spec, Statuses, RetryCounts

-----------------------------------------------------------------------------
(* What docs/DESIGN.md says of the statuses                                *)

(* If no worker fails and the stores report what they did, PROCESSING      *)
(* means what docs/DESIGN.md says: the queue is not done with the job.  A  *)
(* worker that dies more often than stalls are forgiven refutes it.        *)
THEOREM ProcessingMeansInProgress ==
    ASSUME Reliable
    PROVE  Spec => []ProcessingIsInProgress
<1>1. Context /\ OutcomeInv => ProcessingIsInProgress
  <2> SUFFICES ASSUME OutcomeInv, NEW j \in Jobs, Finished(entry[j])
               PROVE  row[j].status # "PROCESSING"
    BY DEF ProcessingIsInProgress
  <2> QED
    BY DEF Finished, OutcomeInv, JobStands, Stands, Record
<1> QED
  BY <1>1, AlwaysOutcomeInv, PTL

(* If no worker fails and the stores report what they did, no retry, no    *)
(* late update and no markEnqueueFailed takes a job out of a terminal      *)
(* status, as docs/DESIGN.md says.                                         *)
THEOREM TerminalStaysTerminal ==
    ASSUME Reliable
    PROVE  Spec => NoResurrection
<1>1. Context /\ OutcomeInv /\ [Next]_vars
        => [\A j \in Jobs :
              row[j].status \in TerminalStatus =>
                 row'[j].status \in TerminalStatus]_vars
  <2> SUFFICES ASSUME Context, OutcomeInv, [Next]_vars, NEW j \in Jobs,
                      row[j].status \in TerminalStatus
               PROVE  row'[j].status \in TerminalStatus
    OBVIOUS
  <2>1. CASE row'[j] # row[j]
    BY <2>1, RowFollows DEF RowMove, StartsOrEnds, FailsOnce, TerminalStatus
  <2> QED
    BY <2>1
<1> QED
  BY <1>1, AlwaysOutcomeInv, PTL DEF Spec, NoResurrection

=============================================================================
