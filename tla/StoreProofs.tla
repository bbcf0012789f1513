---------------------------- MODULE StoreProofs -----------------------------
(***************************************************************************)
(* How far the rows and the queue agree, for every set of jobs, slots and  *)
(* requests, and every number of attempts: the dead-letter view, completed *)
(* entries, startedAt and the attempt history.                             *)
(***************************************************************************)
EXTENDS CancellationProofs

-----------------------------------------------------------------------------
(* The dead-letter view                                                    *)

(* Only accepted jobs are executed, so a row counts failed attempts only   *)
(* if markEnqueueFailed cannot happen any more.                            *)
DeadLetterInv ==
    /\ \A j \in Jobs : InQueue(entry[j]) => create[j] = "accepted"
    /\ \A w \in Workers : Live(w) => create[run[w].job] = "accepted"
    /\ \A j \in Jobs : create[j] # "accepted" => row[j].retryCount = 0
    /\ DeadLetterExact

LEMMA DeadLetterInvInductive ==
    ASSUME "redisLost" \notin Faults
    PROVE  Typed /\ DeadLetterInv /\ [Next]_vars => DeadLetterInv'
<1> SUFFICES ASSUME Typed, DeadLetterInv, [Next]_vars PROVE DeadLetterInv'
  OBVIOUS
<1>1. ASSUME NEW j \in Jobs, InQueue(entry'[j]) PROVE create'[j] = "accepted"
  <2>1. CASE InQueue(entry[j])
    BY <2>1, AcceptedStays DEF DeadLetterInv
  <2>2. CASE ~InQueue(entry[j])
    <3>1. Enqueue(j)
      BY <1>1, <2>2, EntryAppears
    <3> QED
      BY <1>1, <2>2, <3>1 DEF Enqueue, CreateTo, WriteEntry, RedisReply, Typed
  <2> QED
    BY <2>1, <2>2
<1>2. ASSUME NEW w \in Workers, Live(w)'
      PROVE  create'[run'[w].job] = "accepted"
  <2>1. CASE Live(w) /\ run'[w].job = run[w].job
    BY <2>1, AcceptedStays
    DEF DeadLetterInv, Typed, BoundedRun, RunBounded, Live
  <2>2. ASSUME NEW j \in Jobs, Acquire(w, j), run'[w].job = j
        PROVE  create'[run'[w].job] = "accepted"
    BY <2>2, AcceptedStays DEF Acquire, Waiting, InQueue, DeadLetterInv
  <2> QED
    BY <1>2, <2>1, <2>2, RunChanges DEF RunChange, Live
<1>3. ASSUME NEW j \in Jobs, row'[j] # row[j]
      PROVE  /\ create'[j] # "accepted" => row'[j].retryCount = 0
             /\ InDeadLetterView(row'[j]) => row'[j].retryCount = MaxAttempts
  <2>0. row[j] \in JobRow /\ RowChange(j)
    BY <1>3, RowChanges DEF Typed
  <2>1. CASE create[j] = "new" /\ row'[j] = NewRow
    BY <2>1 DEF NewRow, NoRow, InDeadLetterView
  <2>2. CASE create[j] = "markFailed" /\ row'[j] = EnqueueFailed(row[j])
    <3>1. row'[j].retryCount = 0
      BY <2>0, <2>2, RowColumns DEF DeadLetterInv
    <3> QED
      BY <3>1 DEF InDeadLetterView
  <2>3. CASE row'[j] = Cancelled(row[j])
    <3>1. /\ row'[j].retryCount = row[j].retryCount
          /\ row'[j].status = "CANCELLED"
      BY <2>0, <2>3, RowColumns
    <3> QED
      BY <3>1, AcceptedStays DEF DeadLetterInv, InDeadLetterView
  <2>4. ASSUME NEW w \in Workers, run[w].job = j, Live(w), RunWrite(w)
        PROVE  /\ create'[j] = "accepted"
               /\ InDeadLetterView(row'[j]) => row'[j].retryCount = MaxAttempts
    <3>1. create'[j] = "accepted"
      BY <2>4, AcceptedStays DEF DeadLetterInv
    <3>2. /\ \A b, d : Processing(row[j], b, d).status = "PROCESSING"
          /\ \A k : /\ RetryQueued(row[j], k).status = "QUEUED"
                    /\ Completed(row[j], k).status = "COMPLETED"
                    /\ Failed(row[j], k).retryCount = k
      BY <2>0, RowColumns
    <3>3. IsFinalAttempt(w) => CurrentAttempt(w) = MaxAttempts
      BY <2>4, RunMoves, MaxAttemptsAssumption DEF IsFinalAttempt
    <3> QED
      BY <2>4, <3>1, <3>2, <3>3 DEF RunWrite, InDeadLetterView
  <2> QED
    BY <2>0, <2>1, <2>2, <2>3, <2>4 DEF RowChange
<1>4. ASSUME NEW j \in Jobs
      PROVE  /\ create'[j] # "accepted" => row'[j].retryCount = 0
             /\ InDeadLetterView(row'[j]) => row'[j].retryCount = MaxAttempts
  BY <1>3, AcceptedStays DEF DeadLetterInv, DeadLetterExact
<1> QED
  BY <1>1, <1>2, <1>4 DEF DeadLetterInv, DeadLetterExact

(* Whatever crashes and whatever lock is lost, the dead-letter view lists  *)
(* only jobs that used up their attempts, unless an applied queue.add can  *)
(* be seen to fail.                                                        *)
THEOREM DeadLetterIsExact ==
    ASSUME "redisLost" \notin Faults
    PROVE  Spec => []DeadLetterExact
<1>1. Init => DeadLetterInv
  BY DEF Init, DeadLetterInv, DeadLetterExact, InQueue, Absent, NoRow, NoRun,
         Live, Busy, InDeadLetterView
<1>2. DeadLetterInv => DeadLetterExact
  BY DEF DeadLetterInv
<1> QED
  BY <1>1, <1>2, DeadLetterInvInductive, AlwaysTyped, PTL DEF Spec

-----------------------------------------------------------------------------
(* Completed entries                                                       *)

(* process() resolves only after the row was updated, and until BullMQ has *)
(* heard of it nobody else may write the row; nor after that.              *)
CompletedInv ==
    /\ CompletedEntryAgrees
    /\ \A w \in Workers :
         run[w].pc = "resolve" => row[run[w].job].status = "COMPLETED"

(* While a run is past its last update, or the entry is finished, the row  *)
(* does not change.                                                        *)
LEMMA RowIsStill ==
    ASSUME Typed, RunOwnsEntry, CancelInv, [Next]_vars, NEW j \in Jobs,
           \/ Finished(entry[j])
           \/ \E w \in Workers : run[w].pc = "resolve" /\ run[w].job = j
    PROVE  row'[j] = row[j]
<1> SUFFICES ASSUME row'[j] # row[j] PROVE FALSE
  OBVIOUS
<1>1. InQueue(entry[j])
  BY DEF Finished, InQueue, RunOwnsEntry, Live, Busy
<1>2. PICK u \in Workers : run[u].job = j /\ Live(u) /\ RunWrite(u)
  BY <1>1, RowChanges DEF RowChange, CancelInv, Gone
<1>3. entry[j].state = "active" /\ entry[j].lock = u
  BY <1>2 DEF RunOwnsEntry
<1>4. \A w \in Workers : run[w].pc = "resolve" /\ run[w].job = j => w = u
  BY <1>3 DEF RunOwnsEntry, Live, Busy
<1> QED
  BY <1>2, <1>3, <1>4 DEF Finished, RunWrite

LEMMA CompletedInvInductive ==
    Typed /\ RunOwnsEntry /\ CancelInv /\ CompletedInv /\ [Next]_vars
      => CompletedInv'
<1> SUFFICES ASSUME Typed, RunOwnsEntry, CancelInv, CompletedInv, [Next]_vars
             PROVE  CompletedInv'
  OBVIOUS
<1>1. ASSUME NEW j \in Jobs, entry'[j].state = "completed"
      PROVE  row'[j].status = "COMPLETED"
  <2>1. CASE entry[j].state = "completed"
    BY <2>1, RowIsStill DEF CompletedInv, CompletedEntryAgrees, Finished
  <2>2. CASE entry[j].state # "completed"
    <3>1. EntryChange(j) /\ entry[j] \in Entry
      BY <1>1, <2>2, EntryChanges DEF Typed, BoundedEntry
    <3>2. PICK w \in Workers : Resolve(w) /\ run[w].job = j
      <4>1. /\ Absent.state # "completed"
            /\ \A b \in BOOLEAN : ~InQueue(entry[j])
                 => Added(entry[j], b).state # "completed"
            /\ \A w : Taken(entry[j], w).state # "completed"
            /\ FinishedWithError(entry[j]).state # "completed"
            /\ Promoted(entry[j]).state # "completed"
            /\ Stalled(entry[j]).state # "completed"
        BY <3>1 DEF Added, Absent, Taken, FinishedWithError, Promoted, Stalled,
                    Entry
      <4>2. /\ Unlocked(entry[j]).state = entry[j].state
            /\ [entry[j] EXCEPT !.lock = Orphan].state = entry[j].state
        BY <3>1 DEF Unlocked, Entry
      <4> QED
        BY <1>1, <2>2, <3>1, <4>1, <4>2 DEF EntryChange
    <3>3. row'[j] = row[j] /\ row[j].status = "COMPLETED"
      BY <3>2, RowIsStill DEF Resolve, CompletedInv
    <3> QED
      BY <3>3
  <2> QED
    BY <2>1, <2>2
<1>2. ASSUME NEW w \in Workers, run'[w].pc = "resolve"
      PROVE  row'[run'[w].job].status = "COMPLETED"
  <2>1. CASE run'[w] = run[w]
    <3>1. run[w].job \in Jobs
      BY <1>2, <2>1 DEF Typed, BoundedRun, RunBounded, Busy
    <3> QED
      BY <1>2, <2>1, <3>1, RowIsStill DEF CompletedInv
  <2>2. CASE /\ Live(w) /\ ProcessStep(w) /\ ~Resolve(w) /\ ~Reject(w)
             /\ run'[w].job = run[w].job
    <3>1. MarkCompleted(w)
      <4>1. run \in [Workers -> Run]
        BY DEF Typed, BoundedRun
      <4>2. \A pc : GoTo(w, pc) => run'[w].pc = pc
        BY <4>1 DEF GoTo, Run
      <4>3. ~ReadRow(w)
        BY <1>2, <4>1, <4>2 DEF ReadRow, Run
      <4> QED
        BY <1>2, <2>2, <4>2, <4>3
        DEF ProcessStep, FindAttempt, UpsertAttempt, WriteProcessing, Work,
            MarkAttemptCompleted, MarkAttemptFailed, MarkRowFailed, Continue
    <3>2. run[w].job \in Jobs /\ row[run[w].job] \in JobRow
      BY <2>2, RunMoves DEF Typed
    <3>3. row'[run[w].job] = Completed(row[run[w].job], run[w].attemptsMade)
      <4>1. \A pc : GoTo(w, pc) => run'[w].pc = pc
        BY DEF GoTo, Typed, BoundedRun, Run
      <4> QED
        BY <1>2, <3>1, <3>2, <4>1
        DEF MarkCompleted, Continue, WriteRow, DbReply, Typed
    <3> QED
      BY <2>2, <3>2, <3>3, RowColumns
  <2>3. CASE \E j \in Jobs : Acquire(w, j)
    BY <1>2, <2>3 DEF Acquire, Typed
  <2> QED
    BY <1>2, <2>1, <2>2, <2>3, RunChanges DEF RunChange, Live, Busy
<1> QED
  BY <1>1, <1>2 DEF CompletedInv, CompletedEntryAgrees

(* Whatever crashes, and even if every database call may fail before or    *)
(* after it is applied: a completed entry has a COMPLETED row.             *)
THEOREM CompletedAgrees ==
    ASSUME "lockLoss" \notin Faults, "redisLost" \notin Faults
    PROVE  Spec => []CompletedEntryAgrees
<1>1. Init => CompletedInv
  BY DEF Init, CompletedInv, CompletedEntryAgrees, Absent, NoRun
<1>2. CompletedInv => CompletedEntryAgrees
  BY DEF CompletedInv
<1> QED
  BY <1>1, <1>2, CompletedInvInductive, AlwaysCancelInv, AlwaysTyped,
     Exclusion, PTL DEF Spec

-----------------------------------------------------------------------------
(* startedAt                                                               *)

(* A run that is about to set startedAt found it null, and since then      *)
(* nobody can have set it.                                                 *)
StartedInv ==
    /\ \A j \in Jobs : create[j] \in {"new", "enqueue"} => ~InQueue(entry[j])
    /\ \A j \in Jobs : create[j] = "new" => row[j].startedAt = 0
    /\ \A w \in Workers :
         run[w].pc = "writeProcessing" /\ ~run[w].hasStarted
           => row[run[w].job].startedAt = 0

(* A job whose createJob has not come to queue.add has no entry.           *)
LEMMA NotYetInQueue ==
    ASSUME Typed, [Next]_vars, NEW j \in Jobs,
           create[j] \in {"new", "enqueue"} => ~InQueue(entry[j]),
           create'[j] \in {"new", "enqueue"}
    PROVE  /\ create[j] \in {"new", "enqueue"}
           /\ ~InQueue(entry'[j])
<1>1. create[j] \in {"new", "enqueue"} /\ ~Enqueue(j)
  BY CreateMoves DEF CreateMove, Enqueue
<1> QED
  BY <1>1, EntryAppears

(* startedAt is written only by a run that found it null.                  *)
LEMMA StartedAtWrite ==
    ASSUME Typed, StartedInv, [Next]_vars, NEW j \in Jobs,
           row'[j].startedAt # row[j].startedAt
    PROVE  \E w \in Workers :
             /\ run[w].job = j /\ run[w].pc = "writeProcessing"
             /\ ProcessStep(w) /\ ~run[w].hasStarted
<1>1. row[j] \in JobRow /\ RowChange(j)
  BY RowChanges DEF Typed
<1>2. ~(create[j] = "new" /\ row'[j] = NewRow)
  BY DEF StartedInv, NewRow, NoRow
<1>3. /\ row'[j] # EnqueueFailed(row[j]) /\ row'[j] # Cancelled(row[j])
      /\ \A k : /\ row'[j] # RetryQueued(row[j], k)
                /\ row'[j] # Completed(row[j], k)
                /\ row'[j] # Failed(row[j], k)
      /\ \A d : row'[j] # Processing(row[j], TRUE, d)
  <2>1. \A d : Processing(row[j], TRUE, d).startedAt = row[j].startedAt
    BY <1>1 DEF Processing, JobRow
  <2>2. /\ EnqueueFailed(row[j]).startedAt = row[j].startedAt
        /\ Cancelled(row[j]).startedAt = row[j].startedAt
        /\ \A k : /\ RetryQueued(row[j], k).startedAt = row[j].startedAt
                  /\ Completed(row[j], k).startedAt = row[j].startedAt
                  /\ Failed(row[j], k).startedAt = row[j].startedAt
    BY <1>1, RowColumns
  <2> QED
    BY <2>1, <2>2
<1>4. PICK w \in Workers : run[w].job = j /\ ProcessStep(w) /\ RunWrite(w)
  BY <1>1, <1>2, <1>3 DEF RowChange
<1>5. run[w].pc = "writeProcessing"
      /\ row'[j] = Processing(row[j], run[w].hasStarted, run[w].delivery)
  BY <1>3, <1>4 DEF RunWrite
<1>6. run[w].hasStarted \in BOOLEAN
  BY DEF Typed, BoundedRun, Run
<1>7. run[w].hasStarted # TRUE
  BY <1>3, <1>5
<1> QED
  BY <1>4, <1>5, <1>6, <1>7

LEMMA StartedInvInductive ==
    Typed /\ RunOwnsEntry /\ StartedInv /\ [Next]_vars => StartedInv'
<1> SUFFICES ASSUME Typed, RunOwnsEntry, StartedInv, [Next]_vars
             PROVE  StartedInv'
  OBVIOUS
<1>1. ASSUME NEW j \in Jobs, create'[j] \in {"new", "enqueue"}
      PROVE  ~InQueue(entry'[j])
  BY <1>1, NotYetInQueue DEF StartedInv
<1>2. ASSUME NEW j \in Jobs, create'[j] = "new"
      PROVE  row'[j].startedAt = 0
  <2>1. create[j] = "new"
    BY <1>2, CreateMoves DEF CreateMove
  <2>2. \A w \in Workers : run[w].job = j => run[w].pc # "writeProcessing"
    BY <2>1 DEF StartedInv, RunOwnsEntry, InQueue, Live, Busy
  <2> QED
    BY <2>1, <2>2, StartedAtWrite DEF StartedInv
<1>3. ASSUME NEW w \in Workers, run'[w].pc = "writeProcessing",
             ~run'[w].hasStarted
      PROVE  row'[run'[w].job].startedAt = 0
  <2>1. CASE run'[w] = run[w] /\ ~ProcessStep(w)
    <3>1. run[w].job \in Jobs /\ Live(w)
      BY <1>3, <2>1 DEF Typed, BoundedRun, RunBounded, Live, Busy
    <3>2. \A u \in Workers : Live(u) /\ run[u].job = run[w].job => u = w
      BY <3>1 DEF RunOwnsEntry
    <3>3. row'[run[w].job].startedAt = row[run[w].job].startedAt
      BY <2>1, <3>1, <3>2, StartedAtWrite DEF Live, Busy
    <3> QED
      BY <1>3, <2>1, <3>3 DEF StartedInv
  <2>2. CASE /\ Live(w) /\ ProcessStep(w) /\ ~Resolve(w) /\ ~Reject(w)
             /\ run'[w].job = run[w].job
    <3>1. \A pc : GoTo(w, pc) => run'[w].pc = pc
      BY DEF GoTo, Typed, BoundedRun, Run
    <3>2. ReadRow(w)
      BY <1>3, <2>2, <3>1
      DEF ProcessStep, FindAttempt, UpsertAttempt, WriteProcessing, Work,
          MarkAttemptCompleted, MarkCompleted, MarkAttemptFailed,
          MarkRowFailed, Continue
    <3>3. row' = row /\ run'[w].hasStarted = (row[run[w].job].startedAt # 0)
      BY <1>3, <3>1, <3>2 DEF ReadRow, db, Typed, BoundedRun, Run
    <3> QED
      BY <1>3, <2>2, <3>3
  <2> QED
    BY <1>3, <2>1, <2>2, RunChanges DEF RunChange, Live, Busy
<1> QED
  BY <1>1, <1>2, <1>3 DEF StartedInv

(* Unless a live worker can lose its lock, startedAt once set never        *)
(* changes, although it is read and written in two statements.             *)
THEOREM StartedAtKept ==
    ASSUME "lockLoss" \notin Faults
    PROVE  Spec => StartedAtIsKept
<1>1. Init => StartedInv
  BY DEF Init, StartedInv, InQueue, Absent, NoRow, NoRun
<1>2. Typed /\ StartedInv /\ [Next]_vars
        => [\A j \in Jobs : row[j].startedAt # 0
                              => row'[j].startedAt = row[j].startedAt]_vars
  BY StartedAtWrite DEF StartedInv
<1> QED
  BY <1>1, <1>2, StartedInvInductive, AlwaysTyped, Exclusion, PTL
  DEF Spec, StartedAtIsKept

-----------------------------------------------------------------------------
(* The attempt history                                                     *)

(* Exactly the attempts that BullMQ counted have ended, at most one more   *)
(* has begun, and the run in progress is that one.                         *)
HistoryInv ==
    /\ \A j \in Jobs : create[j] \in {"new", "enqueue"} =>
         /\ ~InQueue(entry[j])
         /\ \A n \in AttemptNumber : attempts[j][n] = "NONE"
    /\ \A j \in Jobs : InQueue(entry[j]) =>
         \A n \in AttemptNumber :
           /\ n <= entry[j].attemptsMade => AttemptClosed(attempts[j][n])
           /\ n > entry[j].attemptsMade + 1 => attempts[j][n] = "NONE"
    /\ \A w \in Workers :
         Live(w) => run[w].attemptsMade = entry[run[w].job].attemptsMade
    /\ \A w \in Workers :
         run[w].pc \in {"rowCompleted", "rowFailed", "resolve", "reject"} =>
           AttemptClosed(attempts[run[w].job][CurrentAttempt(w)])
    /\ AttemptsInOrder

(* No step writes an attempt and an entry.                                 *)
LEMMA OneStore == [Next]_vars => attempts' = attempts \/ entry' = entry
  BY DEF Next, ApiStep, CreateRow, Enqueue, MarkEnqueueFailed, CancelRead,
     CancelGetJob, CancelRemove, CancelMark, Pause, Resume, ApiCrash,
     WorkerStep, ProcessStep, FindAttempt, UpsertAttempt, ReadRow,
     WriteProcessing, Work, MarkAttemptCompleted, MarkCompleted,
     MarkAttemptFailed, MarkRowFailed, Resolve, Reject, Crash, Close, Restart,
     Acquire, Promote, LockExpires, StalledCheck, vars, db, queue

(* What the updates of an entry do to its count of attempts.               *)
LEMMA EntryCounts ==
    ASSUME NEW e \in BoundedEntry
    PROVE  /\ Absent.state = "absent"
           /\ \A b \in BOOLEAN : ~InQueue(e) => Added(e, b).attemptsMade = 0
           /\ \A w : Taken(e, w).attemptsMade = e.attemptsMade
           /\ FinishedOk(e).attemptsMade = e.attemptsMade + 1
           /\ FinishedWithError(e).attemptsMade = e.attemptsMade + 1
           /\ Promoted(e).attemptsMade = e.attemptsMade
           /\ Unlocked(e).attemptsMade = e.attemptsMade
           /\ Stalled(e).attemptsMade = e.attemptsMade
           /\ [e EXCEPT !.lock = Orphan].attemptsMade = e.attemptsMade
           /\ e.lock # NoLock => InQueue(e)
           /\ e.attemptsMade \in 0 .. MaxAttempts
  BY DEF Absent, Added, InQueue, Taken, FinishedOk, FinishedWithError,
         Promoted, Unlocked, Stalled, BoundedEntry, EntryBounded, Entry

(* An entry that is in the queue is removed, keeps its count of attempts,  *)
(* or has it raised by the end of the run that holds its lock.             *)
LEMMA CountChanges ==
    ASSUME Typed, NEW j \in Jobs, InQueue(entry[j]), EntryChange(j)
    PROVE  \/ entry[j].lock = NoLock /\ entry'[j] = Absent
           \/ entry'[j].attemptsMade = entry[j].attemptsMade
           \/ \E w \in Workers :
                /\ Resolve(w) \/ Reject(w)
                /\ run[w].job = j /\ entry[j].lock = w
                /\ entry'[j].attemptsMade = entry[j].attemptsMade + 1
<1>0. entry[j] \in BoundedEntry
  BY DEF Typed
<1>1. CASE \E w \in Workers : Acquire(w, j) /\ entry'[j] = Taken(entry[j], w)
  BY <1>0, <1>1, EntryCounts
<1>2. CASE \E w \in Workers : /\ Resolve(w) /\ run[w].job = j
                              /\ entry[j].lock = w
                              /\ entry'[j] = FinishedOk(entry[j])
  BY <1>0, <1>2, EntryCounts
<1>3. CASE \E w \in Workers : /\ Reject(w) /\ run[w].job = j
                              /\ entry[j].lock = w
                              /\ entry'[j] = FinishedWithError(entry[j])
  BY <1>0, <1>3, EntryCounts
<1>4. CASE \/ entry'[j] = Promoted(entry[j]) \/ entry'[j] = Unlocked(entry[j])
           \/ entry'[j] = Stalled(entry[j])
           \/ entry'[j] = [entry[j] EXCEPT !.lock = Orphan]
  BY <1>0, <1>4, EntryCounts
<1> QED
  BY <1>1, <1>2, <1>3, <1>4 DEF EntryChange

(* A step writes at most the current attempt of a run of the job, which is *)
(* the one after those that BullMQ counted.                                *)
LEMMA AttemptWrite ==
    ASSUME Typed, RunOwnsEntry, HistoryInv, [Next]_vars, NEW j \in Jobs,
           attempts'[j] # attempts[j]
    PROVE  /\ InQueue(entry[j]) /\ entry' = entry
           /\ entry[j].attemptsMade + 1 \in AttemptNumber
           /\ \A n \in AttemptNumber :
                n # entry[j].attemptsMade + 1 => attempts'[j][n] = attempts[j][n]
<1>1. AttemptChange(j) /\ entry' = entry
  BY AttemptChanges, OneStore
<1>2. PICK w \in Workers :
        /\ run[w].job = j /\ Live(w)
        /\ \E s : attempts'[j] = AttemptSet(attempts[j], CurrentAttempt(w), s)
  BY <1>1 DEF AttemptChange, Live, Busy
<1>3. CurrentAttempt(w) = entry[j].attemptsMade + 1
  BY <1>2 DEF HistoryInv, CurrentAttempt
<1>4. CurrentAttempt(w) \in AttemptNumber
  BY <1>2, RunMoves
<1>5. InQueue(entry[j])
  BY <1>2 DEF RunOwnsEntry, InQueue
<1> QED
  BY <1>1, <1>2, <1>3, <1>4, <1>5 DEF AttemptSet, Typed

(* The history of an entry after a step.                                   *)
LEMMA HistoryOfEntry ==
    ASSUME "lockLoss" \notin Faults, Typed, RunOwnsEntry, HistoryInv,
           [Next]_vars, NEW j \in Jobs, InQueue(entry'[j]),
           NEW n \in AttemptNumber
    PROVE  /\ n <= entry'[j].attemptsMade => AttemptClosed(attempts'[j][n])
           /\ n > entry'[j].attemptsMade + 1 => attempts'[j][n] = "NONE"
<1>0. /\ entry[j] \in BoundedEntry
      /\ entry[j].attemptsMade \in 0 .. MaxAttempts
      /\ n \in Nat /\ n >= 1
  BY EntryCounts, MaxAttemptsAssumption DEF Typed, AttemptNumber
<1>1. CASE attempts'[j] # attempts[j]
  BY <1>0, <1>1, AttemptWrite DEF HistoryInv
<1>2. CASE attempts'[j] = attempts[j] /\ entry'[j] = entry[j]
  BY <1>2 DEF HistoryInv
<1>3. CASE attempts'[j] = attempts[j] /\ entry'[j] # entry[j]
  <2>1. EntryChange(j)
    BY <1>3, EntryChanges
  <2>2. CASE ~InQueue(entry[j])
    <3>1. Enqueue(j) /\ \E b \in BOOLEAN : entry'[j] = Added(entry[j], b)
      BY <1>0, <1>3, <2>2, EntryAppears, EnqueueAdds DEF WriteEntry, Typed
    <3>2. entry'[j].attemptsMade = 0 /\ attempts[j][n] = "NONE"
      BY <1>0, <2>2, <3>1, EntryCounts DEF HistoryInv, Enqueue
    <3> QED
      BY <1>0, <1>3, <3>2
  <2>3. CASE InQueue(entry[j]) /\ entry'[j].attemptsMade = entry[j].attemptsMade
    BY <1>3, <2>3 DEF HistoryInv
  <2>4. ASSUME NEW w \in Workers, run[w].job = j,
               run[w].pc \in {"resolve", "reject"},
               entry'[j].attemptsMade = entry[j].attemptsMade + 1
        PROVE  /\ n <= entry'[j].attemptsMade => AttemptClosed(attempts'[j][n])
               /\ n > entry'[j].attemptsMade + 1 => attempts'[j][n] = "NONE"
    <3>1. /\ CurrentAttempt(w) = entry[j].attemptsMade + 1
          /\ AttemptClosed(attempts[j][CurrentAttempt(w)])
      BY <2>4 DEF HistoryInv, CurrentAttempt, Live, Busy
    <3>2. InQueue(entry[j])
      BY <2>4 DEF RunOwnsEntry, InQueue, Live, Busy
    <3> QED
      BY <1>0, <1>3, <2>4, <3>1, <3>2 DEF HistoryInv
  <2>5. CASE InQueue(entry[j])
    <3>1. ~InQueue(Absent)
      BY EntryCounts DEF InQueue, Absent
    <3>2. CASE \E w \in Workers :
                 /\ Resolve(w) \/ Reject(w)
                 /\ run[w].job = j /\ entry[j].lock = w
                 /\ entry'[j].attemptsMade = entry[j].attemptsMade + 1
      BY <2>4, <3>2 DEF Resolve, Reject
    <3> QED
      BY <2>1, <2>3, <2>5, <3>1, <3>2, CountChanges
  <2> QED
    BY <2>2, <2>5
<1> QED
  BY <1>1, <1>2, <1>3

(* The entry of a run counts the attempts the run was started with.        *)
LEMMA HistoryOfRun ==
    ASSUME Typed, RunOwnsEntry, HistoryInv, [Next]_vars, NEW w \in Workers,
           Live(w)'
    PROVE  run'[w].attemptsMade = entry'[run'[w].job].attemptsMade
<1>1. ASSUME NEW j \in Jobs, Acquire(w, j), run'[w].job = j,
             run'[w].attemptsMade = entry[j].attemptsMade
      PROVE  run'[w].attemptsMade = entry'[run'[w].job].attemptsMade
  BY <1>1, EntryCounts DEF Acquire, Typed
<1>2. CASE /\ Live(w) /\ ProcessStep(w) /\ ~Resolve(w) /\ ~Reject(w)
           /\ run'[w].job = run[w].job
           /\ run'[w].attemptsMade = run[w].attemptsMade
  BY <1>2, AwaitUndisturbed DEF HistoryInv, Undisturbed
<1>3. CASE run'[w] = run[w] /\ ~ProcessStep(w)
  <2> DEFINE j == run[w].job
  <2>1. /\ Live(w) /\ j \in Jobs
        /\ entry[j].state = "active" /\ entry[j].lock = w
        /\ w # NoLock
    BY <1>3, WorkersAssumption
    DEF Live, RunOwnsEntry, Typed, BoundedRun, RunBounded
  <2>2. entry'[j].attemptsMade = entry[j].attemptsMade
    <3>1. SUFFICES ASSUME EntryChange(j)
                   PROVE  entry'[j].attemptsMade = entry[j].attemptsMade
      BY <2>1, EntryChanges
    <3>2. \A u \in Workers : entry[j].lock = u => ~Resolve(u) /\ ~Reject(u)
      BY <1>3, <2>1 DEF ProcessStep
    <3>3. InQueue(entry[j]) /\ entry[j] \in BoundedEntry
      BY <2>1 DEF InQueue, Typed
    <3> QED
      BY <2>1, <3>1, <3>2, <3>3, CountChanges
  <2> QED
    BY <1>3, <2>1, <2>2 DEF HistoryInv
<1> QED
  BY <1>1, <1>2, <1>3, RunChanges DEF RunChange

(* A run that is past its attempt's last update has ended its attempt, if  *)
(* no database call fails.                                                 *)
LEMMA HistoryOfEnd ==
    ASSUME "db" \notin Faults, Typed, RunOwnsEntry, HistoryInv, [Next]_vars,
           NEW w \in Workers,
           run'[w].pc \in {"rowCompleted", "rowFailed", "resolve", "reject"}
    PROVE  AttemptClosed(attempts'[run'[w].job][run'[w].attemptsMade + 1])
<1>0. Live(w)'
  BY DEF Live, Busy
<1>1. CASE run'[w] = run[w] /\ ~ProcessStep(w)
  <2>1. Live(w) /\ run[w].job \in Jobs
    BY <1>0, <1>1 DEF Live, Typed, BoundedRun, RunBounded
  <2>2. attempts'[run[w].job] = attempts[run[w].job]
    <3>1. SUFFICES ASSUME AttemptChange(run[w].job) PROVE FALSE
      BY <2>1, AttemptChanges
    <3>2. PICK u \in Workers :
            /\ run[u].job = run[w].job
            /\ run[u].pc \in {"upsertAttempt", "attemptCompleted",
                              "attemptFailed"}
      BY <3>1 DEF AttemptChange
    <3>3. u = w
      BY <2>1, <3>2 DEF RunOwnsEntry, Live, Busy
    <3> QED
      BY <1>1, <3>2, <3>3
  <2> QED
    BY <1>1, <2>1, <2>2 DEF HistoryInv, CurrentAttempt
<1>2. CASE /\ Live(w) /\ ProcessStep(w) /\ ~Resolve(w) /\ ~Reject(w)
           /\ run'[w].job = run[w].job
           /\ run'[w].attemptsMade = run[w].attemptsMade
  <2>1. \A pc : GoTo(w, pc) => run'[w].pc = pc
    BY DEF GoTo, Typed, BoundedRun, Run
  <2>2. /\ run[w].job \in Jobs /\ CurrentAttempt(w) \in AttemptNumber
        /\ CurrentAttempt(w) = run'[w].attemptsMade + 1
    BY <1>2, RunMoves DEF CurrentAttempt
  <2>3. ~ReadRow(w)
    BY DEF ReadRow, GoTo, Typed, BoundedRun, Run
  <2>4. CASE FindAttempt(w)
    BY <1>2, <2>1, <2>2, <2>4 DEF FindAttempt, Continue, DbReply, db
  <2>5. CASE MarkAttemptCompleted(w)
    BY <1>2, <2>2, <2>5
    DEF MarkAttemptCompleted, WriteAttempt, AttemptSet, DbReply, Typed,
        AttemptClosed
  <2>6. CASE MarkAttemptFailed(w)
    BY <1>2, <2>2, <2>6
    DEF MarkAttemptFailed, WriteAttempt, AttemptSet, DbReply, Typed,
        AttemptClosed
  <2>7. CASE MarkCompleted(w) \/ MarkRowFailed(w)
    BY <1>2, <2>2, <2>7 DEF MarkCompleted, MarkRowFailed, HistoryInv
  <2>8. ~UpsertAttempt(w) /\ ~WriteProcessing(w) /\ ~Work(w)
    BY <2>1 DEF UpsertAttempt, WriteProcessing, Work, Continue, DbReply
  <2> QED
    BY <1>2, <2>3, <2>4, <2>5, <2>6, <2>7, <2>8 DEF ProcessStep
<1> QED
  BY <1>0, <1>1, <1>2, RunChanges DEF RunChange

LEMMA HistoryInvInductive ==
    ASSUME "lockLoss" \notin Faults, "db" \notin Faults
    PROVE  Typed /\ RunOwnsEntry /\ HistoryInv /\ [Next]_vars => HistoryInv'
<1> SUFFICES ASSUME Typed, RunOwnsEntry, HistoryInv, [Next]_vars
             PROVE  HistoryInv'
  OBVIOUS
<1>1. ASSUME NEW j \in Jobs, create'[j] \in {"new", "enqueue"}
      PROVE  /\ ~InQueue(entry'[j])
             /\ \A n \in AttemptNumber : attempts'[j][n] = "NONE"
  <2>1. create[j] \in {"new", "enqueue"} /\ ~InQueue(entry'[j])
    BY <1>1, NotYetInQueue DEF HistoryInv
  <2>2. attempts'[j] = attempts[j]
    BY <2>1, AttemptWrite DEF HistoryInv
  <2> QED
    BY <2>1, <2>2 DEF HistoryInv
<1>2. \A j \in Jobs : InQueue(entry'[j]) =>
        \A n \in AttemptNumber :
          /\ n <= entry'[j].attemptsMade => AttemptClosed(attempts'[j][n])
          /\ n > entry'[j].attemptsMade + 1 => attempts'[j][n] = "NONE"
  BY HistoryOfEntry
<1>3. ASSUME NEW j \in Jobs, NEW n \in 1 .. MaxAttempts - 1,
             attempts'[j][n + 1] # "NONE"
      PROVE  AttemptClosed(attempts'[j][n])
  <2>0. /\ n \in AttemptNumber /\ n + 1 \in AttemptNumber /\ n \in Nat
        /\ entry[j].attemptsMade \in Nat
    BY MaxAttemptsAssumption DEF AttemptNumber, Typed, BoundedEntry, Entry
  <2>1. CASE attempts'[j] = attempts[j]
    BY <1>3, <2>1 DEF HistoryInv, AttemptsInOrder
  <2>2. CASE attempts'[j] # attempts[j]
    <3>1. InQueue(entry'[j]) /\ entry'[j] = entry[j]
      BY <2>2, AttemptWrite
    <3>2. n + 1 <= entry[j].attemptsMade + 1
      BY <1>2, <1>3, <2>0, <3>1
    <3> QED
      BY <1>2, <2>0, <3>1, <3>2
  <2> QED
    BY <2>1, <2>2
<1> QED
  BY <1>1, <1>2, <1>3, HistoryOfRun, HistoryOfEnd
  DEF HistoryInv, AttemptsInOrder, CurrentAttempt

LEMMA AlwaysHistoryInv ==
    ASSUME "lockLoss" \notin Faults, "db" \notin Faults
    PROVE  Spec => []HistoryInv
<1>1. Init => HistoryInv
  <2> SUFFICES ASSUME Init PROVE HistoryInv
    OBVIOUS
  <2>1. \A j \in Jobs, n \in 1 .. MaxAttempts - 1 : attempts[j][n + 1] = "NONE"
    BY MaxAttemptsAssumption DEF Init, AttemptNumber
  <2> QED
    BY <2>1 DEF Init, HistoryInv, AttemptsInOrder, InQueue, Absent, NoRun,
                Live, Busy
<1> QED
  BY <1>1, HistoryInvInductive, AlwaysTyped, Exclusion, PTL DEF Spec

(* Whatever crashes: attempt n + 1 is recorded only when attempt n has     *)
(* ended, unless a live worker can lose its lock or a database call can    *)
(* fail.                                                                   *)
THEOREM HistoryInOrder ==
    ASSUME "lockLoss" \notin Faults, "db" \notin Faults
    PROVE  Spec => []AttemptsInOrder
<1>1. HistoryInv => AttemptsInOrder
  BY DEF HistoryInv
<1> QED
  BY <1>1, AlwaysHistoryInv, PTL

=============================================================================
