---------------------------- MODULE JobStepProofs ----------------------------
(***************************************************************************)
(* What one step of JobPlatform, whosever it is, can do to one row, one    *)
(* attempt history, one queue entry or one handler.  The invariants of the *)
(* other modules are proved from these facts and not from the actions.     *)
(***************************************************************************)
EXTENDS JobPlatformProofs

-----------------------------------------------------------------------------
(* Rows                                                                    *)

(* The update of its job's row that the run in slot w makes.               *)
RunWrite(w) ==
    LET j == run[w].job
    IN  \/ /\ run[w].pc = "writeProcessing"
           /\ row'[j] = Processing(row[j], run[w].hasStarted, run[w].delivery)
        \/ /\ run[w].pc = "rowCompleted"
           /\ row'[j] = Completed(row[j], run[w].attemptsMade)
        \/ /\ run[w].pc = "rowFailed"
           /\ row'[j] = IF IsFinalAttempt(w)
                        THEN Failed(row[j], CurrentAttempt(w))
                        ELSE RetryQueued(row[j], CurrentAttempt(w))

RowChange(j) ==
    \/ create[j] = "new" /\ CreateRow(j) /\ row'[j] = NewRow
    \/ /\ create[j] = "markFailed" /\ MarkEnqueueFailed(j)
       /\ row'[j] = EnqueueFailed(row[j])
    \/ \E c \in CancelRequests : /\ cancel[c].pc = "mark" /\ cancel[c].job = j
                                 /\ row'[j] = Cancelled(row[j])
    \/ \E w \in Workers : /\ run[w].job = j /\ Live(w)
                          /\ ProcessStep(w) /\ RunWrite(w)

(* A row is written by createJob before the job is accepted, by a cancelJob *)
(* past the removal, or by a run of the job.                                *)
LEMMA RowChanges ==
    ASSUME Typed, [Next]_vars, NEW j \in Jobs, row'[j] # row[j]
    PROVE  RowChange(j)
<1>1. CASE ApiStep
  <2>1. ASSUME NEW i \in Jobs, CreateRow(i) PROVE RowChange(j)
    BY <2>1 DEF CreateRow, WriteRow, RowChange, Typed
  <2>2. ASSUME NEW i \in Jobs, MarkEnqueueFailed(i) PROVE RowChange(j)
    BY <2>2 DEF MarkEnqueueFailed, WriteRow, RowChange, Typed
  <2>3. ASSUME NEW c \in CancelRequests, CancelMark(c) PROVE RowChange(j)
    BY <2>3 DEF CancelMark, WriteRow, RowChange, Typed
  <2>4. row' # row
    OBVIOUS
  <2> QED
    BY <1>1, <2>1, <2>2, <2>3, <2>4
    DEF ApiStep, Enqueue, CancelRead, CancelGetJob, CancelRemove, Pause,
        Resume, ApiCrash, db
<1>2. CASE WorkerStep
  <2>1. ASSUME NEW w \in Workers, WriteProcessing(w) PROVE RowChange(j)
    BY <2>1 DEF WriteProcessing, WriteRow, RowChange, RunWrite, Typed, Live,
                Busy, ProcessStep
  <2>2. ASSUME NEW w \in Workers, MarkCompleted(w) PROVE RowChange(j)
    BY <2>2 DEF MarkCompleted, WriteRow, RowChange, RunWrite, Typed, Live,
                Busy, ProcessStep
  <2>3. ASSUME NEW w \in Workers, MarkRowFailed(w) PROVE RowChange(j)
    BY <2>3 DEF MarkRowFailed, WriteRow, RowChange, RunWrite, Typed, Live,
                Busy, ProcessStep
  <2>4. row' # row
    OBVIOUS
  <2> QED
    BY <1>2, <2>1, <2>2, <2>3, <2>4
    DEF WorkerStep, ProcessStep, FindAttempt, UpsertAttempt, ReadRow, Work,
        MarkAttemptCompleted, MarkAttemptFailed, Resolve, Reject, Crash,
        Close, Restart, Acquire, Promote, LockExpires, StalledCheck, db
<1> QED
  BY <1>1, <1>2 DEF Next, vars

(* One step writes one row.                                                *)
LEMMA OneRow ==
    ASSUME Typed, [Next]_vars, NEW j \in Jobs, row'[j] # row[j]
    PROVE  row' = [row EXCEPT ![j] = row'[j]]
<1>1. ASSUME NEW i \in Jobs, NEW reply, NEW new, WriteRow(i, reply, new)
      PROVE  row' = [row EXCEPT ![j] = row'[j]]
  BY <1>1 DEF WriteRow, Typed
<1>2. CASE ApiStep
  BY <1>1, <1>2, HandlerMoves
  DEF ApiStep, CreateRow, MarkEnqueueFailed, CancelMark, Enqueue, CancelRead,
      CancelGetJob, CancelRemove, Pause, Resume, ApiCrash, db
<1>3. CASE WorkerStep
  <2>1. ASSUME NEW w \in Workers,
               WriteProcessing(w) \/ MarkCompleted(w) \/ MarkRowFailed(w)
        PROVE  row' = [row EXCEPT ![j] = row'[j]]
    <3>1. run[w].job \in Jobs
      BY <2>1
      DEF WriteProcessing, MarkCompleted, MarkRowFailed, Typed, BoundedRun,
          RunBounded, Busy
    <3> QED
      BY <1>1, <2>1, <3>1 DEF WriteProcessing, MarkCompleted, MarkRowFailed
  <2> QED
    BY <1>3, <2>1
    DEF WorkerStep, ProcessStep, FindAttempt, UpsertAttempt, ReadRow, Work,
        MarkAttemptCompleted, MarkAttemptFailed, Resolve, Reject, Crash,
        Close, Restart, Acquire, Promote, LockExpires, StalledCheck, db
<1> QED
  BY <1>2, <1>3 DEF Next, vars

(* What the updates leave in the columns that the invariants are about.    *)
LEMMA RowColumns ==
    ASSUME NEW r \in JobRow
    PROVE  /\ EnqueueFailed(r).status = "FAILED"
           /\ EnqueueFailed(r).retryCount = r.retryCount
           /\ EnqueueFailed(r).startedAt = r.startedAt
           /\ Cancelled(r).status = "CANCELLED"
           /\ Cancelled(r).retryCount = r.retryCount
           /\ Cancelled(r).startedAt = r.startedAt
           /\ \A b, d : /\ Processing(r, b, d).status = "PROCESSING"
                        /\ Processing(r, b, d).retryCount = r.retryCount
                        /\ Processing(r, b, d).startedAt
                             = IF b THEN r.startedAt ELSE d
           /\ \A k : /\ RetryQueued(r, k).status = "QUEUED"
                     /\ RetryQueued(r, k).startedAt = r.startedAt
                     /\ Completed(r, k).status = "COMPLETED"
                     /\ Completed(r, k).startedAt = r.startedAt
                     /\ Failed(r, k).status = "FAILED"
                     /\ Failed(r, k).retryCount = k
                     /\ Failed(r, k).startedAt = r.startedAt
  BY DEF EnqueueFailed, Cancelled, Processing, RetryQueued, Completed, Failed,
         JobRow

-----------------------------------------------------------------------------
(* Attempts                                                                *)

AttemptChange(j) ==
    \E w \in Workers :
      /\ run[w].job = j
      /\ \/ /\ run[w].pc = "upsertAttempt"
            /\ attempts'[j] = AttemptSet(attempts[j], CurrentAttempt(w),
                                         "PROCESSING")
         \/ /\ run[w].pc = "attemptCompleted"
            /\ attempts'[j] = AttemptSet(attempts[j], CurrentAttempt(w),
                                         "COMPLETED")
         \/ /\ run[w].pc = "attemptFailed"
            /\ attempts'[j] = AttemptSet(attempts[j], CurrentAttempt(w),
                                         "FAILED")

(* Only runs write attempts, and each only its own.                        *)
LEMMA AttemptChanges ==
    ASSUME Typed, [Next]_vars, NEW j \in Jobs, attempts'[j] # attempts[j]
    PROVE  AttemptChange(j)
<1>1. ASSUME NEW w \in Workers,
             \/ UpsertAttempt(w)
             \/ MarkAttemptCompleted(w)
             \/ MarkAttemptFailed(w)
      PROVE  AttemptChange(j)
  BY <1>1 DEF UpsertAttempt, MarkAttemptCompleted, MarkAttemptFailed,
              WriteAttempt, AttemptChange, Typed
<1>2. attempts' # attempts
  OBVIOUS
<1>3. ~ApiStep
  BY <1>2 DEF ApiStep, CreateRow, Enqueue, MarkEnqueueFailed, CancelRead,
     CancelGetJob, CancelRemove, CancelMark, Pause, Resume, ApiCrash, db
<1>4. CASE WorkerStep
  BY <1>1, <1>2, <1>4
  DEF WorkerStep, ProcessStep, FindAttempt, ReadRow, WriteProcessing, Work,
      MarkCompleted, MarkRowFailed, Resolve, Reject, Crash, Close,
      Restart, Acquire, Promote, LockExpires, StalledCheck, db
<1> QED
  BY <1>2, <1>3, <1>4 DEF Next, vars

(* The run that writes an attempt does so in the step that it takes.       *)
LEMMA AttemptWriter ==
    ASSUME Typed, [Next]_vars, NEW j \in Jobs, attempts'[j] # attempts[j]
    PROVE  \E w \in Workers : run[w].job = j /\ Live(w) /\ ProcessStep(w)
<1>1. ASSUME NEW w \in Workers,
             \/ UpsertAttempt(w)
             \/ MarkAttemptCompleted(w)
             \/ MarkAttemptFailed(w)
      PROVE  run[w].job = j /\ Live(w) /\ ProcessStep(w)
  BY <1>1 DEF UpsertAttempt, MarkAttemptCompleted, MarkAttemptFailed,
              WriteAttempt, Typed, Live, Busy, ProcessStep
<1>2. ~ApiStep
  BY DEF ApiStep, CreateRow, Enqueue, MarkEnqueueFailed, CancelRead,
     CancelGetJob, CancelRemove, CancelMark, Pause, Resume, ApiCrash, db
<1>3. CASE WorkerStep
  BY <1>1, <1>3
  DEF WorkerStep, ProcessStep, FindAttempt, ReadRow, WriteProcessing, Work,
      MarkCompleted, MarkRowFailed, Resolve, Reject, Crash, Close,
      Restart, Acquire, Promote, LockExpires, StalledCheck, db
<1> QED
  BY <1>2, <1>3 DEF Next, vars

(* The attempt of a run is written by nobody but the run.                  *)
LEMMA AttemptIsMine ==
    ASSUME Typed, RunOwnsEntry, [Next]_vars, NEW w \in Workers, Live(w),
           ~ProcessStep(w)
    PROVE  attempts'[run[w].job] = attempts[run[w].job]
<1>1. run[w].job \in Jobs
  BY DEF Typed, BoundedRun, RunBounded, Live
<1>2. SUFFICES ASSUME attempts'[run[w].job] # attempts[run[w].job] PROVE FALSE
  OBVIOUS
<1>3. PICK u \in Workers : /\ run[u].job = run[w].job /\ Live(u)
                           /\ ProcessStep(u)
  BY <1>1, <1>2, AttemptWriter
<1> QED
  BY <1>3 DEF RunOwnsEntry

(* No step writes a row and an attempt.                                    *)
LEMMA OneTable == [Next]_vars => row' = row \/ attempts' = attempts
  BY DEF Next, ApiStep, CreateRow, Enqueue, MarkEnqueueFailed, CancelRead,
     CancelGetJob, CancelRemove, CancelMark, Pause, Resume, ApiCrash,
     WorkerStep, ProcessStep, FindAttempt, UpsertAttempt, ReadRow,
     WriteProcessing, Work, MarkAttemptCompleted, MarkCompleted,
     MarkAttemptFailed, MarkRowFailed, Resolve, Reject, Crash, Close, Restart,
     Acquire, Promote, LockExpires, StalledCheck, vars, db

-----------------------------------------------------------------------------
(* Queue entries                                                           *)

EntryChange(j) ==
    \/ Enqueue(j) /\ ~InQueue(entry[j])
         /\ \E b \in BOOLEAN : entry'[j] = Added(entry[j], b)
    \/ \E c \in CancelRequests :
         /\ cancel[c].job = j /\ CancelRemove(c)
         /\ entry[j].lock = NoLock /\ entry'[j] = Absent
    \/ \E w \in Workers : Acquire(w, j) /\ entry'[j] = Taken(entry[j], w)
    \/ \E w \in Workers : /\ Resolve(w) /\ run[w].job = j /\ entry[j].lock = w
                          /\ entry'[j] = FinishedOk(entry[j])
    \/ \E w \in Workers : /\ Reject(w) /\ run[w].job = j /\ entry[j].lock = w
                          /\ entry'[j] = FinishedWithError(entry[j])
    \/ Promote(j) /\ entry'[j] = Promoted(entry[j])
    \/ LockExpires(j) /\ entry'[j] = Unlocked(entry[j])
    \/ StalledCheck(j) /\ entry'[j] = Stalled(entry[j])
    \/ \E w \in Workers : /\ Crash(w) /\ entry[j].lock = w
                          /\ entry'[j] = [entry[j] EXCEPT !.lock = Orphan]

LEMMA EntryChanges ==
    ASSUME Typed, [Next]_vars, NEW j \in Jobs, entry'[j] # entry[j]
    PROVE  EntryChange(j)
<1>0. entry' # entry /\ entry \in [Jobs -> BoundedEntry]
  BY DEF Typed
<1>1. CASE ApiStep
  <2>1. ASSUME NEW i \in Jobs, Enqueue(i) PROVE EntryChange(j)
    <3>1. i = j /\ \E b \in BOOLEAN : entry'[j] = Added(entry[j], b)
      BY <1>0, <2>1, EnqueueAdds DEF WriteEntry
    <3>2. ~InQueue(entry[j])
      BY <3>1 DEF Added
    <3> QED
      BY <2>1, <3>1, <3>2 DEF EntryChange
  <2>2. ASSUME NEW c \in CancelRequests, CancelRemove(c) PROVE EntryChange(j)
    BY <1>0, <2>2 DEF CancelRemove, WriteEntry, Removable, EntryChange
  <2> QED
    BY <1>0, <1>1, <2>1, <2>2
    DEF ApiStep, CreateRow, MarkEnqueueFailed, CancelRead, CancelGetJob,
        CancelMark, Pause, Resume, ApiCrash, queue
<1>2. CASE WorkerStep
  <2>1. ASSUME NEW w \in Workers, Resolve(w) PROVE EntryChange(j)
    BY <1>0, <2>1 DEF Resolve, OwnedBy, EntryChange
  <2>2. ASSUME NEW w \in Workers, Reject(w) PROVE EntryChange(j)
    BY <1>0, <2>2 DEF Reject, OwnedBy, EntryChange
  <2>3. ASSUME NEW w \in Workers, Crash(w) PROVE EntryChange(j)
    BY <1>0, <2>3 DEF Crash, EntryChange
  <2>4. ASSUME NEW w \in Workers, NEW i \in Jobs, Acquire(w, i)
        PROVE  EntryChange(j)
    BY <1>0, <2>4 DEF Acquire, EntryChange
  <2>5. ASSUME NEW i \in Jobs, Promote(i) PROVE EntryChange(j)
    BY <1>0, <2>5 DEF Promote, EntryChange
  <2>6. ASSUME NEW i \in Jobs, LockExpires(i) PROVE EntryChange(j)
    BY <1>0, <2>6 DEF LockExpires, EntryChange
  <2>7. ASSUME NEW i \in Jobs, StalledCheck(i) PROVE EntryChange(j)
    BY <1>0, <2>7 DEF StalledCheck, EntryChange
  <2> QED
    BY <1>0, <1>2, <2>1, <2>2, <2>3, <2>4, <2>5, <2>6, <2>7
    DEF WorkerStep, ProcessStep, FindAttempt, UpsertAttempt, ReadRow,
        WriteProcessing, Work, MarkAttemptCompleted, MarkCompleted,
        MarkAttemptFailed, MarkRowFailed, Close, Restart, queue
<1> QED
  BY <1>0, <1>1, <1>2 DEF Next, vars

(* Only queue.add makes an entry appear.                                   *)
LEMMA EntryAppears ==
    ASSUME Typed, [Next]_vars, NEW j \in Jobs,
           ~InQueue(entry[j]), InQueue(entry'[j])
    PROVE  Enqueue(j)
<1>1. /\ entry[j].state = "absent" /\ entry[j].lock = NoLock
      /\ NoLock \notin Workers /\ NoLock # Orphan
  BY WorkersAssumption
  DEF Typed, InQueue, BoundedEntry, EntryBounded, Entry, NoLock, Orphan
<1>2. entry'[j] # entry[j] /\ entry'[j] # Absent
  BY DEF InQueue, Absent
<1>3. EntryChange(j)
  BY <1>2, EntryChanges
<1> QED
  BY <1>1, <1>2, <1>3
  DEF EntryChange, Acquire, Waiting, Promote, LockExpires, StalledCheck

-----------------------------------------------------------------------------
(* Handlers of the API                                                     *)

(* An answer of 202 is not taken back.                                     *)
LEMMA AcceptedStays ==
    ASSUME Typed, [Next]_vars, NEW j \in Jobs, create[j] = "accepted"
    PROVE  create'[j] = "accepted"
<1>1. CASE ApiStep
  BY <1>1 DEF ApiStep, CreateRow, Enqueue, MarkEnqueueFailed, CreateTo,
     CancelRead, CancelGetJob, CancelRemove, CancelMark, Pause, Resume,
     ApiCrash, CreateInFlight, Typed, api
<1>2. CASE WorkerStep
  BY <1>2 DEF WorkerStep, ProcessStep, FindAttempt, UpsertAttempt, ReadRow,
     WriteProcessing, Work, MarkAttemptCompleted, MarkCompleted,
     MarkAttemptFailed, MarkRowFailed, Resolve, Reject, Crash, Close, Restart,
     Acquire, Promote, LockExpires, StalledCheck, api
<1> QED
  BY <1>1, <1>2 DEF Next, vars

(* createJob accepts only in Enqueue, and comes to each await but once.    *)
CreateMove(j) ==
    /\ create'[j] = "accepted" /\ create[j] # "accepted" => Enqueue(j)
    /\ create'[j] = "new" => create[j] = "new" /\ ~CreateRow(j)
    /\ create'[j] = "enqueue" => create[j] \in {"new", "enqueue"} /\ ~Enqueue(j)
    /\ create'[j] \in CreateInFlight =>
         \/ create[j] = "new" /\ CreateRow(j)
         \/ create[j] \in CreateInFlight /\ ~MarkEnqueueFailed(j)

LEMMA CreateMoves ==
    ASSUME Typed, [Next]_vars, NEW j \in Jobs
    PROVE  CreateMove(j)
<1>0. create \in [Jobs -> CreatePC]
  BY DEF Typed
<1> USE DEF CreateInFlight, MarkEnqueueFailed
<1>1. ASSUME NEW i \in Jobs, CreateRow(i) PROVE CreateMove(j)
  BY <1>0, <1>1 DEF CreateRow, CreateTo, CreateMove, Enqueue
<1>2. ASSUME NEW i \in Jobs, Enqueue(i) PROVE CreateMove(j)
  BY <1>0, <1>2 DEF CreateRow, CreateTo, CreateMove, Enqueue
<1>3. ASSUME NEW i \in Jobs, MarkEnqueueFailed(i) PROVE CreateMove(j)
  BY <1>0, <1>3 DEF CreateRow, CreateTo, CreateMove, Enqueue
<1>4. CASE ApiCrash
  BY <1>0, <1>4
  DEF ApiCrash, CreateRow, CreateTo, CreateMove, Enqueue
<1>5. CASE create' = create
  BY <1>0, <1>5 DEF CreateRow, CreateTo, CreateMove, Enqueue
<1>6. CASE ApiStep
  BY <1>1, <1>2, <1>3, <1>4, <1>5, <1>6
  DEF ApiStep, CancelRead, CancelGetJob, CancelRemove, CancelMark, Pause,
      Resume, api
<1>7. CASE WorkerStep
  BY <1>5, <1>7 DEF WorkerStep, ProcessStep, FindAttempt, UpsertAttempt,
     ReadRow, WriteProcessing, Work, MarkAttemptCompleted, MarkCompleted,
     MarkAttemptFailed, MarkRowFailed, Resolve, Reject, Crash, Close, Restart,
     Acquire, Promote, LockExpires, StalledCheck, api
<1> QED
  BY <1>5, <1>6, <1>7 DEF Next, vars

(* cancelJob reaches the removal only past queue.getJob, and the update of *)
(* the row only past the removal; past that it can only succeed or end     *)
(* unmarked.                                                               *)
CancelMove(c) ==
    /\ cancel'[c].job = cancel[c].job
    /\ cancel'[c].pc = "remove" /\ cancel[c].pc # "remove"
         => InQueue(entry[cancel[c].job])
    /\ cancel'[c].pc = "mark" /\ cancel[c].pc # "mark"
         => cancel[c].pc = "remove" /\ ~InQueue(entry'[cancel[c].job])
    /\ cancel[c].pc = "mark"
         => \/ cancel'[c].pc \in {"mark", "unmarked"}
            \/ row'[cancel[c].job].status = "CANCELLED"
    /\ cancel[c].pc = "unmarked" => cancel'[c].pc = cancel[c].pc
    /\ CancelRemove(c) => \/ cancel'[c].pc = "conflict"
                          \/ cancel'[c].pc = "mark"

LEMMA CancelMoves ==
    ASSUME Typed, [Next]_vars, NEW c \in CancelRequests
    PROVE  CancelMove(c)
<1>1. cancel \in [CancelRequests -> CancelRecord] /\ cancel[c].job \in Jobs
  BY DEF Typed, CancelRecord
<1>2. ASSUME NEW b \in CancelRequests, NEW pc, CancelTo(b, pc)
      PROVE  /\ cancel'[c].job = cancel[c].job
             /\ cancel'[c].pc = IF b = c THEN pc ELSE cancel[c].pc
  BY <1>1, <1>2 DEF CancelTo, CancelRecord
<1>0. CancelRemove(c) => \/ cancel'[c].pc = "conflict"
                         \/ cancel'[c].pc = "mark"
  BY <1>2 DEF CancelRemove
<1>3. ASSUME NEW b \in CancelRequests, CancelRead(b) PROVE CancelMove(c)
  BY <1>0, <1>2, <1>3 DEF CancelRead, CancelMove
<1>4. ASSUME NEW b \in CancelRequests, CancelGetJob(b) PROVE CancelMove(c)
  BY <1>0, <1>2, <1>4 DEF CancelGetJob, CancelMove
<1>5. ASSUME NEW b \in CancelRequests, CancelRemove(b) PROVE CancelMove(c)
  <2>1. CASE CancelTo(b, "conflict")
    BY <1>0, <1>2, <1>5, <2>1 DEF CancelMove, CancelRemove
  <2>2. CASE /\ CancelTo(b, "mark")
             /\ entry' = [entry EXCEPT ![cancel[b].job] = Absent]
    BY <1>0, <1>1, <1>2, <1>5, <2>2
    DEF CancelMove, CancelRemove, Typed, InQueue, Absent
  <2> QED
    BY <1>5, <2>1, <2>2 DEF CancelRemove, WriteEntry, RedisReply
<1>6. ASSUME NEW b \in CancelRequests, CancelMark(b) PROVE CancelMove(c)
  <2>1. Cancelled(row[cancel[b].job]).status = "CANCELLED"
    <3>1. row[cancel[b].job] \in JobRow
      BY HandlerMoves DEF Typed
    <3> QED
      BY <3>1, RowColumns
  <2>2. \/ CancelTo(b, "unmarked")
        \/ /\ CancelTo(b, "cancelled")
           /\ row'[cancel[b].job].status = "CANCELLED"
    BY <1>6, <2>1, HandlerMoves DEF CancelMark, WriteRow, DbReply, Typed
  <2> QED
    BY <1>0, <1>2, <1>6, <2>2 DEF CancelMark, CancelMove
<1>7. CASE ApiCrash
  BY <1>0, <1>1, <1>7 DEF ApiCrash, CancelMove, CancelRecord, CancelInFlight
<1>8. CASE cancel' = cancel
  BY <1>0, <1>8 DEF CancelMove
<1>9. CASE ApiStep
  BY <1>3, <1>4, <1>5, <1>6, <1>7, <1>8, <1>9
  DEF ApiStep, CreateRow, Enqueue, MarkEnqueueFailed, Pause, Resume, api
<1>10. CASE WorkerStep
  BY <1>8, <1>10 DEF WorkerStep, ProcessStep, FindAttempt, UpsertAttempt,
     ReadRow, WriteProcessing, Work, MarkAttemptCompleted, MarkCompleted,
     MarkAttemptFailed, MarkRowFailed, Resolve, Reject, Crash, Close, Restart,
     Acquire, Promote, LockExpires, StalledCheck, api
<1> QED
  BY <1>8, <1>9, <1>10 DEF Next, vars

-----------------------------------------------------------------------------
(* Runs                                                                    *)

(* A run begins when its slot fetches a waiting entry, and keeps its job   *)
(* and its attempt until it ends.                                          *)
RunChange(w) ==
    \/ run'[w] = run[w] /\ ~ProcessStep(w)
    \/ ~Live(w)'
    \/ \E j \in Jobs : /\ Acquire(w, j) /\ run'[w].job = j
                       /\ run'[w].pc = "findAttempt"
                       /\ run'[w].attemptsMade = entry[j].attemptsMade
    \/ /\ Live(w) /\ ProcessStep(w) /\ ~Resolve(w) /\ ~Reject(w)
       /\ run'[w].job = run[w].job
       /\ run'[w].attemptsMade = run[w].attemptsMade

LEMMA RunChanges ==
    ASSUME Typed, [Next]_vars, NEW w \in Workers
    PROVE  RunChange(w)
<1>0. run \in [Workers -> Run]
  BY DEF Typed, BoundedRun
<1>1. ASSUME ProcessStep(w) PROVE RunChange(w)
  <2>1. CASE Resolve(w) \/ Reject(w)
    BY <1>0, <2>1 DEF Resolve, Reject, Release, NoRun, Live, Busy, RunChange
  <2>2. CASE ReadRow(w)
    BY <1>0, <1>1, <2>2
    DEF ReadRow, Resolve, Reject, GoTo, Run, Live, Busy, RunChange
  <2>3. CASE ~Resolve(w) /\ ~Reject(w) /\ ~ReadRow(w)
    <3>1. Live(w) /\ \E pc \in Busy : GoTo(w, pc)
      BY <1>1, <2>3 DEF ProcessStep, FindAttempt, UpsertAttempt,
         WriteProcessing, Work, MarkAttemptCompleted, MarkCompleted,
         MarkAttemptFailed, MarkRowFailed, Continue, Live, Busy
    <3> QED
      BY <1>0, <1>1, <2>3, <3>1 DEF GoTo, Run, RunChange
  <2> QED
    BY <2>1, <2>2, <2>3
<1>2. ASSUME ~ProcessStep(w) PROVE RunChange(w)
  <2>1. CASE run' = run
    BY <1>2, <2>1 DEF RunChange
  <2>2. ASSUME NEW u \in Workers, ProcessStep(u) PROVE RunChange(w)
    <3>1. u # w
      BY <1>2, <2>2
    <3>2. run'[w] = run[w]
      BY <1>0, <2>2, <3>1
      DEF ProcessStep, FindAttempt, UpsertAttempt, ReadRow, WriteProcessing,
          Work, MarkAttemptCompleted, MarkCompleted, MarkAttemptFailed,
          MarkRowFailed, Resolve, Reject, Release, GoTo, Continue
    <3> QED
      BY <1>2, <3>2 DEF RunChange
  <2>3. ASSUME NEW u \in Workers, Crash(u) \/ Close(u) \/ Restart(u) PROVE RunChange(w)
    BY <1>0, <1>2, <2>3
    DEF Crash, Close, Restart, GoTo, Release, NoRun, Run, Live, Busy, RunChange
  <2>4. ASSUME NEW u \in Workers, NEW j \in Jobs, Acquire(u, j)
        PROVE  RunChange(w)
    BY <1>0, <1>2, <2>4 DEF Acquire, RunChange
  <2>5. CASE ApiStep
    BY <2>1, <2>5 DEF ApiStep, CreateRow, Enqueue, MarkEnqueueFailed,
       CancelRead, CancelGetJob, CancelRemove, CancelMark, Pause, Resume,
       ApiCrash
  <2>6. CASE WorkerStep
    BY <2>1, <2>2, <2>3, <2>4, <2>6
    DEF WorkerStep, Promote, LockExpires, StalledCheck
  <2> QED
    BY <2>1, <2>5, <2>6 DEF Next, vars
<1> QED
  BY <1>1, <1>2

(* An await that is followed by another keeps the job and the attempt.     *)
LEMMA AwaitKeeps ==
    ASSUME Typed, [Next]_vars, NEW w \in Workers,
           Live(w), ProcessStep(w), ~Resolve(w), ~Reject(w), Live(w)'
    PROVE  run'[w].job = run[w].job /\ run'[w].attemptsMade = run[w].attemptsMade
  BY RunChanges DEF RunChange, Acquire, Live, Busy

=============================================================================
