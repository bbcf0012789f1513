------------------------- MODULE JobPlatformProofs --------------------------
(***************************************************************************)
(* Theorems about JobPlatform for every set of jobs, slots and requests,   *)
(* every number of attempts and of stalls.                                 *)
(*                                                                         *)
(* The invariants build on each other: the types and bounds (Typed) hold   *)
(* under every fault; a run owns its entry unless locks can be lost; from  *)
(* that and the order of cancelJob's steps follows what a cancellation is  *)
(* worth.                                                                  *)
(***************************************************************************)
EXTENDS JobPlatform, TLAPS

-----------------------------------------------------------------------------
(* What the updates of the stores return                                   *)

(* A row that does not exist, is new, refused or cancelled is a row.       *)
LEMMA RowsMade == NoRow \in JobRow /\ NewRow \in JobRow
<1>1. 0 \in 0 .. MaxAttempts
  BY MaxAttemptsAssumption
<1> QED
  BY <1>1 DEF NoRow, NewRow, JobRow, JobStatus, TerminalStatus

LEMMA RowsEnded ==
    ASSUME NEW r \in JobRow
    PROVE  EnqueueFailed(r) \in JobRow /\ Cancelled(r) \in JobRow
  BY DEF EnqueueFailed, Cancelled, JobRow, JobStatus, TerminalStatus

(* The updates a worker makes take a row to a row.                         *)
LEMMA RowUpdates ==
    ASSUME NEW r \in JobRow, NEW k \in 0 .. MaxAttempts
    PROVE  /\ \A d \in Delivery, b \in BOOLEAN : Processing(r, b, d) \in JobRow
           /\ RetryQueued(r, k) \in JobRow
           /\ Completed(r, k) \in JobRow
           /\ Failed(r, k) \in JobRow
<1>1. \A d \in Delivery, b \in BOOLEAN : Processing(r, b, d) \in JobRow
  BY DEF Processing, JobRow, JobStatus, TerminalStatus
<1>2. RetryQueued(r, k) \in JobRow /\ Completed(r, k) \in JobRow
                                   /\ Failed(r, k) \in JobRow
  BY DEF RetryQueued, Completed, Failed, JobRow, JobStatus, TerminalStatus
<1> QED
  BY <1>1, <1>2

(* An entry that may still be handed to a worker has an attempt left and   *)
(* has not used up its stalls; a lock is only on an active entry.          *)
EntryBounded(e) ==
    /\ e.lock # NoLock => e.state = "active"
    /\ e.state \in {"prioritized", "wait", "delayed", "active"} =>
         /\ e.attemptsMade < MaxAttempts
         /\ e.stalls <= MaxStalledCount

BoundedEntry == {e \in Entry : EntryBounded(e)}

(* An entry that does not exist, or that was just added, is within bounds. *)
LEMMA AbsentBounded == Absent \in BoundedEntry
  BY MaxAttemptsAssumption, MaxStalledAssumption
  DEF Absent, BoundedEntry, EntryBounded, Entry, EntryState, Holder

LEMMA EntryUpdatesAdd ==
    ASSUME NEW e \in BoundedEntry, NEW b \in BOOLEAN
    PROVE  Added(e, b) \in BoundedEntry
  BY AbsentBounded, MaxAttemptsAssumption, MaxStalledAssumption
  DEF Added, InQueue, Absent, BoundedEntry, EntryBounded, Entry, EntryState,
      Holder

(* BullMQ's timers keep an entry within its bounds.                        *)
LEMMA EntryTimers ==
    ASSUME NEW e \in BoundedEntry
    PROVE  /\ e.state = "delayed" => Promoted(e) \in BoundedEntry
           /\ e.state = "active" /\ e.lock = NoLock
                => Stalled(e) \in BoundedEntry
           /\ Unlocked(e) \in BoundedEntry
<1> USE MaxAttemptsAssumption, MaxStalledAssumption
    DEF BoundedEntry, EntryBounded, Entry, EntryState, Holder
<1>1. e.state = "delayed" => Promoted(e) \in BoundedEntry
  BY DEF Promoted
<1>2. e.state = "active" /\ e.lock = NoLock => Stalled(e) \in BoundedEntry
  <2> HAVE e.state = "active" /\ e.lock = NoLock
  <2>1. e.stalls + 1 \in 0 .. MaxStalledCount + 1
    OBVIOUS
  <2>2. e.stalls < MaxStalledCount => e.stalls + 1 <= MaxStalledCount
    OBVIOUS
  <2> QED
    BY <2>1, <2>2 DEF Stalled
<1>3. Unlocked(e) \in BoundedEntry
  BY DEF Unlocked
<1> QED
  BY <1>1, <1>2, <1>3

(* What a worker does to an entry keeps it within its bounds.              *)
LEMMA EntryUpdates ==
    ASSUME NEW e \in BoundedEntry, NEW w \in Workers
    PROVE  /\ Waiting(e) => Taken(e, w) \in BoundedEntry
           /\ OwnedBy(e, w) => /\ FinishedOk(e) \in BoundedEntry
                               /\ FinishedWithError(e) \in BoundedEntry
           /\ e.lock = w => [e EXCEPT !.lock = Orphan] \in BoundedEntry
<1> USE MaxAttemptsAssumption, MaxStalledAssumption
    DEF BoundedEntry, EntryBounded, Entry, EntryState, Holder
<1>0. w # NoLock /\ w # Orphan /\ NoLock # Orphan
  BY WorkersAssumption DEF NoLock, Orphan
<1>1. Waiting(e) => Taken(e, w) \in BoundedEntry
  BY DEF Taken, Waiting
<1>2. OwnedBy(e, w) => FinishedOk(e) \in BoundedEntry
  <2> HAVE OwnedBy(e, w)
  <2>1. e.state = "active" /\ e.attemptsMade + 1 \in 0 .. MaxAttempts
    BY <1>0 DEF OwnedBy
  <2> QED
    BY <2>1 DEF FinishedOk
<1>3. OwnedBy(e, w) => FinishedWithError(e) \in BoundedEntry
  <2> HAVE OwnedBy(e, w)
  <2>1. /\ e.state = "active" /\ e.stalls <= MaxStalledCount
        /\ e.attemptsMade + 1 \in 0 .. MaxAttempts
    BY <1>0 DEF OwnedBy
  <2> QED
    BY <2>1 DEF FinishedWithError
<1>4. e.lock = w => [e EXCEPT !.lock = Orphan] \in BoundedEntry
  BY <1>0
<1> QED
  BY <1>1, <1>2, <1>3, <1>4

(* A run that is in progress is of a job, and has an attempt left.         *)
RunBounded(r) ==
    r.pc \in Busy => /\ r.job \in Jobs
                     /\ r.attemptsMade < MaxAttempts
                     /\ r.delivery \in Delivery

BoundedRun == {r \in Run : RunBounded(r)}

(* Moving a run in progress to another await keeps it within its bounds.   *)
LEMMA RunUpdates ==
    ASSUME NEW r \in BoundedRun, NEW pc \in Busy, r.pc \in Busy
    PROVE  /\ [r EXCEPT !.pc = pc] \in BoundedRun
           /\ \A b \in BOOLEAN :
                [r EXCEPT !.pc = pc, !.hasStarted = b] \in BoundedRun
           /\ r.attemptsMade + 1 \in AttemptNumber
           /\ r.attemptsMade \in 0 .. MaxAttempts
           /\ r.attemptsMade + 1 \in 0 .. MaxAttempts
           /\ r.delivery \in Delivery
           /\ r.job \in Jobs
<1> USE MaxAttemptsAssumption
<1>1. r \in Run /\ r.job \in Jobs /\ r.attemptsMade < MaxAttempts
                /\ r.delivery \in Delivery
  BY DEF BoundedRun, RunBounded
<1>2. /\ r.attemptsMade + 1 \in AttemptNumber
      /\ r.attemptsMade \in 0 .. MaxAttempts
      /\ r.attemptsMade + 1 \in 0 .. MaxAttempts
  BY <1>1 DEF Run, AttemptNumber
<1>3. /\ [r EXCEPT !.pc = pc] \in BoundedRun
      /\ \A b \in BOOLEAN :
           [r EXCEPT !.pc = pc, !.hasStarted = b] \in BoundedRun
  BY <1>1 DEF BoundedRun, RunBounded, Run
<1> QED
  BY <1>1, <1>2, <1>3

(* A free slot and a slot that is down are within their bounds.            *)
LEMMA NoRunBounded ==
    NoRun \in BoundedRun /\ [NoRun EXCEPT !.pc = "down"] \in BoundedRun
<1>1. 0 \in 0 .. MaxAttempts
  BY MaxAttemptsAssumption
<1>2. NoRun \in Run /\ NoRun.pc = "free"
  BY <1>1 DEF NoRun, Run
<1>3. [NoRun EXCEPT !.pc = "down"] \in Run
  BY <1>2 DEF Run
<1>4. [NoRun EXCEPT !.pc = "down"].pc = "down"
  BY <1>2 DEF Run
<1>5. "free" \notin Busy /\ "down" \notin Busy
  BY DEF Busy
<1> QED
  BY <1>2, <1>3, <1>4, <1>5 DEF BoundedRun, RunBounded

-----------------------------------------------------------------------------
(* Types and bounds                                                        *)

(* TypeOK strengthened with the bounds of entries and runs, without which  *)
(* attempt numbers and counters could leave their types.                   *)
Typed ==
    /\ row \in [Jobs -> JobRow]
    /\ attempts \in [Jobs -> [AttemptNumber -> AttemptStatus]]
    /\ payload \in [Jobs -> Payloads]
    /\ entry \in [Jobs -> BoundedEntry]
    /\ paused \in BOOLEAN
    /\ create \in [Jobs -> CreatePC]
    /\ cancel \in [CancelRequests -> CancelRecord]
    /\ run \in [Workers -> BoundedRun]

LEMMA TypedImpliesTypeOK == Typed => TypeOK
  BY DEF Typed, TypeOK, BoundedEntry, BoundedRun

LEMMA InitTyped == Init => Typed
<1> SUFFICES ASSUME Init PROVE Typed
  OBVIOUS
<1>1. cancel \in [CancelRequests -> CancelRecord]
  BY DEF Init, CancelRecord, CancelPC
<1> QED
  BY <1>1, RowsMade, AbsentBounded, NoRunBounded
  DEF Init, Typed, AttemptStatus, CreatePC

(* Moving a handler keeps the types of create and cancel.                  *)
LEMMA HandlerMoves ==
    ASSUME Typed
    PROVE  /\ \A j \in Jobs, pc \in CreatePC :
                CreateTo(j, pc) => create' \in [Jobs -> CreatePC]
           /\ \A c \in CancelRequests, pc \in CancelPC :
                CancelTo(c, pc) => cancel' \in [CancelRequests -> CancelRecord]
           /\ \A c \in CancelRequests : cancel[c].job \in Jobs
  BY DEF Typed, CreateTo, CancelTo, CancelRecord

(* The handlers of the API keep the types.                                 *)
(* Whatever the schedule of a request, its entry is delayed or it is not.  *)
LEMMA EnqueueAdds ==
    ASSUME NEW j \in Jobs, Enqueue(j)
    PROVE  \E reply \in RedisReply, b \in BOOLEAN :
             /\ WriteEntry(j, reply, Added(entry[j], b))
             /\ CreateTo(j, IF reply = "ok" THEN "accepted" ELSE "markFailed")
<1>1. PICK reply \in RedisReply, s \in Schedule :
        /\ WriteEntry(j, reply, Added(entry[j], IsDelayed(s)))
        /\ CreateTo(j, IF reply = "ok" THEN "accepted" ELSE "markFailed")
  BY DEF Enqueue
<1>2. IsDelayed(s) \in BOOLEAN
  BY DEF IsDelayed
<1> QED
  BY <1>1, <1>2

LEMMA ApiTyped == Typed /\ ApiStep => Typed'
<1> SUFFICES ASSUME Typed, ApiStep PROVE Typed'
  OBVIOUS
<1> USE DEF CreatePC, CreateInFlight
<1>1. ASSUME NEW j \in Jobs, CreateRow(j) PROVE Typed'
  BY <1>1, RowsMade DEF Typed, CreateRow, CreateTo, WriteRow, queue
<1>2. ASSUME NEW j \in Jobs, Enqueue(j) PROVE Typed'
  <2>1. \A b \in BOOLEAN : Added(entry[j], b) \in BoundedEntry
    BY EntryUpdatesAdd DEF Typed
  <2>2. UNCHANGED <<db, payload, paused, cancel, run>>
    BY <1>2 DEF Enqueue
  <2> QED
    BY <1>2, <2>1, <2>2, EnqueueAdds DEF Typed, CreateTo, WriteEntry, db
<1>3. ASSUME NEW j \in Jobs, MarkEnqueueFailed(j) PROVE Typed'
  <2>1. EnqueueFailed(row[j]) \in JobRow
    BY RowsEnded DEF Typed
  <2> QED
    BY <1>3, <2>1 DEF Typed, MarkEnqueueFailed, CreateTo, WriteRow, queue
<1>4. ASSUME NEW c \in CancelRequests, CancelRead(c) PROVE Typed'
  <2>1. cancel' \in [CancelRequests -> CancelRecord]
    BY <1>4, HandlerMoves DEF CancelRead, CancelPC, CancelInFlight
  <2> QED
    BY <1>4, <2>1 DEF Typed, CancelRead, db, queue
<1>5. ASSUME NEW c \in CancelRequests, CancelGetJob(c) PROVE Typed'
  <2>1. cancel' \in [CancelRequests -> CancelRecord]
    BY <1>5, HandlerMoves DEF CancelGetJob, CancelPC, CancelInFlight
  <2> QED
    BY <1>5, <2>1 DEF Typed, CancelGetJob, db, queue
<1>6. ASSUME NEW c \in CancelRequests, CancelRemove(c) PROVE Typed'
  <2>1. cancel' \in [CancelRequests -> CancelRecord]
    BY <1>6, HandlerMoves DEF CancelRemove, CancelPC, CancelInFlight
  <2>2. entry' \in [Jobs -> BoundedEntry]
    BY <1>6, AbsentBounded DEF Typed, CancelRemove, WriteEntry
  <2> QED
    BY <1>6, <2>1, <2>2 DEF Typed, CancelRemove, db
<1>7. ASSUME NEW c \in CancelRequests, CancelMark(c) PROVE Typed'
  <2>1. cancel' \in [CancelRequests -> CancelRecord]
    BY <1>7, HandlerMoves DEF CancelMark, CancelPC
  <2>2. Cancelled(row[cancel[c].job]) \in JobRow
    BY HandlerMoves, RowsEnded DEF Typed
  <2>3. row' \in [Jobs -> JobRow]
    BY <1>7, <2>2 DEF Typed, CancelMark, WriteRow
  <2> QED
    BY <1>7, <2>1, <2>3 DEF Typed, CancelMark, queue
<1>8. CASE Pause \/ Resume
  BY <1>8 DEF Typed, Pause, Resume, db, api
<1>9. CASE ApiCrash
  BY <1>9 DEF Typed, ApiCrash, CancelRecord, CancelPC, db, queue
<1> QED
  BY <1>1, <1>2, <1>3, <1>4, <1>5, <1>6, <1>7, <1>8, <1>9 DEF ApiStep
(* Moving a run, or freeing its slot, keeps the type of run.               *)
LEMMA RunMoves ==
    ASSUME Typed, NEW w \in Workers
    PROVE  /\ Live(w) =>
                /\ \A pc \in Busy :
                     GoTo(w, pc) => run' \in [Workers -> BoundedRun]
                /\ \A pc \in Busy, reply \in DbReply :
                     Continue(w, reply, pc) => run' \in [Workers -> BoundedRun]
                /\ run[w].job \in Jobs
                /\ run[w].delivery \in Delivery
                /\ CurrentAttempt(w) \in AttemptNumber
                /\ CurrentAttempt(w) \in 0 .. MaxAttempts
                /\ run[w].attemptsMade \in 0 .. MaxAttempts
           /\ Release(w) => run' \in [Workers -> BoundedRun]
<1>1. run \in [Workers -> BoundedRun] /\ run[w] \in BoundedRun
  BY DEF Typed
<1>2. ASSUME Live(w)
      PROVE  /\ run[w].job \in Jobs
             /\ run[w].delivery \in Delivery
             /\ CurrentAttempt(w) \in AttemptNumber
             /\ CurrentAttempt(w) \in 0 .. MaxAttempts
             /\ run[w].attemptsMade \in 0 .. MaxAttempts
  <2>1. "reject" \in Busy
    BY DEF Busy
  <2> QED
    BY <1>1, <1>2, <2>1, RunUpdates DEF Live, CurrentAttempt
<1>3. ASSUME Live(w), NEW pc \in Busy, GoTo(w, pc)
      PROVE  run' \in [Workers -> BoundedRun]
  <2>1. [run[w] EXCEPT !.pc = pc] \in BoundedRun
    BY <1>1, <1>3, RunUpdates DEF Live
  <2> QED
    BY <1>1, <1>3, <2>1 DEF GoTo
<1>4. ASSUME Live(w), NEW pc \in Busy, NEW reply \in DbReply,
             Continue(w, reply, pc)
      PROVE  run' \in [Workers -> BoundedRun]
  <2>1. "reject" \in Busy
    BY DEF Busy
  <2> QED
    BY <1>3, <1>4, <2>1 DEF Continue
<1>5. Release(w) => run' \in [Workers -> BoundedRun]
  BY <1>1, NoRunBounded DEF Release
<1> QED
  BY <1>2, <1>3, <1>4, <1>5

(* The steps of process() keep the types.                                  *)
LEMMA ProcessTyped ==
    ASSUME Typed, NEW w \in Workers, ProcessStep(w)
    PROVE  Typed'
<1> USE RunMoves DEF Live, Busy
<1>1. CASE FindAttempt(w)
  <2>1. run' \in [Workers -> BoundedRun]
    BY <1>1 DEF FindAttempt
  <2> QED
    BY <1>1, <2>1 DEF Typed, FindAttempt, db, queue, api
<1>2. CASE UpsertAttempt(w)
  <2>1. run' \in [Workers -> BoundedRun]
    BY <1>2 DEF UpsertAttempt
  <2>2. attempts' \in [Jobs -> [AttemptNumber -> AttemptStatus]]
    BY <1>2 DEF Typed, UpsertAttempt, WriteAttempt, AttemptSet, AttemptStatus
  <2> QED
    BY <1>2, <2>1, <2>2 DEF Typed, UpsertAttempt, queue, api
<1>3. CASE ReadRow(w)
  <2>1. run' \in [Workers -> BoundedRun]
    <3>1. \A b \in BOOLEAN :
            [run[w] EXCEPT !.pc = "writeProcessing", !.hasStarted = b]
              \in BoundedRun
      BY <1>3, RunUpdates DEF ReadRow, Typed
    <3>2. CASE run' = [run EXCEPT ![w].pc = "writeProcessing",
                         ![w].hasStarted = row[run[w].job].startedAt # 0]
      BY <3>1, <3>2 DEF Typed
    <3>3. CASE GoTo(w, "reject")
      BY <1>3, <3>3 DEF ReadRow
    <3> QED
      BY <1>3, <3>2, <3>3 DEF ReadRow
  <2> QED
    BY <1>3, <2>1 DEF Typed, ReadRow, db, queue, api
<1>4. CASE WriteProcessing(w)
  <2>1. run' \in [Workers -> BoundedRun]
    BY <1>4 DEF WriteProcessing
  <2>2. Processing(row[run[w].job], run[w].hasStarted, run[w].delivery)
          \in JobRow
    <3>1. run[w].hasStarted \in BOOLEAN
      BY DEF Typed, BoundedRun, Run
    <3>2. row[run[w].job] \in JobRow /\ run[w].delivery \in Delivery
      BY <1>4 DEF WriteProcessing, Typed
    <3>3. 0 \in 0 .. MaxAttempts
      BY MaxAttemptsAssumption
    <3> QED
      BY <3>1, <3>2, <3>3, RowUpdates
  <2> QED
    BY <1>4, <2>1, <2>2 DEF Typed, WriteProcessing, WriteRow, queue, api
<1>5. CASE Work(w)
  <2>1. run' \in [Workers -> BoundedRun]
    BY <1>5 DEF Work
  <2> QED
    BY <1>5, <2>1 DEF Typed, Work, db, queue, api
<1>6. CASE MarkAttemptCompleted(w)
  <2>1. run' \in [Workers -> BoundedRun]
    BY <1>6 DEF MarkAttemptCompleted
  <2>2. attempts' \in [Jobs -> [AttemptNumber -> AttemptStatus]]
    BY <1>6 DEF Typed, MarkAttemptCompleted, WriteAttempt, AttemptSet,
                AttemptStatus
  <2> QED
    BY <1>6, <2>1, <2>2 DEF Typed, MarkAttemptCompleted, queue, api
<1>7. CASE MarkCompleted(w)
  <2>1. run' \in [Workers -> BoundedRun]
    BY <1>7 DEF MarkCompleted
  <2>2. Completed(row[run[w].job], run[w].attemptsMade) \in JobRow
    BY <1>7, RowUpdates DEF MarkCompleted, Typed
  <2> QED
    BY <1>7, <2>1, <2>2 DEF Typed, MarkCompleted, WriteRow, queue, api
<1>8. CASE MarkAttemptFailed(w)
  <2>1. run' \in [Workers -> BoundedRun]
    BY <1>8 DEF MarkAttemptFailed
  <2>2. attempts' \in [Jobs -> [AttemptNumber -> AttemptStatus]]
    BY <1>8 DEF Typed, MarkAttemptFailed, WriteAttempt, AttemptSet,
                AttemptStatus
  <2> QED
    BY <1>8, <2>1, <2>2 DEF Typed, MarkAttemptFailed, queue, api
<1>9. CASE MarkRowFailed(w)
  <2>1. run' \in [Workers -> BoundedRun]
    BY <1>9 DEF MarkRowFailed
  <2>2. /\ Failed(row[run[w].job], CurrentAttempt(w)) \in JobRow
        /\ RetryQueued(row[run[w].job], CurrentAttempt(w)) \in JobRow
    BY <1>9, RowUpdates DEF MarkRowFailed, Typed
  <2> QED
    BY <1>9, <2>1, <2>2 DEF Typed, MarkRowFailed, WriteRow, queue, api
<1>10. CASE Resolve(w) \/ Reject(w)
  <2>1. run' \in [Workers -> BoundedRun]
    BY <1>10 DEF Resolve, Reject
  <2>2. entry' \in [Jobs -> BoundedEntry]
    <3>1. run[w].job \in Jobs /\ entry[run[w].job] \in BoundedEntry
      BY <1>10 DEF Resolve, Reject, Typed
    <3>2. CASE Resolve(w)
      BY <3>1, <3>2, EntryUpdates DEF Typed, Resolve
    <3>3. CASE Reject(w)
      BY <3>1, <3>3, EntryUpdates DEF Typed, Reject
    <3> QED
      BY <1>10, <3>2, <3>3
  <2> QED
    BY <1>10, <2>1, <2>2 DEF Typed, Resolve, Reject, db, api
<1> QED
  BY <1>1, <1>2, <1>3, <1>4, <1>5, <1>6, <1>7, <1>8, <1>9, <1>10
  DEF ProcessStep

(* Fetching, crashing, closing and restarting keep the types.              *)
LEMMA SlotTyped ==
    ASSUME Typed, NEW w \in Workers,
           Crash(w) \/ Close(w) \/ Restart(w) \/ \E j \in Jobs : Acquire(w, j)
    PROVE  Typed'
<1>1. CASE Crash(w)
  <2>1. entry' \in [Jobs -> BoundedEntry]
    BY <1>1, EntryUpdates DEF Typed, Crash
  <2>2. run' \in [Workers -> BoundedRun]
    BY <1>1, NoRunBounded DEF Typed, Crash
  <2> QED
    BY <1>1, <2>1, <2>2 DEF Typed, Crash, db, api
<1>2. CASE Close(w) \/ Restart(w)
  <2>1. [run[w] EXCEPT !.pc = "down"] \in BoundedRun
    BY DEF Typed, BoundedRun, RunBounded, Run, Busy
  <2>2. run' \in [Workers -> BoundedRun]
    BY <1>2, <2>1, RunMoves DEF Close, Restart, GoTo, Typed
  <2> QED
    BY <1>2, <2>2 DEF Typed, Close, Restart, db, queue, api
<1>3. ASSUME NEW j \in Jobs, Acquire(w, j) PROVE Typed'
  <2> DEFINE r == [pc           |-> "findAttempt",
                   job          |-> j,
                   attemptsMade |-> entry[j].attemptsMade,
                   delivery     |-> entry[j].attemptsMade + entry[j].stalls + 1,
                   hasStarted   |-> FALSE]
  <2>1. /\ entry[j].attemptsMade \in 0 .. MaxAttempts
        /\ entry[j].attemptsMade < MaxAttempts
        /\ entry[j].stalls \in 0 .. MaxStalledCount
    BY <1>3, MaxStalledAssumption
    DEF Typed, Acquire, Waiting, BoundedEntry, EntryBounded, Entry
  <2>2. r.delivery \in Delivery
    BY <2>1, MaxAttemptsAssumption, MaxStalledAssumption DEF Delivery
  <2>3. r \in BoundedRun
    BY <2>1, <2>2 DEF BoundedRun, RunBounded, Run, Busy
  <2>4. entry' \in [Jobs -> BoundedEntry]
    BY <1>3, EntryUpdates DEF Typed, Acquire
  <2> QED
    BY <1>3, <2>3, <2>4 DEF Typed, Acquire, db, api
<1> QED
  BY <1>1, <1>2, <1>3

(* BullMQ's timers keep the types.                                         *)
LEMMA TimersTyped ==
    ASSUME Typed, NEW j \in Jobs,
           Promote(j) \/ LockExpires(j) \/ StalledCheck(j)
    PROVE  Typed'
<1>1. entry' \in [Jobs -> BoundedEntry]
  BY EntryTimers DEF Typed, Promote, LockExpires, StalledCheck
<1> QED
  BY <1>1 DEF Typed, Promote, LockExpires, StalledCheck, db, api

LEMMA TypedInductive == Typed /\ [Next]_vars => Typed'
<1> SUFFICES ASSUME Typed, [Next]_vars PROVE Typed'
  OBVIOUS
<1>1. CASE ApiStep
  BY <1>1, ApiTyped
<1>2. CASE WorkerStep
  BY <1>2, ProcessTyped, SlotTyped, TimersTyped DEF WorkerStep
<1>3. CASE UNCHANGED vars
  BY <1>3 DEF Typed, vars
<1> QED
  BY <1>1, <1>2, <1>3 DEF Next

LEMMA AlwaysTyped == Spec => []Typed
  BY InitTyped, TypedInductive, PTL DEF Spec

(* Every variable keeps its type, whatever faults are admitted: the retry  *)
(* and stall counters stay within the limits of the queue's options.       *)
THEOREM TypeCorrect == Spec => []TypeOK
  BY AlwaysTyped, TypedImpliesTypeOK, PTL
-----------------------------------------------------------------------------
(* Exclusion                                                               *)

(* A step leaves alone the entry of every run that is in progress after it *)
Undisturbed ==
    \A w \in Workers :
        Live(w)' => /\ Live(w)
                    /\ run'[w].job = run[w].job
                    /\ entry'[run[w].job] = entry[run[w].job]

LEMMA OwnsIfUndisturbed ==
    RunOwnsEntry /\ Undisturbed => RunOwnsEntry'
  BY DEF RunOwnsEntry, Undisturbed

(* The API cannot touch an entry that a run owns: queue.add ignores an     *)
(* existing entry and remove() refuses a locked one.                       *)
LEMMA ApiUndisturbed ==
    ASSUME Typed, RunOwnsEntry, ApiStep
    PROVE  Undisturbed
<1>1. run' = run
  BY DEF ApiStep, CreateRow, Enqueue, MarkEnqueueFailed, CancelRead,
         CancelGetJob, CancelRemove, CancelMark, Pause, Resume, ApiCrash
<1>2. SUFFICES ASSUME NEW w \in Workers, Live(w)
               PROVE  entry'[run[w].job] = entry[run[w].job]
  BY <1>1 DEF Undisturbed, Live
<1>3. /\ entry[run[w].job].state = "active"
      /\ entry[run[w].job].lock = w
      /\ w # NoLock
      /\ run[w].job \in Jobs
  BY <1>2, WorkersAssumption
  DEF RunOwnsEntry, Typed, BoundedRun, RunBounded, Live
<1>4. ASSUME NEW j \in Jobs, Enqueue(j)
      PROVE  entry'[run[w].job] = entry[run[w].job]
  BY <1>3, <1>4 DEF Enqueue, WriteEntry, Added, InQueue, Typed
<1>5. ASSUME NEW c \in CancelRequests, CancelRemove(c)
      PROVE  entry'[run[w].job] = entry[run[w].job]
  <2> DEFINE j == cancel[c].job
  <2>1. CASE ~Removable(entry[j])
    BY <1>5, <2>1 DEF CancelRemove
  <2>2. CASE Removable(entry[j])
    <3>1. run[w].job # j
      BY <1>3, <2>2 DEF Removable
    <3>2. \E reply \in RedisReply : WriteEntry(j, reply, Absent)
      BY <1>5, <2>2 DEF CancelRemove
    <3> QED
      BY <1>3, <3>1, <3>2 DEF WriteEntry, Typed
  <2> QED
    BY <2>1, <2>2
<1>6. CASE entry' = entry
  BY <1>6
<1> QED
  BY <1>4, <1>5, <1>6
  DEF ApiStep, CreateRow, MarkEnqueueFailed, CancelRead, CancelGetJob,
      CancelMark, Pause, Resume, ApiCrash, queue

(* An await inside process() touches no entry.                             *)
LEMMA AwaitUndisturbed ==
    ASSUME Typed, NEW w \in Workers, ProcessStep(w), ~Resolve(w), ~Reject(w)
    PROVE  Undisturbed
<1>1. Live(w) /\ entry' = entry
  BY DEF ProcessStep, FindAttempt, UpsertAttempt, ReadRow, WriteProcessing,
         Work, MarkAttemptCompleted, MarkCompleted, MarkAttemptFailed,
         MarkRowFailed, Live, Busy, queue
<1>2. \A u \in Workers : /\ u # w => run'[u] = run[u]
                         /\ run'[u].job = run[u].job
  <2>1. run \in [Workers -> Run]
    BY DEF Typed, BoundedRun
  <2>2. ASSUME NEW pc, GoTo(w, pc)
        PROVE  \A u \in Workers : /\ u # w => run'[u] = run[u]
                                  /\ run'[u].job = run[u].job
    BY <2>1, <2>2 DEF GoTo, Run
  <2>3. CASE ReadRow(w)
    BY <2>1, <2>2, <2>3 DEF ReadRow, Run
  <2>4. CASE ~ReadRow(w)
    <3>1. \E pc \in Busy : GoTo(w, pc)
      BY <2>4 DEF ProcessStep, FindAttempt, UpsertAttempt, WriteProcessing,
                  Work, MarkAttemptCompleted, MarkCompleted,
                  MarkAttemptFailed, MarkRowFailed, Continue, Busy
    <3> QED
      BY <2>2, <3>1
  <2> QED
    BY <2>3, <2>4
<1> QED
  BY <1>1, <1>2 DEF Undisturbed, Live

(* A run that ends, dies or restarts leaves the entries of the others.     *)
LEMMA EndUndisturbed ==
    ASSUME Typed, RunOwnsEntry, NEW w \in Workers,
           Resolve(w) \/ Reject(w) \/ Crash(w) \/ Close(w) \/ Restart(w)
    PROVE  Undisturbed
<1>1. /\ \A u \in Workers : u # w => run'[u] = run[u]
      /\ run'[w].pc \notin Busy
  BY DEF Resolve, Reject, Crash, Close, Restart, GoTo, Release, NoRun, Busy,
         Run, BoundedRun, Typed
<1>2. SUFFICES ASSUME NEW u \in Workers, u # w, Live(u)
               PROVE  entry'[run[u].job] = entry[run[u].job]
  BY <1>1 DEF Undisturbed, Live
<1>3. entry[run[u].job].lock = u /\ run[u].job \in Jobs
  BY <1>2 DEF RunOwnsEntry, Typed, BoundedRun, RunBounded, Live
<1>4. CASE Resolve(w) \/ Reject(w)
  <2>1. entry[run[w].job].lock = w
    BY <1>4 DEF RunOwnsEntry, Live, Busy, Resolve, Reject
  <2>2. run[u].job # run[w].job
    BY <1>2, <1>3, <2>1
  <2> QED
    BY <1>3, <1>4, <2>2 DEF Resolve, Reject, Typed
<1>5. CASE Crash(w)
  BY <1>2, <1>3, <1>5 DEF Crash
<1>6. CASE Close(w) \/ Restart(w)
  BY <1>6 DEF Close, Restart, GoTo, queue
<1> QED
  BY <1>4, <1>5, <1>6

(* BullMQ's timers touch only entries that nobody owns, unless a live      *)
(* worker can lose its lock.                                               *)
LEMMA TimersUndisturbed ==
    ASSUME "lockLoss" \notin Faults, Typed, RunOwnsEntry, NEW j \in Jobs,
           Promote(j) \/ LockExpires(j) \/ StalledCheck(j)
    PROVE  Undisturbed
<1>1. run' = run
  BY DEF Promote, LockExpires, StalledCheck
<1>2. SUFFICES ASSUME NEW w \in Workers, Live(w)
               PROVE  entry'[run[w].job] = entry[run[w].job]
  BY <1>1 DEF Undisturbed, Live
<1>3. /\ entry[run[w].job].state = "active"
      /\ entry[run[w].job].lock = w
      /\ w # NoLock /\ w # Orphan
      /\ run[w].job \in Jobs
  BY <1>2, WorkersAssumption
  DEF RunOwnsEntry, Typed, BoundedRun, RunBounded, Live
<1>4. run[w].job # j
  BY <1>3 DEF Promote, LockExpires, StalledCheck
<1> QED
  BY <1>3, <1>4 DEF Promote, LockExpires, StalledCheck, Typed

LEMMA OwnsInductive ==
    ASSUME "lockLoss" \notin Faults
    PROVE  Typed /\ RunOwnsEntry /\ [Next]_vars => RunOwnsEntry'
<1> SUFFICES ASSUME Typed, RunOwnsEntry, [Next]_vars PROVE RunOwnsEntry'
  OBVIOUS
<1>1. CASE ApiStep
  BY <1>1, ApiUndisturbed, OwnsIfUndisturbed
<1>2. ASSUME NEW w \in Workers, ProcessStep(w) PROVE RunOwnsEntry'
  BY <1>2, AwaitUndisturbed, EndUndisturbed, OwnsIfUndisturbed
<1>3. ASSUME NEW w \in Workers, Crash(w) \/ Close(w) \/ Restart(w)
      PROVE  RunOwnsEntry'
  BY <1>3, EndUndisturbed, OwnsIfUndisturbed
<1>4. ASSUME NEW w \in Workers, NEW j \in Jobs, Acquire(w, j)
      PROVE  RunOwnsEntry'
  <2>1. SUFFICES ASSUME NEW u \in Workers, Live(u)'
                 PROVE  /\ entry'[run'[u].job].state = "active"
                        /\ entry'[run'[u].job].lock = u
    BY DEF RunOwnsEntry
  <2>2. /\ entry'[j].state = "active" /\ entry'[j].lock = w
        /\ \A i \in Jobs : i # j => entry'[i] = entry[i]
    BY <1>4 DEF Acquire, Taken, Typed, BoundedEntry, Entry
  <2>3. CASE u = w
    BY <1>4, <2>2, <2>3 DEF Acquire, Typed
  <2>4. CASE u # w
    <3>1. run'[u] = run[u] /\ Live(u)
      BY <1>4, <2>1, <2>4 DEF Acquire, Typed, Live
    <3>2. /\ entry[run[u].job].state = "active"
          /\ entry[run[u].job].lock = u
          /\ run[u].job \in Jobs
      BY <3>1 DEF RunOwnsEntry, Typed, BoundedRun, RunBounded, Live
    <3>3. run[u].job # j
      BY <1>4, <3>2 DEF Acquire, Waiting
    <3> QED
      BY <2>2, <3>1, <3>2, <3>3
  <2> QED
    BY <2>3, <2>4
<1>5. ASSUME NEW j \in Jobs, Promote(j) \/ LockExpires(j) \/ StalledCheck(j)
      PROVE  RunOwnsEntry'
  BY <1>5, TimersUndisturbed, OwnsIfUndisturbed
<1>6. CASE UNCHANGED vars
  BY <1>6 DEF RunOwnsEntry, Live, vars
<1> QED
  BY <1>1, <1>2, <1>3, <1>4, <1>5, <1>6 DEF Next, WorkerStep

(* Unless a live worker can lose its lock, whatever crashes and whatever   *)
(* call fails, every process() call in progress owns its queue entry: no   *)
(* job is executed twice at a time.                                        *)
THEOREM Exclusion ==
    ASSUME "lockLoss" \notin Faults
    PROVE  Spec => []RunOwnsEntry
<1>1. Init => RunOwnsEntry
  BY DEF Init, RunOwnsEntry, Live, NoRun, Busy
<1> QED
  BY <1>1, OwnsInductive, AlwaysTyped, PTL DEF Spec

=============================================================================
