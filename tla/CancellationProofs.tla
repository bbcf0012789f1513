------------------------- MODULE CancellationProofs -------------------------
(***************************************************************************)
(* What a cancellation is worth, for every set of jobs, slots and          *)
(* requests: a CANCELLED job has left the queue for good, nothing          *)
(* overwrites the row, and nothing else takes an accepted job out of the   *)
(* queue.  All of it needs the exclusion theorem, because the updates of   *)
(* the rows have no condition on the status.                               *)
(***************************************************************************)
EXTENDS JobStepProofs

-----------------------------------------------------------------------------
(* Cancellation and execution exclude each other                           *)

(* Out of the queue and never to be added again.                           *)
Gone(j) == ~InQueue(entry[j]) /\ create[j] = "accepted"

(* The queue knows only jobs whose createJob handler has answered; so a    *)
(* cancelJob that found an entry finds it accepted, and one that removed   *)
(* it, or a row that says so, finds it gone.                               *)
CancelInv ==
    /\ \A j \in Jobs : InQueue(entry[j]) => create[j] = "accepted"
    /\ \A c \in CancelRequests :
         cancel[c].pc = "remove" => create[cancel[c].job] = "accepted"
    /\ \A c \in CancelRequests : cancel[c].pc = "mark" => Gone(cancel[c].job)
    /\ \A j \in Jobs : row[j].status = "CANCELLED" => Gone(j)

LEMMA GoneStays ==
    ASSUME Typed, [Next]_vars, NEW j \in Jobs, Gone(j)
    PROVE  Gone(j)'
  BY EntryAppears, AcceptedStays DEF Gone, Enqueue

(* A job that is gone is not being executed, and its createJob handler has *)
(* ended: only another cancelJob can still write its row.                  *)
LEMMA GoneIsCancelled ==
    ASSUME Typed, RunOwnsEntry, [Next]_vars, NEW j \in Jobs, Gone(j),
           row'[j] # row[j]
    PROVE  row'[j].status = "CANCELLED"
<1>1. RowChange(j)
  BY RowChanges
<1>2. \A w \in Workers : run[w].job = j => ~Live(w)
  BY DEF Gone, InQueue, RunOwnsEntry
<1>3. Cancelled(row[j]).status = "CANCELLED"
  BY RowColumns DEF Typed
<1> QED
  BY <1>1, <1>2, <1>3 DEF RowChange, Gone

(* Nothing but a cancelJob past the removal writes CANCELLED.              *)
LEMMA CancelledByMark ==
    ASSUME Typed, [Next]_vars, NEW j \in Jobs,
           row'[j] # row[j], row'[j].status = "CANCELLED"
    PROVE  \E c \in CancelRequests : cancel[c].pc = "mark" /\ cancel[c].job = j
<1>1. RowChange(j) /\ row[j] \in JobRow
  BY RowChanges DEF Typed
<1>2. NewRow.status = "QUEUED"
  BY DEF NewRow, NoRow
<1>3. EnqueueFailed(row[j]).status = "FAILED"
  BY <1>1, RowColumns
<1>4. ASSUME NEW w \in Workers, run[w].job = j, RunWrite(w)
      PROVE  row'[j].status # "CANCELLED"
  <2>1. /\ \A b, d : Processing(row[j], b, d).status = "PROCESSING"
        /\ \A k : /\ RetryQueued(row[j], k).status = "QUEUED"
                  /\ Completed(row[j], k).status = "COMPLETED"
                  /\ Failed(row[j], k).status = "FAILED"
    BY <1>1, RowColumns
  <2> QED
    BY <1>4, <2>1 DEF RunWrite
<1> QED
  BY <1>1, <1>2, <1>3, <1>4 DEF RowChange

LEMMA CancelInvInductive ==
    ASSUME "redisLost" \notin Faults
    PROVE  Typed /\ RunOwnsEntry /\ CancelInv /\ [Next]_vars => CancelInv'
<1> SUFFICES ASSUME Typed, RunOwnsEntry, CancelInv, [Next]_vars
             PROVE  CancelInv'
  OBVIOUS
<1>1. \A c \in CancelRequests : cancel[c].job \in Jobs
  BY DEF Typed, CancelRecord
<1>2. ASSUME NEW j \in Jobs, InQueue(entry'[j]) PROVE create'[j] = "accepted"
  <2>1. CASE InQueue(entry[j])
    BY <2>1, AcceptedStays DEF CancelInv
  <2>2. CASE ~InQueue(entry[j])
    <3>1. Enqueue(j)
      BY <1>2, <2>2, EntryAppears
    <3> QED
      BY <1>2, <2>2, <3>1 DEF Enqueue, CreateTo, WriteEntry, RedisReply, Typed
  <2> QED
    BY <2>1, <2>2
<1>3. ASSUME NEW c \in CancelRequests, cancel'[c].pc = "remove"
      PROVE  create'[cancel'[c].job] = "accepted"
  BY <1>1, <1>3, CancelMoves, AcceptedStays DEF CancelInv, CancelMove
<1>4. ASSUME NEW c \in CancelRequests, cancel'[c].pc = "mark"
      PROVE  /\ ~InQueue(entry'[cancel[c].job])
             /\ create'[cancel[c].job] = "accepted"
  <2>1. CASE cancel[c].pc = "mark"
    BY <1>1, <2>1, GoneStays DEF CancelInv, Gone
  <2>2. CASE cancel[c].pc # "mark"
    BY <1>1, <1>4, <2>2, CancelMoves, AcceptedStays DEF CancelInv, CancelMove
  <2> QED
    BY <2>1, <2>2
<1>5. ASSUME NEW j \in Jobs, row'[j].status = "CANCELLED" PROVE Gone(j)'
  <2>1. Gone(j)
    BY <1>5, CancelledByMark DEF CancelInv
  <2> QED
    BY <2>1, GoneStays
<1> QED
  BY <1>1, <1>2, <1>3, <1>4, <1>5, CancelMoves DEF CancelInv, Gone, CancelMove

LEMMA AlwaysCancelInv ==
    ASSUME "lockLoss" \notin Faults, "redisLost" \notin Faults
    PROVE  Spec => []CancelInv
<1>1. Init => CancelInv
  BY DEF Init, CancelInv, InQueue, Absent, NoRow
<1> QED
  BY <1>1, CancelInvInductive, AlwaysTyped, Exclusion, PTL DEF Spec

(* A job whose row says CANCELLED is not being executed and is not in the  *)
(* queue, unless a live worker can lose its lock or a queue call can be    *)
(* applied and yet be reported as failed.                                  *)
THEOREM Cancellation ==
    ASSUME "lockLoss" \notin Faults, "redisLost" \notin Faults
    PROVE  Spec => []CancelledNeverRuns
<1>1. CancelInv /\ RunOwnsEntry => CancelledNeverRuns
  BY DEF CancelInv, RunOwnsEntry, CancelledNeverRuns, RunningOn, Gone, InQueue
<1> QED
  BY <1>1, AlwaysCancelInv, Exclusion, PTL

LEMMA CancelledStays ==
    ASSUME Typed, RunOwnsEntry, CancelInv, [Next]_vars,
           NEW j \in Jobs, row[j].status = "CANCELLED"
    PROVE  row'[j].status = "CANCELLED"
  BY GoneIsCancelled DEF CancelInv

(* Under the same assumptions nothing overwrites CANCELLED.                *)
THEOREM CancellationIsFinal ==
    ASSUME "lockLoss" \notin Faults, "redisLost" \notin Faults
    PROVE  Spec => CancelledIsFinal
<1>1. Typed /\ RunOwnsEntry /\ CancelInv /\ [Next]_vars
        => [\A j \in Jobs : row[j].status = "CANCELLED"
                              => row'[j].status = "CANCELLED"]_vars
  BY CancelledStays
<1> QED
  BY <1>1, AlwaysCancelInv, AlwaysTyped, Exclusion, PTL
  DEF Spec, CancelledIsFinal

-----------------------------------------------------------------------------
(* Only a cancellation takes an accepted job out of the queue              *)

(* An entry leaves the queue only when a cancelJob removes it, and that    *)
(* cancelJob knows, unless an applied removal can be seen to fail.         *)
LEMMA EntryLeaves ==
    ASSUME "redisLost" \notin Faults, Typed, [Next]_vars, NEW j \in Jobs,
           InQueue(entry[j]), ~InQueue(entry'[j])
    PROVE  \E c \in CancelRequests : cancel'[c].pc = "mark"
                                     /\ cancel'[c].job = j
<1>1. EntryChange(j) /\ entry'[j] # entry[j] /\ entry[j] \in Entry
  BY EntryChanges DEF Typed, BoundedEntry
<1>2. /\ \A w : InQueue(Taken(entry[j], w))
      /\ InQueue(FinishedOk(entry[j])) /\ InQueue(FinishedWithError(entry[j]))
      /\ InQueue(Promoted(entry[j])) /\ InQueue(Stalled(entry[j]))
      /\ InQueue(Unlocked(entry[j]))
      /\ InQueue([entry[j] EXCEPT !.lock = Orphan])
  BY <1>1 DEF InQueue, Taken, FinishedOk, FinishedWithError, Promoted, Stalled,
              Unlocked, Entry
<1>3. PICK c \in CancelRequests : CancelRemove(c) /\ cancel[c].job = j
  BY <1>1, <1>2 DEF EntryChange
<1>4. CancelTo(c, "mark")
  BY <1>1, <1>3 DEF CancelRemove, WriteEntry, RedisReply
<1> QED
  BY <1>3, <1>4 DEF CancelTo, Typed, CancelRecord

(* An accepted job is where it should be, or a cancelJob accounts for it.  *)
LEMMA KeptInductive ==
    ASSUME "redisLost" \notin Faults
    PROVE  Typed /\ RunOwnsEntry /\ CancelInv /\ AcceptedJobIsKept /\ [Next]_vars
             => AcceptedJobIsKept'
<1> SUFFICES ASSUME Typed, RunOwnsEntry, CancelInv, AcceptedJobIsKept,
                    [Next]_vars, NEW j \in Jobs, create'[j] = "accepted"
             PROVE  \/ InQueue(entry'[j])
                    \/ row'[j].status = "CANCELLED"
                    \/ \E c \in CancelRequests :
                         /\ cancel'[c].job = j
                         /\ cancel'[c].pc \in {"mark", "unmarked"}
  BY DEF AcceptedJobIsKept
<1>1. CASE create[j] # "accepted"
  <2>1. Enqueue(j)
    BY <1>1, CreateMoves DEF CreateMove
  <2>2. \E b \in BOOLEAN : entry'[j] = Added(entry[j], b)
    BY <1>1, <2>1, EnqueueAdds DEF CreateTo, WriteEntry, Typed
  <2> QED
    BY <2>2 DEF Added, InQueue, Absent
<1>2. CASE InQueue(entry[j])
  BY <1>2, EntryLeaves
<1>3. CASE row[j].status = "CANCELLED"
  BY <1>3, CancelledStays
<1>4. ASSUME NEW c \in CancelRequests, cancel[c].job = j,
             cancel[c].pc \in {"mark", "unmarked"}
      PROVE  \/ row'[j].status = "CANCELLED"
             \/ /\ cancel'[c].job = j
                /\ cancel'[c].pc \in {"mark", "unmarked"}
  BY <1>4, CancelMoves DEF CancelMove
<1> QED
  BY <1>1, <1>2, <1>3, <1>4 DEF AcceptedJobIsKept

(* A job answered 202 stays in the queue until a cancelJob takes it out,   *)
(* and then the row says so, unless that cancelJob died or lost the        *)
(* database between the removal and the end of markCancelled.              *)
THEOREM AcceptedIsKept ==
    ASSUME "lockLoss" \notin Faults, "redisLost" \notin Faults
    PROVE  Spec => []AcceptedJobIsKept
<1>1. Init => AcceptedJobIsKept
  BY DEF Init, AcceptedJobIsKept
<1> QED
  BY <1>1, KeptInductive, AlwaysCancelInv, AlwaysTyped, Exclusion, PTL DEF Spec

=============================================================================
