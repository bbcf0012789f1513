------------------------------ MODULE JobQueue ------------------------------
(***************************************************************************)
(* One entry of the BullMQ queue "jobs", as the platform uses it.  BullMQ  *)
(* is a library outside this repository: the operators below say what its  *)
(* Lua scripts do to an entry, each script being one atomic step of Redis. *)
(*                                                                         *)
(* Every job is added with a priority, so an entry that is due goes to the *)
(* sorted set "prioritized"; only the stalled checker puts one on "wait".  *)
(* Pausing renames "wait" and leaves "prioritized" where it is.            *)
(***************************************************************************)
EXTENDS JobStore

CONSTANT Workers        \* the processing slots of the worker processes

NoLock == "none"        \* no lock key in Redis
Orphan == "orphan"      \* a lock key whose owner has crashed

ASSUME WorkersAssumption == {NoLock, Orphan} \cap Workers = {}

Holder == Workers \cup {NoLock, Orphan}

EntryState ==
    {"absent", "prioritized", "wait", "delayed", "active", "completed", "failed"}

Entry ==
    [ state        : EntryState,
      lock         : Holder,
      attemptsMade : 0 .. MaxAttempts,
      stalls       : 0 .. MaxStalledCount + 1 ]

Absent ==
    [state |-> "absent", lock |-> NoLock, attemptsMade |-> 0, stalls |-> 0]

InQueue(e) == e.state # "absent"
Waiting(e) == e.state \in {"prioritized", "wait"}
Finished(e) == e.state \in {"completed", "failed"}

(* queue.add: an entry that already has this jobId is left as it is.       *)
Added(e, delayed) ==
    IF InQueue(e) THEN e
    ELSE [Absent EXCEPT !.state = IF delayed THEN "delayed" ELSE "prioritized"]

(* The delay or the back-off of an entry has elapsed.                      *)
Promoted(e) == [e EXCEPT !.state = "prioritized"]

(* A worker fetches the entry and sets the lock with a token of its own.   *)
Taken(e, w) == [e EXCEPT !.state = "active", !.lock = w]

(* The lock key's time to live has ended.                                  *)
Unlocked(e) == [e EXCEPT !.lock = NoLock]

(* job.remove() refuses an entry that is locked, and only that.            *)
Removable(e) == e.lock = NoLock

(* moveToFinished / moveToDelayed refuse a caller that lost the lock.      *)
OwnedBy(e, w) == e.lock = w

FinishedOk(e) ==
    [e EXCEPT !.state = "completed", !.lock = NoLock, !.attemptsMade = @ + 1]

(* Variant: the failed attempt is not counted against the limit.           *)
FinishedUncounted(e) == [e EXCEPT !.state = "delayed", !.lock = NoLock]

(* The attempt failed: back off and retry while attempts remain.           *)
FinishedWithError(e) ==
    [e EXCEPT !.state = IF e.attemptsMade + 1 < MaxAttempts
                        THEN "delayed" ELSE "failed",
              !.lock = NoLock,
              !.attemptsMade = @ + 1]

(* The stalled checker found an active entry without a lock: it is handed  *)
(* back, or failed without the processor being called once it has stalled  *)
(* more than maxStalledCount times.  Recent releases of BullMQ let the     *)
(* next worker that fetches the entry do the failing, which is here at     *)
(* once: the entry ends in the same state.                                 *)
Stalled(e) ==
    [e EXCEPT !.state = IF e.stalls < MaxStalledCount
                        THEN "wait" ELSE "failed",
              !.stalls = @ + 1]

=============================================================================
