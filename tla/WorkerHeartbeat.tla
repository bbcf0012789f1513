-------------------------- MODULE WorkerHeartbeat ---------------------------
(***************************************************************************)
(* WorkerHeartbeatService in each worker process, the one Redis key that   *)
(* all of them share, and HealthService's reading of it.  Time advances in *)
(* ticks; a tick is as long as the reader likes.                           *)
(***************************************************************************)
EXTENDS Naturals

CONSTANTS
    Workers,        \* the worker processes
    Interval,       \* WORKER_HEARTBEAT_INTERVAL_MS
    TTL,            \* WORKER_HEARTBEAT_TTL_MS
    Lag,            \* how late a busy event loop may run a timer
    Skew            \* how far the API's clock is ahead of the workers'

ASSUME IntervalAssumption == Interval \in Nat \ {0}
ASSUME TTLAssumption == TTL \in Nat /\ TTL > Interval
ASSUME LagAssumption == Lag \in Nat
ASSUME SkewAssumption == Skew \in Nat

VARIABLES
    worker,         \* worker[w]: "down", "up", or "draining" in shutdown
    sinceBeat,      \* ticks since w last ran refreshHeartbeat, while up
    keyAge,         \* ticks since the key was SET, TTL when there is no key
    dark,           \* ticks for which a worker was up and reported missing
    silent          \* ticks since a worker was up, counted up to TTL

beatVars == <<worker, sinceBeat, keyAge, dark, silent>>

Up(state) == {w \in Workers : state[w] = "up"}
Deadline == Interval + Lag

(* HealthService.checkWorkerRunning: the key exists, which PX ends at the  *)
(* ttl, and the API takes it to be younger than that.  The timestamp in it *)
(* is a worker's.  A clock of the API that is behind changes nothing: the  *)
(* key expires by the clock of Redis.                                      *)
Fresh(age) == age < TTL /\ age + Skew < TTL
WorkerRunning == Fresh(keyAge)

(* The history variables look at the state that a step leads to.           *)
Observe(ticks) ==
    /\ dark' = IF Up(worker') = {} \/ Fresh(keyAge') THEN 0 ELSE dark + ticks
    /\ silent' = IF Up(worker) # {} \/ Up(worker') # {} THEN 0
                 ELSE IF silent < TTL THEN silent + ticks ELSE TTL

BeatInit ==
    /\ worker = [w \in Workers |-> "down"]
    /\ sinceBeat = [w \in Workers |-> 0]
    /\ keyAge = TTL
    /\ dark = 0
    /\ silent = 0

-----------------------------------------------------------------------------
(* onModuleInit: beat at once, then every Interval.                        *)
Start(w) ==
    /\ worker[w] = "down"
    /\ worker' = [worker EXCEPT ![w] = "up"]
    /\ sinceBeat' = [sinceBeat EXCEPT ![w] = 0]
    /\ keyAge' = 0
    /\ Observe(0)

(* Variants: a worker that is shutting down still beats; the test of       *)
(* stopped is the wrong way round.                                         *)
BeatInShutdown(w) ==
    /\ worker[w] \in {"up", "draining"}
    /\ sinceBeat[w] >= Interval \/ worker[w] = "draining"
    /\ sinceBeat' = [sinceBeat EXCEPT ![w] = 0]
    /\ keyAge' = 0
    /\ UNCHANGED worker
    /\ Observe(0)

BeatSkipped(w) ==
    /\ worker[w] = "up"
    /\ sinceBeat[w] >= Interval
    /\ sinceBeat' = [sinceBeat EXCEPT ![w] = 0]
    /\ UNCHANGED <<worker, keyAge>>
    /\ Observe(0)

(* The interval timer: refreshHeartbeat, unless stopped.                   *)
Beat(w) ==
    /\ worker[w] = "up"
    /\ sinceBeat[w] >= Interval
    /\ sinceBeat' = [sinceBeat EXCEPT ![w] = 0]
    /\ keyAge' = 0
    /\ UNCHANGED worker
    /\ Observe(0)

(* onModuleDestroy: stopped, no timer, and the key is deleted, whoever set *)
(* it.  Nest starts the hooks of one module together, so the jobs of this  *)
(* worker are still draining in worker.close().                            *)
Stop(w) ==
    /\ worker[w] = "up"
    /\ worker' = [worker EXCEPT ![w] = "draining"]
    /\ sinceBeat' = [sinceBeat EXCEPT ![w] = 0]
    /\ keyAge' = TTL
    /\ Observe(0)

(* worker.close() has resolved, and the process exits.                     *)
Drained(w) ==
    /\ worker[w] = "draining"
    /\ worker' = [worker EXCEPT ![w] = "down"]
    /\ UNCHANGED <<sinceBeat, keyAge>>
    /\ Observe(0)

(* The process dies: the key is left to expire.                            *)
Crash(w) ==
    /\ worker[w] \in {"up", "draining"}
    /\ worker' = [worker EXCEPT ![w] = "down"]
    /\ sinceBeat' = [sinceBeat EXCEPT ![w] = 0]
    /\ UNCHANGED keyAge
    /\ Observe(0)

(* Time passes, but not beyond a timer that must fire.                     *)
Tick ==
    /\ \A w \in Up(worker) : sinceBeat[w] < Deadline
    /\ sinceBeat' = [w \in Workers |-> IF worker[w] = "up"
                                       THEN sinceBeat[w] + 1 ELSE 0]
    /\ keyAge' = IF keyAge < TTL THEN keyAge + 1 ELSE TTL
    /\ UNCHANGED worker
    /\ Observe(1)

BeatNext ==
    \/ \E w \in Workers : \/ Start(w) \/ Beat(w)
                          \/ Stop(w) \/ Drained(w) \/ Crash(w)
    \/ Tick

BeatSpec == BeatInit /\ [][BeatNext]_beatVars

-----------------------------------------------------------------------------

(* The variables have their types.                                         *)
BeatTypeOK ==
    /\ worker \in [Workers -> {"down", "up", "draining"}]
    /\ sinceBeat \in [Workers -> 0 .. Deadline]
    /\ keyAge \in 0 .. TTL
    /\ dark \in Nat
    /\ silent \in 0 .. TTL

(* If the clocks are less than a ttl apart: however many workers start,    *)
(* stop and crash, and although any of them deletes the key of all, a      *)
(* worker that is up is not reported missing for longer than one late      *)
(* heartbeat takes.                                                        *)
OutageIsShort == dark <= Deadline

(* Nobody is reported to run once no worker has been up for a ttl.         *)
SilenceIsNoticed == silent >= TTL => ~WorkerRunning

(* docs/DESIGN.md: the key works across multiple workers.  A worker that   *)
(* is up is reported, as it is while there is only one.                    *)
UpIsReported == Up(worker) # {} => WorkerRunning

=============================================================================
