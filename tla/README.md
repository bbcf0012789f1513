# Verification of the job processing platform

TLA+ models of the platform in `src/apps/api`, the TLC runs that check them on
small instances, and theorems that TLAPS proves for every instance. Paths and
line numbers are those of the repository; `PROJECT.json` maps every definition
to the lines it models.

## 1. The system

One NestJS code base is started twice: as an HTTP API (`main.ts`) and as one or
more worker processes (`worker.ts`). They share two stores and never talk to
each other directly: PostgreSQL holds the rows `Job` and `JobAttempt`, which
every answer to a client is built from; Redis holds the BullMQ queue `jobs`,
which decides what is executed, and one heartbeat key. **There is no
transaction over the two stores, and no update of a row has a condition on its
status.** All that keeps them together is the order of the awaits in four
handlers and what BullMQ's scripts refuse to do. That is what is modelled first.

| component | state it keeps | operations |
|---|---|---|
| `JobsService` (`jobs/jobs.service.ts`) | none between awaits but locals | `createJob`: insert row, `queue.add`, on error `markEnqueueFailed`; `cancelJob`: read status, `getJob`, `remove`, `markCancelled`; listing |
| `JobRepository`, `JobAttemptRepository` | rows of `Job`, `JobAttempt` | six unconditional updates, `startAttempt` (read, check, upsert), `markProcessing` (read, update) |
| `JobProcessorService.process` | locals: `attemptNumber`, the error | `startAttempt`, `markProcessing`, work, then `markAttemptCompleted`, `markCompleted` or `markAttemptFailed`, `markFailed`/`markRetryQueued`, rethrow |
| BullMQ (external; `queue/queue.service.ts`, `queue/queue.module.ts`) | entry per job: list, lock, `attemptsMade`, stall count; pause flag | add, fetch, complete, fail with back-off, remove, lock expiry, stalled check, promote |
| `QueueManagementService` | the pause flag in Redis | `pause`, `resume` |
| `JobWorkerService` (`worker/job-worker.service.ts`) | a BullMQ `Worker` with `workerConcurrency` slots | start, log events, `close` |
| `WorkerHeartbeatService` | `interval`, `stopped`; the shared Redis key | beat, stop and delete |
| `HealthService` | none | probes database, Redis, queue; age of the heartbeat |
| `MetricsService`, listing, dead-letter view | none | reads that are not one snapshot |
| configuration | constants | Joi bounds: `MAX_JOB_ATTEMPTS >= 1`, ttl > interval |
| controllers, DTOs, Swagger, Prisma, Redis connections, Docker | none, or connections | translation, wiring, restart policy |

### What is hard about it

* Each handler is interrupted at every `await`, and decides from what it read
  before: `cancelJob` marks the row two awaits after it looked at it,
  `markProcessing` and `startAttempt` read and write in two statements.
* Delivery is at least once. A worker that dies, or loses its lock, is followed
  by a second run with the same attempt number, against rows the first one left.
* A call can be applied and still be seen to fail, and the handlers treat that
  as not applied.
* Attempts are counted by BullMQ and decided again by `isFinalAttempt`; stalls
  are counted and limited by BullMQ alone.
* Any number of workers share one heartbeat key, which each deletes on its way out.
* Every answer is put together from several statements with no transaction
  around them: a page and its total, a row and its attempts, two counts, the
  probes of a health request.
* Without a connection Redis commands of the API process wait instead of failing
  (`maxRetriesPerRequest: null`), and `getHealth` awaits three of them.

### What makes each part correct

* Queue and worker: one run at a time per job; attempts recorded in order;
  attempts and stalls bounded, so every entry is settled.
* Cancellation: a cancelled job has left the queue and is not running, and
  stays `CANCELLED`; only a queued job is cancelled.
* Creation: 202 means that the queue has the job.
* Rows: they follow the lifecycle; when the queue is done the row tells how the
  work ended; `retryCount` counts the failed attempts; the dead-letter view
  lists only jobs that used up their attempts.
* Reads: a page walk loses no job, a job is never shown with a status that its
  attempts do not bear out, the metrics count an ended job once.
* Heartbeat: a running worker is reported, a dead one is noticed within a ttl.
* Health: a verdict was true of each dependency while the request was in
  flight, and every request gets one.

`PROJECT.json` lists each hazard at its line with the properties aimed at it.

## 2. The modules

```
JobStore        pure: a Job row, its attempts, the repositories' updates
  JobQueue      pure: one BullMQ entry and what BullMQ's scripts do to it
    PlatformState   variables, control states of the handlers, faults
      JobApi        createJob, cancelJob, pause, resume, death of the API
      JobWorker     process(), fetching, timers, death of a worker
        JobPlatform     Init, Next, fairness, all properties
          MCJobPlatform       constants for TLC
          JobReads            GET /jobs/:id and GET /metrics meanwhile
            MCJobReads          constants for TLC
          JobPlatformProofs   theorems: types, exclusion
            JobStepProofs       lemmas: what a step does to one job
              CancellationProofs  theorems: cancellation, acceptance
              StoreProofs         theorems: the rows and the attempt history
                OutcomeProofs       theorems: outcomes, the lifecycle
                ReadsProofs         theorems: answers and metrics (of JobReads)
JobLifecycle    abstract: status and retryCount of a job, nothing else
JobListing      a walk through the pages of a view while its rows move
  MCJobListing        constants and symmetry for TLC
  ListingProofs       theorem: complete walks
HealthProbe     getHealth while its dependencies come and go
  MCHealthProbe       constants for TLC
WorkerHeartbeat the shared key, the workers' timers, checkWorkerRunning
  MCWorkerHeartbeat   symmetry for TLC
HealthSystem    HealthProbe and WorkerHeartbeat, sharing the key
  MCHealthSystem      constants for TLC
  HealthProofs        theorems: the endpoint, the key, both together
```

**State.** `row[j]` is the `Job` row (`NoRow` before it exists), `attempts[j][n]`
the status of its attempt rows, `entry[j]` the queue entry with that `jobId`.
Timestamps are Booleans (set or null) except `startedAt`, which records the
delivery that set it. `create[j]` and `cancel[c]` say at which await a handler
is, or what it answered; `run[w]` is the `process()` call in slot `w` with the
locals that outlive an await: the `attemptsMade` of the job object fetched, and
whether `markProcessing` read a `startedAt`. An entry waits in one of two
states, as BullMQ keeps it: every job is added with a priority, so one that is
due is `prioritized`; only one that is handed back after a stall is in `wait`.
A slot stands for one unit of
concurrency of any worker process. Job data, priority and type decide nothing
here and are left out; a waiting entry may be fetched in any order.

**Actions.** One per stretch of code between two awaits, named for what it
does: `CreateRow`, `Enqueue`, `MarkEnqueueFailed`; `CancelRead`, `CancelGetJob`,
`CancelRemove`, `CancelMark`; `Acquire`, `FindAttempt`, `UpsertAttempt`,
`ReadRow`, `WriteProcessing`, `Work`, `MarkAttemptCompleted`, `MarkCompleted`,
`MarkAttemptFailed`, `MarkRowFailed`, and BullMQ's reaction `Resolve` or
`Reject`. `Close` is `worker.close()`: a free slot stops fetching, and one with a
job closes after it. The slots of one process close one by one here, which
allows more behaviours than the code has. Handlers of two requests and runs of two slots interleave freely.

`cancel[c]` tells two ends of a failed or dead `cancelJob` apart, though no client
can: `unmarked` is one that had already removed the entry. Only that one may
have cost an accepted job its place in the queue, and `AcceptedJobIsKept` and
`AcceptedJobEnds` exempt no other.

A request's `delayMs` and `runAt` are of a kind (`Schedule`): absent, negative,
past, zero, ahead, farther ahead than the `Int` column `delayMs` counts
milliseconds, or an invalid date. `Refused` are those `resolveDelay` throws at,
`Unstorable` those it lets through and Prisma rejects at the insert; a `runAt`
more than 2^31 - 1 ms (24.8 days) ahead is one of them. The kind is chosen where
it matters, in `CreateRow` and in `Enqueue`, and not kept in between: a row that
was inserted had a valid one, and its entry is waiting or delayed.

**BullMQ is external.** `JobQueue` says what its scripts do as this code uses
them: `add` ignores a `jobId` that exists; `remove` refuses an entry that is
locked and nothing else, so a completed or an already removed one passes;
finishing refuses a caller that lost the lock; a stalled entry is handed back at
most `maxStalledCount` times and then failed without calling `process()` (in recent
releases by the worker that fetches it next; here at once, with the same end).

**Faults.** `Faults` names the failures an instance admits, and the comment of
each property says under which it holds: `crash` (a slot's process dies; its
lock is orphaned until it expires; it is restarted), `apiCrash` (all handlers in
flight are gone), `lockLoss` (a live worker fails to renew in time: its run goes
on as a zombie), `db` (a database call is rejected, applied or not), `redis` (a
queue call of the API is rejected and not applied), `redisLost` (applied, and
seen to fail).

**JobReads** adds one read request at a time to `JobPlatform`; several would not
disturb each other. `GetJob` and `FindAttempts` are the two SELECTs of a
`findUnique` with an `include`; `GetMetrics` and `Count` the statements of
`Promise.all`, in either order, kept as the sets they count. `request.kept` and
`request.met` are history. The properties speak of the answer that would be
given if the remaining statement came now, which is every answer there is.

**JobListing** has a view, `matching`, the sort column `key` and one client's
`walk`: `ListJobs` asks for page 1, `FindMany` and `Count` are the statements of
a response in either order, `Respond` answers and the client asks for the next
page while `totalPages` says that there is one. Rows with equal keys come in any
order, and in another one for each page: the code sorts by `createdAt` or
`failedAt` alone. `walk.known` and `walk.calm` are history: the jobs a walk
would have to show, and whether it has to, which it has not once a job left the
view (the rows after it move up, past the client) or entered it between the
count and the rows of one page (the last page is then announced too early).

**WorkerHeartbeat.** There is no clock: the state holds ages, which `Tick`
advances. `keyAge` and `silent` stop at `TTL`, where they tell nothing more;
`sinceBeat` cannot pass `Interval + Lag`, since `Tick` waits for the timer.
`dark` and `silent` are history, for the properties only. `Interval`, `TTL`, `Lag` and `Skew` are ticks; `Lag` is
how late a timer of a busy event loop fires. `Skew` is how far the clock of the
API's host is ahead of the workers': `checkWorkerRunning` subtracts a worker's
timestamp from its own `Date.now()`. A clock that is behind makes the key look
younger, but it still expires by the clock of Redis. The workers' clocks agree
with each other. The workers' own connections to Redis are up.

**HealthProbe.** The world is `database`, the API process's `link` to Redis
(ready, reconnecting, closed) and whether the key is `beating`; each changes at
any time. `probe[r]` holds the locals of one `getHealth`: the three calls of
`Promise.all`, in any order, `Joined` when all have settled, then
`CheckWorkerRunning` if Redis answered. While the link reconnects, `CheckRedis`,
`GetQueueCounts` and `CheckWorkerRunning` are not enabled: that is the waiting
command. `Quit` is shutdown: Redis answers what it was sent before QUIT, so it
happens with no command under way or with all of them cut off. `seen[r]` is
history, for the property only.

**HealthSystem** is the conjunction of the two: the key is what they share.
A step of a worker, or of time, is `HeartbeatChanges` for the endpoint if it
makes the key come, go or expire, and nothing otherwise (`WorkersStep`); all
other steps of the endpoint leave the workers alone (`ApiStep`).

**Definitions called "Variant".** They are mutated forms of the definition that
follows, with a plausible mistake in them. Nothing uses them; they record
which mistakes the properties were seen to catch.

## 3. Runs

| run | instance | shows |
|---|---|---|
| `outcome` | 2 jobs, 2 slots, 1 cancel, 2 attempts, 2 payloads, `redis` `apiCrash` | `OutcomeMatchesPayload`, `ImplementsLifecycle`, `AcceptedJobEnds` |
| `worker_crash` | 1 job, 2 slots, 2 cancels, 3 attempts, 1 stall, `crash` `apiCrash` `redis`, 1 read request at a time | `RunOwnsEntry`, `AttemptsInOrder`, `AnswerShowsAttempts`, `MetricsAreBetween`, `StartedAtIsKept` |
| `store_faults` | 1 job, 2 slots, 2 cancels, 2 attempts, 1 stall, the same and `db` | `CancelledNeverRuns`, `AcceptedJobIsKept`, `CompletedEntryAgrees`, `DeadLetterExact`, `CancelledIsFinal` |
| `overlap` | 1 job, 2 slots, 2 attempts, 1 stall, 2 payloads, `crash` `lockLoss` `db` `redisLost` | `TypeOK`, `EntryIsSettled` |
| `listing` | 4 jobs, pages of 2, 3 sort values | `WalkLosesNothing` |
| `health` | 1 request, 2 workers, interval 2, ttl 4, lag 1, skew 1 | `VerdictIsDeserved`, `OutageIsShort`, `SilenceIsNoticed`, `OkIsCurrent`, `AnswerComes` |
| `cancel_race`, `resurrection`, `stuck_processing`, `queue_length` | 1 job, 1 slot, 2 or 3 attempts | violations, see section 4 |
| `shared_heartbeat` | 2 workers | a violation, see section 4 |
| `health_outage` | 1 request | a violation, see section 4 |

**Why the bounds are enough.** Jobs interact only through slots and the pause
flag, so one job shows everything about the two stores and two jobs show that
slots are shared rightly. Two slots are needed for overlapping runs, and no
third run of one job does anything new; two cancel requests are needed for one
that removes what the other removed. Two attempts make a first, retried attempt
and a final one, three a middle one. One stall, BullMQ's default and the one
this code runs with, makes a redelivery and, after a second crash, the limit;
`outcome` has no stalls, since no worker fails in it. The payloads are one that
succeeds at once, one that succeeds on the second attempt, and one that always
fails. `outcome` and `overlap`, whose progress properties are costly, leave out
the first: that a success at the first attempt changes nothing in them is shown
by the theorem `OutcomeMatches` only. `overlap` also leaves out `redis` and
`apiCrash`: without cancel requests they can only keep a job out of the queue,
and its properties are about jobs that are in it. `MaxAttempts` and
`MaxStalledCount` bound every counter. Symmetry is used
only in runs without temporal properties other than `[][A]_v`. A lag of one
tick makes beats late, and two workers overlap in a stop, a start and a crash.
Requests for the health meet only in the moment of shutdown (`Quit`), which
waits for each of them in the same way, so one is enough. Four jobs in pages of
two make a walk of two full pages, or of three pages for a client that is told
of more; two of them can share a sort value while others enter. Nothing is a state
constraint. Deadlock is checked in every run: pausing and resuming always are
possible, and so are time, another walk, and restarts.

**Fairness.** `FairSpec` makes weakly fair what the run time does by itself:
Node runs a handler on to its next await, BullMQ promotes entries that are due,
lets the lock of a dead owner expire, runs the stalled checker and fetches for a
free slot. Not fair are the clients' requests, `resume`, closing and restarting
workers, and every fault. Fetching is fair for the slots together, not for one.
Progress therefore is conditional on the queue staying resumed and on some slot
being there from some time on (`StaysServed`), be it another one each time:
graceful deployments and crashes may go on for ever. Fairness of the handlers
also supposes that Redis and PostgreSQL answer in the end: a command that waits
for a lost connection is an action that is taken late. In `HealthProbe` the callbacks of
a request are fair and the world is not; `AnswerComes` is conditional on Redis
not being gone for good.

**What the passing runs mean.** Without a worker fault the two stores agree
exactly, for every interleaving with cancellations, pauses, refused enqueues and
a dying API (`OutcomeMatchesPayload`), and the rows refine `JobLifecycle`.
Crashing workers disturb the agreement but not exclusion, the order of the
attempt history, cancellation or the acceptance of jobs; nor do failing database
calls, except for the attempt history, which is why `AttemptsInOrder` is checked
without them. If live workers lose locks, runs overlap; then only bounds, the
settling of entries and, by its theorem, the dead-letter view are claimed.

**What the faults that are left out would do.** With `lockLoss` a redelivered run
reopens an attempt that the other run ended between `startAttempt`'s two
statements (`AttemptsInOrder` fails), and of two runs that both read no
`startedAt` the later one overwrites it (`StartedAtIsKept` fails). With `crash` or
`db` an entry can end as failed while its row says `COMPLETED`
(`OutcomeMatchesPayload` fails). With `redisLost` `createJob` marks a job `FAILED`
that is running (`DeadLetterExact` fails, section 4). That is what the code does. No
document denies the first three, so they are not among the findings; the hazards
in `PROJECT.json` name them at their lines.

`JobLifecycle` is the abstract specification: `status` and `retryCount` as
`docs/DESIGN.md` draws them. `ImplementsLifecycle` maps the variables of
`JobPlatform` to it and sets `LateCancel`, which lets an ended job be
cancelled, because the code does that (section 4).

## 4. Where the code and its documents disagree

* **Late cancel** (`cancel_race`). A job that ends between the status check of
  `cancelJob` and the removal is removed from the queue, marked `CANCELLED` and
  answered 204. `docs/API.md:328` and `docs/DESIGN.md:290` exclude that.
* **Resurrection** (`resurrection`). A worker that dies after `markCompleted`
  and before the acknowledgement: the redelivery is refused by `startAttempt`,
  BullMQ counts a failed attempt, the next attempt runs the work again, and the
  row goes back to `PROCESSING`. `docs/DESIGN.md:292` excludes that.
* **Stuck in PROCESSING** (`stuck_processing`). After a second stall BullMQ fails
  the entry and nobody updates the row, against `docs/DESIGN.md:268`.
* **Queue length** (`queue_length`). `getJobCounts` asks BullMQ for `waiting`,
  which is the list `wait`. Jobs have a priority and wait in `prioritized`, so
  `queueLength` of `GET /metrics`, and `waiting` of `GET /health`, are 0 while
  jobs wait, against `docs/DESIGN.md:144` and `docs/API.md:464`.
* **Shared heartbeat** (`shared_heartbeat`). One worker's graceful stop deletes
  the key of all, and health is degraded until another beats, against
  `docs/DESIGN.md:982`. `OutageIsShort` is what does hold.
* **Health outage** (`health_outage`). With Redis away, `getHealth` waits for as
  long as Redis does and answers nothing, where `docs/API.md:428` promises 503
  and `"down"`. `AnswerComes` is what does hold.

`DeadLetterExact`, the comment at `jobs.mapper.ts:83`, is claimed without
`redisLost`: if `queue.add` were applied and yet seen to fail, `markEnqueueFailed`
could hit a job that has already been retried, and a job with attempts left
would be listed as a dead letter.

## 5. Proofs

Every theorem holds for all values of the constants (jobs, slots, cancel
requests, attempts, stalls, payloads; workers, interval, ttl, lag; health
requests; sort values, page size), under the faults that are not excluded:

| theorem | module | of `Spec` | excluded faults |
|---|---|---|---|
| `TypeCorrect` | `JobPlatformProofs` | `[]TypeOK` | none |
| `Exclusion` | `JobPlatformProofs` | `[]RunOwnsEntry` | `lockLoss` |
| `Cancellation` | `CancellationProofs` | `[]CancelledNeverRuns` | `lockLoss`, `redisLost` |
| `CancellationIsFinal` | `CancellationProofs` | `CancelledIsFinal` | `lockLoss`, `redisLost` |
| `AcceptedIsKept` | `CancellationProofs` | `[]AcceptedJobIsKept` | `lockLoss`, `redisLost` |
| `DeadLetterIsExact` | `StoreProofs` | `[]DeadLetterExact` | `redisLost` |
| `CompletedAgrees` | `StoreProofs` | `[]CompletedEntryAgrees` | `lockLoss`, `redisLost` |
| `StartedAtKept` | `StoreProofs` | `StartedAtIsKept` | `lockLoss` |
| `HistoryInOrder` | `StoreProofs` | `[]AttemptsInOrder` | `lockLoss`, `db` |
| `OutcomeMatches` | `OutcomeProofs` | `[]OutcomeMatchesPayload` | `crash`, `lockLoss`, `db`, `redisLost` |
| `RowsFollowLifecycle` | `OutcomeProofs` | `ImplementsLifecycle` | the same |
| `TerminalStaysTerminal` | `OutcomeProofs` | `NoResurrection` | the same |
| `ProcessingMeansInProgress` | `OutcomeProofs` | `[]ProcessingIsInProgress` | the same |
| `AnswersShowAttempts` | `ReadsProofs` | `[]AnswerShowsAttempts`, of `ReadSpec` | `lockLoss`, `db` |
| `MetricsBetween` | `ReadsProofs` | `[]MetricsAreBetween`, of `ReadSpec` | none |
| `WalksAreComplete` | `ListingProofs` | `[]WalkLosesNothing` | none |
| `VerdictsAreDeserved` | `HealthProofs` | `[]VerdictIsDeserved` | none |
| `OutagesAreShort`, `SilenceEnds` | `HealthProofs` | `[]OutageIsShort`, `[]SilenceIsNoticed`, of `BeatSpec` | none |
| `PartsKeepTheirPromises` | `HealthProofs` | the three together, of `SystemSpec` | none |
| `OkAnswersAreCurrent` | `HealthProofs` | `OkIsCurrent`, of `SystemSpec` | none |

They assume what the modules state of their constants and nothing else:
`MaxAttemptsAssumption` (Joi's `min(1)`), `MaxStalledAssumption`,
`WorkersAssumption`, `JobsAssumption`, `PayloadsAssumption`, `FaultsAssumption`,
and for the heartbeat `IntervalAssumption`, `TTLAssumption` (Joi's
`ttl > interval`), `LagAssumption` and `SkewAssumption`, for the listing that there are finitely
many jobs, that sort values are numbers and that a page has room for one. TLC evaluates all of them.
`OutagesAreShort`, and so `PartsKeepTheirPromises`, also needs `Skew < TTL`: if the
API's clock is ahead by a ttl, it takes every key for an old one. The code has
no check of that.

**The argument.**

* `TypeOK` is not inductive: that an attempt number stays within `MaxAttempts`
  depends on an entry leaving the waiting list at its last attempt. `Typed` adds
  that bound for entries (`EntryBounded`) and for the locals of runs.
* `RunOwnsEntry` is inductive together with `Typed`. A step of one slot leaves
  the entries of the others alone (`Undisturbed`), because every script of
  BullMQ that takes an active entry away checks its lock, and the lock of a live
  run is never orphaned without `lockLoss`.
* `JobStepProofs` says once, for every action, what it does to one row, one
  attempt, one entry and one handler; the later proofs split on those few cases
  instead of on all the actions.
* Cancellation needs that from the removal on the entry stays `Gone`, although
  the row is marked later and although a second cancellation may come in
  between: `CancelInv` ties the control state of every handler to the entry.
* Dead letters (`DeadLetterInv`): a row whose `createJob` has not succeeded has
  `retryCount` 0, because a job can only be running once it was accepted. So
  `markEnqueueFailed` never makes a dead letter, and a worker makes one only
  at the last attempt.
* A completed entry's row stays `COMPLETED` (`CompletedInv`): who could write it
  is a run, which would own the entry, or a cancellation, which would have
  removed it (`RowIsStill`).
* `StartedInv`: a run that read no `startedAt` is right about it until it writes.
  `HistoryInv`: attempts up to the entry's `attemptsMade` are closed, those two
  or more beyond it do not exist, and a run's number is its entry's.
* Outcomes (`OutcomeInv`): `OutcomeMatchesPayload` speaks of finished entries
  only and says nothing of how a job got there. The invariant adds, for every
  place where a job can be (its `createJob` handler, each list of the queue, each
  await of `process()`), its `Record` there: the status and `retryCount` of its
  row, which attempts have failed and that the payload made them fail. All of it
  hangs on one number, the attempts the queue has counted, so every step moves a
  job from one `Record` to the next (`RecordMoves`). The step of a run leaves the
  jobs of the other runs alone by `RunOwnsEntry`; a removal by `cancelJob` ends
  the obligation, since the entry is gone. A lost lock, an applied call that is seen to
  fail or a worker that dies inside `process()` breaks exactly this, which is why
  `Reliable` excludes them; the API may die and Redis refuse calls.
* The refinement (`RowsFollowLifecycle`): a step writes one row at most, and in
  only a few ways (`RowChanges`, in `JobStepProofs`). No update has a condition on
  the status it overwrites; `OutcomeInv` supplies that status (`RowFollows`), and each
  write is then an action of `JobLifecycle` or, if it is that of a second
  cancellation, a stutter (`LifecycleMoves`).
* `TerminalStaysTerminal` and `ProcessingMeansInProgress` are what
  `docs/DESIGN.md` says of the statuses and what the runs `resurrection` and
  `stuck_processing` refute once workers die.
* Answers (`ShownInv`): the row of an answer is older than its attempts. What a
  row shows of attempts that ended was true of them when it was written
  (`RowWritten`, since a run writes the attempt before the row), and an attempt
  that has ended stays what it is (`ClosedStays`), so it still is when the second
  SELECT reads them (`ShownStays`). That needs an attempt to be open from the
  check at the head of `startAttempt` to the update that ends it: a second run
  (`lockLoss`), or a failed update that was applied (`db`), would reopen one.
* Heartbeat (`KeyInv`): if `Skew < TTL`, the key has been missing no longer than any worker that
  is up has gone without a beat, and the silence is not longer than the key's age.
* Health (`Deserved`): each settled probe agrees with something in `seen`, and
  `seen` of a request in flight contains the present.
* Both together: every step of `SystemSpec` is a step or a stutter of each part,
  so what is proved of a part holds of the system. That `beating` is
  `WorkerRunning` is an invariant of the composition only, and an "ok" comes
  from no step but `CheckWorkerRunning`, the last of the probes.
* Metrics (`CountsHold`): a count that has been taken agrees with the rows of
  today about every job that has not moved since.
* Listing (`CalmInv`): a job with a sort value of its own is among the first n
  rows exactly if fewer than n jobs sort before it (`InPrefix`). In a calm walk
  that number only grows, so a job that has not been shown lies beyond the pages
  shown, and then the total counts more rows than those pages hold.

Every invariant and every action property that a passing run checks is proved,
and the refinement is. Out of the provers' reach, and therefore only
model-checked, is what holds under fairness (`AcceptedJobEnds`, `EntryIsSettled`,
`AnswerComes`): each needs `ENABLED` of the fair actions.

## 6. Not modelled, and the plan

Not modelled because there is nothing to decide: controllers, DTO validation,
Swagger, wiring, Prisma and its migrations, the images, the average processing
time and the success rate (arithmetic on what is modelled).

Not modelled although it could be:

* **A worker process as a whole.** `Close` takes slots one by one, and
  `WorkerHeartbeat` has a `draining` state of its own; nothing says which slot
  is in which process. So that the heartbeat is gone while jobs still drain
  (`docs/DESIGN.md:600` has the other order) is in the model of the heartbeat,
  as part of `Stop`; of the properties only `SilenceIsNoticed` concerns it: a
  process that drains must not bring the key back.
* **Redis away from the workers.** The heartbeat's SET would be sent late and
  with an old timestamp.
* **Shutdown of the API**: which requests are still served after the connections
  were closed, beyond the health request.
* **Schedule**: that a valid `runAt` in the future is accepted, which beyond 24.8
  days it is not. `JobApi` has the behaviour (`Unstorable`), no run states the
  property.

Every proof of the plan is done.

The order of the modules was: the rows and the queue first, then the handlers
that write both, then the heartbeat and the health request, which touch neither,
then the reads, which change nothing, and the compositions last.
