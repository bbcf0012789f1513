---------------------------- MODULE HealthProbe -----------------------------
(***************************************************************************)
(* HealthService.getHealth in the API process: three probes that run at    *)
(* the same time, a fourth that waits for them, and the verdict.  While a  *)
(* request is in flight its dependencies fail, recover and go away.        *)
(***************************************************************************)
EXTENDS Naturals

CONSTANT Requests       \* GET /health, each sent once

VARIABLES
    database,   \* is PostgreSQL reachable
    link,       \* the one Redis connection of the API process
    beating,    \* is the heartbeat key in Redis, and younger than its ttl
    probe,      \* the locals of each request
    seen        \* history: what was the case while the request was in flight

vars == <<database, link, beating, probe, seen>>
world == <<database, link, beating>>

Verdict == {"ok", "degraded", "down"}
Dependency == {"pending", "connected", "disconnected"}

Probe ==
    [ pc       : {"idle", "probing", "worker", "answered"},
      database : Dependency,
      redis    : Dependency,
      counts   : {"pending", "counts", "zeros"},
      status   : {"none"} \cup Verdict ]

Unsent == [pc |-> "idle", database |-> "pending", redis |-> "pending",
           counts |-> "pending", status |-> "none"]

InFlight(r) == probe[r].pc \in {"probing", "worker"}

Observation ==
    {"database", "noDatabase", "redis", "noRedis", "worker", "noWorker"}

(* What an observer sees of the world now; of Redis, nothing while the     *)
(* link waits for it.                                                      *)
Observed ==
    {o \in Observation :
       CASE o = "database"   -> database
         [] o = "noDatabase" -> ~database
         [] o = "redis"      -> link = "ready"
         [] o = "noRedis"    -> link = "closed"
         [] o = "worker"     -> beating
         [] o = "noWorker"   -> ~beating}

Init ==
    /\ database \in BOOLEAN
    /\ link \in {"ready", "reconnecting"}
    /\ beating \in BOOLEAN
    /\ probe = [r \in Requests |-> Unsent]
    /\ seen = [r \in Requests |-> {}]

-----------------------------------------------------------------------------
(* getHealth calls the three probes and waits for all of them.             *)
GetHealth(r) ==
    /\ probe[r].pc = "idle"
    /\ probe' = [probe EXCEPT ![r].pc = "probing"]
    /\ seen' = [seen EXCEPT ![r] = Observed]
    /\ UNCHANGED world

(* checkDatabase: a rejected query is an answer.                           *)
CheckDatabase(r) ==
    /\ probe[r].pc = "probing" /\ probe[r].database = "pending"
    /\ probe' = [probe EXCEPT ![r].database =
                   IF database THEN "connected" ELSE "disconnected"]
    /\ UNCHANGED <<world, seen>>

(* checkRedis.  maxRetriesPerRequest is null: a command sent without a     *)
(* connection waits for the next one, and only a closed one rejects it.    *)
CheckRedis(r) ==
    /\ probe[r].pc = "probing" /\ probe[r].redis = "pending"
    /\ link # "reconnecting"
    /\ probe' = [probe EXCEPT ![r].redis =
                   IF link = "ready" THEN "connected" ELSE "disconnected"]
    /\ UNCHANGED <<world, seen>>

(* Variant: the counts are asked for again instead of being set to zero.   *)
GetQueueCountsRetrying(r) ==
    /\ probe[r].pc = "probing" /\ probe[r].counts = "pending"
    /\ link = "ready"
    /\ probe' = [probe EXCEPT ![r].counts = "counts"]
    /\ UNCHANGED <<world, seen>>

(* getQueueCounts: zeros when BullMQ rejects, for want of a connection or  *)
(* for a reason of its own.                                                *)
GetQueueCounts(r) ==
    /\ probe[r].pc = "probing" /\ probe[r].counts = "pending"
    /\ link # "reconnecting"
    /\ \E counts \in {"counts", "zeros"} :
         /\ counts = "counts" => link = "ready"
         /\ probe' = [probe EXCEPT ![r].counts = counts]
    /\ UNCHANGED <<world, seen>>

(* Variant: "down" only when both are gone.                                *)
ResolveStatusLenient(db, redis, workerRunning) ==
    IF db = "disconnected" /\ redis = "disconnected" THEN "down"
    ELSE IF ~workerRunning THEN "degraded" ELSE "ok"

ResolveStatus(db, redis, workerRunning) ==
    IF db = "disconnected" \/ redis = "disconnected" THEN "down"
    ELSE IF ~workerRunning THEN "degraded" ELSE "ok"

Answer(r, workerRunning) ==
    probe' = [probe EXCEPT
                ![r].pc = "answered",
                ![r].status = ResolveStatus(probe[r].database, probe[r].redis,
                                            workerRunning)]

(* Promise.all: every probe has settled.  The worker is asked for only     *)
(* when Redis answered.                                                    *)
Joined(r) ==
    /\ probe[r].pc = "probing"
    /\ "pending" \notin {probe[r].database, probe[r].redis, probe[r].counts}
    /\ \/ /\ probe[r].redis = "connected"
          /\ probe' = [probe EXCEPT ![r].pc = "worker"]
       \/ /\ probe[r].redis # "connected"
          /\ Answer(r, FALSE)
    /\ UNCHANGED <<world, seen>>

(* Variant: the heartbeat is read at any moment of the request, as it      *)
(* would be beside the other three probes.                                 *)
CheckWorkerRunningEarly(r) ==
    /\ probe[r].pc = "worker"
    /\ link # "reconnecting"
    /\ \E o \in {"worker", "noWorker"} \cap seen[r] :
         Answer(r, link = "ready" /\ o = "worker")
    /\ UNCHANGED <<world, seen>>

(* checkWorkerRunning: a missing key, an old one and a rejected command    *)
(* are all the same.                                                       *)
CheckWorkerRunning(r) ==
    /\ probe[r].pc = "worker"
    /\ link # "reconnecting"
    /\ Answer(r, link = "ready" /\ beating)
    /\ UNCHANGED <<world, seen>>

Step(r) ==
    \/ CheckDatabase(r) \/ CheckRedis(r) \/ GetQueueCounts(r)
    \/ Joined(r) \/ CheckWorkerRunning(r)

-----------------------------------------------------------------------------
(* The world goes on, and every request in flight has been through it.     *)
Witness ==
    /\ seen' = [r \in Requests |-> IF InFlight(r) THEN seen[r] \cup Observed'
                                   ELSE seen[r]]
    /\ UNCHANGED probe

DatabaseChanges ==
    /\ database' = ~database
    /\ UNCHANGED <<link, beating>>
    /\ Witness

HeartbeatChanges ==
    /\ beating' = ~beating
    /\ UNCHANGED <<database, link>>
    /\ Witness

(* Redis goes away; ioredis reconnects for as long as it takes.            *)
RedisDrops ==
    /\ link = "ready" /\ link' = "reconnecting"
    /\ UNCHANGED <<database, beating>>
    /\ Witness

RedisReconnects ==
    /\ link = "reconnecting" /\ link' = "ready"
    /\ UNCHANGED <<database, beating>>
    /\ Witness

AwaitsRedis(r) ==
    \/ probe[r].pc = "worker"
    \/ probe[r].pc = "probing" /\ "pending" \in {probe[r].redis, probe[r].counts}

(* Shutdown calls quit() before the HTTP server stops.  Redis answers what *)
(* it was sent before QUIT; commands cut off from it are rejected.         *)
Quit ==
    /\ \/ link = "ready" /\ \A r \in Requests : ~AwaitsRedis(r)
       \/ link = "reconnecting"
    /\ link' = "closed"
    /\ UNCHANGED <<database, beating>>
    /\ Witness

(* All that happens but for the heartbeat.                                 *)
ProbeNext ==
    \/ \E r \in Requests : GetHealth(r) \/ Step(r)
    \/ DatabaseChanges \/ RedisDrops \/ RedisReconnects \/ Quit

Next == ProbeNext \/ HeartbeatChanges

Spec == Init /\ [][Next]_vars

(* The event loop runs every callback whose promise has settled.           *)
ProbeFairness ==
    \A r \in Requests :
      /\ WF_vars(CheckDatabase(r)) /\ WF_vars(CheckRedis(r))
      /\ WF_vars(GetQueueCounts(r)) /\ WF_vars(Joined(r))
      /\ WF_vars(CheckWorkerRunning(r))

FairSpec == Spec /\ ProbeFairness

-----------------------------------------------------------------------------

(* The variables have their types.                                         *)
TypeOK ==
    /\ database \in BOOLEAN
    /\ link \in {"ready", "reconnecting", "closed"}
    /\ beating \in BOOLEAN
    /\ probe \in [Requests -> Probe]
    /\ seen \in [Requests -> SUBSET Observation]

(* getHealth reads its dependencies one by one while they change.  What it *)
(* answers was at least true of each of them at some moment since the      *)
(* request came in.                                                        *)
VerdictIsDeserved ==
    \A r \in Requests :
      /\ probe[r].status = "ok" =>
           {"database", "redis", "worker"} \subseteq seen[r]
      /\ probe[r].status = "degraded" =>
           /\ {"database", "redis"} \subseteq seen[r]
           /\ {"noWorker", "noRedis"} \cap seen[r] # {}
      /\ probe[r].status = "down" =>
           {"noDatabase", "noRedis"} \cap seen[r] # {}

Answered(r) == InFlight(r) ~> probe[r].pc = "answered"

(* Every request is answered, whatever else fails, once Redis is not gone  *)
(* for good.                                                               *)
AnswerComes ==
    <>[](link # "reconnecting") => \A r \in Requests : Answered(r)

(* docs/API.md: "down", 503, is the answer when Redis is disconnected.     *)
(* Hence there is one, even if Redis does not come back.                   *)
OutageIsAnswered ==
    <>[](link = "reconnecting") => \A r \in Requests : Answered(r)

=============================================================================
