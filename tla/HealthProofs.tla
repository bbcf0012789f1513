---------------------------- MODULE HealthProofs ----------------------------
(***************************************************************************)
(* The health endpoint and the heartbeat it reads: first each by itself,   *)
(* the endpoint for every set of requests and the key for any number of    *)
(* workers and any interval, ttl and lag, then both together.              *)
(***************************************************************************)
EXTENDS HealthSystem, TLAPS

(* VerdictIsDeserved speaks of answers only.  Deserved says the same of    *)
(* what a request has found out so far, and that the history of a request  *)
(* in flight includes the present, which is what the next probe will read. *)
Deserved ==
    \A r \in Requests :
      /\ probe[r].pc = "idle" => probe[r] = Unsent
      /\ InFlight(r) => Observed \subseteq seen[r]
      /\ probe[r].database = "connected" => "database" \in seen[r]
      /\ probe[r].database = "disconnected" => "noDatabase" \in seen[r]
      /\ probe[r].redis = "connected" => "redis" \in seen[r]
      /\ probe[r].redis = "disconnected" => "noRedis" \in seen[r]
      /\ probe[r].pc = "worker" =>
           /\ probe[r].redis = "connected"
           /\ probe[r].database # "pending"
      /\ probe[r].status # "none" => probe[r].pc = "answered"

HealthInv == TypeOK /\ Deserved /\ VerdictIsDeserved

-----------------------------------------------------------------------------

LEMMA HealthInit == Init => HealthInv
  BY DEF Init, HealthInv, TypeOK, Deserved, VerdictIsDeserved, Probe, Unsent,
         Dependency, Verdict, InFlight

(* What is observed is an observation.                                     *)
LEMMA ObservedTyped == Observed \subseteq Observation /\ Observed' \subseteq Observation
  BY DEF Observed

(* The world's steps: histories of requests in flight grow by the present. *)
LEMMA WitnessKeeps ==
    ASSUME HealthInv, Witness,
           database' \in BOOLEAN, beating' \in BOOLEAN,
           link' \in {"ready", "reconnecting", "closed"}
    PROVE  HealthInv'
<1>1. TypeOK'
  BY ObservedTyped DEF HealthInv, TypeOK, Witness
<1>2. \A r \in Requests : /\ seen[r] \subseteq seen'[r]
                          /\ probe'[r] = probe[r]
                          /\ InFlight(r) => Observed' \subseteq seen'[r]
  BY DEF HealthInv, TypeOK, Witness
<1>3. Deserved'
  BY <1>2 DEF HealthInv, Deserved, InFlight
<1>4. VerdictIsDeserved'
  BY <1>2 DEF HealthInv, VerdictIsDeserved
<1> QED
  BY <1>1, <1>3, <1>4 DEF HealthInv

(* A request finds out what its history shows.                             *)
LEMMA ProbeKeeps ==
    ASSUME HealthInv, NEW r \in Requests, Step(r)
    PROVE  HealthInv'
<1> USE DEF HealthInv
<1>1. /\ UNCHANGED <<world, seen>>
      /\ Observed' = Observed
      /\ \A q \in Requests \ {r} : probe'[q] = probe[q]
  <2>1. UNCHANGED <<world, seen>>
    BY DEF Step, CheckDatabase, CheckRedis, GetQueueCounts, Joined,
           CheckWorkerRunning
  <2>2. Observed' = Observed
    BY <2>1 DEF world, Observed
  <2>3. ASSUME NEW q \in Requests \ {r} PROVE probe'[q] = probe[q]
    BY <2>3 DEF Step, CheckDatabase, CheckRedis, GetQueueCounts, Joined,
                CheckWorkerRunning, Answer, TypeOK
  <2> QED
    BY <2>1, <2>2, <2>3
<1>2. /\ probe[r] \in Probe
      /\ InFlight(r) => Observed \subseteq seen[r]
      /\ seen[r] \subseteq Observation
  BY DEF TypeOK, Deserved
<1>3. ("database" \in Observed <=> database)
      /\ ("noDatabase" \in Observed <=> ~database)
      /\ ("redis" \in Observed <=> link = "ready")
      /\ ("noRedis" \in Observed <=> link = "closed")
      /\ ("worker" \in Observed <=> beating)
      /\ ("noWorker" \in Observed <=> ~beating)
  BY DEF Observed, Observation
<1>4. SUFFICES /\ probe'[r] \in Probe
               /\ probe'[r].pc # "idle" /\ (InFlight(r)' => InFlight(r))
               /\ probe'[r].database = "connected" => "database" \in seen[r]
               /\ probe'[r].database = "disconnected" => "noDatabase" \in seen[r]
               /\ probe'[r].redis = "connected" => "redis" \in seen[r]
               /\ probe'[r].redis = "disconnected" => "noRedis" \in seen[r]
               /\ probe'[r].pc = "worker" => /\ probe'[r].redis = "connected"
                                             /\ probe'[r].database # "pending"
               /\ probe'[r].status # "none" => probe'[r].pc = "answered"
               /\ probe'[r].status = "ok" =>
                    {"database", "redis", "worker"} \subseteq seen[r]
               /\ probe'[r].status = "degraded" =>
                    /\ {"database", "redis"} \subseteq seen[r]
                    /\ {"noWorker", "noRedis"} \cap seen[r] # {}
               /\ probe'[r].status = "down" =>
                    {"noDatabase", "noRedis"} \cap seen[r] # {}
               /\ probe' = [probe EXCEPT ![r] = probe'[r]]
  <2>1. TypeOK'
    BY <1>1, <1>4 DEF TypeOK, world
  <2>2. Deserved'
    BY <1>1, <1>2, <1>4 DEF Deserved, InFlight, TypeOK
  <2>3. VerdictIsDeserved'
    BY <1>1, <1>4 DEF VerdictIsDeserved, TypeOK
  <2> QED
    BY <2>1, <2>2, <2>3
<1>5. CASE CheckDatabase(r)
  BY <1>2, <1>3, <1>5
  DEF CheckDatabase, TypeOK, Deserved, Probe, Dependency, InFlight
<1>6. CASE CheckRedis(r)
  BY <1>2, <1>3, <1>6
  DEF CheckRedis, TypeOK, Deserved, Probe, Dependency, InFlight
<1>7. CASE GetQueueCounts(r)
  BY <1>2, <1>7 DEF GetQueueCounts, TypeOK, Deserved, Probe, InFlight
<1>8. CASE Joined(r)
  BY <1>2, <1>8
  DEF Joined, Answer, ResolveStatus, TypeOK, Deserved, Probe, Dependency,
      Verdict, InFlight
<1>9. CASE CheckWorkerRunning(r)
  BY <1>2, <1>3, <1>9
  DEF CheckWorkerRunning, Answer, ResolveStatus, TypeOK, Deserved, Probe,
      Dependency, Verdict, InFlight
<1> QED
  BY <1>5, <1>6, <1>7, <1>8, <1>9 DEF Step

LEMMA HealthNext == HealthInv /\ [Next]_vars => HealthInv'
<1> SUFFICES ASSUME HealthInv, [Next]_vars PROVE HealthInv'
  OBVIOUS
<1>1. ASSUME NEW r \in Requests, GetHealth(r) PROVE HealthInv'
  <2>1. probe[r] \in Probe /\ Observed' = Observed
    BY <1>1 DEF HealthInv, TypeOK, GetHealth, world, Observed
  <2>2. TypeOK'
    BY <1>1, <2>1, ObservedTyped
    DEF HealthInv, TypeOK, GetHealth, world, Probe
  <2>3. Deserved'
    <3>1. /\ probe'[r] = [Unsent EXCEPT !.pc = "probing"]
          /\ seen'[r] = Observed
      BY <1>1 DEF HealthInv, TypeOK, Deserved, GetHealth
    <3>2. \A q \in Requests \ {r} : probe'[q] = probe[q] /\ seen'[q] = seen[q]
      BY <1>1 DEF HealthInv, TypeOK, GetHealth
    <3> QED
      BY <2>1, <3>1, <3>2 DEF HealthInv, Deserved, InFlight, Unsent
  <2>4. VerdictIsDeserved'
    <3>1. probe[r].status = "none" /\ probe'[r].status = "none"
      BY <1>1 DEF HealthInv, TypeOK, Deserved, GetHealth, Probe, Verdict
    <3>2. \A q \in Requests \ {r} : probe'[q] = probe[q] /\ seen'[q] = seen[q]
      BY <1>1 DEF HealthInv, TypeOK, GetHealth
    <3> QED
      BY <3>1, <3>2 DEF HealthInv, VerdictIsDeserved
  <2> QED
    BY <2>2, <2>3, <2>4 DEF HealthInv
<1>2. ASSUME NEW r \in Requests, Step(r) PROVE HealthInv'
  BY <1>2, ProbeKeeps
<1>3. CASE DatabaseChanges \/ HeartbeatChanges \/ RedisDrops
             \/ RedisReconnects \/ Quit
  <2>1. /\ Witness
        /\ database' \in BOOLEAN /\ beating' \in BOOLEAN
        /\ link' \in {"ready", "reconnecting", "closed"}
    BY <1>3 DEF DatabaseChanges, HeartbeatChanges, RedisDrops,
                RedisReconnects, Quit, HealthInv, TypeOK
  <2> QED
    BY <2>1, WitnessKeeps
<1>4. CASE UNCHANGED vars
  <2>1. Observed' = Observed
    BY <1>4 DEF vars, Observed
  <2> QED
    BY <1>4, <2>1 DEF vars, HealthInv, TypeOK, Deserved, VerdictIsDeserved,
                      InFlight
<1> QED
  BY <1>1, <1>2, <1>3, <1>4 DEF Next, ProbeNext

(* Any number of requests, each with its dependencies changing between its *)
(* probes: every verdict is one that held of each dependency at some       *)
(* moment of the request.                                                  *)
THEOREM VerdictsAreDeserved == Spec => []VerdictIsDeserved
<1>1. HealthInv => VerdictIsDeserved
  BY DEF HealthInv
<1> QED
  BY <1>1, HealthInit, HealthNext, PTL DEF Spec

-----------------------------------------------------------------------------
(* Unless the API takes even a new key for an old one, an outage is        *)
(* younger than the last beat of any worker that is up; and the key is at  *)
(* least as old as the silence.                                            *)
KeyInv ==
    /\ Skew < TTL => \A w \in Up(worker) : dark <= sinceBeat[w]
    /\ Up(worker) = {} => dark = 0 /\ silent <= keyAge
    /\ Up(worker) # {} => silent = 0

HeartbeatInv == BeatTypeOK /\ KeyInv

-----------------------------------------------------------------------------

LEMMA HeartbeatInit == BeatInit => HeartbeatInv
  BY IntervalAssumption, TTLAssumption, LagAssumption
  DEF BeatInit, HeartbeatInv, BeatTypeOK, KeyInv, Up, Deadline

(* A step that takes no time and after which the key is fresh, as after a  *)
(* beat.                                                                   *)
LEMMA FreshKeeps ==
    ASSUME HeartbeatInv, NEW w \in Workers,
           worker' = [worker EXCEPT ![w] = "up"],
           sinceBeat' = [sinceBeat EXCEPT ![w] = 0],
           keyAge' = 0, Observe(0)
    PROVE  HeartbeatInv'
<1>1. w \in Up(worker') /\ (Skew < TTL => Fresh(keyAge'))
  BY TTLAssumption, IntervalAssumption, SkewAssumption
  DEF HeartbeatInv, BeatTypeOK, Up, Fresh
<1>2. /\ Skew < TTL => dark' = 0
      /\ dark' \in Nat /\ silent' = 0
  <2>1. dark \in Nat
    BY DEF HeartbeatInv, BeatTypeOK
  <2>2. Up(worker') # {}
    BY <1>1
  <2>3. silent' = 0
    BY <2>2 DEF Observe
  <2>4. dark' \in {0, dark + 0}
    BY <2>2 DEF Observe
  <2>5. Skew < TTL => dark' = 0
    BY <1>1 DEF Observe
  <2> QED
    BY <2>1, <2>3, <2>4, <2>5
<1>3. BeatTypeOK'
  BY <1>2, TTLAssumption, IntervalAssumption, LagAssumption
  DEF HeartbeatInv, BeatTypeOK, Deadline
<1>4. ASSUME Skew < TTL, NEW u \in Up(worker') PROVE dark' <= sinceBeat'[u]
  <2>1. sinceBeat'[u] \in 0 .. Deadline
    BY <1>3, <1>4 DEF BeatTypeOK, Up
  <2> QED
    BY <1>2, <1>4, <2>1, IntervalAssumption, LagAssumption DEF Deadline
<1>5. KeyInv'
  BY <1>1, <1>2, <1>4 DEF KeyInv
<1> QED
  BY <1>3, <1>5 DEF HeartbeatInv

(* A step that takes no time and after which no further worker is up.      *)
LEMMA FewerKeeps ==
    ASSUME HeartbeatInv, NEW w \in Workers,
           NEW state \in {"draining", "down"},
           worker' = [worker EXCEPT ![w] = state],
           sinceBeat' \in {sinceBeat, [sinceBeat EXCEPT ![w] = 0]},
           keyAge' \in {keyAge, TTL}, Observe(0)
    PROVE  HeartbeatInv'
<1>1. /\ Up(worker') = Up(worker) \ {w}
      /\ \A u \in Up(worker') : sinceBeat'[u] = sinceBeat[u]
  BY DEF HeartbeatInv, BeatTypeOK, Up
<1>2. BeatTypeOK'
  <2>1. dark' \in Nat /\ silent' \in 0 .. TTL
    BY TTLAssumption DEF HeartbeatInv, BeatTypeOK, Observe
  <2> QED
    BY <2>1, TTLAssumption, IntervalAssumption, LagAssumption
    DEF HeartbeatInv, BeatTypeOK, Deadline
<1>3. keyAge' >= keyAge /\ keyAge \in 0 .. TTL /\ keyAge' \in 0 .. TTL
  BY TTLAssumption DEF HeartbeatInv, BeatTypeOK
<1>4. ASSUME Skew < TTL, NEW u \in Up(worker') PROVE dark' <= sinceBeat'[u]
  BY <1>1, <1>4 DEF HeartbeatInv, KeyInv, BeatTypeOK, Observe, Up, Deadline
<1>5. ASSUME Up(worker') = {} PROVE dark' = 0 /\ silent' <= keyAge'
  BY <1>3, <1>5, TTLAssumption DEF HeartbeatInv, KeyInv, BeatTypeOK, Observe
<1>6. ASSUME Up(worker') # {} PROVE silent' = 0
  BY <1>6 DEF Observe
<1> QED
  BY <1>2, <1>4, <1>5, <1>6 DEF HeartbeatInv, KeyInv

LEMMA TickKeeps ==
    ASSUME HeartbeatInv, Tick
    PROVE  HeartbeatInv'
<1>1. /\ Up(worker') = Up(worker)
      /\ \A u \in Up(worker) : /\ u \in Workers
                               /\ sinceBeat'[u] = sinceBeat[u] + 1
                               /\ sinceBeat[u] \in Nat
      /\ dark \in Nat /\ silent \in 0 .. TTL /\ keyAge \in 0 .. TTL
  BY TTLAssumption, IntervalAssumption, LagAssumption
  DEF HeartbeatInv, BeatTypeOK, Up, Tick, Deadline
<1>2. dark' \in Nat /\ dark' <= dark + 1 /\ silent' \in 0 .. TTL
  BY <1>1, TTLAssumption DEF Tick, Observe
<1>3. BeatTypeOK'
  <2>1. sinceBeat' \in [Workers -> 0 .. Deadline]
    BY IntervalAssumption, LagAssumption
    DEF HeartbeatInv, BeatTypeOK, Tick, Up, Deadline
  <2>2. keyAge' \in 0 .. TTL
    BY <1>1, TTLAssumption DEF Tick
  <2> QED
    BY <1>2, <2>1, <2>2 DEF HeartbeatInv, BeatTypeOK, Tick
<1>4. ASSUME Skew < TTL, NEW u \in Up(worker') PROVE dark' <= sinceBeat'[u]
  BY <1>1, <1>2, <1>4 DEF HeartbeatInv, KeyInv
<1>5. ASSUME Up(worker') = {} PROVE dark' = 0 /\ silent' <= keyAge'
  <2>1. dark = 0 /\ silent <= keyAge
    BY <1>1, <1>5 DEF HeartbeatInv, KeyInv
  <2>2. dark' = 0
    BY <1>5 DEF Tick, Observe
  <2>3. silent' = IF silent < TTL THEN silent + 1 ELSE TTL
    BY <1>1, <1>5 DEF Tick, Observe
  <2>4. keyAge' = IF keyAge < TTL THEN keyAge + 1 ELSE TTL
    BY DEF Tick
  <2> QED
    BY <1>1, <2>1, <2>2, <2>3, <2>4, TTLAssumption
<1>6. ASSUME Up(worker') # {} PROVE silent' = 0
  BY <1>6 DEF Tick, Observe
<1>7. KeyInv'
  BY <1>4, <1>5, <1>6 DEF KeyInv
<1> QED
  BY <1>3, <1>7 DEF HeartbeatInv

LEMMA HeartbeatNext == HeartbeatInv /\ [BeatNext]_beatVars => HeartbeatInv'
<1> SUFFICES ASSUME HeartbeatInv, [BeatNext]_beatVars PROVE HeartbeatInv'
  OBVIOUS
<1>1. ASSUME NEW w \in Workers, Start(w) PROVE HeartbeatInv'
  BY <1>1, FreshKeeps DEF Start
<1>2. ASSUME NEW w \in Workers, Beat(w) PROVE HeartbeatInv'
  <2>1. worker' = [worker EXCEPT ![w] = "up"]
    BY <1>2 DEF Beat, HeartbeatInv, BeatTypeOK
  <2> QED
    BY <1>2, <2>1, FreshKeeps DEF Beat
<1>3. ASSUME NEW w \in Workers, Stop(w) PROVE HeartbeatInv'
  BY <1>3, FewerKeeps DEF Stop
<1>4. ASSUME NEW w \in Workers, Drained(w) PROVE HeartbeatInv'
  BY <1>4, FewerKeeps DEF Drained
<1>5. ASSUME NEW w \in Workers, Crash(w) PROVE HeartbeatInv'
  BY <1>5, FewerKeeps DEF Crash
<1>6. CASE Tick
  BY <1>6, TickKeeps
<1>7. CASE UNCHANGED beatVars
  BY <1>7 DEF beatVars, HeartbeatInv, BeatTypeOK, KeyInv, Up
<1> QED
  BY <1>1, <1>2, <1>3, <1>4, <1>5, <1>6, <1>7 DEF BeatNext

LEMMA AlwaysHeartbeatInv == BeatSpec => []HeartbeatInv
  BY HeartbeatInit, HeartbeatNext, PTL DEF BeatSpec

(* If the clocks are less than a ttl apart: however workers start, stop,   *)
(* drain and crash, one that is up is not reported missing for longer than *)
(* the next of its beats may take.                                         *)
THEOREM OutagesAreShort ==
    ASSUME Skew < TTL
    PROVE  BeatSpec => []OutageIsShort
<1>1. HeartbeatInv => OutageIsShort
  BY IntervalAssumption, LagAssumption
  DEF HeartbeatInv, BeatTypeOK, KeyInv, OutageIsShort, Up, Deadline
<1> QED
  BY <1>1, AlwaysHeartbeatInv, PTL

(* No worker is reported to run once none has been up for a ttl, however   *)
(* far the API's clock is ahead.                                           *)
THEOREM SilenceEnds == BeatSpec => []SilenceIsNoticed
<1>1. HeartbeatInv => SilenceIsNoticed
  BY TTLAssumption, IntervalAssumption
  DEF HeartbeatInv, BeatTypeOK, KeyInv, SilenceIsNoticed, WorkerRunning, Fresh
<1> QED
  BY <1>1, AlwaysHeartbeatInv, PTL

-----------------------------------------------------------------------------
(* Both together.  A run of the system is a run of each of its parts, and  *)
(* the key that the requests read is the one that the workers write.       *)

LEMMA SystemStep == SystemNext => [Next]_vars /\ [BeatNext]_beatVars
<1>1. ASSUME WorkersStep PROVE [Next]_vars /\ [BeatNext]_beatVars
  BY <1>1 DEF WorkersStep, Next
<1>2. ASSUME ApiStep PROVE [Next]_vars /\ [BeatNext]_beatVars
  BY <1>2 DEF ApiStep, Next
<1> QED
  BY <1>1, <1>2 DEF SystemNext

LEMMA SystemParts == SystemSpec => Spec /\ BeatSpec
<1>1. SystemInit => Init /\ BeatInit
  BY DEF SystemInit
<1>2. [SystemNext]_systemVars => [Next]_vars /\ [BeatNext]_beatVars
  BY SystemStep DEF systemVars
<1> QED
  BY <1>1, <1>2, PTL DEF SystemSpec, Spec, BeatSpec

(* What holds of each part by itself holds of it in the system.            *)
THEOREM PartsKeepTheirPromises ==
    ASSUME Skew < TTL
    PROVE  SystemSpec
             => [](VerdictIsDeserved /\ OutageIsShort /\ SilenceIsNoticed)
BY SystemParts, VerdictsAreDeserved, OutagesAreShort, SilenceEnds, PTL

(* The two invariants, and that the API sees the key as it is.             *)
SystemInv == HealthInv /\ HeartbeatInv /\ beating = WorkerRunning

LEMMA AlwaysSystemInv == SystemSpec => []SystemInv
<1>1. SystemInit => SystemInv
  BY HealthInit, HeartbeatInit DEF SystemInit, SystemInv
<1>2. SystemInv /\ [SystemNext]_systemVars => SystemInv'
  <2> SUFFICES ASSUME SystemInv, [SystemNext]_systemVars PROVE SystemInv'
    OBVIOUS
  <2>1. [Next]_vars /\ [BeatNext]_beatVars
    BY SystemStep DEF systemVars
  <2>2. HealthInv' /\ HeartbeatInv'
    BY <2>1, HealthNext, HeartbeatNext DEF SystemInv
  <2>3. beating' = WorkerRunning'
    <3>1. beating \in BOOLEAN /\ WorkerRunning \in BOOLEAN
      BY DEF SystemInv, HealthInv, TypeOK, WorkerRunning, Fresh
    <3>2. WorkerRunning' \in BOOLEAN
      BY DEF WorkerRunning, Fresh
    <3>3. CASE WorkersStep
      BY <3>1, <3>2, <3>3 DEF WorkersStep, SystemInv, HeartbeatChanges, vars
    <3>4. CASE ApiStep
      <4>1. beating' = beating
        BY <3>4 DEF ApiStep, ProbeNext, GetHealth, Step, CheckDatabase,
                    CheckRedis, GetQueueCounts, Joined, CheckWorkerRunning,
                    DatabaseChanges, RedisDrops, RedisReconnects, Quit, world
      <4> QED
        BY <3>4, <4>1 DEF ApiStep, beatVars, SystemInv, WorkerRunning
    <3>5. CASE UNCHANGED systemVars
      BY <3>5 DEF systemVars, vars, beatVars, SystemInv, WorkerRunning
    <3> QED
      BY <3>3, <3>4, <3>5 DEF SystemNext
  <2> QED
    BY <2>2, <2>3 DEF SystemInv
<1> QED
  BY <1>1, <1>2, PTL DEF SystemSpec

(* Only the last probe of a request makes its answer "ok".                 *)
LEMMA OkReadsTheKey ==
    ASSUME SystemInv, [SystemNext]_systemVars, NEW r \in Requests,
           probe[r].status = "none", probe'[r].status = "ok"
    PROVE  beating
<1>1. DOMAIN probe = Requests /\ \A q \in Requests : probe[q] \in Probe
  BY DEF SystemInv, HealthInv, TypeOK
<1>2. probe'[r] # probe[r]
  OBVIOUS
<1>3. PICK q \in Requests : GetHealth(q) \/ Step(q)
  BY <1>2 DEF SystemNext, WorkersStep, ApiStep, ProbeNext, HeartbeatChanges,
              DatabaseChanges, RedisDrops, RedisReconnects, Quit, Witness,
              systemVars, vars
<1>4. probe[q] \in Probe /\ (q # r => probe'[r] = probe[r])
  BY <1>3 DEF SystemInv, HealthInv, TypeOK, GetHealth, Step, CheckDatabase,
              CheckRedis, GetQueueCounts, Joined, CheckWorkerRunning, Answer
<1>5. q = r
  BY <1>2, <1>4
<1>6. CASE GetHealth(r) \/ CheckDatabase(r) \/ CheckRedis(r)
             \/ GetQueueCounts(r)
  <2>1. probe'[r].status = probe[r].status
    BY <1>1, <1>6 DEF GetHealth, CheckDatabase, CheckRedis, GetQueueCounts,
                      Probe
  <2> QED
    BY <2>1
<1>7. CASE Joined(r)
  BY <1>1, <1>7 DEF Joined, Answer, ResolveStatus, Probe
<1>8. CASE CheckWorkerRunning(r)
  BY <1>1, <1>8 DEF CheckWorkerRunning, Answer, ResolveStatus, Probe
<1> QED
  BY <1>3, <1>5, <1>6, <1>7, <1>8 DEF Step

(* A worker is up, or was less than a ttl ago, at the very moment at which *)
(* a request is answered "ok": of all that getHealth reads, the key is     *)
(* read last, and it expires no later than a ttl after the last worker.    *)
THEOREM OkAnswersAreCurrent == SystemSpec => OkIsCurrent
<1>1. ASSUME SystemInv, [SystemNext]_systemVars
      PROVE  [\A r \in Requests :
                probe[r].status = "none" /\ probe'[r].status = "ok"
                  => silent < TTL]_probe
  <2> SUFFICES ASSUME NEW r \in Requests,
                      probe[r].status = "none", probe'[r].status = "ok"
               PROVE  silent < TTL
    OBVIOUS
  <2>1. keyAge < TTL
    BY <1>1, OkReadsTheKey DEF SystemInv, WorkerRunning, Fresh
  <2> QED
    BY <1>1, <2>1, TTLAssumption, IntervalAssumption
    DEF SystemInv, HeartbeatInv, BeatTypeOK, KeyInv
<1> QED
  BY <1>1, AlwaysSystemInv, PTL DEF SystemSpec, OkIsCurrent

=============================================================================
