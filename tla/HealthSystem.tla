---------------------------- MODULE HealthSystem ----------------------------
(***************************************************************************)
(* The health endpoint and the workers it reports on: HealthProbe in the   *)
(* API process reads, between its other probes, the key that the processes *)
(* of WorkerHeartbeat write, delete and leave to expire.                   *)
(***************************************************************************)
EXTENDS HealthProbe, WorkerHeartbeat

systemVars == <<vars, beatVars>>

(* The key is the one thing that the two share.                            *)
SystemInit ==
    /\ Init /\ BeatInit
    /\ beating = WorkerRunning

-----------------------------------------------------------------------------
(* A worker's step, or the passing of time, is seen by the API if the key  *)
(* comes, goes or expires.                                                 *)
WorkersStep ==
    /\ BeatNext
    /\ IF WorkerRunning' = WorkerRunning THEN UNCHANGED vars
       ELSE HeartbeatChanges

ApiStep ==
    /\ ProbeNext
    /\ UNCHANGED beatVars

SystemNext == WorkersStep \/ ApiStep

SystemSpec ==
    SystemInit /\ [][SystemNext]_systemVars /\ ProbeFairness

-----------------------------------------------------------------------------

(* A request is answered "ok" at a moment when a worker is up, or was less *)
(* than a ttl ago, however long its other probes took and whatever workers *)
(* did meanwhile.                                                          *)
OkIsCurrent ==
    [][\A r \in Requests :
         probe[r].status = "none" /\ probe'[r].status = "ok" => silent < TTL]_probe

=============================================================================
