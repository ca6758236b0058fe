--------------------------- MODULE ShutdownManager ---------------------------
(***************************************************************************)
(* Draining Envoy before its pod stops (cmd/contour/shutdownmanager.go).   *)
(*                                                                         *)
(* When a pod is terminated the kubelet runs the preStop hooks of its      *)
(* containers concurrently: `contour envoy shutdown` in one, which fails   *)
(* Envoy's health check, polls its open connections and leaves a file; a   *)
(* request to /shutdown from the other, which waits for that file.  Envoy  *)
(* is stopped once its own hook returns, or when the grace period ends.    *)
(***************************************************************************)
EXTENDS Integers, FiniteSetsExt

CONSTANTS
  Listeners,           \* Envoy's listeners
  Uncounted,           \* those of them whose connections do not count: admin, stats, health
  minOpenConnections,
  MaxConnections,      \* bound on open connections per listener
  MaxOpened            \* bound on connections opened after termination began

\* wait.Backoff.Steps
Steps == 4

VARIABLES
  connections,   \* open connections, by listener
  opened,        \* connections opened since termination began
  failing,       \* Envoy was told to fail its health check
  process,       \* Envoy: "running", "stopped" by its hook returning, "killed"
  shutdown,      \* the shutdown command: "idle", "failing", "polling", "done"
  attempts,      \* attempts to fail the health check
  readyFile,     \* the file exists
  request,       \* the request to /shutdown: "none", "waiting", "answered", "cancelled"
  drained        \* a poll found few enough open connections (history)

drainVars == <<connections, opened, failing, process, shutdown, attempts, readyFile, request, drained>>

DrainInit ==
  /\ connections \in [Listeners -> 0..MaxConnections]
  /\ opened = 0
  /\ failing = FALSE
  /\ process = "running"
  /\ shutdown = "idle"
  /\ attempts = 0
  /\ readyFile = FALSE
  /\ request = "none"
  /\ drained = FALSE

-----------------------------------------------------------------------------
(* Envoy and its clients, and the kubelet.                                 *)

\* Failing the health check turns away load balancers, not connections.
Open(l) ==
  /\ process = "running" /\ connections[l] < MaxConnections /\ opened < MaxOpened
  /\ connections' = [connections EXCEPT ![l] = @ + 1]
  /\ opened' = opened + 1
  /\ UNCHANGED <<failing, process, shutdown, attempts, readyFile, request, drained>>

Close(l) ==
  /\ process = "running" /\ connections[l] > 0
  /\ connections' = [connections EXCEPT ![l] = @ - 1]
  /\ UNCHANGED <<opened, failing, process, shutdown, attempts, readyFile, request, drained>>

RunPreStopShutdown ==
  /\ shutdown = "idle"
  /\ shutdown' = "failing"
  /\ UNCHANGED <<connections, opened, failing, process, attempts, readyFile, request, drained>>

RunPreStopEnvoy ==
  /\ request = "none"
  /\ request' = "waiting"
  /\ UNCHANGED <<connections, opened, failing, process, shutdown, attempts, readyFile, drained>>

StopEnvoy ==
  /\ request = "answered" /\ process = "running"
  /\ process' = "stopped"
  /\ UNCHANGED <<connections, opened, failing, shutdown, attempts, readyFile, request, drained>>

\* The grace period ends: the containers are killed and the request with them.
Kill ==
  /\ shutdown # "idle" /\ process = "running"
  /\ process' = "killed"
  /\ request' = IF request = "waiting" THEN "cancelled" ELSE request
  /\ shutdown' = "done"
  /\ UNCHANGED <<connections, opened, failing, attempts, readyFile, drained>>

-----------------------------------------------------------------------------
(* contour envoy shutdown                                                  *)

shutdownEnvoyOk ==
  /\ shutdown = "failing" /\ process = "running"
  /\ failing' = TRUE
  /\ attempts' = attempts + 1
  /\ shutdown' = "polling"
  /\ UNCHANGED <<connections, opened, process, readyFile, request, drained>>

givesUp(n) == n >= Steps

\* After the last attempt the error is logged and the command goes on.
shutdownEnvoyError ==
  /\ shutdown = "failing"
  /\ attempts' = attempts + 1
  /\ shutdown' = IF givesUp(attempts') THEN "polling" ELSE "failing"
  /\ UNCHANGED <<connections, opened, failing, process, readyFile, request, drained>>

parseOpenConnections_All == MapThenSumSet(LAMBDA l : connections[l], Listeners)

parseOpenConnections == MapThenSumSet(LAMBDA l : connections[l], Listeners \ Uncounted)

fewEnough_ErrorIgnored(poll) == poll.open <= minOpenConnections

\* A poll that failed has a count of -1 that must not be compared.
fewEnough(poll) == ~poll.err /\ poll.open <= minOpenConnections

\* The command returns whether or not the file could be created.
Poll(poll) ==
  /\ shutdown = "polling"
  /\ shutdown' = IF fewEnough(poll) THEN "done" ELSE "polling"
  /\ readyFile' \in IF fewEnough(poll) THEN BOOLEAN ELSE {readyFile}
  /\ drained' = (drained \/ (~poll.err /\ parseOpenConnections <= minOpenConnections))
  /\ UNCHANGED <<connections, opened, failing, process, attempts, request>>

getOpenConnectionsOk == process = "running" /\ Poll([err |-> FALSE, open |-> parseOpenConnections])

getOpenConnectionsError == Poll([err |-> TRUE, open |-> -1])

-----------------------------------------------------------------------------
(* shutdownReadyHandler: looks for the file at every interval.             *)

shutdownReadyHandler ==
  /\ request = "waiting" /\ readyFile
  /\ request' = "answered"
  /\ UNCHANGED <<connections, opened, failing, process, shutdown, attempts, readyFile, drained>>

DrainNext ==
  \/ \E l \in Listeners : Open(l) \/ Close(l)
  \/ RunPreStopShutdown \/ RunPreStopEnvoy \/ StopEnvoy \/ Kill
  \/ shutdownEnvoyOk \/ shutdownEnvoyError
  \/ getOpenConnectionsOk \/ getOpenConnectionsError
  \/ shutdownReadyHandler

DrainSpec == DrainInit /\ [][DrainNext]_drainVars

\* Clients of counted listeners go away in the end; those of the admin, stats
\* and health listeners need not.  The admin socket answers now and then.
DrainFairness ==
  /\ \A l \in Listeners \ Uncounted : WF_drainVars(Close(l))
  /\ WF_drainVars(RunPreStopShutdown) /\ WF_drainVars(RunPreStopEnvoy) /\ WF_drainVars(StopEnvoy)
  /\ WF_drainVars(shutdownEnvoyOk)
  /\ SF_drainVars(getOpenConnectionsOk /\ shutdown' = "done")
  /\ WF_drainVars(shutdownReadyHandler)

FairDrainSpec == DrainSpec /\ DrainFairness

-----------------------------------------------------------------------------
\* Short of the grace period ending, Envoy is stopped only after a poll that
\* found no more than minOpenConnections open, whatever the polls that failed.
StoppedOnlyDrained == process = "stopped" => drained

\* Envoy is stopped in the end without help of the grace period: connections
\* that do not count do not hold it up, nor do connections opened meanwhile.
\* Only a file that could not be created does: that error is logged, the
\* command returns, and the request waits for the file until the pod is killed.
EnvoyStops == <>(process # "running" \/ (shutdown = "done" /\ ~readyFile))
=============================================================================
