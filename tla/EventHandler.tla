---------------------------- MODULE EventHandler ----------------------------
(***************************************************************************)
(* The event handler of Contour (internal/contour/handler.go): informer    *)
(* goroutines hand their notifications to one loop over an unbuffered      *)
(* channel; the loop applies them to the KubernetesCache, batches them     *)
(* behind a holdoff timer and rebuilds the DAG when the timer fires.  A    *)
(* rebuild is published to the observers and its status updates are handed *)
(* to the status writer (internal/k8s/status.go), which drops them unless  *)
(* this process leads.  The xDS server (cmd/contour/serve.go) starts once  *)
(* the loop has seen every informer's initial list.                        *)
(*                                                                         *)
(* An object is abstracted to one version number per kind: the number of   *)
(* the change that made it, negated when that change deleted it, 0 when    *)
(* there never was one.                                                    *)
(* Which changes of an object matter to a DAG is the business of module    *)
(* KubernetesCache; here the kinds in Ignored stand for objects that no    *)
(* cached object refers to.  Left out: the non-blocking send of a sequence *)
(* number (incSequence), which only the feature tests receive, and the     *)
(* return of the loop when its context is cancelled.                       *)
(***************************************************************************)
EXTENDS Integers, Sequences

CONSTANTS
  Kinds,            \* the kinds of resource Contour watches, one informer each
  Ignored,          \* kinds whose objects the cache answers FALSE for
  MaxChanges,       \* bound on the changes made through the API server
  HoldoffDelay,     \* EventHandlerConfig.HoldoffDelay, in clock ticks
  HoldoffMaxDelay,  \* EventHandlerConfig.HoldoffMaxDelay, in clock ticks
  StatusCap,        \* capacity of StatusUpdateHandler.updateChannel
  NoOp              \* an informer goroutine that is not inside a handler call

ASSUME HoldoffAssumption == HoldoffDelay \in Nat /\ HoldoffMaxDelay \in Nat
ASSUME ChangesAssumption == MaxChanges \in Nat
ASSUME KindsAssumption == Ignored \subseteq Kinds
ASSUME StatusCapAssumption == StatusCap \in Nat \ {0}

VARIABLES
  api,             \* the API server: version of each kind's object
  changes,         \* number of changes made so far; also the newest version
  listed,          \* informer k has performed its initial list
  queue,           \* notifications of informer k that no handler call has taken
  blocked,         \* the op informer k's goroutine is sending on e.update
  syncCount,       \* the counter of e.syncTracker
  cache,           \* KubernetesCache, by kind
  dag,             \* what the last DAG given to the observers was built from
  dagBuilt,        \* a DAG has been built
  timer,           \* ticks until the holdoff timer fires, 0 fired, -1 not pending
  outstanding,     \* events not yet included in a rebuild
  since,           \* ticks since lastDAGRebuild, saturating at SinceCap
  pc,              \* the loop waits in its select, or is sending status updates
  toSend,          \* kinds whose status updates this rebuild still has to send
  initialDagBuilt, \* the flag HasBuiltInitialDag reads
  xdsServing,      \* the xDS server has left its wait loop
  elected,         \* this process has been elected leader
  notifying,       \* the notifier goroutine is inside OnElectedLeader
  sendUpdates,     \* StatusUpdateHandler.Start has closed sendUpdates
  updateChannel,   \* StatusUpdateHandler.updateChannel
  status,          \* version last written to the status of each kind's object
  staleFor         \* history: ticks a synced cache has been ahead of dag, saturating too

informerVars == <<api, changes, listed, queue>>
handoffVars  == <<blocked, syncCount>>
buildVars    == <<cache, dag, dagBuilt, pc, toSend>>
timerVars    == <<timer, outstanding, since>>
xdsVars      == <<initialDagBuilt, xdsServing>>
leaderVars   == <<elected, notifying, sendUpdates>>
statusVars   == <<updateChannel, status>>
vars == <<informerVars, handoffVars, buildVars, timerVars, xdsVars, leaderVars, statusVars,
          staleFor>>

Versions == -(MaxChanges + 1) .. MaxChanges + 1
Used     == Kinds \ Ignored
SinceCap == HoldoffMaxDelay + HoldoffDelay + 1

Op == [type : {"add", "update", "delete"}, old : Versions, new : Versions,
       initial : BOOLEAN]

StatusUpdate == [kind : Used, version : Versions]

\* What a DAG built from cache c depends on.
View(c) == [k \in Used |-> c[k]]

-----------------------------------------------------------------------------
(* The API server and the informers (client-go, external).                 *)

Enqueue(k, op) == queue' = [queue EXCEPT ![k] = Append(@, op)]

\* A create, a change that matters, a change IsObjectEqual ignores, or a
\* delete.  Versions are never reused.
ApiChange(k) ==
  /\ changes < MaxChanges
  /\ changes' = changes + 1
  /\ \E new \in {-(changes + 2), api[k], changes + 2} :
       /\ api[k] <= 0 => new > 0
       /\ api' = [api EXCEPT ![k] = new]
       /\ IF listed[k]
            THEN Enqueue(k, [type |-> CASE api[k] <= 0 -> "add"
                                        [] new < 0     -> "delete"
                                        [] OTHER       -> "update",
                             old |-> api[k], new |-> new, initial |-> FALSE])
            ELSE UNCHANGED queue
  /\ UNCHANGED <<listed, handoffVars, buildVars, timerVars, xdsVars, leaderVars,
                 statusVars, staleFor>>

InitialList(k) ==
  /\ ~listed[k]
  /\ listed' = [listed EXCEPT ![k] = TRUE]
  /\ IF api[k] <= 0
       THEN UNCHANGED queue
       ELSE Enqueue(k, [type |-> "add", old |-> 0, new |-> api[k], initial |-> TRUE])
  /\ UNCHANGED <<api, changes, handoffVars, buildVars, timerVars, xdsVars,
                 leaderVars, statusVars, staleFor>>

\* ResourceEventHandlerRegistration.HasSynced of informer k: every object of
\* the initial list has been handed over, that is, its OnAdd has returned.
RegistrationHasSynced(k) ==
  /\ listed[k]
  /\ \A i \in DOMAIN queue[k] : ~queue[k][i].initial
  /\ blocked[k] # NoOp => ~blocked[k].initial

UpstreamHasSynced == \A k \in Kinds : RegistrationHasSynced(k)

\* SingleFileTracker.HasSynced.
HasSynced == UpstreamHasSynced /\ syncCount <= 0

-----------------------------------------------------------------------------
(* Handler calls, on the goroutine of the informer.                        *)

\* OnAdd, OnUpdate and OnDelete up to their send on e.update, which blocks
\* until the loop receives.
OnEvent(k) ==
  /\ blocked[k] = NoOp
  /\ queue[k] # <<>>
  /\ queue' = [queue EXCEPT ![k] = Tail(@)]
  /\ blocked' = [blocked EXCEPT ![k] = Head(queue[k])]
  /\ syncCount' = IF Head(queue[k]).initial THEN syncCount + 1 ELSE syncCount
  /\ UNCHANGED <<api, changes, listed, buildVars, timerVars, xdsVars, leaderVars,
                 statusVars, staleFor>>

-----------------------------------------------------------------------------
(* The loop of Start.                                                      *)

Skipped_EveryUpdate(op) == op.type = "update"

\* An update whose relevant fields are unchanged is skipped (IsObjectEqual).
Skipped(op) == op.type = "update" /\ op.old = op.new

CacheAfter(k, op) == IF Skipped(op) THEN cache ELSE [cache EXCEPT ![k] = op.new]

\* onUpdate: whether the event changed the cache in a way a DAG depends on.
onUpdate(k, op) == ~Skipped(op) /\ k \notin Ignored

delay_NoMaximum == HoldoffDelay

delay == IF since > HoldoffMaxDelay THEN 0 ELSE HoldoffDelay

Reschedule ==
  /\ outstanding' = outstanding + 1
  /\ timer' = delay

\* We're done processing this event: e.syncTracker.Finished().
Finished(k, op) == syncCount' = IF op.initial THEN syncCount - 1 ELSE syncCount

\* case op := <-e.update, with op sent by informer k.
HandleOp(k) ==
  /\ pc = "select"
  /\ blocked[k] # NoOp
  /\ blocked' = [blocked EXCEPT ![k] = NoOp]
  /\ cache' = CacheAfter(k, blocked[k])
  /\ IF onUpdate(k, blocked[k])
       THEN Reschedule
       ELSE UNCHANGED <<outstanding, timer>>
  /\ Finished(k, blocked[k])
  /\ UNCHANGED <<informerVars, dag, dagBuilt, pc, toSend, since, xdsVars,
                 leaderVars, statusVars, staleFor>>

\* case op := <-e.update, with op = true sent by OnElectedLeader.
HandleElected ==
  /\ pc = "select"
  /\ notifying
  /\ notifying' = FALSE
  /\ Reschedule
  /\ UNCHANGED <<informerVars, handoffVars, buildVars, since, xdsVars, elected,
                 sendUpdates, statusVars, staleFor>>

\* case <-pending, informer caches not synced: try again after the holdoff.
SkipRebuild ==
  /\ pc = "select"
  /\ timer = 0
  /\ ~HasSynced
  /\ timer' = HoldoffDelay
  /\ UNCHANGED <<informerVars, handoffVars, buildVars, outstanding, since, xdsVars,
                 leaderVars, statusVars, staleFor>>

\* Ensure informer caches are synced.
RebuildAllowed == HasSynced

\* case <-pending: build a DAG, give it to the observers, and start sending
\* the status updates it computed for the objects it was built from.
Rebuild ==
  /\ pc = "select"
  /\ timer = 0
  /\ RebuildAllowed
  /\ timer' = -1
  /\ outstanding' = 0
  /\ dag' = View(cache)
  /\ dagBuilt' = TRUE
  /\ toSend' = {k \in Used : cache[k] > 0}
  /\ pc' = "send"
  /\ staleFor' = 0
  /\ UNCHANGED <<informerVars, handoffVars, cache, since, xdsVars, leaderVars,
                 statusVars>>

\* updateChannel <- upd, which blocks while the buffer is full.
SendOnChannel(upd) ==
  /\ Len(updateChannel) < StatusCap
  /\ updateChannel' = Append(updateChannel, upd)

\* StatusUpdateWriter.Send: dropped unless the handler has been started.
writerSend(upd) == IF sendUpdates THEN SendOnChannel(upd) ELSE UNCHANGED updateChannel

\* One iteration of the loop over GetStatusUpdates; a map, so in any order.
Send(k) ==
  /\ pc = "send"
  /\ k \in toSend
  /\ toSend' = toSend \ {k}
  /\ writerSend([kind |-> k, version |-> dag[k]])
  /\ UNCHANGED <<informerVars, handoffVars, cache, dag, dagBuilt, pc, timerVars,
                 xdsVars, leaderVars, status, staleFor>>

RebuildDone ==
  /\ pc = "send"
  /\ toSend = {}
  /\ since' = 0
  /\ pc' = "select"
  /\ UNCHANGED <<informerVars, handoffVars, cache, dag, dagBuilt, toSend, timer,
                 outstanding, xdsVars, leaderVars, statusVars, staleFor>>

\* The condition of the poll.
PollAllows == HasSynced

\* case <-initialSyncPoll.  A tick that finds the caches not synced changes
\* nothing; after one that finds them synced the ticker is stopped.
InitialSyncPoll ==
  /\ pc = "select"
  /\ ~initialDagBuilt
  /\ PollAllows
  /\ initialDagBuilt' = TRUE
  /\ UNCHANGED <<informerVars, handoffVars, buildVars, timerVars, xdsServing,
                 leaderVars, statusVars, staleFor>>

-----------------------------------------------------------------------------
(* The other goroutines.                                                   *)

\* xdsServer.Start returns from its poll of HasBuiltInitialDag.
XdsServerStart ==
  /\ initialDagBuilt
  /\ ~xdsServing
  /\ xdsServing' = TRUE
  /\ UNCHANGED <<informerVars, handoffVars, buildVars, timerVars, initialDagBuilt,
                 leaderVars, statusVars, staleFor>>

\* The manager starts the leader-election runnables: the notifier enters
\* OnElectedLeader, the status update handler is started on its own goroutine.
BecomeLeader ==
  /\ ~elected
  /\ elected' = TRUE
  /\ notifying' = TRUE
  /\ UNCHANGED <<informerVars, handoffVars, buildVars, timerVars, xdsVars,
                 sendUpdates, statusVars, staleFor>>

StatusUpdateHandlerStart ==
  /\ elected
  /\ ~sendUpdates
  /\ sendUpdates' = TRUE
  /\ UNCHANGED <<informerVars, handoffVars, buildVars, timerVars, xdsVars, elected,
                 notifying, statusVars, staleFor>>

StatusApply_NewestFirst ==
  /\ sendUpdates
  /\ updateChannel # <<>>
  /\ updateChannel' = SubSeq(updateChannel, 1, Len(updateChannel) - 1)
  /\ LET upd == updateChannel[Len(updateChannel)]
     IN  status' = [status EXCEPT ![upd.kind] = upd.version]
  /\ UNCHANGED <<informerVars, handoffVars, buildVars, timerVars, xdsVars,
                 leaderVars, staleFor>>

\* One iteration of StatusUpdateHandler.Start's loop; module StatusUpdates has
\* the steps of apply.
StatusApply ==
  /\ sendUpdates
  /\ updateChannel # <<>>
  /\ updateChannel' = Tail(updateChannel)
  /\ status' = [status EXCEPT ![Head(updateChannel).kind] = Head(updateChannel).version]
  /\ UNCHANGED <<informerVars, handoffVars, buildVars, timerVars, xdsVars,
                 leaderVars, staleFor>>

StaleForNext == IF staleFor < SinceCap THEN staleFor + 1 ELSE staleFor

\* The clock.  It does not pass a fired timer the loop is free to take: a
\* runnable goroutine is assumed to run within a tick.
Tick ==
  /\ ~(pc = "select" /\ timer = 0)
  /\ timer' = IF timer > 0 THEN timer - 1 ELSE timer
  /\ since' = IF since < SinceCap THEN since + 1 ELSE since
  /\ staleFor' = IF HasSynced /\ dag # View(cache) THEN StaleForNext ELSE 0
  /\ UNCHANGED <<informerVars, handoffVars, buildVars, outstanding, xdsVars,
                 leaderVars, statusVars>>

-----------------------------------------------------------------------------

Init ==
  /\ api \in [Kinds -> {0, 1}]
  /\ changes = 0
  /\ listed = [k \in Kinds |-> FALSE]
  /\ queue = [k \in Kinds |-> <<>>]
  /\ blocked = [k \in Kinds |-> NoOp]
  /\ syncCount = 0
  /\ cache = [k \in Kinds |-> 0]
  /\ dag = [k \in Used |-> 0]
  /\ dagBuilt = FALSE
  /\ timer = -1
  /\ outstanding = 0
  /\ since = 0
  /\ pc = "select"
  /\ toSend = {}
  /\ initialDagBuilt = FALSE
  /\ xdsServing = FALSE
  /\ elected = FALSE
  /\ notifying = FALSE
  /\ sendUpdates = FALSE
  /\ updateChannel = <<>>
  /\ status = [k \in Used |-> 0]
  /\ staleFor = 0

Next ==
  \/ \E k \in Kinds : ApiChange(k) \/ InitialList(k) \/ OnEvent(k) \/ HandleOp(k)
  \/ HandleElected
  \/ SkipRebuild
  \/ Rebuild
  \/ \E k \in Used : Send(k)
  \/ RebuildDone
  \/ InitialSyncPoll
  \/ XdsServerStart
  \/ BecomeLeader
  \/ StatusUpdateHandlerStart
  \/ StatusApply
  \/ Tick

Spec == Init /\ [][Next]_vars

\* Go's select picks uniformly among its ready cases and a channel serves its
\* senders in order, so a case that keeps becoming ready is eventually taken
\* (strong fairness); every other goroutine is only assumed to keep running.
Fairness ==
  /\ \A k \in Kinds : WF_vars(InitialList(k)) /\ WF_vars(OnEvent(k)) /\ SF_vars(HandleOp(k))
  /\ SF_vars(HandleElected)
  /\ WF_vars(SkipRebuild)
  /\ SF_vars(Rebuild)
  /\ \A k \in Used : WF_vars(Send(k))
  /\ WF_vars(RebuildDone)
  /\ SF_vars(InitialSyncPoll)
  /\ WF_vars(XdsServerStart)
  /\ WF_vars(StatusUpdateHandlerStart)
  /\ WF_vars(StatusApply)
  /\ WF_vars(Tick)

FairSpec == Spec /\ Fairness

-----------------------------------------------------------------------------
(* Properties.                                                             *)

TypeOK ==
  /\ api \in [Kinds -> Versions]
  /\ changes \in 0 .. MaxChanges
  /\ listed \in [Kinds -> BOOLEAN]
  /\ queue \in [Kinds -> Seq(Op)]
  /\ blocked \in [Kinds -> Op \cup {NoOp}]
  /\ syncCount \in Int
  /\ cache \in [Kinds -> Versions]
  /\ dag \in [Used -> Versions]
  /\ dagBuilt \in BOOLEAN
  /\ timer \in -1 .. HoldoffDelay
  /\ outstanding \in Nat
  /\ since \in 0 .. SinceCap
  /\ pc \in {"select", "send"}
  /\ toSend \subseteq Used
  /\ initialDagBuilt \in BOOLEAN
  /\ xdsServing \in BOOLEAN
  /\ elected \in BOOLEAN
  /\ notifying \in BOOLEAN
  /\ sendUpdates \in BOOLEAN
  /\ updateChannel \in Seq(StatusUpdate)
  /\ Len(updateChannel) <= StatusCap
  /\ status \in [Used -> Versions]
  /\ staleFor \in 0 .. SinceCap

\* No change is forgotten: whenever the cache holds something the published
\* DAG does not reflect, the loop is back in its select with the holdoff timer
\* pending.  Start stops, replaces and resets one timer in three places and
\* skips rebuilds before the caches are synced.
RebuildScheduled == dag # View(cache) => pc = "select" /\ timer >= 0

\* No DAG is built from a partial view of the cluster, and none is served: a
\* DAG given to the observers was built after every object of every initial
\* list was applied, and the xDS server does not start "until the existing
\* state of the cluster is synced" (CHANGELOG-v1.28.0).
BuiltAfterSync == dagBuilt \/ xdsServing => HasSynced

\* The holdoff batches changes but cannot be extended for ever by a stream of
\* them: a synced cache is ahead of the DAG for at most HoldoffMaxDelay and one
\* more HoldoffDelay.
BoundedStaleness == staleFor <= HoldoffMaxDelay + HoldoffDelay

\* Once changes stop, the published DAG is that of the API server's objects.
Convergence == <>[](\A k \in Used : dag[k] = api[k] \/ (dag[k] <= 0 /\ api[k] <= 0))

CL == INSTANCE ControlLoop WITH Kinds <- Used, api <- View(api)

\* The event handler implements ControlLoop: through informer queues, hand-off,
\* holdoff, rebuilds and the status update channel, the DAG and the statuses
\* follow the API server's objects without ever going back to an older version,
\* or to an object that was deleted since.
ImplementsControlLoop == CL!Spec
=============================================================================
