------------------------- MODULE EventHandlerProofs -------------------------
(***************************************************************************)
(* Proofs about module EventHandler, for every set of kinds, every holdoff *)
(* configuration and every number of changes.                              *)
(***************************************************************************)
EXTENDS EventHandler, TLAPS

USE HoldoffAssumption, ChangesAssumption, KindsAssumption, StatusCapAssumption

\* A receive from a channel or queue: the first element is received and the
\* others move up by one.
LEMMA ReceiveStep ==
  ASSUME NEW S, NEW q \in Seq(S), q # <<>>
  PROVE  /\ Head(q) \in S /\ 1 \in DOMAIN q /\ Head(q) = q[1]
         /\ Tail(q) \in Seq(S) /\ Len(Tail(q)) = Len(q) - 1
         /\ \A i \in DOMAIN Tail(q) : i + 1 \in DOMAIN q /\ Tail(q)[i] = q[i + 1]
<1>1. Head(q) \in S /\ Tail(q) \in Seq(S) /\ Len(q) > 0 /\ Head(q) = q[1]
  OBVIOUS
<1>2. Len(Tail(q)) = Len(q) - 1 /\ DOMAIN Tail(q) = 1 .. Len(q) - 1
  OBVIOUS
<1>3. ASSUME NEW i \in DOMAIN Tail(q) PROVE i + 1 \in DOMAIN q /\ Tail(q)[i] = q[i + 1]
  BY <1>1, <1>2
<1>. QED  BY <1>1, <1>2, <1>3

\* A send: the element is added at the end, the others keep their place.
LEMMA SendStep ==
  ASSUME NEW S, NEW q \in Seq(S), NEW x \in S
  PROVE  /\ Append(q, x) \in Seq(S) /\ Len(Append(q, x)) = Len(q) + 1
         /\ \A i \in DOMAIN Append(q, x) :
              (i \in DOMAIN q /\ Append(q, x)[i] = q[i]) \/ Append(q, x)[i] = x
<1>1. Append(q, x) \in Seq(S) /\ Len(Append(q, x)) = Len(q) + 1
  OBVIOUS
<1>2. ASSUME NEW i \in DOMAIN Append(q, x)
      PROVE  (i \in DOMAIN q /\ Append(q, x)[i] = q[i]) \/ Append(q, x)[i] = x
  BY <1>1
<1>. QED  BY Zenon, <1>1, <1>2

\* Every action of the event handler keeps every variable in its type; in
\* particular the holdoff timer never exceeds HoldoffDelay and the status
\* update channel never exceeds its capacity.
THEOREM TypeCorrect == Spec => []TypeOK
<1>1. Init => TypeOK
  <2>. SUFFICES ASSUME Init PROVE TypeOK
    BY Zenon
  <2>1. 0 \in Versions /\ 1 \in Versions /\ 0 \in 0 .. SinceCap /\ -1 \in -1 .. HoldoffDelay
    BY DEF Versions, SinceCap
  <2>2. queue \in [Kinds -> Seq(Op)] /\ blocked \in [Kinds -> Op \cup {NoOp}]
    BY DEF Init
  <2>3. /\ updateChannel \in Seq(StatusUpdate)
        /\ Len(updateChannel) <= StatusCap
    BY DEF Init
  <2>4. api \in [Kinds -> Versions] /\ cache \in [Kinds -> Versions]
    BY Zenon, <2>1 DEF Init
  <2>5. dag \in [Used -> Versions] /\ status \in [Used -> Versions] /\ toSend \subseteq Used
    BY Zenon, <2>1 DEF Init
  <2>6. /\ changes \in 0 .. MaxChanges /\ syncCount \in Int /\ timer \in -1 .. HoldoffDelay
        /\ outstanding \in Nat /\ since \in 0 .. SinceCap /\ staleFor \in 0 .. SinceCap
    BY <2>1 DEF Init
  <2>7. /\ listed \in [Kinds -> BOOLEAN] /\ dagBuilt \in BOOLEAN /\ pc \in {"select", "send"}
        /\ initialDagBuilt \in BOOLEAN /\ xdsServing \in BOOLEAN /\ elected \in BOOLEAN
        /\ notifying \in BOOLEAN /\ sendUpdates \in BOOLEAN
    BY Zenon DEF Init
  <2>. QED  BY Zenon, <2>2, <2>3, <2>4, <2>5, <2>6, <2>7 DEF TypeOK
<1>2. TypeOK /\ [Next]_vars => TypeOK'
  <2>. SUFFICES ASSUME TypeOK, [Next]_vars PROVE TypeOK'
    BY Zenon
  <2>a. /\ api \in [Kinds -> Versions] /\ changes \in 0 .. MaxChanges
        /\ queue \in [Kinds -> Seq(Op)] /\ blocked \in [Kinds -> Op \cup {NoOp}]
        /\ syncCount \in Int /\ cache \in [Kinds -> Versions]
    BY Zenon DEF TypeOK
  <2>b. /\ timer \in -1 .. HoldoffDelay /\ outstanding \in Nat /\ since \in 0 .. SinceCap
        /\ SinceCap \in Nat
    BY DEF TypeOK, SinceCap
  <2>c. /\ updateChannel \in Seq(StatusUpdate)
        /\ Len(updateChannel) <= StatusCap
        /\ dag \in [Used -> Versions] /\ status \in [Used -> Versions]
    BY Zenon DEF TypeOK
  <2>1. ASSUME NEW k \in Kinds, ApiChange(k) PROVE TypeOK'
    <3>1. api[k] \in Versions /\ changes + 2 \in Versions /\ -(changes + 2) \in Versions
      <4>1. changes \in 0 .. MaxChanges /\ changes < MaxChanges
        BY Zenon, <2>1, <2>a DEF ApiChange
      <4>. QED  BY <2>a, <4>1 DEF Versions
    <3>2. PICK new \in Versions, t \in {"add", "update", "delete"} :
            /\ api' = [api EXCEPT ![k] = new]
            /\ IF listed[k]
                 THEN Enqueue(k, [type |-> t, old |-> api[k], new |-> new, initial |-> FALSE])
                 ELSE UNCHANGED queue
      BY <2>1, <3>1, Zenon DEF ApiChange
    <3>3. [type |-> t, old |-> api[k], new |-> new, initial |-> FALSE] \in Op
      BY Zenon, <3>1 DEF Op
    <3>4. queue' \in [Kinds -> Seq(Op)]
      <4>1. queue[k] \in Seq(Op)
        BY Zenon, <2>a
      <4>2. Append(queue[k], [type |-> t, old |-> api[k], new |-> new, initial |-> FALSE])
              \in Seq(Op)
        BY Zenon, <3>3, <4>1, SendStep
      <4>. QED  BY Zenon, <2>a, <3>2, <4>2 DEF Enqueue
    <3>5. changes' \in 0 .. MaxChanges
      BY <2>1, <2>a DEF ApiChange
    <3>. QED  BY Zenon, <2>1, <3>2, <3>4, <3>5
         DEF ApiChange, handoffVars, buildVars, timerVars, xdsVars, leaderVars, statusVars, TypeOK
  <2>2. ASSUME NEW k \in Kinds, InitialList(k) PROVE TypeOK'
    <3>1. [type |-> "add", old |-> 0, new |-> api[k], initial |-> TRUE] \in Op
      BY <2>a DEF Op, Versions
    <3>2. queue' \in [Kinds -> Seq(Op)]
      <4>1. queue[k] \in Seq(Op)
        BY Zenon, <2>a
      <4>2. Append(queue[k], [type |-> "add", old |-> 0, new |-> api[k], initial |-> TRUE])
              \in Seq(Op)
        BY Zenon, <3>1, <4>1, SendStep
      <4>. QED  BY Zenon, <2>2, <2>a, <4>2 DEF InitialList, Enqueue
    <3>. QED  BY Zenon, <2>2, <3>2
         DEF InitialList, handoffVars, buildVars, timerVars, xdsVars, leaderVars, statusVars, TypeOK
  <2>3. ASSUME NEW k \in Kinds, OnEvent(k) PROVE TypeOK'
    <3>1. Head(queue[k]) \in Op /\ Tail(queue[k]) \in Seq(Op)
      BY Zenon, <2>3, <2>a, ReceiveStep DEF OnEvent
    <3>. QED  BY <2>3, <3>1
         DEF OnEvent, buildVars, timerVars, xdsVars, leaderVars, statusVars, TypeOK
  <2>4. ASSUME NEW k \in Kinds, HandleOp(k) PROVE TypeOK'
    <3>1. blocked[k] \in Op
      BY Zenon, <2>4, <2>a DEF HandleOp
    <3>2. cache' \in [Kinds -> Versions]
      BY Zenon, <2>4, <2>a, <3>1 DEF HandleOp, CacheAfter, Op
    <3>3. timer' \in -1 .. HoldoffDelay /\ outstanding' \in Nat
      BY <2>4, <2>b DEF HandleOp, Reschedule, delay
    <3>4. syncCount' \in Int /\ blocked' \in [Kinds -> Op \cup {NoOp}]
      BY <2>4, <2>a, <3>1 DEF HandleOp, Finished
    <3>. QED  BY Zenon, <2>4, <3>2, <3>3, <3>4
         DEF HandleOp, informerVars, xdsVars, leaderVars, statusVars, TypeOK
  <2>5. CASE HandleElected
    <3>1. timer' \in -1 .. HoldoffDelay /\ outstanding' \in Nat
      BY <2>5, <2>b DEF HandleElected, Reschedule, delay
    <3>. QED  BY Zenon, <2>5, <3>1 DEF HandleElected, informerVars, handoffVars, buildVars,
                                xdsVars, statusVars, TypeOK
  <2>6. CASE SkipRebuild
    BY <2>6 DEF SkipRebuild, informerVars, handoffVars, buildVars, xdsVars, leaderVars,
                statusVars, TypeOK
  <2>7. CASE Rebuild
    <3>1. dag' \in [Used -> Versions] /\ toSend' \subseteq Used
      BY Zenon, <2>7, <2>a DEF Rebuild, View, Used
    <3>2. timer' \in -1 .. HoldoffDelay /\ staleFor' \in 0 .. SinceCap /\ outstanding' \in Nat
      BY <2>7, <2>b DEF Rebuild
    <3>. QED  BY Zenon, <2>7, <3>1, <3>2
         DEF Rebuild, informerVars, handoffVars, xdsVars, leaderVars, statusVars, TypeOK
  <2>8. ASSUME NEW k \in Used, Send(k) PROVE TypeOK'
    <3>1. [kind |-> k, version |-> dag[k]] \in StatusUpdate
      BY Zenon, <2>c DEF StatusUpdate
    <3>2. /\ updateChannel' \in Seq(StatusUpdate)
          /\ Len(updateChannel') <= StatusCap
      <4>1. CASE sendUpdates
        <5>1. /\ Len(updateChannel) < StatusCap
              /\ updateChannel' = Append(updateChannel, [kind |-> k, version |-> dag[k]])
          BY Zenon, <2>8, <4>1 DEF Send, writerSend, SendOnChannel
        <5>2. /\ Append(updateChannel, [kind |-> k, version |-> dag[k]]) \in Seq(StatusUpdate)
              /\ Len(Append(updateChannel, [kind |-> k, version |-> dag[k]]))
                   = Len(updateChannel) + 1
          BY Zenon, <2>c, <3>1, SendStep
        <5>. QED  BY <2>c, <5>1, <5>2
      <4>2. CASE ~sendUpdates
        BY Zenon, <2>8, <2>c, <4>2 DEF Send, writerSend
      <4>. QED  BY Zenon, <4>1, <4>2
    <3>. QED  BY Zenon, <2>8, <3>2
         DEF Send, informerVars, handoffVars, timerVars, xdsVars, leaderVars, TypeOK
  <2>9. CASE RebuildDone
    BY <2>9 DEF RebuildDone, SinceCap, informerVars, handoffVars, xdsVars, leaderVars,
                statusVars, TypeOK
  <2>10. CASE InitialSyncPoll
    BY Zenon, <2>10 DEF InitialSyncPoll, informerVars, handoffVars, buildVars, timerVars,
                 leaderVars, statusVars, TypeOK
  <2>11. CASE XdsServerStart
    BY Zenon, <2>11 DEF XdsServerStart, informerVars, handoffVars, buildVars, timerVars,
                 leaderVars, statusVars, TypeOK
  <2>12. CASE BecomeLeader
    BY Zenon, <2>12 DEF BecomeLeader, informerVars, handoffVars, buildVars, timerVars, xdsVars,
                 statusVars, TypeOK
  <2>13. CASE StatusUpdateHandlerStart
    BY Zenon, <2>13 DEF StatusUpdateHandlerStart, informerVars, handoffVars, buildVars, timerVars,
                 xdsVars, statusVars, TypeOK
  <2>14. CASE StatusApply
    <3>1. /\ Head(updateChannel) \in StatusUpdate
          /\ Tail(updateChannel) \in Seq(StatusUpdate)
          /\ Len(Tail(updateChannel)) <= StatusCap
      BY <2>14, <2>c, ReceiveStep DEF StatusApply
    <3>2. Head(updateChannel).kind \in Used /\ Head(updateChannel).version \in Versions
      BY Zenon, <3>1 DEF StatusUpdate
    <3>. QED  BY Zenon, <2>14, <3>1, <3>2
         DEF StatusApply, informerVars, handoffVars, buildVars, timerVars, xdsVars, leaderVars, TypeOK
  <2>15. CASE Tick
    BY <2>15 DEF Tick, StaleForNext, SinceCap, informerVars, handoffVars, buildVars, xdsVars, leaderVars,
                 statusVars, TypeOK
  <2>16. CASE UNCHANGED vars
    BY Zenon, <2>16 DEF vars, informerVars, handoffVars, buildVars, timerVars, xdsVars, leaderVars,
                 statusVars, TypeOK
  <2>. QED  BY Zenon, <2>1, <2>2, <2>3, <2>4, <2>5, <2>6, <2>7, <2>8, <2>9, <2>10, <2>11, <2>12,
               <2>13, <2>14, <2>15, <2>16 DEF Next
<1>. QED  BY <1>1, <1>2, PTL DEF Spec

\* A DAG that lags the cache always has a rebuild pending in the select of
\* Start: an event that does not reschedule leaves the view of the cache alone,
\* and a rebuild skipped before the caches are synced is rescheduled.
THEOREM NoChangeForgotten == Spec => []RebuildScheduled
<1>1. Init => RebuildScheduled
  BY Zenon DEF Init, RebuildScheduled, View, Used
<1>2. TypeOK /\ RebuildScheduled /\ [Next]_vars => RebuildScheduled'
  <2>. SUFFICES ASSUME TypeOK, RebuildScheduled, [Next]_vars PROVE RebuildScheduled'
    BY Zenon
  <2>a. timer \in -1 .. HoldoffDelay /\ since \in 0 .. SinceCap /\ SinceCap \in Nat
    BY DEF TypeOK, SinceCap
  <2>1. CASE UNCHANGED <<dag, cache, pc, timer>>
    BY Zenon, <2>1 DEF RebuildScheduled, View
  <2>2. ASSUME NEW k \in Kinds, HandleOp(k) PROVE RebuildScheduled'
    <3>1. CASE onUpdate(k, blocked[k])
      <4>1. pc' = "select" /\ timer' >= 0
        BY <2>2, <2>a, <3>1 DEF HandleOp, Reschedule, delay
      <4>. QED  BY Zenon, <4>1 DEF RebuildScheduled
    <3>2. CASE ~onUpdate(k, blocked[k])
      <4>1. View(cache') = View(cache)
        <5>1. CASE Skipped(blocked[k])
          BY Zenon, <2>2, <5>1 DEF HandleOp, CacheAfter, View
        <5>2. CASE k \in Ignored
          BY Zenon, <2>2, <5>2 DEF HandleOp, CacheAfter, View, Used, TypeOK
        <5>. QED  BY Zenon, <3>2, <5>1, <5>2 DEF onUpdate
      <4>2. dag' = dag /\ pc' = pc /\ timer' = timer
        BY Zenon, <2>2, <3>2 DEF HandleOp
      <4>. QED  BY Zenon, <4>1, <4>2 DEF RebuildScheduled
    <3>. QED  BY Zenon, <3>1, <3>2
  <2>3. CASE HandleElected
    <3>1. pc' = "select" /\ timer' >= 0
      BY <2>3, <2>a DEF HandleElected, Reschedule, delay, buildVars
    <3>. QED  BY Zenon, <3>1 DEF RebuildScheduled
  <2>4. CASE SkipRebuild
    BY <2>4 DEF SkipRebuild, RebuildScheduled, buildVars
  <2>5. CASE Rebuild
    BY Zenon, <2>5 DEF Rebuild, RebuildScheduled, View
  <2>6. CASE RebuildDone
    BY Zenon, <2>6 DEF RebuildDone, RebuildScheduled, View
  <2>7. CASE Tick
    <3>1. UNCHANGED <<dag, cache, pc>> /\ (timer >= 0 => timer' >= 0)
      BY <2>7, <2>a DEF Tick, buildVars
    <3>. QED  BY Zenon, <3>1 DEF RebuildScheduled, View
  <2>8. ASSUME NEW k \in Kinds, ApiChange(k) \/ InitialList(k) \/ OnEvent(k)
        PROVE  RebuildScheduled'
    BY Zenon, <2>1, <2>8 DEF ApiChange, InitialList, OnEvent, buildVars, timerVars
  <2>9. ASSUME NEW k \in Used, Send(k) PROVE RebuildScheduled'
    BY Zenon, <2>1, <2>9 DEF Send, timerVars
  <2>10. CASE InitialSyncPoll \/ XdsServerStart \/ BecomeLeader \/ StatusUpdateHandlerStart
              \/ StatusApply
    BY Zenon, <2>1, <2>10 DEF InitialSyncPoll, XdsServerStart, BecomeLeader,
                       StatusUpdateHandlerStart, StatusApply, buildVars, timerVars
  <2>11. CASE UNCHANGED vars
    BY Zenon, <2>1, <2>11 DEF vars, buildVars, timerVars
  <2>. QED  BY Zenon, <2>2, <2>3, <2>4, <2>5, <2>6, <2>7, <2>8, <2>9, <2>10, <2>11 DEF Next
<1>. QED  BY <1>1, <1>2, TypeCorrect, PTL DEF Spec

\* Once every initial list has been applied, no step makes the caches look
\* unsynced again: later notifications are not part of an initial list.
LEMMA SyncIsStable == TypeOK /\ HasSynced /\ [Next]_vars => HasSynced'
<1>. SUFFICES ASSUME TypeOK, HasSynced, [Next]_vars PROVE HasSynced'
  BY Zenon
<1>a. /\ queue \in [Kinds -> Seq(Op)] /\ blocked \in [Kinds -> Op \cup {NoOp}]
      /\ listed \in [Kinds -> BOOLEAN] /\ syncCount \in Int
  BY Zenon DEF TypeOK
<1>b. /\ syncCount <= 0
      /\ \A k \in Kinds : /\ listed[k]
                          /\ \A i \in DOMAIN queue[k] : ~queue[k][i].initial
                          /\ blocked[k] # NoOp => ~blocked[k].initial
  BY Zenon DEF HasSynced, UpstreamHasSynced, RegistrationHasSynced
<1>1. CASE UNCHANGED <<listed, queue, blocked, syncCount>>
  BY Zenon, <1>1 DEF HasSynced, UpstreamHasSynced, RegistrationHasSynced
<1>2. ASSUME NEW k \in Kinds, ApiChange(k) PROVE HasSynced'
  <2>1. PICK op : op.initial = FALSE /\ queue' = [queue EXCEPT ![k] = Append(@, op)]
    <3>1. PICK new \in {-(changes + 2), api[k], changes + 2}, t \in {"add", "update", "delete"} :
            Enqueue(k, [type |-> t, old |-> api[k], new |-> new, initial |-> FALSE])
      BY <1>2, <1>b, Zenon DEF ApiChange
    <3>. QED  BY Zenon, <3>1 DEF Enqueue
  <2>2. ASSUME NEW j \in Kinds PROVE \A i \in DOMAIN queue'[j] : ~queue'[j][i].initial
    <3>1. CASE j = k
      <4>1. queue'[j] = Append(queue[j], op) /\ queue[j] \in Seq(Op)
        BY Zenon, <1>a, <2>1, <3>1
      <4>2. \A i \in DOMAIN Append(queue[j], op) :
              (i \in DOMAIN queue[j] /\ Append(queue[j], op)[i] = queue[j][i])
                \/ Append(queue[j], op)[i] = op
        BY <4>1
      <4>. QED  BY Zenon, <1>b, <2>1, <4>1, <4>2
    <3>2. CASE j # k
      BY Zenon, <1>a, <1>b, <2>1, <3>2
    <3>. QED  BY Zenon, <3>1, <3>2
  <2>3. UNCHANGED <<listed, blocked, syncCount>>
    BY Zenon, <1>2 DEF ApiChange, handoffVars
  <2>. QED  BY Zenon, <1>b, <2>2, <2>3 DEF HasSynced, UpstreamHasSynced, RegistrationHasSynced
<1>3. ASSUME NEW k \in Kinds, InitialList(k) PROVE HasSynced'
  BY Zenon, <1>3, <1>b DEF InitialList
<1>4. ASSUME NEW k \in Kinds, OnEvent(k) PROVE HasSynced'
  <2>1. queue[k] \in Seq(Op) /\ queue[k] # <<>>
    BY Zenon, <1>4, <1>a DEF OnEvent
  <2>2. /\ 1 \in DOMAIN queue[k] /\ Head(queue[k]) = queue[k][1]
        /\ \A i \in DOMAIN Tail(queue[k]) :
             i + 1 \in DOMAIN queue[k] /\ Tail(queue[k])[i] = queue[k][i + 1]
    BY Zenon, <2>1, ReceiveStep
  <2>3. ~Head(queue[k]).initial
    BY Zenon, <1>b, <2>2
  <2>4. queue' = [queue EXCEPT ![k] = Tail(@)] /\ blocked' = [blocked EXCEPT ![k] = Head(queue[k])]
    BY Zenon, <1>4 DEF OnEvent
  <2>5. ASSUME NEW j \in Kinds PROVE \A i \in DOMAIN queue'[j] : ~queue'[j][i].initial
    <3>1. CASE j = k
      BY <1>a, <1>b, <2>2, <2>4, <3>1
    <3>2. CASE j # k
      BY Zenon, <1>a, <1>b, <2>4, <3>2
    <3>. QED  BY Zenon, <3>1, <3>2
  <2>6. ASSUME NEW j \in Kinds, blocked'[j] # NoOp PROVE ~blocked'[j].initial
    BY Zenon, <1>a, <1>b, <2>3, <2>4, <2>6
  <2>7. syncCount' = syncCount /\ listed' = listed
    BY Zenon, <1>4, <2>3 DEF OnEvent
  <2>. QED  BY Zenon, <1>b, <2>5, <2>6, <2>7 DEF HasSynced, UpstreamHasSynced, RegistrationHasSynced
<1>5. ASSUME NEW k \in Kinds, HandleOp(k) PROVE HasSynced'
  <2>1. syncCount' = syncCount /\ listed' = listed /\ queue' = queue
    BY Zenon, <1>5, <1>b DEF HandleOp, Finished, informerVars
  <2>2. blocked' = [blocked EXCEPT ![k] = NoOp]
    BY Zenon, <1>5 DEF HandleOp
  <2>3. ASSUME NEW j \in Kinds, blocked'[j] # NoOp PROVE ~blocked'[j].initial
    BY Zenon, <1>a, <1>b, <2>2, <2>3
  <2>. QED  BY Zenon, <1>b, <2>1, <2>3 DEF HasSynced, UpstreamHasSynced, RegistrationHasSynced
<1>6. ASSUME NEW k \in Used, Send(k) PROVE HasSynced'
  BY Zenon, <1>1, <1>6 DEF Send, informerVars, handoffVars
<1>7. CASE HandleElected \/ SkipRebuild \/ Rebuild \/ RebuildDone
  BY Zenon, <1>1, <1>7 DEF HandleElected, SkipRebuild, Rebuild, RebuildDone, informerVars,
                    handoffVars
<1>8. CASE InitialSyncPoll \/ XdsServerStart \/ BecomeLeader \/ StatusUpdateHandlerStart
           \/ StatusApply \/ Tick
  BY Zenon, <1>1, <1>8 DEF InitialSyncPoll, XdsServerStart, BecomeLeader, StatusUpdateHandlerStart,
                    StatusApply, Tick, informerVars, handoffVars
<1>9. CASE UNCHANGED vars
  BY Zenon, <1>1, <1>9 DEF vars, informerVars, handoffVars
<1>. QED  BY Zenon, <1>2, <1>3, <1>4, <1>5, <1>6, <1>7, <1>8, <1>9 DEF Next

\* What has been built, announced or served was so after the initial sync.
SyncInv == dagBuilt \/ initialDagBuilt \/ xdsServing => HasSynced

\* No DAG is given to the observers, and the xDS server does not start, before
\* every object of every informer's initial list is in the cache.
THEOREM NothingBeforeSync == Spec => []BuiltAfterSync
<1>1. Init => SyncInv
  BY Zenon DEF Init, SyncInv
<1>2. TypeOK /\ SyncInv /\ [Next]_vars => SyncInv'
  <2>. SUFFICES ASSUME TypeOK, SyncInv, [Next]_vars PROVE SyncInv'
    BY Zenon
  <2>1. CASE HasSynced
    BY Zenon, <2>1, SyncIsStable DEF SyncInv
  <2>2. CASE ~HasSynced
    <3>1. ~dagBuilt /\ ~initialDagBuilt /\ ~xdsServing
      BY Zenon, <2>2 DEF SyncInv
    <3>2. ASSUME NEW k \in Kinds, ApiChange(k) \/ InitialList(k) \/ OnEvent(k) \/ HandleOp(k)
          PROVE  ~dagBuilt' /\ ~initialDagBuilt' /\ ~xdsServing'
      BY <3>1, <3>2 DEF ApiChange, InitialList, OnEvent, HandleOp, buildVars, xdsVars
    <3>3. ASSUME NEW k \in Used, Send(k) PROVE ~dagBuilt' /\ ~initialDagBuilt' /\ ~xdsServing'
      BY Zenon, <3>1, <3>3 DEF Send, xdsVars
    <3>4. CASE Rebuild \/ InitialSyncPoll \/ XdsServerStart
      BY Zenon, <2>2, <3>1, <3>4 DEF Rebuild, RebuildAllowed, InitialSyncPoll, PollAllows,
                              XdsServerStart
    <3>5. ASSUME HandleElected \/ SkipRebuild \/ RebuildDone \/ BecomeLeader
                 \/ StatusUpdateHandlerStart \/ StatusApply \/ Tick \/ UNCHANGED vars
          PROVE  ~dagBuilt' /\ ~initialDagBuilt' /\ ~xdsServing'
      BY <3>1, <3>5 DEF HandleElected, SkipRebuild, RebuildDone, BecomeLeader,
                        StatusUpdateHandlerStart, StatusApply, Tick, vars, buildVars, xdsVars
    <3>. QED  BY Zenon, <3>2, <3>3, <3>4, <3>5 DEF Next, SyncInv
  <2>. QED  BY Zenon, <2>1, <2>2
<1>3. SyncInv => BuiltAfterSync
  BY Zenon DEF SyncInv, BuiltAfterSync
<1>. QED  BY <1>1, <1>2, <1>3, TypeCorrect, PTL DEF Spec

\* The strengthening that makes BoundedStaleness inductive: the time a change
\* has waited plus the time left on the timer is within the bound, a change
\* cannot have waited longer than the last rebuild is ago, no timer is pending
\* while statuses are sent, and only a synced cache counts as stale.
StalenessInv ==
  /\ staleFor > 0 => HasSynced /\ timer >= 0
  /\ timer >= 0 => pc = "select"
  /\ timer >= 0 => staleFor + timer <= HoldoffMaxDelay + HoldoffDelay
  /\ staleFor <= since

\* A timer that was just set is within the bound when nothing has waited yet.
LEMMA FreshWithinBound ==
  ASSUME NEW t \in -1 .. HoldoffDelay, NEW waited, waited = 0
  PROVE  waited + t <= HoldoffMaxDelay + HoldoffDelay
OBVIOUS

\* However events arrive, a synced cache is never ahead of the DAG for longer
\* than HoldoffMaxDelay + HoldoffDelay: after HoldoffMaxDelay without a rebuild
\* Start schedules the next one without delay.
THEOREM StalenessIsBounded == Spec => []BoundedStaleness
<1>1. Init => StalenessInv
  BY DEF Init, StalenessInv
<1>2. TypeOK /\ RebuildScheduled /\ StalenessInv /\ [Next]_vars => StalenessInv'
  <2>. SUFFICES ASSUME TypeOK, RebuildScheduled, StalenessInv, [Next]_vars
                PROVE  StalenessInv'
    BY Zenon
  <2>a. /\ timer \in -1 .. HoldoffDelay /\ since \in 0 .. SinceCap /\ staleFor \in 0 .. SinceCap
        /\ SinceCap = HoldoffMaxDelay + HoldoffDelay + 1
    BY Zenon DEF TypeOK, SinceCap
  <2>b. HasSynced => HasSynced'
    BY Zenon, SyncIsStable
  <2>1. CASE UNCHANGED <<staleFor, timer, pc, since>>
    BY Zenon, <2>1, <2>b DEF StalenessInv
  <2>2. CASE Reschedule /\ UNCHANGED <<staleFor, pc, since>> /\ pc = "select"
    <3>1. timer' >= 0 /\ timer' \in Int
      BY <2>2, <2>a DEF Reschedule, delay
    <3>2. staleFor + timer' <= HoldoffMaxDelay + HoldoffDelay
      <4>1. CASE since > HoldoffMaxDelay
        BY <2>2, <2>a, <4>1 DEF Reschedule, delay, StalenessInv
      <4>2. CASE ~(since > HoldoffMaxDelay)
        BY <2>2, <2>a, <4>2 DEF Reschedule, delay, StalenessInv
      <4>. QED  BY Zenon, <4>1, <4>2
    <3>. QED  BY Zenon, <2>2, <2>b, <3>1, <3>2 DEF StalenessInv
  <2>3. ASSUME NEW k \in Kinds, HandleOp(k) PROVE StalenessInv'
    BY Zenon, <2>1, <2>2, <2>3 DEF HandleOp
  <2>4. CASE HandleElected
    BY Zenon, <2>2, <2>4 DEF HandleElected, buildVars
  <2>5. CASE SkipRebuild
    <3>1. staleFor = 0
      BY <2>5, <2>a DEF SkipRebuild, StalenessInv
    <3>. QED  BY <2>5, <2>a, <3>1 DEF SkipRebuild, StalenessInv, buildVars
  <2>6. CASE Rebuild
    BY <2>6, <2>a DEF Rebuild, StalenessInv
  <2>7. CASE RebuildDone
    <3>1. timer = -1 /\ staleFor = 0
      BY <2>7, <2>a DEF RebuildDone, StalenessInv
    <3>. QED  BY <2>7, <3>1 DEF RebuildDone, StalenessInv
  <2>8. CASE Tick
    <3>1. CASE HasSynced /\ dag # View(cache)
      <4>1. pc = "select" /\ timer > 0
        BY <2>8, <2>a, <3>1 DEF Tick, RebuildScheduled
      <4>2. timer' = timer - 1 /\ staleFor' = staleFor + 1 /\ pc' = "select"
        BY <2>8, <2>a, <3>1, <4>1 DEF Tick, StaleForNext, StalenessInv, buildVars
      <4>3. staleFor' <= since'
        BY <2>8, <2>a, <4>1, <4>2 DEF Tick, StalenessInv
      <4>4. staleFor' + timer' <= HoldoffMaxDelay + HoldoffDelay /\ timer' >= 0
        BY <2>a, <4>1, <4>2 DEF StalenessInv
      <4>. QED  BY Zenon, <2>b, <3>1, <4>2, <4>3, <4>4 DEF StalenessInv
    <3>2. CASE ~(HasSynced /\ dag # View(cache))
      <4>1. staleFor' = 0
        BY Zenon, <2>8, <3>2 DEF Tick
      <4>2. timer' \in -1 .. HoldoffDelay
        BY <2>8, <2>a DEF Tick
      <4>3. ~(staleFor' > 0) /\ staleFor' <= since'
        BY <2>8, <2>a, <4>1 DEF Tick
      <4>4. staleFor' + timer' <= HoldoffMaxDelay + HoldoffDelay
        BY Zenon, <4>1, <4>2, FreshWithinBound
      <4>5. timer' >= 0 => pc' = "select"
        BY <2>8, <2>a DEF Tick, StalenessInv, buildVars
      <4>. QED  BY Zenon, <4>3, <4>4, <4>5 DEF StalenessInv
    <3>. QED  BY Zenon, <3>1, <3>2
  <2>9. ASSUME NEW k \in Kinds, ApiChange(k) \/ InitialList(k) \/ OnEvent(k)
        PROVE  StalenessInv'
    BY Zenon, <2>1, <2>9 DEF ApiChange, InitialList, OnEvent, buildVars, timerVars
  <2>10. ASSUME NEW k \in Used, Send(k) PROVE StalenessInv'
    BY Zenon, <2>1, <2>10 DEF Send, timerVars
  <2>11. CASE InitialSyncPoll \/ XdsServerStart \/ BecomeLeader \/ StatusUpdateHandlerStart
              \/ StatusApply \/ UNCHANGED vars
    BY Zenon, <2>1, <2>11 DEF InitialSyncPoll, XdsServerStart, BecomeLeader,
                       StatusUpdateHandlerStart, StatusApply, vars, buildVars, timerVars
  <2>. QED  BY Zenon, <2>3, <2>4, <2>5, <2>6, <2>7, <2>8, <2>9, <2>10, <2>11 DEF Next
<1>3. TypeOK /\ StalenessInv => BoundedStaleness
  BY DEF TypeOK, StalenessInv, BoundedStaleness
<1>. QED  BY <1>1, <1>2, <1>3, TypeCorrect, NoChangeForgotten, PTL DEF Spec

-----------------------------------------------------------------------------
(* The event handler implements ControlLoop.                               *)

NotOlder(v, w) == CL!NotOlder(v, w)

LEMMA NotOlderOrder ==
  /\ \A v \in Int : NotOlder(v, v)
  /\ \A u, v, w \in Int : NotOlder(u, v) /\ NotOlder(v, w) => NotOlder(u, w)
BY DEF NotOlder, CL!NotOlder, CL!Age

\* The notifications an informer has queued and the one it is sending are in
\* the order of the changes, between what the cache and the API server hold.
Between(cached, sending, queued, current) ==
  /\ NotOlder(current, cached)
  /\ sending # NoOp => NotOlder(current, sending.new) /\ NotOlder(sending.new, cached)
  /\ \A i \in DOMAIN queued :
       /\ NotOlder(current, queued[i].new) /\ NotOlder(queued[i].new, cached)
       /\ sending # NoOp => NotOlder(queued[i].new, sending.new)
       /\ \A j \in DOMAIN queued : i < j => NotOlder(queued[j].new, queued[i].new)

\* The updates in the channel are in the order of the rebuilds, between the
\* statuses and the DAG.
StatusesBetween(written, updates, built) ==
  /\ \A k \in Used : NotOlder(built[k], written[k])
  /\ \A i \in DOMAIN updates :
       /\ NotOlder(built[updates[i].kind], updates[i].version)
       /\ NotOlder(updates[i].version, written[updates[i].kind])
       /\ \A j \in DOMAIN updates :
            i < j /\ updates[j].kind = updates[i].kind =>
              NotOlder(updates[j].version, updates[i].version)

PipelineInv ==
  /\ \A k \in Kinds : CL!Age(api[k]) <= changes + 1
  /\ \A k \in Kinds : Between(cache[k], blocked[k], queue[k], api[k])
  /\ \A k \in Used : NotOlder(cache[k], dag[k])
  /\ StatusesBetween(status, updateChannel, dag)

LEMMA PipelineInit == Init => PipelineInv
<1>. SUFFICES ASSUME Init PROVE PipelineInv
  BY Zenon
<1>1. ASSUME NEW k \in Kinds
      PROVE  CL!Age(api[k]) <= changes + 1 /\ Between(cache[k], blocked[k], queue[k], api[k])
  <2>1. api[k] \in {0, 1} /\ cache[k] = 0 /\ queue[k] = <<>> /\ blocked[k] = NoOp /\ changes = 0
    BY Zenon DEF Init
  <2>. QED  BY <2>1 DEF Between, NotOlder, CL!NotOlder, CL!Age
<1>2. \A k \in Used : NotOlder(cache[k], dag[k])
  BY Zenon DEF Init, NotOlder, CL!NotOlder, Used
<1>3. StatusesBetween(status, updateChannel, dag)
  BY DEF Init, StatusesBetween, NotOlder, CL!NotOlder
<1>. QED  BY Zenon, <1>1, <1>2, <1>3 DEF PipelineInv

LEMMA OpTypes == \A op \in Op : op.new \in Int
<1>1. \A v \in Versions : v \in Int
  BY DEF Versions
<1>. QED  BY Zenon, <1>1 DEF Op

LEMMA UpdateTypes == \A upd \in StatusUpdate : upd.kind \in Used /\ upd.version \in Int
<1>1. \A v \in Versions : v \in Int
  BY DEF Versions
<1>. QED  BY Zenon, <1>1 DEF StatusUpdate

\* A new notification comes last, and is the newest.
LEMMA Queued ==
  ASSUME NEW cached \in Int, NEW sending \in Op \cup {NoOp}, NEW queued \in Seq(Op),
         NEW current \in Int, Between(cached, sending, queued, current),
         NEW op \in Op, NotOlder(op.new, current)
  PROVE  Between(cached, sending, Append(queued, op), op.new)
<1>. DEFINE longer == Append(queued, op)
<1>a. /\ op.new \in Int /\ (sending # NoOp => sending.new \in Int)
      /\ \A i \in DOMAIN queued : queued[i].new \in Int
  BY OpTypes
<1>1. \A v \in Int : NotOlder(current, v) => NotOlder(op.new, v)
  BY Zenon, <1>a, NotOlderOrder
<1>2. NotOlder(op.new, op.new)
  BY Zenon, <1>a, NotOlderOrder
<1>3. /\ DOMAIN queued = 1 .. Len(queued) /\ Len(queued) \in Nat
      /\ DOMAIN longer = 1 .. Len(queued) + 1
      /\ longer[Len(queued) + 1] = op
      /\ \A i \in 1 .. Len(queued) : longer[i] = queued[i]
  OBVIOUS
<1>. HIDE DEF longer
<1>4. /\ NotOlder(op.new, cached)
      /\ sending # NoOp => NotOlder(op.new, sending.new) /\ NotOlder(sending.new, cached)
  BY Zenon, <1>a, <1>1 DEF Between
<1>5. ASSUME NEW i \in DOMAIN longer
      PROVE  /\ NotOlder(op.new, longer[i].new) /\ NotOlder(longer[i].new, cached)
             /\ sending # NoOp => NotOlder(longer[i].new, sending.new)
             /\ \A j \in DOMAIN longer : i < j => NotOlder(longer[j].new, longer[i].new)
  <2>1. CASE i = Len(queued) + 1
    BY <1>2, <1>3, <1>4, <2>1
  <2>2. CASE i \in DOMAIN queued
    <3>1. longer[i] = queued[i] /\ NotOlder(op.new, queued[i].new)
      BY Zenon, <1>a, <1>1, <1>3, <2>2 DEF Between
    <3>2. ASSUME NEW j \in DOMAIN longer, i < j
          PROVE  NotOlder(longer[j].new, longer[i].new)
      <4>1. CASE j = Len(queued) + 1
        BY Zenon, <1>3, <3>1, <4>1
      <4>2. CASE j \in DOMAIN queued
        BY Zenon, <1>3, <2>2, <3>1, <3>2, <4>2 DEF Between
      <4>3. j = Len(queued) + 1 \/ j \in DOMAIN queued
        BY <1>3
      <4>. QED  BY Zenon, <4>1, <4>2, <4>3
    <3>. QED  BY Zenon, <2>2, <3>1, <3>2 DEF Between
  <2>3. i = Len(queued) + 1 \/ i \in DOMAIN queued
    BY <1>3
  <2>. QED  BY Zenon, <2>1, <2>2, <2>3
<1>. QED  BY Zenon, <1>4, <1>5 DEF Between, longer

\* An informer takes its next notification.
LEMMA Taken ==
  ASSUME NEW cached \in Int, NEW queued \in Seq(Op), queued # <<>>, NEW current \in Int,
         Between(cached, NoOp, queued, current)
  PROVE  Between(cached, Head(queued), Tail(queued), current)
<1>1. /\ Head(queued) \in Op /\ 1 \in DOMAIN queued /\ Head(queued) = queued[1]
      /\ Tail(queued) \in Seq(Op)
      /\ \A i \in DOMAIN Tail(queued) : i + 1 \in DOMAIN queued /\ Tail(queued)[i] = queued[i + 1]
  BY Zenon, ReceiveStep
<1>2. \A i \in DOMAIN Tail(queued) : i \in Int /\ 1 < i + 1
  BY <1>1
<1>3. \A i, j \in DOMAIN Tail(queued) : i < j => i + 1 < j + 1
  BY <1>2
<1>. QED  BY Zenon, <1>1, <1>2, <1>3 DEF Between

\* The loop applies a notification, or skips one that changed nothing.
LEMMA Applied ==
  ASSUME NEW cached \in Int, NEW sending \in Op, sending # NoOp, NEW queued \in Seq(Op),
         NEW current \in Int, Between(cached, sending, queued, current),
         NEW after \in {cached, sending.new}
  PROVE  Between(after, NoOp, queued, current) /\ NotOlder(after, cached)
<1>1. NotOlder(cached, cached)
  BY Zenon, NotOlderOrder
<1>. QED  BY Zenon, <1>1 DEF Between

\* A new status update is of the DAG itself.
LEMMA StatusSent ==
  ASSUME NEW written \in [Used -> Int], NEW updates \in Seq(StatusUpdate), NEW built \in [Used -> Int],
         StatusesBetween(written, updates, built), NEW k \in Used,
         [kind |-> k, version |-> built[k]] \in StatusUpdate
  PROVE  StatusesBetween(written, Append(updates, [kind |-> k, version |-> built[k]]), built)
<1>. DEFINE upd == [kind |-> k, version |-> built[k]]
            longer == Append(updates, upd)
<1>a. upd.kind = k /\ upd.version = built[k] /\ built[k] \in Int
  BY Zenon
<1>1. NotOlder(built[k], built[k])
  BY Zenon, NotOlderOrder
<1>2. /\ DOMAIN updates = 1 .. Len(updates) /\ Len(updates) \in Nat
      /\ DOMAIN longer = 1 .. Len(updates) + 1
      /\ longer[Len(updates) + 1] = upd
      /\ \A i \in 1 .. Len(updates) : longer[i] = updates[i]
  BY SMTT(30)
<1>. HIDE DEF upd, longer
<1>3. ASSUME NEW i \in DOMAIN longer
      PROVE  /\ NotOlder(built[longer[i].kind], longer[i].version)
             /\ NotOlder(longer[i].version, written[longer[i].kind])
             /\ \A j \in DOMAIN longer :
                  i < j /\ longer[j].kind = longer[i].kind =>
                    NotOlder(longer[j].version, longer[i].version)
  <2>1. CASE i = Len(updates) + 1
    BY SMTT(30), <1>a, <1>1, <1>2, <2>1 DEF StatusesBetween
  <2>2. CASE i \in DOMAIN updates
    <3>1. /\ longer[i] = updates[i]
          /\ NotOlder(built[updates[i].kind], updates[i].version)
          /\ NotOlder(updates[i].version, written[updates[i].kind])
      BY Zenon, <1>2, <2>2 DEF StatusesBetween
    <3>2. ASSUME NEW j \in DOMAIN longer, i < j, longer[j].kind = longer[i].kind
          PROVE  NotOlder(longer[j].version, longer[i].version)
      <4>1. CASE j = Len(updates) + 1
        BY ZenonT(60), <1>a, <1>2, <3>1, <3>2, <4>1
      <4>2. CASE j \in DOMAIN updates
        BY Zenon, <1>2, <2>2, <3>1, <3>2, <4>2 DEF StatusesBetween
      <4>3. j = Len(updates) + 1 \/ j \in DOMAIN updates
        BY <1>2
      <4>. QED  BY Zenon, <4>1, <4>2, <4>3
    <3>. QED  BY Zenon, <3>1, <3>2
  <2>3. i = Len(updates) + 1 \/ i \in DOMAIN updates
    BY <1>2
  <2>. QED  BY Zenon, <2>1, <2>2, <2>3
<1>. QED  BY Zenon, <1>3 DEF StatusesBetween, upd, longer

\* The oldest update is written.
LEMMA StatusWritten ==
  ASSUME NEW written \in [Used -> Int], NEW updates \in Seq(StatusUpdate), updates # <<>>,
         NEW built \in [Used -> Int], StatusesBetween(written, updates, built)
  PROVE  /\ Head(updates).kind \in Used /\ Head(updates).version \in Int
         /\ NotOlder(Head(updates).version, written[Head(updates).kind])
         /\ NotOlder(built[Head(updates).kind], Head(updates).version)
         /\ StatusesBetween([written EXCEPT ![Head(updates).kind] = Head(updates).version],
                            Tail(updates), built)
<1>. DEFINE upd == Head(updates)
            after == [written EXCEPT ![upd.kind] = upd.version]
<1>1. /\ upd \in StatusUpdate /\ 1 \in DOMAIN updates /\ upd = updates[1]
      /\ Tail(updates) \in Seq(StatusUpdate)
      /\ \A i \in DOMAIN Tail(updates) :
           i + 1 \in DOMAIN updates /\ Tail(updates)[i] = updates[i + 1]
  BY Zenon, ReceiveStep
<1>2. upd.kind \in Used /\ upd.version \in Int
  BY Zenon, <1>1, UpdateTypes
<1>3. NotOlder(upd.version, written[upd.kind]) /\ NotOlder(built[upd.kind], upd.version)
  BY Zenon, <1>1 DEF StatusesBetween
<1>4. /\ after[upd.kind] = upd.version
      /\ \A k \in Used \ {upd.kind} : after[k] = written[k]
  BY Zenon, <1>2
<1>5. \A i \in DOMAIN Tail(updates) : i \in Int /\ 1 < i + 1 /\ Tail(updates)[i] \in StatusUpdate
  BY <1>1
<1>6. \A i, j \in DOMAIN Tail(updates) : i < j => i + 1 < j + 1
  BY <1>5
<1>. HIDE DEF upd, after
<1>7. \A k \in Used : NotOlder(built[k], after[k])
  BY Zenon, <1>3, <1>4 DEF StatusesBetween
<1>8. ASSUME NEW i \in DOMAIN Tail(updates)
      PROVE  /\ NotOlder(built[Tail(updates)[i].kind], Tail(updates)[i].version)
             /\ NotOlder(Tail(updates)[i].version, after[Tail(updates)[i].kind])
  <2>1. Tail(updates)[i] = updates[i + 1] /\ i + 1 \in DOMAIN updates /\ 1 < i + 1
    BY Zenon, <1>1, <1>5
  <2>2. updates[i + 1].kind \in Used
    BY Zenon, <1>5, <2>1, UpdateTypes
  <2>3. CASE updates[i + 1].kind = upd.kind
    BY <1>1, <1>4, <2>1, <2>3 DEF StatusesBetween
  <2>4. CASE updates[i + 1].kind # upd.kind
    BY Zenon, <1>4, <2>1, <2>2, <2>4 DEF StatusesBetween
  <2>. QED  BY Zenon, <2>3, <2>4
<1>9. \A i, j \in DOMAIN Tail(updates) :
        i < j /\ Tail(updates)[j].kind = Tail(updates)[i].kind =>
          NotOlder(Tail(updates)[j].version, Tail(updates)[i].version)
  BY <1>1, <1>6 DEF StatusesBetween
<1>. QED  BY Zenon, <1>2, <1>3, <1>7, <1>8, <1>9 DEF StatusesBetween, upd, after

\* A newer DAG leaves the order of the statuses alone.
LEMMA StatusesKept ==
  ASSUME NEW written \in [Used -> Int], NEW updates \in Seq(StatusUpdate), NEW built \in [Used -> Int],
         StatusesBetween(written, updates, built), NEW newer \in [Used -> Int],
         \A k \in Used : NotOlder(newer[k], built[k])
  PROVE  StatusesBetween(written, updates, newer)
<1>1. \A i \in DOMAIN updates : updates[i].kind \in Used /\ updates[i].version \in Int
  BY UpdateTypes
<1>2. \A k \in Used : \A v \in Int : NotOlder(built[k], v) => NotOlder(newer[k], v)
  BY Zenon, NotOlderOrder
<1>. QED  BY Zenon, <1>1, <1>2 DEF StatusesBetween

\* A change that no informer has seen leaves the order alone.
LEMMA Unseen ==
  ASSUME NEW cached \in Int, NEW sending \in Op \cup {NoOp}, NEW queued \in Seq(Op),
         NEW current \in Int, Between(cached, sending, queued, current),
         NEW new \in Int, NotOlder(new, current)
  PROVE  Between(cached, sending, queued, new)
<1>1. /\ (sending # NoOp => sending.new \in Int)
      /\ \A i \in DOMAIN queued : queued[i].new \in Int
  BY OpTypes
<1>2. \A v \in Int : NotOlder(current, v) => NotOlder(new, v)
  BY Zenon, NotOlderOrder
<1>. QED  BY Zenon, <1>1, <1>2 DEF Between

\* The types the order is about.
PipelineTypes ==
  /\ api \in [Kinds -> Int] /\ cache \in [Kinds -> Int] /\ changes \in Nat
  /\ queue \in [Kinds -> Seq(Op)] /\ blocked \in [Kinds -> Op \cup {NoOp}]
  /\ dag \in [Used -> Int] /\ status \in [Used -> Int] /\ updateChannel \in Seq(StatusUpdate)

LEMMA TypesOfPipeline == TypeOK => PipelineTypes
<1>1. \A v \in Versions : v \in Int
  BY DEF Versions
<1>. QED  BY SMTT(30), <1>1 DEF TypeOK, PipelineTypes

\* A change at the API server, seen by its informer or not.
LEMMA ApiChangeStep ==
  ASSUME PipelineTypes, PipelineTypes', PipelineInv, NEW k \in Kinds, ApiChange(k)
  PROVE  PipelineInv' /\ \A j \in Kinds : NotOlder(api'[j], api[j])
<1>1. /\ changes' = changes + 1
      /\ UNCHANGED <<cache, blocked, dag, status, updateChannel>>
  BY Zenon DEF ApiChange, handoffVars, buildVars, statusVars
<1>2. PICK new \in {-(changes + 2), api[k], changes + 2}, t \in {"add", "update", "delete"} :
        /\ api' = [api EXCEPT ![k] = new]
        /\ IF listed[k]
             THEN Enqueue(k, [type |-> t, old |-> api[k], new |-> new, initial |-> FALSE])
             ELSE UNCHANGED queue
  BY Zenon DEF ApiChange
<1>. DEFINE op == [type |-> t, old |-> api[k], new |-> new, initial |-> FALSE]
<1>3. new \in Int /\ api[k] \in Int /\ changes \in Nat /\ CL!Age(api[k]) <= changes + 1
  BY DEF PipelineTypes, PipelineInv
<1>4. NotOlder(new, api[k]) /\ CL!Age(new) <= changes' + 1
  BY <1>1, <1>3 DEF NotOlder, CL!NotOlder, CL!Age
<1>5. api'[k] = new /\ \A j \in Kinds \ {k} : api'[j] = api[j]
  BY Zenon, <1>2 DEF PipelineTypes
<1>6. ASSUME NEW j \in Kinds PROVE NotOlder(api'[j], api[j]) /\ CL!Age(api'[j]) <= changes' + 1
  <2>1. CASE j = k
    BY Zenon, <1>4, <1>5, <2>1
  <2>2. CASE j # k
    <3>0. api'[j] = api[j] /\ api[j] \in Int
      BY Zenon, <1>5, <2>2 DEF PipelineTypes
    <3>a. CL!Age(api[j]) <= changes + 1
      BY Zenon DEF PipelineInv
    <3>1. api'[j] = api[j] /\ api[j] \in Int /\ CL!Age(api[j]) <= changes + 1 /\ CL!Age(api[j]) \in Int
      BY SMTT(30), <3>0, <3>a DEF CL!Age
    <3>. QED  BY <1>1, <1>3, <3>1, NotOlderOrder
  <2>. QED  BY Zenon, <2>1, <2>2
<1>7. ASSUME NEW j \in Kinds PROVE Between(cache[j], blocked[j], queue'[j], api'[j])
  <2>a. /\ Between(cache[j], blocked[j], queue[j], api[j])
        /\ cache[j] \in Int /\ blocked[j] \in Op \cup {NoOp} /\ queue[j] \in Seq(Op) /\ api[j] \in Int
        /\ api'[j] \in Int
    BY Zenon DEF PipelineInv, PipelineTypes
  <2>1. CASE queue'[j] = queue[j]
    BY Zenon, <1>6, <2>a, <2>1, Unseen
  <2>2. CASE j = k /\ queue'[k] = Append(queue[k], op)
    <3>1. op \in Op /\ op.new = new
      <4>1. queue'[k] \in Seq(Op) /\ queue[k] \in Seq(Op)
        BY Zenon DEF PipelineTypes
      <4>2. Append(queue[k], op)[Len(queue[k]) + 1] = op /\ Len(queue[k]) + 1 \in DOMAIN Append(queue[k], op)
        BY <4>1
      <4>3. op \in Op
        BY SMTT(30), <2>2, <4>1, <4>2
      <4>. QED  BY Zenon, <4>3
    <3>2. NotOlder(op.new, api[j]) /\ api'[j] = op.new
      BY Zenon, <1>4, <1>5, <2>2, <3>1
    <3>. HIDE DEF op
    <3>3. Between(cache[j], blocked[j], Append(queue[j], op), op.new)
      BY Zenon, <2>a, <3>1, <3>2, Queued
    <3>. QED  BY Zenon, <2>2, <3>2, <3>3
  <2>3. queue'[j] = queue[j] \/ (j = k /\ queue'[k] = Append(queue[k], op))
    BY Zenon, <1>2 DEF Enqueue, PipelineTypes
  <2>. QED  BY Zenon, <2>1, <2>2, <2>3
<1>. QED  BY Zenon, <1>1, <1>6, <1>7 DEF PipelineInv

LEMMA InitialListStep ==
  ASSUME PipelineTypes, PipelineTypes', PipelineInv, NEW k \in Kinds, InitialList(k)
  PROVE  PipelineInv'
<1>1. UNCHANGED <<api, changes, cache, blocked, dag, status, updateChannel>>
  BY ZenonT(60) DEF InitialList, handoffVars, buildVars, statusVars
<1>. DEFINE op == [type |-> "add", old |-> 0, new |-> api[k], initial |-> TRUE]
<1>2. ASSUME NEW j \in Kinds PROVE Between(cache[j], blocked[j], queue'[j], api[j])
  <2>a. /\ Between(cache[j], blocked[j], queue[j], api[j])
        /\ cache[j] \in Int /\ blocked[j] \in Op \cup {NoOp} /\ queue[j] \in Seq(Op) /\ api[j] \in Int
    BY Zenon DEF PipelineInv, PipelineTypes
  <2>1. CASE queue'[j] = queue[j]
    BY Zenon, <2>a, <2>1
  <2>2. CASE j = k /\ queue'[k] = Append(queue[k], op)
    <3>1. queue'[k] \in Seq(Op) /\ queue[k] \in Seq(Op)
      BY Zenon DEF PipelineTypes
    <3>2. Append(queue[k], op)[Len(queue[k]) + 1] = op /\ Len(queue[k]) + 1 \in DOMAIN Append(queue[k], op)
      BY <3>1
    <3>3. op \in Op
      BY <2>2, <3>1, <3>2
    <3>4. op.new = api[k] /\ NotOlder(op.new, api[k])
      BY Zenon, <2>a, <2>2, NotOlderOrder
    <3>. HIDE DEF op
    <3>. QED  BY ZenonT(60), <2>a, <2>2, <3>3, <3>4, Queued
  <2>3. queue'[j] = queue[j] \/ (j = k /\ queue'[k] = Append(queue[k], op))
    BY Zenon DEF InitialList, Enqueue, PipelineTypes
  <2>. QED  BY Zenon, <2>1, <2>2, <2>3
<1>. QED  BY ZenonT(60), <1>1, <1>2 DEF PipelineInv

LEMMA HandOffStep ==
  ASSUME PipelineTypes, PipelineTypes', PipelineInv, NEW k \in Kinds, OnEvent(k) \/ HandleOp(k)
  PROVE  PipelineInv'
<1>1. UNCHANGED <<api, changes, dag, status, updateChannel>>
  BY Zenon DEF OnEvent, HandleOp, informerVars, buildVars, statusVars
<1>2. ASSUME NEW j \in Kinds
      PROVE  Between(cache'[j], blocked'[j], queue'[j], api[j]) /\ NotOlder(cache'[j], cache[j])
  <2>a. /\ Between(cache[j], blocked[j], queue[j], api[j]) /\ NotOlder(cache[j], cache[j])
        /\ cache[j] \in Int /\ blocked[j] \in Op \cup {NoOp} /\ queue[j] \in Seq(Op) /\ api[j] \in Int
    BY Zenon, NotOlderOrder DEF PipelineInv, PipelineTypes
  <2>1. CASE j # k
    <3>1. cache'[j] = cache[j] /\ blocked'[j] = blocked[j] /\ queue'[j] = queue[j]
      BY Zenon, <2>1 DEF OnEvent, HandleOp, CacheAfter, informerVars, buildVars, PipelineTypes
    <3>. QED  BY ZenonT(60), <2>a, <3>1
  <2>2. CASE j = k /\ OnEvent(k)
    <3>1. /\ cache'[j] = cache[j] /\ blocked[j] = NoOp /\ queue[j] # <<>>
          /\ blocked'[j] = Head(queue[j]) /\ queue'[j] = Tail(queue[j])
      BY Zenon, <2>2 DEF OnEvent, buildVars, PipelineTypes
    <3>. QED  BY ZenonT(60), <2>a, <3>1, Taken
  <2>3. CASE j = k /\ HandleOp(k)
    <3>1. /\ cache'[j] \in {cache[j], blocked[j].new} /\ blocked[j] # NoOp
          /\ blocked'[j] = NoOp /\ queue'[j] = queue[j]
      BY Zenon, <2>3 DEF HandleOp, CacheAfter, informerVars, PipelineTypes
    <3>. QED  BY Zenon, <2>a, <3>1, Applied
  <2>. QED  BY ZenonT(60), <2>1, <2>2, <2>3
<1>3. ASSUME NEW j \in Used PROVE NotOlder(cache'[j], dag[j])
  <2>1. /\ NotOlder(cache'[j], cache[j]) /\ NotOlder(cache[j], dag[j])
        /\ cache'[j] \in Int /\ cache[j] \in Int /\ dag[j] \in Int
    BY Zenon, <1>2 DEF PipelineInv, PipelineTypes, Used
  <2>. QED  BY Zenon, <2>1, NotOlderOrder
<1>. QED  BY Zenon, <1>1, <1>2, <1>3 DEF PipelineInv

LEMMA RebuildStep ==
  ASSUME PipelineTypes, PipelineTypes', PipelineInv, Rebuild
  PROVE  PipelineInv' /\ CL!Publish
<1>1. UNCHANGED <<api, changes, cache, queue, blocked, status, updateChannel>>
  BY Zenon DEF Rebuild, informerVars, handoffVars, statusVars
<1>2. ASSUME NEW k \in Used
      PROVE  dag'[k] = cache[k] /\ NotOlder(dag'[k], dag[k]) /\ NotOlder(api[k], dag'[k])
             /\ NotOlder(cache[k], dag'[k])
  <2>1. dag'[k] = cache[k] /\ k \in Kinds
    BY Zenon DEF Rebuild, View, Used
  <2>2. NotOlder(cache[k], cache[k])
    BY Zenon, <2>1, NotOlderOrder DEF PipelineTypes
  <2>. QED  BY Zenon, <2>1, <2>2 DEF PipelineInv, Between
<1>3. StatusesBetween(status, updateChannel, dag')
  BY ZenonT(60), <1>2, StatusesKept DEF PipelineInv, PipelineTypes
<1>4. PipelineInv'
  BY Zenon, <1>1, <1>2, <1>3 DEF PipelineInv
<1>5. CL!Publish
  BY Zenon, <1>1, <1>2 DEF CL!Publish, NotOlder, View
<1>. QED  BY Zenon, <1>4, <1>5

LEMMA StatusStep ==
  ASSUME PipelineTypes, PipelineTypes', PipelineInv, StatusApply
  PROVE  PipelineInv' /\ \E k \in Used : CL!Report(k)
<1>1. /\ UNCHANGED <<api, changes, cache, queue, blocked, dag>>
      /\ updateChannel # <<>> /\ updateChannel' = Tail(updateChannel)
      /\ status' = [status EXCEPT ![Head(updateChannel).kind] = Head(updateChannel).version]
  BY Zenon DEF StatusApply, informerVars, handoffVars, buildVars
<1>. DEFINE k == Head(updateChannel).kind
            v == Head(updateChannel).version
<1>2. /\ k \in Used /\ v \in Int /\ NotOlder(v, status[k]) /\ NotOlder(dag[k], v)
      /\ StatusesBetween([status EXCEPT ![k] = v], Tail(updateChannel), dag)
  BY Zenon, <1>1, StatusWritten DEF PipelineInv, PipelineTypes
<1>3. PipelineInv'
  BY Zenon, <1>1, <1>2 DEF PipelineInv
<1>. HIDE DEF k, v
<1>4. status'[k] = v /\ \A j \in Used \ {k} : status'[j] = status[j]
  BY Zenon, <1>1, <1>2 DEF PipelineTypes, k, v
<1>5. CL!Report(k)
  BY Zenon, <1>1, <1>2, <1>4 DEF CL!Report, NotOlder, View
<1>. QED  BY Zenon, <1>2, <1>3, <1>5

LEMMA LastOfChannel ==
  ASSUME NEW S, NEW q \in Seq(S), NEW x, Append(q, x) \in Seq(S)
  PROVE  x \in S
<1>1. Len(q) \in Nat /\ Append(q, x)[Len(q) + 1] = x
  OBVIOUS
<1>2. Len(Append(q, x)) = Len(q) + 1
  OBVIOUS
<1>3. Len(q) + 1 \in 1 .. Len(Append(q, x))
  BY SMTT(30), <1>1, <1>2
<1>. QED  BY <1>1, <1>3

LEMMA SendPipelineStep ==
  ASSUME PipelineTypes, PipelineTypes', PipelineInv, NEW k \in Used, Send(k)
  PROVE  PipelineInv'
<1>1. UNCHANGED <<api, changes, cache, queue, blocked, dag, status>>
  BY Zenon DEF Send, informerVars, handoffVars
<1>. DEFINE upd == [kind |-> k, version |-> dag[k]]
<1>2. updateChannel' = updateChannel \/ updateChannel' = Append(updateChannel, upd)
  BY Zenon DEF Send, writerSend, SendOnChannel
<1>3. ASSUME updateChannel' = Append(updateChannel, upd)
      PROVE  StatusesBetween(status, updateChannel', dag)
  <2>1. updateChannel' \in Seq(StatusUpdate) /\ updateChannel \in Seq(StatusUpdate)
    BY Zenon DEF PipelineTypes
  <2>2. Append(updateChannel, upd) \in Seq(StatusUpdate)
    BY Zenon, <1>3, <2>1
  <2>3. upd \in StatusUpdate
    BY Zenon, <2>1, <2>2, LastOfChannel
  <2>. QED  BY Zenon, <1>3, <2>3, StatusSent DEF PipelineInv, PipelineTypes
<1>4. StatusesBetween(status, updateChannel', dag)
  BY Zenon, <1>2, <1>3 DEF PipelineInv
<1>. QED  BY Zenon, <1>1, <1>4 DEF PipelineInv

\* Every step is a step of ControlLoop, or leaves the API server's objects, the
\* DAG and the statuses alone.
LEMMA ImplementationStep ==
  ASSUME PipelineTypes, PipelineTypes', PipelineInv, [Next]_vars
  PROVE  PipelineInv' /\ [CL!Next]_(CL!vars)
<1>1. ASSUME UNCHANGED <<api, changes, cache, queue, blocked, dag, status, updateChannel>>
      PROVE  PipelineInv' /\ [CL!Next]_(CL!vars)
  BY Zenon, <1>1 DEF PipelineInv, CL!vars, View
<1>2. ASSUME PipelineInv', UNCHANGED <<api, dag, status>>
      PROVE  PipelineInv' /\ [CL!Next]_(CL!vars)
  BY Zenon, <1>2 DEF CL!vars, View
<1>3. ASSUME NEW k \in Kinds, ApiChange(k) PROVE PipelineInv' /\ [CL!Next]_(CL!vars)
  <2>1. PipelineInv' /\ \A j \in Kinds : NotOlder(api'[j], api[j])
    BY Zenon, <1>3, ApiChangeStep
  <2>2. CL!Change
    BY Zenon, <1>3, <2>1 DEF ApiChange, buildVars, statusVars, CL!Change, NotOlder, View, Used
  <2>. QED  BY Zenon, <2>1, <2>2 DEF CL!Next
<1>4. ASSUME NEW k \in Kinds, InitialList(k) PROVE PipelineInv' /\ [CL!Next]_(CL!vars)
  BY ZenonT(60), <1>2, <1>4, InitialListStep DEF InitialList, buildVars, statusVars
<1>5. ASSUME NEW k \in Kinds, OnEvent(k) \/ HandleOp(k) PROVE PipelineInv' /\ [CL!Next]_(CL!vars)
  BY Zenon, <1>2, <1>5, HandOffStep DEF OnEvent, HandleOp, informerVars, buildVars, statusVars
<1>6. CASE Rebuild
  BY Zenon, <1>6, RebuildStep DEF CL!Next
<1>7. ASSUME NEW k \in Used, Send(k) PROVE PipelineInv' /\ [CL!Next]_(CL!vars)
  BY Zenon, <1>2, <1>7, SendPipelineStep DEF Send, informerVars
<1>8. CASE StatusApply
  BY Zenon, <1>8, StatusStep DEF CL!Next
<1>9. CASE HandleElected \/ SkipRebuild \/ RebuildDone \/ InitialSyncPoll \/ XdsServerStart
           \/ BecomeLeader \/ StatusUpdateHandlerStart \/ Tick \/ UNCHANGED vars
  BY Zenon, <1>1, <1>9 DEF HandleElected, SkipRebuild, RebuildDone, InitialSyncPoll, XdsServerStart,
                    BecomeLeader, StatusUpdateHandlerStart, Tick, vars, informerVars,
                    handoffVars, buildVars, statusVars
<1>. QED  BY Zenon, <1>3, <1>4, <1>5, <1>6, <1>7, <1>8, <1>9 DEF Next

\* For every set of kinds, any number of changes and every holdoff, the event
\* handler implements ControlLoop: neither the DAG nor a status ever goes back.
THEOREM Implementation == Spec => ImplementsControlLoop
<1>1. Init => CL!Init
  <2>. SUFFICES ASSUME Init PROVE CL!Init
    BY Zenon
  <2>1. \A k \in Used : api[k] \in {0, 1}
    BY Zenon DEF Init, Used
  <2>2. \A k \in Used : CL!NotOlder(View(api)[k], 0)
    BY <2>1 DEF View, CL!NotOlder, CL!Age
  <2>. QED  BY Zenon, <2>2 DEF Init, CL!Init
<1>2. PipelineTypes /\ PipelineTypes' /\ PipelineInv /\ [Next]_vars =>
        PipelineInv' /\ [CL!Next]_(CL!vars)
  BY Zenon, ImplementationStep
<1>. QED  BY <1>1, <1>2, PipelineInit, TypesOfPipeline, TypeCorrect, PTL
     DEF Spec, ImplementsControlLoop, CL!Spec
=============================================================================
