----------------------- MODULE EndpointSliceTranslator -----------------------
(***************************************************************************)
(* The EndpointSlice translator and the EDS snapshot                       *)
(* (internal/xdscache/v3/endpointslicetranslator.go, snapshot.go).         *)
(*                                                                         *)
(* Two goroutines share the translator.  The event handler calls OnChange  *)
(* after every DAG rebuild; the EndpointSlice informer calls OnAdd,        *)
(* OnUpdate and OnDelete directly, without going through the event handler.*)
(* Each method of the EndpointSliceCache, each access to e.entries and     *)
(* each call on the snapshot cache is atomic under its own mutex; nothing  *)
(* is held between them.  Variables prefixed with h belong to the event    *)
(* handler's goroutine, with i to the informer's.                          *)
(*                                                                         *)
(* The content of a slice is a number, 0 for a slice without endpoints; a  *)
(* cluster load assignment is the set of non-empty slices it was computed  *)
(* from, with their contents.                                              *)
(***************************************************************************)
EXTENDS Integers, Functions

CONSTANTS
  Slices,       \* names of EndpointSlices
  ServiceOf,    \* the service each slice belongs to, by its label
  Dags,         \* what rebuilds may produce: services by cluster name
  MaxContent,   \* bound on the different contents of a slice
  MaxRebuilds,  \* bound on the number of DAG rebuilds
  MaxEvents,    \* bound on the number of informer notifications
  NotCached     \* a slice that is not cached

ASSUME BoundsAssumption == MaxContent \in Nat /\ MaxRebuilds \in Nat /\ MaxEvents \in Nat
ASSUME NotCachedAssumption == NotCached \notin 0 .. MaxContent

VARIABLES
  clusters,        \* EndpointSliceCache.services: services by cluster name
  stale,           \* EndpointSliceCache.stale: names of clusters to recalculate
  endpointSlices,  \* EndpointSliceCache.endpointSlices
  entries,         \* EndpointSliceTranslator.entries
  edsCache,        \* resources of the last EDS snapshot
  hpc, hResult,    \* the event handler's goroutine: next step, local result
  ipc, iResult,    \* the informer's goroutine: next step, local result
  rebuilds, events,
  overlapped,      \* history: a rebuild and a notification overlapped and no
                   \* undisturbed rebuild has followed
  hDisturbed,      \* history: a notification overlapped this rebuild so far
  refreshRaced     \* history: the last Contents of a Refresh was taken while the
                   \* other goroutine had still to store an earlier one

cacheVars   == <<clusters, stale, endpointSlices>>
hVars       == <<hpc, hResult>>
iVars       == <<ipc, iResult>>
historyVars == <<overlapped, hDisturbed, refreshRaced>>
vars == <<cacheVars, entries, edsCache, hVars, iVars, rebuilds, events, historyVars>>

Content == 0 .. MaxContent
Empty   == <<>>           \* the function with an empty domain

-----------------------------------------------------------------------------
(* EndpointSliceCache.                                                     *)

\* The load assignment of a cluster backed by the given services.
Assignment(services, slices) ==
  {<<s, slices[s]>> : s \in {t \in Slices : ServiceOf[t] \in services
                                            /\ slices[t] \notin {NotCached, 0}}}

\* The load assignments of the named clusters.
Assignments(names) == [c \in names |-> Assignment(clusters[c], endpointSlices)]

\* Recalculate's assignment c.stale = nil; its result is Assignments(stale).
Recalculate == stale' = {}

\* The clusters backed by the service of slice s.
affected(s) == {c \in DOMAIN clusters : ServiceOf[s] \in clusters[c]}

\* UpdateEndpointSlice and DeleteEndpointSlice.
MarkStale(s) == stale' = stale \cup affected(s)

-----------------------------------------------------------------------------
(* OnChange, on the event handler's goroutine.                             *)

\* Between the change to the EndpointSliceCache and the one to e.entries.
hPending == hpc \in {"recalculate", "replace"}
iPending == ipc \in {"recalculate", "merge"}

\* Clusters that Validate rejects are dropped.
ValidClusters(d) == Restrict(d, {c \in DOMAIN d : d[c] # {}})

\* All the added clusters are marked stale.
markedStale(d) == DOMAIN ValidClusters(d)

SetClusters(d) ==
  /\ hpc = "idle"
  /\ rebuilds < MaxRebuilds
  /\ rebuilds' = rebuilds + 1
  /\ clusters' = ValidClusters(d)
  /\ stale' = markedStale(d)
  /\ hpc' = "recalculate"
  /\ hDisturbed' = iPending
  /\ overlapped' = (overlapped \/ iPending)
  /\ UNCHANGED <<endpointSlices, entries, edsCache, hResult, iVars, events, refreshRaced>>

hRecalculate ==
  /\ hpc = "recalculate"
  /\ hResult' = Assignments(stale)
  /\ Recalculate
  /\ hpc' = "replace"
  /\ UNCHANGED <<clusters, endpointSlices, entries, edsCache, iVars, rebuilds, events,
                 historyVars>>

Merged(new, old) ==
  [c \in DOMAIN new \cup DOMAIN old |-> IF c \in DOMAIN new THEN new[c] ELSE old[c]]

replacement_Merged == Merged(hResult, entries)

\* The entries are set rather than merged.
replacement == hResult

changed_ByName == DOMAIN replacement # DOMAIN entries

\* !equal(e.entries, entries)
changed == replacement # entries

\* Compare and replace under e.mu; notify and refresh only if changed.
hReplace ==
  /\ hpc = "replace"
  /\ entries' = replacement
  /\ hpc' = IF changed THEN "contents" ELSE "idle"
  /\ hResult' = Empty
  /\ overlapped' = (overlapped /\ hDisturbed)
  /\ hDisturbed' = FALSE
  /\ UNCHANGED <<cacheVars, edsCache, iVars, rebuilds, events, refreshRaced>>

-----------------------------------------------------------------------------
(* OnAdd, OnUpdate, OnDelete, on the informer's goroutine.                 *)

\* The notification changes the cache entry of s; the handler goes on only
\* when a cluster uses the slice.
Notified(s, content) ==
  /\ ipc = "idle"
  /\ events < MaxEvents
  /\ events' = events + 1
  /\ endpointSlices' = [endpointSlices EXCEPT ![s] = content]
  /\ MarkStale(s)
  /\ ipc' = IF affected(s) # {} THEN "recalculate" ELSE "idle"
  /\ hDisturbed' = (hDisturbed \/ (hPending /\ affected(s) # {}))
  /\ overlapped' = (overlapped \/ (hPending /\ affected(s) # {}))
  /\ UNCHANGED <<clusters, entries, edsCache, hVars, iResult, rebuilds, refreshRaced>>

OnAdd(s, content) == endpointSlices[s] = NotCached /\ Notified(s, content)

\* Neither the old nor the new object has endpoints.
noEndpoints(s, content) == endpointSlices[s] = 0 /\ content = 0

OnUpdate(s, content) ==
  /\ endpointSlices[s] # NotCached
  /\ ~noEndpoints(s, content)
  /\ Notified(s, content)

\* A tombstone (DeletedFinalStateUnknown) is handled like the object in it.
OnDelete(s) == endpointSlices[s] # NotCached /\ Notified(s, NotCached)

iRecalculate ==
  /\ ipc = "recalculate"
  /\ iResult' = Assignments(stale)
  /\ Recalculate
  /\ ipc' = "merge"
  /\ UNCHANGED <<clusters, endpointSlices, entries, edsCache, hVars, rebuilds, events,
                 historyVars>>

Merge ==
  /\ ipc = "merge"
  /\ entries' = Merged(iResult, entries)
  /\ iResult' = Empty
  /\ ipc' = "contents"
  /\ UNCHANGED <<cacheVars, edsCache, hVars, rebuilds, events, historyVars>>

-----------------------------------------------------------------------------
(* SnapshotHandler.Refresh, on either goroutine: Contents, then            *)
(* SetSnapshot.  Cond.Notify, called just before, is in module XdsStream.  *)

hContents ==
  /\ hpc = "contents"
  /\ hResult' = entries
  /\ hpc' = "set"
  /\ refreshRaced' = (ipc = "set")
  /\ UNCHANGED <<cacheVars, entries, edsCache, iVars, rebuilds, events, overlapped,
                 hDisturbed>>

hSetSnapshot ==
  /\ hpc = "set"
  /\ edsCache' = hResult
  /\ hResult' = Empty
  /\ hpc' = "idle"
  /\ UNCHANGED <<cacheVars, entries, iVars, rebuilds, events, historyVars>>

iContents ==
  /\ ipc = "contents"
  /\ iResult' = entries
  /\ ipc' = "set"
  /\ refreshRaced' = (hpc = "set")
  /\ UNCHANGED <<cacheVars, entries, edsCache, hVars, rebuilds, events, overlapped,
                 hDisturbed>>

iSetSnapshot ==
  /\ ipc = "set"
  /\ edsCache' = iResult
  /\ iResult' = Empty
  /\ ipc' = "idle"
  /\ UNCHANGED <<cacheVars, entries, hVars, rebuilds, events, historyVars>>

-----------------------------------------------------------------------------

Init ==
  /\ clusters = Empty
  /\ stale = {}
  /\ endpointSlices = [s \in Slices |-> NotCached]
  /\ entries = Empty
  /\ edsCache = Empty
  /\ hpc = "idle" /\ hResult = Empty
  /\ ipc = "idle" /\ iResult = Empty
  /\ rebuilds = 0 /\ events = 0
  /\ overlapped = FALSE /\ hDisturbed = FALSE /\ refreshRaced = FALSE

Next ==
  \/ \E d \in Dags : SetClusters(d)
  \/ hRecalculate
  \/ hReplace
  \/ hContents
  \/ hSetSnapshot
  \/ \E s \in Slices, content \in Content : OnAdd(s, content) \/ OnUpdate(s, content)
  \/ \E s \in Slices : OnDelete(s)
  \/ iRecalculate
  \/ Merge
  \/ iContents
  \/ iSetSnapshot

Spec == Init /\ [][Next]_vars

-----------------------------------------------------------------------------
(* Properties.                                                             *)

UpToDate == entries = Assignments(DOMAIN clusters)

\* The load assignments are those of the current clusters and slices whenever
\* both goroutines are through with the caches, provided that no notification
\* overlapped a rebuild since the last undisturbed one: a rebuild alone repairs
\* whatever an earlier overlap left behind, clusters the DAG no longer has
\* included.
ConsistentUnlessOverlapped == ~hPending /\ ~iPending /\ ~overlapped => UpToDate

\* The EDS snapshot is what the translator holds whenever neither goroutine is
\* in Refresh, provided that the last Refresh did not read while the other
\* goroutine still had an older content to store.
SnapshotUnlessRaced ==
  ~({hpc, ipc} \cap {"contents", "set"} # {}) /\ ~refreshRaced => edsCache = entries

\* OnChange: "Since we reset the cluster cache above, all the load assignments
\* will be recalculated and we can just set the entries rather than merging
\* them."
OnChangeSetsEveryCluster ==
  [][hpc = "replace" /\ hpc' # "replace" => DOMAIN entries' = DOMAIN clusters]_vars
=============================================================================
