-------------------------- MODULE StatusConditions --------------------------
(***************************************************************************)
(* What a status update says and does (internal/status): the verdicts of   *)
(* a build are committed to the status cache, which hands out one update   *)
(* for each entry, and the mutator of an update merges it into the object  *)
(* as the API server has it.  How updates travel and are retried is        *)
(* module StatusUpdates.                                                   *)
(*                                                                         *)
(* Several instances of Contour write statuses when leader election is     *)
(* disabled, and other controllers write theirs.  A condition is a record  *)
(* [ref, type, gen, status, by]: ref is the parent or ancestor it is for   *)
(* (Self for an HTTPProxy, an ExtensionService or a Gateway, Listener for  *)
(* a listener of a Gateway), gen its observedGeneration, status one of     *)
(* "True", "False" and "Orphaned" (False with an orphan error).            *)
(***************************************************************************)
EXTENDS Integers, Sequences, FiniteSets

CONSTANTS Mixes,      \* the sets of objects to consider: [kind, ns, name, refs]
          Instances,  \* the Contour instances
          Gateway,    \* the Gateway they serve: [ns, name]
          MaxGen      \* bound on the edits of an object

VARIABLES objs,       \* the objects there are
          api,        \* the objects at the API server: [gen, conds, current]
          seen,       \* what each instance's cache has of them: [gen, existing]
          pending,    \* the updates each instance has yet to write
          built       \* the generation of each object at the last build of an instance, 0 before

statusVars == <<objs, api, seen, pending, built>>

Self == [kind |-> "self", ns |-> "", name |-> ""]
Listener == [Self EXCEPT !.kind = "listener"]
Condition(ref, type, gen, status, by) ==
  [ref |-> ref, type |-> type, gen |-> gen, status |-> status, by |-> by]

\* The kinds of routes, in the order a build visits them.
RouteOrder == [HTTPRoute |-> 1, TLSRoute |-> 2, GRPCRoute |-> 3, TCPRoute |-> 4]
IsRoute(kind) == kind \in DOMAIN RouteOrder

\* The kinds are those of the status cache, and only routes and policies have refs; a ref to a
\* Gateway of the name of ours has a namespace unless that Gateway is meant; no two objects of a
\* kind have one namespace and name.
ASSUME MixesAssumption ==
  \A mix \in Mixes :
    /\ IsFiniteSet(mix)
    /\ \A o \in mix :
         /\ IsRoute(o.kind) \/ o.kind = "BackendTLSPolicy"
            \/ (o.kind \in {"HTTPProxy", "ExtensionService", "Gateway"} /\ o.refs = {})
         /\ \A ref \in o.refs : ref.name = Gateway.name /\ ref.ns = "" => o.ns = Gateway.ns
    /\ \A o, p \in mix : o.kind = p.kind /\ o.ns = p.ns /\ o.name = p.name => o = p

\* A ref without a namespace passes for a ref to the Gateway of that name, in any namespace.
IsRefToGateway(ref, gw) ==
  /\ ref.kind \in {"", "Gateway"}
  /\ ref.ns \in {"", gw.ns}
  /\ ref.name = gw.name

-----------------------------------------------------------------------------
(* The updates and the cache *)

\* AddCondition of the Gateway, route and policy updates, for some refs: one condition of a type
\* for a ref.
AddCondition(upd, refs, type, status) ==
  [upd EXCEPT !.conds = {c \in @ : c.ref \notin refs \/ c.type # type}
                        \cup {Condition(ref, type, upd.gen, status, "contour") : ref \in refs}]

NewUpdate(o, object) ==
  [obj |-> o, gen |-> object.gen, conds |-> {}, existing |-> object.existing]

Valid(upd) == (CHOOSE c \in upd.conds : c.type = "Valid").status

\* ProxyAccessor's commit: a proxy that was found invalid is not made valid by a later visit.
CommitProxy(cache, upd) ==
  LET earlier == {u \in cache : u.obj = upd.obj}
  IN IF upd.conds = {} \/ (Valid(upd) = "True" /\ \E u \in earlier : Valid(u) # "True")
     THEN cache
     ELSE (cache \ earlier) \cup {upd}

Store(cache, upd) ==
  {u \in cache : u.obj.kind # upd.obj.kind \/ u.obj.ns # upd.obj.ns \/ u.obj.name # upd.obj.name} \cup {upd}

\* GatewayStatusAccessor's commit.
CommitGateway(cache, upd) == IF upd.conds = {} THEN cache ELSE Store(cache, upd)

\* BackendTLSPolicyConditionsAccessor's commit.
CommitPolicy(cache, upd) == IF upd.conds = {} THEN cache ELSE Store(cache, upd)

\* ExtensionAccessor: the entry is stored, with conditions or without.
PutExtension(cache, upd) == Store(cache, upd)

\* RouteConditionsAccessor's commit: one map for all the kinds of routes.
CommitRoute(cache, upd) ==
  IF upd.conds = {} THEN cache
  ELSE {u \in cache : ~IsRoute(u.obj.kind) \/ u.obj.ns # upd.obj.ns \/ u.obj.name # upd.obj.name} \cup {upd}

Commit(cache, upd) ==
  CASE upd.obj.kind = "HTTPProxy" -> CommitProxy(cache, upd)
    [] upd.obj.kind = "Gateway" -> CommitGateway(cache, upd)
    [] upd.obj.kind = "ExtensionService" -> PutExtension(cache, upd)
    [] upd.obj.kind = "BackendTLSPolicy" -> CommitPolicy(cache, upd)
    [] OTHER -> CommitRoute(cache, upd)

\* The refs of an object that a build sets conditions for.
RefsOf(o) ==
  IF o.kind \in {"HTTPProxy", "ExtensionService", "Gateway"} THEN {Self}
  ELSE {r \in o.refs : IsRefToGateway(r, Gateway)}

TypeOf(o) == IF o.kind \in {"HTTPProxy", "ExtensionService"} THEN "Valid" ELSE "Accepted"

\* The processors' verdict on one visit of an object: a Gateway may also get a Programmed
\* condition and a condition of its listener.
Verdict(o, object, v) ==
  LET base == AddCondition(NewUpdate(o, object), RefsOf(o), TypeOf(o), v.status)
  IN IF o.kind = "Gateway" /\ v.more
     THEN AddCondition(AddCondition(base, {Self}, "Programmed", v.status), {Listener}, "Accepted", v.status)
     ELSE base

\* A build visits the objects of its cache in the order of a map, but the routes last and by kind.
Rank(o) == IF IsRoute(o.kind) THEN RouteOrder[o.kind] ELSE 0
VisitOrders(S) ==
  {order \in [1..Cardinality(S) -> S] :
     /\ \A o \in S : \E k \in DOMAIN order : order[k] = o
     /\ \A j, k \in DOMAIN order : j < k => Rank(order[j]) <= Rank(order[k])}

\* A proxy is visited once for each chain that leads to it, here at most twice.
Visit(cache, o, object, verdicts) ==
  LET once == Commit(cache, Verdict(o, object, verdicts[1]))
  IN IF Len(verdicts) = 1 THEN once ELSE Commit(once, Verdict(o, object, verdicts[2]))

\* NewCache, and the status cache after each of the visits.
StatusCache(objects, verdicts, order) ==
  LET cache[k \in 0..Len(order)] ==
        IF k = 0 THEN {} ELSE Visit(cache[k - 1], order[k], objects[order[k]], verdicts[order[k]])
  IN cache

GetStatusUpdates_NoPolicies(objects, verdicts, order) ==
  {u \in StatusCache(objects, verdicts, order)[Len(order)] : u.obj.kind # "BackendTLSPolicy"}

GetStatusUpdates(objects, verdicts, order) == StatusCache(objects, verdicts, order)[Len(order)]

-----------------------------------------------------------------------------
(* The mutators *)

At(conds, c) == {d \in conds : d.ref = c.ref /\ d.type = c.type}

MutateProxy_Always(upd, conds) ==
  {d \in conds : \A c \in upd.conds : d \notin At(conds, c)} \cup upd.conds

\* ProxyUpdate.Mutate: a condition that was observed at a later generation stays; conditions of
\* other types stay.
MutateProxy(upd, conds) ==
  LET applied == {c \in upd.conds : \A d \in At(conds, c) : d.gen <= c.gen}
  IN {d \in conds : \A c \in applied : d \notin At(conds, c)} \cup applied

\* The mutator of ExtensionCacheEntry.AsStatusUpdate goes by the same rule.
MutateExtension(upd, conds) == MutateProxy(upd, conds)

CurrentStatus(conds) ==
  LET valid == CHOOSE c \in conds : c.type = "Valid"
  IN CASE valid.status = "True" -> "valid" [] valid.status = "Orphaned" -> "orphaned" [] OTHER -> "invalid"

\* GatewayStatusUpdate.Mutate: newer conditions are looked for among those the build saw, and
\* what it did not compute is dropped.
MutateGateway(upd) ==
  {IF c.ref = Self /\ \E d \in At(upd.existing, c) : d.gen > c.gen
   THEN CHOOSE d \in At(upd.existing, c) : d.gen > c.gen
   ELSE c : c \in upd.conds}

MutateRoute_OursOnly(upd, conds) == upd.conds

\* RouteStatusUpdate.Mutate: the conditions for other Gateways stay, the others are replaced.
MutateRoute(upd, conds) ==
  upd.conds \cup {d \in conds : ~IsRefToGateway(d.ref, Gateway)}

\* BackendTLSPolicyStatusUpdate.Mutate does the same with ancestors.
MutatePolicy(upd, conds) == MutateRoute(upd, conds)

MutateObject(upd, object) ==
  LET kind == upd.obj.kind
      conds == CASE kind = "HTTPProxy" -> MutateProxy(upd, object.conds)
                 [] kind = "ExtensionService" -> MutateExtension(upd, object.conds)
                 [] kind = "Gateway" -> MutateGateway(upd)
                 [] kind = "BackendTLSPolicy" -> MutatePolicy(upd, object.conds)
                 [] OTHER -> MutateRoute(upd, object.conds)
  IN [gen |-> object.gen, conds |-> conds,
      current |-> IF kind = "HTTPProxy" THEN CurrentStatus(conds) ELSE object.current]

-----------------------------------------------------------------------------
StatusInit ==
  /\ objs \in Mixes
  /\ api = [o \in objs |-> [gen |-> 1, conds |-> {}, current |-> "NotReconciled"]]
  /\ seen = [i \in Instances |-> [o \in objs |-> [gen |-> 0, existing |-> {}]]]
  /\ pending = [i \in Instances |-> {}]
  /\ built = [i \in Instances |-> [o \in objs |-> 0]]

\* A user changes the spec.
Edit(o) ==
  /\ api[o].gen < MaxGen
  /\ api' = [api EXCEPT ![o].gen = @ + 1]
  /\ UNCHANGED <<objs, seen, pending, built>>

\* What a build reads of an object: its spec, and the conditions of a Gateway
\* (getGatewayConditions).
View(o) == [gen |-> api[o].gen,
            existing |-> IF o.kind = "Gateway" THEN {c \in api[o].conds : c.ref = Self} ELSE {}]

\* The informer of an instance catches up with an object.
Observe(i, o) ==
  /\ seen[i][o] # View(o)
  /\ seen' = [seen EXCEPT ![i][o] = View(o)]
  /\ UNCHANGED <<objs, api, pending, built>>

\* The verdicts a build may reach: proxies are visited once or twice, and nothing depends on
\* the status of a route's or policy's condition.
Verdicts(o) ==
  LET v(s) == [status |-> s, more |-> FALSE]
  IN CASE o.kind = "HTTPProxy" -> {<<v("True")>>, <<v("Orphaned")>>, <<v("False"), v("True")>>}
       [] o.kind = "ExtensionService" -> {<<v("True")>>, <<v("False")>>}
       [] o.kind = "Gateway" -> {<<[status |-> "True", more |-> TRUE]>>, <<v("False")>>}
       [] OTHER -> {<<v("True")>>}

Build(i) ==
  /\ pending[i] = {}
  /\ \E verdicts \in {f \in [objs -> UNION {Verdicts(o) : o \in objs}] : \A o \in objs : f[o] \in Verdicts(o)} :
       \E order \in VisitOrders({o \in objs : seen[i][o].gen > 0}) :
         pending' = [pending EXCEPT ![i] = GetStatusUpdates(seen[i], verdicts, order)]
  /\ built' = [built EXCEPT ![i] = [o \in objs |-> seen[i][o].gen]]
  /\ UNCHANGED <<objs, api, seen>>

\* The status handler applies an update to the object as it is: a conflict makes it try again.
Write(i, upd) ==
  /\ pending' = [pending EXCEPT ![i] = @ \ {upd}]
  /\ api' = [api EXCEPT ![upd.obj] = MutateObject(upd, @)]
  /\ UNCHANGED <<objs, seen, built>>

\* What a ref means: without a namespace it is local to the object.
RefersToGateway(o, ref) ==
  IsRefToGateway([kind |-> ref.kind, ns |-> IF ref.ns = "" THEN o.ns ELSE ref.ns, name |-> ref.name], Gateway)

\* Another controller accepts a route or policy for a Gateway of its own.
OtherController(o, ref) ==
  LET c == Condition(ref, "Accepted", api[o].gen, "True", "other")
  IN /\ ref \in o.refs /\ ~RefersToGateway(o, ref)
     /\ c \notin api[o].conds
     /\ api' = [api EXCEPT ![o].conds = {d \in @ : d.ref # ref} \cup {c}]
     /\ UNCHANGED <<objs, seen, pending, built>>

StatusNext ==
  \/ \E o \in objs : Edit(o) \/ \E ref \in o.refs : OtherController(o, ref)
  \/ \E i \in Instances : \/ \E o \in objs : Observe(i, o)
                          \/ Build(i)
                          \/ \E upd \in pending[i] : Write(i, upd)

StatusSpec == StatusInit /\ [][StatusNext]_statusVars

-----------------------------------------------------------------------------
Detailed == {o \in objs : o.kind \in {"HTTPProxy", "ExtensionService"}}

\* What takes the place of a condition of an HTTPProxy or ExtensionService is a condition of its
\* type that was observed at the same or a later generation (ProxyUpdate.Mutate,
\* ExtensionCacheEntry.AsStatusUpdate), however late an instance writes what it found: a verdict
\* on a later generation is never replaced by one on an earlier generation.
NewerVerdictStandsStep ==
  \A o \in Detailed : \A c \in api[o].conds \ api'[o].conds :
    \E d \in At(api'[o].conds, c) : c.gen <= d.gen
NewerVerdictStands == [][NewerVerdictStandsStep]_statusVars

Shadowed(o) ==
  \E p \in objs \ {o} : IsRoute(o.kind) /\ IsRoute(p.kind) /\ p.name = o.name /\ p.ns = o.ns

Reported(i, o) ==
  built[i][o] > 0 /\ RefsOf(o) # {} =>
    \/ \E upd \in pending[i] : upd.obj = o /\ upd.gen = built[i][o]
    \/ \E c \in api[o].conds : c.by = "contour"

\* Whatever a build found out about an object is on its way to the API server or was written
\* (the commit functions and GetStatusUpdates), unless a route of another kind has the same
\* namespace and name: RouteConditionsAccessor keeps all routes in one map, and the last to be
\* processed is the only one that is reported.
ReportedUnlessShadowed == \A i \in Instances, o \in objs : ~Shadowed(o) => Reported(i, o)

OthersConditions(object) == {c \in object.conds : c.by = "other"}

\* A Contour write leaves the conditions that are for other Gateways alone
\* (RouteStatusUpdate.Mutate, BackendTLSPolicyStatusUpdate.Mutate): only another controller
\* changes them.  (Refs to other Gateways that have the name of ours and no namespace are
\* taken for refs to ours; the objects have none of these.)
OtherGatewaysKeptStep ==
  \A o \in objs : OthersConditions(api[o]) # OthersConditions(api'[o]) =>
    \E ref \in o.refs : OtherController(o, ref)
OtherGatewaysKept == [][OtherGatewaysKeptStep]_statusVars
=============================================================================
