---------------------------- MODULE CachesProofs ----------------------------
(***************************************************************************)
(* Proofs about what follows the informers, for any objects, classes and   *)
(* slices: a change KubernetesCache does not report leaves every look-up   *)
(* it searches for unchanged; the GatewayClass it caches is the Gateway's  *)
(* once the events of both informers are handled; the entries of           *)
(* EndpointSliceTranslator are those of its slices.                        *)
(***************************************************************************)
EXTENDS KubernetesCache, GatewayClassCache, EndpointSliceTranslator, SequenceTheorems, TLAPS

-----------------------------------------------------------------------------
(* KubernetesCache *)

Caches == [Objects -> ObjectContent \cup {Absent}]

\* What o being y, before or after a change, means to the search.
Matters(c, o, y) ==
  /\ y # Absent
  /\ KindOf[o] = "Secret" => secretTriggersRebuild(c, o, y)
  /\ KindOf[o] = "ConfigMap" => configMapTriggersRebuild(c, o)
  /\ KindOf[o] = "Service" => serviceTriggersRebuild(c, o)
  /\ KindOf[o] = "Route" => routeTriggersRebuild(c, y)

\* Contents of a cached object are contents it may have.
Possible(c) == \A o \in Objects : c[o] \in Contents[o] \cup {Absent}

Watched == Fields \ {"mirror", "extension"}

\* One object changes from a value that does not matter to another.
Silent(c, d, o) ==
  /\ c \in Caches /\ d \in Caches /\ Possible(c) /\ Possible(d)
  /\ \A p \in Objects \ {o} : d[p] = c[p]
  /\ ~Matters(c, o, c[o]) /\ ~Matters(c, o, d[o])

\* The objects that carry references are then read as before.
LEMMA SilentItself ==
  ASSUME NEW c, NEW d, NEW o \in Objects, Silent(c, d, o), c[o] # d[o],
         NEW p \in Referring
  PROVE  Itself(c, p) = Itself(d, p) /\ (Processed(c, p) <=> Processed(d, p))
<1>1. Cached(c, "Gateway") = Cached(d, "Gateway")
  BY Zenon DEF Silent, Matters, Cached, Caches
<1>2. CASE p # o
  BY Zenon, <1>1, <1>2 DEF Itself, Processed, Silent, Referring
<1>3. CASE p = o
  <2>1. KindOf[o] = "Route"
    BY Zenon, <1>3 DEF Silent, Matters, Referring
  <2>2. ~Processed(c, o) /\ ~Processed(d, o)
    BY Zenon, <2>1, <1>1 DEF Silent, Matters, Processed, routeTriggersRebuild
  <2> QED BY Zenon, <1>3, <2>2 DEF Itself
<1> QED BY Zenon, <1>2, <1>3

\* And so is what their watched fields name.
LEMMA SilentLookUp ==
  ASSUME NEW c, NEW d, NEW o \in Objects, Silent(c, d, o), c[o] # d[o],
         NEW p \in Referring, NEW t \in Objects, NEW field \in Watched
  PROVE  LookUp(c, p, field, t) = LookUp(d, p, field, t)
<1>1. p \in Objects /\ Itself(c, p) = Itself(d, p) /\ (Processed(c, p) <=> Processed(d, p))
  BY Zenon, SilentItself DEF Referring
<1>2. Reads(c, p, field, t) <=> Reads(d, p, field, t)
  BY Zenon, <1>1 DEF Reads, Itself, Refers
<1>3. CASE ~Reads(c, p, field, t)
  BY Zenon, <1>2, <1>3 DEF LookUp
<1>4. CASE Reads(c, p, field, t) /\ t # o
  BY <1>2, <1>4 DEF LookUp, Resolve, Silent
<1>5. CASE Reads(c, p, field, t) /\ t = o
  <2>1. c[p] \in Contents[p] /\ <<field, o>> \in c[p].refs /\ c[p] # Absent
    BY Zenon, <1>1, <1>5 DEF Reads, Processed, Refers, Silent, Possible
  <2>2. KindOf[p] \in DOMAIN FieldsOf /\ field \in FieldsOf[KindOf[p]]
        /\ KindOf[o] = TargetOf[field]
    BY <1>1, <2>1, CacheAssumption
  <2>3. CASE field = "backend"
    <3>1. KindOf[o] = "Service"
      BY Zenon, <2>2, <2>3 DEF TargetOf
    <3>2. KindOf[p] \in {"Ingress", "HTTPProxy", "Route"}
      BY <2>2, <2>3 DEF FieldsOf
    <3>3. serviceTriggersRebuild(c, o)
      BY Zenon, <1>1, <2>1, <2>3, <3>2 DEF serviceTriggersRebuild, Cached, Refers
    <3> QED BY <3>1, <3>3 DEF Silent, Matters
  <2>4. CASE field \in {"tls", "crl"}
    <3>1. KindOf[o] = "Secret"
      BY <2>2, <2>4 DEF TargetOf
    <3>2. \/ KindOf[p] \in {"Ingress", "Gateway"} /\ field = "tls"
          \/ KindOf[p] = "HTTPProxy" /\ c[p].root
      BY <2>2, <2>4, <1>5 DEF FieldsOf, Reads
    <3>3. \A y : secretTriggersRebuild(c, o, y)
      BY Zenon, <1>1, <2>1, <2>4, <3>2 DEF secretTriggersRebuild, Cached, Refers
    <3> QED BY <3>1, <3>3 DEF Silent, Matters
  <2>5. CASE field = "ca"
    <3>1. KindOf[o] = "Secret"
      BY Zenon, <2>2, <2>5 DEF TargetOf
    <3>2. (c[o] # Absent => ~c[o].ca) /\ (d[o] # Absent => ~d[o].ca)
      BY Zenon, <3>1 DEF Silent, Matters, secretTriggersRebuild
    <3> QED BY Zenon, <3>2, <2>5, <1>5, <1>2 DEF LookUp, Resolve
  <2>6. CASE field = "configmap"
    <3>1. KindOf[o] = "ConfigMap"
      BY Zenon, <2>2, <2>6 DEF TargetOf
    <3>2. KindOf[p] = "BackendTLSPolicy"
      BY <2>2, <2>6 DEF FieldsOf
    <3>3. configMapTriggersRebuild(c, o)
      BY Zenon, <1>1, <2>1, <2>6, <3>2 DEF configMapTriggersRebuild, Cached, Refers
    <3> QED BY <3>1, <3>3 DEF Silent, Matters
  <2> QED BY Zenon, <2>3, <2>4, <2>5, <2>6 DEF Watched, Fields
<1> QED BY Zenon, <1>3, <1>4, <1>5

\* The search does not depend on the object that is searched for.
LEMMA SearchIgnoresTarget ==
  ASSUME NEW c \in Caches, NEW d \in Caches, NEW o \in Objects, NEW y,
         \A p \in Objects \ {o} : d[p] = c[p], Matters(c, o, y)
  PROVE  Matters(d, o, y)
<1>1. \A kind : kind # KindOf[o] => Cached(c, kind) = Cached(d, kind)
  BY Zenon DEF Cached
<1>2. \A p \in Objects : KindOf[p] # KindOf[o] => d[p] = c[p]
  BY Zenon
<1>3. KindOf[o] = "Secret" => secretTriggersRebuild(d, o, y)
  <2>1. CASE y.ca \/ o \in Configured
    BY Zenon, <2>1 DEF secretTriggersRebuild
  <2> QED BY Zenon, <1>1, <1>2, <2>1 DEF Matters, secretTriggersRebuild, Refers, Cached
<1>4. KindOf[o] = "ConfigMap" => configMapTriggersRebuild(d, o)
  BY Zenon, <1>1, <1>2 DEF Matters, configMapTriggersRebuild, Refers, Cached
<1>5. KindOf[o] = "Service" => serviceTriggersRebuild(d, o)
  BY Zenon, <1>1, <1>2 DEF Matters, serviceTriggersRebuild, Refers, Cached
<1>6. KindOf[o] = "Route" => routeTriggersRebuild(d, y)
  BY Zenon, <1>1 DEF Matters, routeTriggersRebuild
<1> QED BY Zenon, <1>3, <1>4, <1>5, <1>6 DEF Matters

\* What Insert and Remove report covers what matters.
LEMMA ReportedWhatMatters ==
  ASSUME NEW c \in Caches, NEW o \in Objects, NEW y \in Contents[o]
  PROVE  /\ Accepted(o, y) /\ Matters(c, o, y) => Insert(c, o, y)
         /\ c[o] = y /\ Matters(c, o, y) => Remove(c, o, y)
<1>1. Accepted(o, y) /\ Matters(c, o, y) => Insert(c, o, y)
  BY Zenon DEF Accepted, Matters, Insert
<1>2. c[o] = y /\ Matters(c, o, y) => Remove(c, o, y)
  BY Zenon DEF Matters, Remove
<1> QED BY Zenon, <1>1, <1>2

\* A change from c to d at o keeps the DAG current when it is not reported.
LEMMA SilentStep ==
  ASSUME NEW c \in Caches, NEW d \in Caches, NEW o \in Objects,
         Possible(c), Possible(d), \A p \in Objects \ {o} : d[p] = c[p],
         c[o] # Absent => ~Remove(c, o, c[o]),
         d[o] # Absent => Accepted(o, d[o]) /\ ~Insert(d, o, d[o])
  PROVE  /\ \A p \in Referring : Itself(c, p) = Itself(d, p)
         /\ \A p \in Referring, t \in Objects : \A field \in Watched :
              LookUp(c, p, field, t) = LookUp(d, p, field, t)
         /\ \A t \in Configured : c[t] = d[t]
<1>1. CASE c[o] = d[o]
  <2>1. c = d
    BY <1>1 DEF Caches
  <2> QED BY Zenon, <2>1
<1>2. CASE c[o] # d[o]
  <2>1. ~Matters(c, o, c[o])
    BY Zenon, ReportedWhatMatters DEF Possible, Matters
  <2>2. ~Matters(d, o, d[o])
    BY Zenon, ReportedWhatMatters DEF Possible, Matters
  <2>3. ~Matters(c, o, d[o])
    BY Zenon, <2>2, SearchIgnoresTarget
  <2>4. Silent(c, d, o)
    BY Zenon, <2>1, <2>3 DEF Silent
  <2>5. ASSUME o \in Configured PROVE FALSE
    <3>1. KindOf[o] = "Secret"
      BY Zenon, <2>5, CacheAssumption
    <3>2. \A y : secretTriggersRebuild(c, o, y)
      BY Zenon, <2>5 DEF secretTriggersRebuild
    <3> QED BY <1>2, <2>1, <2>3, <3>1, <3>2 DEF Matters
  <2>6. \A t \in Configured : t \in Objects /\ t # o
    BY Zenon, <2>5, CacheAssumption
  <2> QED BY Zenon, <1>2, <2>4, <2>6, SilentItself, SilentLookUp
<1> QED BY Zenon, <1>1, <1>2

-----------------------------------------------------------------------------
Inv == TypeOK /\ DagCurrent

LEMMA InitInv == CacheInit => Inv
<1> SUFFICES ASSUME CacheInit PROVE Inv
  BY Zenon
<1>1. TypeOK
  BY Zenon DEF CacheInit, TypeOK
<1>2. DagCurrent
  BY Zenon, CacheAssumption DEF CacheInit, DagCurrent, CurrentFor
<1> QED BY Zenon, <1>1, <1>2 DEF Inv

LEMMA TypeStep == TypeOK /\ [CacheNext]_objectVars => TypeOK'
<1> SUFFICES ASSUME TypeOK, [CacheNext]_objectVars PROVE TypeOK'
  BY Zenon
<1>1. ASSUME NEW o \in Objects, NEW new \in Contents[o], opAdd(o, new) PROVE TypeOK'
  <2>1. new \in ObjectContent /\ new # Absent
    BY Zenon, CacheAssumption
  <2>2. cluster' \in [Objects -> ObjectContent \cup {Absent}]
        /\ cache' \in [Objects -> ObjectContent \cup {Absent}]
        /\ built' \in [Objects -> ObjectContent \cup {Absent}]
    BY Zenon, <1>1, <2>1 DEF opAdd, TypeOK, Inserted
  <2>3. pending' \in BOOLEAN
    BY Zenon, <1>1 DEF opAdd
  <2>4. ASSUME NEW p \in Objects
        PROVE  /\ cluster'[p] \in Contents[p] \cup {Absent}
               /\ cache'[p] = IF cluster'[p] # Absent /\ Accepted(p, cluster'[p])
                              THEN cluster'[p] ELSE Absent
               /\ KindOf[p] = "ConfigMap" /\ cache'[p] # Absent => cache'[p].ca
    BY Zenon, <1>1, <2>1 DEF opAdd, TypeOK, Inserted, Accepted
  <2> QED BY Zenon, <2>2, <2>3, <2>4 DEF TypeOK
<1>2. ASSUME NEW o \in Objects, NEW new \in Contents[o], opUpdate(o, new) PROVE TypeOK'
  <2>1. new \in ObjectContent /\ new # Absent
    BY Zenon, CacheAssumption
  <2>2. cluster' \in [Objects -> ObjectContent \cup {Absent}]
        /\ cache' \in [Objects -> ObjectContent \cup {Absent}]
        /\ built' \in [Objects -> ObjectContent \cup {Absent}]
    BY Zenon, <1>2, <2>1 DEF opUpdate, updateCache, TypeOK, Inserted, Removed
  <2>3. pending' \in BOOLEAN
    BY Zenon, <1>2 DEF opUpdate
  <2>4. ASSUME NEW p \in Objects
        PROVE  /\ cluster'[p] \in Contents[p] \cup {Absent}
               /\ cache'[p] = IF cluster'[p] # Absent /\ Accepted(p, cluster'[p])
                              THEN cluster'[p] ELSE Absent
               /\ KindOf[p] = "ConfigMap" /\ cache'[p] # Absent => cache'[p].ca
    BY Zenon, <1>2, <2>1 DEF opUpdate, updateCache, TypeOK, Inserted, Removed, Accepted
  <2> QED BY Zenon, <2>2, <2>3, <2>4 DEF TypeOK
<1>3. ASSUME NEW o \in Objects, opDelete(o) PROVE TypeOK'
  <2>1. cluster' \in [Objects -> ObjectContent \cup {Absent}]
        /\ cache' \in [Objects -> ObjectContent \cup {Absent}]
        /\ built' \in [Objects -> ObjectContent \cup {Absent}]
    BY Zenon, <1>3 DEF opDelete, TypeOK, Removed
  <2>2. pending' \in BOOLEAN
    BY Zenon, <1>3 DEF opDelete
  <2>3. ASSUME NEW p \in Objects
        PROVE  /\ cluster'[p] \in Contents[p] \cup {Absent}
               /\ cache'[p] = IF cluster'[p] # Absent /\ Accepted(p, cluster'[p])
                              THEN cluster'[p] ELSE Absent
               /\ KindOf[p] = "ConfigMap" /\ cache'[p] # Absent => cache'[p].ca
    BY Zenon, <1>3 DEF opDelete, TypeOK, Removed
  <2> QED BY Zenon, <2>1, <2>2, <2>3 DEF TypeOK
<1>4. CASE Build
  BY Zenon, <1>4 DEF Build, TypeOK
<1>5. CASE UNCHANGED objectVars
  BY Zenon, <1>5 DEF objectVars, TypeOK
<1> QED BY Zenon, <1>1, <1>2, <1>3, <1>4, <1>5 DEF CacheNext

\* The changes DagCurrent may lean on, for one object and its old and new value.
LEMMA ChangeKeepsCurrent ==
  ASSUME TypeOK, TypeOK', DagCurrent, NEW o \in Objects,
         \A p \in Objects \ {o} : cache'[p] = cache[p],
         built' = built, ~pending' => ~pending,
         ~pending' /\ cache[o] # Absent => ~Remove(cache, o, cache[o]),
         ~pending' /\ cache'[o] # Absent => ~Insert(cache', o, cache'[o])
  PROVE  DagCurrent'
<1> SUFFICES ASSUME ~pending' PROVE CurrentFor(Watched)'
  BY Zenon DEF DagCurrent, Watched
<1>1. cache \in Caches /\ cache' \in Caches
  BY Zenon DEF TypeOK, Caches
<1>2. Possible(cache) /\ Possible(cache')
  BY Zenon DEF TypeOK, Possible
<1>3. cache'[o] # Absent => Accepted(o, cache'[o])
  BY Zenon DEF TypeOK
<1>4. /\ \A p \in Referring : Itself(cache, p) = Itself(cache', p)
      /\ \A p \in Referring, t \in Objects : \A field \in Watched :
           LookUp(cache, p, field, t) = LookUp(cache', p, field, t)
      /\ \A t \in Configured : cache[t] = cache'[t]
  BY Zenon, <1>1, <1>2, <1>3, SilentStep
<1>5. CurrentFor(Watched)
  BY Zenon DEF DagCurrent, Watched
<1> QED BY <1>4, <1>5 DEF CurrentFor

LEMMA CurrentStep == TypeOK /\ TypeOK' /\ DagCurrent /\ [CacheNext]_objectVars => DagCurrent'
<1> SUFFICES ASSUME TypeOK, TypeOK', DagCurrent, [CacheNext]_objectVars PROVE DagCurrent'
  BY Zenon
<1>1. ASSUME NEW o \in Objects, NEW new \in Contents[o], opAdd(o, new) PROVE DagCurrent'
  <2>1. \A p \in Objects \ {o} : cache'[p] = cache[p]
    BY Zenon, <1>1 DEF opAdd, Inserted, TypeOK
  <2>2. cache[o] = Absent /\ (cache'[o] # Absent => cache'[o] = new)
    BY Zenon, <1>1 DEF opAdd, Inserted, TypeOK
  <2>3. ~pending' => ~pending /\ ~Insert(cache', o, new)
    BY Zenon, <1>1 DEF opAdd
  <2> QED BY Zenon, <1>1, <2>1, <2>2, <2>3, ChangeKeepsCurrent DEF opAdd
<1>2. ASSUME NEW o \in Objects, NEW new \in Contents[o], opUpdate(o, new) PROVE DagCurrent'
  <2>1. \A p \in Objects \ {o} : cache'[p] = cache[p]
    BY Zenon, <1>2 DEF opUpdate, updateCache, Inserted, Removed, TypeOK
  <2>2. (cache[o] # Absent => cache[o] = cluster[o]) /\ (cache'[o] # Absent => cache'[o] = new)
    BY <1>2 DEF opUpdate, updateCache, Inserted, Removed, TypeOK
  <2>3. ~pending' => ~pending /\ ~Insert(cache', o, new) /\ ~Remove(cache, o, cluster[o])
    BY Zenon, <1>2 DEF opUpdate, updateMatters
  <2> QED BY Zenon, <1>2, <2>1, <2>2, <2>3, ChangeKeepsCurrent DEF opUpdate
<1>3. ASSUME NEW o \in Objects, opDelete(o) PROVE DagCurrent'
  <2>1. \A p \in Objects \ {o} : cache'[p] = cache[p]
    BY Zenon, <1>3 DEF opDelete, Removed, TypeOK
  <2>2. (cache[o] # Absent => cache[o] = cluster[o]) /\ cache'[o] = Absent
    BY Zenon, <1>3 DEF opDelete, Removed, TypeOK
  <2>3. ~pending' => ~pending /\ ~Remove(cache, o, cluster[o])
    BY Zenon, <1>3 DEF opDelete
  <2> QED BY Zenon, <1>3, <2>1, <2>2, <2>3, ChangeKeepsCurrent DEF opDelete
<1>4. CASE Build
  BY Zenon, <1>4 DEF Build, DagCurrent, CurrentFor
<1>5. CASE UNCHANGED objectVars
  BY Zenon, <1>5 DEF objectVars, DagCurrent, CurrentFor
<1> QED BY Zenon, <1>1, <1>2, <1>3, <1>4, <1>5 DEF CacheNext

\* The cache holds exactly what the informers reported and Insert accepts.
THEOREM CacheFollowsInformers == CacheSpec => []TypeOK
<1>1. CacheInit => TypeOK
  BY Zenon, InitInv DEF Inv
<1> QED BY <1>1, TypeStep, PTL DEF CacheSpec

\* For any objects and references: as long as no Insert or Remove has reported a
\* change since the last build, every watched look-up of the processors gives
\* what it gave to that build.
THEOREM NoSilentStaleness == CacheSpec => []DagCurrent
<1>1. CacheInit => Inv
  BY Zenon, InitInv
<1>2. Inv /\ [CacheNext]_objectVars => Inv'
  BY Zenon, TypeStep, CurrentStep DEF Inv
<1>3. Inv => DagCurrent
  BY Zenon DEF Inv
<1> QED BY <1>1, <1>2, <1>3, PTL DEF CacheSpec

-----------------------------------------------------------------------------
(* GatewayClassCache *)

ClassChanges ==
  {e \in [name : Classes, existed : BOOLEAN, exists : BOOLEAN] : e.exists \/ e.existed}

\* A queue of class changes has one of c.
Mentions(q, c) == \E i \in 1..Len(q) : q[i].name = c

\* A change leaves c in S or out of it.
Says(e, c, S) == (e.exists => c \in S) /\ (c \in S => e.exists)

\* The last change of c in a queue, if there is one, leaves c in S or out of it.
LastSays(q, c, S) ==
  \A i \in 1..Len(q) :
    q[i].name = c /\ (\A j \in (i + 1)..Len(q) : q[j].name # c) => Says(q[i], c, S)

ClassTypes ==
  /\ classes \subseteq Classes /\ store \subseteq Classes
  /\ reflected \in Seq(ClassChanges) /\ classEvents \in Seq(ClassChanges)
  /\ gatewayEvents \in Seq([old : Classes \cup {None}, new : Classes \cup {None}])
  /\ named \in Classes \cup {None} /\ gateway \in Classes \cup {None}
  /\ gatewayclass \in Classes \cup {None}

\* The informer's store is behind the cluster by what is not reflected yet, and the cached class
\* behind the store by the events that are not handled yet.
ClassInv ==
  /\ ClassTypes
  /\ \A c \in Classes : /\ LastSays(reflected, c, classes)
                        /\ ~Mentions(reflected, c) => (c \in store <=> c \in classes)
                        /\ LastSays(classEvents, c, store)
  /\ gateway \in store => gatewayclass = gateway \/ Mentions(classEvents, gateway)
  /\ gatewayclass # None => gatewayclass \in store \/ Mentions(classEvents, gatewayclass)

LEMMA AppendChange ==
  ASSUME NEW q \in Seq(ClassChanges), NEW e \in ClassChanges, NEW c, NEW S, NEW T,
         e.name = c => Says(e, c, T),
         e.name # c => LastSays(q, c, S) /\ (c \in T <=> c \in S)
  PROVE  /\ Append(q, e) \in Seq(ClassChanges)
         /\ LastSays(Append(q, e), c, T)
         /\ Mentions(Append(q, e), c) <=> (Mentions(q, c) \/ e.name = c)
<1>1. PICK n \in Nat : n = Len(q)
  OBVIOUS
<1>2. /\ Append(q, e) \in Seq(ClassChanges) /\ Len(Append(q, e)) = n + 1
      /\ Append(q, e)[n + 1] = e
      /\ \A i \in 1..n : Append(q, e)[i] = q[i]
  BY <1>1
<1>3. \A i \in 1..(n + 1) : i \in 1..n \/ i = n + 1
  BY <1>1
<1>4. Mentions(Append(q, e), c) <=> (Mentions(q, c) \/ e.name = c)
  BY <1>1, <1>2, <1>3 DEF Mentions
<1>5. ASSUME NEW i \in 1..(n + 1), Append(q, e)[i].name = c,
             \A j \in (i + 1)..(n + 1) : Append(q, e)[j].name # c
      PROVE  Says(Append(q, e)[i], c, T)
  <2>1. CASE i = n + 1
    BY Zenon, <1>2, <1>5, <2>1
  <2>2. CASE i \in 1..n
    <3>1. n + 1 \in (i + 1)..(n + 1) /\ (i + 1)..n \subseteq (i + 1)..(n + 1) /\ (i + 1)..n \subseteq 1..n
      BY <1>1, <2>2
    <3>2. e.name # c /\ \A j \in (i + 1)..n : q[j].name # c
      BY Zenon, <1>2, <1>5, <3>1
    <3>3. Says(q[i], c, S)
      BY Zenon, <1>1, <1>2, <1>5, <2>2, <3>2 DEF LastSays
    <3>. QED  BY Zenon, <1>2, <2>2, <3>2, <3>3 DEF Says
  <2>. QED  BY Zenon, <1>3, <2>1, <2>2
<1>. QED  BY Zenon, <1>2, <1>4, <1>5 DEF LastSays

LEMMA TakeChange ==
  ASSUME NEW q \in Seq(ClassChanges), q # <<>>, NEW c, NEW S, LastSays(q, c, S)
  PROVE  /\ Head(q) \in ClassChanges /\ Tail(q) \in Seq(ClassChanges)
         /\ LastSays(Tail(q), c, S)
         /\ Mentions(q, c) <=> (Head(q).name = c \/ Mentions(Tail(q), c))
         /\ Head(q).name = c /\ ~Mentions(Tail(q), c) => Says(Head(q), c, S)
<1>1. PICK n \in Nat : n = Len(q) /\ n # 0
  BY Zenon, EmptySeq
<1>2. /\ Head(q) \in ClassChanges /\ Tail(q) \in Seq(ClassChanges) /\ Len(Tail(q)) = n - 1
      /\ Head(q) = q[1] /\ \A i \in 1..(n - 1) : Tail(q)[i] = q[i + 1]
  BY <1>1, HeadTailProperties
<1>3. \A i \in 2..n : i - 1 \in 1..(n - 1) /\ Tail(q)[i - 1] = q[i]
  <2>. TAKE i \in 2..n
  <2>1. i - 1 \in 1..(n - 1) /\ (i - 1) + 1 = i
    BY <1>1
  <2>. QED  BY Zenon, <1>2, <2>1
<1>4. \A i \in 1..n : i = 1 \/ i \in 2..n
  BY <1>1
<1>5. \A i \in 1..(n - 1) : i + 1 \in 2..n
  BY <1>1
<1>6. Mentions(q, c) <=> (Head(q).name = c \/ Mentions(Tail(q), c))
  <2>1. ASSUME Mentions(q, c)  PROVE Head(q).name = c \/ Mentions(Tail(q), c)
    BY <1>1, <1>2, <1>3, <1>4, <2>1 DEF Mentions
  <2>2. ASSUME Mentions(Tail(q), c)  PROVE Mentions(q, c)
    <3>1. PICK i \in 1..(n - 1) : Tail(q)[i].name = c
      BY Zenon, <1>2, <2>2 DEF Mentions
    <3>2. i + 1 \in 1..n /\ q[i + 1].name = c
      BY <1>1, <1>2, <3>1
    <3>. QED  BY Zenon, <1>1, <3>2 DEF Mentions
  <2>3. ASSUME Head(q).name = c  PROVE Mentions(q, c)
    <3>1. 1 \in 1..n
      BY <1>1
    <3>. QED  BY Zenon, <1>1, <1>2, <2>3, <3>1 DEF Mentions
  <2>. QED  BY Zenon, <2>1, <2>2, <2>3
<1>7. ASSUME NEW i \in 1..(n - 1), Tail(q)[i].name = c,
             \A j \in (i + 1)..(n - 1) : Tail(q)[j].name # c
      PROVE  Says(Tail(q)[i], c, S)
  <2>1. i + 1 \in 1..n /\ q[i + 1].name = c
    BY <1>1, <1>2, <1>7
  <2>2. ASSUME NEW j \in ((i + 1) + 1)..n  PROVE q[j].name # c
    <3>1. j \in 2..n /\ j - 1 \in (i + 1)..(n - 1)
      BY <1>1
    <3>. QED  BY Zenon, <1>3, <1>7, <3>1
  <2>3. Says(q[i + 1], c, S)
    BY Zenon, <1>1, <2>1, <2>2 DEF LastSays
  <2>. QED  BY Zenon, <1>2, <2>3
<1>8. ASSUME Head(q).name = c, ~Mentions(Tail(q), c)  PROVE Says(Head(q), c, S)
  <2>1. \A j \in 2..n : q[j].name # c
    BY Zenon, <1>2, <1>3, <1>8 DEF Mentions
  <2>2. 1 \in 1..n /\ (1 + 1)..n = 2..n
    BY <1>1
  <2>. QED  BY Zenon, <1>1, <1>2, <1>8, <2>1, <2>2 DEF LastSays
<1>. QED  BY Zenon, <1>2, <1>6, <1>7, <1>8 DEF LastSays

LEMMA ClassStep ==
  ASSUME ClassInv, [ClassNext]_classVars
  PROVE  ClassInv'
<1>. USE DEF ClassInv, ClassTypes
<1>1. ASSUME NEW c \in Classes, NEW exists \in BOOLEAN, ClassChange(c, exists)
      PROVE  ClassInv'
  <2>. DEFINE e == [name |-> c, existed |-> c \in classes, exists |-> exists]
  <2>0. (c \in classes) \in BOOLEAN /\ (exists \/ c \in classes)
    BY <1>1 DEF ClassChange
  <2>1. e \in ClassChanges /\ e.name = c /\ e.exists = exists
    BY Zenon, <2>0 DEF ClassChanges
  <2>2. reflected' = Append(reflected, e)
    BY Zenon, <1>1 DEF ClassChange
  <2>3. /\ classes' \subseteq Classes
        /\ c \in classes' <=> exists
        /\ \A d \in Classes : d # c => (d \in classes' <=> d \in classes)
    BY Zenon, <1>1 DEF ClassChange
  <2>. HIDE DEF e
  <2>9. Says(e, c, classes')
    BY Zenon, <2>1, <2>3 DEF Says
  <2>4. \A d \in Classes : /\ reflected' \in Seq(ClassChanges)
                           /\ LastSays(reflected', d, classes')
                           /\ Mentions(reflected', d) <=> (Mentions(reflected, d) \/ d = c)
    <3>. TAKE d \in Classes
    <3>1. e.name = d => Says(e, d, classes')
      BY Zenon, <2>1, <2>9
    <3>2. e.name # d => LastSays(reflected, d, classes) /\ (d \in classes' <=> d \in classes)
      BY Zenon, <2>1, <2>3
    <3>. QED  BY Zenon, <2>1, <2>2, <3>1, <3>2, AppendChange
  <2>5. UNCHANGED <<named, store, classEvents, gatewayEvents, gateway, gatewayclass>>
    BY Zenon, <1>1 DEF ClassChange
  <2>6. reflected' \in Seq(ClassChanges)
    BY Zenon, <2>4
  <2>7. \A d \in Classes : ~Mentions(reflected', d) => (d \in store' <=> d \in classes')
    BY Zenon, <2>3, <2>4, <2>5
  <2>. QED  BY Zenon, <2>3, <2>4, <2>5, <2>6, <2>7
<1>2. ASSUME NEW c \in Classes \cup {None}, GatewayChange(c)
      PROVE  ClassInv'
  <2>1. named' = c /\ gatewayEvents' = Append(gatewayEvents, [old |-> named, new |-> c])
        /\ UNCHANGED <<classes, reflected, store, classEvents, gateway, gatewayclass>>
    BY Zenon, <1>2 DEF GatewayChange
  <2>2. gatewayEvents' \in Seq([old : Classes \cup {None}, new : Classes \cup {None}])
    BY <2>1
  <2>3. ClassTypes'
    BY <2>1, <2>2
  <2>4. \A d \in Classes : /\ LastSays(reflected, d, classes)'
                           /\ ~Mentions(reflected, d)' => (d \in store' <=> d \in classes')
                           /\ LastSays(classEvents, d, store)'
    BY Zenon, <2>1
  <2>5. gateway' \in store' => gatewayclass' = gateway' \/ Mentions(classEvents, gateway)'
    BY <2>1 DEF Mentions
  <2>6. gatewayclass' # None => gatewayclass' \in store' \/ Mentions(classEvents, gatewayclass)'
    BY <2>1 DEF Mentions
  <2>. QED  BY Zenon, <2>3, <2>4, <2>5, <2>6
<1>3. ASSUME Reflect
      PROVE  ClassInv'
  <2>. DEFINE e == Head(reflected)
  <2>1. /\ reflected # <<>> /\ reflected' = Tail(reflected) /\ classEvents' = Append(classEvents, e)
        /\ store' = IF e.exists THEN store \cup {e.name} ELSE store \ {e.name}
        /\ UNCHANGED <<classes, named, gatewayEvents, gateway, gatewayclass>>
    BY Zenon, <1>3 DEF Reflect
  <2>. HIDE DEF e
  <2>2. \A c \in Classes : /\ e \in ClassChanges /\ reflected' \in Seq(ClassChanges)
                           /\ LastSays(reflected', c, classes)
                           /\ Mentions(reflected, c) <=> (e.name = c \/ Mentions(reflected', c))
                           /\ e.name = c /\ ~Mentions(reflected', c) => Says(e, c, classes)
    BY Zenon, <2>1, TakeChange DEF e
  <2>3. e \in ClassChanges /\ reflected' \in Seq(ClassChanges)
    BY Zenon, <2>1, HeadTailProperties DEF e
  <2>4. e.name \in Classes
    BY Zenon, <2>3 DEF ClassChanges
  <2>5. /\ store' \subseteq Classes
        /\ \A c \in Classes : /\ e.name = c => Says(e, c, store')
                              /\ e.name # c => (c \in store' <=> c \in store)
    BY Zenon, <2>1, <2>4 DEF Says
  <2>6. \A c \in Classes : /\ classEvents' \in Seq(ClassChanges)
                           /\ LastSays(classEvents', c, store')
                           /\ Mentions(classEvents', c) <=> (Mentions(classEvents, c) \/ e.name = c)
    <3>. TAKE c \in Classes
    <3>1. e.name = c => Says(e, c, store')
      BY Zenon, <2>5
    <3>2. e.name # c => LastSays(classEvents, c, store) /\ (c \in store' <=> c \in store)
      BY Zenon, <2>5
    <3>3. /\ Append(classEvents, e) \in Seq(ClassChanges)
          /\ LastSays(Append(classEvents, e), c, store')
          /\ Mentions(Append(classEvents, e), c) <=> (Mentions(classEvents, c) \/ e.name = c)
      BY Zenon, <2>3, <3>1, <3>2, AppendChange
    <3>. QED  BY Zenon, <2>1, <3>3
  <2>7. \A c \in Classes : ~Mentions(reflected', c) => (c \in store' <=> c \in classes)
    <3>. TAKE c \in Classes
    <3>1. CASE e.name = c
      BY Zenon, <2>2, <2>5, <3>1 DEF Says
    <3>2. CASE e.name # c
      BY Zenon, <2>2, <2>5, <3>2
    <3>. QED  BY Zenon, <3>1, <3>2
  <2>8. gateway \in store' => gatewayclass = gateway \/ Mentions(classEvents', gateway)
    BY Zenon, <2>5, <2>6
  <2>9. gatewayclass # None => gatewayclass \in store' \/ Mentions(classEvents', gatewayclass)
    BY Zenon, <2>5, <2>6
  <2>10. classEvents' \in Seq(ClassChanges)
    BY Zenon, <2>4, <2>6
  <2>. QED  BY Zenon, <2>1, <2>2, <2>3, <2>5, <2>6, <2>7, <2>8, <2>9, <2>10
<1>4. ASSUME HandleClass
      PROVE  ClassInv'
  <2>. DEFINE e == Head(classEvents)
              removed == IF e.existed THEN RemoveClass(gatewayclass, e.name) ELSE gatewayclass
  <2>1. /\ classEvents # <<>> /\ classEvents' = Tail(classEvents)
        /\ gatewayclass' = IF e.exists THEN InsertClass(removed, e.name) ELSE removed
        /\ UNCHANGED <<classes, named, reflected, store, gatewayEvents, gateway>>
    BY Zenon, <1>4 DEF HandleClass
  <2>. HIDE DEF e
  <2>2. \A c \in Classes : /\ LastSays(classEvents', c, store)
                           /\ Mentions(classEvents, c) <=> (e.name = c \/ Mentions(classEvents', c))
                           /\ e.name = c /\ ~Mentions(classEvents', c) => Says(e, c, store)
    BY Zenon, <2>1, TakeChange DEF e
  <2>3. e \in ClassChanges /\ classEvents' \in Seq(ClassChanges)
    BY Zenon, <2>1, HeadTailProperties DEF e
  <2>4. e.name \in Classes /\ (e.exists \/ e.existed)
    BY Zenon, <2>3 DEF ClassChanges
  <2>5. /\ e.exists /\ gateway = e.name => gatewayclass' = e.name
        /\ ~(e.exists /\ gateway = e.name) => gatewayclass' = removed
        /\ removed = IF e.existed /\ gatewayclass = e.name THEN None ELSE gatewayclass
    BY Zenon, <2>1 DEF InsertClass, RemoveClass
  <2>. HIDE DEF removed
  <2>6. gatewayclass' \in Classes \cup {None}
    BY Zenon, <2>4, <2>5
  <2>7. ASSUME gateway \in store
        PROVE  gatewayclass' = gateway \/ Mentions(classEvents', gateway)
    <3>1. CASE e.name = gateway
      BY Zenon, <2>2, <2>4, <2>5, <2>7, <3>1 DEF Says
    <3>2. CASE e.name # gateway
      BY Zenon, <2>2, <2>5, <2>7, <3>2
    <3>. QED  BY Zenon, <3>1, <3>2
  <2>8. ASSUME gatewayclass' # None
        PROVE  gatewayclass' \in store \/ Mentions(classEvents', gatewayclass')
    <3>1. CASE e.exists /\ gateway = e.name
      BY Zenon, <2>2, <2>4, <2>5, <3>1 DEF Says
    <3>2. CASE ~(e.exists /\ gateway = e.name)
      <4>1. gatewayclass' = gatewayclass /\ ~(e.existed /\ gatewayclass = e.name)
        BY Zenon, <2>5, <2>8, <3>2
      <4>. QED  BY Zenon, <2>2, <2>4, <2>8, <4>1 DEF Says
    <3>. QED  BY Zenon, <3>1, <3>2
  <2>9. \A c \in Classes : /\ LastSays(reflected', c, classes')
                           /\ ~Mentions(reflected', c) => (c \in store' <=> c \in classes')
                           /\ LastSays(classEvents', c, store')
    BY Zenon, <2>1, <2>2
  <2>10. ClassTypes'
    BY Zenon, <2>1, <2>3, <2>6
  <2>. QED  BY Zenon, <2>1, <2>7, <2>8, <2>9, <2>10
<1>5. ASSUME HandleGateway
      PROVE  ClassInv'
  <2>. DEFINE e == Head(gatewayEvents)
  <2>1. /\ gatewayEvents # <<>> /\ gatewayEvents' = Tail(gatewayEvents) /\ gateway' = e.new
        /\ gatewayclass' = IF e.new = None THEN gatewayclass ELSE classFor(e.new)
        /\ UNCHANGED <<classes, named, reflected, store, classEvents>>
    BY Zenon, <1>5 DEF HandleGateway
  <2>. HIDE DEF e
  <2>2. /\ e \in [old : Classes \cup {None}, new : Classes \cup {None}]
        /\ gatewayEvents' \in Seq([old : Classes \cup {None}, new : Classes \cup {None}])
    BY Zenon, <2>1, HeadTailProperties DEF e
  <2>3. e.new \in Classes \cup {None}
    BY Zenon, <2>2
  <2>4. gatewayclass' = IF e.new \in store THEN e.new ELSE gatewayclass
    BY Zenon, <2>1, NoClassAssumption DEF classFor
  <2>5. ClassTypes'
    BY <2>1, <2>2, <2>3, <2>4
  <2>6. gateway' \in store' => gatewayclass' = gateway'
    BY Zenon, <2>1, <2>4
  <2>7. gatewayclass' # None => gatewayclass' \in store' \/ Mentions(classEvents', gatewayclass')
    BY <2>1, <2>4
  <2>8. \A d \in Classes : /\ LastSays(reflected', d, classes')
                           /\ ~Mentions(reflected', d) => (d \in store' <=> d \in classes')
                           /\ LastSays(classEvents', d, store')
    BY Zenon, <2>1
  <2>. QED  BY Zenon, <2>5, <2>6, <2>7, <2>8
<1>6. CASE UNCHANGED classVars
  BY Zenon, <1>6 DEF classVars, Mentions, LastSays
<1>. QED  BY Zenon, <1>1, <1>2, <1>3, <1>4, <1>5, <1>6 DEF ClassNext

\* However the events of the two informers are interleaved, the class KubernetesCache has cached
\* once all of them are handled is that of the cached Gateway if the cluster has it, and no class
\* that is gone.
THEOREM CachedClassIsCurrent == ClassSpec => []GatewayClassCurrent
<1>1. ClassInit => ClassInv
  <2>. SUFFICES ASSUME ClassInit PROVE ClassInv
    BY Zenon
  <2>1. Len(reflected) = 0 /\ Len(classEvents) = 0 /\ reflected \in Seq(ClassChanges)
        /\ classEvents \in Seq(ClassChanges)
        /\ gatewayEvents \in Seq([old : Classes \cup {None}, new : Classes \cup {None}])
    BY DEF ClassInit
  <2>. QED  BY <2>1 DEF ClassInit, ClassInv, ClassTypes, Mentions, LastSays
<1>2. ClassInv => GatewayClassCurrent
  <2>. SUFFICES ASSUME ClassInv, ClassesHandled
                PROVE  /\ gateway \in classes => gatewayclass = gateway
                       /\ gatewayclass # None => gatewayclass \in classes
    BY Zenon DEF GatewayClassCurrent
  <2>1. Len(reflected) = 0 /\ Len(classEvents) = 0
    BY Zenon DEF ClassesHandled
  <2>2. \A c : ~Mentions(reflected, c) /\ ~Mentions(classEvents, c)
    BY <2>1 DEF Mentions
  <2>. QED  BY Zenon, <2>2 DEF ClassInv, ClassTypes
<1>. QED  BY <1>1, <1>2, ClassStep, PTL DEF ClassSpec

-----------------------------------------------------------------------------
(* EndpointSliceTranslator *)

\* The entry of every cluster outside S is the one its services call for.
EntriesExcept(S) ==
  /\ DOMAIN entries = DOMAIN clusters
  /\ \A c \in DOMAIN clusters \ S : entries[c] = Assignment(clusters[c], endpointSlices)

\* The strengthening that makes ConsistentUnlessOverlapped inductive: what each
\* goroutine holds between its steps.
ConsistencyInv ==
  /\ stale \subseteq DOMAIN clusters
  /\ entries = [c \in DOMAIN entries |-> entries[c]]
  /\ hDisturbed => overlapped /\ hPending
  /\ hPending /\ ~hDisturbed => ~iPending
  /\ hpc = "recalculate" /\ ~hDisturbed => stale = DOMAIN clusters
  /\ hpc = "replace" /\ ~hDisturbed => hResult = Assignments(DOMAIN clusters)
  /\ hResult = [c \in DOMAIN hResult |-> hResult[c]]
  /\ ~hPending /\ ~iPending /\ ~overlapped => UpToDate
  /\ ~hPending /\ ipc = "recalculate" /\ ~overlapped => EntriesExcept(stale)
  /\ ~hPending /\ ipc = "merge" /\ ~overlapped =>
       Merged(iResult, entries) = Assignments(DOMAIN clusters)

\* Undisturbed or repaired, the load assignments are those of the current
\* clusters and slices.
THEOREM Consistency == Spec => []ConsistentUnlessOverlapped
<1>1. Init => ConsistencyInv
  <2>. SUFFICES ASSUME Init PROVE ConsistencyInv
    BY Zenon
  <2>1. Empty = [c \in {} |-> {}] /\ DOMAIN Empty = {}
    BY DEF Empty
  <2>2. entries = Empty /\ hResult = Empty /\ clusters = Empty /\ stale = {}
    BY Zenon DEF Init
  <2>3. UpToDate
    BY Zenon, <2>1, <2>2 DEF UpToDate, Assignments
  <2>. QED  BY Zenon, <2>1, <2>2, <2>3 DEF Init, ConsistencyInv, hPending, iPending
<1>2. ConsistencyInv /\ [Next]_vars => ConsistencyInv'
  <2>. SUFFICES ASSUME ConsistencyInv, [Next]_vars PROVE ConsistencyInv'
    BY Zenon
  <2>1. ASSUME NEW d \in Dags, SetClusters(d) PROVE ConsistencyInv'
    BY Zenon, <2>1 DEF SetClusters, markedStale, ConsistencyInv, hPending, iPending, UpToDate,
                Assignments, EntriesExcept, iVars
  <2>2. CASE hRecalculate
    <3>1. ~hDisturbed => hResult' = Assignments(DOMAIN clusters)
      BY Zenon, <2>2 DEF hRecalculate, ConsistencyInv
    <3>2. hResult' = [c \in DOMAIN hResult' |-> hResult'[c]]
      BY Zenon, <2>2 DEF hRecalculate, Assignments
    <3>3. Assignments(DOMAIN clusters)' = Assignments(DOMAIN clusters)
      BY Zenon, <2>2 DEF hRecalculate, Assignments
    <3>. QED  BY Zenon, <2>2, <3>1, <3>2, <3>3
         DEF hRecalculate, Recalculate, ConsistencyInv, hPending, iPending, iVars, historyVars
  <2>3. CASE hReplace
    <3>1. ~hDisturbed => UpToDate' /\ ~iPending'
      BY Zenon, <2>3 DEF hReplace, replacement, ConsistencyInv, UpToDate, Assignments, hPending,
                  iPending, cacheVars, iVars
    <3>2. hDisturbed => overlapped'
      BY Zenon, <2>3 DEF hReplace, ConsistencyInv
    <3>3. entries' = [c \in DOMAIN entries' |-> entries'[c]]
      BY Zenon, <2>3 DEF hReplace, replacement, ConsistencyInv
    <3>4. hResult' = [c \in DOMAIN hResult' |-> hResult'[c]]
      BY <2>3 DEF hReplace, Empty
    <3>5. ~hPending' /\ ~hDisturbed' /\ stale' \subseteq DOMAIN clusters'
      BY Zenon, <2>3 DEF hReplace, hPending, ConsistencyInv, cacheVars
    <3>. QED  BY Zenon, <3>1, <3>2, <3>3, <3>4, <3>5 DEF ConsistencyInv, iPending, hPending
  <2>4. ASSUME NEW s \in Slices, NEW content, Notified(s, content) PROVE ConsistencyInv'
    <3>1. stale' = stale \cup affected(s) /\ stale' \subseteq DOMAIN clusters
      BY Zenon, <2>4 DEF Notified, MarkStale, affected, ConsistencyInv
    <3>2. ASSUME NEW c \in DOMAIN clusters, c \notin affected(s)
          PROVE  Assignment(clusters[c], endpointSlices')
                   = Assignment(clusters[c], endpointSlices)
      <4>1. \A t \in Slices : ServiceOf[t] \in clusters[c] => endpointSlices'[t] = endpointSlices[t]
        BY <2>4, <3>2 DEF Notified, affected
      <4>. QED  BY Zenon, <4>1 DEF Assignment
    <3>3. CASE affected(s) = {}
      <4>1. Assignments(DOMAIN clusters)' = Assignments(DOMAIN clusters)
        BY Zenon, <2>4, <3>2, <3>3 DEF Assignments, Notified
      <4>2. ~iPending' /\ hPending' = hPending /\ UNCHANGED <<clusters, stale, entries, hVars>>
        BY Zenon, <2>4, <3>1, <3>3 DEF Notified, iPending, hPending, hVars
      <4>3. (hDisturbed' <=> hDisturbed) /\ (overlapped' <=> overlapped)
        BY Zenon, <2>4, <3>3 DEF Notified, ConsistencyInv
      <4>. QED  BY Zenon, <2>4, <4>1, <4>2, <4>3
           DEF ConsistencyInv, UpToDate, hVars, iPending, Notified
    <3>4. CASE affected(s) # {} /\ hPending
      BY Zenon, <2>4, <3>1, <3>4 DEF Notified, ConsistencyInv, hPending, hVars
    <3>5. CASE affected(s) # {} /\ ~hPending
      <4>1. ipc' = "recalculate" /\ ~hPending' /\ (hDisturbed' <=> hDisturbed)
                /\ (overlapped' <=> overlapped)
        BY Zenon, <2>4, <3>5 DEF Notified, hPending, hVars, ConsistencyInv
      <4>2. ~overlapped => UpToDate
        BY Zenon, <2>4, <3>5 DEF Notified, ConsistencyInv, iPending
      <4>3. ~overlapped => EntriesExcept(stale)'
        BY Zenon, <2>4, <3>1, <3>2, <4>2 DEF EntriesExcept, UpToDate, Assignments, Notified
      <4>. QED  BY Zenon, <2>4, <3>1, <4>1, <4>3 DEF ConsistencyInv, Notified, hPending, iPending, hVars
    <3>. QED  BY Zenon, <3>3, <3>4, <3>5
  <2>5. CASE iRecalculate
    <3>1. ~hPending /\ ~overlapped => Merged(iResult', entries) = Assignments(DOMAIN clusters)
      BY <2>5 DEF iRecalculate, ConsistencyInv, EntriesExcept, Merged, Assignments
    <3>2. Merged(iResult', entries) = Merged(iResult', entries')
            /\ Assignments(DOMAIN clusters)' = Assignments(DOMAIN clusters)
      BY Zenon, <2>5 DEF iRecalculate, Assignments
    <3>. QED  BY Zenon, <2>5, <3>1, <3>2
         DEF iRecalculate, Recalculate, ConsistencyInv, hPending, iPending, hVars, historyVars
  <2>6. CASE Merge
    <3>1. ~hPending /\ ~overlapped => UpToDate'
      BY Zenon, <2>6 DEF Merge, ConsistencyInv, UpToDate, Assignments, cacheVars
    <3>2. entries' = [c \in DOMAIN entries' |-> entries'[c]]
      BY Zenon, <2>6 DEF Merge, Merged
    <3>. QED  BY Zenon, <2>6, <3>1, <3>2
         DEF Merge, ConsistencyInv, hPending, iPending, cacheVars, hVars, historyVars
  <2>7. CASE hContents \/ hSetSnapshot
    <3>1. hResult' = [c \in DOMAIN hResult' |-> hResult'[c]]
      <4>1. CASE hContents
        BY Zenon, <4>1 DEF hContents, ConsistencyInv
      <4>2. CASE hSetSnapshot
        BY <4>2 DEF hSetSnapshot, Empty
      <4>. QED  BY Zenon, <2>7, <4>1, <4>2
    <3>2. ~hPending /\ ~hPending' /\ (iPending' <=> iPending) /\ UNCHANGED <<cacheVars, entries, iVars>>
      BY Zenon, <2>7 DEF hContents, hSetSnapshot, hPending, iPending, iVars
    <3>3. (hDisturbed' <=> hDisturbed) /\ (overlapped' <=> overlapped)
      BY <2>7 DEF hContents, hSetSnapshot, historyVars
    <3>. QED  BY <2>7, <3>1, <3>2, <3>3
         DEF ConsistencyInv, hPending, iPending, UpToDate, Assignments, EntriesExcept, cacheVars,
             iVars, Merged
  <2>8. CASE iContents \/ iSetSnapshot
    BY <2>8 DEF iContents, iSetSnapshot, ConsistencyInv, hPending, iPending, UpToDate,
                Assignments, cacheVars, hVars, historyVars
  <2>9. CASE UNCHANGED vars
    BY <2>9 DEF vars, ConsistencyInv, hPending, iPending, UpToDate, Assignments, EntriesExcept,
                Merged, cacheVars, hVars, iVars, historyVars
  <2>. QED  BY Zenon, <2>1, <2>2, <2>3, <2>4, <2>5, <2>6, <2>7, <2>8, <2>9
            DEF Next, OnAdd, OnUpdate, OnDelete
<1>3. ConsistencyInv => ConsistentUnlessOverlapped
  BY Zenon DEF ConsistencyInv, ConsistentUnlessOverlapped
<1>. QED  BY <1>1, <1>2, <1>3, PTL DEF Spec

\* The strengthening that makes SnapshotUnlessRaced inductive.
SnapshotInv ==
  ~refreshRaced =>
    /\ ~(hpc = "set" /\ ipc = "set")
    /\ hpc = "set" /\ ipc # "contents" => hResult = entries
    /\ ipc = "set" /\ hpc # "contents" => iResult = entries
    /\ ~({hpc, ipc} \cap {"contents", "set"} # {}) => edsCache = entries

\* The EDS snapshot follows the translator's entries unless two Refresh calls
\* overlapped.
THEOREM SnapshotFollows == Spec => []SnapshotUnlessRaced
<1>1. Init => SnapshotInv
  BY Zenon DEF Init, SnapshotInv
<1>2. SnapshotInv /\ [Next]_vars => SnapshotInv'
  <2>. SUFFICES ASSUME SnapshotInv, [Next]_vars PROVE SnapshotInv'
    BY Zenon
  <2>1. ASSUME NEW d \in Dags, SetClusters(d) PROVE SnapshotInv'
    BY Zenon, <2>1 DEF SetClusters, SnapshotInv, iVars
  <2>2. CASE hRecalculate
    BY Zenon, <2>2 DEF hRecalculate, SnapshotInv, iVars, historyVars
  <2>3. CASE hReplace
    BY Zenon, <2>3 DEF hReplace, changed, SnapshotInv, iVars
  <2>4. ASSUME NEW s \in Slices, NEW content, Notified(s, content) PROVE SnapshotInv'
    BY Zenon, <2>4 DEF Notified, SnapshotInv, hVars
  <2>5. CASE iRecalculate
    BY Zenon, <2>5 DEF iRecalculate, SnapshotInv, hVars, historyVars
  <2>6. CASE Merge
    BY Zenon, <2>6 DEF Merge, SnapshotInv, hVars, historyVars
  <2>7. CASE hContents
    BY Zenon, <2>7 DEF hContents, SnapshotInv, iVars
  <2>8. CASE hSetSnapshot
    BY Zenon, <2>8 DEF hSetSnapshot, SnapshotInv, iVars, historyVars
  <2>9. CASE iContents
    BY Zenon, <2>9 DEF iContents, SnapshotInv, hVars
  <2>10. CASE iSetSnapshot
    BY Zenon, <2>10 DEF iSetSnapshot, SnapshotInv, hVars, historyVars
  <2>11. CASE UNCHANGED vars
    BY Zenon, <2>11 DEF vars, SnapshotInv, hVars, iVars, historyVars
  <2>. QED  BY Zenon, <2>1, <2>2, <2>3, <2>4, <2>5, <2>6, <2>7, <2>8, <2>9, <2>10, <2>11
            DEF Next, OnAdd, OnUpdate, OnDelete
<1>3. SnapshotInv => SnapshotUnlessRaced
  BY Zenon DEF SnapshotInv, SnapshotUnlessRaced
<1>. QED  BY <1>1, <1>2, <1>3, PTL DEF Spec
=============================================================================
