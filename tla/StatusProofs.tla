----------------------------- MODULE StatusProofs -----------------------------
(***************************************************************************)
(* Proofs about the statuses, module StatusConditions (what the status     *)
(* cache of a build is made of and how a write merges it) and module       *)
(* StatusUpdates (how the writes travel), for any objects, any instances   *)
(* of Contour, any order of a build's visits, any statuses and addresses,  *)
(* any capacity of the channel and any number of attempts:                 *)
(*   - what a build finds out is written or on its way unless a route of   *)
(*     another kind shadows it, no write takes a verdict back to an older  *)
(*     generation, and what other controllers set for other Gateways stays;*)
(*   - a write changes only the field of its update, and the statuses of   *)
(*     the last DAG reach the API server unless an update was dropped,     *)
(*     skipped or given up.                                                *)
(***************************************************************************)
EXTENDS StatusConditions, StatusUpdates, FiniteSetTheorems, WellFoundedInduction, TLAPS

-----------------------------------------------------------------------------
(* Induction, as a fact about sets: the library's theorems take a predicate. *)

\* Of any finite sets one has no other as a strict subset.
LEMMA MinimalSet ==
    ASSUME NEW T, T # {}, \A s \in T : IsFiniteSet(s)
    PROVE  \E m \in T : \A s \in T : s \subseteq m => s = m
<1>. DEFINE S == UNION T
<1>1. T \subseteq FiniteSubsetsOf(S)
  BY Zenon DEF FiniteSubsetsOf
<1>. HIDE DEF S
<1>2. IsWellFoundedOn(StrictSubsetOrdering(S), FiniteSubsetsOf(S))
  BY Zenon, FS_StrictSubsetOrderingWellFounded
<1>3. PICK m \in T : \A s \in T : ~(<<s, m>> \in StrictSubsetOrdering(S))
  BY Zenon, <1>1, <1>2, WFMin
<1>4. ASSUME NEW s \in T, s \subseteq m  PROVE s = m
  <2>1. <<s, m>> \in (SUBSET S) \X (SUBSET S)
    BY Zenon DEF S
  <2>. QED  BY Zenon, <1>3, <1>4, <2>1 DEF StrictSubsetOrdering
<1>. QED  BY Zenon, <1>4

LEMMA LeastNatural ==
    ASSUME NEW B, B \subseteq Nat, B # {}
    PROVE  \E m \in B : \A n \in B : m <= n
<1>. DEFINE T == {1..n : n \in B}
<1>1. T # {}
  BY Zenon
<1>2. \A s \in T : IsFiniteSet(s)
  BY FS_Interval
<1>. HIDE DEF T
<1>3. PICK s \in T : \A t \in T : t \subseteq s => t = s
  BY <1>1, <1>2, MinimalSet
<1>4. PICK m \in B : s = 1..m
  BY Zenon, <1>3 DEF T
<1>5. ASSUME NEW n \in B  PROVE m <= n
  <2>. SUFFICES ASSUME n < m PROVE FALSE
    OBVIOUS
  <2>1. 1..n \in T /\ 1..n \subseteq s
    BY <1>4 DEF T
  <2>2. m \in 1..n
    BY <1>3, <1>4, <2>1
  <2>. QED  BY <2>2
<1>. QED  BY Zenon, <1>5

LEMMA NaturalsByInduction ==
    ASSUME NEW S, 0 \in S, \A n \in Nat : n \in S => n + 1 \in S
    PROVE  Nat \subseteq S
<1>. SUFFICES ASSUME Nat \ S # {} PROVE FALSE
  BY Zenon
<1>1. PICK m \in Nat \ S : \A n \in Nat \ S : m <= n
  BY Zenon, LeastNatural
<1>2. m # 0 /\ m - 1 \in Nat /\ (m - 1) + 1 = m
  BY <1>1
<1>3. m - 1 \in S
  BY <1>1, <1>2
<1>. QED  BY Zenon, <1>1, <1>2, <1>3

-----------------------------------------------------------------------------
(* The objects of the API server and the updates under way *)

IsObject(object) ==
  object = [gen |-> object.gen, conds |-> object.conds, current |-> object.current]

\* A condition of Contour's for an object; one for a route or policy is for a ref to our Gateway.
OurCondition(o, c) == c.by = "contour" /\ (o.refs # {} => c.ref \in RefsOf(o))

\* A condition of another controller is for a ref that does not pass for one to our Gateway.
OtherCondition(o, c) == c.by = "other" /\ c.ref \in o.refs /\ ~IsRefToGateway(c.ref, Gateway)

StatusTypes ==
  /\ objs \in Mixes
  /\ DOMAIN api = objs
  /\ \A o \in objs : IsObject(api[o])
  /\ \A o \in objs : \A c \in api[o].conds : OurCondition(o, c) \/ OtherCondition(o, c)
  /\ DOMAIN seen = Instances /\ DOMAIN pending = Instances /\ DOMAIN built = Instances
  /\ \A i \in Instances : DOMAIN seen[i] = objs /\ DOMAIN built[i] = objs
  /\ \A i \in Instances, o \in objs : \A c \in seen[i][o].existing : OurCondition(o, c)

\* An update that is worth a write: it has conditions, and they are Contour's.
UpdateOK(entry) ==
  /\ entry.obj \in objs
  /\ entry.conds # {} /\ \A c \in entry.conds : OurCondition(entry.obj, c)
  /\ \A c \in entry.existing : OurCondition(entry.obj, c)

StatusInv ==
  /\ StatusTypes
  /\ \A i \in Instances : \A entry \in pending[i] : UpdateOK(entry)
  /\ ReportedUnlessShadowed

-----------------------------------------------------------------------------
(* A build *)

IsUpdate(entry) ==
  entry = [obj |-> entry.obj, gen |-> entry.gen, conds |-> entry.conds, existing |-> entry.existing]

LEMMA AddFacts ==
  ASSUME NEW entry, IsUpdate(entry), \A c \in entry.conds : c.by = "contour",
         NEW refs, NEW type, NEW status
  PROVE  LET new == AddCondition(entry, refs, type, status)
         IN /\ IsUpdate(new) /\ new.obj = entry.obj /\ new.gen = entry.gen /\ new.existing = entry.existing
            /\ \A c \in new.conds : c.by = "contour"
            /\ refs # {} => new.conds # {}
<1>. DEFINE conds == {c \in entry.conds : c.ref \notin refs \/ c.type # type}
                     \cup {Condition(ref, type, entry.gen, status, "contour") : ref \in refs}
<1>1. \A c \in conds : c.by = "contour"
  BY DEF Condition
<1>2. refs # {} => conds # {}
  OBVIOUS
<1>3. AddCondition(entry, refs, type, status)
        = [obj |-> entry.obj, gen |-> entry.gen, conds |-> conds, existing |-> entry.existing]
  <2>1. AddCondition(entry, refs, type, status) = [entry EXCEPT !.conds = conds]
    BY Zenon DEF AddCondition
  <2>. HIDE DEF conds
  <2>2. PICK o, g, cs, ex : entry = [obj |-> o, gen |-> g, conds |-> cs, existing |-> ex]
    BY Zenon DEF IsUpdate
  <2>. QED  BY Zenon, <2>1, <2>2
<1>. HIDE DEF conds
<1>. QED  BY <1>1, <1>2, <1>3 DEF IsUpdate

LEMMA VerdictFacts ==
  ASSUME NEW o, NEW object, NEW v, o.kind \in {"HTTPProxy", "ExtensionService", "Gateway"} => o.refs = {}
  PROVE  LET entry == Verdict(o, object, v)
         IN /\ entry.obj = o /\ entry.gen = object.gen /\ entry.existing = object.existing
            /\ entry.conds # {} <=> RefsOf(o) # {}
            /\ \A c \in entry.conds : OurCondition(o, c)
<1>. DEFINE new == NewUpdate(o, object)
            base == AddCondition(new, RefsOf(o), TypeOf(o), v.status)
            more == AddCondition(base, {Self}, "Programmed", v.status)
            all == AddCondition(more, {Listener}, "Accepted", v.status)
<1>1. new = [obj |-> o, gen |-> object.gen, conds |-> {}, existing |-> object.existing]
  BY Zenon DEF NewUpdate
<1>2. base = [obj |-> o, gen |-> object.gen, existing |-> object.existing,
              conds |-> {Condition(ref, TypeOf(o), object.gen, v.status, "contour") : ref \in RefsOf(o)}]
  BY SMTT(30), <1>1 DEF AddCondition
<1>3. \A ref, type, gen, status : /\ Condition(ref, type, gen, status, "contour").by = "contour"
                                  /\ Condition(ref, type, gen, status, "contour").ref = ref
  BY Zenon DEF Condition
<1>4. /\ base.obj = o /\ base.gen = object.gen /\ base.existing = object.existing
      /\ base.conds # {} <=> RefsOf(o) # {}
      /\ \A c \in base.conds : OurCondition(o, c)
  BY <1>2, <1>3 DEF OurCondition
<1>5. CASE o.kind = "Gateway" /\ v.more
  <2>1. o.refs = {} /\ RefsOf(o) # {}
    BY Zenon, <1>5 DEF RefsOf
  <2>2. /\ IsUpdate(more) /\ more.obj = o /\ more.gen = object.gen /\ more.existing = object.existing
        /\ \A c \in more.conds : c.by = "contour"
    <3>1. IsUpdate(base) /\ \A c \in base.conds : c.by = "contour"
      BY Zenon, <1>2, <1>4 DEF IsUpdate, OurCondition
    <3>. HIDE DEF base
    <3>. QED  BY <1>4, <3>1, AddFacts
  <2>3. /\ all.obj = o /\ all.gen = object.gen /\ all.existing = object.existing
        /\ all.conds # {} /\ \A c \in all.conds : c.by = "contour"
    <3>. HIDE DEF more
    <3>. QED  BY <2>2, AddFacts
  <2>4. Verdict(o, object, v) = all
    BY Zenon, <1>5 DEF Verdict
  <2>. QED  BY Zenon, <2>1, <2>3, <2>4 DEF OurCondition
<1>6. CASE ~(o.kind = "Gateway" /\ v.more)
  <2>1. Verdict(o, object, v) = base
    BY Zenon, <1>6 DEF Verdict
  <2>. QED  BY Zenon, <1>4, <2>1
<1>. QED  BY Zenon, <1>5, <1>6

SameKey(o, p) == o.kind = p.kind /\ o.ns = p.ns /\ o.name = p.name
SameRoute(o, p) == IsRoute(o.kind) /\ IsRoute(p.kind) /\ o.ns = p.ns /\ o.name = p.name

\* What a commit keeps and adds, whatever the kind of the object.
LEMMA CommitFacts ==
  ASSUME NEW cache, NEW entry, entry.obj.kind \in {"HTTPProxy", "ExtensionService"} => entry.conds # {},
         entry.obj.kind \in {"HTTPProxy", "Gateway", "ExtensionService", "BackendTLSPolicy"} \/ IsRoute(entry.obj.kind)
  PROVE  /\ \A u \in Commit(cache, entry) : u \in cache \/ (u = entry /\ entry.conds # {})
         /\ entry.conds # {} => \E u \in Commit(cache, entry) : u.obj = entry.obj
         /\ \A u \in cache : ~SameKey(u.obj, entry.obj) /\ ~SameRoute(u.obj, entry.obj) => u \in Commit(cache, entry)
<1>1. CASE entry.obj.kind = "HTTPProxy"
  <2>1. Commit(cache, entry) = CommitProxy(cache, entry)
    BY Zenon, <1>1 DEF Commit
  <2>. QED  BY Zenon, <1>1, <2>1 DEF CommitProxy, SameKey
<1>2. CASE entry.obj.kind = "Gateway"
  <2>1. Commit(cache, entry) = CommitGateway(cache, entry)
    BY Zenon, <1>2 DEF Commit
  <2>. QED  BY Zenon, <1>2, <2>1 DEF CommitGateway, Store, SameKey
<1>3. CASE entry.obj.kind = "ExtensionService"
  <2>1. Commit(cache, entry) = PutExtension(cache, entry)
    BY Zenon, <1>3 DEF Commit
  <2>. QED  BY Zenon, <1>3, <2>1 DEF PutExtension, Store, SameKey
<1>4. CASE entry.obj.kind = "BackendTLSPolicy"
  <2>1. Commit(cache, entry) = CommitPolicy(cache, entry)
    BY Zenon, <1>4 DEF Commit
  <2>. QED  BY Zenon, <1>4, <2>1 DEF CommitPolicy, Store, SameKey
<1>5. CASE entry.obj.kind \notin {"HTTPProxy", "Gateway", "ExtensionService", "BackendTLSPolicy"}
  <2>1. Commit(cache, entry) = CommitRoute(cache, entry)
    BY Zenon, <1>5 DEF Commit
  <2>. QED  BY Zenon, <1>5, <2>1 DEF CommitRoute, SameKey, SameRoute
<1>. QED  BY Zenon, <1>1, <1>2, <1>3, <1>4, <1>5

\* One visit, the committed updates being verdicts of this build on objects of a mix.
IsVerdict(S, objects, u) == \E o \in S : \E v : RefsOf(o) # {} /\ u = Verdict(o, objects[o], v)

LEMMA CommitVerdict ==
  ASSUME NEW mix \in Mixes, NEW S, S \subseteq mix, NEW objects, NEW cache,
         \A u \in cache : IsVerdict(S, objects, u),
         NEW o \in S, NEW v
  PROVE  LET new == Commit(cache, Verdict(o, objects[o], v))
         IN /\ \A u \in new : IsVerdict(S, objects, u)
            /\ RefsOf(o) # {} => \E u \in new : u.obj = o
            /\ \A u \in cache : u.obj # o /\ ~SameRoute(u.obj, o) => u \in new
<1>. DEFINE entry == Verdict(o, objects[o], v)
<1>1. \A p \in S : \A w : /\ Verdict(p, objects[p], w).obj = p
                          /\ Verdict(p, objects[p], w).conds # {} <=> RefsOf(p) # {}
  <2>. TAKE p \in S
  <2>. TAKE w
  <2>1. p.kind \in {"HTTPProxy", "ExtensionService", "Gateway"} => p.refs = {}
    BY Zenon, MixesAssumption DEF IsRoute, RouteOrder
  <2>. QED  BY <2>1, VerdictFacts
<1>2. ASSUME NEW u \in cache  PROVE u.obj \in S
  <2>1. PICK p \in S : \E w : u = Verdict(p, objects[p], w)
    BY Zenon DEF IsVerdict
  <2>2. PICK w : u = Verdict(p, objects[p], w)
    BY Zenon, <2>1
  <2>. QED  BY Zenon, <1>1, <2>2
<1>3. \A u \in cache : u.obj # o => ~SameKey(u.obj, o)
  BY ZenonT(60), <1>2, MixesAssumption DEF SameKey
<1>4. entry.obj = o /\ (entry.conds # {} <=> RefsOf(o) # {})
  BY Zenon, <1>1
<1>. HIDE DEF entry
<1>5. /\ entry.obj.kind \in {"HTTPProxy", "ExtensionService"} => entry.conds # {}
      /\ entry.obj.kind \in {"HTTPProxy", "Gateway", "ExtensionService", "BackendTLSPolicy"} \/ IsRoute(entry.obj.kind)
  BY Zenon, <1>4, MixesAssumption DEF RefsOf
<1>6. /\ \A u \in Commit(cache, entry) : u \in cache \/ (u = entry /\ entry.conds # {})
      /\ entry.conds # {} => \E u \in Commit(cache, entry) : u.obj = entry.obj
      /\ \A u \in cache : ~SameKey(u.obj, entry.obj) /\ ~SameRoute(u.obj, entry.obj) => u \in Commit(cache, entry)
  BY Zenon, <1>5, CommitFacts
<1>7. entry.conds # {} => IsVerdict(S, objects, entry)
  BY Zenon, <1>4 DEF IsVerdict, entry
<1>8. /\ \A u \in Commit(cache, entry) : IsVerdict(S, objects, u)
      /\ RefsOf(o) # {} => \E u \in Commit(cache, entry) : u.obj = o
      /\ \A u \in cache : u.obj # o /\ ~SameRoute(u.obj, o) => u \in Commit(cache, entry)
  BY Zenon, <1>3, <1>4, <1>6, <1>7
<1>. QED  BY Zenon, <1>8 DEF entry

LEMMA VisitVerdict ==
  ASSUME NEW mix \in Mixes, NEW S, S \subseteq mix, NEW objects, NEW cache,
         \A u \in cache : IsVerdict(S, objects, u),
         NEW o \in S, NEW verdicts
  PROVE  LET new == Visit(cache, o, objects[o], verdicts)
         IN /\ \A u \in new : IsVerdict(S, objects, u)
            /\ RefsOf(o) # {} => \E u \in new : u.obj = o
            /\ \A u \in cache : u.obj # o /\ ~SameRoute(u.obj, o) => u \in new
<1>. DEFINE once == Commit(cache, Verdict(o, objects[o], verdicts[1]))
            twice == Commit(once, Verdict(o, objects[o], verdicts[2]))
            Visited(c, d) ==
              /\ \A u \in d : IsVerdict(S, objects, u)
              /\ RefsOf(o) # {} => \E u \in d : u.obj = o
              /\ \A u \in c : u.obj # o /\ ~SameRoute(u.obj, o) => u \in d
<1>0. ASSUME NEW c, \A u \in c : IsVerdict(S, objects, u), NEW v
      PROVE  Visited(c, Commit(c, Verdict(o, objects[o], v)))
  BY Zenon, <1>0, CommitVerdict
<1>1. Visited(cache, once)
  BY Zenon, <1>0
<1>. HIDE DEF once
<1>2. Visited(once, twice)
  BY Zenon, <1>0, <1>1
<1>. HIDE DEF twice
<1>3. \/ Visit(cache, o, objects[o], verdicts) = once
      \/ Visit(cache, o, objects[o], verdicts) = twice
  BY Zenon DEF Visit, once, twice
<1>. QED  BY Zenon, <1>1, <1>2, <1>3

\* The recursive function of StatusCache is defined: there is one for every length.
IsCache(c, objects, verdicts, order, n) ==
  c = [k \in 0..n |-> IF k = 0 THEN {}
                      ELSE Visit(c[k - 1], order[k], objects[order[k]], verdicts[order[k]])]

LEMMA CacheExists ==
  ASSUME NEW objects, NEW verdicts, NEW order, NEW n \in Nat
  PROVE  \E c : IsCache(c, objects, verdicts, order, n)
<1>. DEFINE next(c, k) == Visit(c, order[k], objects[order[k]], verdicts[order[k]])
            Is(c, m) == c = [k \in 0..m |-> IF k = 0 THEN {} ELSE next(c[k - 1], k)]
            Good == {m \in Nat : \E c : Is(c, m)}
<1>. HIDE DEF next
<1>1. 0 \in Good
  <2>1. Is([k \in 0..0 |-> {}], 0)
    OBVIOUS
  <2>. QED  BY Zenon, <2>1
<1>2. ASSUME NEW m \in Nat, m \in Good  PROVE m + 1 \in Good
  <2>1. PICK c : Is(c, m)
    BY Zenon, <1>2
  <2>. DEFINE d == [k \in 0..(m + 1) |-> IF k <= m THEN c[k] ELSE next(c[m], m + 1)]
  <2>2. \A k \in 0..m : d[k] = c[k]
    OBVIOUS
  <2>3. d[m + 1] = next(d[m], m + 1)
    BY <2>2
  <2>4. \A k \in 0..(m + 1) : d[k] = IF k = 0 THEN {} ELSE next(d[k - 1], k)
    <3>. TAKE k \in 0..(m + 1)
    <3>1. CASE k = m + 1
      BY <2>3, <3>1
    <3>2. CASE k = 0
      BY <3>2, <2>1, <2>2
    <3>3. CASE k \in 1..m
      <4>1. k \in 0..m /\ k - 1 \in 0..m /\ k # 0
        BY <3>3
      <4>2. c[k] = next(c[k - 1], k)
        BY Zenon, <4>1, <2>1
      <4>. QED  BY Zenon, <4>1, <4>2, <2>2
    <3>. QED  BY <3>1, <3>2, <3>3
  <2>5. d = [k \in 0..(m + 1) |-> d[k]]
    BY Zenon
  <2>. HIDE DEF d
  <2>6. Is(d, m + 1)
    BY Zenon, <2>4, <2>5
  <2>. HIDE DEF Is
  <2>. QED  BY <2>6
<1>. HIDE DEF Good
<1>3. n \in Good
  BY Zenon, <1>1, <1>2, NaturalsByInduction
<1>. QED  BY Zenon, <1>3 DEF Good, next, IsCache

LEMMA CacheSteps ==
  ASSUME NEW objects, NEW verdicts, NEW order, Len(order) \in Nat
  PROVE  LET cache == StatusCache(objects, verdicts, order)
         IN /\ cache[0] = {}
            /\ \A k \in 1..Len(order) :
                 cache[k] = Visit(cache[k - 1], order[k], objects[order[k]], verdicts[order[k]])
<1>. DEFINE n == Len(order)
            Is(c) == IsCache(c, objects, verdicts, order, n)
<1>1. n \in Nat
  BY Zenon
<1>. HIDE DEF n
<1>2. \E c : Is(c)
  BY Zenon, <1>1, CacheExists
<1>3. Is(CHOOSE c : Is(c))
  <2>. HIDE DEF Is
  <2>. QED  BY Zenon, <1>2
<1>4. StatusCache(objects, verdicts, order) = CHOOSE c : Is(c)
  BY Zenon DEF StatusCache, IsCache, n
<1>. DEFINE cache == StatusCache(objects, verdicts, order)
<1>. HIDE DEF cache
<1>5. Is(cache)
  BY Zenon, <1>3, <1>4 DEF cache
<1>6. \A k \in 0..n : cache[k] = IF k = 0 THEN {}
                                ELSE Visit(cache[k - 1], order[k], objects[order[k]], verdicts[order[k]])
  BY Zenon, <1>5 DEF IsCache
<1>7. /\ cache[0] = {}
      /\ \A k \in 1..n : cache[k] = Visit(cache[k - 1], order[k], objects[order[k]], verdicts[order[k]])
  BY <1>1, <1>6
<1>. QED  BY Zenon, <1>7 DEF cache, n

\* The updates of a build are verdicts, and no object's is missing that is not shadowed.
LEMMA BuildReports ==
  ASSUME NEW mix \in Mixes, NEW S, S \subseteq mix, NEW objects, NEW verdicts, NEW order \in VisitOrders(S)
  PROVE  LET updates == GetStatusUpdates(objects, verdicts, order)
         IN /\ \A u \in updates : IsVerdict(S, objects, u)
            /\ \A o \in S : RefsOf(o) # {} /\ (\A p \in S \ {o} : ~SameRoute(o, p)) => \E u \in updates : u.obj = o
<1>. DEFINE n == Cardinality(S)
            cache == StatusCache(objects, verdicts, order)
            Kept(o, k) == RefsOf(o) # {} /\ (\A p \in S \ {o} : ~SameRoute(o, p)) => \E u \in cache[k] : u.obj = o
            P(k) == /\ \A u \in cache[k] : IsVerdict(S, objects, u)
                    /\ \A j \in 1..k : Kept(order[j], k)
            Good == {k \in Nat : k <= n => P(k)}
<1>1. n \in Nat
  BY Zenon, MixesAssumption, FS_Subset, FS_CardinalityType
<1>2. order \in [1..n -> S] /\ \A o \in S : \E k \in 1..n : order[k] = o
  BY Zenon DEF VisitOrders
<1>3. Len(order) = n
  <2>. HIDE DEF n
  <2>. QED  BY <1>1, <1>2
<1>4. /\ cache[0] = {}
      /\ \A k \in 1..n : cache[k] = Visit(cache[k - 1], order[k], objects[order[k]], verdicts[order[k]])
  BY <1>1, <1>3, CacheSteps
<1>. HIDE DEF n, cache
<1>5. 0 \in Good
  BY <1>4
<1>6. ASSUME NEW k \in Nat, k \in Good  PROVE k + 1 \in Good
  <2>. SUFFICES ASSUME k + 1 <= n PROVE P(k + 1)
    OBVIOUS
  <2>. DEFINE o == order[k + 1]
  <2>1. P(k) /\ k + 1 \in 1..n /\ (k + 1) - 1 = k
    BY <1>1, <1>6
  <2>2. o \in S
    BY Zenon, <1>2, <2>1
  <2>3. cache[k + 1] = Visit(cache[k], o, objects[o], verdicts[o])
    BY Zenon, <1>4, <2>1
  <2>. HIDE DEF o
  <2>4. /\ \A u \in cache[k + 1] : IsVerdict(S, objects, u)
        /\ RefsOf(o) # {} => \E u \in cache[k + 1] : u.obj = o
        /\ \A u \in cache[k] : u.obj # o /\ ~SameRoute(u.obj, o) => u \in cache[k + 1]
    <3>. DEFINE old == cache[k]
                vs == verdicts[o]
    <3>1. \A u \in old : IsVerdict(S, objects, u)
      BY Zenon, <2>1
    <3>. HIDE DEF old, vs
    <3>2. LET new == Visit(old, o, objects[o], vs)
          IN /\ \A u \in new : IsVerdict(S, objects, u)
             /\ RefsOf(o) # {} => \E u \in new : u.obj = o
             /\ \A u \in old : u.obj # o /\ ~SameRoute(u.obj, o) => u \in new
      BY Zenon, <2>2, <3>1, VisitVerdict
    <3>. QED  BY Zenon, <2>3, <3>2 DEF old, vs
  <2>5. ASSUME NEW j \in 1..(k + 1)  PROVE Kept(order[j], k + 1)
    <3>1. CASE order[j] = o
      BY Zenon, <2>4, <3>1
    <3>2. CASE order[j] # o
      <4>1. j \in 1..k
        BY <3>2, <2>1 DEF o
      <4>2. Kept(order[j], k)
        BY Zenon, <2>1, <4>1
      <4>. QED  BY Zenon, <2>2, <2>4, <3>2, <4>2
    <3>. QED  BY Zenon, <3>1, <3>2
  <2>. QED  BY Zenon, <2>4, <2>5
<1>. HIDE DEF Good
<1>7. n \in Good
  BY Zenon, <1>1, <1>5, <1>6, NaturalsByInduction
<1>8. P(n)
  BY <1>1, <1>7 DEF Good
<1>9. GetStatusUpdates(objects, verdicts, order) = cache[n]
  BY Zenon, <1>3 DEF GetStatusUpdates, cache
<1>10. \A o \in S : Kept(o, n)
  BY Zenon, <1>2, <1>8
<1>. QED  BY Zenon, <1>8, <1>9, <1>10

-----------------------------------------------------------------------------
(* A write *)

\* What every mutator leaves: proper conditions, one of Contour's at least, and the other
\* controllers' as they were.
Merges(o, old, new) ==
  /\ \A c \in new : OurCondition(o, c) \/ OtherCondition(o, c)
  /\ \E c \in new : c.by = "contour"
  /\ {c \in new : c.by = "other"} = {c \in old : c.by = "other"}

LEMMA MutatorsMerge ==
  ASSUME NEW entry, NEW old, LET o == entry.obj IN
           /\ o.refs = {} \/ o.kind \notin {"HTTPProxy", "ExtensionService", "Gateway"}
           /\ \A c \in old : OurCondition(o, c) \/ OtherCondition(o, c)
           /\ entry.conds # {} /\ \A c \in entry.conds : OurCondition(o, c)
           /\ \A c \in entry.existing : OurCondition(o, c)
  PROVE  /\ entry.obj.refs = {} => Merges(entry.obj, old, MutateProxy(entry, old))
         /\ entry.obj.refs = {} => Merges(entry.obj, old, MutateGateway(entry))
         /\ entry.obj.kind \notin {"HTTPProxy", "ExtensionService", "Gateway"} =>
              Merges(entry.obj, old, MutateRoute(entry, old))
<1>. DEFINE o == entry.obj
<1>1. \A c : OurCondition(o, c) => c.by = "contour"
  BY Zenon DEF OurCondition
<1>2. \A c : OtherCondition(o, c) => c.by = "other"
  BY Zenon DEF OtherCondition
<1>3. ASSUME o.refs = {}  PROVE \A c \in old : OurCondition(o, c)
  BY Zenon, <1>3 DEF OtherCondition
<1>4. ASSUME o.refs = {}  PROVE Merges(o, old, MutateProxy(entry, old))
  <2>. DEFINE applied == {c \in entry.conds : \A d \in At(old, c) : d.gen <= c.gen}
              new == {d \in old : \A c \in applied : d \notin At(old, c)} \cup applied
  <2>1. \A c \in new : OurCondition(o, c)
    BY Zenon, <1>3, <1>4
  <2>2. new # {}
    <3>1. CASE applied = {}
      <4>1. PICK c \in entry.conds : c \notin applied
        BY Zenon, <3>1
      <4>2. PICK d \in At(old, c) : ~(d.gen <= c.gen)
        BY Zenon, <4>1
      <4>3. d \in old
        BY Zenon, <4>2 DEF At
      <4>. QED  BY Zenon, <3>1, <4>3
    <3>. QED  BY Zenon, <3>1
  <2>3. MutateProxy(entry, old) = new
    BY Zenon DEF MutateProxy
  <2>. HIDE DEF new
  <2>. QED  BY Zenon, <1>1, <1>3, <1>4, <2>1, <2>2, <2>3 DEF Merges
<1>5. ASSUME o.refs = {}  PROVE Merges(o, old, MutateGateway(entry))
  <2>1. ASSUME NEW c \in MutateGateway(entry)  PROVE OurCondition(o, c)
    <3>1. PICK e \in entry.conds : c = IF e.ref = Self /\ \E d \in At(entry.existing, e) : d.gen > e.gen
                                     THEN CHOOSE d \in At(entry.existing, e) : d.gen > e.gen ELSE e
      BY Zenon DEF MutateGateway
    <3>2. CASE e.ref = Self /\ \E d \in At(entry.existing, e) : d.gen > e.gen
      <4>1. c \in At(entry.existing, e)
        BY Zenon, <3>1, <3>2
      <4>. QED  BY Zenon, <4>1 DEF At
    <3>. QED  BY Zenon, <3>1, <3>2
  <2>2. MutateGateway(entry) # {}
    BY Zenon DEF MutateGateway
  <2>. QED  BY Zenon, <1>1, <1>3, <1>5, <2>1, <2>2 DEF Merges
<1>6. ASSUME o.kind \notin {"HTTPProxy", "ExtensionService", "Gateway"}
      PROVE  Merges(o, old, MutateRoute(entry, old))
  <2>. DEFINE new == MutateRoute(entry, old)
  <2>1. new = entry.conds \cup {d \in old : ~IsRefToGateway(d.ref, Gateway)}
    BY Zenon DEF MutateRoute
  <2>2. \A c \in old : c.by = "other" => ~IsRefToGateway(c.ref, Gateway)
    BY Zenon, <1>1 DEF OtherCondition
  <2>. HIDE DEF new
  <2>3. {c \in new : c.by = "other"} = {c \in old : c.by = "other"}
    BY Zenon, <1>1, <2>1, <2>2
  <2>4. /\ \A c \in new : OurCondition(o, c) \/ OtherCondition(o, c)
        /\ \E c \in new : c.by = "contour"
    BY Zenon, <1>1, <2>1
  <2>. QED  BY Zenon, <2>3, <2>4 DEF Merges, new
<1>. QED  BY Zenon, <1>4, <1>5, <1>6

LEMMA WriteMerges ==
  ASSUME StatusTypes, NEW entry, UpdateOK(entry)
  PROVE  LET o == entry.obj
             new == MutateObject(entry, api[o])
         IN /\ IsObject(new)
            /\ Merges(o, api[o].conds, new.conds)
            /\ o.kind \in {"HTTPProxy", "ExtensionService"} => new.conds = MutateProxy(entry, api[o].conds)
<1>. DEFINE o == entry.obj
            new == MutateObject(entry, api[o])
            old == api[o].conds
<1>1. o \in objs /\ objs \in Mixes
  BY Zenon DEF UpdateOK, StatusTypes
<1>2. o.refs = {} \/ o.kind \notin {"HTTPProxy", "ExtensionService", "Gateway"}
  BY Zenon, <1>1, MixesAssumption DEF IsRoute, RouteOrder
<1>3. /\ o.refs = {} => Merges(o, old, MutateProxy(entry, old))
      /\ o.refs = {} => Merges(o, old, MutateGateway(entry))
      /\ o.kind \notin {"HTTPProxy", "ExtensionService", "Gateway"} => Merges(o, old, MutateRoute(entry, old))
  <2>1. \A c \in old : OurCondition(o, c) \/ OtherCondition(o, c)
    BY Zenon, <1>1 DEF StatusTypes
  <2>2. /\ entry.conds # {} /\ \A c \in entry.conds : OurCondition(o, c)
        /\ \A c \in entry.existing : OurCondition(o, c)
    BY Zenon DEF UpdateOK
  <2>. HIDE DEF old
  <2>. QED  BY Zenon, <1>2, <2>1, <2>2, MutatorsMerge
<1>4. IsObject(api[o])
  BY Zenon, <1>1 DEF StatusTypes
<1>5. new = [gen |-> api[o].gen, conds |-> new.conds, current |-> new.current]
  BY Zenon DEF MutateObject
<1>6. new.conds = CASE o.kind = "HTTPProxy" -> MutateProxy(entry, old)
                    [] o.kind = "ExtensionService" -> MutateProxy(entry, old)
                    [] o.kind = "Gateway" -> MutateGateway(entry)
                    [] o.kind = "BackendTLSPolicy" -> MutateRoute(entry, old)
                    [] OTHER -> MutateRoute(entry, old)
  BY Zenon, <1>4 DEF IsObject, MutateObject, MutateExtension, MutatePolicy
<1>. HIDE DEF new, old
<1>7. IsObject(new)
  BY Zenon, <1>5 DEF IsObject
<1>8. Merges(o, old, new.conds)
  BY Zenon, <1>2, <1>3, <1>6
<1>9. o.kind \in {"HTTPProxy", "ExtensionService"} => new.conds = MutateProxy(entry, old)
  BY Zenon, <1>6
<1>. QED  BY Zenon, <1>7, <1>8, <1>9 DEF new, old

-----------------------------------------------------------------------------
LEMMA StatusInvInit == StatusInit => StatusInv
<1>. SUFFICES ASSUME StatusInit PROVE StatusInv
  BY Zenon
<1>1. StatusTypes
  BY Zenon DEF StatusInit, StatusTypes, IsObject
<1>2. ReportedUnlessShadowed
  BY DEF StatusInit, ReportedUnlessShadowed, Reported
<1>. QED  BY Zenon, <1>1, <1>2 DEF StatusInv, StatusInit

\* A ref that does not mean our Gateway does not pass for a ref to it: see MixesAssumption.
LEMMA OtherRefs ==
  ASSUME objs \in Mixes, NEW o \in objs, NEW ref \in o.refs, ~RefersToGateway(o, ref)
  PROVE  ~IsRefToGateway(ref, Gateway)
<1>. SUFFICES ASSUME IsRefToGateway(ref, Gateway) PROVE FALSE
  BY Zenon
<1>1. ref.ns = "" => o.ns = Gateway.ns
  BY Zenon, MixesAssumption DEF IsRefToGateway
<1>. QED  BY Zenon, <1>1 DEF IsRefToGateway, RefersToGateway

\* Of the actions only a write and another controller change conditions.
LEMMA EditStep ==
  ASSUME StatusInv, NEW o \in objs, Edit(o)
  PROVE  /\ StatusInv'
         /\ \A p \in objs : api'[p].conds = api[p].conds
<1>. USE DEF StatusInv, StatusTypes
<1>1. DOMAIN api' = objs /\ objs' = objs /\ seen' = seen /\ pending' = pending /\ built' = built
  BY Zenon DEF Edit
<1>2. api'[o] = [gen |-> api[o].gen + 1, conds |-> api[o].conds, current |-> api[o].current]
  <2>1. IsObject(api[o]) /\ api'[o] = [api[o] EXCEPT !.gen = @ + 1]
    BY Zenon DEF Edit
  <2>. QED  BY Zenon, <2>1 DEF IsObject
<1>3. \A p \in objs : /\ p # o => api'[p] = api[p]
                      /\ IsObject(api'[p]) /\ api'[p].conds = api[p].conds
  BY <1>2 DEF Edit, IsObject
<1>4. StatusTypes'
  BY Zenon, <1>1, <1>3 DEF IsObject, OurCondition, OtherCondition
<1>5. ReportedUnlessShadowed'
  BY <1>1, <1>3 DEF ReportedUnlessShadowed, Reported, Shadowed
<1>6. (\A i \in Instances : \A entry \in pending[i] : UpdateOK(entry))'
  BY Zenon, <1>1 DEF UpdateOK
<1>. QED  BY Zenon, <1>3, <1>4, <1>5, <1>6

LEMMA OtherControllerStep ==
  ASSUME StatusInv, NEW o \in objs, NEW ref \in o.refs, OtherController(o, ref)
  PROVE  /\ StatusInv'
         /\ \A p \in objs \ {o} : api'[p] = api[p]
<1>. DEFINE c == Condition(ref, "Accepted", api[o].gen, "True", "other")
            new == {d \in api[o].conds : d.ref # ref} \cup {c}
<1>1. DOMAIN api' = objs /\ objs' = objs /\ seen' = seen /\ pending' = pending /\ built' = built
  BY Zenon DEF OtherController, StatusInv, StatusTypes
<1>2. api'[o] = [gen |-> api[o].gen, conds |-> new, current |-> api[o].current]
  <2>1. IsObject(api[o])
    BY Zenon DEF StatusInv, StatusTypes
  <2>2. api'[o] = [api[o] EXCEPT !.conds = new]
    BY Zenon DEF OtherController, StatusInv, StatusTypes
  <2>. HIDE DEF new
  <2>. QED  BY Zenon, <2>1, <2>2 DEF IsObject
<1>3. \A p \in objs \ {o} : api'[p] = api[p]
  BY Zenon DEF OtherController, StatusInv, StatusTypes
<1>4. OtherCondition(o, c)
  BY Zenon, OtherRefs DEF OtherController, OtherCondition, Condition, StatusInv, StatusTypes
<1>5. \A d \in new : OurCondition(o, d) \/ OtherCondition(o, d)
  BY Zenon, <1>4 DEF StatusInv, StatusTypes
<1>6. ASSUME NEW d \in api[o].conds, d.by = "contour"  PROVE d \in new
  <2>1. OurCondition(o, d) /\ d.ref \in RefsOf(o)
    BY Zenon, <1>6 DEF StatusInv, StatusTypes, OurCondition, OtherCondition
  <2>2. o.kind \notin {"HTTPProxy", "ExtensionService", "Gateway"}
    BY Zenon, MixesAssumption DEF StatusInv, StatusTypes, IsRoute, RouteOrder
  <2>3. IsRefToGateway(d.ref, Gateway) /\ ~IsRefToGateway(ref, Gateway)
    BY Zenon, <2>1, <2>2, OtherRefs DEF RefsOf, OtherController, StatusInv, StatusTypes
  <2>. QED  BY Zenon, <2>3
<1>. HIDE DEF new
<1>7. \A p \in objs : /\ IsObject(api'[p])
                      /\ \A d \in api'[p].conds : OurCondition(p, d) \/ OtherCondition(p, d)
                      /\ \A d \in api[p].conds : d.by = "contour" => d \in api'[p].conds
  BY SMTT(30), <1>2, <1>3, <1>5, <1>6 DEF IsObject, StatusInv, StatusTypes
<1>8. StatusTypes'
  BY Zenon, <1>1, <1>7 DEF StatusInv, StatusTypes, IsObject, OurCondition, OtherCondition
<1>9. ReportedUnlessShadowed'
  BY <1>1, <1>7 DEF StatusInv, ReportedUnlessShadowed, Reported, Shadowed
<1>10. (\A i \in Instances : \A entry \in pending[i] : UpdateOK(entry))'
  BY Zenon, <1>1 DEF StatusInv, UpdateOK
<1>. QED  BY Zenon, <1>3, <1>8, <1>9, <1>10 DEF StatusInv

LEMMA ObserveStep ==
  ASSUME StatusInv, NEW i \in Instances, NEW o \in objs, Observe(i, o)
  PROVE  StatusInv' /\ api' = api
<1>1. objs' = objs /\ api' = api /\ pending' = pending /\ built' = built
  BY Zenon DEF Observe
<1>2. \A c \in View(o).existing : OurCondition(o, c)
  <2>1. o.kind = "Gateway" => o.refs = {}
    BY Zenon, MixesAssumption DEF StatusInv, StatusTypes, IsRoute, RouteOrder
  <2>. QED  BY Zenon, <2>1 DEF View, StatusInv, StatusTypes, OtherCondition
<1>. DEFINE view == View(o)
<1>. HIDE DEF view
<1>3. DOMAIN seen' = Instances /\ \A j \in Instances : DOMAIN seen'[j] = objs
  BY Zenon DEF Observe, StatusInv, StatusTypes
<1>4. \A j \in Instances, p \in objs : seen'[j][p] = seen[j][p] \/ (p = o /\ seen'[j][p] = view)
  BY Zenon DEF Observe, StatusInv, StatusTypes, view
<1>5. \A j \in Instances, p \in objs : \A c \in seen'[j][p].existing : OurCondition(p, c)
  BY SMTT(30), <1>2, <1>4 DEF StatusInv, StatusTypes, view
<1>6. StatusTypes'
  BY Zenon, <1>1, <1>3, <1>5 DEF StatusInv, StatusTypes, IsObject, OurCondition, OtherCondition
<1>7. ReportedUnlessShadowed'
  BY SMTT(30), <1>1 DEF StatusInv, ReportedUnlessShadowed, Reported, Shadowed
<1>8. (\A j \in Instances : \A entry \in pending[j] : UpdateOK(entry))'
  BY Zenon, <1>1 DEF StatusInv, UpdateOK
<1>. QED  BY Zenon, <1>1, <1>6, <1>7, <1>8 DEF StatusInv

LEMMA BuildStep ==
  ASSUME StatusInv, NEW i \in Instances, Build(i)
  PROVE  StatusInv' /\ api' = api
<1>. DEFINE S == {o \in objs : seen[i][o].gen > 0}
<1>1. objs' = objs /\ api' = api /\ seen' = seen
  BY Zenon DEF Build
<1>a. PICK order \in VisitOrders(S) :
        \E verdicts : pending' = [pending EXCEPT ![i] = GetStatusUpdates(seen[i], verdicts, order)]
  BY Zenon DEF Build
<1>2. PICK verdicts : pending' = [pending EXCEPT ![i] = GetStatusUpdates(seen[i], verdicts, order)]
  BY Zenon, <1>a
<1>. DEFINE updates == GetStatusUpdates(seen[i], verdicts, order)
<1>3. /\ \A u \in updates : IsVerdict(S, seen[i], u)
      /\ \A o \in S : RefsOf(o) # {} /\ (\A p \in S \ {o} : ~SameRoute(o, p)) => \E u \in updates : u.obj = o
  <2>1. objs \in Mixes /\ S \subseteq objs
    BY Zenon DEF StatusInv, StatusTypes
  <2>. HIDE DEF S
  <2>. QED  BY <2>1, BuildReports
<1>. HIDE DEF updates
<1>4. /\ DOMAIN pending' = Instances /\ pending'[i] = updates
      /\ \A j \in Instances \ {i} : pending'[j] = pending[j]
  BY Zenon, <1>2 DEF StatusInv, StatusTypes, updates
<1>5. /\ DOMAIN built' = Instances /\ built'[i] = [o \in objs |-> seen[i][o].gen]
      /\ \A j \in Instances \ {i} : built'[j] = built[j]
  BY Zenon DEF Build, StatusInv, StatusTypes
<1>6. ASSUME NEW u \in updates  PROVE u.obj \in objs /\ u.gen = seen[i][u.obj].gen /\ UpdateOK(u)
  <2>1. PICK o \in S : RefsOf(o) # {} /\ \E v : u = Verdict(o, seen[i][o], v)
    BY Zenon, <1>3, <1>6 DEF IsVerdict
  <2>2. PICK v : u = Verdict(o, seen[i][o], v)
    BY Zenon, <2>1
  <2>3. o \in objs /\ (o.kind \in {"HTTPProxy", "ExtensionService", "Gateway"} => o.refs = {})
    BY ZenonT(60), MixesAssumption DEF StatusInv, StatusTypes, IsRoute, RouteOrder
  <2>4. /\ u.obj = o /\ u.gen = seen[i][o].gen /\ u.existing = seen[i][o].existing
        /\ u.conds # {}
        /\ \A c \in u.conds : OurCondition(o, c)
    BY SMTT(30), <2>1, <2>2, <2>3, VerdictFacts
  <2>. QED  BY Zenon, <2>3, <2>4 DEF UpdateOK, StatusInv, StatusTypes
<1>7. ASSUME NEW o \in objs, ~Shadowed(o)  PROVE Reported(i, o)'
  <2>. SUFFICES ASSUME built'[i][o] > 0, RefsOf(o) # {}
                PROVE  \E entry \in pending'[i] : entry.obj = o /\ entry.gen = built'[i][o]
    BY Zenon DEF Reported
  <2>1. o \in S /\ built'[i][o] = seen[i][o].gen
    BY Zenon, <1>5
  <2>2. \A p \in S \ {o} : ~SameRoute(o, p)
    BY Zenon, <1>7 DEF Shadowed, SameRoute
  <2>3. PICK u \in updates : u.obj = o
    BY Zenon, <1>3, <2>1, <2>2
  <2>. QED  BY <1>4, <1>6, <2>1, <2>3
<1>8. ASSUME NEW j \in Instances \ {i}, NEW o \in objs, Reported(j, o)  PROVE Reported(j, o)'
  BY Zenon, <1>1, <1>4, <1>5, <1>8 DEF Reported
<1>9. ReportedUnlessShadowed'
  <2>1. \A o : Shadowed(o)' <=> Shadowed(o)
    BY ZenonT(30), <1>1 DEF Shadowed
  <2>. QED  BY Zenon, <1>1, <1>7, <1>8, <2>1 DEF StatusInv, ReportedUnlessShadowed
<1>10. StatusTypes'
  BY SMTT(30), <1>1, <1>4, <1>5 DEF StatusInv, StatusTypes, IsObject, OurCondition, OtherCondition
<1>11. (\A j \in Instances : \A entry \in pending[j] : UpdateOK(entry))'
  BY Zenon, <1>1, <1>4, <1>6 DEF StatusInv, UpdateOK
<1>. QED  BY Zenon, <1>1, <1>9, <1>10, <1>11 DEF StatusInv

LEMMA MergeStep ==
  ASSUME StatusInv, NEW i \in Instances, NEW entry \in pending[i], Write(i, entry)
  PROVE  /\ StatusInv'
         /\ \A o \in objs \ {entry.obj} : api'[o] = api[o]
         /\ Merges(entry.obj, api[entry.obj].conds, api'[entry.obj].conds)
         /\ entry.obj.kind \in {"HTTPProxy", "ExtensionService"} =>
              api'[entry.obj].conds = MutateProxy(entry, api[entry.obj].conds)
<1>. DEFINE o == entry.obj
<1>1. objs' = objs /\ seen' = seen /\ built' = built
  BY Zenon DEF Write
<1>2. o \in objs /\ UpdateOK(entry)
  BY Zenon DEF StatusInv, UpdateOK
<1>3. /\ DOMAIN api' = objs /\ api'[o] = MutateObject(entry, api[o])
      /\ \A p \in objs \ {o} : api'[p] = api[p]
  BY Zenon, <1>2 DEF Write, StatusInv, StatusTypes
<1>4. /\ DOMAIN pending' = Instances /\ pending'[i] = pending[i] \ {entry}
      /\ \A j \in Instances \ {i} : pending'[j] = pending[j]
  BY Zenon DEF Write, StatusInv, StatusTypes
<1>5. /\ IsObject(api'[o])
      /\ Merges(o, api[o].conds, api'[o].conds)
      /\ o.kind \in {"HTTPProxy", "ExtensionService"} => api'[o].conds = MutateProxy(entry, api[o].conds)
  BY Zenon, <1>2, <1>3, WriteMerges DEF StatusInv
<1>. HIDE DEF o
<1>6. \A p \in objs : /\ IsObject(api'[p])
                      /\ \A c \in api'[p].conds : OurCondition(p, c) \/ OtherCondition(p, c)
  BY Zenon, <1>3, <1>5 DEF Merges, StatusInv, StatusTypes
<1>7. StatusTypes'
  BY Zenon, <1>1, <1>3, <1>4, <1>6 DEF StatusInv, StatusTypes, IsObject, OurCondition, OtherCondition
<1>8. ASSUME NEW j \in Instances, NEW p \in objs, Reported(j, p)  PROVE Reported(j, p)'
  <2>1. CASE p = o
    BY Zenon, <1>5, <2>1 DEF Reported, Merges
  <2>2. CASE p # o
    <3>1. \A u \in pending[j] : u.obj = p => u \in pending'[j]
      BY Zenon, <1>4, <2>2 DEF o
    <3>. QED  BY Zenon, <1>1, <1>3, <1>8, <2>2, <3>1 DEF Reported
  <2>. QED  BY Zenon, <2>1, <2>2
<1>9. ReportedUnlessShadowed'
  <2>1. \A p : Shadowed(p)' <=> Shadowed(p)
    BY ZenonT(30), <1>1 DEF Shadowed
  <2>. QED  BY Zenon, <1>1, <1>8, <2>1 DEF StatusInv, ReportedUnlessShadowed
<1>10. (\A j \in Instances : \A u \in pending[j] : UpdateOK(u))'
  BY Zenon, <1>1, <1>4 DEF StatusInv, UpdateOK
<1>. QED  BY Zenon, <1>3, <1>5, <1>7, <1>9, <1>10 DEF StatusInv, o

LEMMA StatusInvariant == StatusSpec => []StatusInv
<1>1. StatusInit => StatusInv
  BY Zenon, StatusInvInit
<1>2. StatusInv /\ [StatusNext]_statusVars => StatusInv'
  <2>. SUFFICES ASSUME StatusInv, [StatusNext]_statusVars PROVE StatusInv'
    BY Zenon
  <2>1. CASE UNCHANGED statusVars
    BY SMTT(30), <2>1 DEF statusVars, StatusInv, StatusTypes, IsObject, OurCondition, OtherCondition, UpdateOK,
       ReportedUnlessShadowed, Reported, Shadowed
  <2>2. CASE StatusNext
    BY Zenon, <2>2, EditStep, OtherControllerStep, ObserveStep, BuildStep, MergeStep DEF StatusNext
  <2>. QED  BY Zenon, <2>1, <2>2
<1>. QED  BY <1>1, <1>2, PTL DEF StatusSpec

\* Whatever the objects, the instances and the order of the visits: what a build found out about
\* an object is on its way or written, unless a route of another kind shadows it
\* (RouteConditionsAccessor).
THEOREM VerdictsAreReported == StatusSpec => []ReportedUnlessShadowed
<1>1. StatusInv => ReportedUnlessShadowed
  BY Zenon DEF StatusInv
<1>. QED  BY <1>1, StatusInvariant, PTL

\* No write of an instance, however late, takes a verdict on an HTTPProxy or ExtensionService back
\* to an earlier generation (ProxyUpdate.Mutate, ExtensionCacheEntry.AsStatusUpdate).
THEOREM NoOlderVerdict == StatusSpec => NewerVerdictStands
<1>1. ASSUME StatusInv, [StatusNext]_statusVars  PROVE [NewerVerdictStandsStep]_statusVars
  <2>. SUFFICES ASSUME StatusNext, NEW o \in Detailed, NEW c \in api[o].conds, c \notin api'[o].conds
                PROVE  \E d \in At(api'[o].conds, c) : c.gen <= d.gen
    BY Zenon, <1>1 DEF NewerVerdictStandsStep
  <2>1. o \in objs /\ o.kind \in {"HTTPProxy", "ExtensionService"}
    BY Zenon DEF Detailed
  <2>2. o.refs = {}
    BY Zenon, <1>1, <2>1, MixesAssumption DEF StatusInv, StatusTypes, IsRoute, RouteOrder
  <2>3. ~\E p \in objs : Edit(p)
    BY Zenon, <1>1, <2>1, EditStep
  <2>4. ~\E p \in objs : \E ref \in p.refs : OtherController(p, ref)
    BY Zenon, <1>1, <2>1, <2>2, OtherControllerStep
  <2>5. ~\E i \in Instances : Build(i) \/ \E p \in objs : Observe(i, p)
    BY Zenon, <1>1, ObserveStep, BuildStep
  <2>a. PICK i \in Instances : \E entry \in pending[i] : Write(i, entry)
    BY Zenon, <2>3, <2>4, <2>5 DEF StatusNext
  <2>6. PICK entry \in pending[i] : Write(i, entry)
    BY Zenon, <2>a
  <2>7. entry.obj = o /\ api'[o].conds = MutateProxy(entry, api[o].conds)
    BY Zenon, <1>1, <2>1, <2>6, MergeStep
  <2>8. PICK d \in entry.conds : /\ \A e \in At(api[o].conds, d) : e.gen <= d.gen
                               /\ c \in At(api[o].conds, d)
                               /\ d \in api'[o].conds
    BY Zenon, <2>7 DEF MutateProxy
  <2>. QED  BY Zenon, <2>8 DEF At
<1>. QED  BY <1>1, StatusInvariant, PTL DEF StatusSpec, NewerVerdictStands

\* Only another controller changes the conditions that other controllers set for other Gateways
\* (RouteStatusUpdate.Mutate, BackendTLSPolicyStatusUpdate.Mutate).
THEOREM OtherGatewaysLeftAlone == StatusSpec => OtherGatewaysKept
<1>1. ASSUME StatusInv, [StatusNext]_statusVars  PROVE [OtherGatewaysKeptStep]_statusVars
  <2>. SUFFICES ASSUME StatusNext, NEW o \in objs, OthersConditions(api[o]) # OthersConditions(api'[o])
                PROVE  \E ref \in o.refs : OtherController(o, ref)
    BY Zenon, <1>1 DEF OtherGatewaysKeptStep
  <2>1. ~\E p \in objs : Edit(p)
    BY Zenon, <1>1, EditStep DEF OthersConditions
  <2>2. ~\E i \in Instances : Build(i) \/ \E p \in objs : Observe(i, p)
    BY Zenon, <1>1, ObserveStep, BuildStep
  <2>3. ~\E i \in Instances : \E entry \in pending[i] : Write(i, entry)
    BY Zenon, <1>1, MergeStep DEF OthersConditions, Merges
  <2>4. PICK p \in objs : \E ref \in p.refs : OtherController(p, ref)
    BY Zenon, <2>1, <2>2, <2>3 DEF StatusNext
  <2>5. p = o
    BY Zenon, <1>1, <2>4, OtherControllerStep
  <2>. QED  BY Zenon, <2>4, <2>5
<1>. QED  BY <1>1, StatusInvariant, PTL DEF StatusSpec, OtherGatewaysKept

-----------------------------------------------------------------------------
(* Module StatusUpdates. *)

USE StatusAssumption, NoneAssumption

\* An update of a DAG has a DAG status, one of an address an address.
DagUpdates == {u \in Updates : u.field = "dag" /\ u.value \in DagStatuses}
AddressUpdates == {u \in Updates : u.field = "address" /\ u.value \in Addresses}
Sent == DagUpdates \cup AddressUpdates

\* The objects and the informer cache: an object has a version, and the cache one of its
\* versions.
ApiOK ==
  /\ versions \in [Objects -> Seq(Versions)]
  /\ \A o \in Objects : Len(versions[o]) > 0
  /\ cachedRv \in [Objects -> Nat \ {0}]
  /\ \A o \in Objects : cachedRv[o] <= Len(versions[o])

\* What the goroutines are about to send.
SendersOK ==
  /\ lbStatus \in Seq(Addresses \cup {Empty})
  /\ serviceQueue \in Seq(Addresses \cup {Empty})
  /\ LBStatus \in Addresses \cup {Empty}
  /\ todo \subseteq Objects
  /\ wSend \in AddressUpdates \cup {None}
  /\ iSend \in [Objects -> AddressUpdates \cup {None}]
  /\ want \in [Objects -> DagStatuses]
  /\ DOMAIN dagSend = Objects
  /\ \A o \in Objects : dagSend[o] \in {None, Update(o, "dag", want[o])}

\* The channel and the handler's update: apply holds a version only with an update.
HandlerOK ==
  /\ updateChannel \in Seq(Sent)
  /\ upd \in Sent \cup {None}
  /\ got \in Nat
  /\ got # 0 => upd # None
  /\ DOMAIN skewed = Objects

TypeOK == ApiOK /\ SendersOK /\ HandlerOK

-----------------------------------------------------------------------------
(* Operators of the model *)

\* Mutating a status sets the field of the update and no other.
LEMMA MutateFields ==
  ASSUME NEW v \in Versions, NEW u \in Sent
  PROVE  /\ Mutate(v, u) \in Versions
         /\ u \in DagUpdates => Mutate(v, u).dag = u.value
         /\ u \in AddressUpdates => Mutate(v, u).dag = v.dag
<1>1. CASE u \in DagUpdates
  BY Zenon, <1>1 DEF Versions, Updates, Mutate, DagUpdates, AddressUpdates
<1>2. CASE u \in AddressUpdates
  BY Zenon, <1>2 DEF Versions, Updates, Mutate, DagUpdates, AddressUpdates
<1>. QED  BY Zenon, <1>1, <1>2 DEF Sent

LEMMA LatestIsVersion ==
  ASSUME ApiOK, NEW o \in Objects
  PROVE  /\ versions[o] \in Seq(Versions) /\ Len(versions[o]) \in Nat \ {0}
         /\ Latest(o) \in Versions
         /\ cachedRv[o] \in 1 .. Len(versions[o])
  BY DEF ApiOK, Latest

\* addressUpdate sends nothing, or an address.
LEMMA AddressUpdateType ==
  ASSUME NEW o \in Objects, NEW lb \in Addresses \cup {Empty}
  PROVE  addressUpdate(o, lb) \in AddressUpdates \cup {None}
  BY Zenon DEF addressUpdate, AddressUpdates, Updates, Update

LEMMA DagUpdateType ==
  ASSUME NEW o \in Objects, NEW s \in DagStatuses
  PROVE  /\ Update(o, "dag", s) \in DagUpdates /\ Update(o, "dag", s) # None
         /\ Update(o, "dag", s).object = o /\ Update(o, "dag", s).value = s
  BY DEF DagUpdates, Updates, Update

\* The head and the tail of a channel that is not empty, and the channel after a Send.
LEMMA ChannelType ==
  ASSUME NEW q \in Seq(Sent), NEW u \in Sent
  PROVE  /\ Append(q, u) \in Seq(Sent) /\ Len(Append(q, u)) = Len(q) + 1
         /\ \A i \in 1 .. Len(q) : Append(q, u)[i] = q[i]
         /\ Append(q, u)[Len(q) + 1] = u
         /\ q # <<>> => /\ Head(q) \in Sent /\ Head(q) = q[1] /\ Len(q) > 0
                        /\ Tail(q) \in Seq(Sent) /\ Len(Tail(q)) = Len(q) - 1
                        /\ \A i \in 1 .. Len(q) - 1 : Tail(q)[i] = q[i + 1]
  OBVIOUS

-----------------------------------------------------------------------------
(* Types *)

LEMMA TypeStep == TypeOK /\ [Next]_vars => TypeOK'
<1>. SUFFICES ASSUME TypeOK, [Next]_vars PROVE TypeOK'
  BY Zenon
<1>a. ASSUME UNCHANGED apiVars PROVE ApiOK'
  BY Zenon, <1>a DEF TypeOK, ApiOK, apiVars
<1>b. ASSUME UNCHANGED <<lbStatus, serviceQueue, LBStatus, todo, wSend, iSend, want, dagSend>>
      PROVE  SendersOK'
  BY Zenon, <1>b DEF TypeOK, SendersOK
<1>c. ASSUME UNCHANGED <<updateChannel, upd, got, skewed>> PROVE HandlerOK'
  BY Zenon, <1>c DEF TypeOK, HandlerOK
<1>d. ASSUME NEW u \in Sent, Send(u), UNCHANGED handlerVars PROVE HandlerOK'
  BY <1>d, ChannelType DEF TypeOK, HandlerOK, Send, SendOnChannel, Drop, handlerVars
<1>1. ASSUME NEW o \in Objects, Touch(o) PROVE TypeOK'
  <2>1. ApiOK'
    <3>1. Append(versions[o], Latest(o)) \in Seq(Versions)
          /\ Len(Append(versions[o], Latest(o))) = Len(versions[o]) + 1
      BY LatestIsVersion DEF TypeOK
    <3>. QED  BY <1>1, <3>1, LatestIsVersion DEF Touch, TypeOK, ApiOK
  <2>. QED  BY Zenon, <1>1, <1>b, <1>c, <2>1
            DEF Touch, TypeOK, serviceVars, writerVars, iVars, dagVars, handlerVars, channelVars
<1>2. ASSUME NEW o \in Objects, WatchEvent(o) PROVE TypeOK'
  <2>1. ApiOK'
    BY <1>2, LatestIsVersion DEF WatchEvent, TypeOK, ApiOK
  <2>. QED  BY Zenon, <1>2, <1>b, <1>c, <2>1
            DEF WatchEvent, TypeOK, serviceVars, writerVars, iVars, dagVars, handlerVars, channelVars
<1>3. ASSUME NEW a \in Addresses \cup {Empty}, ServiceChange(a) PROVE TypeOK'
  <2>1. SendersOK'
    BY <1>3 DEF ServiceChange, TypeOK, SendersOK, writerVars, iVars, dagVars
  <2>. QED  BY Zenon, <1>3, <1>a, <1>c, <2>1 DEF ServiceChange, TypeOK, handlerVars, channelVars
<1>4. CASE notify
  <2>1. SendersOK'
    BY <1>4 DEF notify, TypeOK, SendersOK, writerVars, iVars, dagVars
  <2>. QED  BY Zenon, <1>4, <1>a, <1>c, <2>1 DEF notify, TypeOK, handlerVars, channelVars
<1>5. CASE WriterStart
  BY Zenon, <1>5, <1>a, <1>b, <1>c
     DEF WriterStart, TypeOK, serviceVars, dagVars, handlerVars, channelVars
<1>6. CASE WriterReceive
  <2>1. SendersOK'
    BY <1>6 DEF WriterReceive, TypeOK, SendersOK, serviceVars, iVars, dagVars
  <2>. QED  BY Zenon, <1>6, <1>a, <1>c, <2>1 DEF WriterReceive, TypeOK, handlerVars, channelVars
<1>7. ASSUME NEW o \in Objects, WriterOnAdd(o) PROVE TypeOK'
  <2>1. addressUpdate(o, LBStatus) \in AddressUpdates \cup {None}
    BY Zenon, AddressUpdateType DEF TypeOK, SendersOK
  <2>2. SendersOK'
    BY Zenon, <1>7, <2>1 DEF WriterOnAdd, TypeOK, SendersOK, serviceVars, iVars, dagVars
  <2>. QED  BY Zenon, <1>7, <1>a, <1>c, <2>2 DEF WriterOnAdd, TypeOK, handlerVars, channelVars
<1>8. CASE WriterSend
  <2>1. wSend \in Sent /\ Send(wSend)
    BY Zenon, <1>8 DEF WriterSend, TypeOK, SendersOK, Sent
  <2>2. SendersOK'
    BY Zenon, <1>8 DEF WriterSend, TypeOK, SendersOK, serviceVars, iVars, dagVars
  <2>. QED  BY Zenon, <1>8, <1>a, <1>d, <2>1, <2>2 DEF WriterSend, TypeOK
<1>9. CASE WriterStop
  <2>1. SendersOK'
    BY Zenon, <1>9 DEF WriterStop, addressAfterStop, TypeOK, SendersOK, serviceVars, iVars, dagVars
  <2>. QED  BY Zenon, <1>9, <1>a, <1>c, <2>1 DEF WriterStop, TypeOK, handlerVars, channelVars
<1>10. ASSUME NEW o \in Objects, InformerOnUpdate(o) PROVE TypeOK'
  <2>1. addressUpdate(o, LBStatus) \in AddressUpdates \cup {None}
    BY Zenon, AddressUpdateType DEF TypeOK, SendersOK
  <2>2. SendersOK'
    BY Zenon, <1>10, <2>1 DEF InformerOnUpdate, TypeOK, SendersOK, serviceVars, writerVars, dagVars
  <2>. QED  BY Zenon, <1>10, <1>a, <1>c, <2>2 DEF InformerOnUpdate, TypeOK, handlerVars, channelVars
<1>11. ASSUME NEW o \in Objects, InformerSend(o) PROVE TypeOK'
  <2>1. iSend[o] \in Sent /\ Send(iSend[o])
    BY Zenon, <1>11 DEF InformerSend, TypeOK, SendersOK, Sent
  <2>2. SendersOK'
    BY Zenon, <1>11 DEF InformerSend, TypeOK, SendersOK, serviceVars, writerVars, dagVars
  <2>. QED  BY Zenon, <1>11, <1>a, <1>d, <2>1, <2>2 DEF InformerSend, TypeOK
<1>12. CASE Rebuild
  <2>1. SendersOK'
    BY Zenon, <1>12 DEF Rebuild, TypeOK, SendersOK, serviceVars, writerVars, iVars
  <2>. QED  BY Zenon, <1>12, <1>a, <1>c, <2>1 DEF Rebuild, TypeOK, handlerVars, channelVars
<1>13. ASSUME NEW o \in Objects, DagSend(o) PROVE TypeOK'
  <2>1. dagSend[o] \in Sent /\ Send(dagSend[o])
    BY <1>13, DagUpdateType DEF DagSend, TypeOK, SendersOK, Sent
  <2>2. SendersOK'
    BY Zenon, <1>13 DEF DagSend, TypeOK, SendersOK, serviceVars, writerVars, iVars
  <2>. QED  BY Zenon, <1>13, <1>a, <1>d, <2>1, <2>2 DEF DagSend, TypeOK
<1>14. CASE HandlerStart
  BY Zenon, <1>14, <1>a, <1>b, <1>c
     DEF HandlerStart, TypeOK, serviceVars, writerVars, iVars, dagVars, handlerVars
<1>15. CASE HandlerReceive
  <2>1. HandlerOK'
    BY <1>15, ChannelType DEF HandlerReceive, TypeOK, HandlerOK
  <2>. QED  BY Zenon, <1>15, <1>a, <1>b, <2>1 DEF HandlerReceive, TypeOK, serviceVars, writerVars, iVars, dagVars
<1>e. ASSUME NEW behind, upd # None, Applied, Skew(behind), UNCHANGED channelVars
      PROVE  HandlerOK'
  <2>1. upd \in Updates /\ upd.object \in Objects
    BY Zenon, <1>e DEF TypeOK, HandlerOK, Sent, DagUpdates, AddressUpdates, Updates
  <2>2. DOMAIN skewed' = Objects
    BY Zenon, <1>e, <2>1 DEF Skew, TypeOK, HandlerOK
  <2>. QED  BY Zenon, <1>e, <2>2 DEF Applied, TypeOK, HandlerOK, channelVars
<1>16. CASE Get
  <2>1. HandlerOK'
    <3>1. upd # None /\ upd.object \in Objects
      BY Zenon, <1>16 DEF Get, TypeOK, HandlerOK, Sent, DagUpdates, AddressUpdates, Updates
    <3>2. cachedRv[upd.object] \in Nat \ {0} /\ Len(versions[upd.object]) \in Nat
      BY <3>1 DEF TypeOK, ApiOK
    <3>3. CASE Applied /\ Skew(cachedRv[upd.object] < Len(versions[upd.object]))
      BY Zenon, <1>16, <1>e, <3>1, <3>2, <3>3 DEF Get
    <3>4. CASE got' = cachedRv[upd.object] /\ UNCHANGED <<upd, attempts, skewed>>
      BY Zenon, <1>16, <3>1, <3>2, <3>4 DEF Get, TypeOK, HandlerOK, channelVars
    <3>. QED  BY Zenon, <1>16, <3>3, <3>4 DEF Get
  <2>. QED  BY Zenon, <1>16, <1>a, <1>b, <2>1 DEF Get, TypeOK, serviceVars, writerVars, iVars, dagVars
<1>17. CASE StatusUpdate
  <2>1. upd # None /\ upd \in Sent /\ upd.object \in Objects
    BY Zenon, <1>17 DEF StatusUpdate, TypeOK, HandlerOK, Sent, DagUpdates, AddressUpdates, Updates
  <2>2. got = Len(versions[upd.object])
    BY Zenon, <1>17 DEF StatusUpdate, conflict
  <2>3. /\ Append(versions[upd.object], Mutate(versions[upd.object][got], upd)) \in Seq(Versions)
        /\ Len(Append(versions[upd.object], Mutate(versions[upd.object][got], upd)))
             = Len(versions[upd.object]) + 1
    BY <2>1, <2>2, LatestIsVersion, MutateFields DEF TypeOK, Latest
  <2>4. ApiOK'
    BY <1>17, <2>1, <2>3, LatestIsVersion DEF StatusUpdate, TypeOK, ApiOK
  <2>5. HandlerOK'
    BY Zenon, <1>17, <1>e, <2>1 DEF StatusUpdate
  <2>. QED  BY Zenon, <1>17, <1>b, <2>4, <2>5 DEF StatusUpdate, TypeOK, serviceVars, writerVars, iVars, dagVars
<1>18. CASE StatusConflict
  <2>1. HandlerOK'
    <3>1. CASE Applied /\ Skew(TRUE)
      BY Zenon, <1>18, <1>e, <3>1 DEF StatusConflict, TypeOK, HandlerOK
    <3>2. CASE got' = 0 /\ UNCHANGED <<upd, skewed>>
      BY Zenon, <1>18, <3>2 DEF StatusConflict, TypeOK, HandlerOK, channelVars
    <3>. QED  BY Zenon, <1>18, <3>1, <3>2 DEF StatusConflict
  <2>. QED  BY Zenon, <1>18, <1>a, <1>b, <2>1 DEF StatusConflict, TypeOK, serviceVars, writerVars, iVars, dagVars
<1>19. CASE UNCHANGED vars
  BY Zenon, <1>19, <1>a, <1>b, <1>c
     DEF vars, TypeOK, serviceVars, writerVars, iVars, dagVars, handlerVars, channelVars
<1>. QED  BY Zenon, <1>1, <1>2, <1>3, <1>4, <1>5, <1>6, <1>7, <1>8, <1>9, <1>10, <1>11, <1>12, <1>13, <1>14,
             <1>15, <1>16, <1>17, <1>18, <1>19 DEF Next

LEMMA TypeAlways == Spec => []TypeOK
<1>1. Init => TypeOK
  <2>. SUFFICES ASSUME Init PROVE TypeOK
    BY Zenon
  <2>1. PICK s \in DagStatuses : /\ versions = [o \in Objects |-> <<[dag |-> s, address |-> Empty]>>]
                                 /\ want = [o \in Objects |-> s]
    BY Zenon DEF Init
  <2>2. [dag |-> s, address |-> Empty] \in Versions
    BY Zenon DEF Versions
  <2>3. ApiOK
    BY <2>1, <2>2 DEF Init, ApiOK
  <2>4. SendersOK
    BY <2>1 DEF Init, SendersOK
  <2>5. HandlerOK
    BY DEF Init, HandlerOK
  <2>. QED  BY Zenon, <2>3, <2>4, <2>5 DEF TypeOK
<1>. QED  BY <1>1, TypeStep, PTL DEF Spec

-----------------------------------------------------------------------------
(* Writes *)

\* Touch repeats the last version.
LEMMA TouchKeepsLatest ==
  ASSUME TypeOK, NEW o \in Objects, NEW p \in Objects, Touch(p)
  PROVE  Latest(o)' = Latest(o)
<1>1. CASE p = o
  <2>1. versions'[o] = Append(versions[o], Latest(o))
    BY Zenon, <1>1 DEF Touch, TypeOK, ApiOK
  <2>. QED  BY <2>1, LatestIsVersion DEF Latest, TypeOK
<1>2. CASE p # o
  BY Zenon, <1>2 DEF Touch, TypeOK, ApiOK, Latest
<1>. QED  BY Zenon, <1>1, <1>2

\* What a write leaves: Touch repeats the last version, StatusUpdate mutates the last version, and
\* no other step writes.
LEMMA WriteStep ==
  ASSUME TypeOK, [Next]_vars, NEW o \in Objects
  PROVE  \/ versions'[o] = versions[o]
         \/ Latest(o)' = Latest(o)
         \/ StatusUpdate /\ upd.object = o /\ Latest(o)' = Mutate(Latest(o), upd)
<1>1. ASSUME NEW p \in Objects, Touch(p) PROVE Latest(o)' = Latest(o)
  BY Zenon, <1>1, TouchKeepsLatest
<1>3. ASSUME StatusUpdate, upd.object = o PROVE Latest(o)' = Mutate(Latest(o), upd)
  <2>1. versions'[o] = Append(versions[o], Mutate(Latest(o), upd))
    BY Zenon, <1>3 DEF StatusUpdate, conflict, Latest, TypeOK, ApiOK
  <2>2. upd \in Sent
    BY Zenon, <1>3 DEF StatusUpdate, TypeOK, HandlerOK
  <2>3. Mutate(Latest(o), upd) \in Versions
    BY Zenon, <2>2, LatestIsVersion, MutateFields DEF TypeOK
  <2>. QED  BY <2>1, <2>3, LatestIsVersion DEF Latest, TypeOK
<1>4. ASSUME StatusUpdate, upd.object # o PROVE versions'[o] = versions[o]
  BY Zenon, <1>4 DEF StatusUpdate, TypeOK, ApiOK
<1>5. \/ \E p \in Objects : Touch(p)
      \/ StatusUpdate
      \/ versions' = versions
  BY ZenonT(60) DEF Next, vars, apiVars, WatchEvent, ServiceChange, notify, WriterStart, WriterReceive, WriterSend,
         WriterStop, WriterOnAdd, InformerOnUpdate, InformerSend, Rebuild, DagSend, HandlerStart,
         HandlerReceive, Get, StatusConflict
<1>. QED  BY Zenon, <1>1, <1>3, <1>4, <1>5

\* Whatever the informer cache holds and whoever else writes, a write changes the field of its
\* update in the object as it is.
THEOREM WritesOwnField == Spec => OnlyOwnField
<1>1. TypeOK /\ [Next]_vars => [OnlyOwnFieldStep]_vars
  <2>. SUFFICES ASSUME TypeOK, [Next]_vars PROVE OnlyOwnFieldStep
    BY Zenon
  <2>1. StatusUpdate => upd # None
    BY Zenon DEF StatusUpdate, TypeOK, HandlerOK
  <2>. QED  BY Zenon, <2>1, WriteStep DEF OnlyOwnFieldStep
<1>. QED  BY <1>1, TypeAlways, PTL DEF Spec, OnlyOwnField

-----------------------------------------------------------------------------
(* The statuses of a DAG *)

DagFor(u, o) == u # None /\ u.object = o /\ u.field = "dag"

\* Where the channel q has DAG statuses of o, and that the last of them is s.
Queued(q, o) == {i \in 1 .. Len(q) : DagFor(q[i], o)}
EndsWith(q, o, s) == \A i \in Queued(q, o) : (\A j \in Queued(q, o) : j <= i) => q[i].value = s

\* The last update of o on its way, in the channel or at the handler, has the status of the last
\* DAG, and so does the object once there is none and none was left behind.
DagOnItsWay(o) ==
  ~dropped /\ dagSend[o] = None =>
    /\ EndsWith(updateChannel, o, want[o])
    /\ Queued(updateChannel, o) = {} /\ DagFor(upd, o) => upd.value = want[o]
    /\ Queued(updateChannel, o) = {} /\ ~DagFor(upd, o) /\ ~skewed[o] => Latest(o).dag = want[o]

DagInv == \A o \in Objects : DagOnItsWay(o)

LEMMA AppendOther ==
  ASSUME NEW q \in Seq(Sent), NEW u \in Sent, NEW o, ~DagFor(u, o), NEW s
  PROVE  /\ Queued(Append(q, u), o) = Queued(q, o)
         /\ EndsWith(q, o, s) => EndsWith(Append(q, u), o, s)
<1>1. Queued(Append(q, u), o) = Queued(q, o)
  BY SMTT(60), ChannelType DEF Queued
<1>. QED  BY ZenonT(60), <1>1, ChannelType DEF EndsWith, Queued

LEMMA AppendOwn ==
  ASSUME NEW q \in Seq(Sent), NEW u \in Sent, NEW o, DagFor(u, o)
  PROVE  Queued(Append(q, u), o) # {} /\ EndsWith(Append(q, u), o, u.value)
<1>1. Len(q) + 1 \in Queued(Append(q, u), o)
  BY ChannelType DEF Queued
<1>. QED  BY <1>1, ChannelType DEF EndsWith, Queued

LEMMA TakeFirst ==
  ASSUME NEW q \in Seq(Sent), q # <<>>, NEW o, NEW s, EndsWith(q, o, s)
  PROVE  /\ EndsWith(Tail(q), o, s)
         /\ Queued(Tail(q), o) = {} /\ DagFor(Head(q), o) => Head(q).value = s
         /\ Queued(Tail(q), o) = {} /\ ~DagFor(Head(q), o) => Queued(q, o) = {}
<1>a. PICK u \in Sent : u = Head(q)
  OBVIOUS
<1>0. /\ Head(q) = q[1] /\ Len(q) \in Nat /\ Len(q) > 0 /\ Len(Tail(q)) = Len(q) - 1
      /\ \A i \in 1 .. Len(q) - 1 : Tail(q)[i] = q[i + 1]
  BY <1>a, ChannelType
<1>1. \A i \in 1 .. Len(q) - 1 : i \in Queued(Tail(q), o) <=> i + 1 \in Queued(q, o)
  BY <1>0 DEF Queued
<1>2. \A i \in Queued(q, o) : i # 1 => i - 1 \in Queued(Tail(q), o)
  BY <1>0, <1>1 DEF Queued
<1>3. EndsWith(Tail(q), o, s)
  <2>. SUFFICES ASSUME NEW i \in Queued(Tail(q), o), \A j \in Queued(Tail(q), o) : j <= i
                PROVE  Tail(q)[i].value = s
    BY ZenonT(60) DEF EndsWith
  <2>1. i \in 1 .. Len(q) - 1 /\ i + 1 \in Queued(q, o) /\ Tail(q)[i] = q[i + 1]
    BY Zenon, <1>0, <1>1 DEF Queued
  <2>2. ASSUME NEW j \in Queued(q, o) PROVE j <= i + 1
    BY <1>0, <1>2, <2>1 DEF Queued
  <2>. QED  BY Zenon, <2>1, <2>2 DEF EndsWith
<1>4. ASSUME Queued(Tail(q), o) = {} PROVE Queued(q, o) \subseteq {1}
  BY Zenon, <1>2, <1>4
<1>5. DagFor(Head(q), o) <=> 1 \in Queued(q, o)
  BY <1>0 DEF Queued
<1>6. ASSUME Queued(Tail(q), o) = {}, DagFor(Head(q), o) PROVE Head(q).value = s
  BY <1>0, <1>4, <1>5, <1>6 DEF EndsWith
<1>7. ASSUME Queued(Tail(q), o) = {}, ~DagFor(Head(q), o) PROVE Queued(q, o) = {}
  BY Zenon, <1>4, <1>5, <1>7
<1>. QED  BY Zenon, <1>3, <1>6, <1>7

\* One object, one step.
LEMMA DagStep ==
  ASSUME TypeOK, TypeOK', [Next]_vars, NEW o \in Objects, DagOnItsWay(o)
  PROVE  DagOnItsWay(o)'
<1>. USE DEF TypeOK
<1>a. ASSUME UNCHANGED <<updateChannel, upd, skewed, dropped, dagSend, want>>, Latest(o)' = Latest(o)
      PROVE  DagOnItsWay(o)'
  BY Zenon, <1>a DEF DagOnItsWay, EndsWith, Queued, DagFor
<1>b. ASSUME UNCHANGED versions PROVE Latest(o)' = Latest(o)
  BY Zenon, <1>b DEF Latest
<1>c. ASSUME NEW u \in AddressUpdates, Send(u), UNCHANGED <<versions, upd, skewed, dagSend, want>>
      PROVE  DagOnItsWay(o)'
  <2>1. u \in Sent /\ ~DagFor(u, o)
    BY Zenon DEF Sent, AddressUpdates, DagFor
  <2>2. CASE enabled /\ SendOnChannel(u)
    <3>1. updateChannel' = Append(updateChannel, u) /\ dropped' = dropped /\ updateChannel \in Seq(Sent)
      BY Zenon, <2>2 DEF SendOnChannel, HandlerOK
    <3>2. /\ Queued(updateChannel', o) = Queued(updateChannel, o)
          /\ EndsWith(updateChannel, o, want[o]) => EndsWith(updateChannel', o, want[o])
      BY Zenon, <2>1, <3>1, AppendOther
    <3>. QED  BY Zenon, <1>b, <1>c, <3>1, <3>2 DEF DagOnItsWay
  <2>3. CASE ~enabled /\ Drop
    BY Zenon, <2>3 DEF Drop, DagOnItsWay
  <2>. QED  BY Zenon, <1>c, <2>2, <2>3 DEF Send
<1>1. ASSUME NEW p \in Objects, Touch(p) PROVE DagOnItsWay(o)'
  BY Zenon, <1>1, <1>a, TouchKeepsLatest DEF Touch, dagVars, handlerVars, channelVars
<1>2. ASSUME \/ \E p \in Objects : WatchEvent(p) \/ WriterOnAdd(p) \/ InformerOnUpdate(p)
             \/ \E a \in Addresses \cup {Empty} : ServiceChange(a)
             \/ notify \/ WriterStart \/ WriterReceive \/ WriterStop \/ HandlerStart
             \/ UNCHANGED vars
      PROVE  DagOnItsWay(o)'
  BY Zenon, <1>2, <1>a, <1>b
     DEF WatchEvent, WriterOnAdd, InformerOnUpdate, ServiceChange, notify, WriterStart, WriterReceive,
         WriterStop, HandlerStart, vars, apiVars, dagVars, handlerVars, channelVars
<1>3. CASE WriterSend
  BY Zenon, <1>3, <1>c DEF WriterSend, SendersOK, apiVars, dagVars, handlerVars
<1>4. ASSUME NEW p \in Objects, InformerSend(p) PROVE DagOnItsWay(o)'
  BY ZenonT(30), <1>4, <1>c DEF InformerSend, SendersOK, apiVars, dagVars, handlerVars
<1>5. CASE Rebuild
  <2>1. dagSend'[o] = Update(o, "dag", want'[o]) /\ want'[o] \in DagStatuses
    BY Zenon, <1>5 DEF Rebuild
  <2>. QED  BY <2>1, DagUpdateType DEF DagOnItsWay
<1>6. ASSUME NEW p \in Objects, DagSend(p) PROVE DagOnItsWay(o)'
  <2>1. dagSend[p] = Update(p, "dag", want[p]) /\ want[p] \in DagStatuses /\ Send(dagSend[p])
        /\ UNCHANGED <<versions, upd, skewed, want>>
    BY ZenonT(30), <1>6 DEF DagSend, SendersOK, apiVars, handlerVars
  <2>2. dagSend[p] \in Sent /\ dagSend[p].object = p /\ dagSend[p].value = want[p] /\ dagSend[p].field = "dag"
        /\ dagSend[p] # None
    BY SMTT(60), <2>1, DagUpdateType DEF Sent, DagUpdates
  <2>3. CASE ~enabled /\ Drop
    BY Zenon, <2>3 DEF Drop, DagOnItsWay
  <2>4. CASE enabled /\ SendOnChannel(dagSend[p])
    <3>1. updateChannel' = Append(updateChannel, dagSend[p]) /\ dropped' = dropped
          /\ updateChannel \in Seq(Sent)
      BY ZenonT(60), <2>4 DEF SendOnChannel, HandlerOK
    <3>2. CASE p = o
      <4>1. Queued(updateChannel', o) # {} /\ EndsWith(updateChannel', o, want[o])
        BY Zenon, <2>2, <3>1, <3>2, AppendOwn DEF DagFor
      <4>. QED  BY ZenonT(60), <2>1, <4>1 DEF DagOnItsWay
    <3>3. CASE p # o
      <4>1. ~DagFor(dagSend[p], o) /\ dagSend'[o] = dagSend[o]
        BY Zenon, <1>6, <2>2, <3>3 DEF DagFor, DagSend, SendersOK
      <4>2. /\ Queued(updateChannel', o) = Queued(updateChannel, o)
            /\ EndsWith(updateChannel, o, want[o]) => EndsWith(updateChannel', o, want[o])
        BY ZenonT(60), <2>2, <3>1, <4>1, AppendOther
      <4>. QED  BY ZenonT(60), <1>b, <2>1, <3>1, <4>1, <4>2 DEF DagOnItsWay
    <3>. QED  BY Zenon, <3>2, <3>3
  <2>. QED  BY Zenon, <2>1, <2>3, <2>4 DEF Send
<1>7. CASE HandlerReceive
  <2>1. /\ upd = None /\ updateChannel # <<>> /\ updateChannel \in Seq(Sent)
        /\ upd' = Head(updateChannel) /\ updateChannel' = Tail(updateChannel)
        /\ UNCHANGED <<versions, skewed, dropped, dagSend, want>>
    BY Zenon, <1>7 DEF HandlerReceive, HandlerOK, apiVars, dagVars
  <2>2. ~DagFor(upd, o)
    BY Zenon, <2>1 DEF DagFor
  <2>3. ASSUME ~dropped, dagSend[o] = None
        PROVE  /\ EndsWith(updateChannel', o, want[o])
               /\ Queued(updateChannel', o) = {} /\ DagFor(upd', o) => upd'.value = want[o]
               /\ Queued(updateChannel', o) = {} /\ ~DagFor(upd', o) => Queued(updateChannel, o) = {}
    BY Zenon, <2>1, <2>3, TakeFirst DEF DagOnItsWay
  <2>. QED  BY Zenon, <1>b, <2>1, <2>2, <2>3 DEF DagOnItsWay
<1>d. ASSUME NEW behind, upd # None, Applied, Skew(behind), UNCHANGED <<updateChannel, dropped, dagSend, want>>,
             DagFor(upd, o) => (behind \/ Latest(o)'.dag = upd.value),
             ~DagFor(upd, o) => Latest(o)'.dag = Latest(o).dag
      PROVE  DagOnItsWay(o)'
  <2>1. upd' = None /\ ~DagFor(upd', o)
    BY Zenon, <1>d DEF Applied, DagFor
  <2>2. CASE DagFor(upd, o)
    <3>1. skewed'[o] = behind
      BY ZenonT(60), <1>d, <2>2 DEF Skew, DagFor, HandlerOK
    <3>. QED  BY ZenonT(60), <1>d, <2>1, <2>2, <3>1 DEF DagOnItsWay
  <2>3. CASE ~DagFor(upd, o)
    <3>1. skewed'[o] = skewed[o]
      BY Zenon, <1>d, <2>3 DEF Skew, DagFor, HandlerOK
    <3>. QED  BY Zenon, <1>d, <2>1, <2>3, <3>1 DEF DagOnItsWay
  <2>. QED  BY Zenon, <2>2, <2>3
<1>8. CASE Get
  <2>. DEFINE rv == cachedRv[upd.object]
  <2>1. upd # None /\ upd \in Sent /\ upd.object \in Objects
        /\ UNCHANGED <<versions, updateChannel, dropped, dagSend, want>>
    BY Zenon, <1>8 DEF Get, HandlerOK, Sent, DagUpdates, AddressUpdates, Updates, apiVars, dagVars, channelVars
  <2>2. CASE noop(versions[upd.object][rv], upd) /\ Applied /\ Skew(rv < Len(versions[upd.object]))
    <3>1. ASSUME DagFor(upd, o), ~(rv < Len(versions[upd.object])) PROVE Latest(o).dag = upd.value
      <4>1. upd.object = o /\ upd \in DagUpdates /\ rv = Len(versions[o])
        BY <2>1, <3>1, LatestIsVersion DEF DagFor, Sent, AddressUpdates
      <4>2. Mutate(Latest(o), upd) = Latest(o)
        BY Zenon, <2>2, <4>1 DEF noop, Latest
      <4>. QED  BY <2>1, <4>1, <4>2, LatestIsVersion, MutateFields
    <3>. HIDE DEF rv
    <3>. QED  BY Zenon, <1>b, <1>d, <2>1, <2>2, <3>1
  <2>3. CASE UNCHANGED <<upd, attempts, skewed>>
    BY Zenon, <1>a, <1>b, <2>1, <2>3
  <2>. QED  BY Zenon, <1>8, <2>2, <2>3 DEF Get
<1>9. CASE StatusUpdate
  <2>1. upd # None /\ upd \in Sent /\ upd.object \in Objects
        /\ UNCHANGED <<updateChannel, dropped, dagSend, want>> /\ Applied /\ Skew(FALSE)
    BY ZenonT(60), <1>9 DEF StatusUpdate, HandlerOK, Sent, DagUpdates, AddressUpdates, Updates, dagVars, channelVars
  <2>2. CASE upd.object = o
    <3>1. Latest(o)' = Mutate(Latest(o), upd)
      <4>1. versions'[o] = Append(versions[o], Mutate(Latest(o), upd))
        BY Zenon, <1>9, <2>2 DEF StatusUpdate, conflict, Latest, ApiOK
      <4>2. Mutate(Latest(o), upd) \in Versions
        BY ZenonT(30), <2>1, LatestIsVersion, MutateFields
      <4>. QED  BY <4>1, <4>2, LatestIsVersion DEF Latest
    <3>2. DagFor(upd, o) => Latest(o)'.dag = upd.value
      BY <2>1, <3>1, LatestIsVersion, MutateFields DEF DagFor, Sent, AddressUpdates
    <3>3. ~DagFor(upd, o) => Latest(o)'.dag = Latest(o).dag
      BY <2>1, <2>2, <3>1, LatestIsVersion, MutateFields DEF DagFor, Sent, DagUpdates
    <3>. QED  BY Zenon, <1>d, <2>1, <3>2, <3>3
  <2>3. CASE upd.object # o
    <3>1. versions'[o] = versions[o] /\ ~DagFor(upd, o)
      BY Zenon, <1>9, <2>3 DEF StatusUpdate, DagFor, ApiOK
    <3>. QED  BY Zenon, <1>d, <2>1, <3>1 DEF Latest
  <2>. QED  BY Zenon, <2>2, <2>3
<1>10. CASE StatusConflict
  <2>1. UNCHANGED <<versions, updateChannel, dropped, dagSend, want>> /\ upd # None
    BY Zenon, <1>10 DEF StatusConflict, HandlerOK, apiVars, dagVars, channelVars
  <2>2. CASE UNCHANGED <<upd, skewed>>
    BY Zenon, <1>a, <1>b, <2>1, <2>2
  <2>3. CASE Applied /\ Skew(TRUE)
    BY Zenon, <1>b, <1>d, <2>1, <2>3
  <2>. QED  BY Zenon, <1>10, <2>2, <2>3 DEF StatusConflict
<1>. QED  BY Zenon, <1>1, <1>2, <1>3, <1>4, <1>5, <1>6, <1>7, <1>8, <1>9, <1>10 DEF Next

\* Once the updates of the last DAG are through, the API server has its statuses, unless an
\* update was dropped, skipped or given up: no order of sending, retrying and reading of outdated
\* objects loses one otherwise.
THEOREM DagStatusesArrive == Spec => []DagStatusUnlessSkewed
<1>1. Init => DagInv
  <2>. SUFFICES ASSUME Init, NEW o \in Objects PROVE DagOnItsWay(o)
    BY Zenon DEF DagInv
  <2>1. Queued(updateChannel, o) = {} /\ Latest(o).dag = want[o]
    BY DEF Init, Queued, Latest
  <2>. QED  BY Zenon, <2>1 DEF Init, DagOnItsWay, DagFor, EndsWith
<1>2. TypeOK /\ TypeOK' /\ DagInv /\ [Next]_vars => DagInv'
  BY Zenon, DagStep DEF DagInv
<1>3. TypeOK /\ DagInv => DagStatusUnlessSkewed
  <2>. SUFFICES ASSUME TypeOK, DagInv, NEW o \in Objects, ~dropped, ~skewed[o], DagQuiet(o)
                PROVE  Latest(o).dag = want[o]
    BY Zenon DEF DagStatusUnlessSkewed
  <2>1. Queued(updateChannel, o) = {} /\ ~DagFor(upd, o) /\ dagSend[o] = None
    BY Zenon DEF DagQuiet, Queued, DagFor
  <2>. QED  BY ZenonT(60), <2>1 DEF DagInv, DagOnItsWay
<1>. QED  BY <1>1, <1>2, <1>3, TypeAlways, PTL DEF Spec
=============================================================================
