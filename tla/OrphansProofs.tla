--------------------------- MODULE OrphansProofs ---------------------------
(***************************************************************************)
(* The HTTPProxies a run of the HTTPProxyProcessor reports as orphaned are *)
(* exactly those no root reaches, whatever includes whatever.  The walks   *)
(* adopt what they come to one by one and in any order of the roots; the   *)
(* inductive invariant says what they have adopted so far:                 *)
(*                                                                         *)
(*   - a root that was computed has adopted a set that is closed under     *)
(*     what its HTTPProxies lead to (Finished);                            *)
(*   - the calls that returned in the walk in progress, with the calls     *)
(*     still on the stack, account for every include that was followed     *)
(*     (TCPWalkOK, RoutesWalkOK);                                          *)
(*   - what is neither waiting nor an orphan any more was reached by a     *)
(*     root that was computed (Reachable).                                 *)
(*                                                                         *)
(* When the last call returns the first set is closed, and what a root     *)
(* reaches is in every closed set with the root.                           *)
(***************************************************************************)
EXTENDS HTTPProxyProcessorProofs

-----------------------------------------------------------------------------
(* Orphans.  The operators take the variables as arguments, so that they can be
   used of the next state: the world stays as it is. *)

VisitedBy(s) == {s[i].proxy : i \in 1..Len(s)}

\* What the walks of a root leave behind: everything they lead to is adopted.
Adopts(r, leads, orphans) ==
    \E X \in SUBSET Names : r \in X /\ Closed(X, leads) /\ X \intersect orphans = {}
AllAdopted(r, orphans) ==
    Adopts(r, TCPIncludes, orphans) /\ (TCPWorks(r) => Adopts(r, Includes, orphans))

\* A chain of TCPProxies in progress: each call was made for the include of the one before, and
\* what was called was adopted.
TCPWalkOK(s, orphans) ==
    /\ \A i \in 1..(Len(s) - 1) :
        /\ Proxies[s[i].proxy].tcp.defined
        /\ Proxies[s[i].proxy].tcp.services = {}
        /\ TCPIncludes[s[i].proxy] = {s[i + 1].proxy}
    /\ VisitedBy(s) \intersect orphans = {}
    /\ VisitedBy(s) \subseteq Reached(s[1].proxy, TCPIncludes)
    /\ s[1].next = 1

\* The includes a call has seen and followed.
SeenBy(f) ==
    {Proxies[f.proxy].includes[k].name : k \in {j \in 1..(f.next - 1) : IncludeReason(f.proxy, j) = "none"}}

\* Calls for routes in progress: X, the calls that returned, were adopted, and all that was
\* followed has returned or is still in progress.
Accounted(X, s, orphans) ==
    /\ X \intersect orphans = {}
    /\ \A n \in X : Includes[n] \subseteq X \union VisitedBy(s)
    /\ \A i \in 1..Len(s) : SeenBy(s[i]) \subseteq X \union VisitedBy(s)
RoutesWalkOK(s, orphans) ==
    /\ \E X \in SUBSET Names : Accounted(X, s, orphans)
    /\ VisitedBy(s) \subseteq Reached(s[1].proxy, Includes)

\* While children are waiting no root was computed.
ChildrenFirst(p, waiting, orphans, s) ==
    /\ p = "start" => waiting = {} /\ orphans = {}
    /\ p = "done" => waiting = {}
    /\ waiting \intersect Duplicates = {}
    /\ waiting \subseteq Roots \/ (Roots \ Duplicates \subseteq waiting /\ s = <<>>)

\* What is not an orphan was reached, and what a root reached is not an orphan.
Reachable(waiting, orphans) ==
    \A n \in Names \ Roots :
        n \in waiting \union orphans \/ \E r \in Roots : Computed(r) /\ ReachedFrom(r, n)
Finished(waiting, orphans, s) ==
    \A r \in Roots \ waiting :
        Computed(r) /\ (s = <<>> \/ r # s[1].proxy) => AllAdopted(r, orphans)

InProgress(p, orphans, s) ==
    /\ s # <<>> => Computed(s[1].proxy)
    /\ p = "tcp" => TCPWalkOK(s, orphans)
    /\ p = "routes" => /\ Adopts(s[1].proxy, TCPIncludes, orphans)
                       /\ TCPWorks(s[1].proxy)
                       /\ RoutesWalkOK(s, orphans)

OrphanState(p, waiting, orphans, s) ==
    /\ ChildrenFirst(p, waiting, orphans, s)
    /\ p # "start" => Reachable(waiting, orphans) /\ Finished(waiting, orphans, s)
    /\ InProgress(p, orphans, s)

\* The variables are named, so that their names mean the same in the next state.
OrphanInv ==
    \E p, waiting, orphans, s :
        /\ p = pc /\ waiting = pending /\ orphans = orphaned /\ s = stack
        /\ OrphanState(p, waiting, orphans, s)

LEMMA WorldFixed ==
    ASSUME world' = world
    PROVE  \A p, waiting, orphans, s : OrphanState(p, waiting, orphans, s) => OrphanState(p, waiting, orphans, s)'
<1>1. Proxies' = Proxies /\ Names' = Names /\ Roots' = Roots /\ Duplicates' = Duplicates
  BY Zenon DEF Proxies, Names, Roots, Duplicates, SameHost, Host
<1>2. \A n, i : IncludeReason(n, i)' = IncludeReason(n, i)
  BY <1>1 DEF IncludeReason
<1>3. Includes' = Includes /\ TCPIncludes' = TCPIncludes
  BY Zenon, <1>1, <1>2 DEF Includes, TCPIncludes
<1>4. \A r, leads : Reached(r, leads)' = Reached(r, leads)
  BY Zenon, <1>1 DEF Reached, Closed
<1>5. /\ \A r : Reached(r, Includes)' = Reached(r, Includes)
      /\ \A r : Reached(r, TCPIncludes)' = Reached(r, TCPIncludes)
  BY Zenon, <1>1, <1>3 DEF Reached, Closed
<1>6. \A n : TCPEndsWell(n)' <=> TCPEndsWell(n)
  BY Zenon, <1>1 DEF TCPEndsWell
<1>7. \A r : TCPWorks(r)' <=> TCPWorks(r)
  BY Zenon, <1>5, <1>6 DEF TCPWorks
<1>8. \A r, n : ReachedFrom(r, n)' <=> ReachedFrom(r, n)
  BY Zenon, <1>5, <1>7 DEF ReachedFrom
<1>9. \A r : Computed(r)' <=> Computed(r)
  <2>1. \A proxy : AllChecks(proxy)' = AllChecks(proxy)
    BY DEF AllChecks, RootChecks, TLSChecks, SecureChecks, TLSEnabled, Check, NoteOnly, Policy
  <2>. QED  BY Zenon, <1>1, <2>1 DEF Computed, Stops
<1>10. /\ \A r, orphans : Adopts(r, Includes, orphans)' <=> Adopts(r, Includes, orphans)
       /\ \A r, orphans : Adopts(r, TCPIncludes, orphans)' <=> Adopts(r, TCPIncludes, orphans)
  BY Zenon, <1>1, <1>3 DEF Adopts, Closed
<1>11. \A f : SeenBy(f)' = SeenBy(f)
  BY Zenon, <1>1, <1>2 DEF SeenBy
<1>12. \A s, orphans : TCPWalkOK(s, orphans)' <=> TCPWalkOK(s, orphans)
  BY Zenon, <1>1, <1>3, <1>5 DEF TCPWalkOK, VisitedBy
<1>13. \A s, orphans : RoutesWalkOK(s, orphans)' <=> RoutesWalkOK(s, orphans)
  BY Zenon, <1>1, <1>3, <1>5, <1>11 DEF RoutesWalkOK, Accounted, VisitedBy
<1>14. \A waiting, orphans : Reachable(waiting, orphans)' <=> Reachable(waiting, orphans)
  BY Zenon, <1>1, <1>8, <1>9 DEF Reachable
<1>15. \A waiting, orphans, s : Finished(waiting, orphans, s)' <=> Finished(waiting, orphans, s)
  BY Zenon, <1>1, <1>7, <1>9, <1>10 DEF Finished, AllAdopted
<1>16. \A p, waiting, orphans, s : ChildrenFirst(p, waiting, orphans, s)' <=> ChildrenFirst(p, waiting, orphans, s)
  BY Zenon, <1>1 DEF ChildrenFirst
<1>17. \A p, orphans, s : InProgress(p, orphans, s)' <=> InProgress(p, orphans, s)
  BY <1>7, <1>9, <1>10, <1>12, <1>13 DEF InProgress
<1>. QED  BY <1>14, <1>15, <1>16, <1>17 DEF OrphanState

LEMMA OrphansCarried ==
    ASSUME world' = world, OrphanState(pc', pending', orphaned', stack')
    PROVE  OrphanInv'
<1>1. PICK p, w, o, s : p = pc' /\ w = pending' /\ o = orphaned' /\ s = stack'
  BY Zenon
<1>2. OrphanState(p, w, o, s)
  BY Zenon, <1>1
<1>3. OrphanState(p, w, o, s)'
  BY Zenon, <1>2, WorldFixed
<1>. QED  BY Zenon, <1>1, <1>3 DEF OrphanInv

LEMMA OrphansNow ==
    ASSUME OrphanInv
    PROVE  OrphanState(pc, pending, orphaned, stack)
  BY Zenon DEF OrphanInv

\* A root is reached, and what something leads to that is reached.
LEMMA ReachedGrows ==
    ASSUME NEW r \in Names, NEW leads
    PROVE  /\ r \in Reached(r, leads)
           /\ \A n \in Reached(r, leads) : leads[n] \intersect Names \subseteq Reached(r, leads)
           /\ \A X \in SUBSET Names : r \in X /\ Closed(X, leads) => Reached(r, leads) \subseteq X
<1>1. r \in Reached(r, leads)
  BY Zenon DEF Reached
<1>2. ASSUME NEW n \in Reached(r, leads), NEW m \in leads[n] \intersect Names
      PROVE  m \in Reached(r, leads)
  BY Zenon, <1>2 DEF Reached, Closed
<1>3. \A X \in SUBSET Names : r \in X /\ Closed(X, leads) => Reached(r, leads) \subseteq X
  BY Zenon DEF Reached
<1>. QED  BY Zenon, <1>1, <1>2, <1>3

\* What was adopted stays adopted when there are fewer orphans.
LEMMA FewerOrphans ==
    ASSUME NEW orphans, NEW fewer \in SUBSET orphans
    PROVE  /\ \A r, leads : Adopts(r, leads, orphans) => Adopts(r, leads, fewer)
           /\ \A r : AllAdopted(r, orphans) => AllAdopted(r, fewer)
           /\ \A waiting, s : Finished(waiting, orphans, s) => Finished(waiting, fewer, s)
<1>1. \A r, leads : Adopts(r, leads, orphans) => Adopts(r, leads, fewer)
  BY Zenon DEF Adopts
<1>2. \A r : AllAdopted(r, orphans) => AllAdopted(r, fewer)
  BY Zenon, <1>1 DEF AllAdopted
<1>3. \A waiting, s : Finished(waiting, orphans, s) => Finished(waiting, fewer, s)
  BY Zenon, <1>2 DEF Finished
<1>. QED  BY Zenon, <1>1, <1>2, <1>3

\* What an HTTPProxy leads to.
LEMMA LeadsTo ==
    ASSUME world \in Worlds, NEW n \in Names
    PROVE  /\ Includes[n] \subseteq Names \ Roots
           /\ TCPIncludes[n] \subseteq Names \ Roots
           /\ \A k \in 1..Len(Proxies[n].includes) :
                IncludeReason(n, k) = "none" => Proxies[n].includes[k].name \in Includes[n]
           /\ \A f : f.proxy = n /\ f.next = Len(Proxies[n].includes) + 1 => SeenBy(f) = Includes[n]
           /\ \A f : f.next = 1 => SeenBy(f) = {}
<1>1. DOMAIN Proxies[n].includes = 1..Len(Proxies[n].includes) /\ Len(Proxies[n].includes) \in Nat
  BY Zenon, WorldsAssumption DEF Names, Proxies
<1>2. Includes[n] = {Proxies[n].includes[k].name :
                        k \in {j \in 1..Len(Proxies[n].includes) : IncludeReason(n, j) = "none"}}
  BY Zenon, <1>1 DEF Includes
<1>3. Includes[n] \subseteq Names \ Roots
  BY <1>2, TargetOfInclude DEF Roots
<1>4. TCPIncludes[n] \subseteq Names \ Roots
  BY Zenon DEF TCPIncludes
<1>5. ASSUME NEW f, f.proxy = n, f.next = Len(Proxies[n].includes) + 1
      PROVE  SeenBy(f) = Includes[n]
  <2>1. 1..(f.next - 1) = 1..Len(Proxies[n].includes)
    BY <1>1, <1>5
  <2>. QED  BY Zenon, <1>2, <1>5, <2>1 DEF SeenBy
<1>6. ASSUME NEW f, f.next = 1  PROVE SeenBy(f) = {}
  BY <1>6 DEF SeenBy
<1>. QED  BY <1>2, <1>3, <1>4, <1>5, <1>6

\* Where a chain of TCPProxies goes on and where it ends.
LEMMA TCPLeadsTo ==
    ASSUME world \in Worlds, NEW n \in Names
    PROVE  /\ TCPOutcome(n) \in {"follow", "IncludeCreatesCycle"} =>
                /\ TCPIncludes[n] = {Proxies[n].tcp.include}
                /\ Proxies[n].tcp.defined /\ Proxies[n].tcp.services = {}
           /\ TCPOutcome(n) # "follow" => TCPIncludes[n] \subseteq Visited
           /\ TCPOutcome(n) = "none" <=> TCPEndsWell(n)
           /\ TCPOutcome(n) = "IncludeCreatesCycle" => Proxies[n].tcp.include \in Visited
<1>1. NoInclude \notin Names
  BY Zenon, WorldsAssumption DEF Names, Proxies
<1>. DEFINE tcp == Proxies[n].tcp
<1>2. TCPIncludes[n] = {m \in Names \ Roots : tcp.defined /\ tcp.services = {} /\ tcp.include = m}
  BY Zenon DEF TCPIncludes
<1>3. tcp.include \in Names => (tcp.include \in Roots <=> Proxies[tcp.include].root)
  BY Zenon DEF Roots
<1>4. TCPOutcome(n) \in {"follow", "IncludeCreatesCycle"} =>
        /\ TCPIncludes[n] = {tcp.include}
        /\ tcp.defined /\ tcp.services = {}
  BY Zenon, <1>2, <1>3 DEF TCPOutcome
<1>5. TCPOutcome(n) # "follow" => TCPIncludes[n] \subseteq Visited
  BY Zenon, <1>1, <1>2, <1>3 DEF TCPOutcome
<1>6. TCPOutcome(n) = "none" => TCPEndsWell(n)
  BY Zenon DEF TCPOutcome, TCPEndsWell
<1>7. TCPEndsWell(n) => TCPOutcome(n) = "none"
  BY Zenon DEF TCPOutcome, TCPEndsWell
<1>8. TCPOutcome(n) = "IncludeCreatesCycle" => tcp.include \in Visited
  BY Zenon DEF TCPOutcome
<1>. QED  BY <1>4, <1>5, <1>6, <1>7, <1>8

-----------------------------------------------------------------------------
(* The stack after a step *)

\* The call on top of the stack looked at an include.
TopAdvanced(f) == f.proxy = Top.proxy /\ f.next = Top.next + 1

LEMMA TopEdited ==
    ASSUME Inv, stack # <<>>, NEW f, f.proxy = Top.proxy
    PROVE  LET t == [stack EXCEPT ![Len(stack)] = f]
           IN  /\ Len(t) = Len(stack)
               /\ \A i \in 1..(Len(stack) - 1) : t[i] = stack[i]
               /\ t[Len(stack)] = f
               /\ VisitedBy(t) = Visited
               /\ t[1].proxy = stack[1].proxy
               /\ \E S : t \in Seq(S)
<1>. DEFINE t == [stack EXCEPT ![Len(stack)] = f]
<1>1. PICK S : stack \in Seq(S)
  BY Zenon DEF Inv, Walk
<1>2. Len(stack) \in Nat /\ Len(stack) # 0 /\ DOMAIN stack = 1..Len(stack)
      /\ Visited = {stack[i].proxy : i \in 1..Len(stack)}
  BY Zenon, StackFacts
<1>3. stack \in Seq(S \union {f})
  BY <1>1
<1>4. /\ t \in Seq(S \union {f})
      /\ Len(t) = Len(stack)
      /\ \A i \in 1..Len(stack) : t[i] = IF i = Len(stack) THEN f ELSE stack[i]
  BY <1>2, <1>3
<1>. HIDE DEF t
<1>5. \A i \in 1..Len(stack) : t[i].proxy = stack[i].proxy
  BY Zenon, <1>4 DEF Top, Last
<1>6. VisitedBy(t) = Visited
  BY Zenon, <1>2, <1>4, <1>5 DEF VisitedBy
<1>7. t[1].proxy = stack[1].proxy
  BY <1>2, <1>5
<1>8. t[Len(stack)] = f /\ \A i \in 1..(Len(stack) - 1) : t[i] = stack[i]
  <2>0. PICK m \in Nat : m = Len(stack) /\ m # 0
    BY Zenon, <1>2
  <2>1. Len(stack) \in 1..Len(stack) /\ \A i \in 1..(Len(stack) - 1) : i \in 1..Len(stack) /\ i # Len(stack)
    BY <2>0
  <2>. QED  BY Zenon, <1>4, <2>1
<1>. QED  BY Zenon, <1>4, <1>6, <1>7, <1>8 DEF t

LEMMA IncludeTaken ==
    ASSUME Inv, SkipInclude \/ RefuseCycle \/ FollowInclude
    PROVE  /\ pc = "routes" /\ stack # <<>> /\ Top.next \in 1..Len(Proxies[Top.proxy].includes)
           /\ SkipInclude => \E f : /\ TopAdvanced(f)
                                    /\ f.errors = Top.errors \union {IncludeReason(Top.proxy, Top.next)}
                                    /\ stack' = [stack EXCEPT ![Len(stack)] = f]
           /\ RefuseCycle => \E f : /\ TopAdvanced(f) /\ f.errors = Top.errors
                                    /\ stack' = [stack EXCEPT ![Len(stack)] = f]
           /\ FollowInclude => \E f : /\ TopAdvanced(f) /\ f.errors = Top.errors
                                      /\ stack' = Append([stack EXCEPT ![Len(stack)] = f],
                                                         Frame(Include.name, Top.conds \o Include.conds, Valid))
<1>1. HasInclude /\ pc = "routes" /\ stack # <<>>
  BY Zenon DEF SkipInclude, RefuseCycle, FollowInclude, HasInclude, Inv
<1>2. FrameOK(Top, Len(stack) = 1, Proxies) /\ Len(stack) \in Nat /\ DOMAIN stack = 1..Len(stack)
  BY Zenon, <1>1, StackFacts
<1>3. IsFrame(Top)
  BY Zenon, <1>2 DEF FrameOK
<1>4. Top.next \in 1..Len(Proxies[Top.proxy].includes)
  <2>1. Len(Proxies[Top.proxy].includes) \in Nat
    BY Zenon, <1>2, WorldFacts DEF Inv, FrameOK, Names
  <2>. QED  BY <1>1, <1>2, <2>1 DEF FrameOK, HasInclude
<1>5. ASSUME NEW errors, NEW routes
      PROVE  LET f == [Top EXCEPT !.next = Top.next + 1, !.errors = errors, !.routes = routes]
             IN  TopAdvanced(f) /\ f.errors = errors
  BY Zenon, <1>3 DEF IsFrame, TopAdvanced
<1>6. ASSUME SkipInclude
      PROVE  \E f : /\ TopAdvanced(f)
                    /\ f.errors = Top.errors \union {IncludeReason(Top.proxy, Top.next)}
                    /\ stack' = [stack EXCEPT ![Len(stack)] = f]
  <2>. DEFINE reason == IncludeReason(Top.proxy, Top.next)
              errors == Top.errors \union {reason}
              routes == IF reason \in {"IncludeNotFound", "RootIncludesRoot"}
                        THEN addStatusBadGatewayRoute(Top.routes, Include.conds, Top.proxy)
                        ELSE Top.routes
              f == [Top EXCEPT !.next = Top.next + 1, !.errors = errors, !.routes = routes]
  <2>1. stack' = [stack EXCEPT ![Len(stack)] = f]
    BY Zenon, <1>6, <1>2 DEF SkipInclude, Top, Last, FrameOK, IsFrame
  <2>2. TopAdvanced(f) /\ f.errors = errors
    BY Zenon, <1>5
  <2>. QED  BY Zenon, <2>1, <2>2
<1>7. ASSUME RefuseCycle
      PROVE  \E f : /\ TopAdvanced(f) /\ f.errors = Top.errors
                    /\ stack' = [stack EXCEPT ![Len(stack)] = f]
  <2>. DEFINE f == [Top EXCEPT !.next = Top.next + 1, !.errors = Top.errors, !.routes = Top.routes]
  <2>1. stack' = [stack EXCEPT ![Len(stack)] = f]
    BY Zenon, <1>7, <1>2 DEF RefuseCycle, Top, Last, FrameOK, IsFrame
  <2>2. TopAdvanced(f) /\ f.errors = Top.errors
    BY Zenon, <1>5
  <2>. QED  BY Zenon, <2>1, <2>2
<1>8. ASSUME FollowInclude
      PROVE  \E f : /\ TopAdvanced(f) /\ f.errors = Top.errors
                    /\ stack' = Append([stack EXCEPT ![Len(stack)] = f],
                                       Frame(Include.name, Top.conds \o Include.conds, Valid))
  <2>. DEFINE f == [Top EXCEPT !.next = Top.next + 1, !.errors = Top.errors, !.routes = Top.routes]
              g == Frame(Include.name, Top.conds \o Include.conds, Valid)
  <2>1. stack' = Append([stack EXCEPT ![Len(stack)] = f], g)
    BY Zenon, <1>8, <1>2 DEF FollowInclude, Top, Last, FrameOK, IsFrame
  <2>2. TopAdvanced(f) /\ f.errors = Top.errors
    BY Zenon, <1>5
  <2>. QED  BY Zenon, <2>1, <2>2
<1>. QED  BY Zenon, <1>1, <1>4, <1>6, <1>7, <1>8

\* One more call.
LEMMA CallAdded ==
    ASSUME NEW s, \E S : s \in Seq(S), Len(s) # 0, NEW g
    PROVE  LET t == Append(s, g)
           IN  /\ Len(s) \in Nat /\ Len(t) = Len(s) + 1
               /\ \A i \in 1..Len(s) : t[i] = s[i]
               /\ t[Len(s) + 1] = g
               /\ VisitedBy(t) = VisitedBy(s) \union {g.proxy}
               /\ t[1] = s[1]
<1>. DEFINE t == Append(s, g)
<1>1. PICK S : s \in Seq(S)
  BY Zenon
<1>2. s \in Seq(S \union {g})
  BY <1>1
<1>3. /\ Len(s) \in Nat
      /\ Len(t) = Len(s) + 1
      /\ \A i \in 1..Len(s) : t[i] = s[i]
      /\ t[Len(s) + 1] = g
  BY <1>2
<1>. HIDE DEF t
<1>4. VisitedBy(t) = VisitedBy(s) \union {g.proxy}
  <2>1. \A i \in 1..Len(t) : i \in 1..Len(s) \/ i = Len(s) + 1
    BY <1>3
  <2>2. Len(s) + 1 \in 1..Len(t) /\ \A i \in 1..Len(s) : i \in 1..Len(t)
    BY <1>3
  <2>. QED  BY Zenon, <1>3, <2>1, <2>2 DEF VisitedBy
<1>5. t[1] = s[1]
  BY <1>3
<1>. QED  BY Zenon, <1>3, <1>4, <1>5 DEF t

\* The call on top of the stack returned.
LEMMA CallReturned ==
    ASSUME Inv, ReturnRoutes
    PROVE  /\ stack # <<>> /\ Len(stack) \in Nat /\ Len(stack) > 1 /\ Len(stack') = Len(stack) - 1
           /\ \A i \in 1..(Len(stack) - 1) : /\ stack'[i].proxy = stack[i].proxy
                                             /\ stack'[i].next = stack[i].next
                                             /\ stack'[i].errors = stack[i].errors
           /\ Visited = VisitedBy(stack') \union {Top.proxy}
<1>1. stack # <<>>
  BY Zenon DEF Inv, ReturnRoutes
<1>2. Len(stack) \in Nat /\ Len(stack) > 1 /\ Visited = {stack[i].proxy : i \in 1..Len(stack)}
  BY Zenon, <1>1, StackFacts DEF ReturnRoutes
<1>. DEFINE s == Front(stack)
            c == Len(stack) - 1
<1>3. PICK routes : stack' = [s EXCEPT ![c].routes = routes]
  BY Zenon DEF ReturnRoutes, Front
<1>4. Walk(s, Proxies) /\ Len(s) = c /\ \A i \in 1..c : s[i] = stack[i]
  BY Zenon, <1>1, ShorterWalk DEF Inv
<1>. HIDE DEF s
<1>5. PICK S : s \in Seq(S)
  BY Zenon, <1>4 DEF Walk
<1>6. c \in Nat /\ c \in 1..Len(s) /\ DOMAIN s = 1..c
  BY <1>2, <1>4, <1>5
<1>7. IsFrame(s[c])
  BY Zenon, <1>4, <1>6 DEF Walk, FrameOK
<1>. DEFINE f == [s[c] EXCEPT !.routes = routes]
<1>8. f.proxy = s[c].proxy /\ f.next = s[c].next /\ f.errors = s[c].errors
  BY Zenon, <1>7 DEF IsFrame
<1>9. stack' = [s EXCEPT ![c] = f]
  BY Zenon, <1>3
<1>. HIDE DEF f
<1>10. s \in Seq(S \union {f})
  BY <1>5
<1>11. Len(stack') = c /\ \A i \in 1..c : stack'[i] = IF i = c THEN f ELSE s[i]
  BY <1>4, <1>6, <1>9, <1>10
<1>12. \A i \in 1..c : /\ stack'[i].proxy = stack[i].proxy
                       /\ stack'[i].next = stack[i].next
                       /\ stack'[i].errors = stack[i].errors
  BY Zenon, <1>4, <1>8, <1>11
<1>13. Visited = VisitedBy(stack') \union {Top.proxy}
  <2>1. \A i \in 1..Len(stack) : i \in 1..c \/ i = Len(stack)
    BY <1>2
  <2>2. Len(stack) \in 1..Len(stack) /\ \A i \in 1..c : i \in 1..Len(stack)
    BY <1>2
  <2>3. VisitedBy(stack') = {stack[i].proxy : i \in 1..c}
    BY Zenon, <1>11, <1>12 DEF VisitedBy
  <2>4. Top.proxy = stack[Len(stack)].proxy
    BY Zenon DEF Top, Last
  <2>. QED  BY <1>2, <2>1, <2>2, <2>3, <2>4
<1>. QED  BY Zenon, <1>1, <1>2, <1>11, <1>12, <1>13

-----------------------------------------------------------------------------
(* Every step keeps OrphanState.  First what all the steps of a walk have in common. *)

LEMMA WalkContext ==
    ASSUME Inv, OrphanInv, stack # <<>>
    PROVE  /\ stack[1].proxy \in Roots /\ stack[1].proxy \in Names /\ Computed(stack[1].proxy)
           /\ pc \in {"tcp", "routes"}
           /\ pending \subseteq Roots /\ pending \intersect Duplicates = {}
           /\ Reachable(pending, orphaned) /\ Finished(pending, orphaned, stack)
           /\ InProgress(pc, orphaned, stack)
           /\ VisitedBy(stack) = Visited /\ Visited \subseteq Names
           /\ Top.proxy \in Visited /\ stack[1].proxy \in Visited
<1>1. OrphanState(pc, pending, orphaned, stack)
  BY Zenon, OrphansNow
<1>2. pc \in {"tcp", "routes"}
  BY Zenon DEF Inv
<1>3. FrameOK(stack[1], TRUE, Proxies)
  BY Zenon, StackFacts
<1>4. stack[1].proxy \in Roots /\ stack[1].proxy \in Names
  BY Zenon, <1>3 DEF FrameOK, Roots, Names
<1>5. pc # "start" /\ pc # "done"
  BY Zenon, <1>2
<1>6. /\ pending \subseteq Roots /\ pending \intersect Duplicates = {}
      /\ Reachable(pending, orphaned) /\ Finished(pending, orphaned, stack)
      /\ InProgress(pc, orphaned, stack)
  BY Zenon, <1>1, <1>5 DEF OrphanState, ChildrenFirst
<1>7. Computed(stack[1].proxy)
  BY Zenon, <1>6 DEF InProgress
<1>8. Visited = {stack[i].proxy : i \in 1..Len(stack)} /\ Len(stack) \in Nat /\ Len(stack) # 0
  BY Zenon, StackFacts
<1>9. VisitedBy(stack) = Visited
  BY Zenon, <1>8 DEF VisitedBy
<1>10. \A i \in 1..Len(stack) : stack[i].proxy \in Names
  BY Zenon DEF Inv, Walk, FrameOK, Names
<1>11. 1 \in 1..Len(stack) /\ Len(stack) \in 1..Len(stack)
  <2>. PICK m \in Nat : m = Len(stack) /\ m # 0
    BY Zenon, <1>8
  <2>. QED  OBVIOUS
<1>12. Top.proxy \in Visited /\ stack[1].proxy \in Visited
  BY Zenon, <1>8, <1>11 DEF Top, Last
<1>. QED  BY Zenon, <1>2, <1>4, <1>6, <1>7, <1>8, <1>9, <1>10, <1>12

\* A walk goes on and adopts what its root reaches.
LEMMA WalkGoesOn ==
    ASSUME Inv, OrphanInv, stack # <<>>,
           NEW A, \A n \in A : ReachedFrom(stack[1].proxy, n),
           NEW p \in {"tcp", "routes"}, NEW t, t # <<>>, t[1].proxy = stack[1].proxy,
           InProgress(p, orphaned \ A, t)
    PROVE  OrphanState(p, pending, orphaned \ A, t)
<1>. DEFINE r == stack[1].proxy
            fewer == orphaned \ A
<1>1. /\ r \in Roots /\ Computed(r)
      /\ pending \subseteq Roots /\ pending \intersect Duplicates = {}
      /\ Reachable(pending, orphaned) /\ Finished(pending, orphaned, stack)
  BY Zenon, WalkContext
<1>2. ChildrenFirst(p, pending, fewer, t)
  BY Zenon, <1>1 DEF ChildrenFirst
<1>3. Reachable(pending, fewer)
  BY Zenon, <1>1 DEF Reachable
<1>4. Finished(pending, fewer, stack)
  BY Zenon, <1>1, FewerOrphans
<1>5. Finished(pending, fewer, t)
  BY Zenon, <1>4 DEF Finished
<1>. QED  BY Zenon, <1>2, <1>3, <1>5 DEF OrphanState

\* A walk ends when all it leads to was adopted.
LEMMA WalkEnds ==
    ASSUME Inv, OrphanInv, stack # <<>>, AllAdopted(stack[1].proxy, orphaned)
    PROVE  OrphanState("pick", pending, orphaned, <<>>)
<1>1. /\ pending \subseteq Roots /\ pending \intersect Duplicates = {}
      /\ Reachable(pending, orphaned) /\ Finished(pending, orphaned, stack)
  BY Zenon, WalkContext
<1>2. ChildrenFirst("pick", pending, orphaned, <<>>)
  BY Zenon, <1>1 DEF ChildrenFirst
<1>3. Finished(pending, orphaned, <<>>)
  BY Zenon, <1>1 DEF Finished
<1>4. InProgress("pick", orphaned, <<>>)
  BY Zenon DEF InProgress
<1>. QED  BY Zenon, <1>1, <1>2, <1>3, <1>4 DEF OrphanState

\* The steps between the walks.
LEMMA OrphansAtStart ==
    ASSUME Inv, OrphanInv, ValidHTTPProxies
    PROVE  OrphanState(pc', pending', orphaned', stack')
<1>1. pc' = "pick" /\ pending' = Names \ Duplicates /\ orphaned' = {} /\ stack' = <<>>
  BY Zenon, OrphansNow DEF ValidHTTPProxies, OrphanState, ChildrenFirst, Inv
<1>2. Duplicates \subseteq Roots /\ Roots \subseteq Names
  BY Zenon DEF Duplicates, Roots
<1>3. ChildrenFirst("pick", Names \ Duplicates, {}, <<>>)
  BY Zenon, <1>2 DEF ChildrenFirst
<1>4. Reachable(Names \ Duplicates, {})
  BY Zenon, <1>2 DEF Reachable
<1>5. Finished(Names \ Duplicates, {}, <<>>)
  BY Zenon, <1>2 DEF Finished, Computed
<1>6. InProgress("pick", {}, <<>>)
  BY Zenon DEF InProgress
<1>. QED  BY Zenon, <1>1, <1>3, <1>4, <1>5, <1>6 DEF OrphanState

LEMMA OrphansOfChild ==
    ASSUME Inv, OrphanInv, NEW n \in pending, ComputeChild(n)
    PROVE  OrphanState(pc', pending', orphaned', stack')
<1>1. /\ pc = "pick" /\ pc' = "pick" /\ pending' = pending \ {n} /\ orphaned' = orphaned \union {n}
      /\ stack' = <<>> /\ n \notin Roots
  BY Zenon DEF ComputeChild, Inv
<1>2. /\ pending \intersect Duplicates = {} /\ Roots \ Duplicates \subseteq pending
      /\ Reachable(pending, orphaned) /\ Finished(pending, orphaned, stack)
  BY Zenon, <1>1, OrphansNow DEF OrphanState, ChildrenFirst
<1>3. ChildrenFirst("pick", pending \ {n}, orphaned \union {n}, <<>>)
  BY Zenon, <1>1, <1>2 DEF ChildrenFirst
<1>4. Reachable(pending \ {n}, orphaned \union {n})
  BY Zenon, <1>2 DEF Reachable
<1>5. Finished(pending \ {n}, orphaned \union {n}, <<>>)
  BY Zenon, <1>1, <1>2 DEF Finished, Computed
<1>6. InProgress("pick", orphaned \union {n}, <<>>)
  BY Zenon DEF InProgress
<1>. QED  BY Zenon, <1>1, <1>3, <1>4, <1>5, <1>6 DEF OrphanState

LEMMA OneCall ==
    ASSUME NEW f
    PROVE  <<f>> # <<>> /\ Len(<<f>>) = 1 /\ <<f>>[1] = f /\ VisitedBy(<<f>>) = {f.proxy}
<1>1. <<f>> # <<>> /\ Len(<<f>>) = 1 /\ <<f>>[1] = f
  BY Zenon
<1>2. 1..Len(<<f>>) = {1}
  BY <1>1
<1>3. VisitedBy(<<f>>) = {<<f>>[i].proxy : i \in {1}}
  BY Zenon, <1>2 DEF VisitedBy
<1>. QED  BY Zenon, <1>1, <1>3

\* The walk for the routes begins with the root, once the chain of its TCPProxy ended well.
LEMMA RoutesBegin ==
    ASSUME world \in Worlds, NEW f, f.proxy \in Roots, f.next = 1, Computed(f.proxy),
           NEW orphans, Adopts(f.proxy, TCPIncludes, orphans), TCPWorks(f.proxy)
    PROVE  InProgress("routes", orphans, <<f>>)
<1>0. f.proxy \in Names
  BY Zenon DEF Roots
<1>1. <<f>> # <<>> /\ Len(<<f>>) = 1 /\ <<f>>[1] = f /\ VisitedBy(<<f>>) = {f.proxy}
  BY Zenon, OneCall
<1>2. SeenBy(f) = {}
  BY Zenon, <1>0, LeadsTo
<1>3. \A i \in 1..Len(<<f>>) : <<f>>[i] = f
  BY <1>1
<1>4. Accounted({}, <<f>>, orphans)
  BY Zenon, <1>2, <1>3 DEF Accounted
<1>5. VisitedBy(<<f>>) \subseteq Reached(f.proxy, Includes)
  BY Zenon, <1>0, <1>1, ReachedGrows
<1>6. RoutesWalkOK(<<f>>, orphans)
  <2>1. {} \in SUBSET Names
    BY Zenon
  <2>. QED  BY Zenon, <1>1, <1>4, <1>5, <2>1 DEF RoutesWalkOK
<1>7. "routes" # "tcp"
  BY Zenon
<1>. QED  BY Zenon, <1>1, <1>6, <1>7 DEF InProgress

LEMMA OrphansOfRoot ==
    ASSUME Inv, OrphanInv, NEW n \in pending, ComputeRoot(n)
    PROVE  OrphanState(pc', pending', orphaned', stack')
<1>1. /\ pc = "pick" /\ pending \subseteq Roots /\ n \in Roots /\ n \in Names /\ pending' = pending \ {n}
      /\ orphaned' = orphaned /\ stack = <<>> /\ n \notin orphaned /\ world \in Worlds
  BY Zenon DEF ComputeRoot, Inv, Roots
<1>2. /\ pending \intersect Duplicates = {} /\ Reachable(pending, orphaned)
      /\ Finished(pending, orphaned, <<>>)
  BY Zenon, <1>1, OrphansNow DEF OrphanState, ChildrenFirst
<1>3. Reachable(pending \ {n}, orphaned)
  BY Zenon, <1>1, <1>2 DEF Reachable
<1>4. CASE Stops(AllChecks(Proxies[n])) /\ pc' = pc /\ stack' = stack
  <2>1. ChildrenFirst("pick", pending \ {n}, orphaned, <<>>)
    BY Zenon, <1>1, <1>2 DEF ChildrenFirst
  <2>2. Finished(pending \ {n}, orphaned, <<>>)
    BY Zenon, <1>1, <1>2, <1>4 DEF Finished, Computed
  <2>3. InProgress("pick", orphaned, <<>>)
    BY Zenon DEF InProgress
  <2>. QED  BY Zenon, <1>1, <1>3, <1>4, <2>1, <2>2, <2>3 DEF OrphanState
<1>5. CASE /\ ~Stops(AllChecks(Proxies[n]))
           /\ pc' = IF Proxies[n].tcp.defined THEN "tcp" ELSE "routes"
           /\ stack' = <<Frame(n, <<>>, Report(AllChecks(Proxies[n])))>>
  <2>. DEFINE f == Frame(n, <<>>, Report(AllChecks(Proxies[n])))
  <2>1. f.proxy = n /\ f.next = 1
    BY Zenon DEF Frame
  <2>. HIDE DEF f
  <2>2. stack' = <<f>> /\ <<f>> # <<>> /\ Len(<<f>>) = 1 /\ <<f>>[1] = f /\ VisitedBy(<<f>>) = {n}
    BY Zenon, <1>5, <2>1, OneCall DEF f
  <2>3. Computed(n)
    BY Zenon, <1>1, <1>2, <1>5 DEF Computed
  <2>4. pc' = "tcp" \/ pc' = "routes"
    BY Zenon, <1>5
  <2>5. ChildrenFirst(pc', pending \ {n}, orphaned, <<f>>)
    <3>1. pc' # "start" /\ pc' # "done"
      BY Zenon, <2>4
    <3>. QED  BY Zenon, <1>1, <1>2, <3>1 DEF ChildrenFirst
  <2>6. Finished(pending \ {n}, orphaned, <<f>>)
    BY Zenon, <1>2, <2>1, <2>2 DEF Finished
  <2>7. InProgress(pc', orphaned, <<f>>)
    <3>1. CASE Proxies[n].tcp.defined
      <4>1. 1..(Len(<<f>>) - 1) = {}
        BY <2>2
      <4>2. n \in Reached(n, TCPIncludes)
        BY Zenon, <1>1, ReachedGrows
      <4>3. TCPWalkOK(<<f>>, orphaned)
        BY Zenon, <1>1, <2>1, <2>2, <4>1, <4>2 DEF TCPWalkOK
      <4>4. pc' = "tcp" /\ pc' # "routes"
        BY Zenon, <1>5, <3>1
      <4>. QED  BY Zenon, <2>1, <2>2, <2>3, <4>3, <4>4 DEF InProgress
    <3>2. CASE ~Proxies[n].tcp.defined
      <4>1. TCPIncludes[n] = {}
        BY Zenon, <1>1, <3>2 DEF TCPIncludes
      <4>2. Closed({n}, TCPIncludes)
        BY Zenon, <4>1 DEF Closed
      <4>3. {n} \in SUBSET Names /\ {n} \intersect orphaned = {}
        BY Zenon, <1>1
      <4>4. Adopts(n, TCPIncludes, orphaned)
        BY Zenon, <4>2, <4>3 DEF Adopts
      <4>5. TCPEndsWell(n)
        BY Zenon, <3>2 DEF TCPEndsWell
      <4>6. TCPWorks(n)
        BY Zenon, <1>1, <4>5, ReachedGrows DEF TCPWorks
      <4>7. InProgress("routes", orphaned, <<f>>)
        BY Zenon, <1>1, <2>1, <2>3, <4>4, <4>6, RoutesBegin
      <4>. QED  BY Zenon, <1>5, <3>2, <4>7
    <3>. QED  BY Zenon, <3>1, <3>2
  <2>. QED  BY Zenon, <1>1, <1>3, <2>2, <2>5, <2>6, <2>7 DEF OrphanState
<1>. QED  BY Zenon, <1>4, <1>5 DEF ComputeRoot

\* What a chain of TCPProxies reaches the root reaches.
LEMMA TCPReaches ==
    ASSUME Inv, OrphanInv, pc = "tcp"
    PROVE  /\ stack # <<>> /\ Top.proxy \in Names
           /\ TCPWalkOK(stack, orphaned)
           /\ Visited \subseteq Reached(stack[1].proxy, TCPIncludes)
           /\ TCPIncludes[Top.proxy] \subseteq Reached(stack[1].proxy, TCPIncludes)
           /\ Visited \intersect orphaned = {}
<1>1. stack # <<>>
  <2>1. pc \notin {"start", "pick", "done"}
    BY Zenon
  <2>. QED  BY Zenon, <2>1 DEF Inv
<1>2. /\ stack[1].proxy \in Names /\ Top.proxy \in Names /\ Top.proxy \in Visited
      /\ VisitedBy(stack) = Visited /\ InProgress(pc, orphaned, stack)
  BY Zenon, <1>1, WalkContext
<1>3. TCPWalkOK(stack, orphaned)
  BY Zenon, <1>2 DEF InProgress
<1>4. Visited \subseteq Reached(stack[1].proxy, TCPIncludes) /\ Visited \intersect orphaned = {}
  BY Zenon, <1>2, <1>3 DEF TCPWalkOK
<1>5. TCPIncludes[Top.proxy] \subseteq Names
  BY Zenon, <1>2, LeadsTo DEF Inv
<1>6. TCPIncludes[Top.proxy] \subseteq Reached(stack[1].proxy, TCPIncludes)
  BY Zenon, <1>2, <1>4, <1>5, ReachedGrows
<1>. QED  BY Zenon, <1>1, <1>2, <1>3, <1>4, <1>6

LEMMA OrphansAfterTCPInclude ==
    ASSUME Inv, OrphanInv, FollowTCPInclude
    PROVE  OrphanState(pc', pending', orphaned', stack')
<1>. DEFINE m == Proxies[Top.proxy].tcp.include
            g == Frame(m, <<>>, Valid)
            t == Append(stack, g)
            r == stack[1].proxy
<1>1. /\ pc = "tcp" /\ pc' = "tcp" /\ pending' = pending /\ stack' = t
      /\ TCPOutcome(Top.proxy) = "follow" /\ orphaned' = orphaned \ {m}
  BY Zenon DEF FollowTCPInclude, Adopted
<1>2. g.proxy = m
  BY Zenon DEF Frame
<1>. HIDE DEF g
<1>3. /\ stack # <<>> /\ Top.proxy \in Names /\ TCPWalkOK(stack, orphaned)
      /\ Visited \subseteq Reached(r, TCPIncludes)
      /\ TCPIncludes[Top.proxy] \subseteq Reached(r, TCPIncludes)
      /\ Visited \intersect orphaned = {}
  BY Zenon, <1>1, TCPReaches
<1>4. TCPIncludes[Top.proxy] = {m} /\ Proxies[Top.proxy].tcp.defined /\ Proxies[Top.proxy].tcp.services = {}
  BY Zenon, <1>1, <1>3, TCPLeadsTo DEF Inv
<1>5. m \in Reached(r, TCPIncludes)
  BY Zenon, <1>3, <1>4
<1>6. ReachedFrom(r, m)
  BY Zenon, <1>5 DEF ReachedFrom
<1>7. /\ Len(stack) \in Nat /\ Len(t) = Len(stack) + 1
      /\ \A i \in 1..Len(stack) : t[i] = stack[i]
      /\ t[Len(stack) + 1] = g
      /\ VisitedBy(t) = Visited \union {m}
      /\ t[1] = stack[1]
  <2>1. (\E S : stack \in Seq(S)) /\ Len(stack) # 0 /\ VisitedBy(stack) = Visited
    BY Zenon, <1>3, StackFacts, WalkContext DEF Inv, Walk
  <2>2. /\ Len(stack) \in Nat /\ Len(t) = Len(stack) + 1
        /\ \A i \in 1..Len(stack) : t[i] = stack[i]
        /\ t[Len(stack) + 1] = g
        /\ VisitedBy(t) = VisitedBy(stack) \union {g.proxy}
        /\ t[1] = stack[1]
    BY <2>1, CallAdded
  <2>. HIDE DEF t
  <2>. QED  BY Zenon, <2>1, <2>2, <1>2
<1>. HIDE DEF t
<1>8. t # <<>>
  BY <1>7
<1>9. ASSUME NEW i \in 1..(Len(t) - 1)
      PROVE  /\ Proxies[t[i].proxy].tcp.defined
             /\ Proxies[t[i].proxy].tcp.services = {}
             /\ TCPIncludes[t[i].proxy] = {t[i + 1].proxy}
  <2>0. PICK k \in Nat : k = Len(stack)
    BY Zenon, <1>7
  <2>1. i \in 1..k /\ (i = k \/ (i \in 1..(k - 1) /\ i + 1 \in 1..k))
    BY <1>7, <2>0
  <2>2. t[i] = stack[i]
    BY Zenon, <1>7, <2>0, <2>1
  <2>3. CASE i = k
    <3>1. t[i] = Top /\ t[i + 1] = g
      BY Zenon, <1>7, <2>0, <2>2, <2>3 DEF Top, Last
    <3>. QED  BY Zenon, <1>2, <1>4, <3>1
  <2>4. CASE i \in 1..(k - 1) /\ i + 1 \in 1..k
    <3>1. t[i + 1] = stack[i + 1]
      BY Zenon, <1>7, <2>0, <2>4
    <3>. QED  BY Zenon, <1>3, <2>0, <2>2, <2>4, <3>1 DEF TCPWalkOK
  <2>. QED  BY Zenon, <2>1, <2>3, <2>4
<1>10. TCPWalkOK(t, orphaned \ {m})
  <2>1. t[1].next = 1
    BY Zenon, <1>3, <1>7 DEF TCPWalkOK
  <2>2. VisitedBy(t) \intersect (orphaned \ {m}) = {}
    BY Zenon, <1>3, <1>7
  <2>3. VisitedBy(t) \subseteq Reached(t[1].proxy, TCPIncludes)
    BY Zenon, <1>3, <1>5, <1>7
  <2>. QED  BY Zenon, <1>9, <2>1, <2>2, <2>3 DEF TCPWalkOK
<1>11. InProgress("tcp", orphaned \ {m}, t)
  <2>1. Computed(t[1].proxy)
    BY Zenon, <1>3, <1>7, WalkContext
  <2>2. "tcp" # "routes"
    BY Zenon
  <2>. QED  BY Zenon, <1>10, <2>1, <2>2 DEF InProgress
<1>12. OrphanState("tcp", pending, orphaned \ {m}, t)
  <2>1. "tcp" \in {"tcp", "routes"}
    BY Zenon
  <2>2. t[1].proxy = r
    BY Zenon, <1>7
  <2>3. \A n \in {m} : ReachedFrom(r, n)
    BY Zenon, <1>6
  <2>. HIDE DEF m
  <2>. QED  BY Zenon, <1>3, <1>8, <1>11, <2>1, <2>2, <2>3, WalkGoesOn
<1>. QED  BY Zenon, <1>1, <1>12

LEMMA OrphansAfterTCPProxy ==
    ASSUME Inv, OrphanInv, EndTCPProxy
    PROVE  OrphanState(pc', pending', orphaned', stack')
<1>. DEFINE r == stack[1].proxy
            outcome == TCPOutcome(Top.proxy)
<1>1. pc = "tcp" /\ pending' = pending /\ outcome # "follow" /\ orphaned' = orphaned \ Adopted(Top.proxy)
  BY Zenon DEF EndTCPProxy
<1>2. /\ stack # <<>> /\ Top.proxy \in Names /\ TCPWalkOK(stack, orphaned)
      /\ Visited \subseteq Reached(r, TCPIncludes)
      /\ Visited \intersect orphaned = {}
  BY Zenon, <1>1, TCPReaches
<1>3. /\ r \in Roots /\ r \in Names /\ Computed(r) /\ r \in Visited /\ Top.proxy \in Visited
      /\ Visited \subseteq Names
  BY Zenon, <1>2, WalkContext
<1>4. TCPIncludes[Top.proxy] \subseteq Visited
  BY Zenon, <1>1, <1>2, TCPLeadsTo DEF Inv
<1>5. orphaned' = orphaned
  <2>1. Adopted(Top.proxy) \subseteq Visited
    BY Zenon, <1>1, <1>2, TCPLeadsTo DEF Inv, Adopted
  <2>. QED  BY Zenon, <1>1, <1>2, <2>1
<1>6. ASSUME NEW n \in Visited
      PROVE  n = Top.proxy \/ (/\ Proxies[n].tcp.defined /\ Proxies[n].tcp.services = {}
                               /\ TCPIncludes[n] \subseteq Visited)
  <2>1. Visited = {stack[i].proxy : i \in 1..Len(stack)} /\ Len(stack) \in Nat
    BY Zenon, <1>2, StackFacts
  <2>2. PICK i \in 1..Len(stack) : n = stack[i].proxy
    BY Zenon, <1>6, <2>1
  <2>3. PICK k \in Nat : k = Len(stack)
    BY Zenon, <2>1
  <2>4. i = k \/ (i \in 1..(k - 1) /\ i + 1 \in 1..k)
    BY <2>3
  <2>5. CASE i = k
    BY Zenon, <2>2, <2>3, <2>5 DEF Top, Last
  <2>6. CASE i \in 1..(k - 1) /\ i + 1 \in 1..k
    <3>1. stack[i + 1].proxy \in Visited
      BY Zenon, <2>1, <2>3, <2>6
    <3>2. /\ Proxies[stack[i].proxy].tcp.defined /\ Proxies[stack[i].proxy].tcp.services = {}
          /\ TCPIncludes[stack[i].proxy] = {stack[i + 1].proxy}
      BY Zenon, <1>2, <2>3, <2>6 DEF TCPWalkOK
    <3>3. TCPIncludes[n] = {stack[i + 1].proxy}
      BY Zenon, <2>2, <3>2
    <3>4. TCPIncludes[n] \subseteq Visited
      BY Zenon, <3>1, <3>3
    <3>. QED  BY Zenon, <2>2, <3>2, <3>4
  <2>. QED  BY Zenon, <2>4, <2>5, <2>6
<1>7. Closed(Visited, TCPIncludes)
  BY Zenon, <1>4, <1>6 DEF Closed
<1>8. Adopts(r, TCPIncludes, orphaned)
  BY Zenon, <1>2, <1>3, <1>7 DEF Adopts
<1>9. CASE outcome = "none" /\ pc' = "routes" /\ stack' = <<stack[1]>>
  <2>1. TCPWorks(r)
    <3>1. TCPEndsWell(Top.proxy)
      BY Zenon, <1>2, <1>9, TCPLeadsTo DEF Inv
    <3>. QED  BY Zenon, <1>2, <1>3, <3>1 DEF TCPWorks
  <2>2. stack[1].next = 1
    BY Zenon, <1>2 DEF TCPWalkOK
  <2>3. InProgress("routes", orphaned, <<stack[1]>>)
    BY Zenon, <1>3, <1>8, <2>1, <2>2, RoutesBegin DEF Inv
  <2>4. orphaned = orphaned \ {}
    BY Zenon
  <2>5. <<stack[1]>> # <<>> /\ <<stack[1]>>[1].proxy = stack[1].proxy
    BY Zenon, OneCall
  <2>6. "routes" \in {"tcp", "routes"} /\ \A n \in {} : ReachedFrom(stack[1].proxy, n)
    BY Zenon
  <2>7. OrphanState("routes", pending, orphaned \ {}, <<stack[1]>>)
    <3>1. InProgress("routes", orphaned \ {}, <<stack[1]>>)
      BY Zenon, <2>3, <2>4
    <3>. QED  BY Zenon, <1>2, <2>5, <2>6, <3>1, WalkGoesOn
  <2>. QED  BY Zenon, <1>1, <1>5, <1>9, <2>4, <2>7
<1>10. CASE outcome # "none" /\ pc' = "pick" /\ stack' = <<>>
  <2>1. ~TCPEndsWell(Top.proxy)
    BY Zenon, <1>2, <1>10, TCPLeadsTo DEF Inv
  <2>2. \A n \in Visited : ~TCPEndsWell(n)
    BY Zenon, <1>6, <2>1 DEF TCPEndsWell
  <2>3. Reached(r, TCPIncludes) \subseteq Visited
    BY Zenon, <1>3, <1>7, ReachedGrows
  <2>4. ~TCPWorks(r)
    BY Zenon, <2>2, <2>3 DEF TCPWorks
  <2>5. AllAdopted(r, orphaned)
    BY Zenon, <1>8, <2>4 DEF AllAdopted
  <2>6. OrphanState("pick", pending, orphaned, <<>>)
    BY Zenon, <1>2, <2>5, WalkEnds
  <2>. QED  BY Zenon, <1>1, <1>5, <1>10, <2>6
<1>. QED  BY Zenon, <1>9, <1>10 DEF EndTCPProxy

\* What holds of the calls for routes in progress.
LEMMA RoutesReach ==
    ASSUME Inv, OrphanInv, pc = "routes"
    PROVE  /\ stack # <<>> /\ Top.proxy \in Names
           /\ Adopts(stack[1].proxy, TCPIncludes, orphaned) /\ TCPWorks(stack[1].proxy)
           /\ \E X \in SUBSET Names : Accounted(X, stack, orphaned)
           /\ Visited \subseteq Reached(stack[1].proxy, Includes)
           /\ Includes[Top.proxy] \subseteq Reached(stack[1].proxy, Includes)
           /\ \A n \in Reached(stack[1].proxy, Includes) : ReachedFrom(stack[1].proxy, n)
<1>1. stack # <<>>
  <2>1. pc \notin {"start", "pick", "done"}
    BY Zenon
  <2>. QED  BY Zenon, <2>1 DEF Inv
<1>2. /\ stack[1].proxy \in Names /\ Top.proxy \in Names /\ Top.proxy \in Visited
      /\ VisitedBy(stack) = Visited /\ InProgress(pc, orphaned, stack)
  BY Zenon, <1>1, WalkContext
<1>3. /\ Adopts(stack[1].proxy, TCPIncludes, orphaned) /\ TCPWorks(stack[1].proxy)
      /\ RoutesWalkOK(stack, orphaned)
  BY Zenon, <1>2 DEF InProgress
<1>4. /\ Visited \subseteq Reached(stack[1].proxy, Includes)
      /\ \E X \in SUBSET Names : Accounted(X, stack, orphaned)
  BY Zenon, <1>2, <1>3 DEF RoutesWalkOK
<1>5. Includes[Top.proxy] \subseteq Names
  BY Zenon, <1>2, LeadsTo DEF Inv
<1>6. Includes[Top.proxy] \subseteq Reached(stack[1].proxy, Includes)
  BY Zenon, <1>2, <1>4, <1>5, ReachedGrows
<1>7. \A n \in Reached(stack[1].proxy, Includes) : ReachedFrom(stack[1].proxy, n)
  BY Zenon, <1>3 DEF ReachedFrom
<1>. QED  BY Zenon, <1>1, <1>2, <1>3, <1>4, <1>6, <1>7

\* The calls for routes go on.
LEMMA RoutesGoOn ==
    ASSUME Inv, OrphanInv, pc = "routes",
           NEW A \in SUBSET Reached(stack[1].proxy, Includes),
           NEW t, t # <<>>, t[1].proxy = stack[1].proxy,
           VisitedBy(t) \subseteq Reached(stack[1].proxy, Includes),
           NEW X \in SUBSET Names, Accounted(X, t, orphaned \ A)
    PROVE  OrphanState("routes", pending, orphaned \ A, t)
<1>1. /\ stack # <<>>
      /\ Adopts(stack[1].proxy, TCPIncludes, orphaned) /\ TCPWorks(stack[1].proxy)
      /\ \A n \in Reached(stack[1].proxy, Includes) : ReachedFrom(stack[1].proxy, n)
  BY Zenon, RoutesReach
<1>2. Computed(stack[1].proxy)
  BY Zenon, <1>1, WalkContext
<1>3. Adopts(stack[1].proxy, TCPIncludes, orphaned \ A)
  BY Zenon, <1>1 DEF Adopts
<1>4. RoutesWalkOK(t, orphaned \ A)
  BY Zenon DEF RoutesWalkOK
<1>5. "routes" # "tcp" /\ "routes" \in {"tcp", "routes"}
  BY Zenon
<1>6. InProgress("routes", orphaned \ A, t)
  BY Zenon, <1>1, <1>2, <1>3, <1>4, <1>5 DEF InProgress
<1>7. \A n \in A : ReachedFrom(stack[1].proxy, n)
  BY Zenon, <1>1
<1>. QED  BY Zenon, <1>1, <1>5, <1>6, <1>7, WalkGoesOn

\* The include a call looked at last.
LEMMA SeenMore ==
    ASSUME NEW f, NEW g, f.next \in Nat, f.next # 0, g.proxy = f.proxy, g.next = f.next + 1
    PROVE  /\ IncludeReason(f.proxy, f.next) = "none" =>
                SeenBy(g) = SeenBy(f) \union {Proxies[f.proxy].includes[f.next].name}
           /\ IncludeReason(f.proxy, f.next) # "none" => SeenBy(g) = SeenBy(f)
<1>1. /\ \A k : k \in 1..(g.next - 1) <=> k \in 1..(f.next - 1) \/ k = f.next
  <2>. PICK k \in Nat : k = f.next /\ k # 0
    BY Zenon
  <2>. QED  OBVIOUS
<1>. QED  BY Zenon, <1>1 DEF SeenBy

LEMMA OrphansAfterInclude ==
    ASSUME Inv, OrphanInv, SkipInclude \/ RefuseCycle
    PROVE  OrphanState(pc', pending', orphaned', stack')
<1>. DEFINE r == stack[1].proxy
            A == IF SkipInclude THEN {} ELSE {Include.name}
<1>1. pc = "routes" /\ stack # <<>> /\ Top.next \in 1..Len(Proxies[Top.proxy].includes)
  BY Zenon, IncludeTaken
<1>2. PICK f : TopAdvanced(f) /\ stack' = [stack EXCEPT ![Len(stack)] = f]
  BY Zenon, IncludeTaken
<1>3. pc' = "routes" /\ pending' = pending
  BY Zenon, <1>1 DEF SkipInclude, RefuseCycle
<1>4. orphaned' = orphaned \ A
  <2>1. CASE SkipInclude
    BY Zenon, <2>1 DEF SkipInclude
  <2>2. CASE RefuseCycle /\ ~SkipInclude
    BY Zenon, <2>2 DEF RefuseCycle
  <2>. QED  BY Zenon, <2>1, <2>2
<1>5. /\ Top.proxy \in Names /\ Visited \subseteq Reached(r, Includes)
      /\ \E X \in SUBSET Names : Accounted(X, stack, orphaned)
  BY Zenon, <1>1, RoutesReach
<1>6. PICK X \in SUBSET Names : Accounted(X, stack, orphaned)
  BY Zenon, <1>5
<1>. DEFINE t == [stack EXCEPT ![Len(stack)] = f]
<1>7. /\ Len(t) = Len(stack)
      /\ \A i \in 1..(Len(stack) - 1) : t[i] = stack[i]
      /\ t[Len(stack)] = f
      /\ VisitedBy(t) = Visited
      /\ t[1].proxy = r
  BY Zenon, <1>1, <1>2, TopEdited DEF TopAdvanced
<1>8. Len(stack) \in Nat /\ Len(stack) # 0 /\ VisitedBy(stack) = Visited
  BY Zenon, <1>1, StackFacts, WalkContext
<1>. HIDE DEF t
<1>9. t # <<>>
  BY Zenon, <1>7, <1>8
<1>10. A \subseteq Visited
  BY Zenon DEF RefuseCycle, CreatesCycle
<1>11. SeenBy(f) \subseteq SeenBy(Top) \union Visited
  <2>1. Top.next \in Nat /\ Top.next # 0 /\ f.proxy = Top.proxy /\ f.next = Top.next + 1
    <3>1. \A n, k : k \in 1..n => k \in Nat /\ k # 0
      OBVIOUS
    <3>. QED  BY Zenon, <1>1, <1>2, <3>1 DEF TopAdvanced
  <2>2. CASE IncludeReason(Top.proxy, Top.next) = "none"
    <3>1. SeenBy(f) = SeenBy(Top) \union {Proxies[Top.proxy].includes[Top.next].name}
      BY Zenon, <2>1, <2>2, SeenMore
    <3>2. Include.name \in Visited
      BY Zenon, <2>2 DEF SkipInclude, RefuseCycle, CreatesCycle
    <3>. QED  BY Zenon, <3>1, <3>2 DEF Include
  <2>3. CASE IncludeReason(Top.proxy, Top.next) # "none"
    BY Zenon, <2>1, <2>3, SeenMore
  <2>. QED  BY Zenon, <2>2, <2>3
<1>12. Accounted(X, t, orphaned \ A)
  <2>1. \A i \in 1..Len(t) : SeenBy(t[i]) \subseteq X \union VisitedBy(t)
    <3>. SUFFICES ASSUME NEW i \in 1..Len(t) PROVE SeenBy(t[i]) \subseteq X \union Visited
      BY Zenon, <1>7
    <3>1. PICK k \in Nat : k = Len(stack) /\ k # 0
      BY Zenon, <1>8
    <3>2. i \in 1..k /\ k \in 1..k /\ (i = k \/ i \in 1..(k - 1))
      BY <1>7, <3>1
    <3>3. SeenBy(stack[i]) \subseteq X \union Visited /\ SeenBy(stack[k]) \subseteq X \union Visited
      BY Zenon, <1>6, <1>8, <3>1, <3>2 DEF Accounted
    <3>4. CASE i = k
      <4>1. t[i] = f /\ Top = stack[k]
        BY Zenon, <1>7, <3>1, <3>4 DEF Top, Last
      <4>. QED  BY Zenon, <1>11, <3>3, <4>1
    <3>5. CASE i \in 1..(k - 1)
      BY Zenon, <1>7, <3>1, <3>3, <3>5
    <3>. QED  BY Zenon, <3>2, <3>4, <3>5
  <2>2. \A n \in X : Includes[n] \subseteq X \union VisitedBy(t)
    BY Zenon, <1>6, <1>7, <1>8 DEF Accounted
  <2>3. X \intersect (orphaned \ A) = {}
    BY Zenon, <1>6 DEF Accounted
  <2>. QED  BY Zenon, <2>1, <2>2, <2>3 DEF Accounted
<1>13. A \in SUBSET Reached(stack[1].proxy, Includes) /\ VisitedBy(t) \subseteq Reached(stack[1].proxy, Includes)
  BY Zenon, <1>5, <1>7, <1>10
<1>. HIDE DEF A
<1>14. OrphanState("routes", pending, orphaned \ A, t)
  BY Zenon, <1>1, <1>7, <1>9, <1>12, <1>13, RoutesGoOn
<1>. QED  BY Zenon, <1>2, <1>3, <1>4, <1>14 DEF t

LEMMA OrphansAfterCall ==
    ASSUME Inv, OrphanInv, FollowInclude
    PROVE  OrphanState(pc', pending', orphaned', stack')
<1>. DEFINE r == stack[1].proxy
            g == Frame(Include.name, Top.conds \o Include.conds, Valid)
<1>1. pc = "routes" /\ stack # <<>> /\ Top.next \in 1..Len(Proxies[Top.proxy].includes)
  BY Zenon, IncludeTaken
<1>2. PICK f : TopAdvanced(f) /\ stack' = Append([stack EXCEPT ![Len(stack)] = f], g)
  BY Zenon, IncludeTaken
<1>3. pc' = "routes" /\ pending' = pending /\ orphaned' = orphaned /\ IncludeReason(Top.proxy, Top.next) = "none"
  BY Zenon, <1>1 DEF FollowInclude
<1>4. g.proxy = Include.name /\ g.next = 1
  BY Zenon DEF Frame
<1>. HIDE DEF g
<1>5. /\ Top.proxy \in Names /\ Visited \subseteq Reached(r, Includes)
      /\ \E X \in SUBSET Names : Accounted(X, stack, orphaned)
      /\ Includes[Top.proxy] \subseteq Reached(r, Includes)
  BY Zenon, <1>1, RoutesReach
<1>6. PICK X \in SUBSET Names : Accounted(X, stack, orphaned)
  BY Zenon, <1>5
<1>. DEFINE s == [stack EXCEPT ![Len(stack)] = f]
            t == Append(s, g)
<1>7. /\ Len(s) = Len(stack)
      /\ \A i \in 1..(Len(stack) - 1) : s[i] = stack[i]
      /\ s[Len(stack)] = f
      /\ VisitedBy(s) = Visited
      /\ s[1].proxy = r
      /\ \E S : s \in Seq(S)
  BY Zenon, <1>1, <1>2, TopEdited DEF TopAdvanced
<1>8. Len(stack) \in Nat /\ Len(stack) # 0 /\ VisitedBy(stack) = Visited
  BY Zenon, <1>1, StackFacts, WalkContext
<1>. HIDE DEF s
<1>9. /\ Len(t) = Len(s) + 1
      /\ \A i \in 1..Len(s) : t[i] = s[i]
      /\ t[Len(s) + 1] = g
      /\ VisitedBy(t) = VisitedBy(s) \union {g.proxy}
      /\ t[1] = s[1]
  <2>1. Len(s) # 0
    BY Zenon, <1>7, <1>8
  <2>. QED  BY <1>7, <2>1, CallAdded
<1>. HIDE DEF t
<1>10. t # <<>>
  BY <1>7, <1>8, <1>9
<1>11. VisitedBy(t) = Visited \union {Include.name} /\ t[1].proxy = r
  BY Zenon, <1>4, <1>7, <1>9
<1>12. SeenBy(f) = SeenBy(Top) \union {Include.name}
  <2>1. Top.next \in Nat /\ Top.next # 0 /\ f.proxy = Top.proxy /\ f.next = Top.next + 1
    <3>1. \A n, k : k \in 1..n => k \in Nat /\ k # 0
      OBVIOUS
    <3>. QED  BY Zenon, <1>1, <1>2, <3>1 DEF TopAdvanced
  <2>. QED  BY Zenon, <1>3, <2>1, SeenMore DEF Include
<1>13. Accounted(X, t, orphaned)
  <2>1. \A i \in 1..Len(t) : SeenBy(t[i]) \subseteq X \union VisitedBy(t)
    <3>. SUFFICES ASSUME NEW i \in 1..Len(t)
                  PROVE  SeenBy(t[i]) \subseteq X \union Visited \union {Include.name}
      BY Zenon, <1>11
    <3>1. PICK k \in Nat : k = Len(stack) /\ k # 0
      BY Zenon, <1>8
    <3>2. k \in 1..k /\ (i = k + 1 \/ i = k \/ (i \in 1..(k - 1) /\ i \in 1..k))
      BY <1>7, <1>9, <3>1
    <3>3. \A j \in 1..k : SeenBy(stack[j]) \subseteq X \union Visited
      BY Zenon, <1>6, <1>8, <3>1 DEF Accounted
    <3>4. CASE i = k + 1
      <4>1. t[i] = g
        BY Zenon, <1>7, <1>9, <3>1, <3>4
      <4>2. SeenBy(g) = {}
        BY Zenon, <1>4, <1>5, LeadsTo DEF Inv
      <4>. QED  BY Zenon, <4>1, <4>2
    <3>5. CASE i = k
      <4>1. t[i] = f /\ Top = stack[k]
        BY Zenon, <1>7, <1>9, <3>1, <3>2, <3>5 DEF Top, Last
      <4>. QED  BY Zenon, <1>12, <3>2, <3>3, <4>1
    <3>6. CASE i \in 1..(k - 1) /\ i \in 1..k
      <4>1. t[i] = stack[i]
        BY Zenon, <1>7, <1>9, <3>1, <3>6
      <4>. QED  BY Zenon, <3>3, <3>6, <4>1
    <3>. QED  BY Zenon, <3>2, <3>4, <3>5, <3>6
  <2>2. \A n \in X : Includes[n] \subseteq X \union VisitedBy(t)
    BY Zenon, <1>6, <1>8, <1>11 DEF Accounted
  <2>3. X \intersect orphaned = {}
    BY Zenon, <1>6 DEF Accounted
  <2>. QED  BY Zenon, <2>1, <2>2, <2>3 DEF Accounted
<1>14. VisitedBy(t) \subseteq Reached(r, Includes)
  <2>1. Include.name \in Includes[Top.proxy]
    BY Zenon, <1>1, <1>3, <1>5, LeadsTo DEF Inv, Include
  <2>. QED  BY Zenon, <1>5, <1>11, <2>1
<1>15. orphaned = orphaned \ {} /\ {} \in SUBSET Reached(r, Includes)
  BY Zenon
<1>16. OrphanState("routes", pending, orphaned \ {}, t)
  <2>1. Accounted(X, t, orphaned \ {})
    BY Zenon, <1>13, <1>15
  <2>. QED  BY Zenon, <1>1, <1>10, <1>11, <1>14, <1>15, <2>1, RoutesGoOn
<1>. QED  BY Zenon, <1>2, <1>3, <1>15, <1>16 DEF s, t

\* A call that has seen all its includes.
LEMMA AllSeen ==
    ASSUME Inv, OrphanInv, pc = "routes", ~HasInclude
    PROVE  SeenBy(Top) = Includes[Top.proxy]
<1>1. stack # <<>> /\ Top.proxy \in Names
  BY Zenon, RoutesReach
<1>2. Top.next \in 1..(Len(Proxies[Top.proxy].includes) + 1)
  BY Zenon, <1>1, StackFacts DEF FrameOK
<1>3. Len(Proxies[Top.proxy].includes) \in Nat
  BY Zenon, <1>1, WorldFacts DEF Inv
<1>4. ~(Top.next <= Len(Proxies[Top.proxy].includes))
  BY Zenon DEF HasInclude
<1>5. Top.next = Len(Proxies[Top.proxy].includes) + 1
  BY <1>2, <1>3, <1>4
<1>. QED  BY Zenon, <1>1, <1>5, LeadsTo DEF Inv

LEMMA OrphansAfterReturn ==
    ASSUME Inv, OrphanInv, ReturnRoutes
    PROVE  OrphanState(pc', pending', orphaned', stack')
<1>. DEFINE r == stack[1].proxy
            n == Top.proxy
<1>1. pc = "routes" /\ pc' = "routes" /\ pending' = pending /\ orphaned' = orphaned \ {n} /\ ~HasInclude
  BY Zenon DEF ReturnRoutes
<1>2. /\ stack # <<>> /\ n \in Names /\ Visited \subseteq Reached(r, Includes)
      /\ \E X \in SUBSET Names : Accounted(X, stack, orphaned)
  BY Zenon, <1>1, RoutesReach
<1>3. n \in Visited /\ VisitedBy(stack) = Visited
  BY Zenon, <1>2, WalkContext
<1>4. PICK t : t = stack'
  BY Zenon
<1>5. PICK k \in Nat : k = Len(stack) /\ k > 1
  BY Zenon, CallReturned
<1>6. /\ Len(t) = k - 1
      /\ \A i \in 1..(k - 1) : t[i].proxy = stack[i].proxy /\ t[i].next = stack[i].next
      /\ Visited = VisitedBy(t) \union {n}
  BY Zenon, <1>4, <1>5, CallReturned
<1>7. SeenBy(Top) = Includes[n]
  BY Zenon, <1>1, AllSeen
<1>8. PICK X \in SUBSET Names : Accounted(X, stack, orphaned)
  BY Zenon, <1>2
<1>. DEFINE Y == X \union {n}
<1>9. Top = stack[k] /\ k \in 1..k /\ 1 \in 1..(k - 1) /\ (\A i \in 1..(k - 1) : i \in 1..k)
  <2>1. k \in 1..k /\ 1 \in 1..(k - 1) /\ (\A i \in 1..(k - 1) : i \in 1..k)
    BY <1>5
  <2>. QED  BY Zenon, <1>5, <2>1 DEF Top, Last
<1>10. X \union Visited \subseteq Y \union VisitedBy(t)
  BY Zenon, <1>6
<1>11. Accounted(Y, t, orphaned \ {n})
  <2>1. \A i \in 1..k : SeenBy(stack[i]) \subseteq X \union Visited
    BY Zenon, <1>3, <1>5, <1>8 DEF Accounted
  <2>2. \A i \in 1..(k - 1) : SeenBy(t[i]) = SeenBy(stack[i])
    BY Zenon, <1>6 DEF SeenBy
  <2>3. \A i \in 1..Len(t) : SeenBy(t[i]) \subseteq Y \union VisitedBy(t)
    BY Zenon, <1>6, <1>9, <1>10, <2>1, <2>2
  <2>4. \A m \in X : Includes[m] \subseteq X \union Visited
    BY Zenon, <1>3, <1>8 DEF Accounted
  <2>5. Includes[n] \subseteq X \union Visited
    BY Zenon, <1>7, <1>9, <2>1
  <2>6. \A m \in Y : Includes[m] \subseteq Y \union VisitedBy(t)
    <3>1. ASSUME NEW m \in Y PROVE Includes[m] \subseteq X \union Visited
      BY Zenon, <2>4, <2>5, <3>1
    <3>. QED  BY Zenon, <1>10, <3>1
  <2>7. Y \intersect (orphaned \ {n}) = {}
    BY Zenon, <1>8 DEF Accounted
  <2>. HIDE DEF Y
  <2>. QED  BY Zenon, <2>3, <2>6, <2>7 DEF Accounted
<1>12. Y \in SUBSET Names /\ {n} \in SUBSET Reached(r, Includes) /\ VisitedBy(t) \subseteq Reached(r, Includes)
  BY Zenon, <1>2, <1>3, <1>6
<1>13. t # <<>> /\ t[1].proxy = r
  <2>1. Len(t) # 0
    BY <1>5, <1>6
  <2>2. Len(<<>>) = 0
    BY Zenon
  <2>. QED  BY Zenon, <1>6, <1>9, <2>1, <2>2
<1>. HIDE DEF Y
<1>14. OrphanState("routes", pending, orphaned \ {n}, t)
  BY Zenon, <1>1, <1>11, <1>12, <1>13, RoutesGoOn
<1>. QED  BY Zenon, <1>1, <1>4, <1>14

LEMMA OrphansAfterRoutes ==
    ASSUME Inv, OrphanInv, AddRoutes
    PROVE  OrphanState(pc', pending', orphaned', stack')
<1>. DEFINE r == stack[1].proxy
<1>1. /\ pc = "routes" /\ pc' = "pick" /\ pending' = pending /\ orphaned' = orphaned /\ stack' = <<>>
      /\ Len(stack) = 1 /\ ~HasInclude
  BY Zenon DEF AddRoutes
<1>2. /\ stack # <<>> /\ Adopts(r, TCPIncludes, orphaned)
      /\ \E X \in SUBSET Names : Accounted(X, stack, orphaned)
  BY Zenon, <1>1, RoutesReach
<1>3. r \in Names /\ r \in Roots /\ VisitedBy(stack) = Visited
      /\ Visited = {stack[i].proxy : i \in 1..Len(stack)}
  BY Zenon, <1>2, WalkContext, StackFacts
<1>4. 1..Len(stack) = {1}
  BY <1>1
<1>5. Visited = {r} /\ Top = stack[1]
  BY Zenon, <1>1, <1>3, <1>4 DEF Top, Last
<1>6. SeenBy(stack[1]) = Includes[r]
  BY Zenon, <1>1, <1>5, AllSeen
<1>7. PICK X \in SUBSET Names : Accounted(X, stack, orphaned)
  BY Zenon, <1>2
<1>. DEFINE Y == X \union {r}
<1>8. Closed(Y, Includes)
  <2>1. \A m \in X : Includes[m] \subseteq Y
    BY Zenon, <1>3, <1>5, <1>7 DEF Accounted
  <2>2. Includes[r] \subseteq Y
    <3>1. 1 \in 1..Len(stack)
      BY Zenon, <1>4
    <3>2. SeenBy(stack[1]) \subseteq X \union VisitedBy(stack)
      BY Zenon, <1>7, <3>1 DEF Accounted
    <3>. QED  BY Zenon, <1>3, <1>5, <1>6, <3>2
  <2>. QED  BY Zenon, <2>1, <2>2 DEF Closed
<1>9. Y \in SUBSET Names /\ r \in Y /\ Y \intersect orphaned = {}
  BY Zenon, <1>3, <1>7 DEF Accounted, Inv
<1>10. Adopts(r, Includes, orphaned)
  BY Zenon, <1>8, <1>9 DEF Adopts
<1>11. OrphanState("pick", pending, orphaned, <<>>)
  BY Zenon, <1>2, <1>10, WalkEnds DEF AllAdopted
<1>. QED  BY Zenon, <1>1, <1>11

LEMMA OrphansAtEnd ==
    ASSUME Inv, OrphanInv, ReportOrphans
    PROVE  OrphanState(pc', pending', orphaned', stack')
<1>1. /\ pc = "pick" /\ pc' = "done" /\ pending' = {} /\ pending = {} /\ orphaned' = orphaned
      /\ stack' = <<>> /\ stack = <<>>
  BY Zenon DEF ReportOrphans, Inv
<1>2. ChildrenFirst("pick", {}, orphaned, <<>>) /\ Reachable({}, orphaned) /\ Finished({}, orphaned, <<>>)
  BY Zenon, <1>1, OrphansNow DEF OrphanState
<1>3. ChildrenFirst("done", {}, orphaned, <<>>) /\ InProgress("done", orphaned, <<>>)
  BY Zenon, <1>2 DEF ChildrenFirst, InProgress
<1>. QED  BY Zenon, <1>1, <1>2, <1>3 DEF OrphanState

LEMMA OrphanStep == Inv /\ OrphanInv /\ [Next]_vars => OrphanInv'
<1>. SUFFICES ASSUME Inv, OrphanInv, [Next]_vars PROVE OrphanInv'
  BY Zenon
<1>1. world' = world
  BY Zenon DEF Next, vars, ValidHTTPProxies, ComputeChild, ComputeRoot, FollowTCPInclude, EndTCPProxy,
               SkipInclude, RefuseCycle, FollowInclude, ReturnRoutes, AddRoutes, ReportOrphans
<1>2. CASE UNCHANGED vars
  BY Zenon, <1>1, <1>2, OrphansNow, OrphansCarried DEF vars
<1>3. CASE Next
  <2>1. OrphanState(pc', pending', orphaned', stack')
    BY Zenon, <1>3, OrphansAtStart, OrphansOfChild, OrphansOfRoot, OrphansAfterTCPInclude,
       OrphansAfterTCPProxy, OrphansAfterInclude, OrphansAfterCall, OrphansAfterReturn,
       OrphansAfterRoutes, OrphansAtEnd DEF Next
  <2>. QED  BY Zenon, <1>1, <2>1, OrphansCarried
<1>. QED  BY Zenon, <1>2, <1>3

LEMMA OrphanStart == Init => OrphanInv
<1>. SUFFICES ASSUME Init PROVE OrphanInv
  BY Zenon
<1>1. pc = "start" /\ pending = {} /\ orphaned = {} /\ stack = <<>>
  BY Zenon DEF Init
<1>2. "start" # "done" /\ "start" # "tcp" /\ "start" # "routes"
  BY Zenon
<1>3. OrphanState("start", {}, {}, <<>>)
  BY Zenon, <1>2 DEF OrphanState, ChildrenFirst, InProgress
<1>. QED  BY Zenon, <1>1, <1>3 DEF OrphanInv

-----------------------------------------------------------------------------
(* Nothing but the end of the run reports an orphan. *)

Clean(errors) == "Orphaned" \notin errors

ReportInv ==
    /\ pc # "done" => \A n \in Names : Clean(status[n])
    /\ pc = "done" => \A n \in Names : "Orphaned" \in status[n] <=> n \in orphaned
    /\ \A i \in 1..Len(stack) : Clean(stack[i].errors)

\* The reasons of a list of checks.
Good(check) == check.reason # "Orphaned"
CleanChecks(checks) == \E S : checks \in Seq(S) /\ \A c \in S : Good(c)

LEMMA CleanList ==
    ASSUME NEW S, NEW checks \in Seq(S), \A c \in S : Good(c)
    PROVE  CleanChecks(checks)
  BY Zenon DEF CleanChecks

LEMMA CleanReport ==
    ASSUME NEW checks, CleanChecks(checks)
    PROVE  Clean(Report(checks))
<1>1. PICK S : checks \in Seq(S) /\ \A c \in S : Good(c)
  BY Zenon DEF CleanChecks
<1>2. \A i \in DOMAIN checks : checks[i] \in S
  BY <1>1
<1>. QED  BY Zenon, <1>1, <1>2 DEF Clean, Report, Good

LEMMA ChecksJoined ==
    ASSUME NEW c, NEW d, CleanChecks(c), CleanChecks(d)
    PROVE  CleanChecks(c \o d)
<1>1. PICK S : c \in Seq(S) /\ \A x \in S : Good(x)
  BY Zenon DEF CleanChecks
<1>2. PICK T : d \in Seq(T) /\ \A x \in T : Good(x)
  BY Zenon DEF CleanChecks
<1>3. c \in Seq(S \union T) /\ d \in Seq(S \union T)
  BY <1>1, <1>2
<1>4. c \o d \in Seq(S \union T)
  BY <1>3
<1>5. \A x \in S \union T : Good(x)
  BY Zenon, <1>1, <1>2
<1>. QED  BY Zenon, <1>4, <1>5 DEF CleanChecks

LEMMA CleanReports ==
    ASSUME NEW proxy
    PROVE  Clean(Report(AllChecks(proxy))) /\ Clean(Report(HostChecks(proxy)))
<1>0. \A fails, reason : Check(fails, reason).reason = reason /\ NoteOnly(fails, reason).reason = reason
                         /\ Policy(proxy, reason).reason = reason
  BY Zenon DEF Check, NoteOnly, Policy
<1>1. CleanChecks(<<>>)
  <2>. DEFINE q == <<>>
              S == {}
  <2>1. q \in Seq(S)
    OBVIOUS
  <2>2. \A x \in S : Good(x)
    BY Zenon
  <2>. HIDE DEF q, S
  <2>3. CleanChecks(q)
    BY Zenon, <2>1, <2>2, CleanList
  <2>. QED  BY Zenon, <2>3 DEF q
<1>2. ASSUME NEW a, Good(a) PROVE CleanChecks(<<a>>)
  <2>. DEFINE q == <<a>>
              S == {a}
  <2>1. q \in Seq(S)
    OBVIOUS
  <2>2. \A x \in S : Good(x)
    BY Zenon, <1>2
  <2>. HIDE DEF q, S
  <2>3. CleanChecks(q)
    BY Zenon, <2>1, <2>2, CleanList
  <2>. QED  BY Zenon, <2>3 DEF q
<1>3. ASSUME NEW a, NEW b, NEW c, NEW d, NEW e, Good(a), Good(b), Good(c), Good(d), Good(e)
      PROVE  CleanChecks(<<a, b, c, d, e>>)
  <2>. DEFINE q == <<a, b, c, d, e>>
              S == {a, b, c, d, e}
  <2>1. q \in Seq(S)
    OBVIOUS
  <2>2. \A x \in S : Good(x)
    BY Zenon, <1>3
  <2>. HIDE DEF q, S
  <2>3. CleanChecks(q)
    BY Zenon, <2>1, <2>2, CleanList
  <2>. QED  BY Zenon, <2>3 DEF q
<1>4. ASSUME NEW a, NEW b, NEW c, NEW d, NEW e, NEW f,
             Good(a), Good(b), Good(c), Good(d), Good(e), Good(f)
      PROVE  CleanChecks(<<a, b, c, d, e, f>>)
  <2>. DEFINE q == <<a, b, c, d, e, f>>
              S == {a, b, c, d, e, f}
  <2>1. q \in Seq(S)
    OBVIOUS
  <2>2. \A x \in S : Good(x)
    BY Zenon, <1>4
  <2>. HIDE DEF q, S
  <2>3. CleanChecks(q)
    BY Zenon, <2>1, <2>2, CleanList
  <2>. QED  BY Zenon, <2>3 DEF q
<1>5. ASSUME NEW a, NEW b, NEW c, NEW d, NEW e, NEW f, NEW g,
             Good(a), Good(b), Good(c), Good(d), Good(e), Good(f), Good(g)
      PROVE  CleanChecks(<<a, b, c, d, e, f, g>>)
  <2>. DEFINE q == <<a, b, c, d, e, f, g>>
              S == {a, b, c, d, e, f, g}
  <2>1. q \in Seq(S)
    OBVIOUS
  <2>2. \A x \in S : Good(x)
    BY Zenon, <1>5
  <2>. HIDE DEF q, S
  <2>3. CleanChecks(q)
    BY Zenon, <2>1, <2>2, CleanList
  <2>. QED  BY Zenon, <2>3 DEF q
<1>6. ASSUME NEW a, NEW b, NEW c, NEW d, NEW e, NEW f, NEW g, NEW h,
             Good(a), Good(b), Good(c), Good(d), Good(e), Good(f), Good(g), Good(h)
      PROVE  CleanChecks(<<a, b, c, d, e, f, g, h>>)
  <2>. DEFINE q == <<a, b, c, d, e, f, g, h>>
              S == {a, b, c, d, e, f, g, h}
  <2>1. q \in Seq(S)
    OBVIOUS
  <2>2. \A x \in S : Good(x)
    BY Zenon, <1>6
  <2>. HIDE DEF q, S
  <2>3. CleanChecks(q)
    BY Zenon, <2>1, <2>2, CleanList
  <2>. QED  BY Zenon, <2>3 DEF q
<1>7. \A fails, reason : reason # "Orphaned" => /\ Good(Check(fails, reason)) /\ Good(NoteOnly(fails, reason))
                                                /\ Good(Policy(proxy, reason))
  BY <1>0 DEF Good
<1>8. CleanChecks(RootChecks(proxy))
  BY Zenon, <1>4, <1>7 DEF RootChecks
<1>9. CleanChecks(TLSChecks(proxy))
  BY Zenon, <1>1, <1>5, <1>7 DEF TLSChecks
<1>10. CleanChecks(SecureChecks(proxy))
  BY Zenon, <1>1, <1>6, <1>7 DEF SecureChecks
<1>11. CleanChecks(<<Check(proxy.tcp.defined /\ ~TLSEnabled(proxy), "TLSMustBeConfigured")>>)
  BY Zenon, <1>2, <1>7
<1>12. CleanChecks(HostChecks(proxy))
  BY Zenon, <1>3, <1>7 DEF HostChecks
<1>13. CleanChecks(RootChecks(proxy) \o TLSChecks(proxy))
  BY Zenon, <1>8, <1>9, ChecksJoined
<1>14. CleanChecks((RootChecks(proxy) \o TLSChecks(proxy)) \o SecureChecks(proxy))
  BY Zenon, <1>10, <1>13, ChecksJoined
<1>15. CleanChecks(AllChecks(proxy))
  BY Zenon, <1>11, <1>14, ChecksJoined DEF AllChecks
<1>. QED  BY Zenon, <1>12, <1>15, CleanReport

LEMMA CleanReasons ==
    ASSUME NEW n, NEW k
    PROVE  IncludeReason(n, k) # "Orphaned" /\ TCPOutcome(n) # "Orphaned"
<1>1. \A conds : ConditionsReason(conds) # "Orphaned"
  BY Zenon DEF ConditionsReason
<1>2. IncludeReason(n, k) # "Orphaned"
  BY Zenon, <1>1 DEF IncludeReason
<1>3. TCPOutcome(n) # "Orphaned"
  BY Zenon DEF TCPOutcome
<1>. QED  BY Zenon, <1>2, <1>3

LEMMA CleanResult ==
    ASSUME world \in Worlds, NEW frame, frame.proxy \in Names, Clean(frame.errors), NEW root
    PROVE  Clean(Result(frame, root).errors)
<1>. DEFINE routes == Proxies[frame.proxy].routes
            reason == [i \in DOMAIN routes |-> RouteReason(routes[i], frame.conds)]
<1>1. \A i \in DOMAIN routes : routes[i].problem # "Orphaned"
  BY Zenon, WorldsAssumption DEF Names, Proxies
<1>2. \A route, conds : route.problem # "Orphaned" => RouteReason(route, conds) # "Orphaned"
  BY Zenon DEF RouteReason
<1>3. \A i \in DOMAIN routes : reason[i] # "Orphaned"
  BY Zenon, <1>1, <1>2
<1>. HIDE DEF reason
<1>4. ASSUME NEW R PROVE Clean(ResultOf(frame, root, R, reason).errors) \/ \E i \in DOMAIN R : reason[i] = "Orphaned"
  BY Zenon DEF ResultOf, Clean
<1>5. Result(frame, root) = ResultOf(frame, root, routes, reason)
  BY Zenon DEF Result, reason
<1>. QED  BY Zenon, <1>3, <1>4, <1>5

LEMMA CommitClean ==
    ASSUME NEW before, NEW errors, Clean(before), Clean(errors)
    PROVE  Clean(Commit(before, errors))
  BY Zenon DEF Commit

\* What a step but the last one writes to the statuses.
LEMMA StatusesClean ==
    ASSUME Inv, ReportInv, Next, ~ReportOrphans
    PROVE  pc # "done" /\ pc' # "done" /\ \A n \in Names : Clean(status'[n])
<1>1. pc # "done" /\ pc' # "done"
  <2>1. CASE ValidHTTPProxies \/ AddRoutes \/ FollowTCPInclude \/ SkipInclude \/ RefuseCycle
             \/ FollowInclude \/ ReturnRoutes \/ \E n \in pending : ComputeChild(n)
    <3>1. /\ pc \in {"start", "pick", "tcp", "routes"}
          /\ pc' = pc \/ pc' = "pick"
      BY Zenon, <2>1 DEF ValidHTTPProxies, AddRoutes, FollowTCPInclude, SkipInclude, RefuseCycle,
                         FollowInclude, ReturnRoutes, ComputeChild, HasInclude
    <3>. QED  BY Zenon, <3>1
  <2>2. CASE EndTCPProxy
    <3>1. pc = "tcp" /\ (pc' = "routes" \/ pc' = "pick")
      BY Zenon, <2>2 DEF EndTCPProxy
    <3>. QED  BY Zenon, <3>1
  <2>3. ASSUME NEW n \in pending, ComputeRoot(n) PROVE pc # "done" /\ pc' # "done"
    <3>1. pc = "pick" /\ (pc' = pc \/ pc' = "tcp" \/ pc' = "routes")
      BY Zenon, <2>3 DEF ComputeRoot
    <3>. QED  BY Zenon, <3>1
  <2>. QED  BY Zenon, <2>1, <2>2, <2>3 DEF Next
<1>. SUFFICES \A n \in Names : Clean(status'[n])
  BY Zenon, <1>1
<1>2. \A n \in Names : Clean(status[n])
  BY Zenon, <1>1 DEF ReportInv
<1>3. DOMAIN status = Names /\ world \in Worlds
  BY Zenon DEF Inv
<1>4. ASSUME NEW m, NEW errors, Clean(errors), status' = [status EXCEPT ![m] = Commit(status[m], errors)]
      PROVE  \A n \in Names : Clean(status'[n])
  <2>. SUFFICES ASSUME NEW n \in Names PROVE Clean(status'[n])
    BY Zenon
  <2>1. CASE n = m
    <3>1. status'[n] = Commit(status[n], errors)
      BY Zenon, <1>3, <1>4, <2>1
    <3>. QED  BY Zenon, <1>2, <1>4, <3>1, CommitClean
  <2>2. CASE n # m
    BY Zenon, <1>2, <1>3, <1>4, <2>2
  <2>. QED  BY Zenon, <2>1, <2>2
<1>5. Clean(Valid)
  BY Zenon DEF Clean, Valid
<1>6. CASE ValidHTTPProxies
  <2>1. Clean({"DuplicateVhost"})
    BY Zenon DEF Clean
  <2>. QED  BY Zenon, <1>2, <1>6, <2>1 DEF ValidHTTPProxies
<1>7. ASSUME NEW m \in pending, ComputeChild(m) PROVE \A n \in Names : Clean(status'[n])
  BY Zenon, <1>4, <1>5, <1>7 DEF ComputeChild
<1>8. ASSUME NEW m \in pending, ComputeRoot(m) PROVE \A n \in Names : Clean(status'[n])
  <2>1. status' = status \/ status' = [status EXCEPT ![m] = Commit(status[m], Report(AllChecks(Proxies[m])))]
    BY Zenon, <1>8 DEF ComputeRoot
  <2>. QED  BY Zenon, <1>2, <1>4, <2>1, CleanReports
<1>9. CASE FollowTCPInclude \/ SkipInclude \/ FollowInclude
  <2>1. status' = status
    BY Zenon, <1>9 DEF FollowTCPInclude, SkipInclude, FollowInclude
  <2>. QED  BY Zenon, <1>2, <2>1
<1>10. ASSUME pc = "tcp" \/ pc = "routes"
       PROVE  /\ stack # <<>> /\ Clean(stack[1].errors) /\ Clean(Top.errors)
              /\ stack[1].proxy \in Names /\ Top.proxy \in Names
  <2>1. pc \notin {"start", "pick", "done"}
    BY Zenon, <1>10
  <2>2. stack # <<>>
    BY Zenon, <2>1 DEF Inv
  <2>3. Len(stack) \in Nat /\ Len(stack) # 0 /\ FrameOK(Top, Len(stack) = 1, Proxies) /\ FrameOK(stack[1], TRUE, Proxies)
    BY Zenon, <2>2, StackFacts
  <2>4. 1 \in 1..Len(stack) /\ Len(stack) \in 1..Len(stack)
    <3>. PICK k \in Nat : k = Len(stack) /\ k # 0
      BY Zenon, <2>3
    <3>. QED  OBVIOUS
  <2>. QED  BY Zenon, <2>2, <2>3, <2>4 DEF ReportInv, FrameOK, Names, Top, Last
<1>11. CASE EndTCPProxy
  <2>. DEFINE outcome == TCPOutcome(Top.proxy)
  <2>1. pc = "tcp"
    BY Zenon, <1>11 DEF EndTCPProxy
  <2>2. Clean(stack[1].errors) /\ Clean(Top.errors) /\ Clean(Top.errors \union {outcome})
    <3>1. Clean(stack[1].errors) /\ Clean(Top.errors) /\ outcome # "Orphaned"
      BY Zenon, <1>10, <2>1, CleanReasons
    <3>. QED  BY Zenon, <3>1 DEF Clean
  <2>. SUFFICES ASSUME NEW n \in Names PROVE Clean(status'[n])
    BY Zenon
  <2>3. \/ status'[n] = status[n]
        \/ status'[n] = Commit(status[n], Top.errors)
        \/ status'[n] = Commit(status[n], Top.errors \union {outcome})
        \/ status'[n] = Commit(status[n], stack[1].errors)
        \/ status'[n] = Commit(status[n], Valid)
    BY Zenon, <1>11 DEF EndTCPProxy
  <2>. QED  BY Zenon, <1>2, <1>5, <2>2, <2>3, CommitClean
<1>12. CASE RefuseCycle
  <2>1. Clean({"IncludeCreatesCycle"})
    BY Zenon DEF Clean
  <2>. QED  BY Zenon, <1>4, <1>12, <2>1 DEF RefuseCycle
<1>13. CASE ReturnRoutes
  <2>1. pc = "routes" /\ status' = [status EXCEPT ![Top.proxy] = Commit(status[Top.proxy], Result(Top, RootProxy).errors)]
    BY Zenon, <1>13 DEF ReturnRoutes
  <2>2. Clean(Result(Top, RootProxy).errors)
    BY Zenon, <1>3, <1>10, <2>1, CleanResult
  <2>. QED  BY Zenon, <1>4, <2>1, <2>2
<1>14. CASE AddRoutes
  <2>. DEFINE r == stack[1].proxy
  <2>1. pc = "routes"
    BY Zenon, <1>14 DEF AddRoutes
  <2>2. Clean(Result(stack[1], Proxies[r]).errors) /\ Clean(Report(HostChecks(Proxies[r])))
    BY Zenon, <1>3, <1>10, <2>1, CleanResult, CleanReports
  <2>3. PICK late \in {{}, {"ErrorIdentifyingListener"}, {"JWTProviderNotDefined"}} :
          status' = [status EXCEPT ![r] =
                        Commit(status[r], Result(stack[1], Proxies[r]).errors
                                          \union Report(HostChecks(Proxies[r])) \union late)]
    BY ZenonT(60), <1>14 DEF AddRoutes
  <2>4. Clean(late)
    BY DEF Clean
  <2>5. Clean(Result(stack[1], Proxies[r]).errors \union Report(HostChecks(Proxies[r])) \union late)
    BY Zenon, <2>2, <2>4 DEF Clean
  <2>. QED  BY Zenon, <1>4, <2>3, <2>5
<1>. QED  BY Zenon, <1>6, <1>7, <1>8, <1>9, <1>11, <1>12, <1>13, <1>14 DEF Next

\* The errors of the calls in progress.
LEMMA CallsClean ==
    ASSUME Inv, ReportInv, Next
    PROVE  \A i \in 1..Len(stack') : Clean(stack'[i].errors)
<1>. DEFINE AllClean(s) == \A i \in 1..Len(s) : Clean(s[i].errors)
<1>1. AllClean(stack)
  BY Zenon DEF ReportInv
<1>2. AllClean(<<>>)
  <2>1. 1..Len(<<>>) = {}
    OBVIOUS
  <2>. QED  BY Zenon, <2>1
<1>3. ASSUME NEW f, Clean(f.errors) PROVE AllClean(<<f>>)
  <2>1. \A i \in 1..Len(<<f>>) : <<f>>[i] = f
    OBVIOUS
  <2>. QED  BY Zenon, <1>3, <2>1
<1>4. ASSUME NEW s, \E S : s \in Seq(S), Len(s) # 0, AllClean(s), NEW g, Clean(g.errors)
      PROVE  AllClean(Append(s, g))
  <2>. DEFINE t == Append(s, g)
  <2>1. /\ Len(s) \in Nat /\ Len(t) = Len(s) + 1
        /\ \A i \in 1..Len(s) : t[i] = s[i]
        /\ t[Len(s) + 1] = g
    BY <1>4, CallAdded
  <2>. HIDE DEF t
  <2>2. \A i \in 1..Len(t) : i \in 1..Len(s) \/ i = Len(s) + 1
    BY <2>1
  <2>3. AllClean(t)
    BY Zenon, <1>4, <2>1, <2>2
  <2>. QED  BY Zenon, <2>3 DEF t
<1>5. \A n, conds : Clean(Frame(n, conds, Valid).errors)
  BY Zenon DEF Frame, Clean, Valid
<1>6. stack # <<>> => /\ Len(stack) \in Nat /\ Len(stack) # 0
                      /\ Clean(Top.errors) /\ Clean(stack[1].errors)
                      /\ \E S : stack \in Seq(S)
  <2>. SUFFICES ASSUME stack # <<>>
                PROVE  /\ Len(stack) \in Nat /\ Len(stack) # 0
                       /\ Clean(Top.errors) /\ Clean(stack[1].errors)
                       /\ \E S : stack \in Seq(S)
    BY Zenon
  <2>1. Len(stack) \in Nat /\ Len(stack) # 0 /\ \E S : stack \in Seq(S)
    BY Zenon, StackFacts DEF Inv, Walk
  <2>2. 1 \in 1..Len(stack) /\ Len(stack) \in 1..Len(stack)
    <3>. PICK k \in Nat : k = Len(stack) /\ k # 0
      BY Zenon, <2>1
    <3>. QED  OBVIOUS
  <2>. QED  BY Zenon, <1>1, <2>1, <2>2 DEF Top, Last
<1>7. ASSUME stack # <<>>, NEW f, TopAdvanced(f), Clean(f.errors)
      PROVE  LET t == [stack EXCEPT ![Len(stack)] = f]
             IN  AllClean(t) /\ Len(t) # 0 /\ \E S : t \in Seq(S)
  <2>. DEFINE t == [stack EXCEPT ![Len(stack)] = f]
  <2>1. /\ Len(t) = Len(stack)
        /\ \A i \in 1..(Len(stack) - 1) : t[i] = stack[i]
        /\ t[Len(stack)] = f
        /\ \E S : t \in Seq(S)
    BY Zenon, <1>7, TopEdited DEF TopAdvanced
  <2>. HIDE DEF t
  <2>2. AllClean(t)
    <3>. SUFFICES ASSUME NEW i \in 1..Len(t) PROVE Clean(t[i].errors)
      BY Zenon
    <3>1. PICK k \in Nat : k = Len(stack)
      BY Zenon, <1>6, <1>7
    <3>2. i = k \/ (i \in 1..(k - 1) /\ i \in 1..k)
      BY <2>1, <3>1
    <3>3. CASE i = k
      BY Zenon, <1>7, <2>1, <3>1, <3>3
    <3>4. CASE i \in 1..(k - 1) /\ i \in 1..k
      BY Zenon, <1>1, <2>1, <3>1, <3>4
    <3>. QED  BY Zenon, <3>2, <3>3, <3>4
  <2>. QED  BY Zenon, <1>6, <1>7, <2>1, <2>2 DEF t
<1>8. CASE stack' = stack \/ stack' = <<>>
  BY Zenon, <1>1, <1>2, <1>8
<1>9. ASSUME NEW n \in pending, ComputeRoot(n) PROVE AllClean(stack')
  <2>. DEFINE f == Frame(n, <<>>, Report(AllChecks(Proxies[n])))
  <2>1. f.errors = Report(AllChecks(Proxies[n]))
    BY DEF Frame
  <2>. HIDE DEF f
  <2>2. stack' = stack \/ stack' = <<f>>
    BY Zenon, <1>9 DEF ComputeRoot, f
  <2>3. Clean(f.errors)
    BY Zenon, <2>1, CleanReports
  <2>. QED  BY Zenon, <1>3, <1>8, <2>2, <2>3
<1>10. CASE FollowTCPInclude
  <2>1. pc = "tcp" /\ \E n : stack' = Append(stack, Frame(n, <<>>, Valid))
    BY Zenon, <1>10 DEF FollowTCPInclude
  <2>2. stack # <<>>
    <3>1. pc \notin {"start", "pick", "done"}
      BY <2>1
    <3>. QED  BY Zenon, <3>1 DEF Inv
  <2>. QED  BY Zenon, <1>1, <1>4, <1>5, <1>6, <2>1, <2>2
<1>11. CASE EndTCPProxy
  <2>1. pc = "tcp" /\ (stack' = <<>> \/ stack' = <<stack[1]>>)
    BY Zenon, <1>11 DEF EndTCPProxy
  <2>2. stack # <<>>
    <3>1. pc \notin {"start", "pick", "done"}
      BY <2>1
    <3>. QED  BY Zenon, <3>1 DEF Inv
  <2>. QED  BY Zenon, <1>2, <1>3, <1>6, <2>1, <2>2
<1>12. CASE SkipInclude \/ RefuseCycle
  <2>1. stack # <<>>
    BY Zenon, <1>12, IncludeTaken
  <2>2. IncludeReason(Top.proxy, Top.next) # "Orphaned"
    BY Zenon, CleanReasons
  <2>3. PICK f : /\ TopAdvanced(f) /\ stack' = [stack EXCEPT ![Len(stack)] = f]
                 /\ \/ f.errors = Top.errors
                    \/ f.errors = Top.errors \union {IncludeReason(Top.proxy, Top.next)}
    BY Zenon, <1>12, IncludeTaken
  <2>4. Clean(f.errors)
    BY Zenon, <1>6, <2>1, <2>2, <2>3 DEF Clean
  <2>. QED  BY Zenon, <1>7, <2>1, <2>3, <2>4
<1>13. CASE FollowInclude
  <2>1. stack # <<>>
    BY Zenon, <1>13, IncludeTaken
  <2>2. PICK f : /\ TopAdvanced(f) /\ f.errors = Top.errors
                 /\ stack' = Append([stack EXCEPT ![Len(stack)] = f],
                                    Frame(Include.name, Top.conds \o Include.conds, Valid))
    BY Zenon, <1>13, IncludeTaken
  <2>3. Clean(f.errors)
    BY Zenon, <1>6, <2>1, <2>2
  <2>. QED  BY Zenon, <1>4, <1>5, <1>7, <2>1, <2>2, <2>3
<1>14. CASE ReturnRoutes
  <2>1. PICK k \in Nat : k = Len(stack) /\ Len(stack') = k - 1
    BY Zenon, <1>14, CallReturned
  <2>2. \A i \in 1..(k - 1) : stack'[i].errors = stack[i].errors
    BY Zenon, <1>14, <2>1, CallReturned
  <2>3. \A i \in 1..(k - 1) : i \in 1..k
    OBVIOUS
  <2>. QED  BY Zenon, <1>1, <2>1, <2>2, <2>3
<1>15. CASE ValidHTTPProxies \/ AddRoutes \/ ReportOrphans \/ \E n \in pending : ComputeChild(n)
  BY Zenon, <1>8, <1>15 DEF ValidHTTPProxies, AddRoutes, ReportOrphans, ComputeChild
<1>. QED  BY Zenon, <1>9, <1>10, <1>11, <1>12, <1>13, <1>14, <1>15 DEF Next

LEMMA ReportStep == Inv /\ ReportInv /\ [Next]_vars => ReportInv'
<1>. SUFFICES ASSUME Inv, ReportInv, [Next]_vars PROVE ReportInv'
  BY Zenon
<1>1. world' = world
  BY Zenon DEF Next, vars, ValidHTTPProxies, ComputeChild, ComputeRoot, FollowTCPInclude, EndTCPProxy,
               SkipInclude, RefuseCycle, FollowInclude, ReturnRoutes, AddRoutes, ReportOrphans
<1>2. Names' = Names
  BY Zenon, <1>1 DEF Names, Proxies
<1>3. CASE UNCHANGED vars
  BY Zenon, <1>2, <1>3 DEF vars, ReportInv
<1>4. CASE Next /\ ~ReportOrphans
  BY Zenon, <1>2, <1>4, StatusesClean, CallsClean DEF ReportInv
<1>5. CASE ReportOrphans
  <2>1. pc = "pick" /\ pc' = "done" /\ orphaned' = orphaned
        /\ status' = [n \in Names |-> IF n \in orphaned THEN Commit(status[n], {"Orphaned"}) ELSE status[n]]
    BY Zenon, <1>5 DEF ReportOrphans
  <2>2. \A n \in Names : Clean(status[n])
    <3>1. pc # "done"
      BY <2>1
    <3>. QED  BY Zenon, <3>1 DEF ReportInv
  <2>3. \A before : Commit(before, {"Orphaned"}) = {"Orphaned"}
    BY Zenon DEF Commit, Valid
  <2>4. \A n \in Names : "Orphaned" \in status'[n] <=> n \in orphaned
    BY Zenon, <2>1, <2>2, <2>3 DEF Clean
  <2>. QED  BY Zenon, <1>2, <1>5, <2>1, <2>4, CallsClean DEF ReportInv, Next
<1>. QED  BY Zenon, <1>3, <1>4, <1>5

LEMMA ReportStart == Init => ReportInv
<1>. SUFFICES ASSUME Init PROVE ReportInv
  BY Zenon
<1>1. pc = "start" /\ stack = <<>> /\ \A n \in Names : status[n] = {}
  BY Zenon DEF Init, Valid
<1>2. 1..Len(stack) = {} /\ pc # "done"
  BY <1>1
<1>. QED  BY Zenon, <1>1, <1>2 DEF ReportInv, Clean

\* At the end of a run exactly the HTTPProxies without a virtual host that no root reached are
\* reported Orphaned, whatever the HTTPProxies and whatever the order the roots are computed in
\* (the deletes from p.orphaned in computeRoutes and processHTTPProxyTCPProxy, and the loop at
\* the end of Run).
THEOREM OrphansReportedExactly == Spec => []OrphansExact
<1>1. ASSUME Inv, OrphanInv, ReportInv PROVE OrphansExact
  <2>. SUFFICES ASSUME pc = "done", NEW n \in Names
                PROVE  "Orphaned" \in status[n] <=>
                          n \notin Roots /\ \A r \in Roots : Computed(r) => ~ReachedFrom(r, n)
    BY Zenon DEF OrphansExact
  <2>1. "Orphaned" \in status[n] <=> n \in orphaned
    BY Zenon, <1>1 DEF ReportInv
  <2>2. stack = <<>> /\ orphaned \subseteq Names \ Roots
    BY Zenon, <1>1 DEF Inv
  <2>3. pending = {} /\ Reachable({}, orphaned) /\ Finished({}, orphaned, <<>>)
    <3>1. OrphanState(pc, pending, orphaned, stack) /\ pc # "start"
      <4>1. pc # "start"
        OBVIOUS
      <4>. QED  BY Zenon, <1>1, <4>1, OrphansNow
    <3>. QED  BY Zenon, <2>2, <3>1 DEF OrphanState, ChildrenFirst
  <2>4. ASSUME n \notin Roots, \A r \in Roots : Computed(r) => ~ReachedFrom(r, n) PROVE n \in orphaned
    BY Zenon, <2>3, <2>4 DEF Reachable
  <2>5. ASSUME n \in orphaned, NEW r \in Roots, Computed(r) PROVE ~ReachedFrom(r, n)
    <3>1. AllAdopted(r, orphaned) /\ r \in Names
      BY Zenon, <2>3, <2>5 DEF Finished, Roots
    <3>2. \A leads : Adopts(r, leads, orphaned) => n \notin Reached(r, leads)
      BY Zenon, <2>5, <3>1, ReachedGrows DEF Adopts
    <3>. QED  BY Zenon, <3>1, <3>2 DEF AllAdopted, ReachedFrom
  <2>. QED  BY Zenon, <2>1, <2>2, <2>4, <2>5
<1>. QED  BY <1>1, InvAlways, OrphanStart, OrphanStep, ReportStart, ReportStep, PTL DEF Spec

=============================================================================
