---------------------- MODULE HTTPProxyProcessorProofs ----------------------
(***************************************************************************)
(* What holds of a run of the HTTPProxyProcessor over any HTTPProxies: the *)
(* walks are bounded, roots that share an fqdn are not served, and an      *)
(* HTTPProxy that was reported invalid stays invalid.                      *)
(***************************************************************************)
EXTENDS HTTPProxyProcessor, TLAPS

-----------------------------------------------------------------------------
(* The calls in progress *)

\* The calls below the last one.
Front(s) == SubSeq(s, 1, Len(s) - 1)

IsFrame(f) ==
    f \in [proxy : {f.proxy}, conds : {f.conds}, next : {f.next}, routes : {f.routes}, errors : {f.errors}]

FrameOK(f, first, proxies) ==
    /\ IsFrame(f)
    /\ f.proxy \in DOMAIN proxies
    /\ proxies[f.proxy].root = first
    /\ f.next \in 1..(Len(proxies[f.proxy].includes) + 1)

\* A walk: the root first, then other HTTPProxies, none of them twice.
Walk(s, proxies) ==
    /\ \E S : s \in Seq(S)
    /\ \A i \in 1..Len(s) : FrameOK(s[i], i = 1, proxies)
    /\ \A i, j \in 1..Len(s) : s[i].proxy = s[j].proxy => i = j

LEMMA FrameIsFrame ==
    ASSUME NEW n, NEW conds, NEW errors, NEW proxies, n \in DOMAIN proxies,
           Len(proxies[n].includes) \in Nat, proxies[n].root \in BOOLEAN
    PROVE  FrameOK(Frame(n, conds, errors), proxies[n].root, proxies)
           /\ Frame(n, conds, errors).proxy = n
  BY DEF Frame, FrameOK, IsFrame

LEMMA EmptyWalk ==
    ASSUME NEW proxies
    PROVE  Walk(<<>>, proxies)
<1>1. <<>> \in Seq({}) /\ Len(<<>>) = 0
  OBVIOUS
<1> QED
  BY <1>1 DEF Walk

LEMMA FirstWalk ==
    ASSUME NEW proxies, NEW f, FrameOK(f, TRUE, proxies)
    PROVE  Walk(<<f>>, proxies)
<1>1. <<f>> \in Seq({f}) /\ Len(<<f>>) = 1 /\ <<f>>[1] = f
  OBVIOUS
<1>2. \A i \in 1..Len(<<f>>) : i = 1 /\ (i = 1) = TRUE
  BY <1>1
<1>3. \A i \in 1..Len(<<f>>) : FrameOK(<<f>>[i], i = 1, proxies)
  <2> SUFFICES ASSUME NEW i \in 1..Len(<<f>>) PROVE FrameOK(<<f>>[i], i = 1, proxies)
    BY Zenon
  <2>1. <<f>>[i] = f /\ (i = 1) = TRUE
    BY Zenon, <1>1, <1>2
  <2> QED
    BY Zenon, <2>1
<1>4. \A i, j \in 1..Len(<<f>>) : <<f>>[i].proxy = <<f>>[j].proxy => i = j
  BY Zenon, <1>2
<1> QED
  BY Zenon, <1>1, <1>3, <1>4 DEF Walk

\* A call for an HTTPProxy that is not being visited.
LEMMA LongerWalk ==
    ASSUME NEW proxies, NEW s, Walk(s, proxies), s # <<>>, NEW f, FrameOK(f, FALSE, proxies),
           \A i \in 1..Len(s) : s[i].proxy # f.proxy
    PROVE  Walk(Append(s, f), proxies)
<1> DEFINE t == Append(s, f)
<1>1. PICK S : s \in Seq(S)
  BY Zenon DEF Walk
<1>2. /\ t \in Seq(S \union {f})
      /\ Len(t) = Len(s) + 1
      /\ Len(s) \in Nat
      /\ \A i \in 1..Len(s) : t[i] = s[i]
      /\ t[Len(s) + 1] = f
  <2>1. s \in Seq(S \union {f})
    BY <1>1
  <2> QED
    BY SMTT(30), <2>1
<1>3. Len(s) # 0
  BY <1>1
<1> HIDE DEF t
<1>4. \A i \in 1..Len(t) : FrameOK(t[i], i = 1, proxies)
  <2> SUFFICES ASSUME NEW i \in 1..Len(t) PROVE FrameOK(t[i], i = 1, proxies)
    BY Zenon
  <2>1. CASE i \in 1..Len(s)
    BY <2>1, <1>2 DEF Walk
  <2>2. CASE i = Len(s) + 1
    <3>1. (i = 1) = FALSE
      BY <2>2, <1>2, <1>3
    <3> QED
      BY Zenon, <3>1, <2>2, <1>2
  <2> QED
    BY SMTT(30), <2>1, <2>2, <1>2
<1>5. \A i, j \in 1..Len(t) : t[i].proxy = t[j].proxy => i = j
  BY <1>2 DEF Walk
<1> QED
  BY SMTT(30), <1>2, <1>4, <1>5 DEF Walk, t

\* The same calls, with other fields changed.
LEMMA SameWalk ==
    ASSUME NEW proxies, NEW s, Walk(s, proxies), NEW T, NEW t \in Seq(T), Len(t) = Len(s),
           \A i \in 1..Len(s) : FrameOK(t[i], i = 1, proxies) /\ t[i].proxy = s[i].proxy
    PROVE  Walk(t, proxies)
  BY Zenon DEF Walk

\* The last call returns.
LEMMA ShorterWalk ==
    ASSUME NEW proxies, NEW s, Walk(s, proxies), s # <<>>
    PROVE  Walk(Front(s), proxies) /\ Len(Front(s)) = Len(s) - 1
           /\ \A i \in 1..(Len(s) - 1) : Front(s)[i] = s[i]
<1>1. PICK S : s \in Seq(S)
  BY Zenon DEF Walk
<1>2. Len(s) \in Nat /\ Len(s) # 0
  BY SMTT(30), <1>1
<1>3. /\ Front(s) \in Seq(S)
      /\ Len(Front(s)) = Len(s) - 1
      /\ \A i \in 1..(Len(s) - 1) : Front(s)[i] = s[i]
  <2> DEFINE n == Len(s) - 1
  <2>1. n \in Nat /\ \A i \in 1..n : s[i] \in S
    BY SMTT(30), <1>1, <1>2
  <2> HIDE DEF n
  <2>2. /\ SubSeq(s, 1, n) \in Seq(S)
        /\ Len(SubSeq(s, 1, n)) = IF 1 <= n THEN n - 1 + 1 ELSE 0
        /\ \A i \in 1..(n - 1 + 1) : SubSeq(s, 1, n)[i] = s[1 + i - 1]
    BY SMTT(30), <2>1
  <2>3. /\ Len(SubSeq(s, 1, n)) = n
        /\ \A i \in 1..n : SubSeq(s, 1, n)[i] = s[i]
    BY <2>1, <2>2
  <2> QED
    BY SMTT(30), <2>2, <2>3 DEF Front, n
<1> QED
  BY SMTT(30), <1>2, <1>3 DEF Walk

\* The last call goes on.
LEMMA EditedWalk ==
    ASSUME NEW proxies, NEW s, Walk(s, proxies), s # <<>>, NEW f,
           FrameOK(f, Len(s) = 1, proxies), f.proxy = s[Len(s)].proxy
    PROVE  Walk([s EXCEPT ![Len(s)] = f], proxies) /\ Len([s EXCEPT ![Len(s)] = f]) = Len(s)
           /\ \A i \in 1..Len(s) : [s EXCEPT ![Len(s)] = f][i].proxy = s[i].proxy
<1> DEFINE t == [s EXCEPT ![Len(s)] = f]
<1>1. PICK S : s \in Seq(S)
  BY Zenon DEF Walk
<1>2. Len(s) \in Nat /\ Len(s) # 0 /\ DOMAIN s = 1..Len(s)
  BY SMTT(30), <1>1
<1>3. s \in Seq(S \union {f})
  BY SMTT(30), <1>1
<1>4. /\ t \in Seq(S \union {f})
      /\ Len(t) = Len(s)
      /\ \A i \in 1..Len(s) : t[i] = IF i = Len(s) THEN f ELSE s[i]
  BY SMTT(30), <1>2, <1>3
<1> HIDE DEF t
<1>5. \A i \in 1..Len(s) : FrameOK(t[i], i = 1, proxies) /\ t[i].proxy = s[i].proxy
  <2> SUFFICES ASSUME NEW i \in 1..Len(s)
               PROVE  FrameOK(t[i], i = 1, proxies) /\ t[i].proxy = s[i].proxy
    BY Zenon
  <2>1. CASE i = Len(s)
    BY SMTT(30), <2>1, <1>4
  <2>2. CASE i # Len(s)
    BY SMTT(30), <2>2, <1>4 DEF Walk
  <2> QED
    BY SMTT(30), <2>1, <2>2
<1>6. Walk(t, proxies)
  BY SMTT(30), <1>4, <1>5, SameWalk
<1> QED
  BY <1>4, <1>5, <1>6 DEF t

-----------------------------------------------------------------------------
(* The inductive invariant *)

Inv ==
    /\ world \in Worlds
    /\ pc \in {"start", "pick", "tcp", "routes", "done"}
    /\ pending \subseteq Names
    /\ orphaned \subseteq Names \ Roots
    /\ DOMAIN status = Names
    /\ stack = <<>> <=> pc \in {"start", "pick", "done"}
    /\ Walk(stack, Proxies)

LEMMA WorldFacts ==
    ASSUME world \in Worlds
    PROVE  \A n \in Names : /\ Proxies[n].root \in BOOLEAN
                            /\ Len(Proxies[n].includes) \in Nat
                            /\ Host(n) = [name |-> Host(n).name, upper |-> Host(n).upper]
  BY Zenon, WorldsAssumption DEF Names, Proxies, Host

LEMMA StackFacts ==
    ASSUME Inv, stack # <<>>
    PROVE  /\ Len(stack) \in Nat /\ Len(stack) # 0
           /\ DOMAIN stack = 1..Len(stack)
           /\ FrameOK(Top, Len(stack) = 1, Proxies)
           /\ FrameOK(stack[1], TRUE, Proxies)
           /\ Visited = {stack[i].proxy : i \in 1..Len(stack)}
<1>1. PICK S : stack \in Seq(S)
  BY Zenon DEF Inv, Walk
<1>2. Len(stack) \in Nat /\ Len(stack) # 0 /\ DOMAIN stack = 1..Len(stack)
  BY <1>1
<1>3. \A i \in 1..Len(stack) : FrameOK(stack[i], i = 1, Proxies)
  BY Zenon DEF Inv, Walk
<1>4. FrameOK(stack[1], 1 = 1, Proxies) /\ FrameOK(stack[Len(stack)], Len(stack) = 1, Proxies)
  BY SMTT(30), <1>2, <1>3
<1>5. (1 = 1) = TRUE
  BY Zenon
<1>6. FrameOK(stack[1], TRUE, Proxies)
  BY Zenon, <1>4, <1>5
<1> QED
  BY ZenonT(60), <1>2, <1>4, <1>6 DEF Top, Last, Visited

\* Where an include is followed, or refused as a cycle, its target is an HTTPProxy without a
\* virtual host.
LEMMA TargetOfInclude ==
    ASSUME NEW n, NEW i, IncludeReason(n, i) = "none"
    PROVE  Proxies[n].includes[i].name \in Names /\ ~Proxies[Proxies[n].includes[i].name].root
  BY Zenon DEF IncludeReason

LEMMA TargetOfTCPInclude ==
    ASSUME NEW n, TCPOutcome(n) \in {"follow", "IncludeCreatesCycle"}
    PROVE  Proxies[n].tcp.include \in Names /\ ~Proxies[Proxies[n].tcp.include].root
           /\ (TCPOutcome(n) = "follow" => Proxies[n].tcp.include \notin Visited)
  BY Zenon DEF TCPOutcome

\* What a call for an HTTPProxy without a virtual host adds to a walk.
LEMMA ChildFrame ==
    ASSUME world \in Worlds, NEW n \in Names, ~Proxies[n].root, NEW conds, NEW errors
    PROVE  FrameOK(Frame(n, conds, errors), FALSE, Proxies) /\ Frame(n, conds, errors).proxy = n
<1>1. Proxies[n].root = FALSE /\ Len(Proxies[n].includes) \in Nat
  BY Zenon, WorldFacts
<1>2. FrameOK(Frame(n, conds, errors), Proxies[n].root, Proxies) /\ Frame(n, conds, errors).proxy = n
  BY Zenon, <1>1, FrameIsFrame DEF Names
<1> QED
  BY Zenon, <1>1, <1>2

\* The call on top of the stack has seen one more include.
LEMMA NextInclude ==
    ASSUME Inv, HasInclude, NEW errors, NEW routes
    PROVE  LET f == [Top EXCEPT !.next = Top.next + 1, !.errors = errors, !.routes = routes]
           IN  FrameOK(f, Len(stack) = 1, Proxies) /\ f.proxy = Top.proxy
<1>1. stack # <<>>
  BY Zenon DEF Inv, HasInclude
<1>2. FrameOK(Top, Len(stack) = 1, Proxies)
  BY Zenon, <1>1, StackFacts
<1>3. Len(Proxies[Top.proxy].includes) \in Nat
  BY SMTT(30), <1>2, WorldFacts DEF Inv, FrameOK, Names
<1>4. Top.next + 1 \in 1..(Len(Proxies[Top.proxy].includes) + 1)
  BY SMTT(30), <1>2, <1>3 DEF HasInclude, FrameOK
<1> DEFINE f == [Top EXCEPT !.next = Top.next + 1, !.errors = errors, !.routes = routes]
<1>5. IsFrame(f) /\ f.proxy = Top.proxy /\ f.next = Top.next + 1
  <2>1. IsFrame(Top)
    BY Zenon, <1>2 DEF FrameOK
  <2> QED
    BY Zenon, <2>1 DEF IsFrame
<1> HIDE DEF f
<1>6. FrameOK(f, Len(stack) = 1, Proxies) /\ f.proxy = Top.proxy
  BY <1>2, <1>4, <1>5 DEF FrameOK
<1> QED
  BY Zenon, <1>6 DEF f

\* Every step leads from a walk to a walk.
LEMMA WalkStep ==
    ASSUME Inv, Next
    PROVE  Walk(stack', Proxies)
<1> USE DEF Inv
<1>1. CASE ValidHTTPProxies \/ ReportOrphans
  BY Zenon, <1>1 DEF ValidHTTPProxies, ReportOrphans
<1>2. ASSUME NEW n \in pending, ComputeChild(n) PROVE Walk(stack', Proxies)
  BY Zenon, <1>2 DEF ComputeChild
<1>3. ASSUME NEW n \in pending, ComputeRoot(n) PROVE Walk(stack', Proxies)
  <2>1. CASE stack' = stack
    BY Zenon, <2>1
  <2>2. CASE stack' = <<Frame(n, <<>>, Report(AllChecks(Proxies[n])))>>
    <3>1. n \in Names /\ Proxies[n].root = TRUE /\ Len(Proxies[n].includes) \in Nat
      BY <1>3, WorldFacts DEF ComputeRoot, Roots
    <3>2. FrameOK(Frame(n, <<>>, Report(AllChecks(Proxies[n]))), Proxies[n].root, Proxies)
      BY Zenon, <3>1, FrameIsFrame DEF Names
    <3>3. FrameOK(Frame(n, <<>>, Report(AllChecks(Proxies[n]))), TRUE, Proxies)
      BY Zenon, <3>1, <3>2
    <3> QED
      BY Zenon, <2>2, <3>3, FirstWalk
  <2> QED
    BY SMTT(30), <1>3, <2>1, <2>2 DEF ComputeRoot
<1>4. CASE FollowTCPInclude
  <2> DEFINE m == Proxies[Top.proxy].tcp.include
  <2>1. stack # <<>> /\ stack' = Append(stack, Frame(m, <<>>, Valid))
    BY Zenon, <1>4 DEF FollowTCPInclude
  <2>2. m \in Names /\ ~Proxies[m].root /\ m \notin Visited
    BY SMTT(30), <1>4, TargetOfTCPInclude DEF FollowTCPInclude
  <2>3. FrameOK(Frame(m, <<>>, Valid), FALSE, Proxies) /\ Frame(m, <<>>, Valid).proxy = m
    BY Zenon, <2>2, ChildFrame
  <2>4. \A i \in 1..Len(stack) : stack[i].proxy # m
    BY Zenon, <2>1, <2>2, StackFacts
  <2> HIDE DEF m
  <2> QED
    BY Zenon, <2>1, <2>3, <2>4, LongerWalk
<1>5. CASE EndTCPProxy
  <2>1. stack # <<>> /\ (stack' = <<stack[1]>> \/ stack' = <<>>)
    BY Zenon, <1>5 DEF EndTCPProxy
  <2>2. FrameOK(stack[1], TRUE, Proxies)
    BY Zenon, <2>1, StackFacts
  <2> QED
    BY Zenon, <2>1, <2>2, FirstWalk, EmptyWalk
<1>6. CASE SkipInclude
  <2> DEFINE reason == IncludeReason(Top.proxy, Top.next)
             routes == IF reason \in {"IncludeNotFound", "RootIncludesRoot"}
                       THEN addStatusBadGatewayRoute(Top.routes, Include.conds, Top.proxy)
                       ELSE Top.routes
             f == [Top EXCEPT !.next = Top.next + 1, !.errors = Top.errors \union {reason},
                              !.routes = routes]
  <2>1. HasInclude /\ stack # <<>>
    BY Zenon, <1>6 DEF SkipInclude, HasInclude
  <2>2. FrameOK(f, Len(stack) = 1, Proxies) /\ f.proxy = stack[Len(stack)].proxy
    <3> HIDE DEF reason, routes
    <3> QED
      BY ZenonT(60), <2>1, NextInclude DEF Top, Last
  <2>3. stack' = [stack EXCEPT ![Len(stack)] = f]
    BY ZenonT(60), <1>6, <2>1, StackFacts DEF SkipInclude, Top, Last, FrameOK, IsFrame
  <2> HIDE DEF f
  <2> QED
    BY Zenon, <2>1, <2>2, <2>3, EditedWalk
<1>7. CASE RefuseCycle
  <2> DEFINE f == [Top EXCEPT !.next = Top.next + 1, !.errors = Top.errors, !.routes = Top.routes]
  <2>1. HasInclude /\ stack # <<>>
    BY Zenon, <1>7 DEF RefuseCycle, HasInclude
  <2>2. FrameOK(f, Len(stack) = 1, Proxies) /\ f.proxy = stack[Len(stack)].proxy
    BY ZenonT(60), <2>1, NextInclude DEF Top, Last
  <2>3. stack' = [stack EXCEPT ![Len(stack)] = f]
    BY Zenon, <1>7, <2>1, StackFacts DEF RefuseCycle, Top, Last, FrameOK, IsFrame
  <2> HIDE DEF f
  <2> QED
    BY Zenon, <2>1, <2>2, <2>3, EditedWalk
<1>8. CASE FollowInclude
  <2> DEFINE f == [Top EXCEPT !.next = Top.next + 1, !.errors = Top.errors, !.routes = Top.routes]
             s == [stack EXCEPT ![Len(stack)] = f]
             g == Frame(Include.name, Top.conds \o Include.conds, Valid)
  <2>1. HasInclude /\ stack # <<>>
    BY <1>8 DEF FollowInclude, HasInclude
  <2>2. FrameOK(f, Len(stack) = 1, Proxies) /\ f.proxy = stack[Len(stack)].proxy
    BY Zenon, <2>1, NextInclude DEF Top, Last
  <2>3. stack' = Append(s, g)
    BY ZenonT(60), <1>8, <2>1, StackFacts DEF FollowInclude, Top, Last, FrameOK, IsFrame
  <2>4. Include.name \in Names /\ ~Proxies[Include.name].root /\ Include.name \notin Visited
    BY Zenon, <1>8, TargetOfInclude DEF FollowInclude, Include, CreatesCycle
  <2>5. FrameOK(g, FALSE, Proxies) /\ g.proxy = Include.name
    BY Zenon, <2>4, ChildFrame
  <2>6. Walk(s, Proxies) /\ Len(s) = Len(stack) /\ \A i \in 1..Len(stack) : s[i].proxy = stack[i].proxy
    <3> HIDE DEF f
    <3> QED
      BY <2>1, <2>2, EditedWalk
  <2> HIDE DEF s, g
  <2>7. s # <<>> /\ \A i \in 1..Len(s) : s[i].proxy # g.proxy
    <3>1. Len(stack) # 0 /\ Len(<<>>) = 0
      BY <2>1, StackFacts
    <3> QED
      BY ZenonT(60), <3>1, <2>1, <2>4, <2>5, <2>6, StackFacts
  <2> QED
    BY ZenonT(60), <2>3, <2>5, <2>6, <2>7, LongerWalk
<1>9. CASE ReturnRoutes
  <2> DEFINE s == Front(stack)
             c == Len(stack) - 1
  <2>1. stack # <<>> /\ Len(stack) > 1 /\ Len(stack) \in Nat
    BY <1>9, StackFacts DEF ReturnRoutes
  <2>2. PICK routes : stack' = [s EXCEPT ![c].routes = routes]
    BY Zenon, <1>9 DEF ReturnRoutes, Front
  <2>3. Walk(s, Proxies) /\ Len(s) = c
    BY <2>1, ShorterWalk
  <2> HIDE DEF s
  <2>4. s # <<>> /\ c \in 1..Len(s) /\ c \in Nat
    BY SMTT(30), <2>1, <2>3
  <2> DEFINE f == [s[c] EXCEPT !.routes = routes]
  <2>5. FrameOK(s[c], c = 1, Proxies)
    BY Zenon, <2>3, <2>4 DEF Walk
  <2>6. FrameOK(f, c = 1, Proxies) /\ f.proxy = s[c].proxy
    BY Zenon, <2>5 DEF FrameOK, IsFrame
  <2>7. stack' = [s EXCEPT ![c] = f]
    BY Zenon, <2>2
  <2> HIDE DEF f
  <2> QED
    BY ZenonT(60), <2>3, <2>4, <2>6, <2>7, EditedWalk
<1>10. CASE AddRoutes
  BY ZenonT(60), <1>10, EmptyWalk DEF AddRoutes
<1> QED
  BY SMTT(30), <1>1, <1>2, <1>3, <1>4, <1>5, <1>6, <1>7, <1>8, <1>9, <1>10 DEF Next

LEMMA InvInit == Init => Inv
  BY Zenon, EmptyWalk DEF Init, Inv

\* A call that goes on, makes another or returns to one leaves a call in progress.
LEMMA NotEmptied ==
    ASSUME Inv, stack # <<>>,
           FollowTCPInclude \/ SkipInclude \/ RefuseCycle \/ FollowInclude \/ ReturnRoutes
    PROVE  stack' # <<>>
<1>1. PICK S : stack \in Seq(S)
  BY Zenon DEF Inv, Walk
<1>2. Len(stack) \in Nat /\ Len(stack) # 0 /\ DOMAIN stack = 1..Len(stack) /\ DOMAIN <<>> = {}
  BY SMTT(30), <1>1, StackFacts
<1>3. CASE FollowTCPInclude
  BY SMTT(30), <1>1, <1>3 DEF FollowTCPInclude
<1>4. CASE SkipInclude \/ RefuseCycle
  <2>1. DOMAIN stack' = DOMAIN stack
    BY Zenon, <1>4 DEF SkipInclude, RefuseCycle
  <2>2. 1 \in DOMAIN stack'
    BY SMTT(30), <1>2, <2>1
  <2> QED
    BY Zenon, <1>2, <2>2
<1>5. CASE FollowInclude
  <2>1. DOMAIN [stack EXCEPT ![Len(stack)].next = Top.next + 1] = 1..Len(stack)
    BY SMTT(30), <1>2
  <2> QED
    BY SMTT(30), <1>5, <2>1 DEF FollowInclude
<1>6. CASE ReturnRoutes
  <2>1. DOMAIN stack' = DOMAIN Front(stack)
    BY Zenon, <1>6 DEF ReturnRoutes, Front
  <2>2. Front(stack) \in Seq(S) /\ Len(Front(stack)) = Len(stack) - 1 /\ Len(stack) > 1
    BY SMTT(30), <1>1, <1>2, <1>6 DEF Front, ReturnRoutes
  <2>3. 1 \in DOMAIN stack'
    BY SMTT(30), <1>2, <2>1, <2>2
  <2> QED
    BY Zenon, <1>2, <2>3
<1> QED
  BY SMTT(30), <1>3, <1>4, <1>5, <1>6

LEMMA InvStep == Inv /\ [Next]_vars => Inv'
<1> SUFFICES ASSUME Inv, [Next]_vars PROVE Inv'
  BY Zenon
<1>1. CASE UNCHANGED vars
  <2>1. world' = world /\ stack' = stack /\ pc' = pc /\ pending' = pending
        /\ orphaned' = orphaned /\ status' = status
    BY Zenon, <1>1 DEF vars
  <2> QED
    BY Zenon, <2>1 DEF Inv, Names, Roots, Proxies
<1>2. CASE Next
  <2>1. world' = world
    BY Zenon, <1>2 DEF Next, ValidHTTPProxies, ComputeChild, ComputeRoot, FollowTCPInclude, EndTCPProxy,
                SkipInclude, RefuseCycle, FollowInclude, ReturnRoutes, AddRoutes, ReportOrphans
  <2>2. Proxies' = Proxies /\ Names' = Names /\ Roots' = Roots
    BY Zenon, <2>1 DEF Proxies, Names, Roots
  <2>3. Walk(stack, Proxies)'
    BY SMTT(30), <1>2, <2>2, WalkStep
  <2>4. pc' \in {"start", "pick", "tcp", "routes", "done"}
    BY ZenonT(60), <1>2 DEF Inv, Next, ValidHTTPProxies, ComputeChild, ComputeRoot, FollowTCPInclude, EndTCPProxy,
                SkipInclude, RefuseCycle, FollowInclude, ReturnRoutes, AddRoutes, ReportOrphans
  <2>5. pending' \subseteq Names
    BY ZenonT(60), <1>2 DEF Inv, Next, ValidHTTPProxies, ComputeChild, ComputeRoot, FollowTCPInclude, EndTCPProxy,
                SkipInclude, RefuseCycle, FollowInclude, ReturnRoutes, AddRoutes, ReportOrphans
  <2>6. orphaned' \subseteq Names \ Roots
    BY ZenonT(60), <1>2 DEF Inv, Next, ValidHTTPProxies, ComputeChild, ComputeRoot, FollowTCPInclude, EndTCPProxy,
                SkipInclude, RefuseCycle, FollowInclude, ReturnRoutes, AddRoutes, ReportOrphans
  <2>7. DOMAIN status' = Names
    BY Zenon, <1>2 DEF Inv, Next, ValidHTTPProxies, ComputeChild, ComputeRoot, FollowTCPInclude, EndTCPProxy,
                SkipInclude, RefuseCycle, FollowInclude, ReturnRoutes, AddRoutes, ReportOrphans
  <2>8. stack' = <<>> <=> pc' \in {"start", "pick", "done"}
    <3>1. CASE ValidHTTPProxies \/ ReportOrphans \/ AddRoutes \/ \E n \in pending : ComputeChild(n)
      BY Zenon, <3>1 DEF Inv, ValidHTTPProxies, ReportOrphans, AddRoutes, ComputeChild
    <3>3. ASSUME NEW n \in pending, ComputeRoot(n)
          PROVE  stack' = <<>> <=> pc' \in {"start", "pick", "done"}
      BY <3>3 DEF Inv, ComputeRoot
    <3>4. CASE EndTCPProxy
      <4>1. \/ pc' = "routes" /\ stack' = <<stack[1]>>
            \/ pc' = "pick" /\ stack' = <<>>
        BY Zenon, <3>4 DEF EndTCPProxy
      <4> QED
        BY SMTT(30), <4>1
    <3>2. CASE FollowTCPInclude \/ SkipInclude \/ RefuseCycle \/ FollowInclude \/ ReturnRoutes
      <4>1. pc' = pc /\ pc \in {"tcp", "routes"} /\ stack # <<>>
        BY Zenon, <3>2 DEF Inv, FollowTCPInclude, SkipInclude, RefuseCycle, FollowInclude, ReturnRoutes, HasInclude
      <4>2. stack' # <<>>
        BY SMTT(30), <3>2, <4>1, NotEmptied
      <4> QED
        BY SMTT(30), <4>1, <4>2
    <3> QED
      BY SMTT(30), <1>2, <3>1, <3>2, <3>3, <3>4 DEF Next
  <2> QED
    BY SMTT(30), <2>1, <2>2, <2>3, <2>4, <2>5, <2>6, <2>7, <2>8 DEF Inv
<1> QED
  BY SMTT(30), <1>1, <1>2

-----------------------------------------------------------------------------
(* The theorems *)

LEMMA InvAlways == Spec => []Inv
  BY InvInit, InvStep, PTL DEF Spec

\* Type correctness: the calls in progress start at a root and go on at HTTPProxies without a
\* virtual host, and the orphans have none (computeHTTPProxy, computeRoutes).
THEOREM WalksTyped == Spec => []TypeOK
<1>1. Inv => TypeOK
  <2> SUFFICES ASSUME Inv PROVE TypeOK
    BY Zenon
  <2>1. \A i \in DOMAIN stack :
            /\ stack[i].proxy \in IF i = 1 THEN Roots ELSE Names \ Roots
            /\ stack[i].next \in 1..(Len(Proxies[stack[i].proxy].includes) + 1)
    <3> SUFFICES ASSUME NEW i \in DOMAIN stack
                 PROVE  /\ stack[i].proxy \in IF i = 1 THEN Roots ELSE Names \ Roots
                        /\ stack[i].next \in 1..(Len(Proxies[stack[i].proxy].includes) + 1)
      BY Zenon
    <3>1. DOMAIN stack = 1..Len(stack)
      BY DEF Inv, Walk
    <3>2. FrameOK(stack[i], i = 1, Proxies)
      BY <3>1 DEF Inv, Walk
    <3> QED
      BY Zenon, <3>2 DEF FrameOK, Roots, Names
  <2> QED
    BY Zenon, <2>1 DEF Inv, TypeOK
<1> QED
  BY <1>1, InvAlways, PTL

\* The recursion of computeRoutes and of processHTTPProxyTCPProxy ends for any HTTPProxies: a
\* walk never has two calls for one HTTPProxy in progress.
THEOREM RecursionEnds == Spec => []DelegationBounded
<1>1. ASSUME Inv PROVE DelegationBounded
  <2>1. DOMAIN stack = 1..Len(stack)
    BY <1>1 DEF Inv, Walk
  <2> QED
    BY Zenon, <1>1, <2>1 DEF Inv, Walk, DelegationBounded
<1> QED
  BY <1>1, InvAlways, PTL

LEMMA CommitKeeps ==
    ASSUME NEW before, before # Valid, NEW errors
    PROVE  Commit(before, errors) # Valid
  BY Zenon DEF Commit

\* Within one run an HTTPProxy that was reported invalid is never reported valid again: every
\* status is written through the commit of ProxyAccessor.
THEOREM InvalidStaysAlways == Spec => InvalidStays
<1> DEFINE Kept == \A n \in Names : status[n] # Valid => status'[n] # Valid
<1>1. ASSUME Inv, [Next]_vars PROVE Kept
  <2> SUFFICES ASSUME NEW n \in Names, status[n] # Valid PROVE status'[n] # Valid
    BY Zenon
  <2>0. DOMAIN status = Names
    BY Zenon, <1>1 DEF Inv
  <2>1. CASE status' = status
    BY Zenon, <2>1
  <2>2. CASE ValidHTTPProxies
    BY Zenon, <2>2 DEF ValidHTTPProxies, Valid
  <2>3. ASSUME NEW m, NEW errors, status' = [status EXCEPT ![m] = Commit(status[m], errors)]
        PROVE  status'[n] # Valid
    BY SMTT(30), <2>0, <2>3, CommitKeeps
  <2>4. CASE EndTCPProxy
    <3>1. PICK E : status'[n] = status[n] \/ status'[n] = Commit(status[n], E)
      BY Zenon, <2>4 DEF EndTCPProxy
    <3> QED
      BY SMTT(30), <3>1, CommitKeeps
  <2>5. CASE ReportOrphans
    BY SMTT(30), <2>5, CommitKeeps DEF ReportOrphans
  <2>6. ASSUME NEW m \in pending, ComputeChild(m) PROVE status'[n] # Valid
    BY Zenon, <2>3, <2>6 DEF ComputeChild
  <2>7. ASSUME NEW m \in pending, ComputeRoot(m) PROVE status'[n] # Valid
    BY Zenon, <2>1, <2>3, <2>7 DEF ComputeRoot
  <2>8. CASE RefuseCycle
    BY Zenon, <2>3, <2>8 DEF RefuseCycle
  <2>9. CASE ReturnRoutes
    BY Zenon, <2>3, <2>9 DEF ReturnRoutes, Front
  <2>10. CASE AddRoutes
    BY ZenonT(60), <2>3, <2>10 DEF AddRoutes
  <2>11. CASE FollowTCPInclude \/ SkipInclude \/ FollowInclude \/ UNCHANGED vars
    BY SMTT(30), <2>1, <2>11 DEF FollowTCPInclude, SkipInclude, FollowInclude, vars
  <2> QED
    BY SMTT(30), <1>1, <2>2, <2>4, <2>5, <2>6, <2>7, <2>8, <2>9, <2>10, <2>11 DEF Next
<1>2. Inv /\ [Next]_vars => [Kept]_vars
  BY Zenon, <1>1
<1> QED
  BY <1>2, InvAlways, PTL DEF Spec, InvalidStays

-----------------------------------------------------------------------------
(* Roots that share an fqdn *)

\* No duplicate is waiting or being computed, and nothing was added to its virtual hosts.
Unserved ==
    /\ pending \intersect Duplicates = {}
    /\ stack # <<>> => stack[1].proxy \in Roots \ Duplicates
    /\ DOMAIN insecure = {Host(n) : n \in Roots}
    /\ DOMAIN secure = {Host(n) : n \in Roots}
    /\ \A r \in Duplicates : insecure[Host(r)] = NoRoutes /\ secure[Host(r)] = EmptyHost

\* The virtual host of a root without a duplicate is not that of one with a duplicate.
LEMMA OwnHost ==
    ASSUME NEW n \in Roots \ Duplicates, NEW r \in Duplicates
    PROVE  Host(n) # Host(r)
  BY Zenon DEF Duplicates, SameHost

\* The first call of a walk stays the first.
LEMMA FirstStays ==
    ASSUME Inv, stack # <<>>,
           FollowTCPInclude \/ SkipInclude \/ RefuseCycle \/ FollowInclude \/ ReturnRoutes
    PROVE  stack'[1].proxy = stack[1].proxy
<1>1. PICK S : stack \in Seq(S)
  BY Zenon DEF Inv, Walk
<1>2. Len(stack) \in Nat /\ Len(stack) # 0 /\ DOMAIN stack = 1..Len(stack)
  BY Zenon, StackFacts
<1>3. IsFrame(stack[1])
  BY Zenon, StackFacts DEF FrameOK
<1>4. CASE FollowTCPInclude
  BY SMTT(30), <1>1, <1>2, <1>4 DEF FollowTCPInclude
<1>5. CASE SkipInclude
  BY SMTT(30), <1>2, <1>3, <1>5 DEF SkipInclude, IsFrame
<1>6. CASE RefuseCycle
  BY SMTT(30), <1>2, <1>3, <1>6 DEF RefuseCycle, IsFrame
<1>7. CASE FollowInclude
  <2> DEFINE s == [stack EXCEPT ![Len(stack)].next = Top.next + 1]
  <2>1. s[1].proxy = stack[1].proxy
    BY SMTT(30), <1>2, <1>3 DEF IsFrame
  <2>2. PICK g : stack' = Append(s, g)
    BY Zenon, <1>7 DEF FollowInclude, Top, Last
  <2>3. s \in Seq(S \union {s[Len(stack)]}) /\ Len(s) = Len(stack)
    BY SMTT(30), <1>1, <1>2
  <2>4. stack'[1] = s[1]
    <3> HIDE DEF s
    <3> QED
      BY SMTT(30), <1>2, <2>2, <2>3
  <2> QED
    BY Zenon, <2>1, <2>4
<1>8. CASE ReturnRoutes
  <2>1. Front(stack) \in Seq(S) /\ Len(Front(stack)) = Len(stack) - 1 /\ Len(stack) > 1
        /\ Front(stack)[1] = stack[1]
    BY SMTT(30), <1>1, <1>2, <1>8 DEF Front, ReturnRoutes
  <2>2. PICK routes : stack' = [Front(stack) EXCEPT ![Len(stack) - 1].routes = routes]
    BY Zenon, <1>8 DEF ReturnRoutes, Front
  <2> QED
    BY SMTT(30), <1>2, <1>3, <2>1, <2>2 DEF IsFrame
<1> QED
  BY SMTT(30), <1>4, <1>5, <1>6, <1>7, <1>8

LEMMA UnservedInit == Init => Unserved
  BY DEF Init, Unserved, Duplicates, Roots, NoRoutes, EmptyHost

LEMMA UnservedStep == Inv /\ Unserved /\ [Next]_vars => Unserved'
<1> SUFFICES ASSUME Inv, Unserved, [Next]_vars PROVE Unserved'
  BY Zenon
<1>1. world' = world
  BY Zenon DEF Next, vars, ValidHTTPProxies, ComputeChild, ComputeRoot, FollowTCPInclude, EndTCPProxy,
         SkipInclude, RefuseCycle, FollowInclude, ReturnRoutes, AddRoutes, ReportOrphans
<1>2. Names' = Names /\ Roots' = Roots /\ Duplicates' = Duplicates /\ \A n : Host(n)' = Host(n)
  BY Zenon, <1>1 DEF Proxies, Names, Roots, Duplicates, Host, SameHost
<1>3. NoRoutes' = NoRoutes /\ EmptyHost' = EmptyHost
  BY Zenon DEF NoRoutes, EmptyHost
<1> DEFINE Next4 ==
        /\ pending' \intersect Duplicates = {}
        /\ stack' # <<>> => stack'[1].proxy \in Roots \ Duplicates
        /\ DOMAIN insecure' = {Host(n) : n \in Roots}
        /\ DOMAIN secure' = {Host(n) : n \in Roots}
        /\ \A r \in Duplicates : insecure'[Host(r)] = NoRoutes /\ secure'[Host(r)] = EmptyHost
<1> SUFFICES Next4
  BY SMTT(30), <1>2, <1>3 DEF Unserved
<1> USE DEF Unserved
<1>4. CASE UNCHANGED vars
  BY Zenon, <1>4 DEF vars
<1>5. CASE ValidHTTPProxies \/ ReportOrphans \/ \E n \in pending : ComputeChild(n)
  BY Zenon, <1>5 DEF ValidHTTPProxies, ReportOrphans, ComputeChild
<1>6. ASSUME NEW n \in pending, ComputeRoot(n) PROVE Next4
  <2>1. n \in Roots \ Duplicates
    BY Zenon, <1>6 DEF ComputeRoot
  <2>2. stack' # <<>> => stack'[1].proxy \in Roots \ Duplicates
    BY SMTT(30), <1>6, <2>1 DEF ComputeRoot, Frame
  <2>3. DOMAIN secure' = DOMAIN secure /\ \A r \in Duplicates : secure'[Host(r)] = secure[Host(r)]
    BY SMTT(30), <1>6, <2>1, OwnHost DEF ComputeRoot
  <2>4. insecure' = insecure /\ pending' \subseteq pending
    BY Zenon, <1>6 DEF ComputeRoot
  <2> QED
    BY SMTT(30), <2>2, <2>3, <2>4
<1>7. CASE FollowTCPInclude \/ SkipInclude \/ RefuseCycle \/ FollowInclude \/ ReturnRoutes
  <2>1. insecure' = insecure /\ secure' = secure /\ pending' = pending
    BY Zenon, <1>7 DEF FollowTCPInclude, SkipInclude, RefuseCycle, FollowInclude, ReturnRoutes
  <2>2. stack # <<>>
    BY Zenon, <1>7 DEF Inv, FollowTCPInclude, SkipInclude, RefuseCycle, FollowInclude, ReturnRoutes, HasInclude
  <2>3. stack'[1].proxy = stack[1].proxy
    BY SMTT(30), <1>7, <2>2, FirstStays
  <2> QED
    BY SMTT(30), <2>1, <2>2, <2>3
<1>8. CASE EndTCPProxy
  <2> DEFINE n == stack[1].proxy
  <2>1. stack # <<>> /\ n \in Roots \ Duplicates
    BY Zenon, <1>8 DEF Inv, EndTCPProxy
  <2>2. stack' = <<>> \/ stack' = <<stack[1]>>
    BY Zenon, <1>8 DEF EndTCPProxy
  <2>3. DOMAIN secure' = DOMAIN secure /\ \A r \in Duplicates : secure'[Host(r)] = secure[Host(r)]
    <3>1. secure' = secure
          \/ secure' = [secure EXCEPT ![Host(n)].tcp = Proxies[Top.proxy].tcp.services]
      BY Zenon, <1>8 DEF EndTCPProxy
    <3>2. \A r \in Duplicates : Host(r) # Host(n)
      BY SMTT(30), <2>1, OwnHost
    <3>3. \A r \in Duplicates : Host(r) \in DOMAIN insecure /\ Host(r) \in DOMAIN secure
      BY Zenon DEF Duplicates
    <3> HIDE DEF n, Unserved
    <3> QED
      BY SMTT(30), <3>1, <3>2, <3>3
  <2>4. insecure' = insecure /\ pending' = pending
    BY Zenon, <1>8 DEF EndTCPProxy
  <2> QED
    BY SMTT(30), <2>1, <2>2, <2>3, <2>4
<1>9. CASE AddRoutes
  <2> DEFINE n == stack[1].proxy
  <2>1. stack # <<>> /\ n \in Roots \ Duplicates
    BY Zenon, <1>9 DEF Inv, AddRoutes
  <2>2. DOMAIN secure' = DOMAIN secure /\ \A r \in Duplicates : secure'[Host(r)] = secure[Host(r)]
    <3>1. secure' = secure
          \/ secure' = [secure EXCEPT ![Host(n)].routes =
                            addRoutes(secure[Host(n)].routes, Result(stack[1], Proxies[n]).routes)]
      BY ZenonT(60), <1>9 DEF AddRoutes
    <3>2. \A r \in Duplicates : Host(r) # Host(n)
      BY Zenon, <2>1, OwnHost
    <3>3. \A r \in Duplicates : Host(r) \in DOMAIN insecure /\ Host(r) \in DOMAIN secure
      BY Zenon DEF Duplicates
    <3> HIDE DEF n, Unserved
    <3> QED
      BY SMTT(30), <3>1, <3>2, <3>3
  <2>3. DOMAIN insecure' = DOMAIN insecure /\ \A r \in Duplicates : insecure'[Host(r)] = insecure[Host(r)]
    <3>1. insecure' = insecure
          \/ insecure' = [insecure EXCEPT ![Host(n)] =
                            addRoutes(insecure[Host(n)], Result(stack[1], Proxies[n]).routes)]
      BY ZenonT(60), <1>9 DEF AddRoutes
    <3>2. \A r \in Duplicates : Host(r) # Host(n)
      BY Zenon, <2>1, OwnHost
    <3>3. \A r \in Duplicates : Host(r) \in DOMAIN insecure /\ Host(r) \in DOMAIN secure
      BY Zenon DEF Duplicates
    <3> HIDE DEF n, Unserved
    <3> QED
      BY SMTT(30), <3>1, <3>2, <3>3
  <2>4. stack' = <<>> /\ pending' = pending
    BY Zenon, <1>9 DEF AddRoutes
  <2> QED
    BY SMTT(30), <2>2, <2>3, <2>4
<1> QED
  BY Zenon, <1>4, <1>5, <1>6, <1>7, <1>8, <1>9 DEF Next

\* Roots that share an fqdn, in whatever case, are never served, whichever HTTPProxies there are
\* and in whichever order they are computed (validHTTPProxies).
THEOREM DuplicatesNeverServed == Spec => []DuplicatesNotServed
<1>1. Inv /\ Unserved => DuplicatesNotServed
  <2> SUFFICES ASSUME Inv, Unserved, NEW r \in Roots, NEW s \in Roots, r # s,
                      Host(r).name = Host(s).name
               PROVE  insecure[Host(r)] = NoRoutes /\ secure[Host(r)] = EmptyHost
    BY Zenon DEF DuplicatesNotServed
  <2>1. /\ Host(r) = [name |-> Host(r).name, upper |-> Host(r).upper]
        /\ Host(s) = [name |-> Host(s).name, upper |-> Host(s).upper]
    BY Zenon, WorldFacts DEF Inv, Roots
  <2>2. SameHost(r, s)
    BY Zenon, <2>1 DEF SameHost, ToLower
  <2> QED
    BY Zenon, <2>2 DEF Unserved, Duplicates
<1>2. Inv /\ Unserved /\ [Next]_vars => (Inv /\ Unserved)'
  BY Zenon, InvStep, UnservedStep
<1> QED
  BY <1>1, <1>2, InvInit, UnservedInit, PTL DEF Spec
=============================================================================
