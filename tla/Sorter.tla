-------------------------------- MODULE Sorter --------------------------------
(***************************************************************************)
(* The orders that the resource caches sort by (internal/sorter/sorter.go) *)
(* and the sort itself.  A string is the sequence of its characters, and a *)
(* character a number.                                                     *)
(*                                                                         *)
(* A route is [path, headers, query, priority]; the path condition is      *)
(* [kind, value, segment], a header condition [name, type, value, invert,  *)
(* missingAsEmpty] and a query parameter condition [name, type, value,     *)
(* ignoreCase].                                                            *)
(***************************************************************************)
EXTENDS Naturals, Sequences, SequencesExt

\* strings.Compare(a, b) = -1
Before(a, b) ==
  \/ IsStrictPrefix(a, b)
  \/ \E i \in DOMAIN a \cap DOMAIN b : a[i] < b[i] /\ \A j \in 1..(i - 1) : a[j] = b[j]

\* sort.Stable on up to 20 elements is an insertion sort: an element moves to the left for
\* as long as it is less than its neighbour, and the elements at stays are those it is not
\* less than.  Less need not be an order.
InsertSorted(sorted, x, stays) ==
  LET at == CHOOSE n \in {0} \cup stays : \A i \in stays : i <= n
  IN SubSeq(sorted, 1, at) \o <<x>> \o SubSeq(sorted, at + 1, Len(sorted))

-----------------------------------------------------------------------------

\* Route configurations, virtual hosts, clusters, listeners and secrets.
nameLess(a, b) == Before(a.name, b.name)

weightedClusterLess(a, b) == IF a.name = b.name THEN a.weight < b.weight ELSE nameLess(a, b)

\* Chains without a server name come last.
filterChainLess(a, b) ==
  /\ a.serverNames # <<>>
  /\ b.serverNames = <<>> \/ Before(a.serverNames[1], b.serverNames[1])

-----------------------------------------------------------------------------
(* Conditions and routes. *)

headerRank == [exact |-> 1, regex |-> 2, contains |-> 3, present |-> 4]
queryRank == [exact |-> 1, regex |-> 2, prefix |-> 3, suffix |-> 4, contains |-> 5, present |-> 6]

\* By value; the match with the flag (inverted, ignoring case) comes later.
compareValue(a, b, aFlag, bFlag) ==
  Before(a.value, b.value) \/ (a.value = b.value /\ ~aFlag /\ bFlag)

headerLess(a, b) ==
  \/ Before(a.name, b.name)
  \/ /\ a.name = b.name
     /\ \/ headerRank[a.type] < headerRank[b.type]
        \/ /\ a.type = b.type
           /\ IF a.type = "present" THEN ~a.invert /\ b.invert
              ELSE compareValue(a, b, a.invert, b.invert)

queryLess(a, b) ==
  \/ Before(a.name, b.name)
  \/ /\ a.name = b.name
     /\ \/ queryRank[a.type] < queryRank[b.type]
        \/ /\ a.type = b.type /\ a.type # "present"
           /\ compareValue(a, b, a.ignoreCase, b.ignoreCase)

\* The name of the pseudo header of the method.
method == <<0>>

\* A method match counts most, then the number of conditions, then the priority.  Of two
\* lists of the same length one is less when it is so at any position.
compareRoutesByMethodHeaderQueryParams(l, r) ==
  LET Others(h) == SelectSeq(h, LAMBDA c : c.name # method)
      lh == Others(l.headers)
      rh == Others(r.headers)
      lMethod == Len(lh) < Len(l.headers)
      rMethod == Len(rh) < Len(r.headers)
  IN IF lMethod # rMethod THEN lMethod
     ELSE IF Len(lh) # Len(rh) THEN Len(lh) > Len(rh)
     ELSE IF Len(l.query) # Len(r.query) THEN Len(l.query) > Len(r.query)
     ELSE IF l.priority # r.priority THEN l.priority < r.priority
     ELSE \/ \E i \in DOMAIN lh : headerLess(lh[i], rh[i])
          \/ \E i \in DOMAIN l.query : queryLess(l.query[i], r.query[i])

kindRank == [exact |-> 1, regex |-> 2, prefix |-> 3]

routeLess_ShorterFirst(l, r) ==
  LET a == l.path
      b == r.path
  IN IF a.kind # b.kind THEN kindRank[a.kind] < kindRank[b.kind]
     ELSE IF a.kind # "exact" /\ Len(a.value) # Len(b.value) THEN Len(a.value) < Len(b.value)
     ELSE IF a.value # b.value THEN Before(b.value, a.value)
     ELSE IF a.segment # b.segment THEN a.segment
     ELSE compareRoutesByMethodHeaderQueryParams(l, r)

routeLess_LengthOnly(l, r) ==
  LET a == l.path
      b == r.path
  IN IF a.kind # b.kind THEN kindRank[a.kind] < kindRank[b.kind]
     ELSE IF a.kind # "exact" /\ Len(a.value) # Len(b.value) THEN Len(a.value) > Len(b.value)
     ELSE IF a.value # b.value THEN FALSE
     ELSE IF a.segment # b.segment THEN a.segment
     ELSE compareRoutesByMethodHeaderQueryParams(l, r)

\* Longer patterns first, except that exact paths are only compared as strings.
routeLess(l, r) ==
  LET a == l.path
      b == r.path
  IN IF a.kind # b.kind THEN kindRank[a.kind] < kindRank[b.kind]
     ELSE IF a.kind # "exact" /\ Len(a.value) # Len(b.value) THEN Len(a.value) > Len(b.value)
     ELSE IF a.value # b.value THEN Before(b.value, a.value)
     ELSE IF a.segment # b.segment THEN a.segment
     ELSE compareRoutesByMethodHeaderQueryParams(l, r)

sortHeaders(hs) ==
  FoldLeft(LAMBDA done, h : InsertSorted(done, h, {i \in DOMAIN done : ~headerLess(h, done[i])}), <<>>, hs)

sortQuery(qs) ==
  FoldLeft(LAMBDA done, q : InsertSorted(done, q, {i \in DOMAIN done : ~queryLess(q, done[i])}), <<>>, qs)

\* The conditions of every route, then the routes.
sortRoutes(routes) ==
  FoldLeft(LAMBDA done, r : InsertSorted(done, r, {i \in DOMAIN done : ~routeLess(r, done[i])}), <<>>,
           [i \in DOMAIN routes |-> [routes[i] EXCEPT !.headers = sortHeaders(@),
                                                      !.query = sortQuery(@)]])
=============================================================================
