------------------------------ MODULE RouteTable ------------------------------
(***************************************************************************)
(* The routes of a virtual host as Envoy gets them.  The DAG keeps them in *)
(* a Go map; the route cache collects them in the order of the map, sorts  *)
(* them, and Envoy takes the first that matches a request                  *)
(* (xdscache/v3/route.go, sorter/sorter.go).                               *)
(***************************************************************************)
EXTENDS Sorter, FiniteSets

CONSTANTS Routes,      \* the routes a virtual host may have
          MaxRoutes,   \* bound on how many it has
          Strings,     \* the values a header or a parameter may have in a request
          Paths        \* the paths of requests

VARIABLES routes, table
tableVars == <<routes, table>>

\* No two routes of a virtual host have the same conditions: they are the key of the map.
Collected(rs) == {sortRoutes(order) : order \in SetToSeqs(rs)}

Init == routes = {} /\ table = <<>>

\* A rebuild of the DAG after the virtual host has got or lost a route.
Update(r) ==
  /\ routes' = (routes \cup {r}) \ (routes \cap {r})
  /\ Cardinality(routes') <= MaxRoutes
  /\ table' \in Collected(routes')

\* A rebuild of the DAG in which the virtual host has not changed.
Again ==
  /\ table' \in Collected(routes)
  /\ UNCHANGED routes

Next == Again \/ \E r \in Routes : Update(r)

Spec == Init /\ [][Next]_tableVars

-----------------------------------------------------------------------------
(* What the conditions mean to Envoy: a value of Missing is no value. *)

Missing == <<99>>

\* The character 3 is the upper case of 1.
Fold(s) == [i \in DOMAIN s |-> IF s[i] = 3 THEN 1 ELSE s[i]]

Within(pattern, type, s) ==
  CASE type = "exact"    -> s = pattern
    [] type = "prefix"   -> IsPrefix(pattern, s)
    [] type = "suffix"   -> IsSuffix(pattern, s)
    [] type = "contains" -> \E i \in 1..(Len(s) - Len(pattern) + 1) :
                              SubSeq(s, i, i + Len(pattern) - 1) = pattern
    [] type = "present"  -> TRUE

Holds(c, s) == IF c.ignoreCase THEN Within(Fold(c.value), c.type, Fold(s)) ELSE Within(c.value, c.type, s)

\* A request without the header matches only "not present", and an inverted condition that
\* takes a missing header for an empty one.
HeaderValues(c) ==
  LET matching == {s \in Strings : Holds(c, s)}
      inverted == Strings \ matching
  IN IF ~c.invert THEN matching
     ELSE IF c.type = "present" THEN {Missing}
     ELSE IF c.missingAsEmpty /\ <<>> \in inverted THEN inverted \cup {Missing}
     ELSE inverted

QueryValues(c) == {s \in Strings : Holds(c, s)}

Allowed(conds, name, Values(_)) ==
  {s \in Strings \cup {Missing} : \A i \in DOMAIN conds : conds[i].name = name => s \in Values(conds[i])}

Names(r) == {r.headers[i].name : i \in DOMAIN r.headers} \cup {r.query[i].name : i \in DOMAIN r.query}

\* A segment prefix ends where a segment does; its trailing slashes are trimmed.
Trimmed(s) == LET n == CHOOSE n \in 0..Len(s) : /\ n = 0 \/ s[n] # 0
                                                /\ \A i \in (n + 1)..Len(s) : s[i] = 0
              IN SubSeq(s, 1, n)

PathsOf(p) ==
  {s \in Paths : CASE p.kind = "exact" -> s = p.value
                   [] p.kind = "prefix" /\ ~p.segment -> IsPrefix(p.value, s)
                   [] p.segment -> LET t == Trimmed(p.value)
                                   IN s = t \/ IsPrefix(t \o <<0>>, s)}

\* Every request that a is a match for, b is a match for too: the path and every header and
\* parameter are chosen independently of each other.
Covered(a, b) ==
  /\ PathsOf(a.path) \subseteq PathsOf(b.path)
  /\ \A n \in Names(a) \cup Names(b) :
       /\ Allowed(a.headers, n, HeaderValues) \subseteq Allowed(b.headers, n, HeaderValues)
       /\ Allowed(a.query, n, QueryValues) \subseteq Allowed(b.query, n, QueryValues)

-----------------------------------------------------------------------------
(* Properties. *)

\* Conditions that are not ordered by what they match.  Substrings are compared as strings,
\* the shorter and wider one first; the negation of a value ranks with the value, so that
\* "not exact" comes before "contains" and "not present"; and the letter case that a header
\* condition ignores is not compared.  A segment prefix that ends with a slash matches the
\* path without it too, and still comes before the string prefix.  A route of the Gateway API that has more priority goes
\* before one with as many conditions.
Substrings == {"contains", "prefix", "suffix"}
Conditions(r) == {r.headers[i] : i \in DOMAIN r.headers} \cup {r.query[i] : i \in DOMAIN r.query}
HeadersOf(r) == {r.headers[i] : i \in DOMAIN r.headers}
NotByWidth(a, b) ==
  \/ a.priority < b.priority
  \/ a.path.segment /\ Trimmed(a.path.value) # a.path.value
  \/ \E c \in HeadersOf(a) : c.ignoreCase \/ (c.invert /\ c.type # "present")
  \/ \E c \in Conditions(a), d \in Conditions(b) :
       c.name = d.name /\ {c.type, d.type} \subseteq Substrings /\ c.value # d.value

\* Most specific first: no route stands behind one that takes all of its requests, unless
\* the two match the same requests or differ in conditions that are not ordered by width.
MostSpecificFirst ==
  \A i, j \in DOMAIN table :
    i < j /\ Covered(table[j], table[i]) =>
      Covered(table[i], table[j]) \/ NotByWidth(table[i], table[j])

\* Two routes with as many conditions on one path that the lists of conditions do not tell
\* apart: each list is less at some position, or the difference is in the method, in the
\* letter case or in what a missing header stands for.
Undecided(a, b) ==
  LET Others(h) == SelectSeq(h, LAMBDA c : c.name # method)
      Somewhere(x, y) == \/ \E i \in DOMAIN x.h \cap DOMAIN y.h : headerLess(x.h[i], y.h[i])
                         \/ \E i \in DOMAIN x.q \cap DOMAIN y.q : queryLess(x.q[i], y.q[i])
      l == [h |-> Others(a.headers), q |-> a.query]
      r == [h |-> Others(b.headers), q |-> b.query]
  IN /\ a # b /\ a.path = b.path /\ a.priority = b.priority
     /\ Len(a.headers) = Len(b.headers) /\ Len(l.h) = Len(r.h) /\ Len(l.q) = Len(r.q)
     /\ Somewhere(l, r) <=> Somewhere(r, l)

Kept(t, u) == SelectSeq(t, LAMBDA r : \E i \in DOMAIN u : u[i] = r)

\* A rebuild does not reorder the routes that a host keeps, whatever the order in which the
\* map yields them, unless the sort leaves two of them undecided.
KeepsOrder ==
  \/ Kept(table, table') = Kept(table', table)
  \/ \E i, j \in DOMAIN table : Undecided(table[i], table[j])
  \/ \E i, j \in DOMAIN table' : Undecided(table'[i], table'[j])
=============================================================================
