--------------------------- MODULE MatchConditions ---------------------------
(***************************************************************************)
(* The match conditions of an HTTPProxy (internal/dag/conditions.go): how  *)
(* the conditions of a chain of includes and of a route are merged into    *)
(* one match, which lists of conditions are refused, and the expansion of  *)
(* prefix matches that have a rewrite (expandPrefixMatches).               *)
(*                                                                         *)
(* A condition is [kind, value].  The value of a "prefix", "exact" or      *)
(* "regex" condition is a path, the sequence of its slashes and words      *)
(* (</ a / b> for /a/b); the value of a "header" or "query" condition is   *)
(* [name, op, value], with one op for each kind of comparison.  A          *)
(* condition with several of these fields set is not modelled.             *)
(***************************************************************************)
EXTENDS Naturals, Sequences, FiniteSets, Functions

\* The last item, the items of the sequences one after the other, the items at some positions.
Last(s) == s[Len(s)]

Concat(seqs) ==
    LET upTo[n \in 0..Len(seqs)] == IF n = 0 THEN <<>> ELSE upTo[n - 1] \o seqs[n]
    IN  upTo[Len(seqs)]

ItemsAt(s, I) ==
    [k \in 1..Cardinality(I) |-> s[CHOOSE i \in I : Cardinality({j \in I : j <= i}) = k]]

PathKinds == {"prefix", "exact", "regex"}
Slash == <<"/">>

\* One representative of the regular expressions that do not compile.
BadRegex == <<"/", "(">>

Values(conds, kind) ==
    LET chosen == SelectSeq(conds, LAMBDA c : c.kind = kind)
    IN  [i \in DOMAIN chosen |-> chosen[i].value]

\* Runs of slashes become one slash.
Collapse(path) ==
    ItemsAt(path, {i \in DOMAIN path : path[i] = "/" /\ i > 1 => path[i - 1] # "/"})

\* A broken form: the paths of the includes are forgotten.
mergePathMatchConditions_LeafOnly(conds) ==
    LET paths == SelectSeq(conds, LAMBDA c : c.kind \in PathKinds)
    IN  IF paths = <<>> THEN [kind |-> "prefix", path |-> Slash]
        ELSE [kind |-> Last(paths).kind, path |-> Collapse(Last(paths).value)]

\* The kind of the merged match is the kind of the last condition of the whole list, whatever
\* that condition is about.
mergePathMatchConditions(conds) ==
    LET paths == SelectSeq(conds, LAMBDA c : c.kind \in PathKinds)
        merged == Collapse(Concat([i \in DOMAIN paths |-> paths[i].value]))
    IN  IF merged = <<>> THEN [kind |-> "prefix", path |-> Slash]
        ELSE [kind |-> IF \E i \in DOMAIN paths : paths[i].kind = "regex" THEN "regex"
                       ELSE IF Last(conds).kind = "exact" THEN "exact" ELSE "prefix",
              path |-> merged]

mergeHeaderMatchConditions(conds) == Values(conds, "header")

mergeQueryParamMatchConditions(conds) == Values(conds, "query")

-----------------------------------------------------------------------------
(* Which lists of conditions are accepted. *)

pathMatchConditionsValid(conds) ==
    LET paths == {i \in DOMAIN conds : conds[i].kind \in PathKinds}
    IN  /\ \A i \in paths :
            /\ conds[i].value[1] = "/"
            /\ conds[i].kind = "regex" => conds[i].value # BadRegex
        /\ \A i, j \in paths : i = j

includeMatchConditionsValid(conds) == \A i \in DOMAIN conds : conds[i].kind \notin {"exact", "regex"}

Contradictions == {{"present", "notpresent"}, {"exact", "notexact"}, {"contains", "notcontains"}}

headerMatchConditionsValid(conds) ==
    LET headers == Values(conds, "header")
    IN  /\ \A i \in DOMAIN headers : headers[i].op = "regex" => headers[i].value # "bad"
        /\ \A i, j \in DOMAIN headers :
            i # j /\ headers[i].name = headers[j].name =>
                /\ ~(headers[i].op = "exact" /\ headers[j].op = "exact")
                /\ ~(/\ {headers[i].op, headers[j].op} \in Contradictions
                     /\ headers[i].value = headers[j].value)

\* The op "none" is a condition without any comparison, "several" one with more than one.
queryParameterMatchConditionsValid(conds) ==
    LET params == Values(conds, "query")
    IN  /\ \A i \in DOMAIN params :
            /\ params[i].op \notin {"none", "several"}
            /\ params[i].op = "regex" => params[i].value # "bad"
        /\ \A i, j \in DOMAIN params :
            i # j /\ params[i].name = params[j].name =>
                ~(params[i].op = "exact" /\ params[j].op = "exact")

\* The two sequences are equal once sorted.
SameItems(s, t) ==
    \A x \in Range(s) \union Range(t) :
        Cardinality({i \in DOMAIN s : s[i] = x}) = Cardinality({i \in DOMAIN t : t[i] = x})

\* Two includes with the same conditions, in any order.  The conditions that match every
\* request are never duplicates.
includeMatchConditionsIdentical(conds, seen) ==
    /\ \/ mergePathMatchConditions(conds).path # Slash
       \/ mergeHeaderMatchConditions(conds) # <<>>
       \/ mergeQueryParamMatchConditions(conds) # <<>>
    /\ mergePathMatchConditions(conds).path = mergePathMatchConditions(seen).path
    /\ SameItems(mergeHeaderMatchConditions(conds), mergeHeaderMatchConditions(seen))
    /\ SameItems(mergeQueryParamMatchConditions(conds), mergeQueryParamMatchConditions(seen))

-----------------------------------------------------------------------------
(* Routes with a prefix rewrite.  A route is a record with, among others, the
   fields match ([kind, path]), headers, query and rewrite (a path, or NoRewrite). *)

NoRewrite == <<>>

TrimRight(path) ==
    SubSeq(path, 1, CHOOSE n \in 0..Len(path) :
                        /\ \A i \in (n + 1)..Len(path) : path[i] = "/"
                        /\ n > 0 => path[n] # "/")

RoutingPrefix(route) == IF route.match.path = Slash THEN Slash ELSE TrimRight(route.match.path)

\* The routes are grouped by their prefix without its trailing slash, and only a route that
\* is alone in its group is expanded.  The groups are visited in the order of a Go map: two
\* groups have no match in common, so the order is not observable in the virtual host.
expandPrefixMatches(routes) ==
    LET Group(i) == {j \in DOMAIN routes : /\ routes[j].match.kind = "prefix"
                                           /\ RoutingPrefix(routes[j]) = RoutingPrefix(routes[i])}
        Expands(i) == /\ routes[i].match.kind = "prefix"
                      /\ Group(i) = {i}
                      /\ routes[i].rewrite # NoRewrite
                      /\ routes[i].match.path # Slash
        Rewrite(i) == TrimRight(routes[i].rewrite)
        WithoutSlash(i) ==
            [routes[i] EXCEPT !.match.path = RoutingPrefix(routes[i]),
                              !.rewrite = IF Rewrite(i) = <<>> THEN Slash ELSE Rewrite(i)]
        WithSlash(i) ==
            [routes[i] EXCEPT !.match.path = RoutingPrefix(routes[i]) \o Slash,
                              !.rewrite = Rewrite(i) \o Slash]
    IN  [i \in DOMAIN routes |-> IF Expands(i) THEN WithoutSlash(i) ELSE routes[i]] \o
        ItemsAt([i \in DOMAIN routes |-> WithSlash(i)], {i \in DOMAIN routes : Expands(i)})
=============================================================================
