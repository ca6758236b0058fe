----------------------------- MODULE ControlLoop -----------------------------
(***************************************************************************)
(* What Contour promises as a control loop, whatever is between the API    *)
(* server and the xDS server: the DAG and the statuses are copies of the   *)
(* API server's objects that may lag, each at its own pace, but only move  *)
(* forward, and never get ahead of what they are copies of.                *)
(*                                                                         *)
(* The version of an object is the number of the change that made it,      *)
(* negated when that change deleted the object.                            *)
(***************************************************************************)
EXTENDS Integers

CONSTANT Kinds

VARIABLES api,      \* the version of each kind's object
          dag,      \* the versions the published DAG was built from
          status    \* the version each object's status was computed from

vars == <<api, dag, status>>

Age(v) == IF v < 0 THEN -v ELSE v

NotOlder(v, w) == v = w \/ Age(v) > Age(w)

Init ==
    /\ \A k \in Kinds : NotOlder(api[k], 0)
    /\ dag = [k \in Kinds |-> 0]
    /\ status = [k \in Kinds |-> 0]

Change ==
    /\ \A k \in Kinds : NotOlder(api'[k], api[k])
    /\ UNCHANGED <<dag, status>>

\* All kinds at once: a DAG is published as a whole.
Publish ==
    /\ \A k \in Kinds : NotOlder(dag'[k], dag[k]) /\ NotOlder(api[k], dag'[k])
    /\ UNCHANGED <<api, status>>

Report(k) ==
    /\ NotOlder(status'[k], status[k]) /\ NotOlder(dag[k], status'[k])
    /\ \A j \in Kinds \ {k} : status'[j] = status[j]
    /\ UNCHANGED <<api, dag>>

Next == Change \/ Publish \/ \E k \in Kinds : Report(k)

Spec == Init /\ [][Next]_vars
=============================================================================
