---------------------------- MODULE MCProcessor ----------------------------
(* Processor on small instances.                                           *)
EXTENDS Processor

NoLimitOrSome == {0, 1, 2}

CONSTANTS known, other, reworded, matched, k, l, m, n

(* An alert of a known kind, one that comes back with another description, *)
(* then starts anew, and one that exactPattern matches.  Every incident    *)
(* the agent makes has a StartedAt (http.go:110, discovery.go:66).         *)
SomeIncidents ==
    {[pattern |-> known, key |-> k, exact |-> FALSE], [pattern |-> matched, key |-> n, exact |-> TRUE],
     [pattern |-> other, key |-> l, exact |-> FALSE], [pattern |-> reworded, key |-> l, exact |-> FALSE],
     [pattern |-> other, key |-> m, exact |-> FALSE]}
=============================================================================
