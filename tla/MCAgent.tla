------------------------------ MODULE MCAgent ------------------------------
(* Agent with one group: two alerts, of a service and of a node, and one   *)
(* between them that is passed over.                                       *)
EXTENDS Agent, TLC

CONSTANTS k1, k2, g1

Firing(node, service, key) == [firing |-> TRUE, node |-> node, service |-> service, key |-> key]

SomePayload ==
    g1 :> [firing |-> TRUE,
           alerts |-> <<Firing(FALSE, "orders", k1), [Firing(FALSE, "orders", k2) EXCEPT !.firing = FALSE],
                        Firing(TRUE, "node-1", k2)>>]
=============================================================================
