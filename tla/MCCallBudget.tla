---------------------------- MODULE MCCallBudget ----------------------------
(* CallBudget on small instances.                                          *)
EXTENDS CallBudget

(* No limit, and one or two calls an hour.                                 *)
SomeLimits == {0, 1, 2}

=============================================================================
