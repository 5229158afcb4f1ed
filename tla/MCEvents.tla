------------------------------ MODULE MCEvents ------------------------------
(* Events with small sets: two contexts, and filters that let one or both  *)
(* by.                                                                     *)
EXTENDS Events

CONSTANTS l1, l2, l3   \* the callbacks

MCFilters == {Contexts, {CHOOSE x \in Contexts : TRUE}}
MCCallbacks == <<l1, l2, l3>>
=============================================================================
