---------------------------- MODULE MCPolicyCycle ----------------------------
(* An instance of PolicyCycle for TLC: a breaker.                           *)
EXTENDS PolicyCycle

MCBreaker == [kind |-> "circuit-breaker", maxContiguousRetries |-> 3,
              start |-> 1, factor |-> 2, openTime |-> 2]
=============================================================================
