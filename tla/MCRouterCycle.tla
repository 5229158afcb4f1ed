---------------------------- MODULE MCRouterCycle ----------------------------
(* A use case with four providers in its failover priority (a breaker, no  *)
(* policy, a simple retry policy, no policy) and one outside of it: from   *)
(* the last a restore may ask both the breaker and the retry policy.       *)
EXTENDS RouterCycle, TLC

CONSTANTS a, b, c, d, e

MCProviders == {a, b, c, d, e}
MCPriority  == <<a, b, c, d>>
Breaker(openTime) == [kind |-> "circuit-breaker", maxContiguousRetries |-> 2,
                      start |-> 1, factor |-> 2, openTime |-> openTime]
Simple            == [kind |-> "simple", maxContiguousRetries |-> 1,
                      start |-> 0, factor |-> 1, openTime |-> 0]
NoPolicy          == [kind |-> "none", maxContiguousRetries |-> 0,
                      start |-> 0, factor |-> 1, openTime |-> 0]

MCConfigs == (a :> Breaker(2)) @@ (b :> NoPolicy) @@ (c :> Simple)
               @@ (d :> NoPolicy) @@ (e :> NoPolicy)
=============================================================================
