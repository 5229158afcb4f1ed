------------------------------ MODULE MCPerform ------------------------------
(* Two providers in the failover priority, the best behind a breaker, and  *)
(* up to three performs of one object of one use case.                     *)
EXTENDS Perform, TLC

CONSTANTS a, b, p1, p2, p3, o1, u1

MCProviders == {a, b}
MCPriority  == <<a, b>>
MCConfig(kind) == [kind |-> kind, maxContiguousRetries |-> 2,
                   start |-> 1, factor |-> 2, openTime |-> 1]
MCConfigs   == (a :> MCConfig("circuit-breaker")) @@ (b :> MCConfig("none"))

OneObject   == [p \in {p1, p2, p3} \cap Performs |-> o1]
OneUseCase  == (o1 :> u1)

(* The performs of one object are interchangeable.                         *)
Interchangeable == Permutations(Performs)
=============================================================================
