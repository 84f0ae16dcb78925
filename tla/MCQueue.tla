-------------------------------- MODULE MCQueue --------------------------------
(* Instances of Queue for TLC. *)
EXTENDS Queue, TLC

CONSTANTS p1, p2, c1, c2

TwoProducers == {p1, p2}
TwoConsumers == {c1, c2}
AllStrategies == {"backpressure", "dropping", "sliding"}

(* One producer offers two elements, the other one. *)
Offers == [p \in Producers |-> IF p = p1 THEN 2 ELSE 1]
===============================================================================
