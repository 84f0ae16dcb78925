--------------------------------- MODULE MCHub ---------------------------------
(* Instances of Hub for TLC. *)
EXTENDS Hub, TLC

CONSTANTS p, q, c, d, s, t

(* Each consumer has a subscription of its own, or shares one. *)
Own == [x \in Consumers |-> (c :> s @@ d :> t)[x]]

Strategies == {"backpressure", "dropping", "sliding"}

(* Rings with each strategy; a single slot without sliding. *)
Sound == [capacity: {2}, strategy: Strategies]
         \cup [capacity: {1}, strategy: {"backpressure", "dropping"}]

(* Publishers are interchangeable, and so are subscriptions, each with its *)
(* consumer.                                                               *)
Symmetric ==
    {f \in Permutations(Clients \cup Subscriptions) :
        /\ \A x \in Publishers : f[x] \in Publishers
        /\ \A x \in Consumers : f[x] \in Consumers /\ f[Of[x]] = Of[f[x]]}
===============================================================================
