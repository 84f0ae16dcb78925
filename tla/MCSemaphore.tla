------------------------------ MODULE MCSemaphore ------------------------------
(* Instances of Semaphore for TLC. *)
EXTENDS Semaphore, TLC

CONSTANTS a, b, c, d

(* One client asks for all the permits, two for one each, one for two. *)
Mixed == [x \in Clients |-> (a :> 3 @@ b :> 1 @@ c :> 1 @@ d :> 2)[x]]

(* Two clients come twice, the others once. *)
RoundsOf == [x \in Clients |-> IF x \in {a, b} THEN 2 ELSE 1]
===============================================================================
