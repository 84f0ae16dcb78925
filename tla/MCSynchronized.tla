---------------------------- MODULE MCSynchronized ----------------------------
(* Instances of Synchronized and ScopedRef for TLC. *)
EXTENDS ScopedRef

CONSTANTS a, b, c, d

(* A Synchronized uses withPermits(1) only. *)
One == [x \in Clients |-> 1]

(* The outer scope closes once; a fiber sets a second time. *)
Often == [x \in Clients |-> IF x = a THEN 2 ELSE 1]
===============================================================================
