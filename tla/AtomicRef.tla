------------------------------- MODULE AtomicRef -------------------------------
(***************************************************************************)
(* What a Synchronized ref promises: updates of its value take effect one  *)
(* after the other.  An update by c is the function that appends c, so the *)
(* value is the sequence of the updates that took effect and none can be   *)
(* lost unnoticed.                                                         *)
(***************************************************************************)
EXTENDS Sequences

CONSTANT Clients

VARIABLE value

Init == value = <<>>

Update(c) == value' = Append(value, c)

Next == \E c \in Clients : Update(c)

Spec == Init /\ [][Next]_value
===============================================================================
