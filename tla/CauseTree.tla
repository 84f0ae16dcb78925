------------------------------ MODULE CauseTree ------------------------------
(* Why an effect failed (src/src/internal/cause.ts): a tree whose leaves   *)
(* are errors, defects and interruptions.  What an annotation holds (stack *)
(* traces, spans) is a value nobody looks at.                              *)

Empty == [tag |-> "Empty"]
FailWith(error) == [tag |-> "Fail", value |-> error]
Die(defect) == [tag |-> "Die", value |-> defect]
InterruptedBy(fiberId) == [tag |-> "Interrupt", value |-> fiberId]
Annotated(cause, note) == [tag |-> "Annotated", cause |-> cause, note |-> note]
Sequential(left, right) == [tag |-> "Sequential", left |-> left, right |-> right]
Parallel(left, right) == [tag |-> "Parallel", left |-> left, right |-> right]

=============================================================================
