-------------------------------- MODULE Cause --------------------------------
(* The algebra of causes of src/src/internal/cause.ts.  reduceWithContext  *)
(* and reduce walk the tree with stacks of their own; the operators state  *)
(* the recursion these walks compute.                                      *)
EXTENDS CauseTree, Naturals, Sequences, SequencesExt

Branches(c) == c.tag \in {"Sequential", "Parallel"}
Both(c, left, right) == [c EXCEPT !.left = left, !.right = right]

-----------------------------------------------------------------------------
(* Walks: reduce and find visit a node, then its left, then its right.     *)

RECURSIVE Nodes(_)
Nodes(c) ==
    <<c>> \o IF Branches(c) THEN Nodes(c.left) \o Nodes(c.right)
             ELSE IF c.tag = "Annotated" THEN Nodes(c.cause) ELSE <<>>

Leaves(c) == SelectSeq(Nodes(c), LAMBDA n : ~Branches(n) /\ n.tag # "Annotated")
Tagged(c, tag) == SelectSeq(Nodes(c), LAMBDA n : n.tag = tag)

Failures(c) == [i \in DOMAIN Tagged(c, "Fail") |-> Tagged(c, "Fail")[i].value]
Defects(c) == [i \in DOMAIN Tagged(c, "Die") |-> Tagged(c, "Die")[i].value]
Interruptors(c) == {n.value : n \in ToSet(Tagged(c, "Interrupt"))}

HasFailure(c) == Failures(c) # <<>>
IsDie(c) == Defects(c) # <<>>
IsInterrupted(c) == Tagged(c, "Interrupt") # <<>>

CauseSize(c) == Len(SelectSeq(Leaves(c), LAMBDA n : n.tag # "Empty"))
IsEmpty(c) == \A n \in ToSet(Leaves(c)) : n.tag = "Empty"
IsInterruptedOnly(c) == \A n \in ToSet(Leaves(c)) : n.tag \in {"Empty", "Interrupt"}

(* The first error, or the first defect, or the interruption. *)
Squash(c) ==
    IF HasFailure(c) THEN Head(Failures(c))
    ELSE IF IsDie(c) THEN Head(Defects(c)) ELSE "InterruptedException"

-----------------------------------------------------------------------------
(* Causes from causes.                                                     *)

RECURSIVE StripFailures(_)
StripFailures(c) ==
    CASE c.tag = "Fail" -> Empty
      [] Branches(c) -> Both(c, StripFailures(c.left), StripFailures(c.right))
      [] c.tag = "Annotated" ->
            LET inner == StripFailures(c.cause) IN
            IF inner = Empty THEN Empty ELSE [c EXCEPT !.cause = inner]
      [] OTHER -> c

Nothing == [tag |-> "None"]

(* The match of keepDefects, stripSomeDefects and flipCauseOption: leaves  *)
(* that do not stay give None, and a branch with one side keeps that side. *)
RECURSIVE Prune(_, _)
Prune(c, stays) ==
    IF Branches(c) THEN
        LET left == Prune(c.left, stays)
            right == Prune(c.right, stays)
        IN  IF left = Nothing THEN right
            ELSE IF right = Nothing THEN left ELSE Both(c, left, right)
    ELSE IF c.tag = "Annotated" THEN
        LET inner == Prune(c.cause, stays) IN
        IF inner = Nothing THEN Nothing ELSE [c EXCEPT !.cause = inner]
    ELSE IF c \in stays THEN c ELSE Nothing

KeepDefects(c) == Prune(c, {n \in ToSet(Leaves(c)) : n.tag = "Die"})
StripSomeDefects(c, matched) ==
    Prune(c, {n \in ToSet(Leaves(c)) : ~(n.tag = "Die" /\ n.value \in matched)})

(* filter asks its predicate about the two sides of a branch only: here,   *)
(* whether a side is nonempty.                                             *)
RECURSIVE FilterNonEmpty(_)
FilterNonEmpty(c) ==
    IF Branches(c) THEN
        LET left == FilterNonEmpty(c.left)
            right == FilterNonEmpty(c.right)
        IN  IF IsEmpty(left) THEN IF IsEmpty(right) THEN Empty ELSE right
            ELSE IF IsEmpty(right) THEN left ELSE Both(c, left, right)
    ELSE IF c.tag = "Annotated" THEN [c EXCEPT !.cause = FilterNonEmpty(c.cause)]
    ELSE c

(* flatMap with the function [error -> cause] f. *)
RECURSIVE FlatMapCause(_, _)
FlatMapCause(c, f) ==
    CASE c.tag = "Fail" -> f[c.value]
      [] Branches(c) -> Both(c, FlatMapCause(c.left, f), FlatMapCause(c.right, f))
      [] c.tag = "Annotated" -> [c EXCEPT !.cause = FlatMapCause(c.cause, f)]
      [] OTHER -> c

FlattenedCause(c) == FlatMapCause(c, [inner \in ToSet(Failures(c)) |-> inner])

(* The linear causes of a cause: one leaf of each side of every branch. *)
RECURSIVE Linearize(_)
Linearize(c) ==
    CASE c.tag = "Empty" -> {}
      [] Branches(c) ->
            {Both(c, p[1], p[2]) : p \in Linearize(c.left) \X Linearize(c.right)}
      [] c.tag = "Annotated" -> {[c EXCEPT !.cause = inner] : inner \in Linearize(c.cause)}
      [] OTHER -> {c}

-----------------------------------------------------------------------------
(* Equality and hash.                                                      *)

(* One step: what fails in parallel first, and the causes that come after. *)
RECURSIVE EvaluateCause(_, _, _, _)
EvaluateCause(c, stack, par, seq) ==
    CASE c.tag = "Parallel" -> EvaluateCause(c.left, <<c.right>> \o stack, par, seq)
      [] c.tag = "Annotated" -> EvaluateCause(c.cause, stack, par, seq)
      [] c.tag = "Sequential" ->
            LET left == c.left
            IN  CASE left.tag = "Empty" -> EvaluateCause(c.right, stack, par, seq)
                  [] left.tag = "Sequential" ->
                        EvaluateCause(Sequential(left.left, Sequential(left.right, c.right)),
                                      stack, par, seq)
                  [] left.tag = "Parallel" ->
                        EvaluateCause(Parallel(Sequential(left.left, c.right),
                                               Sequential(left.right, c.right)),
                                      stack, par, seq)
                  [] left.tag = "Annotated" ->
                        EvaluateCause(Sequential(left.cause, c.right), stack, par, seq)
                  [] OTHER -> EvaluateCause(left, stack, par, <<c.right>> \o seq)
      [] OTHER ->
            LET found == IF c.tag = "Empty" THEN par ELSE par \cup {c.value} IN
            IF stack = <<>> THEN [par |-> found, seq |-> seq]
            ELSE EvaluateCause(Head(stack), Tail(stack), found, seq)

EvaluateEach(causes) ==
    LET steps == [i \in DOMAIN causes |-> EvaluateCause(causes[i], <<>>, {}, <<>>)]
    IN  [par |-> UNION {steps[i].par : i \in DOMAIN steps},
         seq |-> FlattenSeq([i \in DOMAIN steps |-> steps[i].seq])]

RECURSIVE FlattenLoop(_)
FlattenLoop(causes) ==
    LET step == EvaluateEach(causes) IN
    (IF step.par = {} THEN <<>> ELSE <<step.par>>)
        \o IF step.seq = <<>> THEN <<>> ELSE FlattenLoop(step.seq)

(* flattenCause, which the hash of a cause is computed from. *)
FlattenCause(c) == FlattenLoop(<<c>>)

(* causeEquals: evaluates every node of the head of each stack, not the    *)
(* causes of the stack, and stops when either stack is empty.              *)
RECURSIVE EqualsLoop(_, _)
EqualsLoop(lefts, rights) ==
    \/ lefts = <<>> \/ rights = <<>>
    \/ LET l == EvaluateEach(Nodes(Head(lefts)))
           r == EvaluateEach(Nodes(Head(rights)))
       IN  l.par = r.par /\ EqualsLoop(l.seq, r.seq)

CauseEquals(left, right) == EqualsLoop(<<left>>, <<right>>)

ContainsCause(self, that) ==
    that = Empty \/ self = that \/ \E n \in ToSet(Nodes(self)) : CauseEquals(n, that)

==============================================================================
