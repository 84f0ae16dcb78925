---------------------------- MODULE MCCombinators ----------------------------
(* Instances of Combinators for TLC: three effects for the combinators of  *)
(* any number, two for the binary ones and for the workers of forEachParN; *)
(* and the laws of the algebra of the causes they build, over every cause  *)
(* of at most two branches (three leaves) with an annotation or without.   *)
EXTENDS Combinators, Cause

AllCombinators == Parallels \cup Races
Sizes == [c \in AllCombinators |-> IF c \in {"forEachPar", "raceAll"} THEN 3 ELSE 2]

-----------------------------------------------------------------------------
(* Laws of causes.                                                         *)

Atoms == {Empty, FailWith("e"), FailWith("f"), Die("d"), InterruptedBy("i")}
Pairs(lefts, rights) ==
    {Parallel(l, r) : l \in lefts, r \in rights}
        \cup {Sequential(l, r) : l \in lefts, r \in rights}
Small == Atoms \cup {Annotated(a, "note") : a \in Atoms} \cup Pairs(Atoms, Atoms)
Causes == Small \cup Pairs(Small, Atoms) \cup Pairs(Atoms, Small)

(* keepDefects gives a cause exactly if there is a defect, of the same     *)
(* defects and nothing else (test "isDie and keepDefects are consistent"). *)
ASSUME KeepsDefects ==
    \A c \in Causes :
        LET kept == KeepDefects(c) IN
        /\ IsDie(c) <=> kept # Nothing
        /\ IsDie(c) => /\ Defects(kept) = Defects(c)
                       /\ \A n \in ToSet(Leaves(kept)) : n.tag = "Die"

(* stripFailures takes the errors away, and only them. *)
ASSUME StripsFailures ==
    \A c \in Causes :
        LET stripped == StripFailures(c) IN
        /\ ~HasFailure(stripped)
        /\ Defects(stripped) = Defects(c)
        /\ Interruptors(stripped) = Interruptors(c)

(* Dropping empty sides leaves the same leaves in the same order. *)
ASSUME FilterKeepsLeaves ==
    \A c \in Causes :
        SelectSeq(Leaves(FilterNonEmpty(c)), LAMBDA n : n.tag # "Empty")
            = SelectSeq(Leaves(c), LAMBDA n : n.tag # "Empty")

(* It may change what the hash sees: what follows an empty side of a       *)
(* parallel cause counts as failing together with the other side.          *)
ASSUME EmptyRunsAhead ==
    LET c == Sequential(Parallel(FailWith("e"), Empty), FailWith("f")) IN
    /\ FlattenCause(c) = <<{"e", "f"}, {"f"}>>
    /\ FlattenCause(FilterNonEmpty(c)) = <<{"e"}, {"f"}>>

(* The monad laws of flatMap (tests "left identity" and "associativity"). *)
ASSUME FlatMapLaws ==
    LET f == [e \in {"e", "f"} |-> Parallel(FailWith("f"), Die(e))]
        g == [e \in {"e", "f"} |-> Sequential(FailWith(e), InterruptedBy("j"))]
        pure == [e \in {"e", "f"} |-> FailWith(e)]
        fg == [e \in {"e", "f"} |-> FlatMapCause(f[e], g)]
    IN  \A c \in Causes :
            FlatMapCause(c, pure) = c /\ FlatMapCause(FlatMapCause(c, f), g) = FlatMapCause(c, fg)

(* Equality and hash do not see associativity, distribution over parallel, *)
(* the order in parallel, empty sides and annotations (equalCauses of      *)
(* src/test/utils/cause.ts).                                               *)
ASSUME FlattenLaws ==
    \A a, b, c \in Atoms :
        LET same == {<<Sequential(Sequential(a, b), c), Sequential(a, Sequential(b, c))>>,
                     <<Parallel(Parallel(a, b), c), Parallel(a, Parallel(b, c))>>,
                     <<Sequential(Parallel(a, b), c),
                       Parallel(Sequential(a, c), Sequential(b, c))>>,
                     <<Parallel(a, b), Parallel(b, a)>>,
                     <<a, Sequential(a, Empty)>>, <<a, Parallel(a, Empty)>>,
                     <<a, Annotated(a, "note")>>}
        IN  \A p \in same : FlattenCause(p[1]) = FlattenCause(p[2])

(* Equality is symmetric (test "Cause.equals is symmetric"), and causes of *)
(* different hash may be equal: those that fail one after the other and    *)
(* those that fail in parallel.  src/test/Cause.ts:25 compares equal       *)
(* causes of one leaf only.                                                *)
ASSUME EqualityIsSymmetric ==
    \A c, d \in Small : CauseEquals(c, d) <=> CauseEquals(d, c)

ASSUME EqualityConfusesOrder ==
    LET together == Parallel(FailWith("e"), FailWith("f"))
        ordered == Sequential(FailWith("e"), FailWith("f"))
        reversed == Sequential(FailWith("f"), FailWith("e"))
    IN  /\ CauseEquals(ordered, together) /\ CauseEquals(together, reversed)
        /\ ~CauseEquals(ordered, reversed)
        /\ FlattenCause(ordered) # FlattenCause(together)

ASSUME EqualAtoms == \A a, b \in Atoms : CauseEquals(a, b) <=> FlattenCause(a) = FlattenCause(b)

==============================================================================
