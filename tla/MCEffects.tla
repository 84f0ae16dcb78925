------------------------------ MODULE MCEffects ------------------------------
(* Programs of effects for TLC, with the laws of data and those of the     *)
(* combinators of Effects over small effects, run by a fiber that nobody   *)
(* interrupts.  "use" n in the log says that the effect of element n ran.  *)
EXTENDS Programs, DataLaws

AnyValue == Any

Outcome(effect) == effect[Start(0, TRUE)]
ExitFrom(effect) == Outcome(effect).exit
Used(effect) == LET log == Outcome(effect).world.log IN [i \in DOMAIN log |-> log[i][1][2]]
Agree(left, right) == ExitFrom(left) = ExitFrom(right) /\ Used(left) = Used(right)

(* Effects, in sequences: they are functions, which TLC does not sort. *)
Single == <<Succeed(1), Fail("e"), DieWith("d"), Interrupt>>
Several == <<FailCause(Sequential(FailWith("e"), Die("d"))),
             FailCause(Parallel(FailWith("e"), FailWith("f"))),
             FailCause(Parallel(Die("d"), InterruptedBy("other")))>>
Samples == Single \o Several
Eithers == <<Succeed(Left(1)), Succeed(Right(2)), DieWith("d"), Fail("e"), Interrupt>>

(* Pairs of combinators that undo each other do, for every effect that ends *)
(* with one reason: flip twice, unleft after left, unright after right; and *)
(* unsandbox after sandbox for every cause.                                *)
ASSUME InversesUndo ==
    /\ \A i \in DOMAIN Single : Agree(Flip(Flip(Single[i])), Single[i])
    /\ \A i \in DOMAIN Eithers :
          /\ Agree(Unleft(LeftOf(Eithers[i])), Eithers[i])
          /\ Agree(Unright(RightOf(Eithers[i])), Eithers[i])
    /\ \A i \in DOMAIN Samples : Agree(Unsandbox(Sandbox(Samples[i])), Samples[i])

(* The combinators on the error see one error: of a cause with several      *)
(* reasons the others are lost, defects among them (failureOrCause).        *)
ASSUME FirstErrorHidesTheRest ==
    /\ \A i \in {1, 2} :
          LET e == Several[i] IN
          /\ ExitFrom(Flip(Flip(e))) = Failure(FailWith("e"))
          /\ ExitFrom(OptionOf(e)) = Success(None)
          /\ ExitFrom(CatchAll(e, [x \in Values |-> Succeed(x)])) = Success("e")
    /\ LET both == FailCause(Parallel(FailWith("e"), FailWith("f"))) IN
       ExitFrom(ParallelErrors(both)) = Failure(FailWith(<<"e", "f">>))

(* orElse never hides a defect, and does recover from an interruption that *)
(* is only in the cause; orDie and orDieKeep leave no error.               *)
ASSUME DefectsStay ==
    \A i \in DOMAIN Samples : ~IsSuccess(ExitFrom(Samples[i])) =>
        LET e == Samples[i]
            cause == ExitFrom(e).cause
            other == ExitFrom(OrElse(e, Succeed(3)))
        IN /\ other = IF Defects(cause) = <<>> THEN Success(3)
                      ELSE Failure(KeepDefects(cause))
           /\ Failures(ExitFrom(OrDie(e)).cause) = <<>>
           /\ Defects(ExitFrom(OrDieKeep(e)).cause) # <<>> \/ Interruptors(cause) # {}

-----------------------------------------------------------------------------
(* Traversals: elements 1 to 3, some of which fail, some of which are good. *)

Lists == UNION {[1 .. n -> 1 .. 3] : n \in 0 .. 3}
Cases == {c \in [list : Lists, good : SUBSET (1 .. 3), bad : SUBSET (1 .. 3)] :
             c.good \cap c.bad = {}}
Visit(a) == Log(<<"use", a>>, a)
Ask(c) == [a \in Values |->
              ZipRight(Visit(a), IF a \in c.bad THEN Fail(a) ELSE Succeed(a \in c.good))]
Give(c) == [a \in Values |->
               ZipRight(Visit(a), IF a \in c.bad THEN Fail(a) ELSE Succeed(a))]
Select(c) == SelectSeq(c.list, LAMBDA a : a \in c.good)
(* The elements up to the first that is in stop. *)
Until(list, stop) == SelectInSeq(list, LAMBDA a : a \in stop)
Prefix(list, stop) ==
    LET i == Until(list, stop) IN IF i = 0 THEN list ELSE SubSeq(list, 1, i)
Fine(c) == ToSet(c.list) \cap c.bad = {}

(* exists, forAll, find and collectFirst run the effects of the elements in *)
(* order, stop at the first that decides or fails, and say what it says.    *)
ASSUME SearchesStop ==
    \A c \in Cases :
        LET stop == c.good \cup c.bad
            seen == Prefix(c.list, stop)
            hit == Until(c.list, stop) # 0 /\ Last(seen) \in c.good
            fails == Until(c.list, stop) # 0 /\ Last(seen) \in c.bad
            Says(effect, found, missing) ==
                /\ Used(effect) = seen
                /\ ExitFrom(effect) = IF fails THEN Failure(FailWith(Last(seen)))
                                      ELSE Success(IF hit THEN found ELSE missing)
            element == IF hit THEN Some(Last(seen)) ELSE None
            option == [a \in Values |-> Map(Ask(c)[a], [b \in Values |-> IF b THEN Some(a) ELSE None])]
        IN /\ Says(Exists(c.list, Ask(c)), TRUE, FALSE)
           /\ Says(ForAll(c.list, [a \in Values |-> Negate(Ask(c)[a])]), FALSE, TRUE)
           /\ Says(Find(c.list, Ask(c)), element, None)
           /\ Says(CollectFirst(c.list, option), element, None)

(* takeWhile, dropWhile and dropUntil split a list where their predicate    *)
(* turns, and ask it no further.  dropUntil drops the element that turns it *)
(* too.                                                                    *)
ASSUME SplitsWhereItTurns ==
    \A c \in Cases : Fine(c) =>
        LET turn == Until(c.list, (1 .. 3) \ c.good)
            first == Until(c.list, c.good)
            Kept(effect, list, asked) ==
                ExitFrom(effect) = Success(list) /\ Used(effect) = SubSeq(c.list, 1, asked)
            n == Len(c.list)
        IN /\ Kept(TakeWhile(c.list, Ask(c)),
                   IF turn = 0 THEN c.list ELSE SubSeq(c.list, 1, turn - 1),
                   IF turn = 0 THEN n ELSE turn)
           /\ Kept(DropWhile(c.list, Ask(c)),
                   IF turn = 0 THEN <<>> ELSE SubSeq(c.list, turn, n),
                   IF turn = 0 THEN n ELSE turn)
           /\ Kept(DropUntil(c.list, Ask(c)),
                   IF first = 0 THEN <<>> ELSE SubSeq(c.list, first + 1, n),
                   IF first = 0 THEN n ELSE first)

(* filter and collectAllWithEffect keep the order of the elements in their *)
(* result, but run the effects from the last element to the first.         *)
ASSUME FiltersFromTheEnd ==
    \A c \in Cases : Fine(c) =>
        /\ ExitFrom(Filter(c.list, Ask(c))) = Success(Select(c))
        /\ Used(Filter(c.list, Ask(c))) = Reverse(c.list)
        /\ LET pf == [a \in Values |-> IF a \in c.good THEN Some(Visit(a)) ELSE None]
               all == CollectAllWithEffect(c.list, pf)
           IN ExitFrom(all) = Success(Select(c)) /\ Used(all) = Reverse(Select(c))

(* forEach and the reduces stop at the first failure; partition and         *)
(* validateAll go on and keep every error; validateFirst stops at the first *)
(* success and gives every error when there is none.                       *)
ASSUME ErrorsAreCollected ==
    \A c \in Cases :
        LET bad == SelectSeq(c.list, LAMBDA a : a \in c.bad)
            fine == SelectSeq(c.list, LAMBDA a : a \notin c.bad)
            before == Prefix(c.list, c.bad)
            Adds(effect) ==
                /\ Used(effect) = before
                /\ ExitFrom(effect) = IF bad = <<>> THEN Success(FoldLeft(+, 0, c.list))
                                      ELSE Failure(FailWith(Head(bad)))
            plus == [z \in Values, a \in Values |-> z + a]
            first == Prefix(c.list, (1 .. 3) \ c.bad)
        IN /\ Used(ForEach(c.list, Give(c))) = before
           /\ Adds(MergeAll(c.list, Give(c), 0, plus))
           /\ Adds(Reduce(c.list, 0, [z \in Values, a \in Values |->
                              Map(Give(c)[a], [b \in Values |-> z + b])]))
           /\ ExitFrom(Partition(c.list, Give(c))) = Success(<<bad, fine>>)
           /\ Used(Partition(c.list, Give(c))) = c.list
           /\ ExitFrom(ValidateAll(c.list, Give(c)))
                = IF bad = <<>> THEN Success(c.list) ELSE Failure(FailWith(bad))
           /\ Used(ValidateFirst(c.list, Give(c))) = first
           /\ ExitFrom(ValidateFirst(c.list, Give(c)))
                = IF fine = <<>> THEN Failure(FailWith(c.list)) ELSE Success(Head(fine))
           /\ c.list # <<>> =>
                /\ Used(FirstSuccessOf(c.list, Give(c))) = first
                /\ ExitFrom(FirstSuccessOf(c.list, Give(c)))
                     = IF fine = <<>> THEN Failure(FailWith(Last(c.list)))
                       ELSE Success(Head(fine))

(* Against their documentation (Effect.ts:950-951, 2337-2338, 3010-3011):   *)
(* collectWhile keeps the elements at the end of the list, in place of     *)
(* those before the first that is not taken; mapAccum and reduceWhile give *)
(* their function no element, and reduceWhile goes through the whole list  *)
(* whatever its predicate says.                                            *)
ASSUME SequencesAreLost ==
    /\ \A c \in Cases : Fine(c) =>
          LET pf == [a \in Values |-> IF a \in c.good THEN Some(Visit(a)) ELSE None]
              others == {i \in DOMAIN c.list : c.list[i] \notin c.good}
              last == IF others = {} THEN 0 ELSE Max(others)
          IN ExitFrom(CollectWhile(c.list, pf)) = Success(SubSeq(c.list, last + 1, Len(c.list)))
    /\ \A list \in Lists :
          LET pair == [z \in Values, a \in Values |-> Succeed(<<z + 1, a>>)]
              count == [z \in Values, a \in Values |-> Succeed(z + 1)]
              never == [z \in Values |-> FALSE]
          IN /\ ExitFrom(MapAccum(list, 0, pair))
                  = Success(<<Len(list), [i \in DOMAIN list |-> Undefined]>>)
             /\ ExitFrom(ReduceWhile(list, 0, never, count)) = Success(Len(list))

-----------------------------------------------------------------------------
(* Exits: a combinator of exits is the combinator of effects on effects     *)
(* that have ended, save that mapError of an effect keeps one error of a   *)
(* cause and mapError of an exit keeps them all.                           *)

Exits_ == <<Success(1), Success(2), ExitFail("e"), ExitDie("d"), ExitInterrupt("other")>>
Compound == <<Failure(Sequential(FailWith("e"), Die("d"))),
              Failure(Parallel(FailWith("e"), FailWith("f")))>>
Prime_ == [e \in Values |-> <<"new", e>>]

ASSUME ExitsAreEnds ==
    /\ \A x \in ToSet(Exits_ \o Compound), y \in ToSet(Exits_) :
          /\ ExitFrom(FlatMap(Exited(x), [a \in Values |-> Exited(y)]))
                = ExitFlatMap(x, [a \in {1, 2} |-> y])
          /\ ExitFrom(Map(Exited(x), Prime_)) = ExitMap(x, Prime_)
          /\ ExitFrom(MatchCause(Exited(x), Prime_, Same)) = Success(ExitMatch(x, Prime_, Same))
          /\ ExitFrom(Validate(Exited(x), Exited(y))) = ExitZip(x, y)
    /\ \A x \in ToSet(Exits_) :
          ExitFrom(MapBoth(Exited(x), Prime_, Prime_)) = ExitMapBoth(x, Prime_, Prime_)
    /\ \A x \in ToSet(Compound) :
          /\ ExitFrom(MapError(Exited(x), Prime_)) = ExitFail(<<"new", "e">>)
          /\ Nodes(ExitMapError(x, Prime_).cause)[1].tag = Nodes(x.cause)[1].tag
          /\ Failures(ExitMapError(x, Prime_).cause)
                = [i \in DOMAIN Failures(x.cause) |-> <<"new", Failures(x.cause)[i]>>]

(* collectAll gives the values in the order of the exits, or a cause with  *)
(* the reasons of all that failed, in order, composed in the one way.      *)
ASSUME ExitsAreGathered ==
    /\ ExitCollectAll(<<>>) = None /\ ExitCollectAllPar(<<>>) = None
    /\ \A exits \in UNION {[1 .. n -> ToSet(Exits_)] : n \in 1 .. 4} :
          LET failed == SelectSeq(exits, LAMBDA x : ~IsSuccess(x))
              Gathers(all, way) ==
                  IF failed = <<>> THEN all = Some(Success([i \in DOMAIN exits |-> exits[i].value]))
                  ELSE /\ Leaves(all.value.cause) = [i \in DOMAIN failed |-> failed[i].cause]
                       /\ \A n \in ToSet(Nodes(all.value.cause)) : Branches(n) => n.tag = way
          IN Gathers(ExitCollectAll(exits), "Sequential") /\ Gathers(ExitCollectAllPar(exits), "Parallel")
==============================================================================
