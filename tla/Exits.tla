-------------------------------- MODULE Exits --------------------------------
(* How an effect ended (src/src/internal/core.ts): the value of a success  *)
(* or the cause of a failure, and what is made of exits.  The algebra of   *)
(* causes is a parameter, see Cause.                                       *)
EXTENDS Naturals, Sequences, SequencesExt

CONSTANTS FailWith(_), Die(_), InterruptedBy(_), Sequential(_, _), Parallel(_, _),
          Failures(_), IsInterrupted(_), FlatMapCause(_, _),
          Values  \* results, errors and causes

None == [tag |-> "None"]
Some(value) == [tag |-> "Some", value |-> value]

Success(value) == [tag |-> "Success", value |-> value]
Failure(cause) == [tag |-> "Failure", cause |-> cause]
IsSuccess(exit) == exit.tag = "Success"

ExitFail(error) == Failure(FailWith(error))
ExitDie(defect) == Failure(Die(defect))
ExitInterrupt(fiberId) == Failure(InterruptedBy(fiberId))
ExitFromEither(either) ==
    IF either.tag = "Left" THEN ExitFail(either.value) ELSE Success(either.value)
ExitFromOption(option) ==
    IF option.tag = "None" THEN ExitFail("unit") ELSE Success(option.value)

ExitIsInterrupted(exit) == ~IsSuccess(exit) /\ IsInterrupted(exit.cause)
ExitCauseOption(exit) == IF IsSuccess(exit) THEN None ELSE Some(exit.cause)
ExitExists(exit, predicate) == IsSuccess(exit) /\ predicate[exit.value]

-----------------------------------------------------------------------------
(* Exits from exits: f maps the value, g the errors, h the cause.          *)

ExitMatch(exit, h, f) == IF IsSuccess(exit) THEN f[exit.value] ELSE h[exit.cause]
ExitGetOrElse(exit, h) == IF IsSuccess(exit) THEN exit.value ELSE h[exit.cause]
ExitFlatMap(exit, f) == IF IsSuccess(exit) THEN f[exit.value] ELSE exit
ExitFlatten(exit) == IF IsSuccess(exit) THEN exit.value ELSE exit
ExitMap(exit, f) == IF IsSuccess(exit) THEN Success(f[exit.value]) ELSE exit
ExitAs(exit, value) == IF IsSuccess(exit) THEN Success(value) ELSE exit
ExitAsUnit(exit) == ExitAs(exit, "unit")
ExitMapErrorCause(exit, h) == IF IsSuccess(exit) THEN exit ELSE Failure(h[exit.cause])

MapCause(cause, g) == FlatMapCause(cause, [e \in ToSet(Failures(cause)) |-> FailWith(g[e])])
ExitMapError(exit, g) == IF IsSuccess(exit) THEN exit ELSE Failure(MapCause(exit.cause, g))
ExitMapBoth(exit, g, f) ==
    IF IsSuccess(exit) THEN Success(f[exit.value]) ELSE Failure(MapCause(exit.cause, g))

-----------------------------------------------------------------------------
(* Two exits and more: the first failure is kept, two are combined.        *)

ExitZipWith(self, that, f, combine) ==
    IF IsSuccess(self)
    THEN IF IsSuccess(that) THEN Success(f[self.value, that.value]) ELSE that
    ELSE IF IsSuccess(that) THEN self ELSE Failure(combine[self.cause, that.cause])

First == [a \in Values, b \in Values |-> a]
Second == [a \in Values, b \in Values |-> b]
PairOf == [a \in Values, b \in Values |-> <<a, b>>]
InSequence == [c \in Values, d \in Values |-> Sequential(c, d)]
AtOnce == [c \in Values, d \in Values |-> Parallel(c, d)]
ExitZip(self, that) == ExitZipWith(self, that, PairOf, InSequence)
ExitZipLeft(self, that) == ExitZipWith(self, that, First, InSequence)
ExitZipRight(self, that) == ExitZipWith(self, that, Second, InSequence)
ExitZipPar(self, that) == ExitZipWith(self, that, PairOf, AtOnce)
ExitZipParLeft(self, that) == ExitZipWith(self, that, First, AtOnce)
ExitZipParRight(self, that) == ExitZipWith(self, that, Second, AtOnce)

(* The values are gathered in front of each other and reversed at the end. *)
CollectExits(exits, combine) ==
    LET first == IF IsSuccess(exits[1]) THEN Success(<<exits[1].value>>) ELSE exits[1]
        add == [list \in Values, a \in Values |-> <<a>> \o list]
        Gather(all, exit) == ExitZipWith(all, exit, add, combine)
        gathered == FoldLeft(Gather, first, Tail(exits))
    IN  IF IsSuccess(gathered) THEN Success(Reverse(gathered.value)) ELSE gathered
ExitCollectAll(exits) ==
    IF exits = <<>> THEN None ELSE Some(CollectExits(exits, InSequence))
ExitCollectAllPar(exits) ==
    IF exits = <<>> THEN None ELSE Some(CollectExits(exits, AtOnce))

==============================================================================
