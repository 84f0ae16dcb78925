------------------------------- MODULE Parallels -------------------------------
(* What the parallel combinators of src/src/internal/fiberRuntime.ts and   *)
(* effect/circular.ts give when nobody interrupts who runs them.  An effect *)
(* is the exit it has when it is left alone; a combinator gives a set of   *)
(* exits, since which fibers a failure stops depends on how they are       *)
(* scheduled.  Module Combinators models the fibers themselves.            *)
EXTENDS Exits, FiniteSets

CONSTANTS StripFailures(_), Unbounded

Unit == "unit"

(* matchEffect: of a failure with errors the first one is handled. *)
MatchEffect(exit, onFailure, onSuccess) ==
    IF IsSuccess(exit) THEN onSuccess[exit.value]
    ELSE IF Failures(exit.cause) = <<>> THEN exit
    ELSE onFailure[Head(Failures(exit.cause))]
EitherOf(exit) ==
    MatchEffect(exit, [e \in Values |-> Success([tag |-> "Left", value |-> e])],
                [a \in Values |-> Success([tag |-> "Right", value |-> a])])
Flip(exit) ==
    MatchEffect(exit, [e \in Values |-> Success(e)], [a \in Values |-> ExitFail(a)])
Same == [a \in Values |-> a]

-----------------------------------------------------------------------------
(* forEachPar. *)

Interrupted == ExitInterrupt("parent")

(* How a fiber may end that somebody interrupts: in time, too late, or     *)
(* with its failure at hand.                                               *)
Stopped(exit) ==
    {exit, Interrupted}
        \cup (IF IsSuccess(exit) THEN {}
              ELSE {Failure(Sequential(exit.cause, Interrupted.cause))})

Fails(exits) == {i \in DOMAIN exits : ~IsSuccess(exits[i])}

(* How the fibers end: the first one to fail has the others interrupted.   *)
FiberExits(exits) ==
    IF Fails(exits) = {} THEN {exits}
    ELSE {ends \in [DOMAIN exits -> UNION {Stopped(exits[i]) : i \in DOMAIN exits}] :
             /\ \A i \in DOMAIN exits : ends[i] \in Stopped(exits[i])
             /\ \E i \in Fails(exits) : ends[i] = exits[i]}

(* The failure of the deferred, Unit, is no error of the effects. *)
Gathered(ends) ==
    LET all == CollectExits(ends, AtOnce) IN
    IF IsSuccess(all) THEN Success(Unit)
    ELSE Failure(Parallel(StripFailures(FailWith(Unit)), all.cause))

ForEachParUnboundedDiscard(exits) ==
    IF exits = <<>> THEN {Success(Unit)}
    ELSE IF Len(exits) = 1 THEN {ExitAsUnit(exits[1])}
    ELSE {Gathered(ends) : ends \in FiberExits(exits)}

(* What n workers may end with that share the elements: one that fails     *)
(* takes no more of them, and one that ends knows them all to be taken.    *)
WorkerExits(n, exits) ==
    LET Taken(i) == {j \in Fails(exits) : j <= i}
        Takes == {takes \in [1 .. n -> Fails(exits) \cup {0}] :
                     /\ \A w, x \in 1 .. n : takes[w] = takes[x] => w = x \/ takes[w] = 0
                     /\ \A w \in 1 .. n : Cardinality(Taken(takes[w])) <= n
                     /\ \E w \in 1 .. n : takes[w] # 0}
        Ends(takes, w) ==
            IF takes[w] # 0 THEN Stopped(exits[takes[w]]) \ {Interrupted}
            ELSE {Interrupted} \cup (IF Cardinality(Fails(exits)) < n THEN {Success(Unit)} ELSE {})
    IN  IF Fails(exits) = {} THEN {[w \in 1 .. n |-> Success(Unit)]}
        ELSE UNION {{ends \in [1 .. n -> UNION {Ends(takes, w) : w \in 1 .. n}] :
                        /\ \A w \in 1 .. n : ends[w] \in Ends(takes, w)
                        /\ \E w \in 1 .. n : takes[w] # 0 /\ ends[w] = exits[takes[w]]} :
                      takes \in Takes}

(* One worker goes through the elements itself. *)
ForEachParNDiscard(n, exits) ==
    IF n = 1
    THEN {IF Fails(exits) = {} THEN Success(Unit)
          ELSE exits[CHOOSE i \in Fails(exits) : \A j \in Fails(exits) : i <= j]}
    ELSE {Gathered(ends) : ends \in WorkerExits(n, exits)}

(* n is the value of the ref currentParallelism, positive or Unbounded. *)
ForEachParDiscard(n, elements, f) ==
    LET exits == [i \in DOMAIN elements |-> f[elements[i]]] IN
    IF n = Unbounded THEN ForEachParUnboundedDiscard(exits) ELSE ForEachParNDiscard(n, exits)

(* The results are in an array by their index. *)
ForEachParWithIndex(n, elements, f) ==
    LET indexed == [i \in DOMAIN elements |-> <<elements[i], i - 1>>]
        array == [i \in DOMAIN elements |-> f[indexed[i]]]
    IN  {IF IsSuccess(exit) THEN Success([i \in DOMAIN array |-> array[i].value]) ELSE exit :
            exit \in ForEachParDiscard(n, indexed, f)}
ForEachPar(n, elements, f) ==
    ForEachParWithIndex(n, elements, [a \in Values, i \in Nat |-> f[a]])

(* strategy is sequential, parallel, or a number of fibers. *)
ForEachExec(strategy, elements, f) ==
    LET exits == [i \in DOMAIN elements |-> f[elements[i]]]
        values == [i \in DOMAIN elements |-> exits[i].value]
    IN  IF strategy = "sequential"
        THEN {ExitMap(exit, [u \in {Unit} |-> values]) : exit \in ForEachParNDiscard(1, exits)}
        ELSE ForEachPar(IF strategy = "parallel" THEN Unbounded ELSE strategy, elements, f)

-----------------------------------------------------------------------------
(* Combinators built from forEachPar.                                      *)

Mapped(results, f) ==
    {IF IsSuccess(exit) THEN Success(f[exit.value]) ELSE exit : exit \in results}
OptionOf(a, keep) == IF keep THEN Some(a) ELSE None
(* Chunk.compact *)
Compact ==
    [options \in Values |->
        LET found == SelectSeq(options, LAMBDA o : o # None) IN
        [i \in DOMAIN found |-> found[i].value]]

CollectAllPar(n, exits) == ForEachPar(n, exits, Same)
CollectAllParDiscard(n, exits) == ForEachParDiscard(n, exits, Same)
CollectAllWithPar(n, exits, pf) ==
    Mapped(CollectAllPar(n, exits),
           [list \in Values |-> Compact[[i \in DOMAIN list |-> pf[list[i]]]]])
CollectAllSuccessesPar(n, exits) ==
    CollectAllWithPar(n, [i \in DOMAIN exits |-> Success(exits[i])],
                      [exit \in Values |-> IF IsSuccess(exit) THEN Some(exit.value) ELSE None])
(* An error is none, for an element that is left out, or some. *)
Unsome(exit) ==
    MatchEffect(exit, [o \in Values |-> IF o = None THEN Success(None) ELSE ExitFail(o.value)],
                [a \in Values |-> Success(Some(a))])
CollectPar(n, elements, f) ==
    Mapped(ForEachPar(n, elements, [a \in Values |-> Unsome(f[a])]), Compact)

FilterPar(n, elements, f) ==
    LET kept == [a \in Values |-> ExitMap(f[a], [b \in BOOLEAN |-> OptionOf(a, b)])] IN
    Mapped(ForEachPar(n, elements, kept), Compact)
FilterNotPar(n, elements, f) ==
    FilterPar(n, elements, [a \in Values |-> ExitMap(f[a], [b \in BOOLEAN |-> ~b])])

(* An element that is found fails, to stop the others. *)
Found == "existsPar/found"
ExistsPar(n, elements, f) ==
    LET search == [a \in Values |->
                      ExitFlatMap(f[a], TRUE :> ExitFail(Found) @@ FALSE :> Success(Unit))]
    IN  {MatchEffect(exit, [e \in Values |-> IF e = Found THEN Success(TRUE) ELSE ExitFail(e)],
                     [list \in Values |-> Success(FALSE)]) :
            exit \in ForEachPar(n, elements, search)}

(* The values are folded in the order in which the effects end. *)
MergeAllPar(n, exits, zero, f) ==
    UNION {IF ~IsSuccess(exit) THEN {exit}
           ELSE {Success(FoldLeft(LAMBDA acc, i : f[acc, exits[i].value], zero, order)) :
                    order \in SetToSeqs(DOMAIN exits)} :
             exit \in ForEachParDiscard(n, exits, Same)}
(* zero is one of the effects that run. *)
ReduceAllPar(n, exits, zero, f) ==
    Mapped(MergeAllPar(n, <<zero>> \o exits, None,
                       [acc \in Values, a \in Values |->
                           Some(IF acc = None THEN a ELSE f[acc.value, a])]),
           [option \in Values |-> option.value])

Lefts(eithers) == SelectSeq(eithers, LAMBDA e : e.tag = "Left")
Rights(eithers) == SelectSeq(eithers, LAMBDA e : e.tag = "Right")
ValuesIn(list) == [i \in DOMAIN list |-> list[i].value]
PartitionPar(n, elements, f) ==
    Mapped(ForEachPar(n, elements, [a \in Values |-> EitherOf(f[a])]),
           [list \in Values |-> <<ValuesIn(Lefts(list)), ValuesIn(Rights(list))>>])
ValidateAllPar(n, elements, f) ==
    {ExitFlatMap(exit, [split \in Values |-> IF split[1] = <<>> THEN Success(split[2])
                                             ELSE ExitFail(split[1])]) :
        exit \in PartitionPar(n, elements, f)}
ValidateAllParDiscard(n, elements, f) ==
    {ExitAsUnit(exit) : exit \in ValidateAllPar(n, elements, f)}
ValidateFirstPar(n, elements, f) ==
    {Flip(exit) : exit \in ForEachPar(n, elements, [a \in Values |-> Flip(f[a])])}

(* keys is the order of the entries of the record of effects. *)
StructPar(n, keys, record) ==
    Mapped(ForEachPar(n, keys, record),
           [list \in Values |->
               [k \in ToSet(keys) |-> list[CHOOSE i \in DOMAIN keys : keys[i] = k]]])
TuplePar(n, exits) == CollectAllPar(n, exits)

-----------------------------------------------------------------------------
(* Two effects (circular.ts).                                              *)

ZipWithPar(self, that, f) ==
    {LET both == ExitZipWith(ends[1], ends[2], f, AtOnce) IN
     IF IsSuccess(both) THEN both
     ELSE Failure(Parallel(StripFailures(FailWith(Unit)), both.cause)) :
        ends \in FiberExits(<<self, that>>)}
ZipPar(self, that) == ZipWithPar(self, that, PairOf)
ZipParLeft(self, that) == ZipWithPar(self, that, First)
ZipParRight(self, that) == ZipWithPar(self, that, Second)
ValidateWithPar(self, that, f) ==
    {IF IsSuccess(exit) THEN exit.value ELSE exit :
        exit \in ZipWithPar(Success(self), Success(that),
                            [a \in Values, b \in Values |-> ExitZipWith(a, b, f, AtOnce)])}
ValidatePar(self, that) == ValidateWithPar(self, that, PairOf)

(* A success wins; after a failure the other one is joined. *)
RaceAwait(self, that) ==
    IF ~IsSuccess(self) /\ ~IsSuccess(that) THEN {Failure(Parallel(self.cause, that.cause))}
    ELSE {exit \in {self, that} : IsSuccess(exit)}
RaceEither(self, that) ==
    RaceAwait(ExitMap(self, [a \in {self.value} |-> [tag |-> "Left", value |-> a]]),
              ExitMap(that, [a \in {that.value} |-> [tag |-> "Right", value |-> a]]))
(* The exits race, so that a failure wins too. *)
RaceFirst(self, that) ==
    {exit.value : exit \in RaceAwait(Success(self), Success(that))}

TimeoutTo(self, def, f) == RaceFirst(ExitMap(self, f), Success(def))
Timeout(self) == TimeoutTo(self, None, [a \in Values |-> Some(a)])
TimeoutFailCause(self, cause) ==
    {IF IsSuccess(exit) THEN exit.value ELSE exit :
        exit \in TimeoutTo(self, Failure(cause), [a \in Values |-> Success(a)])}
TimeoutFail(self, error) == TimeoutFailCause(self, FailWith(error))

================================================================================
