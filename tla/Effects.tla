------------------------------- MODULE Effects -------------------------------
(* What an effect does when one fiber runs it: the constructors and        *)
(* combinators of src/src/internal/core.ts by their result, and then those *)
(* that src/src/internal/effect.ts builds from them.  An effect is a       *)
(* function from the world it starts in to its exit and the world it       *)
(* leaves.  A world holds what the effects logged, the values of the fiber *)
(* refs, the Interruption flag and whether the fiber is interrupted; signal *)
(* counts the operations until an interrupt signal is drained, 0 when none *)
(* is to come: the run loop drains its queue before every operation.  heard *)
(* is the length of the log when the signal was drained, for properties.   *)
(* Asynchronous operations, yields and tracing are left out: FiberRuntime  *)
(* models how a fiber waits.                                               *)
EXTENDS Exits

CONSTANTS Events, Refs, RefValues, Environment,
          (* More of the algebra of causes, see Cause. *)
          Empty, Interruptors(_), StripFailures(_), KeepDefects(_), IsInterruptedOnly(_),
          Nothing,
          Defects(_), FlattenedCause(_), Squash(_), IsEmpty(_),
          Annotations,     \* the fiber ref of log annotations, a map
          Spans,           \* the fiber ref of log spans, a sequence
          Labels,          \* the fiber ref of metric labels, a set
          Undefined,       \* what an exhausted iterator gives
          LoopStates       \* what loops run over

World ==
    [log : Seq(Events \X BOOLEAN), refs : [Refs -> RefValues], signal : Nat, heard : Nat,
     interruptible : BOOLEAN, interrupted : BOOLEAN]

Unit == "unit"
Left(value) == [tag |-> "Left", value |-> value]
Right(value) == [tag |-> "Right", value |-> value]

(* Who interrupts the fiber is one fiber id; the cause the fiber gathers.  *)
InterruptedCause == InterruptedBy("other")

-----------------------------------------------------------------------------
(* The operations of the run loop (fiberRuntime.ts).                       *)

Ended(exit, w) == [exit |-> exit, world |-> w]
MustStop(w) == w.interruptible /\ w.interrupted

Drain(w) == [w EXCEPT !.signal = IF @ = 0 THEN 0 ELSE @ - 1,
                      !.interrupted = @ \/ w.signal = 1,
                      !.heard = IF w.signal = 1 THEN Len(w.log) ELSE @]

(* An operation is replaced by a failure when the signal arrives before it *)
(* in an interruptible region; what it does else is a function of the world. *)
Operation(effect) ==
    [w \in World |->
        LET now == Drain(w) IN
        IF w.signal = 1 /\ now.interruptible THEN Ended(Failure(InterruptedCause), now)
        ELSE effect[now]]

Succeed(value) == Operation([w \in World |-> Ended(Success(value), w)])
FailCause(cause) == Operation([w \in World |-> Ended(Failure(cause), w)])
(* Constructors as the functions that the combinators take. *)
Succeeding == [a \in Values |-> Succeed(a)]
FailingCause == [cause \in Values |-> FailCause(cause)]
Same == [a \in Values |-> a]
ToSome == [a \in Values |-> Some(a)]
ToLeft == [a \in Values |-> Left(a)]
ToRight == [a \in Values |-> Right(a)]
(* An exit is an effect itself. *)
Exited(exit) == IF IsSuccess(exit) THEN Succeed(exit.value) ELSE FailCause(exit.cause)

(* OP_SYNC that is seen in the log, with the flag under which it ran. *)
Log(event, value) ==
    Operation([w \in World |->
        Ended(Success(value), [w EXCEPT !.log = Append(@, <<event, w.interruptible>>)])])

(* OP_ON_SUCCESS: a failure passes the frame. *)
FlatMap(self, f) ==
    Operation([w \in World |->
        LET r == self[w] IN IF IsSuccess(r.exit) THEN f[r.exit.value][r.world] ELSE r])

(* A slip: every failure is handled. *)
HandledAlways(r, onFailure) == onFailure[r.exit.cause][r.world]

(* OP_ON_FAILURE, OP_ON_SUCCESS_AND_FAILURE: a handler is not run by a     *)
(* fiber that is interrupted where it is interruptible.                    *)
Handled(r, onFailure) ==
    IF MustStop(r.world) THEN FailCause(StripFailures(r.exit.cause))[r.world]
    ELSE onFailure[r.exit.cause][r.world]

MatchCauseEffect(self, onFailure, onSuccess) ==
    Operation([w \in World |->
        LET r == self[w] IN
        IF IsSuccess(r.exit) THEN onSuccess[r.exit.value][r.world] ELSE Handled(r, onFailure)])

CatchAllCause(self, f) ==
    Operation([w \in World |->
        LET r == self[w] IN IF IsSuccess(r.exit) THEN r ELSE Handled(r, f)])

(* A slip: what was held back is forgotten. *)
RevertedOnly(r, flag) == Exited(r.exit)[[r.world EXCEPT !.interruptible = flag]]

(* OP_REVERT_FLAGS: the flags are what they were, and an interruption that *)
(* was held back is noticed.                                               *)
Reverted(r, flag) ==
    LET back == [r.world EXCEPT !.interruptible = flag] IN
    IF IsSuccess(r.exit)
    THEN IF MustStop(back) THEN FailCause(InterruptedCause)[back] ELSE Succeed(r.exit.value)[back]
    ELSE FailCause(IF MustStop(back) THEN Sequential(r.exit.cause, InterruptedCause)
                   ELSE r.exit.cause)[back]

(* OP_UPDATE_RUNTIME_FLAGS with a scope, which is given the old flag. *)
WithInterruption(flag, scope) ==
    Operation([w \in World |->
        IF w.interruptible = flag THEN scope[flag][w]
        ELSE IF flag /\ w.interrupted THEN FailCause(InterruptedCause)[w]
        ELSE Reverted(scope[~flag][[w EXCEPT !.interruptible = flag]], ~flag)])

(* OP_WHILE with a body for each element; what is made of their results. *)
WhileEach(elements, body, made) ==
    Operation([w \in World |->
        LET Turn(r, a) ==
                IF ~IsSuccess(r.exit) THEN r
                ELSE LET next == body[a][r.world] IN
                     IF IsSuccess(next.exit)
                     THEN Ended(Success(Append(r.exit.value, next.exit.value)), next.world)
                     ELSE next
            loop == FoldLeft(Turn, Ended(Success(<<>>), w), elements)
        IN  IF IsSuccess(loop.exit) THEN Succeed(made[loop.exit.value])[loop.world] ELSE loop])

(* OP_WITH_RUNTIME: the effect sees the fiber. *)
WithFiberRuntime(f) == Operation([w \in World |-> f[w][w]])

-----------------------------------------------------------------------------
(* Combinators.                                                            *)

Sync(value) == Succeed(value)
SuspendSucceed(effect) == FlatMap(Sync(Unit), [x \in Values |-> effect])
Done(exit) == SuspendSucceed(Exited(exit))
UnitEffect == Succeed(Unit)
As(self, value) == FlatMap(self, [a \in Values |-> Succeed(value)])
AsUnit(self) == As(self, Unit)
Map(self, f) == FlatMap(self, [a \in Values |-> Sync(f[a])])
Tap(self, f) == FlatMap(self, [a \in Values |-> As(f[a], a)])
ZipPair(self, that) == FlatMap(self, [a \in Values |-> Map(that, [b \in Values |-> <<a, b>>])])
ZipWith(self, that, f) ==
    FlatMap(self, [a \in Values |-> Map(that, [b \in Values |-> f[a, b]])])
ZipLeft(self, that) == FlatMap(self, [a \in Values |-> As(that, a)])
ZipRight(self, that) == FlatMap(self, [a \in Values |-> that])
IfEffect(self, onTrue, onFalse) ==
    FlatMap(self, [b \in Values |-> IF b THEN onTrue ELSE onFalse])
WhenEffect(effect, predicate) ==
    FlatMap(predicate, [b \in Values |-> IF b THEN Map(effect, ToSome) ELSE Succeed(None)])

Fail(error) == FailCause(FailWith(error))
Failing == [e \in Values |-> Fail(e)]
DieWith(defect) == FailCause(Die(defect))
FailCauseSync(cause) == FlatMap(Sync(cause), FailingCause)
FailSync(error) == FailCauseSync(FailWith(error))
DieSync(defect) == FailCauseSync(Die(defect))
Interrupt == FlatMap(WithFiberRuntime([w \in Values |-> Succeed("self")]),
                     [id \in Values |-> FailCause(InterruptedBy(id))])
FromOption(option) == IF option.tag = "None" THEN Fail(None) ELSE Succeed(option.value)
FromEither(either) == IF either.tag = "Left" THEN Fail(either.value) ELSE Succeed(either.value)

(* failureOrCause: the first error, alone, or a cause that has none. *)
OnError(cause, f) ==
    IF Failures(cause) # <<>> THEN f[Head(Failures(cause))] ELSE FailCause(cause)

MatchEffect(self, onFailure, onSuccess) ==
    MatchCauseEffect(self, [cause \in Values |-> OnError(cause, onFailure)], onSuccess)
MatchCause(self, onFailure, onSuccess) ==
    MatchCauseEffect(self, [c \in Values |-> Succeed(onFailure[c])],
                     [a \in Values |-> Succeed(onSuccess[a])])
CatchAll(self, f) == MatchEffect(self, f, Succeeding)
(* What a partial function gives, an option of an effect. *)
GetOrElse(option, default) == IF option.tag = "None" THEN default ELSE option.value
CatchSome(self, pf) ==
    MatchCauseEffect(self, [cause \in Values |->
        OnError(cause, [e \in Values |-> GetOrElse(pf[e], FailCause(cause))])], Succeeding)
MapError(self, f) ==
    MatchCauseEffect(self, [cause \in Values |->
        OnError(cause, [e \in Values |-> FailSync(f[e])])], Succeeding)
Flip(self) == MatchEffect(self, Succeeding, Failing)
EitherOf(self) ==
    MatchEffect(self, [e \in Values |-> Succeed(Left(e))], [a \in Values |-> Succeed(Right(a))])
ExitOf(self) == MatchCause(self, [c \in Values |-> Failure(c)], [a \in Values |-> Success(a)])
OrDieWith(self, f) == MatchEffect(self, [e \in Values |-> DieWith(f[e])], Succeeding)
OrDie(self) == OrDieWith(self, Same)

TryOrElse(self, that, onSuccess) ==
    MatchCauseEffect(self,
        [cause \in Values |->
            IF KeepDefects(cause) = Nothing THEN that ELSE FailCause(KeepDefects(cause))],
        onSuccess)
OrElse(self, that) == TryOrElse(self, that, Succeeding)

-----------------------------------------------------------------------------
(* Regions and finalizers.                                                 *)

Interruptible(self) == WithInterruption(TRUE, [old \in BOOLEAN |-> self])
Uninterruptible(self) == WithInterruption(FALSE, [old \in BOOLEAN |-> self])
Restore(old, effect) == IF old THEN Interruptible(effect) ELSE Uninterruptible(effect)
(* f is given the flag to restore, for Restore. *)
UninterruptibleMask(f) == WithInterruption(FALSE, f)
InterruptibleMask(f) == WithInterruption(TRUE, f)
CheckInterruptible(f) == WithFiberRuntime([w \in Values |-> f[w.interruptible]])

OnExit(self, cleanup) ==
    UninterruptibleMask([old \in BOOLEAN |->
        MatchCauseEffect(Restore(old, self),
            [cause1 \in Values |->
                MatchCauseEffect(cleanup[Failure(cause1)],
                    [cause2 \in Values |-> FailCause(Sequential(cause1, cause2))],
                    [x \in Values |-> FailCause(cause1)])],
            [value \in Values |-> ZipRight(cleanup[Success(value)], Succeed(value))])])
(* ensuring of fiberRuntime.ts. *)
Ensuring(self, finalizer) == OnExit(self, [exit \in Values |-> finalizer])

OnErrorCause(self, cleanup) ==
    OnExit(self, [exit \in Values |->
        IF IsSuccess(exit) THEN UnitEffect ELSE cleanup[exit.cause]])
OnInterrupt(self, cleanup) ==
    OnExit(self, [exit \in Values |->
        IF ~IsSuccess(exit) /\ IsInterruptedOnly(exit.cause)
        THEN AsUnit(cleanup[Interruptors(exit.cause)]) ELSE UnitEffect])

(* A slip: only the use and the release are masked. *)
AcquireUnmasked(acquire, use, release) ==
    FlatMap(acquire, [a \in Values |->
        UninterruptibleMask([old \in BOOLEAN |->
            FlatMap(ExitOf(Restore(old, use[a])),
                    [exit \in Values |-> ZipRight(release[a, exit], Exited(exit))])])])

AcquireUseRelease(acquire, use, release) ==
    UninterruptibleMask([old \in BOOLEAN |->
        FlatMap(acquire, [a \in Values |->
            FlatMap(ExitOf(SuspendSucceed(Restore(old, use[a]))),
                    [exit \in Values |->
                        MatchCauseEffect(SuspendSucceed(release[a, exit]),
                            [cause \in Values |-> FailCause(IF IsSuccess(exit) THEN cause
                                                           ELSE Parallel(exit.cause, cause))],
                            [x \in Values |-> Exited(exit)])])])])

-----------------------------------------------------------------------------
(* Fiber refs, the environment among them.                                 *)

(* f gives a result and the new value. *)
FiberRefModify(ref, f) ==
    Operation([w \in World |->
        Succeed(f[w.refs[ref]][1])[[w EXCEPT !.refs[ref] = f[@][2]]]])
FiberRefModifySome(ref, default, pf) ==
    FiberRefModify(ref, [v \in Values |-> GetOrElse(pf[v], <<default, v>>)])
FiberRefGet(ref) == FiberRefModify(ref, [v \in Values |-> <<v, v>>])
FiberRefSet(ref, value) == FiberRefModify(ref, [v \in Values |-> <<Unit, value>>])
FiberRefGetAndSet(ref, value) == FiberRefModify(ref, [v \in Values |-> <<v, value>>])
FiberRefGetAndUpdate(ref, f) == FiberRefModify(ref, [v \in Values |-> <<v, f[v]>>])
FiberRefGetAndUpdateSome(ref, pf) ==
    FiberRefModify(ref, [v \in Values |-> <<v, GetOrElse(pf[v], v)>>])
FiberRefUpdate(ref, f) == FiberRefModify(ref, [v \in Values |-> <<Unit, f[v]>>])
FiberRefUpdateSome(ref, pf) ==
    FiberRefModify(ref, [v \in Values |-> <<Unit, GetOrElse(pf[v], v)>>])
FiberRefUpdateAndGet(ref, f) == FiberRefModify(ref, [v \in Values |-> <<f[v], f[v]>>])
FiberRefUpdateSomeAndGet(ref, pf) ==
    FiberRefModify(ref, [v \in Values |-> <<GetOrElse(pf[v], v), GetOrElse(pf[v], v)>>])
FiberRefGetWith(ref, f) == FlatMap(FiberRefGet(ref), f)
(* A slip: the value is restored after a success. *)
LocallyOnSuccess(use, ref, value) ==
    FlatMap(ZipLeft(FiberRefGet(ref), FiberRefSet(ref, value)),
            [old \in Values |-> ZipLeft(use, FiberRefSet(ref, old))])
FiberRefLocally(use, ref, value) ==
    AcquireUseRelease(ZipLeft(FiberRefGet(ref), FiberRefSet(ref, value)),
                      [a \in Values |-> use],
                      [a \in Values, exit \in Values |-> FiberRefSet(ref, a)])
FiberRefLocallyWith(use, ref, f) ==
    FiberRefGetWith(ref, [a \in Values |-> FiberRefLocally(use, ref, f[a])])

EnvironmentWithEffect(f) == FlatMap(SuspendSucceed(FiberRefGet(Environment)), f)
ProvideEnvironment(self, env) == FiberRefLocally(self, Environment, env)
ProvideSomeEnvironment(self, f) ==
    EnvironmentWithEffect([env \in Values |-> ProvideEnvironment(self, f[env])])
(* An environment maps its tags to services. *)
ServiceWithEffect(service, f) ==
    SuspendSucceed(FlatMap(FiberRefGet(Environment), [env \in Values |-> f[env[service]]]))
ServiceWith(service, f) == ServiceWithEffect(service, [a \in Values |-> Sync(f[a])])

-----------------------------------------------------------------------------
(* Traversals.                                                             *)

ForEach(elements, f) ==
    SuspendSucceed(FlatMap(WhileEach(elements, f, Same), Succeeding))
ForEachDiscard(elements, f) ==
    SuspendSucceed(WhileEach(elements, f, [results \in Values |-> Unit]))

(* The lefts and the rights of f, in the order of the elements. *)
PartitionMap(elements, f) ==
    FoldRight(LAMBDA a, split :
                  IF f[a].tag = "Left" THEN <<<<f[a].value>> \o split[1], split[2]>>
                  ELSE <<split[1], <<f[a].value>> \o split[2]>>,
              elements, <<<<>>, <<>>>>)

-----------------------------------------------------------------------------
(* The combinators of effect.ts: on errors and defects, options and        *)
(* eithers, conditions, services and regions of log annotations, and the   *)
(* traversals.  A lazy argument is its value, a partial function gives an  *)
(* option, and what runs may throw is an either: its right, or what it     *)
(* throws on the left.                                                     *)

-----------------------------------------------------------------------------
(* Results.                                                                *)

AsSome(self) == Map(self, ToSome)
AsLeft(self) == Map(self, ToLeft)
AsRight(self) == Map(self, ToRight)
AsSomeError(self) == MapError(self, ToSome)
AsLeftError(self) == MapError(self, ToLeft)
AsRightError(self) == MapError(self, ToRight)
SucceedNone == Succeed(None)
SucceedSome(value) == Succeed(Some(value))
SucceedLeft(value) == Succeed(Left(value))
SucceedRight(value) == Succeed(Right(value))

Attempt(outcome) ==
    Operation([w \in World |->
        IF outcome.tag = "Right" THEN Succeed(outcome.value)[w] ELSE Fail(outcome.value)[w]])
TryCatch(outcome, onThrow) ==
    Attempt(IF outcome.tag = "Left" THEN Left(onThrow[outcome.value]) ELSE outcome)
MapTryCatch(self, f, onThrow) == FlatMap(self, [a \in Values |-> TryCatch(f[a], onThrow)])
Suspend(outcome) == FlatMap(Attempt(outcome), Same)
Cond(predicate, result, error) ==
    SuspendSucceed(IF predicate THEN Sync(result) ELSE FailSync(error))
FromEitherCause(either) ==
    IF either.tag = "Left" THEN FailCause(either.value) ELSE Succeed(either.value)
GetOrFailWith(option, error) ==
    IF option.tag = "None" THEN FailSync(error) ELSE Succeed(option.value)
GetOrFail(option) == GetOrFailWith(option, "NoSuchElementException")
GetOrFailDiscard(option) == GetOrFailWith(option, Unit)
NoneOrFail(option) == Flip(GetOrFailDiscard(option))
NoneOrFailWith(option, f) == MapError(Flip(GetOrFailDiscard(option)), f)

Match(self, onFailure, onSuccess) ==
    MatchEffect(self, [e \in Values |-> Succeed(onFailure[e])],
                [a \in Values |-> Succeed(onSuccess[a])])
OptionOf(self) ==
    MatchEffect(self, [e \in Values |-> Succeed(None)], [a \in Values |-> Succeed(Some(a))])
Merge(self) == MatchEffect(self, Succeeding, Succeeding)
Ignore(self) == Match(self, [e \in Values |-> Unit], [a \in Values |-> Unit])
Fails(self) == Match(self, [e \in Values |-> TRUE], [a \in Values |-> FALSE])
Succeeds(self) == Match(self, [e \in Values |-> FALSE], [a \in Values |-> TRUE])
Negate(self) == Map(self, [b \in Values |-> ~b])
MapBoth(self, f, g) ==
    MatchEffect(self, [e \in Values |-> FailSync(f[e])], [a \in Values |-> Sync(g[a])])
ForEachEffect(self, f) ==
    MatchCauseEffect(self, [cause \in Values |-> Succeed(None)],
                     [a \in Values |-> Map(f[a], ToSome)])
ForEachOption(option, f) ==
    IF option.tag = "None" THEN Succeed(None) ELSE Map(f[option.value], ToSome)
Summarized(self, summary, f) ==
    FlatMap(summary, [start \in Values |->
        FlatMap(self, [value \in Values |->
            Map(summary, [end \in Values |-> <<f[start, end], value>>])])])
TimedWith(self, clock) ==
    Summarized(self, clock, [start \in Values, end \in Values |-> end - start])
Bind(self, name, f) ==
    FlatMap(self, [k \in Values |-> Map(f[k], [a \in Values |-> (name :> a) @@ k])])
BindValue(self, name, f) == Map(self, [k \in Values |-> (name :> f[k]) @@ k])

-----------------------------------------------------------------------------
(* Errors, defects and causes.                                             *)

Sandbox(self) == MatchCauseEffect(self, Failing, Succeeding)
MapErrorCause(self, f) ==
    MatchCauseEffect(self, [c \in Values |-> FailCauseSync(f[c])], Succeeding)
Unsandbox(self) == MapErrorCause(self, [c \in Values |-> FlattenedCause(c)])
CauseOf(self) == MatchCause(self, Same, [a \in Values |-> Empty])
Uncause(self) ==
    FlatMap(self, [c \in Values |-> IF IsEmpty(c) THEN UnitEffect ELSE FailCause(c)])
FlipWith(self, f) == Flip(f[Flip(self)])
(* squashWith: the first error, after f, before any defect. *)
SquashWith(cause, f) ==
    IF Failures(cause) # <<>> THEN f[Head(Failures(cause))] ELSE Squash(cause)
AbsorbWith(self, f) ==
    MatchEffect(Sandbox(self), [c \in Values |-> Fail(SquashWith(c, f))], Succeeding)

Catch(self, isKind, f) == CatchAll(self, [e \in Values |-> IF isKind[e] THEN f[e] ELSE Fail(e)])
CatchTag(self, k, f) == CatchAll(self, [e \in Values |-> IF e.tag = k THEN f[e] ELSE Fail(e)])
CatchSomeCause(self, pf) ==
    MatchCauseEffect(self, [cause \in Values |->
        GetOrElse(pf[cause], FailCause(cause))], Succeeding)
OrDieKeep(self) ==
    MatchCauseEffect(self, [cause \in Values |->
        FailCause(FlatMapCause(cause, [e \in ToSet(Failures(cause)) |-> Die(e)]))], Succeeding)
ParallelErrors(self) ==
    MatchCauseEffect(self, [cause \in Values |->
        IF Failures(cause) = <<>> THEN FailCause(cause) ELSE Fail(Failures(cause))], Succeeding)
RefineOrDieWith(self, pf, f) ==
    CatchAll(self, [e \in Values |->
        IF pf[e].tag = "None" THEN DieWith(f[e]) ELSE Fail(pf[e].value)])
RefineOrDie(self, pf) == RefineOrDieWith(self, pf, Same)

(* The first defect that pf takes becomes the error; else f maps the errors. *)
UnrefineWith(self, pf, f) ==
    CatchAllCause(self, [cause \in Values |->
        LET taken == SelectSeq(Defects(cause), LAMBDA d : pf[d].tag = "Some") IN
        IF taken = <<>> THEN FailCause(MapCause(cause, f)) ELSE Fail(pf[Head(taken)].value)])
Unrefine(self, pf) == UnrefineWith(self, pf, Same)
Resurrect(self) == UnrefineWith(self, ToSome, Same)
CatchSomeDefect(self, pf) == CatchAll(UnrefineWith(self, pf, Failing), Same)
CatchAllDefect(self, f) == CatchSomeDefect(self, [defect \in Values |-> Some(f[defect])])

OrElseEither(self, that) ==
    TryOrElse(self, Map(that, ToRight), [a \in Values |-> Succeed(Left(a))])
OrElseFail(self, error) == OrElse(self, FailSync(error))
OrElseSucceed(self, value) == OrElse(self, Sync(value))
OrElseOptional(self, that) ==
    CatchAll(self, [option \in Values |->
        IF option.tag = "None" THEN that ELSE Fail(Some(option.value))])
FlattenErrorOption(self, fallback) ==
    MapError(self, [option \in Values |-> GetOrElse(option, fallback)])

-----------------------------------------------------------------------------
(* Taps: an effect on the way.                                             *)

TapWithError(cause, f) ==
    IF Failures(cause) = <<>> THEN FailCause(cause)
    ELSE ZipRight(f[Head(Failures(cause))], FailCause(cause))
TapError(self, f) ==
    MatchCauseEffect(self, [cause \in Values |-> TapWithError(cause, f)], Succeeding)
TapBoth(self, f, g) ==
    MatchCauseEffect(self, [cause \in Values |-> TapWithError(cause, f)],
                     [a \in Values |-> As(g[a], a)])
TapEither(self, f) ==
    MatchCauseEffect(self,
                     [cause \in Values |-> TapWithError(cause, [e \in Values |-> f[Left(e)]])],
                     [a \in Values |-> As(f[Right(a)], a)])
TapErrorCause(self, f) ==
    MatchCauseEffect(self, [cause \in Values |->
        ZipRight(f[cause], FailCause(cause))], Succeeding)
TapDefect(self, f) ==
    CatchAllCause(self, [cause \in Values |->
        LET defects == KeepDefects(cause) IN
        IF defects = Nothing THEN FailCause(cause) ELSE ZipRight(f[defects], FailCause(cause))])
TapSome(self, pf) ==
    Tap(self, [a \in Values |-> IF pf[a].tag = "None" THEN UnitEffect ELSE AsUnit(pf[a].value)])

-----------------------------------------------------------------------------
(* Options and eithers in the result or in the error.                      *)

FilterOrElseWith(self, p, orElseOf) ==
    FlatMap(self, [a \in Values |-> IF p[a] THEN Succeed(a) ELSE orElseOf[a]])
FilterOrElse(self, p, that) == FilterOrElseWith(self, p, [a \in Values |-> that])
FilterOrDie(self, p, defect) == FilterOrElse(self, p, DieSync(defect))
FilterOrFail(self, p, error) == FilterOrElse(self, p, FailSync(error))
ContinueOrFailEffect(self, error, pf) ==
    FlatMap(self, [value \in Values |-> GetOrElse(pf[value], Fail(error))])
ContinueOrFail(self, error, pf) ==
    ContinueOrFailEffect(self, error,
        [a \in Values |-> IF pf[a].tag = "None" THEN None ELSE Some(Succeed(pf[a].value))])
RejectEffect(self, pf) ==
    FlatMap(self, [a \in Values |->
        IF pf[a].tag = "None" THEN Succeed(a) ELSE FlatMap(pf[a].value, Failing)])
Reject(self, pf) ==
    RejectEffect(self, [a \in Values |->
        IF pf[a].tag = "None" THEN None ELSE Some(Fail(pf[a].value))])

SomeOrElse(self, default) == Map(self, [option \in Values |-> GetOrElse(option, default)])
SomeOrElseEffect(self, that) ==
    FlatMap(self, [option \in Values |->
        IF option.tag = "None" THEN that ELSE Succeed(option.value)])
SomeOrFail(self, error) ==
    FlatMap(self, [option \in Values |->
        IF option.tag = "None" THEN FlatMap(Sync(error), Failing) ELSE Succeed(option.value)])
NoneOf(self) ==
    MatchEffect(self, [e \in Values |-> Fail(Some(e))],
                [option \in Values |-> IF option.tag = "None" THEN UnitEffect ELSE Fail(None)])
HeadOf(self) ==
    MatchEffect(self, [e \in Values |-> Fail(Some(e))],
                [as \in Values |-> IF as = <<>> THEN Fail(None) ELSE Succeed(Head(as))])

LeftOf(self) ==
    MatchEffect(self, [e \in Values |-> Fail(Left(e))],
                [either \in Values |-> IF either.tag = "Left" THEN Succeed(either.value)
                                       ELSE Fail(Right(either.value))])
RightOf(self) ==
    MatchEffect(self, [e \in Values |-> Fail(Right(e))],
                [either \in Values |-> IF either.tag = "Left" THEN Fail(Left(either.value))
                                       ELSE Succeed(either.value)])
Unleft(self) ==
    MatchEffect(self, [either \in Values |-> IF either.tag = "Left" THEN Fail(either.value)
                                            ELSE Succeed(either)],
                [a \in Values |-> SucceedLeft(a)])
Unright(self) ==
    MatchEffect(self, [either \in Values |-> IF either.tag = "Left" THEN SucceedLeft(either.value)
                                            ELSE Fail(either.value)],
                [a \in Values |-> SucceedRight(a)])
LeftWith(self, f) == SuspendSucceed(Unleft(f[LeftOf(self)]))
RightWith(self, f) == SuspendSucceed(Unright(f[RightOf(self)]))

-----------------------------------------------------------------------------
(* Conditions.                                                             *)

When(self, predicate) == SuspendSucceed(IF predicate THEN Map(self, ToSome) ELSE Succeed(None))
Unless(self, predicate) == SuspendSucceed(IF predicate THEN SucceedNone ELSE AsSome(self))
UnlessEffect(self, predicate) ==
    FlatMap(predicate, [b \in Values |-> IF b THEN SucceedNone ELSE AsSome(self)])
WhenCase(value, pf) ==
    FlatMap(Sync(value), [a \in Values |->
        IF pf[a].tag = "None" THEN SucceedNone ELSE AsSome(pf[a].value)])
WhenCaseEffect(self, pf) == FlatMap(self, [a \in Values |-> WhenCase(a, pf)])
WhenFiberRef(self, ref, p) ==
    FlatMap(FiberRefGet(ref), [s \in Values |->
        IF p[s] THEN Map(self, [a \in Values |-> <<s, Some(a)>>]) ELSE Succeed(<<s, None>>)])
(* fresh is a ref that holds TRUE until the first run. *)
Once(self, fresh) == AsUnit(WhenEffect(self, FiberRefGetAndSet(fresh, FALSE)))
AllowInterrupt ==
    WithFiberRuntime([w \in Values |-> IF w.interrupted THEN Interrupt ELSE UnitEffect])

ExitFlatMapEffect(exit, f) == IF IsSuccess(exit) THEN f[exit.value] ELSE Succeed(exit)
ExitForEachEffect(exit, f) == IF IsSuccess(exit) THEN ExitOf(f[exit.value]) ELSE Succeed(exit)
ExitMatchEffect(exit, onFailure, onSuccess) ==
    IF IsSuccess(exit) THEN onSuccess[exit.value] ELSE onFailure[exit.cause]

ValidateWith(self, that, f) ==
    FlatMap(ZipWith(ExitOf(self), ExitOf(that), [ea \in Values, eb \in Values |->
                ExitZipWith(ea, eb, f, InSequence)]),
            [exit \in Values |-> Exited(exit)])
Validate(self, that) == ValidateWith(self, that, [a \in Values, b \in Values |-> <<a, b>>])

-----------------------------------------------------------------------------
(* Services and regions.                                                   *)

ProvideServiceEffect(self, service, effect) ==
    EnvironmentWithEffect([env \in Values |->
        FlatMap(effect, [s \in Values |-> ProvideEnvironment(self, (service :> s) @@ env)])])
ProvideService(self, service, resource) ==
    ProvideServiceEffect(self, service, Succeed(resource))
UpdateService(self, service, f) ==
    ProvideSomeEnvironment(self, [env \in Values |-> (service :> f[env[service]]) @@ env])
LogAnnotate(self, key, value) ==
    FlatMap(FiberRefGet(Annotations), [annotations \in Values |->
        SuspendSucceed(FiberRefLocally(self, Annotations, (key :> value) @@ annotations))])
LogSpan(self, label, clock) ==
    FlatMap(FiberRefGet(Spans), [stack \in Values |->
        FlatMap(clock, [time \in Values |->
            SuspendSucceed(FiberRefLocally(self, Spans, <<<<label, time>>>> \o stack))])])
TaggedWithLabelSet(self, labels) ==
    FiberRefLocallyWith(self, Labels, [set \in Values |-> set \cup labels])

-----------------------------------------------------------------------------
(* Traversals: effects for the elements of a sequence, one after another.  *)
(* What the code builds by a reduce, or by recursion on an iterator, is a  *)
(* fold; a loop over values of its own is a recursive function on them.    *)

Prepended(s, b) == <<b>> \o s

-----------------------------------------------------------------------------
(* Elements that are effects: f gives the effect of an element.            *)

CollectAll(effects, f) == ForEach(effects, f)
CollectAllDiscard(effects, f) == ForEachDiscard(effects, f)
CollectAllWith(effects, f, pf) ==
    Map(CollectAll(effects, f), [chunk \in Values |->
        FoldRight(LAMBDA a, rest :
                      IF pf[a].tag = "None" THEN rest ELSE Prepended(rest, pf[a].value),
                  chunk, <<>>)])
CollectAllSuccesses(effects, f) ==
    CollectAllWith(effects, [a \in Values |-> ExitOf(f[a])],
                   [exit \in Values |-> IF IsSuccess(exit) THEN Some(exit.value) ELSE None])
MergeAll(effects, f, zero, g) ==
    FoldLeft(LAMBDA acc, a : ZipWith(acc, f[a], g), Succeed(zero), effects)
ReduceAll(effects, f, zero, g) ==
    FoldLeft(LAMBDA acc, a : ZipWith(acc, f[a], g), zero, effects)
FirstSuccessOf(effects, f) ==
    SuspendSucceed(IF effects = <<>> THEN DieSync("IllegalArgumentException")
                   ELSE FoldLeft(LAMBDA left, a : OrElse(left, f[a]),
                                 f[Head(effects)], Tail(effects)))
ReplicateEffect(self, n) == CollectAll([i \in 1 .. n |-> i], [i \in Values |-> self])
ReplicateEffectDiscard(self, n) ==
    CollectAllDiscard([i \in 1 .. n |-> i], [i \in Values |-> self])

-----------------------------------------------------------------------------
(* Choosing elements.                                                      *)

(* pf gives the effect of an element, or none.  The results are zipped from *)
(* the last element to the first, and collectWhile stops at the first that *)
(* it meets on this way.                                                   *)
ZipOnto(result, effect) ==
    ZipWith(result, effect, [list \in Values, b \in Values |-> Prepended(list, b)])
OnlyOne(option) ==
    IF option.tag = "None" THEN Succeed(<<>>) ELSE Map(option.value, [b \in Values |-> <<b>>])
CollectAllWithEffect(elements, pf) ==
    IF Len(elements) = 0 THEN Succeed(<<>>)
    ELSE IF Len(elements) = 1 THEN OnlyOne(pf[elements[1]])
    ELSE Map(FoldRight(LAMBDA a, result :
                           IF pf[a].tag = "None" THEN result ELSE ZipOnto(result, pf[a].value),
                       elements, Succeed(<<>>)),
             Same)
CollectWhile(elements, pf) ==
    LET ends == {i \in 1 .. Len(elements) : pf[elements[i]].tag = "None"}
        last == IF ends = {} THEN 0 ELSE CHOOSE i \in ends : \A j \in ends : j <= i
    IN  IF Len(elements) = 0 THEN Succeed(<<>>)
        ELSE IF Len(elements) = 1 THEN OnlyOne(pf[elements[1]])
        ELSE Map(FoldRight(LAMBDA a, result : ZipOnto(result, pf[a].value),
                           SubSeq(elements, last + 1, Len(elements)), Succeed(<<>>)),
                 Same)

CollectFirst(elements, f) ==
    SuspendSucceed(
        FoldRight(LAMBDA a, rest :
                      FlatMap(f[a], [option \in Values |->
                          IF option.tag = "None" THEN rest ELSE Succeed(option)]),
                  elements, Succeed(None)))
Find(elements, p) ==
    SuspendSucceed(
        FoldRight(LAMBDA a, rest :
                      FlatMap(p[a], [b \in Values |-> IF b THEN Succeed(Some(a)) ELSE rest]),
                  elements, Succeed(None)))
Exists(elements, p) ==
    SuspendSucceed(
        FoldRight(LAMBDA a, rest :
                      FlatMap(p[a], [b \in Values |-> IF b THEN Succeed(b) ELSE rest]),
                  elements, Succeed(FALSE)))
ForAll(elements, p) ==
    SuspendSucceed(
        FoldRight(LAMBDA a, rest :
                      FlatMap(p[a], [b \in Values |-> IF b THEN rest ELSE Succeed(b)]),
                  elements, Succeed(TRUE)))
(* The predicate runs for the last element first. *)
Filter(elements, p) ==
    SuspendSucceed(
        FoldRight(LAMBDA a, effect :
                      ZipWith(effect, SuspendSucceed(p[a]),
                              [list \in Values, b \in Values |->
                                  IF b THEN Prepended(list, a) ELSE list]),
                  elements, Sync(<<>>)))
FilterNot(elements, p) == Filter(elements, [a \in Values |-> Map(p[a], [b \in Values |-> ~b])])

(* The builder and the flag go through the fold as a pair. *)
DropUntil(elements, p) ==
    SuspendSucceed(
        Map(FoldLeft(LAMBDA dropping, a :
                         FlatMap(dropping, [s \in Values |->
                             IF s.flag THEN Succeed([s EXCEPT !.kept = Append(@, a)])
                             ELSE Map(p[a], [b \in Values |-> [s EXCEPT !.flag = b]])]),
                     Succeed([flag |-> FALSE, kept |-> <<>>]), elements),
            [s \in Values |-> s.kept]))
DropWhile(elements, p) ==
    SuspendSucceed(
        Map(FoldLeft(LAMBDA dropping, a :
                         FlatMap(dropping, [s \in Values |->
                             Map(IF s.flag THEN p[a] ELSE Succeed(FALSE), [b \in Values |->
                                 [flag |-> b,
                                  kept |-> IF b THEN s.kept ELSE Append(s.kept, a)]])]),
                     Succeed([flag |-> TRUE, kept |-> <<>>]), elements),
            [s \in Values |-> s.kept]))
TakeWhile(elements, p) ==
    SuspendSucceed(
        Map(FoldLeft(LAMBDA taking, a :
                         FlatMap(taking, [s \in Values |->
                             Map(IF s.flag THEN p[a] ELSE Succeed(FALSE), [b \in Values |->
                                 [flag |-> b,
                                  kept |-> IF b THEN Append(s.kept, a) ELSE s.kept]])]),
                     Succeed([flag |-> TRUE, kept |-> <<>>]), elements),
            [s \in Values |-> s.kept]))

-----------------------------------------------------------------------------
(* Folding.                                                                *)

Reduce(elements, zero, f) ==
    FoldLeft(LAMBDA acc, a : FlatMap(acc, [z \in Values |-> f[z, a]]), Succeed(zero), elements)
ReduceRight(elements, zero, f) ==
    FoldRight(LAMBDA a, acc : FlatMap(acc, [z \in Values |-> f[a, z]]), elements, Succeed(zero))
(* The functions of every turn look at one variable, which is exhausted    *)
(* when they run; the predicate is never asked.                            *)
ReduceWhile(elements, zero, p, f) ==
    FoldLeft(LAMBDA acc, a : FlatMap(acc, [z \in Values |-> f[z, Undefined]]),
             Succeed(zero), elements)
MapAccum(elements, zero, f) ==
    SuspendSucceed(
        FoldLeft(LAMBDA acc, a :
                     FlatMap(acc, [s \in Values |->
                         Map(f[s[1], Undefined],
                             [step \in Values |-> <<step[1], Append(s[2], step[2])>>])]),
                 Succeed(<<zero, <<>>>>), elements))
ForEachWithIndex(elements, f) ==
    SuspendSucceed(
        Map(SuspendSucceed(
                WhileEach([i \in DOMAIN elements |-> i],
                          [i \in Values |-> Map(f[elements[i], i - 1], Same)], Same)),
            Same))

Partition(elements, f) ==
    Map(ForEach(elements, [a \in Values |-> EitherOf(f[a])]),
        [chunk \in Values |-> PartitionMap(chunk, Same)])
ValidateAll(elements, f) ==
    FlatMap(Partition(elements, f), [split \in Values |->
        IF split[1] = <<>> THEN Succeed(split[2]) ELSE Fail(split[1])])
ValidateAllDiscard(elements, f) ==
    FlatMap(Partition(elements, f), [split \in Values |->
        IF split[1] = <<>> THEN UnitEffect ELSE Fail(split[1])])
ValidateFirst(elements, f) == Flip(ForEach(elements, [a \in Values |-> Flip(f[a])]))

-----------------------------------------------------------------------------
(* Loops.                                                                  *)

Iterate(initial, cont, body) ==
    LET iterate[z \in LoopStates] ==
            SuspendSucceed(IF cont[z] THEN FlatMap(body[z], [z2 \in Values |-> iterate[z2]])
                           ELSE Succeed(z))
    IN  iterate[initial]
Loop(initial, cont, inc, body) ==
    LET loop[z \in LoopStates] ==
            SuspendSucceed(IF cont[z]
                           THEN FlatMap(body[z], [a \in Values |->
                               Map(loop[inc[z]], [rest \in Values |-> Prepended(rest, a)])])
                           ELSE Sync(<<>>))
    IN  loop[initial]
LoopDiscard(initial, cont, inc, body) ==
    LET loop[z \in LoopStates] ==
            SuspendSucceed(IF cont[z] THEN FlatMap(body[z], [a \in Values |-> loop[inc[z]]])
                           ELSE UnitEffect)
    IN  loop[initial]
(* f gives an element and the next state, or none. *)
Unfold(s, f) ==
    LET unfold[p \in LoopStates \X Seq(LoopStates)] ==
            FlatMap(f[p[1]], [option \in Values |->
                IF option.tag = "None" THEN Succeed(p[2])
                ELSE unfold[<<option.value[2], Prepended(p[2], option.value[1])>>]])
    IN  Map(unfold[<<s, <<>>>>], [list \in Values |-> Reverse(list)])

==============================================================================
