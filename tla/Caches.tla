-------------------------------- MODULE Caches --------------------------------
(***************************************************************************)
(* Deferreds (internal/core.ts) and the caches that are built on them:     *)
(* cached effects and memoized functions (internal/effect/circular.ts),    *)
(* Cached values and reloadables (internal/cached.ts, reloadable.ts).  One *)
(* operator per stretch of code that no other fiber interrupts, as a       *)
(* function from the state to the next one and to what it does.            *)
(***************************************************************************)
EXTENDS Integers, Sequences, FiniteSets, SequencesExt

CONSTANT Nothing  \* Option.none

-----------------------------------------------------------------------------
(* Deferreds.  The effect that completes one is an exit, or a name of an   *)
(* effect that everybody who gets it evaluates.                            *)

Pending(joiners) == [tag |-> "pending", joiners |-> joiners]
DoneWith(effect) == [tag |-> "done", effect |-> effect]

DeferredMake == Pending(<<>>)

ExitOf(exit) == [kind |-> "exit", exit |-> exit]
Lazily(name) == [kind |-> "lazy", name |-> name]

(* What an operation does: the next state, its result, and the callbacks   *)
(* it calls, in order.                                                     *)
Does(deferred, result, called) == [deferred |-> deferred, result |-> result, called |-> called]

CompleteWith(deferred, effect) ==
    IF deferred.tag = "done" THEN Does(deferred, FALSE, <<>>)
    ELSE Does(DoneWith(effect), TRUE, deferred.joiners)

(* unsafeDone calls the joiners from the oldest to the newest. *)
UnsafeDone(deferred, effect) ==
    IF deferred.tag = "done" THEN Does(deferred, Nothing, <<>>)
    ELSE Does(DoneWith(effect), Nothing, Reverse(deferred.joiners))

(* succeed, fail, failCause, die, done, interrupt: with an exit. *)
CompleteExit(deferred, exit) == CompleteWith(deferred, ExitOf(exit))

(* sync, failSync, failCauseSync, dieSync: evaluated by each joiner. *)
CompleteSync(deferred, name) == CompleteWith(deferred, Lazily(name))

(* complete and intoDeferred: the effect runs once, in the fiber that      *)
(* completes, and its exit completes whatever it is.                       *)
IntoDeferred(deferred, exit) == CompleteExit(deferred, exit)

Await(deferred, joiner) ==
    IF deferred.tag = "done" THEN Does(deferred, deferred.effect, <<>>)
    ELSE Does(Pending(<<joiner>> \o deferred.joiners), Nothing, <<>>)

InterruptJoiner(deferred, joiner) ==
    IF deferred.tag = "done" THEN deferred
    ELSE Pending(SelectSeq(deferred.joiners, LAMBDA j : j # joiner))

IsDone(deferred) == deferred.tag = "done"
Poll(deferred) == IF deferred.tag = "done" THEN deferred.effect ELSE Nothing

-----------------------------------------------------------------------------
(* cachedInvalidate.  The cache holds the end of its value and the exit of *)
(* the effect; a call reads the clock first and looks at the cache under   *)
(* the lock of the ref, where it also runs the effect.                     *)

EmptyCache == Nothing

Expired(cache, time) == cache = Nothing \/ cache.end - time <= 0

(* The end counts from the time that the caller read. *)
ComputeCachedValue(exit, timeToLive, start) == [end |-> start + timeToLive, exit |-> exit]

GetCachedValue(cache, time, timeToLive, exit) ==
    IF Expired(cache, time) THEN ComputeCachedValue(exit, timeToLive, time) ELSE cache

InvalidateCache(cache) == EmptyCache

-----------------------------------------------------------------------------
(* memoizeFunction: a deferred for each argument.  The fiber that computes *)
(* it is a child of the first caller; a caller that ends interrupts it.    *)

Memoized(memo, argument, caller) ==
    IF argument \in DOMAIN memo THEN memo
    ELSE [a \in DOMAIN memo \cup {argument} |->
             IF a = argument THEN [parent |-> caller, deferred |-> DeferredMake] ELSE memo[a]]

Computed(memo, argument, exit) ==
    [memo EXCEPT ![argument].deferred = IntoDeferred(@, exit).deferred]

CallerEnds(memo, caller) ==
    [a \in DOMAIN memo |->
        IF memo[a].parent = caller /\ ~IsDone(memo[a].deferred)
        THEN Computed(memo, a, "interrupted")[a]
        ELSE memo[a]]

-----------------------------------------------------------------------------
(* Cached values and reloadables: scoped refs.  inner holds the resources  *)
(* in the scope of the ref, outer those in the scope around it.  acquire   *)
(* opens the resource n and may fail afterwards.                           *)

Scoped(exit, inner, outer) == [exit |-> exit, inner |-> inner, outer |-> outer]

IsSuccess(exit) == exit[1] = "success"

(* set: a success closes the scope of the old value and takes the new one, *)
(* a failure closes the new scope.                                         *)
SetScoped(ref, exit, opened, elsewhere) ==
    IF IsSuccess(exit) THEN Scoped(exit, opened, ref.outer \cup elsewhere)
    ELSE [ref EXCEPT !.outer = @ \cup elsewhere]

(* cached.ts, manual: the exit of acquire is the value, success or not. *)
CachedManual(exit, n) == Scoped(exit, {n}, {})

(* refresh: acquire is provided with the environment of manual, and so     *)
(* with the scope that manual found there instead of the one of set.       *)
CachedRefresh(cached, exit, n) == SetScoped(cached, exit, {}, {n})

(* reloadable.ts, manual and reload: the environment is provided around    *)
(* set, which adds its own scope; a layer that fails makes no reloadable.  *)
ReloadableManual(exit, n) == IF IsSuccess(exit) THEN Scoped(exit, {n}, {}) ELSE Nothing
Reload(reloadable, exit, n) == SetScoped(reloadable, exit, {n}, {})

(* auto refreshes by the steps of its policy until a refresh fails; the    *)
(* reload of a reloadable logs the failure and goes on.                    *)
CachedAuto(cached, exits) ==
    LET refreshed[n \in 0 .. Len(exits)] ==
            IF n = 0 THEN cached ELSE CachedRefresh(refreshed[n - 1], exits[n], n + 1)
        failed == {n \in DOMAIN exits : ~IsSuccess(exits[n])}
    IN  refreshed[IF failed = {} THEN Len(exits) ELSE CHOOSE n \in failed : \A m \in failed : n <= m]

ReloadableAuto(reloadable, exits) ==
    LET reloaded[n \in 0 .. Len(exits)] ==
            IF n = 0 THEN reloadable ELSE Reload(reloaded[n - 1], exits[n], n + 1)
    IN  reloaded[Len(exits)]
-----------------------------------------------------------------------------
(* Refs (internal/ref.ts): an operation is modify with a function from the *)
(* value of the ref to a result and the next value, in one step.  A        *)
(* partial function gives Nothing where it is not defined.                 *)

Gives(result, value) == [result |-> result, value |-> value]
OrElse(option, default) == IF option = Nothing THEN default ELSE option

RefModify(v, f) == f[v]
RefGet(v) == Gives(v, v)
RefSet(v, new) == Gives("unit", new)
RefGetAndSet(v, new) == Gives(v, new)
RefSetAndGet(v, new) == Gives(new, new)
RefUpdate(v, f) == Gives("unit", f[v])
RefGetAndUpdate(v, f) == Gives(v, f[v])
RefUpdateAndGet(v, f) == Gives(f[v], f[v])
RefModifySome(v, fallback, pf) == OrElse(pf[v], Gives(fallback, v))
RefUpdateSome(v, pf) == Gives("unit", OrElse(pf[v], v))
RefGetAndUpdateSome(v, pf) == Gives(v, OrElse(pf[v], v))
RefUpdateSomeAndGet(v, pf) == RefGet(OrElse(pf[v], v))

(* Synchronized refs (internal/synchronizedRef.ts): f runs an effect under *)
(* the lock, which may fail; then the failure is the result and the value  *)
(* stays.                                                                  *)

SyncModifyEffect(v, f) ==
    IF IsSuccess(f[v]) THEN Gives(<<"success", f[v][2].result>>, f[v][2].value)
    ELSE Gives(f[v], v)
SyncModify(v, f) == SyncModifyEffect(v, [x \in {v} |-> <<"success", f[x]>>])

(* The effect gives the next value, from which the result is made. *)
LOCAL SyncUpdated(v, exit, Result(_)) ==
    SyncModifyEffect(v, [x \in {v} |->
        IF IsSuccess(exit) THEN <<"success", Gives(Result(exit[2]), exit[2])>> ELSE exit])
SyncUpdateEffect(v, f) == SyncUpdated(v, f[v], LAMBDA new : "unit")
SyncGetAndUpdateEffect(v, f) == SyncUpdated(v, f[v], LAMBDA new : v)
SyncUpdateAndGetEffect(v, f) == SyncUpdated(v, f[v], LAMBDA new : new)

(* Where pf is not defined the effect is a success with the value it has. *)
LOCAL Defined(v, pf) == [x \in {v} |-> OrElse(pf[x], <<"success", x>>)]
SyncModifySomeEffect(v, fallback, pf) ==
    SyncModifyEffect(v, [x \in {v} |-> OrElse(pf[x], <<"success", Gives(fallback, x)>>)])
SyncUpdateSomeEffect(v, pf) == SyncUpdateEffect(v, Defined(v, pf))
SyncGetAndUpdateSomeEffect(v, pf) == SyncGetAndUpdateEffect(v, Defined(v, pf))
SyncUpdateSomeAndGetEffect(v, pf) == SyncUpdateAndGetEffect(v, Defined(v, pf))
===============================================================================
