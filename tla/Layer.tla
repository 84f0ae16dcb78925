--------------------------------- MODULE Layer ---------------------------------
(***************************************************************************)
(* Building layers (internal/layer.ts): an application forks a scope off a *)
(* scope it shares with others, builds a layer into it, uses the services  *)
(* and closes its scope.  A layer is a leaf that acquires a resource, or   *)
(* is composed of two parts: both in parallel (zipWithPar), the second     *)
(* with the services of the first (provideTo), or the second when the      *)
(* first fails (orElse).                                                   *)
(*                                                                         *)
(* The memo map shares what occurs twice.  A layer that is built gets an   *)
(* inner scope, named like the layer; the Deferred of its entry tells      *)
(* those who come later; observers counts for how many scopes it is in     *)
(* use, and who leaves last closes the inner scope.  The Synchronized that *)
(* holds the map makes a look at it atomic (module Synchronized).  Layers  *)
(* that only pass another one on (suspend, the environment of provideTo,   *)
(* the success of a fold) are left out.                                    *)
(***************************************************************************)
EXTENDS Scope, FiniteSets

CONSTANTS
    Leaves,    \* the layers that acquire a resource, which is named likewise
    Fragile,   \* the leaves that may fail
    Composed,  \* the composed layers
    Kinds,     \* the ways considered to compose the parts
    Parts,     \* Parts[l]: the two parts of a composed layer
    Top,       \* the layer the application builds
    Shared,    \* the scope the application forks from
    Extra,     \* a resource in the shared scope
    Other      \* another fiber, which closes the shared scope

Layers == Leaves \cup Composed

ASSUME LeavesAssumption == Leaves \cap Composed = {} /\ Fragile \subseteq Leaves
ASSUME KindsAssumption == Kinds \subseteq [Composed -> {"zipWithPar", "provideTo", "orElse"}]
ASSUME PartsAssumption == Parts \in [Composed -> Layers \X Layers]
ASSUME TopAssumption == Top \in Composed

(* A layer is made from layers that are there before it; those composed    *)
(* are what Top is made of.                                                *)
PartsOf(c) == {Parts[c][1], Parts[c][2]}
ASSUME OrderAssumption ==
    /\ \A S \in SUBSET Layers :
          S # {} => \E l \in S : \A c \in S \cap Composed : l \notin PartsOf(c)
    /\ \A c \in Composed : Top \notin PartsOf(c)

ASSUME NamesAssumption ==
    /\ Scopes = Layers \cup {Shared} /\ Shared \notin Layers /\ IsFiniteSet(Scopes)
    /\ Resources = Leaves \cup {Extra} /\ Extra \notin Leaves

VARIABLES
    kind,         \* how the composed layers are composed, one of Kinds
    memo,         \* the entry of a layer: the state of its Deferred
    observers,    \* observers of the entry
    builder,      \* the call that runs the resource of the entry
    pc,           \* where a call is
    fiber,        \* the fiber a call runs in, named by the first call in it
    interrupted,  \* the fibers that were interrupted
    miscounted    \* history: the layers with an observer that never leaves

layerVars == <<kind, memo, observers, builder, pc, fiber, interrupted, miscounted>>
vars == <<scopeVars, layerVars>>

(* The application's build, and the call of getOrElseMemoize for part i of *)
(* a composed layer, which goes to the inner scope of that layer.          *)
Main == <<Top, 0>>
Call(l, i) == <<l, i>>
Calls == {Call(l, i) : l \in Composed, i \in {1, 2}}
Builds == Calls \cup {Main}

ASSUME FibersAssumption == (Builds \cup {Other}) \cap Scopes = {}

LayerOf(k) == IF k = Main THEN Top ELSE Parts[k[1]][k[2]]
ScopeOf(k) == k[1]

(* "called" before the look at the map; "resource" with the resource of a  *)
(* new entry, "building" in its restore ("acquired" for a leaf), "adding"  *)
(* the release to the scope or "closing" the inner scope after a failure;  *)
(* "awaiting" the Deferred of an entry that was there, "observed" when     *)
(* counted.  The application is "closing" its scope at last, then "left".  *)
Ends == {"ok", "failed", "interrupted"}
Steps == {"idle", "called", "resource", "building", "acquired", "adding",
          "closing", "awaiting", "observed", "left"} \cup Ends

Init ==
    /\ kind \in Kinds
    /\ state = [s \in Scopes |-> IF s = Shared THEN "Running" ELSE "none"]
    /\ finalizers = [s \in Scopes |-> IF s = Shared THEN <<Free(Extra)>> ELSE <<>>]
    /\ running = {}
    /\ acquired = [r \in Resources |-> IF r = Extra THEN 1 ELSE 0]
    /\ released = [r \in Resources |-> 0]
    /\ memo = [l \in Layers |-> "absent"]
    /\ observers = [l \in Layers |-> 0]
    /\ builder = [l \in Layers |-> Main]
    /\ pc = [k \in Builds |-> "idle"]
    /\ fiber = [k \in Builds |-> Main]
    /\ interrupted = {}
    /\ miscounted = {}

-----------------------------------------------------------------------------

Goes(k, step) == pc' = [pc EXCEPT ![k] = step]
Interrupted(k) == fiber[k] \in interrupted
Busy(x) == RunsFor(x) # {}

(* An interrupt that is pending when an uninterruptible region ends. *)
Reverted(k, end) == IF Interrupted(k) THEN "interrupted" ELSE end

(* The parts is of l are called, in the fiber that builds l or their own;  *)
(* the call k that builds l goes to a step.                                *)
Calling(k, step, l, is) ==
    /\ pc' = [j \in Builds |->
          IF j = k THEN step
          ELSE IF j \in {Call(l, i) : i \in is} THEN "called" ELSE pc[j]]
    /\ fiber' = [j \in Builds |->
          IF j \notin {Call(l, i) : i \in is} THEN fiber[j]
          ELSE IF kind[l] = "zipWithPar" THEN j ELSE fiber[k]]

FirstParts(l) == IF kind[l] = "zipWithPar" THEN {1, 2} ELSE {1}

-----------------------------------------------------------------------------
(* The finalizer of an entry.                                              *)

Release(l) == <<"release", l>>

(* An observer of n leaves; the last one closes the inner scope. *)
BeginRelease(m, l, n, by) == IF n = 1 THEN BeginClose(m, l, by) ELSE m

(* Mutant: a release that comes after the scope was closed is dropped. *)
AddReleaseIfOpen(k, n) ==
    LET l == LayerOf(k) IN
    /\ Become(IF state[ScopeOf(k)] = "Running" THEN Add(Maps, ScopeOf(k), Release(l), k) ELSE Maps)
    /\ observers' = [observers EXCEPT ![l] = n]

(* The call k of a layer with n observers adds its release to the scope,   *)
(* or runs it at once.                                                     *)
AddRelease(k, n) ==
    LET l == LayerOf(k) IN
    IF state[ScopeOf(k)] = "Running"
    THEN /\ Become(Add(Maps, ScopeOf(k), Release(l), k))
         /\ observers' = [observers EXCEPT ![l] = n]
    ELSE /\ Become(BeginRelease(Maps, l, n, k))
         /\ observers' = [observers EXCEPT ![l] = n - 1]

(* Then the call succeeds with the layer, after what runs at once. *)
Added(k, n) ==
    /\ AddRelease(k, n)
    /\ IF state[ScopeOf(k)] = "Running"
       THEN /\ memo' = [memo EXCEPT ![LayerOf(k)] = "ok"]
            /\ Goes(k, Reverted(k, "ok"))
       ELSE Goes(k, "adding") /\ UNCHANGED memo

(* releaseAll starts a finalizer of s. *)
RunFinalizer(s) ==
    \E i \in Ready(s) :
        LET fin == finalizers[s][i]
            l == fin[2]
        IN
        /\ IF fin = Release(l)
           THEN /\ Become(BeginRelease(Taken(s, i), l, observers[l], s))
                /\ observers' = [observers EXCEPT ![l] = @ - 1]
           ELSE Become(Begin(Taken(s, i), fin, s)) /\ UNCHANGED observers
        /\ UNCHANGED <<kind, acquired, memo, builder, pc, fiber, interrupted, miscounted>>

EndFinalizer == Finish /\ UNCHANGED layerVars

-----------------------------------------------------------------------------
(* getOrElseMemoize.                                                       *)

(* Mutant: a layer that is being built is not found. *)
LookupDone(k) ==
    /\ pc[k] = "called" /\ ~Interrupted(k)
    /\ IF memo[LayerOf(k)] \in {"absent", "pending"}
       THEN /\ memo' = [memo EXCEPT ![LayerOf(k)] = "pending"]
            /\ builder' = [builder EXCEPT ![LayerOf(k)] = k]
            /\ Goes(k, "resource")
       ELSE Goes(k, "awaiting") /\ UNCHANGED <<memo, builder>>
    /\ UNCHANGED <<kind, scopeVars, observers, fiber, interrupted, miscounted>>

(* The look at the map makes an entry, or finds one. *)
Lookup(k) ==
    /\ pc[k] = "called" /\ ~Interrupted(k)
    /\ IF memo[LayerOf(k)] = "absent"
       THEN /\ memo' = [memo EXCEPT ![LayerOf(k)] = "pending"]
            /\ builder' = [builder EXCEPT ![LayerOf(k)] = k]
            /\ Goes(k, "resource")
       ELSE Goes(k, "awaiting") /\ UNCHANGED <<memo, builder>>
    /\ UNCHANGED <<kind, scopeVars, observers, fiber, interrupted, miscounted>>

(* The resource makes the inner scope and builds the layer in it. *)
StartResource(k) ==
    LET l == LayerOf(k) IN
    /\ pc[k] = "resource" /\ ~Interrupted(k)
    /\ Become(Make(Maps, l))
    /\ IF l \in Composed THEN Calling(k, "building", l, FirstParts(l))
       ELSE Goes(k, "building") /\ UNCHANGED fiber
    /\ UNCHANGED <<kind, acquired, memo, observers, builder, interrupted, miscounted>>

(* An interruptible fiber ends: before it looked at the map or started the *)
(* resource of its entry, which nobody will complete then; waiting for the *)
(* Deferred; or when it is counted and has not added the release yet.      *)
Abandon(k) ==
    /\ pc[k] \in {"called", "resource", "awaiting", "observed"} /\ Interrupted(k)
    /\ Goes(k, "interrupted")
    /\ miscounted' = IF pc[k] = "observed" THEN miscounted \cup {LayerOf(k)} ELSE miscounted
    /\ UNCHANGED <<kind, scopeVars, memo, observers, builder, fiber, interrupted>>

(* Mutant: the Deferred of a failed layer is not completed. *)
BuiltSilently(k, end) ==
    /\ IF k = Main THEN Goes(k, end) /\ UNCHANGED <<scopeVars, memo, observers>>
       ELSE IF end = "ok"
       THEN Added(k, observers[LayerOf(k)] + 1) /\ UNCHANGED acquired
       ELSE /\ Become(BeginClose(Maps, LayerOf(k), k))
            /\ Goes(k, "closing")
            /\ UNCHANGED <<acquired, memo, observers>>
    /\ UNCHANGED <<kind, builder, fiber, interrupted, miscounted>>

(* The layer is built, or not.  A success counts the builder, adds the     *)
(* release and completes the Deferred; a failure completes the Deferred    *)
(* and closes the inner scope.  What runs at once is waited for.           *)
Built(k, end) ==
    /\ IF k = Main THEN Goes(k, end) /\ UNCHANGED <<scopeVars, memo, observers>>
       ELSE IF end = "ok"
       THEN Added(k, observers[LayerOf(k)] + 1) /\ UNCHANGED acquired
       ELSE /\ memo' = [memo EXCEPT ![LayerOf(k)] = end]
            /\ Become(BeginClose(Maps, LayerOf(k), k))
            /\ Goes(k, "closing")
            /\ UNCHANGED <<acquired, observers>>
    /\ UNCHANGED <<kind, builder, fiber, interrupted, miscounted>>

(* The end of the resource, or of a call that found the layer built, when  *)
(* it had to close the inner scope.                                        *)
Return(k) ==
    /\ pc[k] \in {"adding", "closing"} /\ ~Busy(k)
    /\ memo' = [memo EXCEPT ![LayerOf(k)] = IF pc[k] = "adding" THEN "ok" ELSE @]
    /\ Goes(k, Reverted(k, memo'[LayerOf(k)]))
    /\ UNCHANGED <<kind, scopeVars, observers, builder, fiber, interrupted, miscounted>>

(* Mutant: who finds the layer built is not counted. *)
AwaitedUncounted(k) ==
    /\ pc[k] = "awaiting" /\ memo[LayerOf(k)] \in Ends /\ ~Interrupted(k)
    /\ Goes(k, IF memo[LayerOf(k)] = "ok" THEN "observed" ELSE memo[LayerOf(k)])
    /\ UNCHANGED <<kind, scopeVars, memo, observers, builder, fiber, interrupted, miscounted>>

(* The Deferred of the entry was completed. *)
Awaited(k) ==
    LET l == LayerOf(k) IN
    /\ pc[k] = "awaiting" /\ memo[l] \in Ends /\ ~Interrupted(k)
    /\ IF memo[l] = "ok"
       THEN /\ observers' = [observers EXCEPT ![l] = @ + 1]
            /\ Goes(k, "observed")
       ELSE Goes(k, memo[l]) /\ UNCHANGED observers
    /\ UNCHANGED <<kind, scopeVars, memo, builder, fiber, interrupted, miscounted>>

Observed(k) ==
    /\ pc[k] = "observed" /\ ~Interrupted(k)
    /\ Added(k, observers[LayerOf(k)])
    /\ UNCHANGED <<kind, acquired, builder, fiber, interrupted, miscounted>>

-----------------------------------------------------------------------------
(* withScope: how layers are built.                                        *)

(* A leaf acquires its resource, with the release in its inner scope, in   *)
(* an uninterruptible region.                                              *)
Acquire(k) ==
    LET l == LayerOf(k) IN
    /\ pc[k] = "building" /\ l \in Leaves /\ ~Interrupted(k)
    /\ acquired' = [acquired EXCEPT ![l] = @ + 1]
    /\ Become(Add(Maps, l, Free(l), k))
    /\ Goes(k, "acquired")
    /\ UNCHANGED <<kind, memo, observers, builder, fiber, interrupted, miscounted>>

EndLeaf(k) ==
    /\ LayerOf(k) \in Leaves
    /\ \/ pc[k] = "acquired" /\ Built(k, Reverted(k, "ok"))
       \/ pc[k] = "building" /\ Interrupted(k) /\ Built(k, "interrupted")
       \/ pc[k] = "building" /\ LayerOf(k) \in Fragile /\ Built(k, Reverted(k, "failed"))

(* Mutant: zipWithPar is content with one success. *)
OutcomeOfOne(l) ==
    LET one == pc[Call(l, 1)]
        two == pc[Call(l, 2)]
        both == {one, two}
    IN
    CASE kind[l] = "zipWithPar" ->
            IF ~(both \subseteq Ends) THEN {}
            ELSE IF "ok" \in both THEN {"ok"}
            ELSE IF "interrupted" \in both THEN {"interrupted"} ELSE {"failed"}
      [] kind[l] = "provideTo" ->
            IF one \in Ends \ {"ok"} THEN {one} ELSE {two} \cap Ends
      [] kind[l] = "orElse" ->
            IF one \in Ends \ {"failed"} THEN {one} ELSE {two} \cap Ends

(* What became of the parts of l decides on its own end, if it is over.    *)
Outcome(l) ==
    LET one == pc[Call(l, 1)]
        two == pc[Call(l, 2)]
        both == {one, two}
    IN
    CASE kind[l] = "zipWithPar" ->
            IF ~(both \subseteq Ends) THEN {}
            ELSE IF "failed" \in both THEN {"failed"}
            ELSE IF "interrupted" \in both THEN {"interrupted"} ELSE {"ok"}
      [] kind[l] = "provideTo" ->
            IF one \in Ends \ {"ok"} THEN {one} ELSE {two} \cap Ends
      [] kind[l] = "orElse" ->
            IF one \in Ends \ {"failed"} THEN {one} ELSE {two} \cap Ends

EndComposed(k) ==
    LET l == LayerOf(k) IN
    /\ pc[k] = "building" /\ l \in Composed
    /\ \E end \in Outcome(l) : Built(k, Reverted(k, end))

(* The second part is called after the first, or in its place. *)
CallSecond(k) ==
    LET l == LayerOf(k) IN
    /\ pc[k] = "building" /\ l \in Composed
    /\ pc[Call(l, 2)] = "idle"
    /\ pc[Call(l, 1)] = (IF kind[l] = "provideTo" THEN "ok" ELSE "failed")
    /\ IF Interrupted(k) THEN Built(k, "interrupted")
       ELSE /\ Calling(k, "building", l, {2})
            /\ UNCHANGED <<kind, scopeVars, memo, observers, builder, interrupted, miscounted>>

(* zipWithPar interrupts its parts when one did not succeed, or when it is *)
(* interrupted itself, and waits for both.                                 *)
InterruptPart(k, i) ==
    LET l == LayerOf(k)
        part == Call(l, i)
    IN
    /\ pc[k] = "building" /\ l \in Composed /\ kind[l] = "zipWithPar"
    /\ \/ Interrupted(k)
       \/ \E j \in {1, 2} : pc[Call(l, j)] \in {"failed", "interrupted"}
    /\ pc[part] \notin Ends /\ part \notin interrupted
    /\ interrupted' = interrupted \cup {part}
    /\ UNCHANGED <<kind, scopeVars, memo, observers, builder, pc, fiber, miscounted>>

-----------------------------------------------------------------------------
(* The application, and the other fiber.                                   *)

(* It forks its scope, if the shared one is closed already a closed one,   *)
(* and builds the layer.                                                   *)
Start ==
    /\ pc[Main] = "idle"
    /\ Become(Fork(Maps, Shared, Top, Main))
    /\ Calling(Main, "building", Top, FirstParts(Top))
    /\ UNCHANGED <<kind, acquired, memo, observers, builder, interrupted, miscounted>>

(* It is interrupted while it builds or uses the services. *)
Interrupt ==
    /\ pc[Main] = "building" /\ interrupted = {}
    /\ interrupted' = {Main}
    /\ UNCHANGED <<kind, scopeVars, memo, observers, builder, pc, fiber, miscounted>>

(* In any case it closes its scope at last, in an uninterruptible region.  *)
Leave ==
    /\ pc[Main] \in Ends
    /\ Become(BeginClose(Maps, Top, Main))
    /\ Goes(Main, "closing")
    /\ UNCHANGED <<kind, acquired, memo, observers, builder, fiber, interrupted, miscounted>>

Left ==
    /\ pc[Main] = "closing" /\ ~Busy(Main)
    /\ Goes(Main, "left")
    /\ UNCHANGED <<kind, scopeVars, memo, observers, builder, fiber, interrupted, miscounted>>

(* Another fiber closes the shared scope, at any time. *)
CloseShared ==
    /\ state[Shared] = "Running"
    /\ Become(BeginClose(Maps, Shared, Other))
    /\ UNCHANGED <<acquired, layerVars>>

CallStep(k) ==
    \/ Lookup(k) \/ StartResource(k) \/ Abandon(k) \/ Return(k)
    \/ Awaited(k) \/ Observed(k)

BuildStep(k) ==
    \/ Acquire(k) \/ EndLeaf(k) \/ EndComposed(k) \/ CallSecond(k)
    \/ \E i \in {1, 2} : InterruptPart(k, i)

Running ==
    \/ \E k \in Calls : CallStep(k) \/ BuildStep(k)
    \/ BuildStep(Main) \/ Left
    \/ \E s \in Scopes : RunFinalizer(s)
    \/ EndFinalizer

Next == Running \/ Start \/ Interrupt \/ Leave \/ CloseShared

Spec == Init /\ [][Next]_vars

(* Fibers and finalizers go on; nobody has to start, interrupt or close.   *)
FairSpec == Spec /\ WF_vars(Running)

-----------------------------------------------------------------------------
(* Properties.                                                             *)

TypeOK ==
    /\ state \in [Scopes -> {"none", "Running", "Exited"}]
    /\ finalizers \in [Scopes -> Seq(Finalizers \cup {Release(l) : l \in Layers})]
    /\ \A x \in running : x.fin \in Finalizers /\ x.by \in Scopes \cup Builds \cup {Other}
    /\ acquired \in [Resources -> Nat] /\ released \in [Resources -> Nat]
    /\ kind \in Kinds
    /\ memo \in [Layers -> {"absent", "pending"} \cup Ends]
    /\ observers \in [Layers -> Nat]
    /\ builder \in [Layers -> Builds]
    /\ pc \in [Builds -> Steps]
    /\ fiber \in [Builds -> Builds]
    /\ interrupted \in SUBSET Builds
    /\ miscounted \in SUBSET Layers

(* "If the same layer is used twice the layer will only be allocated a     *)
(* single time" (src/src/Layer.ts:12), and no resource is released twice,  *)
(* whoever closes which scope first.                                       *)
AllocatedOnce == \A r \in Resources : released[r] <= acquired[r] /\ acquired[r] <= 1

(* The places of releases of l in scopes, and the calls that are counted   *)
(* and have not added theirs yet.                                          *)
Releases(l) ==
    UNION {{<<s, i>> : i \in {j \in DOMAIN finalizers[s] : finalizers[s][j] = Release(l)}} :
              s \in Scopes}
Observing(l) == {k \in Calls : LayerOf(k) = l /\ pc[k] = "observed"}

(* observers counts the releases that are still to come.                   *)
ObserversWillRelease ==
    \A l \in Layers \ miscounted :
        observers[l] = Cardinality(Releases(l)) + Cardinality(Observing(l))

(* Layers acquire resources that are "safely released when the services    *)
(* are done being utilized" (src/src/Layer.ts:9-10): while the application *)
(* uses the layer and nobody closed its scope, all the services are there. *)
SafelyReleased ==
    pc[Main] = "ok" /\ state[Top] = "Running" =>
        \A l \in Leaves : acquired[l] > 0 => Held(l)

(* It is so when there is no second way that may find in the map what the  *)
(* first one has released.                                                 *)
OneWay == \A c \in Composed : kind[c] # "orElse"
ServicesLive == OneWay => SafelyReleased

(* When both parts succeeded, the layer is taken down in order, unless in  *)
(* parallel: what a leaf was provided with outlives the leaf, if that is   *)
(* used in this place only, and what the shared scope had before the fork  *)
(* outlives both, unless the application closes its scope itself: then the *)
(* shared scope does not wait for it.                                      *)
SoleUse(l, c) == \A e \in Composed : l \in PartsOf(e) => e = c /\ Parts[e][1] # l
Provided(l) ==
    {d \in Leaves : \E c \in Composed \ Parallel :
        kind[c] = "provideTo" /\ Parts[c] = <<d, l>> /\ SoleUse(l, c)}

DependentsFirst ==
    OneWay /\ (\A i \in {1, 2} : pc[Call(Top, i)] = "ok") =>
        \A l \in Leaves :
            /\ \A d \in Provided(l) : released[d] = 1 => Freed(l)
            /\ Shared \notin Parallel /\ released[Extra] = 1 =>
                  Freed(l) \/ pc[Main] \in {"closing", "left"}

(* When the scope of the application is closed and all builds have ended,  *)
(* nothing is left over, unless an observer was lost; and the shared scope *)
(* keeps the finalizer of a fork exactly as long as the fork has one that  *)
(* takes it away: closed forks do not pile up.                             *)
LeavesFreed ==
    Closed(Top) /\ pc[Main] \notin {"idle", "building"} =>
        \A l \in Leaves : (miscounted = {}) => Freed(l)

ForksDetach ==
    state[Shared] = "Running" =>
        (Has(Maps, Shared, Close(Top)) <=>
            (Has(Maps, Top, Detach(Top, Shared))))

NothingLeftOver == LeavesFreed /\ ForksDetach

(* Every build ends, although builders are interrupted, fail and wait for  *)
(* each other.  Only a second way may wait for an entry that was abandoned *)
(* before the resource started.                                            *)
Orphaned(l) == memo[l] = "pending" /\ pc[builder[l]] = "interrupted"

BuildsEnd ==
    pc[Main] = "building" ~>
        \/ pc[Main] \in Ends
        \/ kind[Top] = "orElse" /\ \E l \in Layers : Orphaned(l)
===============================================================================
